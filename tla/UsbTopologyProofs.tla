-------------------------- MODULE UsbTopologyProofs --------------------------
(***************************************************************************)
(* Proofs about the list of USB devices, their addresses, and the agreement *)
(* of the list with what is plugged into the ports, for any number of hubs, *)
(* devices, ports and list entries, and for plugging and unplugging at any  *)
(* moment.                                                                  *)
(***************************************************************************)
EXTENDS UsbTopology, TLAPS, WellFoundedInduction, FiniteSetTheorems,
        SequenceTheorems

(* The running loops: only the innermost one is inside a port, and its      *)
(* device is being initialised only if there is an entry for it.            *)
Steps == {"look", "gone", "came", "check", "reset", "enable", "ack", "clear", "final", "desc",
          "addr", "conf"}
Resting == {"look", "reset"}
Levels == [dev : Cells \cup {Root}, polls : BOOLEAN, port : Nat, st : Steps, new : Cells \cup {Null}]
Sound(e) ==
  /\ e \in Levels
  /\ e.st \in {"desc", "addr", "conf"} => e.new \in Cells
  /\ e.st = "enable" => e.dev = Root
  /\ e.st \notin Resting => e.port \in Ports(e.dev)
StackInv ==
  /\ stack \in Seq(Levels)
  /\ \A i \in 1 .. Len(stack) : Sound(stack[i])
  /\ \A i \in 1 .. Len(stack) - 1 : stack[i].st \in Resting

(* The ports and devices, the entries, and UsbPoll. *)
PortTypes ==
  /\ at \in [Locs -> Devs \cup {Null}] /\ change \in [Locs -> BOOLEAN]
  /\ enabled \in [Locs -> BOOLEAN] /\ fresh \in [Locs -> BOOLEAN] /\ lost \subseteq Locs
  /\ devAddr \in [Devs -> Nat] /\ nextAddr \in Nat /\ faults \in Nat
  /\ \A d \in Devs : devAddr[d] <= nextAddr

Entry == [port : Nat, addr : Nat, hub : BOOLEAN, from : Locs \cup {Null}]
ListTypes ==
  /\ cell \in [Cells -> Entry] /\ \A c \in Cells : cell[c].addr <= nextAddr
  /\ live \subseteq Cells /\ next \in [Cells -> Cells \cup {Null, Wild}]
  /\ head \in live \cup {Null}

PollTypes ==
  /\ main \in {"boot", "ports", "devices", "wild"} /\ cursor \in Cells \cup {Null, Wild}
  /\ Running /\ main = "devices" => cursor \in Cells
  /\ main = "wild" => ~Running

Types == StackInv /\ PortTypes /\ ListTypes /\ PollTypes

-----------------------------------------------------------------------------
(* What the field of a queue head holds, of any address, and of those that  *)
(* were given out while all went well.                                      *)
LEMMA FieldIs ==
  /\ Field(0) = 0 /\ ~Wide(0)
  /\ \A a \in Nat : Field(a) \in Nat /\ Field(a) <= a /\ (~Wide(a) => Field(a) = a)
  BY TopologyAssumption DEF Field, Wide

LEMMA FieldHolds ==
  ASSUME Smooth, nextAddr \in Nat, NEW a \in Nat, a <= nextAddr PROVE Field(a) = a /\ ~Wide(a)
  BY TopologyAssumption DEF Field, Wide, Smooth

(* The innermost loop is on the stack. *)
LEMMA TopIsSound ==
  ASSUME StackInv, Running
  PROVE  /\ Top = stack[Len(stack)] /\ Len(stack) \in Nat /\ Len(stack) >= 1
         /\ Sound(Top) /\ Top \in Levels
  BY DEF StackInv, Running, Top, Last, Sound

(* Its step, its port, or its entry changes, and nothing else on the stack. *)
LEMMA PutTop ==
  ASSUME StackInv, Running, NEW e, Sound(e), stack' = [stack EXCEPT ![Len(stack)] = e]
  PROVE  StackInv' /\ Running' /\ Top' = e /\ Len(stack') = Len(stack)
  <1>1. Len(stack) \in Nat /\ Len(stack) >= 1 /\ e \in Levels
    BY TopIsSound DEF Sound
  <1>2. stack' \in Seq(Levels) /\ Len(stack') = Len(stack) /\ stack'[Len(stack)] = e
    BY <1>1 DEF StackInv
  <1>3. \A i \in 1 .. Len(stack) - 1 : stack'[i] = stack[i]
    BY <1>1 DEF StackInv
  <1>4. \A i \in 1 .. Len(stack) : i = Len(stack) \/ i \in 1 .. Len(stack) - 1
    BY <1>1
  <1>5. \A i \in 1 .. Len(stack) - 1 : i \in 1 .. Len(stack)
    BY <1>1
  <1>6. \A i \in 1 .. Len(stack) : Sound(stack'[i])
    BY <1>2, <1>3, <1>4, <1>5 DEF StackInv
  <1>7. StackInv'
    BY <1>2, <1>3, <1>6 DEF StackInv
  <1>8. Running' /\ Top' = e
    BY <1>1, <1>2 DEF Running, Top, Last
  <1> QED BY <1>2, <1>7, <1>8

(* Goto, and going on with the next port. *)
LEMMA GotoKeeps ==
  ASSUME StackInv, Running, NEW st \in Steps, Goto(st),
         st \in {"desc", "addr", "conf"} => Top.new \in Cells,
         st = "enable" => Top.dev = Root,
         st \notin Resting => Top.port \in Ports(Top.dev)
  PROVE  /\ StackInv' /\ Running' /\ Len(stack') = Len(stack)
         /\ Top'.st = st /\ Top'.dev = Top.dev /\ Top'.port = Top.port /\ Top'.new = Top.new
         /\ Top'.polls = Top.polls
  <1> DEFINE e == [Top EXCEPT !.st = st]
  <1>1. stack' = [stack EXCEPT ![Len(stack)] = e]
    BY TopIsSound DEF Goto
  <1>2. /\ e \in Levels /\ e.st = st /\ e.dev = Top.dev /\ e.port = Top.port /\ e.new = Top.new
        /\ e.polls = Top.polls
    BY TopIsSound DEF Levels
  <1>3. Sound(e)
    BY <1>2 DEF Sound
  <1> HIDE DEF e
  <1> QED BY <1>1, <1>2, <1>3, PutTop

LEMMA LoopIsSound ==
  ASSUME NEW k \in Cells \cup {Root}, NEW polls \in BOOLEAN, NEW p \in Nat,
         NEW e, e = [Loop(k, polls) EXCEPT !.port = p] \/ (p = 0 /\ e = Loop(k, polls))
  PROVE  /\ Sound(e) /\ e \in Levels /\ e.dev = k /\ e.port = p /\ e.st \in Resting
         /\ e.polls = polls /\ e.new = Null
  BY DEF Loop, Levels, Steps, Resting, Sound

LEMMA NextPortKeeps ==
  ASSUME StackInv, Running, NextPort
  PROVE  /\ StackInv' /\ Running' /\ Len(stack') = Len(stack)
         /\ Top' = [Loop(Top.dev, Top.polls) EXCEPT !.port = Top.port + 1]
         /\ Top'.st \in Resting /\ Top'.dev = Top.dev /\ Top'.port = Top.port + 1
  <1> DEFINE e == [Loop(Top.dev, Top.polls) EXCEPT !.port = Top.port + 1]
  <1>1. stack' = [stack EXCEPT ![Len(stack)] = e]
    BY DEF NextPort, AfterPort
  <1>2. Top.dev \in Cells \cup {Root} /\ Top.polls \in BOOLEAN /\ Top.port + 1 \in Nat
    BY TopIsSound DEF Levels
  <1>3. Sound(e) /\ e.st \in Resting /\ e.dev = Top.dev /\ e.port = Top.port + 1
    BY <1>2 DEF Loop, Levels, Steps, Resting, Sound
  <1> HIDE DEF e
  <1>4. StackInv' /\ Running' /\ Len(stack') = Len(stack) /\ Top' = e
    BY <1>1, <1>3, PutTop
  <1> QED BY <1>3, <1>4 DEF e

(* A loop starts inside another, or by itself, and ends. *)
LEMMA NestKeeps ==
  ASSUME StackInv, Running, NEW k \in Cells, stack' = Append(AfterPort, Loop(k, FALSE))
  PROVE  /\ StackInv' /\ Running' /\ Len(stack') = Len(stack) + 1
         /\ Top' = Loop(k, FALSE) /\ Top'.st \in Resting
  <1> DEFINE n == Len(stack)
             e == [Loop(Top.dev, Top.polls) EXCEPT !.port = Top.port + 1]
             f == Loop(k, FALSE)
             s == AfterPort
  <1>1. n \in Nat /\ n >= 1 /\ s = [stack EXCEPT ![n] = e]
    BY TopIsSound DEF AfterPort
  <1>2. Top.dev \in Cells \cup {Root} /\ Top.polls \in BOOLEAN /\ Top.port + 1 \in Nat
    BY TopIsSound DEF Levels
  <1>3. Sound(e) /\ e.st \in Resting /\ e \in Levels
    BY <1>2 DEF Loop, Levels, Steps, Resting, Sound
  <1>4. Sound(f) /\ f.st \in Resting /\ f \in Levels
    BY LoopIsSound
  <1>5. stack' = Append(s, f) /\ f = Loop(k, FALSE) /\ stack \in Seq(Levels)
    BY DEF StackInv
  <1> HIDE DEF e, f, s, n
  <1>6. n = Len(stack)
    BY DEF n
  <1>7. /\ s \in Seq(Levels) /\ Len(s) = n /\ s[n] = e
        /\ \A i \in 1 .. n - 1 : s[i] = stack[i]
    BY ONLY <1>1, <1>3, <1>5, <1>6
  <1>8. /\ stack' \in Seq(Levels) /\ Len(stack') = n + 1 /\ stack'[n + 1] = f
        /\ \A i \in 1 .. n : stack'[i] = s[i]
    <2>1. Append(s, f) \in Seq(Levels) /\ Len(Append(s, f)) = n + 1
      BY ONLY <1>1, <1>4, <1>7
    <2>2. Append(s, f)[n + 1] = f /\ \A i \in 1 .. n : Append(s, f)[i] = s[i]
      BY ONLY <1>1, <1>4, <1>7
    <2> QED BY ONLY <1>5, <2>1, <2>2
  <1>9. \A i \in 1 .. n : stack'[i] = e \/ (i \in 1 .. n - 1 /\ stack'[i] = stack[i])
    BY ONLY <1>1, <1>7, <1>8
  <1>10. \A i \in 1 .. n - 1 : i \in 1 .. n
    BY <1>1
  <1>11. \A i \in 1 .. n : Sound(stack'[i]) /\ stack'[i].st \in Resting
    BY <1>3, <1>6, <1>9, <1>10 DEF StackInv
  <1>12. \A i \in 1 .. n + 1 : i \in 1 .. n \/ i = n + 1
    BY <1>1
  <1>13. (n + 1) - 1 = n
    BY <1>1
  <1>14. StackInv'
    BY <1>4, <1>8, <1>11, <1>12, <1>13 DEF StackInv
  <1>15. stack' # <<>>
    BY ONLY <1>1, <1>8
  <1>16. Running' /\ Top' = f
    BY <1>8, <1>15 DEF Running, Top, Last
  <1> QED BY <1>4, <1>5, <1>6, <1>8, <1>14, <1>16

LEMMA StartKeeps ==
  ASSUME NEW k \in Cells \cup {Root}, NEW polls \in BOOLEAN, stack' = <<Loop(k, polls)>>
  PROVE  StackInv' /\ Running' /\ Top' = Loop(k, polls) /\ Top'.st \in Resting /\ Len(stack') = 1
  <1> DEFINE f == Loop(k, polls)
  <1>1. Sound(f) /\ f.st \in Resting /\ f \in Levels
    BY LoopIsSound
  <1>2. stack' = <<f>> /\ f = Loop(k, polls)
    OBVIOUS
  <1> HIDE DEF f
  <1>3. stack' \in Seq(Levels) /\ Len(stack') = 1 /\ stack'[1] = f /\ stack' # <<>>
    BY <1>1, <1>2
  <1>4. StackInv'
    BY <1>1, <1>3 DEF StackInv
  <1>5. Running' /\ Top' = f
    BY <1>3 DEF Running, Top, Last
  <1> QED BY <1>1, <1>2, <1>3, <1>4, <1>5

LEMMA FrontOf ==
  ASSUME NEW S, NEW s \in Seq(S), s # <<>>, NEW t, t = Front(s)
  PROVE  /\ t \in Seq(S) /\ Len(t) = Len(s) - 1 /\ Len(s) \in Nat \ {0}
         /\ \A i \in 1 .. Len(s) - 1 : t[i] = s[i]
         /\ t = <<>> <=> Len(s) = 1
  <1>1. Len(s) \in Nat \ {0} /\ t = SubSeq(s, 1, Len(s) - 1)
    BY DEF Front
  <1>2. SubSeq(s, 1, Len(s) - 1) \in Seq(S)
    BY ONLY <1>1, s \in Seq(S)
  <1>3. Len(SubSeq(s, 1, Len(s) - 1)) = Len(s) - 1
    <2>1. Len(s) - 1 \in Nat /\ \A i \in 1 .. Len(s) - 1 : s[i] \in S
      BY ONLY <1>1, s \in Seq(S)
    <2>2. Len(SubSeq(s, 1, Len(s) - 1)) = IF 1 <= Len(s) - 1 THEN (Len(s) - 1) - 1 + 1 ELSE 0
      BY ONLY <2>1, SubSeqProperties
    <2> DEFINE m == Len(s) - 1
               n == Len(SubSeq(s, 1, Len(s) - 1))
    <2>3. m \in Nat /\ n = IF 1 <= m THEN m - 1 + 1 ELSE 0
      BY ONLY <2>1, <2>2
    <2> HIDE DEF m, n
    <2>4. n = m
      BY ONLY <2>3
    <2> QED BY ONLY <2>4 DEF m, n
  <1>4. \A i \in 1 .. Len(s) - 1 : SubSeq(s, 1, Len(s) - 1)[i] = s[i]
    BY ONLY <1>1, s \in Seq(S)
  <1>5. t \in Seq(S) /\ Len(t) = Len(s) - 1 /\ \A i \in 1 .. Len(s) - 1 : t[i] = s[i]
    BY ONLY <1>1, <1>2, <1>3, <1>4
  <1>6. t = <<>> <=> Len(t) = 0
    BY ONLY <1>5
  <1> QED BY <1>1, <1>5, <1>6

LEMMA EndKeeps ==
  ASSUME StackInv, Running, stack' = Front(stack)
  PROVE  /\ StackInv' /\ Len(stack') = Len(stack) - 1
         /\ Running' <=> Len(stack) > 1
         /\ Running' => Top' = stack[Len(stack) - 1] /\ Top'.st \in Resting
  <1>1. stack \in Seq(Levels) /\ stack # <<>>
    BY DEF StackInv, Running
  <1>2. /\ stack' \in Seq(Levels) /\ Len(stack') = Len(stack) - 1 /\ Len(stack) \in Nat \ {0}
        /\ \A i \in 1 .. Len(stack) - 1 : stack'[i] = stack[i]
        /\ stack' = <<>> <=> Len(stack) = 1
    BY <1>1, FrontOf
  <1>3. \A i \in 1 .. Len(stack) - 1 : i \in 1 .. Len(stack)
    BY <1>2
  <1>4. \A i \in 1 .. (Len(stack) - 1) - 1 : i \in 1 .. Len(stack) - 1
    BY <1>2
  <1>5. StackInv'
    BY <1>2, <1>3, <1>4 DEF StackInv
  <1>6. Running' <=> Len(stack) > 1
    BY <1>2 DEF Running
  <1>7. Len(stack) > 1 => Len(stack) - 1 \in 1 .. Len(stack) - 1
    BY <1>2
  <1>8. Len(stack) > 1 => Top' = stack[Len(stack) - 1] /\ stack[Len(stack) - 1].st \in Resting
    BY <1>2, <1>7 DEF Top, Last, StackInv
  <1> QED BY <1>2, <1>5, <1>6, <1>8

-----------------------------------------------------------------------------
(* The port a request arrives at, if any. *)
LEMMA SeenIsLoc ==
  ASSUME StackInv, Running, Top.port \in Ports(Top.dev), NEW l \in PortSeen
  PROVE  /\ l \in Locs /\ l[2] = Top.port
         /\ Top.dev = Root => l = <<Root, Top.port>>
         /\ Top.dev # Root => l[1] \in Hubs /\ l[1] \in Answers(cell[Top.dev].addr)
  <1>1. Top.dev \in Cells \cup {Root}
    BY TopIsSound DEF Levels
  <1>2. CASE Top.dev = Root
    <2>1. l = <<Root, Top.port>> /\ Root \in {Root} \cup Hubs
      BY <1>2 DEF PortSeen
    <2>2. l \in {Root} \X Ports(Root)
      BY <1>2, <2>1
    <2>3. l \in Locs
      BY <2>1, <2>2 DEF Locs
    <2> QED BY <1>2, <2>1, <2>3
  <1>3. CASE Top.dev # Root
    <2>1. PICK h \in Answers(cell[Top.dev].addr) \cap Hubs : l = <<h, Top.port>>
      BY <1>3 DEF PortSeen
    <2>2. h # Root
      BY TopologyAssumption DEF Devs
    <2>3. Ports(h) = Ports(Top.dev)
      BY <1>3, <2>2 DEF Ports
    <2>4. l \in {h} \X Ports(h) /\ h \in {Root} \cup Hubs
      BY <2>1, <2>3
    <2>5. l \in Locs
      BY <2>4 DEF Locs
    <2> QED BY <1>3, <2>1, <2>5
  <1> QED BY <1>2, <1>3

LEMMA RootLoc ==
  ASSUME NEW p \in Ports(Root) PROVE <<Root, p>> \in Locs
  <1>1. <<Root, p>> \in {Root} \X Ports(Root) /\ Root \in {Root} \cup Hubs
    OBVIOUS
  <1> QED BY <1>1 DEF Locs

(* A reset of a port keeps the types. *)
LEMMA PortResetTypes ==
  ASSUME PortTypes, NEW l \in Locs, PortReset(l)
  PROVE  /\ enabled' \in [Locs -> BOOLEAN] /\ change' \in [Locs -> BOOLEAN]
         /\ devAddr' \in [Devs -> Nat] /\ \A d \in Devs : devAddr'[d] <= nextAddr
  <1>1. /\ enabled' = [k \in Locs |-> IF k = l THEN at[l] # Null ELSE enabled[k] /\ k[1] # at[l]]
        /\ change' = [k \in Locs |-> IF k[1] = at[l] THEN at[k] # Null ELSE change[k]]
        /\ devAddr' = [d \in Devs |-> IF d = at[l] THEN 0 ELSE devAddr[d]]
    BY DEF PortReset
  <1>2. \A k \in Locs : /\ (IF k = l THEN at[l] # Null ELSE enabled[k] /\ k[1] # at[l]) \in BOOLEAN
                        /\ (IF k[1] = at[l] THEN at[k] # Null ELSE change[k]) \in BOOLEAN
    BY Zenon DEF PortTypes
  <1>3. enabled' \in [Locs -> BOOLEAN] /\ change' \in [Locs -> BOOLEAN]
    BY <1>1, <1>2, Zenon
  <1>4. devAddr' \in [Devs -> Nat] /\ \A d \in Devs : devAddr'[d] <= nextAddr
    BY <1>1 DEF PortTypes
  <1> QED BY <1>3, <1>4

(* A step inside a port leaves UsbPoll where it was. *)
LEMMA PollStays ==
  ASSUME PollTypes, Running, Running', UNCHANGED poll PROVE PollTypes'
  BY DEF PollTypes, poll

(* External events. *)
LEMMA WorldTypes == Types /\ World => Types'
  <1> SUFFICES ASSUME Types, NEW l \in Sockets, Unplug(l) \/ \E d \in Devs : Plug(d, l) PROVE Types'
    BY DEF World
  <1>1. l \in Locs
    BY TopologyAssumption
  <1>2. UNCHANGED <<stack, main, cursor, cell, live, next, head, devAddr, nextAddr, faults>>
    BY DEF Unplug, Plug, list, poll
  <1>3. StackInv' /\ ListTypes' /\ PollTypes'
    BY <1>2 DEF Types, StackInv, ListTypes, PollTypes, Running
  <1>4. at' \in [Locs -> Devs \cup {Null}] /\ fresh' \in [Locs -> BOOLEAN]
    <2>1. at \in [Locs -> Devs \cup {Null}] /\ fresh \in [Locs -> BOOLEAN]
      BY DEF Types, PortTypes
    <2>2. fresh' = [fresh EXCEPT ![l] = TRUE]
      BY DEF Unplug, Plug, Disturbed
    <2>3. \E d \in Devs \cup {Null} : at' = [at EXCEPT ![l] = d]
      BY DEF Unplug, Plug
    <2> QED BY <1>1, <2>1, <2>2, <2>3
  <1>5. change' \in [Locs -> BOOLEAN] /\ enabled' \in [Locs -> BOOLEAN] /\ lost' \subseteq Locs
    <2>1. CASE Unplug(l)
      BY <1>1, <2>1 DEF Unplug, Types, PortTypes, Powered
    <2>2. ASSUME NEW d \in Devs, Plug(d, l)
          PROVE  change' \in [Locs -> BOOLEAN] /\ enabled' \in [Locs -> BOOLEAN] /\ lost' \subseteq Locs
      BY <1>1, <2>2 DEF Plug, Types, PortTypes, Powered
    <2> QED BY <2>1, <2>2
  <1>6. PortTypes'
    BY <1>2, <1>4, <1>5 DEF Types, PortTypes
  <1> QED BY <1>3, <1>6 DEF Types

(* The reset of a port. *)
LEMMA ResetTypes == Types /\ ResetPort /\ ~FinalStatus => Types'
  <1> SUFFICES ASSUME Types, RootReset \/ RootEnable \/ HubReset \/ HubAck \/ HubClear PROVE Types'
    BY DEF ResetPort
  <1>1. /\ Running /\ Top.port \in Ports(Top.dev) /\ Top.st \in {"reset", "enable", "ack", "clear"}
        /\ StackInv /\ PortTypes /\ ListTypes /\ PollTypes
        /\ UNCHANGED <<at, lost, nextAddr, faults>> \/ HubClear
        /\ UNCHANGED <<cell, live, next, head, main, cursor, nextAddr, at>>
    BY DEF RootReset, RootEnable, HubReset, HubAck, HubClear, InPort, Types, world, list, poll, ports
  <1>2. \E st \in {"enable", "final", "ack", "clear"} :
           Goto(st) /\ (st = "enable" => Top.dev = Root)
    BY DEF RootReset, RootEnable, HubReset, HubAck, HubClear
  <1>3. StackInv' /\ Running'
    BY <1>1, <1>2, GotoKeeps DEF Steps, Resting
  <1>4. PollTypes' /\ ListTypes'
    BY <1>1, <1>3, PollStays DEF ListTypes, poll
  <1>5. PortTypes'
    <2>1. CASE RootReset
      BY <1>1, <2>1 DEF RootReset, PortTypes, world
    <2>2. CASE RootEnable
      <3>1. Top.dev = Root
        BY <1>1, <2>2, TopIsSound DEF RootEnable, InPort, Sound
      <3>2. <<Root, Top.port>> \in Locs
        BY <1>1, <3>1, RootLoc
      <3> QED BY <1>1, <2>2, <3>2, PortResetTypes DEF RootEnable, PortTypes, world
    <2>3. CASE HubReset
      <3>1. PICK l \in PortSeen : PortReset(l)
        BY <2>3 DEF HubReset
      <3>2. l \in Locs
        BY <1>1, SeenIsLoc
      <3> QED BY <1>1, <2>3, <3>1, <3>2, PortResetTypes DEF HubReset, PortTypes, world
    <2>4. CASE HubAck
      BY <1>1, <2>4 DEF HubAck, PortTypes, world, ports
    <2>5. CASE HubClear
      <3>1. UNCHANGED <<at, enabled, devAddr, nextAddr>>
        BY <2>5 DEF HubClear, world
      <3>2. \/ UNCHANGED <<change, fresh, lost>>
            \/ \E l \in PortSeen : Acknowledge(l)
        BY <2>5 DEF HubClear
      <3>3. change' \in [Locs -> BOOLEAN] /\ fresh' \in [Locs -> BOOLEAN] /\ lost' \subseteq Locs
        <4>1. \A l \in PortSeen : l \in Locs
          BY <1>1, SeenIsLoc
        <4> QED BY <1>1, <3>2, <4>1 DEF Acknowledge, Clear, PortTypes
      <3>4. faults' \in Nat
        BY <1>1, <2>5 DEF HubClear, FailsIf, Fault, PortTypes
      <3> QED BY <1>1, <3>1, <3>3, <3>4 DEF PortTypes
    <2> QED BY <2>1, <2>2, <2>3, <2>4, <2>5
  <1> QED BY <1>3, <1>4, <1>5 DEF Types

(* The initialisation of a device. *)
LEMMA CreateTypes ==
  ASSUME Types, FinalStatus
  PROVE  Types' /\ Running'
  <1>1. /\ Running /\ Top.port \in Ports(Top.dev) /\ Top.st = "final"
        /\ StackInv /\ PortTypes /\ ListTypes /\ PollTypes
        /\ UNCHANGED <<at, change, enabled, devAddr, nextAddr, main, cursor>>
    BY DEF FinalStatus, InPort, Types, world, poll, ports
  <1>2. PICK l \in PortSeen :
          /\ fresh' = [fresh EXCEPT ![l] = @ /\ change[l]]
          /\ \/ ~enabled[l] /\ NextPort /\ UNCHANGED <<list, cell, lost, faults>>
             \/ enabled[l] /\ \E c \in Malloc : Create(c, l)
             \/ enabled[l] /\ NoMemory(l)
    BY DEF FinalStatus
  <1>3. l \in Locs
    BY <1>1, SeenIsLoc
  <1>4. fresh' \in [Locs -> BOOLEAN]
    BY <1>1, <1>2, <1>3 DEF PortTypes
  <1>5. CASE NextPort /\ UNCHANGED <<list, cell>> /\ lost' \in {lost, lost \cup {l}} /\ faults' \in {faults, faults + 1}
    <2>1. StackInv' /\ Running'
      BY <1>1, <1>5, NextPortKeeps
    <2>2. PollTypes' /\ ListTypes'
      BY <1>1, <1>5, <2>1, PollStays DEF ListTypes, poll, list
    <2>3. PortTypes'
      BY <1>1, <1>3, <1>4, <1>5 DEF PortTypes
    <2> QED BY <2>1, <2>2, <2>3 DEF Types
  <1>6. ASSUME NEW c \in Malloc, Create(c, l) PROVE Types' /\ Running'
    <2>1. c \in Cells
      BY DEF Malloc
    <2> DEFINE e == [Top EXCEPT !.st = "desc", !.new = c]
    <2>2. stack' = [stack EXCEPT ![Len(stack)] = e]
      BY <1>1, <1>6, TopIsSound DEF Create, StackInv
    <2>3. Sound(e)
      BY <1>1, <2>1, TopIsSound DEF Sound, Levels, Steps, Resting
    <2> HIDE DEF e
    <2>4. StackInv' /\ Running'
      BY <1>1, <2>2, <2>3, PutTop
    <2>5. /\ live' = live \cup {c} /\ head' = c /\ next' = [next EXCEPT ![c] = head]
          /\ cell' = [cell EXCEPT ![c] = [Empty EXCEPT !.port = Top.port, !.from = l]]
          /\ UNCHANGED <<lost, faults>>
      BY <1>6 DEF Create
    <2>6. Top.port \in Nat
      BY <1>1, TopIsSound DEF Levels
    <2>7. /\ [Empty EXCEPT !.port = Top.port, !.from = l] \in Entry
          /\ [Empty EXCEPT !.port = Top.port, !.from = l].addr = 0
      BY <1>3, <2>6 DEF Entry, Empty
    <2>8. ListTypes'
      BY <1>1, <2>1, <2>5, <2>7 DEF ListTypes, PortTypes
    <2>9. PortTypes'
      BY <1>1, <1>4, <2>5 DEF PortTypes
    <2>10. PollTypes'
      BY <1>1, <2>4, PollStays DEF poll
    <2> QED BY <2>4, <2>8, <2>9, <2>10 DEF Types
  <1> QED BY <1>2, <1>5, <1>6 DEF NoMemory

LEMMA InitTypes == Types /\ UsbDevInit => Types'
  <1> SUFFICES ASSUME Types, UsbDevInit PROVE Types'
    OBVIOUS
  <1>1. /\ Running /\ Top.port \in Ports(Top.dev) /\ Top.st \in {"desc", "addr", "conf"}
        /\ StackInv /\ PortTypes /\ ListTypes /\ PollTypes /\ Top.new \in Cells
        /\ UNCHANGED <<at, change, enabled, fresh, lost, live, next, head, main, cursor>>
    <2>1. /\ Running /\ Top.port \in Ports(Top.dev) /\ Top.st \in {"desc", "addr", "conf"}
          /\ UNCHANGED <<at, change, enabled, fresh, lost, live, next, head, main, cursor>>
      BY DEF UsbDevInit, GetDescriptor, SetAddress, StartHub, StartOther, InitFails, InPort, world,
             poll, ports, list
    <2> QED BY <2>1, TopIsSound DEF Types, Sound
  <1>2. StackInv' /\ Running'
    <2>1. CASE GetDescriptor
      BY <1>1, <2>1, GotoKeeps DEF GetDescriptor, Steps
    <2>2. CASE SetAddress
      BY <1>1, <2>2, GotoKeeps DEF SetAddress, Steps
    <2>3. CASE StartHub
      BY <1>1, <2>3, NestKeeps DEF StartHub
    <2>4. CASE StartOther \/ InitFails
      BY <1>1, <2>4, NextPortKeeps DEF StartOther, InitFails
    <2> QED BY <2>1, <2>2, <2>3, <2>4 DEF UsbDevInit
  <1>3. PollTypes'
    BY <1>1, <1>2, PollStays DEF poll
  <1>4. /\ devAddr' \in [Devs -> Nat] /\ nextAddr' \in Nat /\ faults' \in Nat
        /\ \A d \in Devs : devAddr'[d] <= nextAddr'
        /\ nextAddr <= nextAddr'
    <2>1. CASE GetDescriptor \/ StartHub \/ StartOther
      <3>1. UNCHANGED <<devAddr, nextAddr, faults>>
        BY <2>1 DEF GetDescriptor, StartHub, StartOther, ports
      <3> QED BY <1>1, <3>1 DEF PortTypes
    <2>2. CASE SetAddress
      <3>1. /\ nextAddr' = nextAddr + 1 /\ faults' = faults
            /\ devAddr' = [d \in Devs |-> IF d \in Answers(0) THEN Field(nextAddr') ELSE devAddr[d]]
        BY <2>2 DEF SetAddress
      <3>2. nextAddr' \in Nat /\ Field(nextAddr') \in Nat /\ Field(nextAddr') <= nextAddr'
        BY <1>1, <3>1, FieldIs DEF PortTypes
      <3> QED BY <1>1, <3>1, <3>2 DEF PortTypes
    <2>3. CASE InitFails
      <3>1. faults' \in Nat
        BY <1>1, <2>3 DEF InitFails, FailsIf, Unanswered, Fault, PortTypes
      <3>2. CASE UNCHANGED <<nextAddr, devAddr>>
        BY <1>1, <3>1, <3>2 DEF PortTypes
      <3>3. ASSUME nextAddr' = nextAddr + 1,
                   NEW taken,
                   devAddr' = [d \in Devs |-> IF d \in taken THEN Field(nextAddr') ELSE devAddr[d]]
            PROVE  /\ devAddr' \in [Devs -> Nat] /\ nextAddr' \in Nat
                   /\ \A d \in Devs : devAddr'[d] <= nextAddr'
                   /\ nextAddr <= nextAddr'
        <4>1. nextAddr' \in Nat /\ Field(nextAddr') \in Nat /\ Field(nextAddr') <= nextAddr'
          BY <1>1, <3>3, FieldIs DEF PortTypes
        <4> QED BY <1>1, <3>3, <4>1 DEF PortTypes
      <3> QED BY <2>3, <3>1, <3>2, <3>3 DEF InitFails
    <2> QED BY <2>1, <2>2, <2>3 DEF UsbDevInit
  <1>5. cell' \in [Cells -> Entry] /\ \A c \in Cells : cell'[c].addr <= nextAddr'
    <2>1. CASE GetDescriptor \/ StartOther \/ InitFails
      BY <1>1, <1>4, <2>1 DEF GetDescriptor, StartOther, InitFails, ListTypes, PortTypes, Entry
    <2>2. CASE SetAddress
      <3>1. cell' = [cell EXCEPT ![Top.new] = [cell[Top.new] EXCEPT !.addr = nextAddr']]
        BY <2>2 DEF SetAddress
      <3>2. /\ [cell[Top.new] EXCEPT !.addr = nextAddr'] \in Entry
            /\ [cell[Top.new] EXCEPT !.addr = nextAddr'].addr = nextAddr'
        BY <1>1, <1>4 DEF ListTypes, Entry
      <3>3. \A c \in Cells : cell[c].addr \in Nat
        BY <1>1 DEF ListTypes, Entry
      <3> QED BY <1>1, <1>4, <3>1, <3>2, <3>3 DEF ListTypes, PortTypes
    <2>3. CASE StartHub
      <3>1. cell' = [cell EXCEPT ![Top.new] = [cell[Top.new] EXCEPT !.hub = TRUE]] /\ UNCHANGED nextAddr
        BY <2>3 DEF StartHub
      <3>2. /\ [cell[Top.new] EXCEPT !.hub = TRUE] \in Entry
            /\ [cell[Top.new] EXCEPT !.hub = TRUE].addr = cell[Top.new].addr
        BY <1>1 DEF ListTypes, Entry
      <3> QED BY <1>1, <3>1, <3>2 DEF ListTypes
    <2> QED BY <2>1, <2>2, <2>3 DEF UsbDevInit
  <1>6. PortTypes' /\ ListTypes'
    BY <1>1, <1>4, <1>5 DEF PortTypes, ListTypes
  <1> QED BY <1>2, <1>3, <1>6 DEF Types

-----------------------------------------------------------------------------
(* The list as what it is: n entries, each allocated, all different, that   *)
(* the pointers lead through from the head to the end.                      *)
IsList(n, s) ==
  /\ n \in Nat /\ s \in [0 .. n - 1 -> Cells]
  /\ \A i, j \in 0 .. n - 1 : s[i] = s[j] => i = j
  /\ live = {s[i] : i \in 0 .. n - 1}
  /\ head = IF n = 0 THEN Null ELSE s[0]
  /\ \A i \in 0 .. n - 1 : next[s[i]] = IF i = n - 1 THEN Null ELSE s[i + 1]
Whole == \E n \in Nat : \E s \in [0 .. n - 1 -> Cells] : IsList(n, s)

(* A set of numbers that holds 0 and is closed under the successor holds    *)
(* all numbers; a set of numbers has a least one.                           *)
LEMMA LeastOf ==
  ASSUME NEW S \in SUBSET Nat, S # {}
  PROVE  \E m \in S : \A y \in S : m <= y
  <1>1. PICK m \in S : \A y \in S : ~(<<y, m>> \in OpToRel(<, Nat))
    BY WFMin, NatLessThanWellFounded, Zenon
  <1>2. \A y \in S : m <= y
    <2> TAKE y \in S
    <2>1. <<y, m>> \in Nat \X Nat /\ ~(<<y, m>> \in OpToRel(<, Nat))
      BY <1>1
    <2>2. ~(y < m)
      BY <2>1 DEF OpToRel
    <2> QED BY <2>2
  <1> QED BY <1>2

LEMMA AllNumbers ==
  ASSUME NEW S, 0 \in S, \A n \in Nat : n \in S => n + 1 \in S
  PROVE  \A n \in Nat : n \in S
  <1> DEFINE T == {n \in Nat : n \notin S}
  <1>1. ASSUME T # {} PROVE FALSE
    <2>1. T \in SUBSET Nat
      OBVIOUS
    <2>2. PICK m \in T : \A y \in T : m <= y
      BY <1>1, <2>1, LeastOf
    <2>3. m \in Nat /\ m \notin S /\ m # 0
      BY <2>2
    <2>4. m - 1 \in Nat /\ m - 1 \notin T /\ (m - 1) + 1 = m
      BY <2>2, <2>3
    <2>5. m - 1 \in S
      BY <2>4
    <2> QED BY <2>3, <2>4, <2>5
  <1> QED BY <1>1

(* The recursion of Walk has a solution, and so follows the pointers. *)
Target == Cells \cup {Null, Wild}
LEMMA Walks ==
  ASSUME next \in [Cells -> Target], head \in Target
  PROVE  LET N == Cardinality(Cells)
         IN  /\ N \in Nat /\ DOMAIN Walk = 0 .. N /\ Walk[0] = head
             /\ \A n \in 1 .. N : Walk[n] = IF Walk[n - 1] \in Cells THEN next[Walk[n - 1]] ELSE Walk[n - 1]
  <1> DEFINE N == Cardinality(Cells)
             Follow1(v) == IF v \in Cells THEN next[v] ELSE v
             P(k, f) == f[0] = head /\ \A i \in 1 .. k : f[i] = Follow1(f[i - 1])
             S == {k \in Nat : \E f \in [0 .. k -> Target] : P(k, f)}
  <1>1. N \in Nat
    BY FS_CardinalityType, TopologyAssumption
  <1>2. 0 \in S
    <2>1. [i \in 0 .. 0 |-> head] \in [0 .. 0 -> Target] /\ P(0, [i \in 0 .. 0 |-> head])
      OBVIOUS
    <2> QED BY <2>1
  <1>3. ASSUME NEW k \in Nat, k \in S PROVE k + 1 \in S
    <2>1. PICK f \in [0 .. k -> Target] : P(k, f)
      BY <1>3
    <2> DEFINE g == [i \in 0 .. k + 1 |-> IF i = k + 1 THEN Follow1(f[k]) ELSE f[i]]
    <2>2. g \in [0 .. k + 1 -> Target]
      BY <2>1
    <2>3. P(k + 1, g)
      BY <2>1
    <2> HIDE DEF g, P
    <2> QED BY <2>2, <2>3
  <1>4. N \in S
    <2> HIDE DEF S, N
    <2> QED BY <1>1, <1>2, <1>3, AllNumbers
  <1>5. PICK f \in [0 .. N -> Target] : P(N, f)
    BY <1>4
  <1> DEFINE Body(w) == [n \in 0 .. N |-> IF n = 0 THEN head
                                         ELSE IF w[n - 1] \in Cells THEN next[w[n - 1]] ELSE w[n - 1]]
  <1>6. f = Body(f)
    <2>1. \A n \in 0 .. N : f[n] = Body(f)[n]
      BY <1>1, <1>5
    <2>2. DOMAIN f = 0 .. N /\ f = [n \in 0 .. N |-> f[n]]
      BY <1>5
    <2> QED BY <2>1, <2>2
  <1>7. Walk = CHOOSE w : w = Body(w)
    BY DEF Walk
  <1>8. Walk = Body(Walk)
    <2> HIDE DEF Body
    <2> QED BY <1>6, <1>7
  <1>9. DOMAIN Walk = 0 .. N
    BY <1>8
  <1>10. \A n \in 0 .. N : Walk[n] = Body(Walk)[n]
    BY <1>8
  <1>11. /\ Walk[0] = head
         /\ \A n \in 1 .. N : Walk[n] = IF Walk[n - 1] \in Cells THEN next[Walk[n - 1]] ELSE Walk[n - 1]
    BY <1>1, <1>10
  <1> QED BY <1>1, <1>9, <1>11

(* No list is longer than the number of cells, and Walk gives its entries   *)
(* and then Null.                                                           *)
LEMMA WalkIs ==
  ASSUME ListTypes, NEW n \in Nat, NEW s \in [0 .. n - 1 -> Cells], IsList(n, s)
  PROVE  LET N == Cardinality(Cells)
         IN  /\ N \in Nat /\ n <= N /\ DOMAIN Walk = 0 .. N
             /\ \A i \in 0 .. N : Walk[i] = IF i < n THEN s[i] ELSE Null
  <1> DEFINE N == Cardinality(Cells)
             At(i) == IF i < n THEN s[i] ELSE Null
             S == {i \in Nat : i <= N => Walk[i] = At(i)}
  <1>1. /\ N \in Nat /\ DOMAIN Walk = 0 .. N /\ Walk[0] = head
        /\ \A i \in 1 .. N : Walk[i] = IF Walk[i - 1] \in Cells THEN next[Walk[i - 1]] ELSE Walk[i - 1]
    <2>1. next \in [Cells -> Target] /\ head \in Target
      BY DEF ListTypes, Target
    <2> QED BY <2>1, Walks
  <1>2. n <= N
    <2>1. SUFFICES ASSUME N < n PROVE FALSE
      BY <1>1
    <2>2. IsFiniteSet(0 .. n - 1) /\ Cardinality(0 .. n - 1) = n
      <3>1. /\ IsFiniteSet(0 .. n - 1)
            /\ Cardinality(0 .. n - 1) = IF 0 > n - 1 THEN 0 ELSE n - 1 - 0 + 1
        BY FS_Interval
      <3> QED BY <3>1
    <2>3. \E i, j \in 0 .. n - 1 : i # j /\ s[i] = s[j]
      BY <2>1, <2>2, FS_PigeonHole, TopologyAssumption
    <2> QED BY <2>3 DEF IsList
  <1>3. Null \notin Cells
    BY TopologyAssumption
  <1>4. 0 \in S
    BY <1>1 DEF IsList
  <1>5. ASSUME NEW i \in Nat, i \in S PROVE i + 1 \in S
    <2>1. SUFFICES ASSUME i + 1 <= N PROVE Walk[i + 1] = At(i + 1)
      OBVIOUS
    <2>2. Walk[i] = At(i) /\ i + 1 \in 1 .. N
      BY <1>1, <1>5, <2>1
    <2>3. Walk[i + 1] = IF Walk[i] \in Cells THEN next[Walk[i]] ELSE Walk[i]
      BY <1>1, <2>2
    <2>4. CASE i < n
      <3>1. s[i] \in Cells /\ i \in 0 .. n - 1 /\ Walk[i] = s[i]
        BY <2>2, <2>4
      <3>2. next[s[i]] = IF i = n - 1 THEN Null ELSE s[i + 1]
        BY <3>1 DEF IsList
      <3> QED BY <2>3, <2>4, <3>1, <3>2
    <2>5. CASE ~(i < n)
      BY <1>3, <2>2, <2>3, <2>5
    <2> QED BY <2>4, <2>5
  <1>6. \A i \in Nat : i \in S
    <2> HIDE DEF S
    <2> QED BY <1>4, <1>5, AllNumbers
  <1> QED BY <1>1, <1>2, <1>6

LEMMA WholeIsIntact == Types /\ Whole => ListIntact
  <1> SUFFICES ASSUME Types, NEW n \in Nat, NEW s \in [0 .. n - 1 -> Cells], IsList(n, s)
               PROVE  ListIntact
    BY DEF Whole
  <1> DEFINE N == Cardinality(Cells)
  <1>1. /\ N \in Nat /\ n <= N /\ DOMAIN Walk = 0 .. N
        /\ \A i \in 0 .. N : Walk[i] = IF i < n THEN s[i] ELSE Null
    BY WalkIs DEF Types
  <1> HIDE DEF N
  <1>2. Null \notin Cells
    BY TopologyAssumption
  <1>3. TypeOK
    <2>1. devAddr \in [Devs -> 0 .. nextAddr] /\ nextAddr \in Nat
      BY DEF Types, PortTypes
    <2>2. \A c \in Cells : cell[c].port \in Nat /\ cell[c].addr \in 0 .. nextAddr
      BY DEF Types, PortTypes, ListTypes, Entry
    <2>3. \A i \in DOMAIN stack : stack[i].dev \in Cells \cup {Root} /\ stack[i].new \in Cells \cup {Null}
      <3>1. DOMAIN stack = 1 .. Len(stack) /\ \A i \in 1 .. Len(stack) : stack[i] \in Levels
        BY DEF Types, StackInv, Sound
      <3> QED BY <3>1 DEF Levels
    <2> QED BY <2>1, <2>2, <2>3 DEF TypeOK, Types, PortTypes, ListTypes, PollTypes
  <1>4. Listed = live
    <2>1. Listed = {Walk[i] : i \in 0 .. N} \cap Cells
      BY DEF Listed, N
    <2>2. live = {s[i] : i \in 0 .. n - 1}
      BY DEF IsList
    <2>3. \A i \in 0 .. n - 1 : i \in 0 .. N /\ Walk[i] = s[i] /\ s[i] \in Cells
      BY <1>1
    <2>4. \A i \in 0 .. N : Walk[i] \in Cells => i \in 0 .. n - 1
      BY <1>1, <1>2
    <2>5. Listed \subseteq live
      BY <2>1, <2>2, <2>3, <2>4
    <2>6. live \subseteq Listed
      BY <2>1, <2>2, <2>3
    <2> QED BY <2>5, <2>6
  <1>5. \A i, j \in DOMAIN Walk : Walk[i] = Walk[j] /\ Walk[i] \in Cells => i = j
    BY <1>1, <1>2 DEF IsList
  <1>6. Walk[N] = Null
    BY <1>1
  <1> QED BY <1>3, <1>4, <1>5, <1>6 DEF ListIntact, N

(* Whether the list is whole depends on its pointers alone. *)
LEMMA SameList == Whole /\ UNCHANGED <<head, live, next>> => Whole'
  <1> SUFFICES ASSUME NEW n \in Nat, NEW s \in [0 .. n - 1 -> Cells], IsList(n, s),
                      UNCHANGED <<head, live, next>>
               PROVE  Whole'
    BY DEF Whole
  <1>1. IsList(n, s)'
    BY DEF IsList
  <1> QED BY <1>1 DEF Whole

(* A new entry comes first. *)
LEMMA CreateWhole ==
  ASSUME ListTypes, Whole, NEW c \in Malloc, NEW l, Create(c, l) PROVE Whole'
  <1>1. PICK n \in Nat : \E s \in [0 .. n - 1 -> Cells] : IsList(n, s)
    BY DEF Whole
  <1>2. PICK s \in [0 .. n - 1 -> Cells] : IsList(n, s)
    BY <1>1
  <1>3. c \in Cells /\ c \notin live
    BY DEF Malloc
  <1>4. live' = live \cup {c} /\ head' = c /\ next' = [next EXCEPT ![c] = head]
    BY DEF Create
  <1> DEFINE t == [i \in 0 .. n |-> IF i = 0 THEN c ELSE s[i - 1]]
  <1>5. t \in [0 .. n -> Cells] /\ n + 1 \in Nat /\ (n + 1) - 1 = n /\ t[0] = c
    BY <1>3
  <1>6. \A i \in 1 .. n : i - 1 \in 0 .. n - 1 /\ t[i] = s[i - 1] /\ t[i] # c
    BY <1>2, <1>3 DEF IsList
  <1>7. \A i, j \in 0 .. n : t[i] = t[j] => i = j
    <2> SUFFICES ASSUME NEW i \in 0 .. n, NEW j \in 0 .. n, t[i] = t[j] PROVE i = j
      OBVIOUS
    <2>1. CASE i = 0 \/ j = 0
      <3>1. (i = 0 \/ i \in 1 .. n) /\ (j = 0 \/ j \in 1 .. n)
        OBVIOUS
      <3> HIDE DEF t
      <3> QED BY <1>5, <1>6, <2>1, <3>1
    <2>2. CASE i \in 1 .. n /\ j \in 1 .. n
      <3>1. i - 1 = j - 1
        BY <1>2, <1>6, <2>2 DEF IsList
      <3> QED BY <2>2, <3>1
    <2>3. (i = 0 \/ i \in 1 .. n) /\ (j = 0 \/ j \in 1 .. n)
      OBVIOUS
    <2> QED BY <2>1, <2>2, <2>3
  <1>8. live' = {t[i] : i \in 0 .. n}
    <2>1. live = {s[i] : i \in 0 .. n - 1}
      BY <1>2 DEF IsList
    <2>2. \A i \in 0 .. n - 1 : i + 1 \in 0 .. n /\ t[i + 1] = s[i]
      BY <1>2
    <2>3. \A i \in 0 .. n : i = 0 \/ i \in 1 .. n
      OBVIOUS
    <2>4. \A i \in 0 .. n : t[i] \in live'
      BY <1>4, <1>5, <1>6, <2>1, <2>3
    <2>5. ASSUME NEW x \in live' PROVE \E i \in 0 .. n : x = t[i]
      <3>1. CASE x = c
        <4>1. 0 \in 0 .. n /\ x = t[0]
          BY <1>5, <3>1
        <4> HIDE DEF t
        <4> QED BY <4>1
      <3>2. CASE x \in live
        <4>1. PICK i \in 0 .. n - 1 : x = s[i]
          BY <2>1, <3>2
        <4>2. i + 1 \in 0 .. n /\ t[i + 1] = x
          BY <2>2, <4>1
        <4> HIDE DEF t
        <4> QED BY <4>2
      <3> QED BY <1>4, <3>1, <3>2
    <2> HIDE DEF t
    <2> QED BY <2>4, <2>5
  <1>9. \A i \in 0 .. n : next'[t[i]] = IF i = n THEN Null ELSE t[i + 1]
    <2> SUFFICES ASSUME NEW i \in 0 .. n PROVE next'[t[i]] = IF i = n THEN Null ELSE t[i + 1]
      OBVIOUS
    <2>1. CASE i = 0
      <3>1. next'[t[i]] = head
        BY <1>3, <1>4, <2>1 DEF ListTypes
      <3>2. head = IF n = 0 THEN Null ELSE s[0]
        BY <1>2 DEF IsList
      <3> QED BY <2>1, <3>1, <3>2
    <2>2. CASE i \in 1 .. n
      <3>1. next'[t[i]] = next[s[i - 1]]
        BY <1>3, <1>4, <1>6, <2>2 DEF ListTypes
      <3>2. next[s[i - 1]] = IF i - 1 = n - 1 THEN Null ELSE s[(i - 1) + 1]
        BY <1>2, <1>6, <2>2 DEF IsList
      <3> QED BY <2>2, <3>1, <3>2
    <2> QED BY <2>1, <2>2
  <1>10. IsList(n + 1, t)'
    <2> HIDE DEF t
    <2> QED BY <1>4, <1>5, <1>7, <1>8, <1>9 DEF IsList
  <1> HIDE DEF t
  <1> QED BY <1>5, <1>10 DEF Whole

(* The entry that a disconnect finds is in the list. *)
LEMMA FirstIsPlace ==
  ASSUME ListTypes, NEW p, Places(p) # {} PROVE FirstPlace(p) \in Places(p)
  <1>1. next \in [Cells -> Target] /\ head \in Target
    BY DEF ListTypes, Target
  <1>2. Places(p) \in SUBSET Nat
    BY <1>1, Walks DEF Places
  <1>3. \E n \in Places(p) : \A m \in Places(p) : n <= m
    BY <1>2, LeastOf
  <1> QED BY <1>3 DEF FirstPlace

(* An entry goes, from wherever it is. *)
LEMMA UnlinkWhole ==
  ASSUME ListTypes, Whole, NEW p, NEW k \in Places(p), Unlink(k)
  PROVE  Whole'
  <1>1. PICK n \in Nat : \E s \in [0 .. n - 1 -> Cells] : IsList(n, s)
    BY DEF Whole
  <1>2. PICK s \in [0 .. n - 1 -> Cells] : IsList(n, s)
    BY <1>1
  <1>3. k \in 0 .. n - 1 /\ Walk[k] = s[k] /\ (k > 0 => Walk[k - 1] = s[k - 1])
    <2> DEFINE N == Cardinality(Cells)
    <2>1. /\ N \in Nat /\ DOMAIN Walk = 0 .. N
          /\ \A i \in 0 .. N : Walk[i] = IF i < n THEN s[i] ELSE Null
      BY <1>2, WalkIs
    <2>2. k \in 0 .. N /\ Walk[k] \in Cells
      BY <2>1 DEF Places
    <2> HIDE DEF N
    <2>3. k < n
      BY <2>1, <2>2, TopologyAssumption
    <2> QED BY <2>1, <2>2, <2>3
  <1> DEFINE c == s[k]
             t == [i \in 0 .. n - 2 |-> IF i < k THEN s[i] ELSE s[i + 1]]
  <1>4. /\ live' = live \ {c} /\ head' = IF k = 0 THEN next[c] ELSE head
        /\ \A d \in Cells : d # c =>
              next'[d] = IF k > 0 /\ d = s[k - 1] THEN next[c] ELSE next[d]
    BY <1>3 DEF Unlink, Freed
  <1>5. next[c] = IF k = n - 1 THEN Null ELSE s[k + 1]
    BY <1>2, <1>3 DEF IsList
  <1>6. n - 1 \in Nat /\ (n - 1) - 1 = n - 2 /\ t \in [0 .. n - 2 -> Cells]
    BY <1>3
  <1>7. \A i \in 0 .. n - 2 :
           /\ i < k => t[i] = s[i] /\ i \in 0 .. n - 1
           /\ ~(i < k) => t[i] = s[i + 1] /\ i + 1 \in 0 .. n - 1
           /\ t[i] # c /\ t[i] \in Cells
    BY <1>2, <1>3 DEF IsList
  <1>8. \A i, j \in 0 .. n - 1 : s[i] = s[j] => i = j
    BY <1>2 DEF IsList
  <1>9. \A i, j \in 0 .. n - 2 : t[i] = t[j] => i = j
    <2> SUFFICES ASSUME NEW i \in 0 .. n - 2, NEW j \in 0 .. n - 2, t[i] = t[j] PROVE i = j
      OBVIOUS
    <2> DEFINE a == IF i < k THEN i ELSE i + 1
               b == IF j < k THEN j ELSE j + 1
    <2>1. a \in 0 .. n - 1 /\ b \in 0 .. n - 1 /\ s[a] = s[b]
      BY <1>7
    <2>2. a = b
      BY <1>8, <2>1
    <2> QED BY <1>3, <2>2
  <1>10. live' = {t[i] : i \in 0 .. n - 2}
    <2>1. live = {s[i] : i \in 0 .. n - 1}
      BY <1>2 DEF IsList
    <2>2. \A i \in 0 .. n - 2 : t[i] \in live'
      BY <1>4, <1>7, <2>1
    <2>3. \A j \in 0 .. n - 1 : j # k => \E i \in 0 .. n - 2 : s[j] = t[i]
      <3> SUFFICES ASSUME NEW j \in 0 .. n - 1, j # k PROVE \E i \in 0 .. n - 2 : s[j] = t[i]
        OBVIOUS
      <3>1. CASE j < k
        <4>1. j \in 0 .. n - 2 /\ t[j] = s[j]
          BY <1>3, <3>1
        <4> QED BY <4>1
      <3>2. CASE j > k
        <4>1. j - 1 \in 0 .. n - 2 /\ t[j - 1] = s[j]
          BY <1>3, <3>2
        <4> QED BY <4>1
      <3> QED BY <1>3, <3>1, <3>2
    <2>4. \A x \in live' : \E i \in 0 .. n - 2 : x = t[i]
      BY <1>4, <2>1, <2>3
    <2> HIDE DEF t
    <2> QED BY <2>2, <2>4
  <1>11. head' = IF n - 1 = 0 THEN Null ELSE t[0]
    <2>1. head = s[0]
      BY <1>2, <1>3 DEF IsList
    <2>2. CASE k = 0
      BY <1>3, <1>4, <1>5, <2>2
    <2>3. CASE k > 0
      BY <1>3, <1>4, <2>1, <2>3
    <2> QED BY <1>3, <2>2, <2>3
  <1>12. \A i \in 0 .. n - 2 : next'[t[i]] = IF i = n - 2 THEN Null ELSE t[i + 1]
    <2> SUFFICES ASSUME NEW i \in 0 .. n - 2 PROVE next'[t[i]] = IF i = n - 2 THEN Null ELSE t[i + 1]
      OBVIOUS
    <2>1. next'[t[i]] = IF k > 0 /\ t[i] = s[k - 1] THEN next[c] ELSE next[t[i]]
      BY <1>4, <1>7
    <2>2. CASE i < k /\ i = k - 1
      <3>0. k > 0 /\ t[i] = s[k - 1]
        BY <1>3, <1>7, <2>2
      <3>1. next'[t[i]] = next[c]
        BY <2>1, <3>0
      <3>2. next[c] = IF k = n - 1 THEN Null ELSE s[k + 1]
        BY <1>5
      <3>3. i # n - 2 => t[i + 1] = s[k + 1]
        BY <1>3, <2>2
      <3> HIDE DEF c, t
      <3> QED BY <1>3, <2>2, <3>1, <3>2, <3>3
    <2>3. CASE i < k /\ i # k - 1
      <3>1. t[i] = s[i] /\ i \in 0 .. n - 1 /\ k - 1 \in 0 .. n - 1
        BY <1>3, <1>7, <2>3
      <3>2. s[i] # s[k - 1]
        BY <1>8, <2>3, <3>1
      <3>3. next'[t[i]] = IF i = n - 1 THEN Null ELSE s[i + 1]
        BY <1>2, <2>1, <3>1, <3>2 DEF IsList
      <3>4. i + 1 < k /\ i # n - 2 /\ i # n - 1 /\ t[i + 1] = s[i + 1]
        BY <1>3, <2>3
      <3> QED BY <3>3, <3>4
    <2>4. CASE ~(i < k)
      <3>1. t[i] = s[i + 1] /\ i + 1 \in 0 .. n - 1
        BY <1>7, <2>4
      <3>2. k > 0 => k - 1 \in 0 .. n - 1 /\ s[i + 1] # s[k - 1]
        BY <1>3, <1>8, <2>4, <3>1
      <3>3. next'[t[i]] = IF i + 1 = n - 1 THEN Null ELSE s[(i + 1) + 1]
        BY <1>2, <2>1, <3>1, <3>2 DEF IsList
      <3>4. i # n - 2 => t[i + 1] = s[(i + 1) + 1]
        BY <1>3, <2>4
      <3> QED BY <3>3, <3>4
    <2> QED BY <2>2, <2>3, <2>4
  <1>13. IsList(n - 1, t)'
    <2> HIDE DEF t
    <2> QED BY <1>6, <1>9, <1>10, <1>11, <1>12 DEF IsList
  <1> HIDE DEF t
  <1> QED BY <1>6, <1>13 DEF Whole

-----------------------------------------------------------------------------
(* What changes the list at all. *)
Inserts == FinalStatus /\ \E l \in PortSeen, c \in Malloc : Create(c, l)
Removes == (RootGone \/ HubGone) /\ Places(Top.port) # {} /\ Unlink(FirstPlace(Top.port))
LEMMA ListSteps == [Next]_vars => Inserts \/ Removes \/ UNCHANGED list
  <1> SUFFICES ASSUME [Next]_vars PROVE Inserts \/ Removes \/ UNCHANGED list
    OBVIOUS
  <1>1. CASE UsbDevInit
    BY <1>1 DEF UsbDevInit, GetDescriptor, SetAddress, StartHub, StartOther, InitFails
  <1>2. CASE ResetPort
    <2>1. CASE FinalStatus
      BY <2>1 DEF FinalStatus, Inserts, NoMemory
    <2>2. CASE ~FinalStatus
      BY <1>2, <2>2 DEF ResetPort, RootReset, RootEnable, HubReset, HubAck, HubClear
    <2> QED BY <2>1, <2>2
  <1>3. CASE PollPort
    <2>1. CASE RootGone \/ HubGone
      <3>1. Disconnect
        BY <2>1 DEF RootGone, HubGone
      <3> QED BY <2>1, <3>1 DEF Disconnect, Removes
    <2>2. CASE ~(RootGone \/ HubGone)
      BY <1>3, <2>2 DEF PollPort, Look, RootCame, HubCame, HubCheck
    <2> QED BY <2>1, <2>2
  <1>4. CASE PortRequestFails \/ NewRound \/ LoopEnds \/ Visit
    BY <1>4 DEF PortRequestFails, NewRound, LoopEnds, Visit
  <1>5. CASE World
    BY <1>5 DEF World, Plug, Unplug
  <1>6. CASE UNCHANGED vars
    BY <1>6 DEF vars
  <1> QED BY <1>1, <1>2, <1>3, <1>4, <1>5, <1>6 DEF Next, Kernel

LEMMA WholeStep == ListTypes /\ Whole /\ [Next]_vars => Whole'
  <1> SUFFICES ASSUME ListTypes, Whole, [Next]_vars PROVE Whole'
    OBVIOUS
  <1>1. CASE Inserts
    BY <1>1, CreateWhole DEF Inserts
  <1>2. CASE Removes
    BY <1>2, UnlinkWhole, FirstIsPlace DEF Removes
  <1>3. CASE UNCHANGED list
    BY <1>3, SameList DEF list
  <1> QED BY <1>1, <1>2, <1>3, ListSteps

(* Polling a port, and the requests about one that fail. *)
LEMMA PollTypesStep == Types /\ Whole /\ (PollPort \/ PortRequestFails) => Types'
  <1> SUFFICES ASSUME Types, Whole, PollPort \/ PortRequestFails PROVE Types'
    OBVIOUS
  <1>1. /\ Running /\ Top.port \in Ports(Top.dev)
        /\ StackInv /\ PortTypes /\ ListTypes /\ PollTypes
        /\ UNCHANGED <<at, enabled, devAddr, nextAddr, main, cursor>>
    BY DEF PollPort, PortRequestFails, Look, RootGone, HubGone, RootCame, HubCame, HubCheck, InPort,
           Types, world, poll, ports
  <1>2. NextPort \/ \E st \in {"gone", "came", "check", "reset"} : Goto(st)
    BY DEF PollPort, PortRequestFails, Look, RootGone, HubGone, RootCame, HubCame, HubCheck
  <1>3. StackInv' /\ Running'
    BY <1>1, <1>2, NextPortKeeps, GotoKeeps DEF Steps, Resting
  <1>4. PollTypes'
    BY <1>1, <1>3, PollStays DEF poll
  <1>5. \A l \in PortSeen : l \in Locs
    BY <1>1, SeenIsLoc
  <1>6. faults' \in Nat
    BY <1>1 DEF PollPort, PortRequestFails, Look, RootGone, HubGone, RootCame, HubCame, HubCheck,
                FailsIf, Fault, PortTypes
  <1>7. change' \in [Locs -> BOOLEAN] /\ fresh' \in [Locs -> BOOLEAN] /\ lost' \subseteq Locs
    <2>1. CASE Look
      BY <1>1, <1>5, <2>1 DEF Look, ports, PortTypes
    <2>2. CASE HubGone
      BY <1>1, <1>5, <2>2 DEF HubGone, Acknowledge, Clear, PortTypes
    <2>3. CASE HubCame
      BY <1>1, <1>5, <2>3 DEF HubCame, Clear, PortTypes
    <2>4. CASE RootGone \/ RootCame \/ HubCheck \/ PortRequestFails
      BY <1>1, <2>4 DEF RootGone, RootCame, HubCheck, PortRequestFails, ports, PortTypes
    <2> QED BY <2>1, <2>2, <2>3, <2>4 DEF PollPort
  <1>8. PortTypes'
    BY <1>1, <1>6, <1>7 DEF PortTypes
  <1>9. ListTypes'
    <2>1. CASE UNCHANGED <<list, cell>>
      BY <1>1, <2>1 DEF list, ListTypes
    <2>2. CASE (RootGone \/ HubGone) /\ Places(Top.port) # {}
      <3>1. Unlink(FirstPlace(Top.port)) /\ [Next]_vars
        BY <2>2 DEF RootGone, HubGone, Disconnect, Next, Kernel, PollPort
      <3>2. head' \in live' \cup {Null}
        <4>1. Whole'
          BY <1>1, <3>1, WholeStep
        <4>2. PICK n \in Nat : \E s \in [0 .. n - 1 -> Cells] : IsList(n, s)'
          BY <4>1 DEF Whole
        <4>3. n # 0 => 0 \in 0 .. n - 1
          OBVIOUS
        <4> QED BY <4>2, <4>3 DEF IsList
      <3> DEFINE n == FirstPlace(Top.port)
      <3>3. Walk[n] \in Cells
        BY <1>1, <2>2, FirstIsPlace DEF Places
      <3>4. n \in Nat /\ (n > 0 => n - 1 \in DOMAIN Walk)
        <4>1. next \in [Cells -> Target] /\ head \in Target
          BY <1>1 DEF ListTypes, Target
        <4>2. n \in DOMAIN Walk
          BY <1>1, <2>2, FirstIsPlace DEF Places
        <4> QED BY <4>1, <4>2, Walks
      <3>5. next' \in [Cells -> Cells \cup {Null, Wild}]
        <4>1. PICK after \in After(Walk[n]) :
                next' = [d \in Cells |-> IF d = Walk[n] THEN after
                                         ELSE IF n > 0 /\ d = Walk[n-1] THEN next[Walk[n]] ELSE next[d]]
          BY <3>1 DEF Unlink
        <4>2. after \in Cells \cup {Null, Wild} /\ next[Walk[n]] \in Cells \cup {Null, Wild}
          BY <1>1, <3>3 DEF After, ListTypes
        <4> HIDE DEF n
        <4> QED BY <1>1, <4>1, <4>2 DEF ListTypes
      <3>6. live' \subseteq Cells /\ cell' \in {cell, [cell EXCEPT ![Walk[n]] = Empty]}
        BY <1>1, <3>1 DEF Unlink, Freed, ListTypes
      <3>7. Empty \in Entry /\ Empty.addr = 0
        BY DEF Empty, Entry
      <3>8. cell' \in [Cells -> Entry] /\ \A c \in Cells : cell'[c].addr <= nextAddr'
        <4> HIDE DEF n
        <4> QED BY <1>1, <3>3, <3>6, <3>7 DEF ListTypes, PortTypes
      <3> QED BY <3>2, <3>5, <3>6, <3>8 DEF ListTypes
    <2> QED BY <2>1, <2>2 DEF PollPort, PortRequestFails, Look, RootGone, HubGone, RootCame, HubCame,
                              HubCheck, Disconnect
  <1> QED BY <1>3, <1>4, <1>8, <1>9 DEF Types

(* UsbPoll between the loops. *)
LEMMA RoundTypes == Types /\ (NewRound \/ LoopEnds \/ Visit) => Types'
  <1> SUFFICES ASSUME Types, NewRound \/ LoopEnds \/ Visit PROVE Types'
    OBVIOUS
  <1>1. UNCHANGED <<at, change, enabled, devAddr, fresh, lost, nextAddr, faults, live, next, head, cell>>
    BY DEF NewRound, LoopEnds, Visit, world, ports, list
  <1>2. PortTypes' /\ ListTypes'
    BY <1>1 DEF Types, PortTypes, ListTypes
  <1>3. StackInv' /\ PollTypes'
    <2>1. CASE NewRound
      <3>1. stack' = <<Loop(Root, TRUE)>> /\ main' = "ports" /\ UNCHANGED cursor
        BY <2>1 DEF NewRound
      <3>2. StackInv' /\ Running'
        BY <3>1, StartKeeps
      <3> QED BY <3>1, <3>2 DEF Types, PollTypes
    <2>2. CASE LoopEnds
      <3>1. Running /\ stack' = Front(stack) /\ StackInv /\ PollTypes /\ ListTypes
        BY <2>2 DEF LoopEnds, Types
      <3>2. StackInv' /\ (Running' <=> Len(stack) > 1)
        BY <3>1, EndKeeps
      <3>3. CASE Len(stack) > 1
        BY <2>2, <3>1, <3>2, <3>3, PollStays DEF LoopEnds
      <3>4. CASE ~(Len(stack) > 1)
        <4> DEFINE c == CASE main = "boot" -> Null [] main = "ports" -> head [] OTHER -> next[cursor]
        <4>1. Follow(c) /\ ~Running'
          BY <2>2, <3>2, <3>4 DEF LoopEnds
        <4>2. c \in Cells \cup {Null, Wild}
          BY <3>1 DEF PollTypes, ListTypes
        <4> HIDE DEF c
        <4> QED BY <3>2, <4>1, <4>2 DEF Follow, PollTypes
      <3> QED BY <3>3, <3>4
    <2>3. CASE Visit
      <3>1. ~Running /\ main = "devices" /\ cursor \in Cells /\ StackInv /\ PollTypes /\ ListTypes
        BY <2>3 DEF Visit, Types
      <3>2. CASE cell[cursor].hub
        <4>1. stack' = <<Loop(cursor, TRUE)>> /\ UNCHANGED <<main, cursor>>
          BY <2>3, <3>2 DEF Visit, poll
        <4>2. StackInv' /\ Running'
          BY <3>1, <4>1, StartKeeps
        <4> QED BY <3>1, <4>1, <4>2 DEF PollTypes
      <3>3. CASE ~cell[cursor].hub
        <4>1. Follow(next[cursor]) /\ UNCHANGED stack
          BY <2>3, <3>3 DEF Visit
        <4>2. StackInv' /\ ~Running'
          BY <3>1, <4>1 DEF StackInv, Running
        <4>3. next[cursor] \in Cells \cup {Null, Wild}
          BY <3>1 DEF ListTypes
        <4> QED BY <4>1, <4>2, <4>3 DEF Follow, PollTypes
      <3> QED BY <3>2, <3>3
    <2> QED BY <2>1, <2>2, <2>3
  <1> QED BY <1>2, <1>3 DEF Types

LEMMA InitialTypes == Init => Types /\ Whole
  <1> SUFFICES ASSUME Init PROVE Types /\ Whole
    OBVIOUS
  <1>1. StackInv /\ Running
    <2>1. stack = <<Loop(Root, FALSE)>>
      BY DEF Init
    <2> DEFINE f == Loop(Root, FALSE)
    <2>2. Sound(f) /\ f \in Levels
      BY LoopIsSound
    <2>3. stack = <<f>>
      BY <2>1
    <2> HIDE DEF f
    <2>4. stack \in Seq(Levels) /\ Len(stack) = 1 /\ stack[1] = f /\ stack # <<>>
      BY <2>2, <2>3
    <2> QED BY <2>2, <2>4 DEF StackInv, Running
  <1>2. PollTypes
    BY DEF Init, PollTypes
  <1>3. PortTypes
    <2>1. change \in [Locs -> BOOLEAN]
      BY DEF Init
    <2> QED BY <2>1 DEF Init, PortTypes
  <1>4. Empty \in Entry /\ Empty.addr = 0
    BY DEF Empty, Entry
  <1>5. ListTypes
    BY <1>4 DEF Init, ListTypes
  <1>6. Whole
    <2> DEFINE s == [i \in 0 .. 0 - 1 |-> Null]
    <2>1. s \in [0 .. 0 - 1 -> Cells] /\ 0 \in Nat
      OBVIOUS
    <2>2. IsList(0, s)
      BY <2>1 DEF Init, IsList
    <2> HIDE DEF s
    <2> QED BY <2>1, <2>2 DEF Whole
  <1> QED BY <1>1, <1>2, <1>3, <1>5, <1>6 DEF Types

LEMMA TypesStep == Types /\ Whole /\ [Next]_vars => Types' /\ Whole'
  <1> SUFFICES ASSUME Types, Whole, [Next]_vars PROVE Types' /\ Whole'
    OBVIOUS
  <1>1. Whole'
    BY WholeStep DEF Types
  <1>2. CASE UNCHANGED vars
    <2>1. UNCHANGED <<stack, at, change, enabled, fresh, lost, devAddr, nextAddr, faults>>
      BY <1>2 DEF vars, world, ports
    <2>2. UNCHANGED <<cell, live, next, head, main, cursor>>
      BY <1>2 DEF vars, list, poll
    <2>3. StackInv'
      BY <2>1 DEF Types, StackInv
    <2>4. PortTypes'
      BY <2>1 DEF Types, PortTypes
    <2>5. ListTypes' /\ PollTypes'
      BY <2>1, <2>2 DEF Types, ListTypes, PollTypes, Running
    <2> QED BY <1>1, <2>3, <2>4, <2>5 DEF Types
  <1>3. Next => Types'
    BY InitTypes, ResetTypes, CreateTypes, PollTypesStep, RoundTypes, WorldTypes DEF Next, Kernel
  <1> QED BY <1>1, <1>2, <1>3

LEMMA WellTyped == Spec => [](Types /\ Whole)
  <1>1. Init => Types /\ Whole
    BY InitialTypes
  <1>2. Types /\ Whole /\ [Next]_vars => (Types /\ Whole)'
    BY TypesStep
  <1> QED BY <1>1, <1>2, PTL DEF Spec

(* The list of devices stays whole: every entry that malloc gave and free   *)
(* has not taken back is reached from g_usbDeviceList, once, and the last   *)
(* one ends the list, whatever is inserted inside whatever loop             *)
(* (usbd.cpp:70) and whichever entry a disconnect removes (ehci.cpp:643).   *)
THEOREM ListIntactHolds == Spec => []ListIntact
  <1>1. Types /\ Whole => ListIntact
    BY WholeIsIntact
  <1> QED BY <1>1, WellTyped, PTL

-----------------------------------------------------------------------------
(* Addresses.  A port that is enabled has a device, hubs are at root ports, *)
(* and a device is at one port; two enabled ports have devices of different *)
(* addresses; and a device that still has address 0 is the one that the     *)
(* innermost loop is about to initialise.                                   *)
Wiring ==
  /\ \A l \in Locs : enabled[l] => at[l] # Null
  /\ \A l \in Locs : at[l] \in Hubs => l[1] = Root
  /\ \A k, l \in Locs : at[k] = at[l] /\ at[k] # Null => k = l
Distinct ==
  Smooth => \A k, l \in Locs :
    enabled[k] /\ enabled[l] /\ devAddr[at[k]] = devAddr[at[l]] => k = l
Nameless == {l \in Locs : enabled[l] /\ devAddr[at[l]] = 0}
Awaited(l) ==
  /\ Running
  /\ \/ Top.st \in {"ack", "clear", "final"} /\ l \in PortSeen
     \/ Top.st \in {"desc", "addr"} /\ l = cell[Top.new].from
InReset == Smooth => \A l \in Nameless : Awaited(l)
Addresses == Wiring /\ Distinct /\ InReset

LEMMA DistinctIsMeant == Types /\ Addresses => AddressesDistinct
  <1> SUFFICES ASSUME Types, Addresses, Smooth, NEW a \in 0 .. nextAddr
               PROVE  Cardinality(Answers(a)) <= 1
    BY DEF AddressesDistinct
  <1>1. \A d, e \in Answers(a) : d = e
    <2> SUFFICES ASSUME NEW d \in Answers(a), NEW e \in Answers(a) PROVE d = e
      OBVIOUS
    <2>1. PICK k \in Locs : at[k] = d /\ enabled[k] /\ devAddr[d] = Field(a)
      BY DEF Answers
    <2>2. PICK l \in Locs : at[l] = e /\ enabled[l] /\ devAddr[e] = Field(a)
      BY DEF Answers
    <2>3. k = l
      BY <2>1, <2>2 DEF Addresses, Distinct
    <2> QED BY <2>1, <2>2, <2>3
  <1>2. CASE Answers(a) = {}
    BY <1>2, FS_EmptySet
  <1>3. CASE Answers(a) # {}
    <2>1. PICK d \in Answers(a) : TRUE
      BY <1>3
    <2>2. Answers(a) = {d}
      BY <1>1, <2>1
    <2>3. Cardinality({d}) = 1
      BY FS_Singleton
    <2> QED BY <2>2, <2>3
  <1> QED BY <1>2, <1>3

(* What changes the ports and the addresses at all, and the faults. *)
LEMMA AddressSteps ==
  [Next]_vars => \/ World \/ RootEnable \/ HubReset \/ SetAddress \/ InitFails
                 \/ UNCHANGED <<at, enabled, devAddr>>
  <1> SUFFICES ASSUME [Next]_vars
               PROVE  \/ World \/ RootEnable \/ HubReset \/ SetAddress \/ InitFails
                      \/ UNCHANGED <<at, enabled, devAddr>>
    OBVIOUS
  <1>1. CASE UsbDevInit
    BY <1>1 DEF UsbDevInit, GetDescriptor, StartHub, StartOther, world, ports
  <1>2. CASE ResetPort
    BY <1>2 DEF ResetPort, RootReset, HubAck, HubClear, FinalStatus, world, ports
  <1>3. CASE PollPort
    BY <1>3 DEF PollPort, Look, RootGone, HubGone, RootCame, HubCame, HubCheck, world, ports
  <1>4. CASE PortRequestFails \/ NewRound \/ LoopEnds \/ Visit
    BY <1>4 DEF PortRequestFails, NewRound, LoopEnds, Visit, world, ports
  <1>5. CASE UNCHANGED vars
    BY <1>5 DEF vars, world, ports
  <1> QED BY <1>1, <1>2, <1>3, <1>4, <1>5 DEF Next, Kernel

LEMMA CountersStep ==
  [Next]_vars => faults' \in {faults, faults + 1} /\ nextAddr' \in {nextAddr, nextAddr + 1}
  <1> SUFFICES ASSUME [Next]_vars
               PROVE  faults' \in {faults, faults + 1} /\ nextAddr' \in {nextAddr, nextAddr + 1}
    OBVIOUS
  <1>1. CASE UsbDevInit
    BY <1>1 DEF UsbDevInit, GetDescriptor, SetAddress, StartHub, StartOther, InitFails, FailsIf, Fault
  <1>2. CASE ResetPort
    BY <1>2 DEF ResetPort, RootReset, RootEnable, HubReset, HubAck, HubClear, FinalStatus, FailsIf,
                Fault, Create, NoMemory
  <1>3. CASE PollPort
    BY <1>3 DEF PollPort, Look, RootGone, HubGone, RootCame, HubCame, HubCheck
  <1>4. CASE PortRequestFails \/ NewRound \/ LoopEnds \/ Visit
    BY <1>4 DEF PortRequestFails, NewRound, LoopEnds, Visit, FailsIf, Fault
  <1>5. CASE World
    BY <1>5 DEF World, Plug, Unplug
  <1>6. CASE UNCHANGED vars
    BY <1>6 DEF vars
  <1> QED BY <1>1, <1>2, <1>3, <1>4, <1>5, <1>6 DEF Next, Kernel

(* What did not go well once is not made good. *)
LEMMA SmoothBefore == Types /\ [Next]_vars /\ Smooth' => Smooth /\ faults = 0 /\ faults' = 0
  <1> SUFFICES ASSUME Types, [Next]_vars, Smooth' PROVE Smooth /\ faults = 0 /\ faults' = 0
    OBVIOUS
  <1>1. /\ faults \in Nat /\ nextAddr \in Nat /\ AddrMod \in Nat
        /\ faults' = 0 /\ ~(nextAddr' >= AddrMod)
    BY TopologyAssumption DEF Types, PortTypes, Smooth, Wide
  <1>2. faults = 0 /\ ~(nextAddr >= AddrMod)
    BY <1>1, CountersStep
  <1> QED BY <1>1, <1>2 DEF Smooth, Wide

(* A request fails, while all goes well, only if it cannot succeed.         *)
LEMMA SmoothFails ==
  ASSUME Smooth, Smooth', NEW b \in BOOLEAN, FailsIf(b) PROVE b
  BY DEF Smooth, FailsIf, Fault

(* The address of an entry is one of those, and so a request about a port   *)
(* fails only if it reaches no port.                                        *)
LEMMA CellField ==
  ASSUME ListTypes, Smooth, nextAddr \in Nat, NEW c \in Cells
  PROVE  /\ cell[c].addr \in Nat /\ cell[c].addr <= nextAddr
         /\ Field(cell[c].addr) = cell[c].addr /\ ~Wide(cell[c].addr)
  <1>1. cell[c].addr \in Nat /\ cell[c].addr <= nextAddr
    BY DEF ListTypes, Entry
  <1> QED BY <1>1, FieldHolds

LEMMA HeardFails ==
  ASSUME Types, Smooth, Smooth', Running, Top.dev # Root,
         FailsIf(PortSeen = {} \/ Wide(cell[Top.dev].addr))
  PROVE  PortSeen = {}
  <1>1. ListTypes /\ nextAddr \in Nat /\ Top.dev \in Cells
    BY TopIsSound DEF Types, PortTypes, Levels
  <1>2. ~Wide(cell[Top.dev].addr)
    BY <1>1, CellField
  <1>3. (PortSeen = {} \/ Wide(cell[Top.dev].addr)) \in BOOLEAN
    OBVIOUS
  <1>4. PortSeen = {} \/ Wide(cell[Top.dev].addr)
    BY <1>3, SmoothFails
  <1> QED BY <1>2, <1>4

(* The port that is reset, by the root hub or by another. *)
LEMMA ResetIs ==
  ASSUME Types, RootEnable \/ HubReset
  PROVE  \E l \in PortSeen :
           /\ l \in Locs /\ PortReset(l) /\ UNCHANGED <<at, cell, faults>>
           /\ Running /\ Top.st \in {"enable", "reset"} /\ Top.port \in Ports(Top.dev)
           /\ Running' /\ Top'.dev = Top.dev /\ Top'.port = Top.port /\ Top'.st \in {"ack", "final"}
  <1>1. /\ Running /\ Top.st \in {"enable", "reset"} /\ Top.port \in Ports(Top.dev)
        /\ UNCHANGED <<at, cell, faults>> /\ StackInv
    BY DEF RootEnable, HubReset, InPort, world, Types
  <1>2. PICK st \in {"ack", "final"} : Goto(st)
    BY DEF RootEnable, HubReset
  <1>3. Running' /\ Top'.dev = Top.dev /\ Top'.port = Top.port /\ Top'.st \in {"ack", "final"}
    BY <1>1, <1>2, GotoKeeps DEF Steps
  <1>4. PICK l \in PortSeen : PortReset(l)
    <2>1. CASE RootEnable
      <3>1. Top.dev = Root
        BY <1>1, <2>1, TopIsSound DEF RootEnable, InPort, Sound
      <3> QED BY <2>1, <3>1 DEF RootEnable, PortSeen
    <2>2. CASE HubReset
      BY <2>2 DEF HubReset
    <2> QED BY <2>1, <2>2
  <1>5. l \in Locs
    BY <1>1, SeenIsLoc
  <1> QED BY <1>1, <1>3, <1>4, <1>5

LEMMA WiringStep == Types /\ Wiring /\ [Next]_vars => Wiring'
  <1> SUFFICES ASSUME Types, Wiring, [Next]_vars PROVE Wiring'
    OBVIOUS
  <1> USE DEF Types, PortTypes
  <1>1. CASE World
    <2>1. PICK l \in Sockets : Unplug(l) \/ \E d \in Devs : Plug(d, l)
      BY <1>1 DEF World
    <2>2. l \in Locs
      BY TopologyAssumption
    <2>3. CASE Unplug(l)
      <3>1. /\ at' = [at EXCEPT ![l] = Null]
            /\ enabled' = [k \in Locs |-> enabled[k] /\ k # l /\ k[1] # at[l]]
        BY <2>3 DEF Unplug
      <3>2. Null \notin Hubs
        BY TopologyAssumption DEF Devs
      <3> QED BY <2>2, <3>1, <3>2 DEF Wiring
    <2>4. ASSUME NEW d \in Devs, Plug(d, l) PROVE Wiring'
      <3>1. /\ at' = [at EXCEPT ![l] = d] /\ enabled' = enabled /\ at[l] = Null
            /\ d \in Hubs => l[1] = Root
            /\ \A k \in Locs : at[k] # d
        BY <2>4 DEF Plug, Plugged
      <3>2. d # Null
        BY TopologyAssumption
      <3> QED BY <2>2, <3>1, <3>2 DEF Wiring
    <2> QED BY <2>1, <2>3, <2>4
  <1>2. CASE RootEnable \/ HubReset
    <2>1. PICK l \in Locs : PortReset(l) /\ UNCHANGED at
      BY <1>2, ResetIs
    <2>2. enabled' = [k \in Locs |-> IF k = l THEN at[l] # Null ELSE enabled[k] /\ k[1] # at[l]]
      BY <2>1 DEF PortReset
    <2> QED BY <2>1, <2>2 DEF Wiring
  <1>3. CASE UNCHANGED <<at, enabled>>
    BY <1>3 DEF Wiring
  <1>4. CASE SetAddress \/ InitFails
    <2>1. UNCHANGED <<at, enabled>>
      BY <1>4 DEF SetAddress, InitFails, world
    <2> QED BY <1>3, <2>1
  <1> QED BY <1>1, <1>2, <1>3, <1>4, AddressSteps

(* What the outside world leaves of the enabled ports, and what a reset     *)
(* leaves of them and makes of its own.                                     *)
LEMMA WorldKeeps ==
  ASSUME Types, Wiring, World
  PROVE  /\ UNCHANGED <<devAddr, faults, stack, cell>>
         /\ \A k \in Locs : enabled'[k] => enabled[k] /\ at'[k] = at[k]
         /\ \/ enabled' = enabled
            \/ \E l \in Locs : /\ at[l] # Null
                              /\ enabled' = [k \in Locs |-> enabled[k] /\ k # l /\ k[1] # at[l]]
  <1>1. PICK l \in Sockets : Unplug(l) \/ \E d \in Devs : Plug(d, l)
    BY DEF World
  <1>2. l \in Locs
    BY TopologyAssumption
  <1>3. CASE Unplug(l)
    BY <1>2, <1>3 DEF Unplug, Types, PortTypes
  <1>4. ASSUME NEW d \in Devs, Plug(d, l)
        PROVE  /\ UNCHANGED <<devAddr, faults, stack, cell, enabled>>
               /\ \A k \in Locs : enabled'[k] => enabled[k] /\ at'[k] = at[k]
    <2>1. ~enabled[l]
      BY <1>2, <1>4 DEF Plug, Wiring
    <2> QED BY <1>2, <1>4, <2>1 DEF Plug, Types, PortTypes
  <1> QED BY <1>1, <1>3, <1>4

LEMMA ResetKeeps ==
  ASSUME Types, Wiring, NEW l \in Locs, PortReset(l)
  PROVE  \A k \in Locs : enabled'[k] =>
           /\ at[k] \in Devs
           /\ k = l => devAddr'[at[k]] = 0
           /\ k # l => /\ enabled[k] /\ k[1] # at[l] /\ at[k] # at[l]
                      /\ devAddr'[at[k]] = devAddr[at[k]]
  <1> SUFFICES ASSUME NEW k \in Locs, enabled'[k]
               PROVE  /\ at[k] \in Devs
                      /\ k = l => devAddr'[at[k]] = 0
                      /\ k # l => /\ enabled[k] /\ k[1] # at[l] /\ at[k] # at[l]
                                 /\ devAddr'[at[k]] = devAddr[at[k]]
    OBVIOUS
  <1>1. IF k = l THEN at[l] # Null ELSE enabled[k] /\ k[1] # at[l]
    BY DEF PortReset
  <1>2. at[k] # Null /\ at[k] \in Devs
    BY <1>1 DEF Wiring, Types, PortTypes
  <1>3. devAddr'[at[k]] = IF at[k] = at[l] THEN 0 ELSE devAddr[at[k]]
    BY <1>2 DEF PortReset
  <1>4. k # l => at[k] # at[l]
    BY <1>2 DEF Wiring
  <1> QED BY <1>1, <1>2, <1>3, <1>4

LEMMA NamedIs ==
  ASSUME PortTypes, SetAddress, Smooth'
  PROVE  devAddr' = [d \in Devs |-> IF d \in Answers(0) THEN nextAddr + 1 ELSE devAddr[d]]
  <1>1. /\ nextAddr' = nextAddr + 1
        /\ devAddr' = [d \in Devs |-> IF d \in Answers(0) THEN Field(nextAddr') ELSE devAddr[d]]
    BY DEF SetAddress
  <1>2. Field(nextAddr') = nextAddr + 1
    BY <1>1, FieldIs DEF PortTypes, Smooth
  <1> QED BY <1>1, <1>2

(* A new address goes to whatever answers at address 0, or to nothing.      *)
LEMMA NamingIs ==
  ASSUME Types, SetAddress \/ InitFails, Smooth'
  PROVE  /\ UNCHANGED <<at, enabled>>
         /\ \/ UNCHANGED devAddr
            \/ \A d \in Devs : devAddr'[d] = IF d \in Answers(0) THEN nextAddr + 1 ELSE devAddr[d]
  <1>1. UNCHANGED <<at, enabled>>
    BY DEF SetAddress, InitFails, world
  <1>2. nextAddr' = nextAddr + 1 => Field(nextAddr') = nextAddr + 1
    BY FieldIs DEF Types, PortTypes, Smooth
  <1>3. CASE SetAddress
    BY <1>1, <1>3, NamedIs DEF Types
  <1>4. CASE InitFails
    <2>1. \/ UNCHANGED devAddr
          \/ /\ nextAddr' = nextAddr + 1
             /\ \E taken \in {{}, Answers(0)} :
                  devAddr' = [d \in Devs |-> IF d \in taken THEN Field(nextAddr') ELSE devAddr[d]]
      BY <1>4 DEF InitFails
    <2>2. ASSUME devAddr' = [d \in Devs |-> IF d \in {} THEN Field(nextAddr') ELSE devAddr[d]]
          PROVE  UNCHANGED devAddr
      BY <2>2 DEF Types, PortTypes
    <2> QED BY <1>1, <1>2, <2>1, <2>2
  <1> QED BY <1>3, <1>4

LEMMA AnswersZero ==
  ASSUME Types, Wiring, NEW k \in Locs, enabled[k]
  PROVE  at[k] \in Devs /\ (at[k] \in Answers(0) <=> devAddr[at[k]] = 0)
  BY FieldIs DEF Types, PortTypes, Wiring, Answers

LEMMA DistinctStep == Types /\ Addresses /\ [Next]_vars => Distinct'
  <1> SUFFICES ASSUME Types, Addresses, [Next]_vars, Smooth',
                      NEW k \in Locs, NEW l \in Locs, enabled'[k], enabled'[l],
                      devAddr'[at'[k]] = devAddr'[at'[l]]
               PROVE  k = l
    BY DEF Distinct
  <1>1. Wiring /\ Distinct /\ InReset /\ Smooth
    BY SmoothBefore DEF Addresses
  <1>2. CASE World
    BY <1>1, <1>2, WorldKeeps DEF Distinct
  <1>3. CASE RootEnable \/ HubReset
    <2>1. PICK m \in Locs : PortReset(m) /\ UNCHANGED at /\ Running /\ Top.st \in {"enable", "reset"}
      BY <1>3, ResetIs
    <2>2. \A n \in Locs : enabled'[n] /\ n # m => enabled[n] /\ devAddr'[at[n]] = devAddr[at[n]]
      BY <1>1, <2>1, ResetKeeps
    <2>3. \A n \in Locs : enabled[n] => devAddr[at[n]] # 0
      BY <1>1, <2>1 DEF InReset, Nameless, Awaited
    <2>4. enabled'[m] => devAddr'[at[m]] = 0
      BY <1>1, <2>1, ResetKeeps
    <2> QED BY <1>1, <2>1, <2>2, <2>3, <2>4 DEF Distinct
  <1>4. CASE SetAddress \/ InitFails
    <2>1. /\ UNCHANGED <<at, enabled>>
          /\ \/ UNCHANGED devAddr
             \/ \A d \in Devs : devAddr'[d] = IF d \in Answers(0) THEN nextAddr + 1 ELSE devAddr[d]
      BY <1>4, NamingIs
    <2>2. /\ at[k] \in Devs /\ at[l] \in Devs /\ enabled[k] /\ enabled[l]
          /\ at[k] \in Answers(0) <=> devAddr[at[k]] = 0
          /\ at[l] \in Answers(0) <=> devAddr[at[l]] = 0
      BY <1>1, <2>1, AnswersZero
    <2>3. devAddr[at[k]] \in Nat /\ devAddr[at[l]] \in Nat /\ nextAddr \in Nat
          /\ devAddr[at[k]] <= nextAddr /\ devAddr[at[l]] <= nextAddr
      BY <2>2 DEF Types, PortTypes
    <2>4. devAddr[at[k]] = devAddr[at[l]]
      BY <2>1, <2>2, <2>3
    <2> QED BY <1>1, <2>2, <2>4 DEF Distinct
  <1>5. CASE UNCHANGED <<at, enabled, devAddr>>
    BY <1>1, <1>5 DEF Distinct
  <1> QED BY <1>2, <1>3, <1>4, <1>5, AddressSteps

(* No device is without an address outside the steps that give it one.      *)
Naming == {"ack", "clear", "final", "desc", "addr"}
LEMMA NobodyNameless ==
  ASSUME InReset, Smooth, ~(Running /\ Top.st \in Naming) PROVE Nameless = {}
  BY DEF InReset, Awaited, Naming

LEMMA NamelessStays ==
  ASSUME Nameless = {}, UNCHANGED <<at, enabled, devAddr>> PROVE InReset'
  BY DEF Nameless, InReset

LEMMA SeenStays ==
  ASSUME UNCHANGED <<at, enabled, devAddr, cell>>, Top'.dev = Top.dev, Top'.port = Top.port
  PROVE  PortSeen' = PortSeen
  <1>1. \A a : Answers(a)' = Answers(a)
    BY DEF Answers
  <1> QED BY <1>1 DEF PortSeen

(* With distinct addresses, a request about a port reaches one port. *)
LEMMA SeenIsOne ==
  ASSUME Types, Addresses, Smooth, Running, Top.port \in Ports(Top.dev),
         NEW k \in PortSeen, NEW l \in PortSeen
  PROVE  k = l
  <1>1. CASE Top.dev = Root
    BY <1>1 DEF PortSeen
  <1>2. CASE Top.dev # Root
    <2> DEFINE a == cell[Top.dev].addr
    <2>1. PICK g \in Answers(a) \cap Hubs : k = <<g, Top.port>>
      BY <1>2 DEF PortSeen
    <2>2. PICK h \in Answers(a) \cap Hubs : l = <<h, Top.port>>
      BY <1>2 DEF PortSeen
    <2> HIDE DEF a
    <2>3. PICK i \in Locs : at[i] = g /\ enabled[i] /\ devAddr[g] = Field(a)
      BY <2>1 DEF Answers
    <2>4. PICK j \in Locs : at[j] = h /\ enabled[j] /\ devAddr[h] = Field(a)
      BY <2>2 DEF Answers
    <2>5. i = j
      BY <2>3, <2>4 DEF Addresses, Distinct
    <2> QED BY <2>1, <2>2, <2>3, <2>4, <2>5
  <1> QED BY <1>1, <1>2

LEMMA WorldAwaits == Types /\ Addresses /\ World => InReset'
  <1> SUFFICES ASSUME Types, Addresses, World, Smooth', NEW k \in Nameless' PROVE Awaited(k)'
    BY DEF InReset
  <1>1. /\ UNCHANGED <<devAddr, faults, stack, cell>> /\ Wiring /\ Smooth
        /\ \A q \in Locs : enabled'[q] => enabled[q] /\ at'[q] = at[q]
        /\ \/ enabled' = enabled
           \/ \E l \in Locs : /\ at[l] # Null
                             /\ enabled' = [q \in Locs |-> enabled[q] /\ q # l /\ q[1] # at[l]]
    BY WorldKeeps, SmoothBefore DEF Addresses, Next
  <1>2. k \in Locs /\ enabled'[k] /\ k \in Nameless
    BY <1>1 DEF Nameless
  <1>3. Awaited(k) /\ Running /\ StackInv
    BY <1>1, <1>2 DEF Addresses, InReset, Awaited, Types
  <1>4. CASE Top.st \in {"desc", "addr"}
    BY <1>1, <1>3, <1>4 DEF Awaited, Running, Top
  <1>5. CASE Top.st \in {"ack", "clear", "final"}
    <2>1. k \in PortSeen /\ Top.port \in Ports(Top.dev)
      BY <1>3, <1>5, TopIsSound DEF Awaited, Sound, Resting
    <2>2. CASE Top.dev = Root
      BY <1>1, <1>3, <1>5, <2>1, <2>2 DEF Awaited, Running, Top, PortSeen
    <2>3. CASE Top.dev # Root
      <3>1. PICK h \in Answers(cell[Top.dev].addr) \cap Hubs : k = <<h, Top.port>>
        BY <2>1, <2>3 DEF PortSeen
      <3>2. PICK q \in Locs : at[q] = h /\ enabled[q] /\ devAddr[h] = Field(cell[Top.dev].addr) /\ h \in Devs
        BY <3>1 DEF Answers
      <3>3. q[1] = Root /\ h # Null
        BY <1>1, <3>1, <3>2 DEF Wiring
      <3>4. enabled'[q] /\ at'[q] = h
        <4>1. CASE enabled' = enabled
          BY <1>1, <3>2, <4>1
        <4>2. ASSUME NEW l \in Locs, at[l] # Null,
                     enabled' = [r \in Locs |-> enabled[r] /\ r # l /\ r[1] # at[l]]
              PROVE  enabled'[q]
          <5>1. k[1] = h /\ h # at[l]
            BY <1>2, <3>1, <4>2
          <5>2. at[l] # Root
            BY <4>2, TopologyAssumption DEF Types, PortTypes
          <5> QED BY <3>2, <3>3, <4>2, <5>1, <5>2
        <4> QED BY <1>1, <3>2, <4>1, <4>2
      <3>5. h \in Answers(cell[Top.dev].addr)'
        BY <1>1, <3>2, <3>4 DEF Answers, Top
      <3>6. k \in PortSeen'
        BY <1>1, <2>3, <3>1, <3>5 DEF PortSeen, Top
      <3> QED BY <1>1, <1>3, <1>5, <3>6 DEF Awaited, Running, Top
    <2> QED BY <2>2, <2>3
  <1> QED BY <1>3, <1>4, <1>5 DEF Awaited

LEMMA ResetAwaits == Types /\ Addresses /\ (RootEnable \/ HubReset) => InReset'
  <1> SUFFICES ASSUME Types, Addresses, RootEnable \/ HubReset, Smooth', NEW k \in Nameless'
               PROVE  Awaited(k)'
    BY DEF InReset
  <1>1. PICK l \in PortSeen :
           /\ l \in Locs /\ PortReset(l) /\ UNCHANGED <<at, cell, faults>>
           /\ Running /\ Top.st \in {"enable", "reset"} /\ Top.port \in Ports(Top.dev)
           /\ Running' /\ Top'.dev = Top.dev /\ Top'.port = Top.port /\ Top'.st \in {"ack", "final"}
    BY ResetIs
  <1>2. Nameless = {} /\ Wiring
    <2>1. Smooth
      BY SmoothBefore DEF Next, Kernel, ResetPort
    <2> QED BY <1>1, <2>1, NobodyNameless DEF Naming, Addresses
  <1>3. k = l /\ at[l] # Null
    <2>1. k \in Locs /\ enabled'[k] /\ devAddr'[at[k]] = 0
      BY <1>1 DEF Nameless
    <2>2. k # l => enabled[k] /\ devAddr[at[k]] = 0
      BY <1>1, <1>2, <2>1, ResetKeeps
    <2>3. k = l
      BY <1>2, <2>1, <2>2 DEF Nameless
    <2> QED BY <1>1, <2>1, <2>3 DEF PortReset
  <1>4. l \in PortSeen'
    <2>1. CASE Top.dev = Root
      BY <1>1, <2>1 DEF PortSeen
    <2>2. CASE Top.dev # Root
      <3>1. PICK h \in Answers(cell[Top.dev].addr) \cap Hubs : l = <<h, Top.port>>
        BY <2>2 DEF PortSeen
      <3>2. PICK q \in Locs : at[q] = h /\ enabled[q] /\ devAddr[h] = Field(cell[Top.dev].addr) /\ h \in Devs
        BY <3>1 DEF Answers
      <3>3. q[1] = Root /\ Root \notin Devs /\ Root # Null
        BY <1>2, <3>1, <3>2, TopologyAssumption DEF Wiring
      <3>4. at[l] # h
        <4>1. l[1] = h /\ h # Root
          BY <3>1, <3>2, <3>3
        <4> QED BY <1>1, <1>2, <3>1, <4>1 DEF Wiring
      <3>5. at[l] \in Devs \cup {Null}
        BY <1>1 DEF Types, PortTypes
      <3>6. enabled'[q] /\ devAddr'[h] = devAddr[h]
        <4>1. q # l /\ q[1] # at[l]
          BY <3>2, <3>3, <3>4, <3>5
        <4> QED BY <1>1, <3>2, <3>4, <4>1 DEF PortReset
      <3>7. h \in Answers(cell[Top.dev].addr)'
        BY <1>1, <3>2, <3>6 DEF Answers
      <3> QED BY <1>1, <2>2, <3>1, <3>7 DEF PortSeen
    <2> QED BY <2>1, <2>2
  <1> QED BY <1>1, <1>3, <1>4 DEF Awaited

LEMMA InitAwaits == Types /\ Addresses /\ UsbDevInit => InReset'
  <1> SUFFICES ASSUME Types, Addresses, UsbDevInit, Smooth' PROVE InReset'
    BY DEF InReset
  <1>1. Smooth /\ InReset /\ Wiring
    BY SmoothBefore DEF Addresses, Next, Kernel
  <1>2. CASE GetDescriptor
    <2>1. /\ UNCHANGED <<at, enabled, devAddr, cell>> /\ Running /\ Top.st = "desc" /\ Goto("addr")
          /\ Top.port \in Ports(Top.dev)
      BY <1>2 DEF GetDescriptor, InPort, world, ports
    <2>2. Running' /\ Top'.st = "addr" /\ Top'.new = Top.new
      BY <2>1, TopIsSound, GotoKeeps DEF Types, Steps, Sound
    <2> QED BY <1>1, <2>1, <2>2 DEF InReset, Nameless, Awaited
  <1>3. CASE SetAddress
    <2>1. /\ UNCHANGED <<at, enabled>>
          /\ \A d \in Devs : devAddr'[d] = IF d \in Answers(0) THEN nextAddr + 1 ELSE devAddr[d]
      BY <1>3, NamedIs DEF SetAddress, world, Types
    <2>2. ASSUME NEW k \in Locs, enabled[k] PROVE devAddr'[at[k]] # 0
      <3>1. at[k] \in Devs /\ (at[k] \in Answers(0) <=> devAddr[at[k]] = 0)
        BY <1>1, <2>2, AnswersZero
      <3> QED BY <2>1, <3>1 DEF Types, PortTypes
    <2> QED BY <2>1, <2>2 DEF InReset, Nameless
  <1>4. CASE InitFails
    <2>1. Nameless = {} /\ (UNCHANGED devAddr \/ Answers(0) = {})
      <3>1. CASE InPort("conf")
        <4>1. Nameless = {}
          BY <1>1, <3>1, NobodyNameless DEF InPort, Naming
        <4> QED BY <1>4, <3>1, <4>1 DEF InitFails, InPort
      <3>2. CASE ~InPort("conf")
        <4>1. Unanswered(0)
          <5>1. \/ FailsIf(Unanswered(0))
                \/ nextAddr' = nextAddr + 1 /\ FailsIf(Unanswered(0) \/ Wide(nextAddr'))
            BY <1>4, <3>2 DEF InitFails, InPort
          <5>2. ~Wide(nextAddr') /\ Unanswered(0) \in BOOLEAN
            BY DEF Smooth, Unanswered, Wide
          <5> QED BY <1>1, <5>1, <5>2, SmoothFails
        <4>2. Answers(0) = {}
          BY <4>1, FieldIs DEF Unanswered
        <4>3. Nameless = {}
          BY <1>1, <4>2, AnswersZero DEF Nameless
        <4> QED BY <4>2, <4>3
      <3> QED BY <3>1, <3>2
    <2>2. /\ UNCHANGED <<at, enabled>>
          /\ \/ UNCHANGED devAddr
             \/ \A d \in Devs : devAddr'[d] = IF d \in Answers(0) THEN nextAddr + 1 ELSE devAddr[d]
      BY <1>4, NamingIs
    <2>3. \A k \in Locs : enabled[k] => devAddr'[at[k]] # 0
      BY <1>1, <2>1, <2>2, AnswersZero DEF Nameless
    <2> QED BY <2>2, <2>3 DEF InReset, Nameless
  <1>5. CASE StartHub \/ StartOther
    <2>1. Running /\ Top.st = "conf" /\ UNCHANGED <<at, enabled, devAddr>>
      BY <1>5 DEF StartHub, StartOther, InPort, world, ports
    <2> QED BY <1>1, <2>1, NobodyNameless, NamelessStays DEF Naming
  <1> QED BY <1>2, <1>3, <1>4, <1>5 DEF UsbDevInit

LEMMA FinalAwaits == Types /\ Addresses /\ FinalStatus => InReset'
  <1> SUFFICES ASSUME Types, Addresses, FinalStatus, Smooth' PROVE InReset'
    BY DEF InReset
  <1>1. Smooth /\ InReset
    <2>1. Next
      BY DEF Next, Kernel, ResetPort
    <2> QED BY <2>1, SmoothBefore DEF Addresses
  <1>2. /\ Running /\ Top.st = "final" /\ Top.port \in Ports(Top.dev)
        /\ UNCHANGED <<at, enabled, devAddr>>
    BY DEF FinalStatus, InPort, world, ports
  <1>3. PICK l \in PortSeen :
          \/ ~enabled[l]
          \/ enabled[l] /\ \E c \in Malloc : Create(c, l)
          \/ enabled[l] /\ NoMemory(l)
    BY DEF FinalStatus
  <1>4. \A k \in Nameless : k = l
    BY <1>1, <1>2, SeenIsOne DEF InReset, Awaited
  <1>5. CASE ~enabled[l]
    <2>1. Nameless = {}
      BY <1>4, <1>5 DEF Nameless
    <2> QED BY <1>2, <2>1, NamelessStays
  <1>6. ASSUME NEW c \in Malloc, Create(c, l) PROVE InReset'
    <2>1. c \in Cells
      BY DEF Malloc
    <2> DEFINE e == [Top EXCEPT !.st = "desc", !.new = c]
    <2>2. stack' = [stack EXCEPT ![Len(stack)] = e]
      BY <1>2, <1>6, TopIsSound DEF Create, Types, StackInv
    <2>3. Sound(e) /\ e.st = "desc" /\ e.new = c
      BY <1>2, <2>1, TopIsSound DEF Types, Sound, Levels, Steps, Resting
    <2> HIDE DEF e
    <2>4. Running' /\ Top' = e
      BY <1>2, <2>2, <2>3, PutTop DEF Types
    <2>5. cell'[c].from = l
      BY <1>6, <2>1 DEF Create, Types, ListTypes, Empty
    <2>6. Nameless' = Nameless
      BY <1>2 DEF Nameless
    <2> QED BY <1>4, <2>3, <2>4, <2>5, <2>6 DEF InReset, Awaited
  <1>7. CASE NoMemory(l)
    BY <1>1, <1>7 DEF NoMemory, Smooth
  <1> QED BY <1>3, <1>5, <1>6, <1>7

(* The steps that only wait, or that look at a port. *)
LEMMA OtherAwaits ==
  Types /\ Addresses /\ (\/ RootReset \/ HubAck \/ HubClear \/ PollPort \/ PortRequestFails
                        \/ NewRound \/ LoopEnds \/ Visit) => InReset'
  <1> SUFFICES ASSUME Types, Addresses, Smooth',
                      \/ RootReset \/ HubAck \/ HubClear \/ PollPort \/ PortRequestFails
                      \/ NewRound \/ LoopEnds \/ Visit
               PROVE  InReset'
    BY DEF InReset
  <1>1. Smooth /\ InReset /\ StackInv
    <2>1. Next
      BY DEF Next, Kernel, ResetPort
    <2> QED BY <2>1, SmoothBefore DEF Addresses, Types
  <1>2. UNCHANGED <<at, enabled, devAddr>>
    BY DEF RootReset, HubAck, HubClear, PollPort, PortRequestFails, NewRound, LoopEnds, Visit, Look,
           RootGone, HubGone, RootCame, HubCame, HubCheck, world, ports
  <1>3. CASE HubAck \/ HubClear
    <2>1. /\ Running /\ Top.st \in {"ack", "clear"} /\ Top.port \in Ports(Top.dev) /\ UNCHANGED cell
          /\ \E st \in {"clear", "final"} : Goto(st)
      BY <1>3 DEF HubAck, HubClear, InPort
    <2>2. Running' /\ Top'.st \in {"clear", "final"} /\ Top'.dev = Top.dev /\ Top'.port = Top.port
      BY <1>1, <2>1, GotoKeeps DEF Steps
    <2>3. PortSeen' = PortSeen /\ Nameless' = Nameless
      BY <1>2, <2>1, <2>2, SeenStays DEF Nameless
    <2> QED BY <1>1, <2>1, <2>2, <2>3 DEF InReset, Awaited
  <1>4. CASE RootReset \/ PollPort \/ NewRound \/ LoopEnds \/ Visit
    <2>1. ~(Running /\ Top.st \in Naming)
      <3>1. CASE RootReset \/ PollPort
        BY <3>1 DEF RootReset, PollPort, Look, RootGone, HubGone, RootCame, HubCame, HubCheck, InPort,
                    Naming
      <3>2. CASE LoopEnds
        <4>1. Running /\ Top.port \notin Ports(Top.dev)
          BY <3>2 DEF LoopEnds
        <4> QED BY <1>1, <4>1, TopIsSound DEF Sound, Resting, Naming
      <3>3. CASE NewRound \/ Visit
        BY <3>3 DEF NewRound, Visit
      <3> QED BY <1>4, <3>1, <3>2, <3>3
    <2> QED BY <1>1, <1>2, <2>1, NobodyNameless, NamelessStays
  <1>5. CASE PortRequestFails
    <2>1. Nameless = {}
      <3>1. /\ Running /\ Top.st \in {"look", "gone", "came", "check", "reset", "ack", "final"}
            /\ Top.dev # Root /\ FailsIf(PortSeen = {} \/ Wide(cell[Top.dev].addr))
        BY <1>5 DEF PortRequestFails
      <3>2. PortSeen = {}
        BY <1>1, <3>1, HeardFails
      <3> QED BY <1>1, <3>1, <3>2 DEF InReset, Awaited
    <2> QED BY <1>2, <2>1, NamelessStays
  <1> QED BY <1>3, <1>4, <1>5

LEMMA AddressesStep == Types /\ Addresses /\ [Next]_vars => Addresses'
  <1> SUFFICES ASSUME Types, Addresses, [Next]_vars PROVE Addresses'
    OBVIOUS
  <1>1. Wiring' /\ Distinct'
    BY WiringStep, DistinctStep DEF Addresses
  <1>2. CASE UNCHANGED vars
    <2>1. UNCHANGED <<at, enabled, devAddr, cell, stack, faults, nextAddr>>
      BY <1>2 DEF vars, world, ports
    <2>2. InReset
      BY DEF Addresses
    <2> QED BY <1>1, <2>1, <2>2 DEF Addresses, InReset, Nameless, Awaited, Running, Top, PortSeen,
                                    Answers, Smooth
  <1>3. ASSUME Next PROVE InReset'
    BY <1>3, WorldAwaits, ResetAwaits, InitAwaits, FinalAwaits, OtherAwaits DEF Next, Kernel, ResetPort
  <1> QED BY <1>1, <1>2, <1>3 DEF Addresses

LEMMA AddressesHold == Spec => []Addresses
  <1>1. Init => Addresses
    <2> SUFFICES ASSUME Init PROVE Addresses
      OBVIOUS
    <2>1. \A l \in Locs : ~enabled[l]
      BY DEF Init
    <2>2. Wiring
      <3>1. Null \notin Hubs
        BY TopologyAssumption DEF Devs
      <3>2. \A k, l \in Locs : at[k] = at[l] /\ at[k] # Null => k = l
        BY DEF Init
      <3>3. \A l \in Locs : at[l] \in Hubs => l[1] = Root
        BY <3>1 DEF Init
      <3> QED BY <2>1, <3>2, <3>3 DEF Wiring
    <2> QED BY <2>1, <2>2 DEF Addresses, Distinct, InReset, Nameless
  <1>2. Types /\ Addresses /\ [Next]_vars => Addresses'
    BY AddressesStep
  <1> QED BY <1>1, <1>2, WellTyped, PTL DEF Spec

(* No two devices answer at the same address as long as no request fails,   *)
(* memory lasts and no more devices were started than the address field has *)
(* values for: a port is reset only when the device reset before it has its *)
(* own address, also in the probe of a hub inside its own initialisation,   *)
(* and no address that fits the field is given twice (usbd.cpp:146).        *)
THEOREM AddressesDistinctHolds == Spec => []AddressesDistinct
  <1>1. Types /\ Addresses => AddressesDistinct
    BY DistinctIsMeant
  <1> QED BY <1>1, WellTyped, AddressesHold, PTL

-----------------------------------------------------------------------------
(* What UsbPoll knows of the ports, as long as no request fails.  A port is *)
(* visited while the innermost loop is at it; it is due while a loop has    *)
(* still to reset it, or its hub has still to be started; otherwise it is   *)
(* at rest.                                                                 *)
Greeting == {"desc", "addr", "conf"}
Polling == {"look", "gone", "came", "check"}
Visits == {"gone", "came", "check", "enable", "ack", "clear", "final"}

Ahead(e, l) == ~e.polls /\ e.port <= l[2] /\ (e.port = l[2] => e.st = "reset")
Owns(l) == IF Top.dev = Root THEN l[1] = Root
           ELSE l[1] # Root /\ l[1] \in Answers(cell[Top.dev].addr)
Starting(q) == Running /\ Top.dev = Root /\ Top.port = q[2] /\ Top.st \in {"final"} \cup Greeting
Unstarted(h) == \A q \in Locs : at[q] = h /\ enabled[q] => Starting(q)
Waits(l) ==
  \/ l[1] = Root /\ Running /\ stack[1].dev = Root /\ Ahead(stack[1], l)
  \/ l[1] # Root /\ Running /\ Top.dev # Root /\ Owns(l) /\ Ahead(Top, l)
  \/ l[1] # Root /\ Unstarted(l[1])
StageOf(st) == IF st \in Visits THEN st ELSE IF st = "reset" THEN "due" ELSE "rest"
Stage(l) == IF Running /\ l \in PortSeen THEN StageOf(Top.st) ELSE IF Waits(l) THEN "due" ELSE "rest"

(* The status bits of a port, and its entries, at each stage.               *)
Signals(l, s) ==
  /\ s \in {"due", "gone", "came", "check", "enable"} => ~enabled[l]
  /\ s = "gone" => change[l] /\ (fresh[l] \/ at[l] = Null)
  /\ s = "check" => (change[l] <=> fresh[l])
  /\ s = "enable" => ~change[l]
  /\ s \in {"ack", "final"} => change[l] \/ (enabled[l] <=> at[l] # Null)
  /\ s = "final" => (change[l] => fresh[l] /\ ~enabled[l])
  /\ s = "rest" => IF fresh[l] THEN change[l] /\ (at[l] # Null => ~enabled[l])
                   ELSE at[l] # Null => enabled[l] /\ ~change[l]
Shown(l, s) ==
  /\ \A c, d \in Entries(l) : c = d
  /\ s \notin {"gone", "rest"} => Entries(l) = {}
  /\ s = "rest" => IF fresh[l] THEN at[l] # Null => Entries(l) = {}
                   ELSE Entries(l) # {} <=> at[l] # Null
Followable(l) == l \notin lost /\ \A q \in Locs : at[q] = l[1] => q \notin lost
Fits(l) == Signals(l, Stage(l)) /\ (Alone(l) => Shown(l, Stage(l)))
Follows == \A l \in Locs : Followable(l) => Fits(l)

(* A hub is probed inside the loop over the root ports, and nothing deeper; *)
(* its entry stays while it is probed.                                      *)
Nested ==
  /\ Len(stack) <= 2
  /\ Running => stack[1].dev = Root \/ stack[1].polls
  /\ Len(stack) = 2 => /\ stack[1].dev = Root
                       /\ stack[1].st = (IF stack[1].polls THEN "look" ELSE "reset")
                       /\ stack[2].dev # Root /\ ~stack[2].polls
  /\ Running /\ Top.st \in Polling => Top.polls
  /\ Running /\ Top.st \in {"check", "ack", "clear"} => Top.dev # Root
Probed ==
  Running /\ Top.dev # Root /\ ~Top.polls =>
    Top.dev \in live /\ cell[Top.dev].addr # 0 /\ (Top.st \in Greeting => Top.new # Top.dev)

(* The device that is being initialised: where its entry says it is, and    *)
(* the only one with the address in the entry.                              *)
Unnamed == Running /\ Top.st \in {"ack", "clear", "final"} =>
             \A l \in PortSeen : enabled[l] => devAddr[at[l]] = 0
Greeted ==
  Running /\ Top.st \in Greeting =>
    LET l == cell[Top.new].from
    IN  /\ Top.new \in live
        /\ l \in Locs /\ l[2] = Top.port /\ (l[1] = Root <=> Top.dev = Root)
        /\ Top.st \in {"desc", "addr"} => (enabled[l] => devAddr[at[l]] = 0)
        /\ Top.st = "conf" =>
             /\ cell[Top.new].addr # 0
             /\ \A k \in Locs : enabled[k] => (devAddr[at[k]] = cell[Top.new].addr <=> k = l)

(* Entries are those of ports in use, and only these are visited. *)
InUse ==
  /\ used \subseteq Locs
  /\ \A c \in live : cell[c].from \in used /\ cell[c].port = cell[c].from[2]
  /\ \A l \in Locs : at[l] # Null \/ change[l] => l \in used
  /\ Running /\ Top.st = "gone" => PortSeen \subseteq used
Parts == Nested /\ Probed /\ Unnamed /\ Greeted /\ InUse /\ Follows
PortInv == Smooth => Parts

-----------------------------------------------------------------------------
LEMMA LocIs ==
  ASSUME NEW l \in Locs
  PROVE  /\ l = <<l[1], l[2]>> /\ l[2] \in Nat /\ l[1] \in {Root} \cup Hubs /\ l[2] \in Ports(l[1])
         /\ Root \notin Hubs /\ Null \notin Hubs /\ Root # Null /\ Root \notin Devs
  <1>1. PICK k \in {Root} \cup Hubs : l \in {k} \X Ports(k)
    BY DEF Locs
  <1>2. \A n : n \in Ports(k) => n \in Nat
    BY TopologyAssumption DEF Ports
  <1> QED BY <1>1, <1>2, TopologyAssumption DEF Devs

(* The ports that the innermost loop is at. *)
LEMMA SeenIs ==
  ASSUME NEW l \in Locs
  PROVE  l \in PortSeen <=> Owns(l) /\ l[2] = Top.port
  <1>1. /\ l = <<l[1], l[2]>> /\ l[1] \in {Root} \cup Hubs /\ Root \notin Hubs
    BY LocIs
  <1>2. CASE Top.dev = Root
    BY <1>1, <1>2 DEF PortSeen, Owns
  <1>3. CASE Top.dev # Root
    <2> DEFINE A == Answers(cell[Top.dev].addr)
    <2>1. PortSeen = {<<h, Top.port>> : h \in A \cap Hubs} /\ (Owns(l) <=> l[1] # Root /\ l[1] \in A)
      BY <1>3 DEF PortSeen, Owns
    <2> HIDE DEF A
    <2>2. l \in PortSeen <=> \E h \in A \cap Hubs : l = <<h, Top.port>>
      BY <2>1
    <2>3. \A h : l = <<h, Top.port>> <=> l[1] = h /\ l[2] = Top.port
      BY <1>1
    <2> QED BY <1>1, <2>1, <2>2, <2>3
  <1> QED BY <1>2, <1>3

(* The same, of every port, so that it can be said of the next state too. *)
SeenAll == \A l \in Locs : l \in PortSeen <=> Owns(l) /\ l[2] = Top.port
LEMMA SeenAlways == SeenAll
  BY SeenIs DEF SeenAll

(* Where the loops stand on the stack. *)
LEMMA Levels2 ==
  ASSUME StackInv, Nested, Running
  PROVE  /\ Len(stack) \in {1, 2} /\ Top = stack[Len(stack)]
         /\ Top.dev = Root => Len(stack) = 1 /\ Top = stack[1]
         /\ Top.polls => Len(stack) = 1 /\ Top = stack[1]
         /\ Top.dev # Root /\ ~Top.polls => Len(stack) = 2
         /\ Len(stack) = 2 => Top.dev # Root /\ ~Top.polls
         /\ Top.port \in Nat /\ Top.polls \in BOOLEAN /\ stack[1].port \in Nat
  <1>1. Top = stack[Len(stack)] /\ Len(stack) \in Nat /\ Len(stack) >= 1 /\ Top \in Levels
    BY TopIsSound
  <1>2. Len(stack) \in {1, 2}
    <2>1. Len(stack) <= 2
      BY DEF Nested
    <2>2. \A n \in Nat : n >= 1 /\ n <= 2 => n \in {1, 2}
      OBVIOUS
    <2> QED BY <1>1, <2>1, <2>2, Zenon
  <1>3. stack[1] \in Levels
    BY <1>1 DEF StackInv
  <1> QED BY <1>1, <1>2, <1>3 DEF Nested, Levels

LEMMA FirstIs ==
  ASSUME StackInv, Nested, Running, NEW e, Sound(e), stack' = [stack EXCEPT ![Len(stack)] = e]
  PROVE  /\ StackInv' /\ Running' /\ Top' = e /\ Len(stack') = Len(stack)
         /\ Len(stack) = 1 => stack'[1] = e
         /\ Len(stack) = 2 => stack'[1] = stack[1]
  <1>1. StackInv' /\ Running' /\ Top' = e /\ Len(stack') = Len(stack)
    BY PutTop
  <1>2. Len(stack) \in {1, 2}
    BY Levels2
  <1>3. Len(stack) = 1 => stack'[1] = e
    BY DEF StackInv
  <1>4. Len(stack) = 2 => stack'[1] = stack[1]
    BY DEF StackInv
  <1> QED BY <1>1, <1>2, <1>3, <1>4

(* The innermost loop moves, in the same port or to the next one. *)
LEMMA NestedStays ==
  ASSUME StackInv, Nested, Running, NEW e, Sound(e), stack' = [stack EXCEPT ![Len(stack)] = e],
         e.dev = Top.dev, e.polls = Top.polls, e.st \in Polling => e.polls,
         e.st \in {"check", "ack", "clear"} => e.dev # Root
  PROVE  Nested'
  <1>1. /\ StackInv' /\ Running' /\ Top' = e /\ Len(stack') = Len(stack)
        /\ Len(stack) = 1 => stack'[1] = e
        /\ Len(stack) = 2 => stack'[1] = stack[1]
    BY FirstIs
  <1>2. /\ Len(stack) \in {1, 2} /\ Top = stack[Len(stack)]
        /\ Len(stack) = 1 => Top = stack[1]
    BY Levels2
  <1>3. Len(stack) = 2 => stack'[2] = e
    <2>1. Top' = stack'[Len(stack')]
      BY DEF Top, Last
    <2> QED BY <1>1, <2>1
  <1> QED BY <1>1, <1>2, <1>3 DEF Nested

LEMMA GotoIs ==
  ASSUME StackInv, Nested, Running, NEW st \in Steps, Goto(st),
         st \in Greeting => Top.new \in Cells,
         st = "enable" => Top.dev = Root,
         st \notin Resting => Top.port \in Ports(Top.dev),
         st \in Polling => Top.polls, st \in {"check", "ack", "clear"} => Top.dev # Root
  PROVE  /\ StackInv' /\ Running' /\ Nested' /\ Len(stack') = Len(stack)
         /\ Top'.st = st /\ Top'.dev = Top.dev /\ Top'.port = Top.port /\ Top'.new = Top.new
         /\ Top'.polls = Top.polls
         /\ Len(stack) = 1 => stack'[1] = Top'
         /\ Len(stack) = 2 => stack'[1] = stack[1]
  <1> DEFINE e == [Top EXCEPT !.st = st]
  <1>1. stack' = [stack EXCEPT ![Len(stack)] = e]
    BY TopIsSound DEF Goto
  <1>2. /\ e \in Levels /\ e.st = st /\ e.dev = Top.dev /\ e.port = Top.port /\ e.new = Top.new
        /\ e.polls = Top.polls
    BY TopIsSound DEF Levels
  <1>3. Sound(e)
    BY <1>2 DEF Sound, Greeting
  <1> HIDE DEF e
  <1>4. Nested'
    BY <1>1, <1>2, <1>3, NestedStays
  <1> QED BY <1>1, <1>2, <1>3, <1>4, FirstIs

LEMMA NextPortIs ==
  ASSUME StackInv, Nested, Running, NextPort
  PROVE  /\ StackInv' /\ Running' /\ Nested' /\ Len(stack') = Len(stack)
         /\ Top'.st = (IF Top.polls THEN "look" ELSE "reset") /\ Top'.dev = Top.dev
         /\ Top'.port = Top.port + 1 /\ Top'.polls = Top.polls
         /\ Len(stack) = 1 => stack'[1] = Top'
         /\ Len(stack) = 2 => stack'[1] = stack[1]
  <1> DEFINE e == [Loop(Top.dev, Top.polls) EXCEPT !.port = Top.port + 1]
  <1>1. stack' = [stack EXCEPT ![Len(stack)] = e]
    BY DEF NextPort, AfterPort
  <1>2. Top.dev \in Cells \cup {Root} /\ Top.polls \in BOOLEAN /\ Top.port + 1 \in Nat
    BY TopIsSound DEF Levels
  <1>3. /\ Sound(e) /\ e.dev = Top.dev /\ e.port = Top.port + 1 /\ e.polls = Top.polls
        /\ e.st = (IF Top.polls THEN "look" ELSE "reset")
    BY <1>2 DEF Loop, Levels, Steps, Resting, Sound
  <1> HIDE DEF e
  <1>4. Nested'
    BY <1>1, <1>2, <1>3, NestedStays DEF Polling
  <1> QED BY <1>1, <1>3, <1>4, FirstIs

-----------------------------------------------------------------------------
(* How the stages change.  A port that the innermost loop has passed, or    *)
(* that is polled, waits for nothing.                                       *)
Apart == \A l \in Locs :
  Running /\ Owns(l) /\ (Top.polls \/ l[2] < Top.port \/ (l[2] = Top.port /\ Top.st # "reset")) => ~Waits(l)
LEMMA ApartAlways == StackInv /\ Nested => Apart
  <1> SUFFICES ASSUME StackInv, Nested, NEW l \in Locs, Running, Owns(l),
                      Top.polls \/ l[2] < Top.port \/ (l[2] = Top.port /\ Top.st # "reset")
               PROVE  ~Waits(l)
    BY DEF Apart
  <1>1. l[2] \in Nat /\ Top.port \in Nat /\ (Top.dev = Root => Top = stack[1])
        /\ (Len(stack) = 1 => Top = stack[1]) /\ (Top.polls => Top = stack[1])
    BY LocIs, Levels2
  <1>2. ~Ahead(Top, l)
    BY <1>1 DEF Ahead
  <1>3. CASE l[1] = Root
    <2>1. Top.dev = Root
      BY <1>3 DEF Owns
    <2> QED BY <1>1, <1>2, <1>3, <2>1 DEF Waits
  <1>4. CASE l[1] # Root
    <2>1. Top.dev # Root /\ l[1] \in Answers(cell[Top.dev].addr)
      BY <1>4 DEF Owns
    <2>2. PICK q \in Locs : at[q] = l[1] /\ enabled[q]
      BY <2>1 DEF Answers
    <2>3. ~Unstarted(l[1])
      BY <2>1, <2>2 DEF Unstarted, Starting
    <2> QED BY <1>2, <1>4, <2>3 DEF Waits
  <1> QED BY <1>3, <1>4

(* The innermost loop goes on. *)
Moves ==
  /\ Running' /\ Top'.dev = Top.dev /\ Top'.polls = Top.polls /\ Len(stack') = Len(stack)
  /\ Len(stack) = 1 => stack'[1] = Top'
  /\ Len(stack) = 2 => stack'[1] = stack[1]

LEMMA OwnsStays ==
  ASSUME UNCHANGED <<at, enabled, devAddr>>, Top'.dev = Top.dev, NEW l,
         Top.dev # Root => cell'[Top.dev].addr = cell[Top.dev].addr
  PROVE  Owns(l)' <=> Owns(l)
  <1>1. \A a : Answers(a)' = Answers(a)
    BY DEF Answers
  <1> QED BY <1>1 DEF Owns

LEMMA WaitsStays ==
  ASSUME StackInv, Nested, Running, Moves, NEW l \in Locs,
         Top.polls \/ (Owns(l)' <=> Owns(l)),
         Owns(l) => (Ahead(Top', l) <=> Ahead(Top, l)),
         l[1] # Root => (Unstarted(l[1])' <=> Unstarted(l[1]))
  PROVE  Waits(l)' <=> Waits(l)
  <1>1. /\ Len(stack) \in {1, 2} /\ Top = stack[Len(stack)]
        /\ Len(stack) = 1 => Top = stack[1]
        /\ Top.dev = Root => Len(stack) = 1
    BY Levels2
  <1>2. /\ Running' /\ Top'.dev = Top.dev /\ Top'.polls = Top.polls
        /\ Len(stack) = 1 => stack'[1] = Top'
        /\ Len(stack) = 2 => stack'[1] = stack[1]
    BY DEF Moves
  <1>3. CASE l[1] = Root
    <2>1. Waits(l) <=> stack[1].dev = Root /\ Ahead(stack[1], l)
      BY <1>3 DEF Waits
    <2>2. Waits(l)' <=> stack'[1].dev = Root /\ Ahead(stack'[1], l)
      BY <1>2, <1>3 DEF Waits
    <2>3. CASE Len(stack) = 2
      BY <1>2, <2>1, <2>2, <2>3
    <2>4. CASE Len(stack) = 1 /\ Top.dev = Root
      <3>1. Owns(l)
        BY <1>3, <2>4 DEF Owns
      <3> QED BY <1>1, <1>2, <2>1, <2>2, <2>4, <3>1
    <2>5. CASE Len(stack) = 1 /\ Top.dev # Root
      BY <1>1, <1>2, <2>1, <2>2, <2>5
    <2> QED BY <1>1, <2>3, <2>4, <2>5
  <1>4. CASE l[1] # Root
    <2>1. Unstarted(l[1])' <=> Unstarted(l[1])
      BY <1>4
    <2>2. Top.polls => ~Ahead(Top, l) /\ ~Ahead(Top', l)
      BY <1>2 DEF Ahead
    <2>3. Waits(l) <=> (Top.dev # Root /\ Owns(l) /\ Ahead(Top, l)) \/ Unstarted(l[1])
      BY <1>4 DEF Waits
    <2>4. Waits(l)' <=> (Top'.dev # Root /\ Owns(l)' /\ Ahead(Top', l)) \/ Unstarted(l[1])'
      BY <1>2, <1>4 DEF Waits
    <2> QED BY <1>2, <2>1, <2>2, <2>3, <2>4
  <1> QED BY <1>3, <1>4

(* It stays in the port. *)
LEMMA GotoStage ==
  ASSUME StackInv, Nested, Running, Moves, Top'.port = Top.port, UNCHANGED <<at, enabled>>,
         \A l \in Locs : Owns(l)' <=> Owns(l),
         Top.dev = Root => (Top.st \in {"final"} \cup Greeting <=> Top'.st \in {"final"} \cup Greeting),
         NEW l \in Locs
  PROVE  /\ l \in PortSeen' <=> l \in PortSeen
         /\ l \in PortSeen => Stage(l) = StageOf(Top.st) /\ Stage(l)' = StageOf(Top'.st)
         /\ l \notin PortSeen => Stage(l)' = Stage(l)
  <1>1. SeenAll /\ SeenAll'
    BY SeenAlways, PTL
  <1>2. Running' /\ Top'.dev = Top.dev /\ Top'.polls = Top.polls
    BY DEF Moves
  <1>3. l \in PortSeen' <=> l \in PortSeen
    BY <1>1 DEF SeenAll
  <1>4. l \in PortSeen => Stage(l) = StageOf(Top.st) /\ Stage(l)' = StageOf(Top'.st)
    BY <1>2, <1>3 DEF Stage
  <1>5. ASSUME l \notin PortSeen PROVE Stage(l)' = Stage(l)
    <2>1. Owns(l) => l[2] # Top.port
      BY <1>1, <1>5 DEF SeenAll
    <2>2. Owns(l) => (Ahead(Top', l) <=> Ahead(Top, l))
      BY <1>2, <2>1 DEF Ahead
    <2>3. \A q : Starting(q)' <=> Starting(q)
      BY <1>2 DEF Starting
    <2>4. Unstarted(l[1])' <=> Unstarted(l[1])
      BY <2>3 DEF Unstarted
    <2>5. Waits(l)' <=> Waits(l)
      BY <2>2, <2>4, WaitsStays
    <2> QED BY <1>2, <1>3, <1>5, <2>5 DEF Stage
  <1> QED BY <1>3, <1>4, <1>5

(* A device is found in the port, or its initialisation goes on: this may   *)
(* take the entry of a hub that is polled but has gone.                     *)
LEMMA GreetStage ==
  ASSUME StackInv, Nested, Running, Moves, Top'.port = Top.port, UNCHANGED <<at, enabled>>,
         StackInv', Nested', Top.polls \/ \A l \in Locs : Owns(l)' <=> Owns(l),
         Top.st \in {"final"} \cup Greeting, Top'.st \in Greeting, NEW l \in Locs
  PROVE  IF l \in PortSeen THEN Stage(l) = StageOf(Top.st) /\ Stage(l)' = "rest"
         ELSE Stage(l)' = Stage(l)
  <1>1. SeenAll /\ SeenAll' /\ Apart /\ Apart'
    BY SeenAlways, ApartAlways, PTL
  <1>2. Running' /\ Top'.dev = Top.dev /\ Top'.polls = Top.polls
    BY DEF Moves
  <1>3. Owns(l) => (Ahead(Top', l) <=> Ahead(Top, l))
    BY <1>2 DEF Ahead, Greeting
  <1>4. \A q : Starting(q)' <=> Starting(q)
    BY <1>2 DEF Starting
  <1>10. Unstarted(l[1])' <=> Unstarted(l[1])
    BY <1>4 DEF Unstarted
  <1>5. Waits(l)' <=> Waits(l)
    BY <1>3, <1>10, WaitsStays
  <1>6. StageOf(Top'.st) = "rest"
    BY DEF StageOf, Visits, Greeting
  <1>7. Stage(l)' = IF l \in PortSeen' THEN "rest" ELSE IF Waits(l)' THEN "due" ELSE "rest"
    BY <1>2, <1>6 DEF Stage
  <1>8. CASE l \in PortSeen
    <2>1. ~Waits(l)
      BY <1>1, <1>8 DEF SeenAll, Apart, Greeting
    <2> QED BY <1>5, <1>7, <1>8, <2>1 DEF Stage
  <1>9. CASE l \notin PortSeen
    <2>1. Stage(l) = IF Waits(l) THEN "due" ELSE "rest"
      BY <1>9 DEF Stage
    <2>2. l \in PortSeen' => ~Waits(l)'
      BY <1>1, <1>2 DEF SeenAll, Apart, Greeting
    <2> QED BY <1>5, <1>7, <1>9, <2>1, <2>2
  <1> QED BY <1>8, <1>9

(* It goes on with the next port, and no hub is left behind unstarted. *)
LEMMA NextStage ==
  ASSUME StackInv, Nested, Running, Moves, Top'.port = Top.port + 1, UNCHANGED <<at, enabled>>,
         StackInv', Nested', Top'.st = (IF Top.polls THEN "look" ELSE "reset"),
         \A l \in Locs : Owns(l)' <=> Owns(l),
         \A q \in Locs : Starting(q) /\ enabled[q] => at[q] \notin Hubs,
         NEW l \in Locs
  PROVE  IF l \in PortSeen THEN Stage(l) = StageOf(Top.st) /\ Stage(l)' = "rest"
         ELSE Stage(l)' = Stage(l)
  <1>1. SeenAll /\ SeenAll' /\ Apart /\ Apart'
    BY SeenAlways, ApartAlways, PTL
  <1>2. Running' /\ Top'.dev = Top.dev /\ Top'.polls = Top.polls /\ Top.port \in Nat /\ Top.polls \in BOOLEAN
    BY Levels2 DEF Moves
  <1>3. l[2] \in Nat /\ l[1] \in {Root} \cup Hubs
    BY LocIs
  <1>4. CASE l \in PortSeen
    <2>1. Owns(l) /\ l[2] = Top.port /\ l \notin PortSeen' /\ Owns(l)'
      BY <1>1, <1>2, <1>4 DEF SeenAll
    <2>2. ~Waits(l)'
      BY <1>1, <1>2, <1>3, <2>1 DEF Apart
    <2> QED BY <1>4, <2>1, <2>2 DEF Stage
  <1>5. ASSUME l \notin PortSeen PROVE Stage(l)' = Stage(l)
    <2>1. Owns(l) => l[2] # Top.port
      BY <1>1, <1>5 DEF SeenAll
    <2>2. Owns(l) => (Ahead(Top', l) <=> Ahead(Top, l))
      <3>1. l[2] # Top.port => (Top.port + 1 <= l[2] <=> Top.port <= l[2])
        BY <1>2, <1>3
      <3>2. ~Top.polls => Top'.st = "reset"
        BY <1>2
      <3> QED BY <1>2, <2>1, <3>1, <3>2 DEF Ahead
    <2>3. \A q \in Locs : l[1] # Root /\ at[q] = l[1] /\ enabled[q] => ~Starting(q) /\ ~Starting(q)'
      BY <1>2, <1>3 DEF Starting, Greeting
    <2>8. l[1] # Root => (Unstarted(l[1])' <=> Unstarted(l[1]))
      BY <2>3 DEF Unstarted
    <2>4. Waits(l)' <=> Waits(l)
      BY <2>2, <2>8, WaitsStays
    <2>5. Stage(l) = IF Waits(l) THEN "due" ELSE "rest"
      BY <1>5 DEF Stage
    <2>6. CASE l \notin PortSeen'
      BY <2>4, <2>5, <2>6 DEF Stage
    <2>7. CASE l \in PortSeen'
      <3>1. Owns(l) /\ l[2] = Top.port + 1 /\ Stage(l)' = StageOf(Top'.st)
        BY <1>1, <1>2, <2>7 DEF SeenAll, Stage
      <3>2. CASE Top.polls
        <4>1. ~Waits(l)
          BY <1>1, <3>1, <3>2 DEF Apart
        <4> QED BY <2>5, <3>1, <3>2, <4>1 DEF StageOf, Visits
      <3>3. CASE ~Top.polls
        <4>1. Ahead(Top, l)
          BY <1>2, <3>1, <3>3 DEF Ahead
        <4>2. Waits(l)
          BY <3>1, <4>1, Levels2 DEF Waits, Owns
        <4> QED BY <2>5, <3>1, <3>3, <4>2 DEF StageOf, Visits
      <3> QED BY <3>2, <3>3
    <2> QED BY <2>6, <2>7
  <1> QED BY <1>4, <1>5

-----------------------------------------------------------------------------
(* The two ways of moving on, with what they do to the stages. *)
LEMMA InPlace ==
  ASSUME StackInv, Nested, Running, Top.port \in Ports(Top.dev),
         NEW st \in Steps \ Greeting, Goto(st), UNCHANGED <<at, enabled, devAddr, cell>>,
         st = "enable" => Top.dev = Root, st \in Polling => Top.polls,
         st \in {"check", "ack", "clear"} => Top.dev # Root,
         Top.dev = Root => (Top.st \in {"final"} \cup Greeting <=> st = "final")
  PROVE  /\ Nested' /\ Moves /\ Top'.st = st /\ Top'.port = Top.port /\ PortSeen' = PortSeen
         /\ \A l \in Locs : IF l \in PortSeen THEN Stage(l) = StageOf(Top.st) /\ Stage(l)' = StageOf(st)
                            ELSE Stage(l)' = Stage(l)
  <1>1. Nested' /\ Moves /\ Top'.st = st /\ Top'.port = Top.port
    BY GotoIs DEF Moves
  <1>2. Top'.dev = Top.dev
    BY <1>1 DEF Moves
  <1>3. PortSeen' = PortSeen
    BY <1>1, <1>2, SeenStays
  <1>4. \A l \in Locs : Owns(l)' <=> Owns(l)
    BY <1>2, OwnsStays
  <1>5. Top.dev = Root => (Top.st \in {"final"} \cup Greeting <=> Top'.st \in {"final"} \cup Greeting)
    BY <1>1
  <1>6. \A l \in Locs : IF l \in PortSeen THEN Stage(l) = StageOf(Top.st) /\ Stage(l)' = StageOf(Top'.st)
                        ELSE Stage(l)' = Stage(l)
    BY <1>1, <1>4, <1>5, GotoStage
  <1> QED BY <1>1, <1>3, <1>6

LEMMA Onward ==
  ASSUME StackInv, Nested, Running, NextPort, UNCHANGED <<at, enabled, devAddr>>,
         Top.dev # Root => cell'[Top.dev].addr = cell[Top.dev].addr,
         \A q \in Locs : Starting(q) /\ enabled[q] => at[q] \notin Hubs
  PROVE  /\ Nested' /\ Moves /\ Top'.st = (IF Top.polls THEN "look" ELSE "reset")
         /\ \A l \in Locs : IF l \in PortSeen THEN Stage(l) = StageOf(Top.st) /\ Stage(l)' = "rest"
                            ELSE Stage(l)' = Stage(l)
  <1>1. /\ StackInv' /\ Nested' /\ Moves /\ Top'.st = (IF Top.polls THEN "look" ELSE "reset")
        /\ Top'.port = Top.port + 1
    BY NextPortIs DEF Moves
  <1>2. Top'.dev = Top.dev
    BY <1>1 DEF Moves
  <1>3. \A l \in Locs : Owns(l)' <=> Owns(l)
    BY <1>2, OwnsStays
  <1> QED BY <1>1, <1>3, NextStage

(* What is known of a port stays, if nothing about it changes. *)
LEMMA FitsStays ==
  ASSUME NEW l \in Locs, Fits(l), UNCHANGED <<at, used>>,
         change'[l] = change[l], enabled'[l] = enabled[l], fresh'[l] = fresh[l],
         Stage(l)' = Stage(l), Alone(l) => Entries(l)' = Entries(l)
  PROVE  Fits(l)'
  <1>1. Alone(l)' <=> Alone(l)
    BY DEF Alone
  <1>2. Signals(l, Stage(l))'
    BY DEF Fits, Signals
  <1>3. Alone(l) => Shown(l, Stage(l))'
    <2> SUFFICES ASSUME Alone(l) PROVE Shown(l, Stage(l))'
      OBVIOUS
    <2>1. Entries(l)' = Entries(l) /\ Shown(l, Stage(l))
      BY DEF Fits
    <2> QED BY <2>1 DEF Shown
  <1> QED BY <1>1, <1>2, <1>3 DEF Fits

LEMMA FollowsStep ==
  ASSUME Follows, UNCHANGED <<at, used>>, lost \subseteq lost', NEW p,
         \A l \in Locs \ {p} : /\ change'[l] = change[l] /\ enabled'[l] = enabled[l]
                               /\ fresh'[l] = fresh[l] /\ Stage(l)' = Stage(l)
                               /\ Alone(l) => Entries(l)' = Entries(l),
         p \in Locs /\ p \notin lost' /\ Fits(p) => Fits(p)'
  PROVE  Follows'
  <1> SUFFICES ASSUME NEW l \in Locs, Followable(l)' PROVE Fits(l)'
    BY DEF Follows
  <1>1. Followable(l) /\ l \notin lost'
    BY DEF Followable
  <1>2. Fits(l)
    BY <1>1 DEF Follows
  <1> QED BY <1>1, <1>2, FitsStays

LEMMA FollowsSame ==
  ASSUME Follows, UNCHANGED <<at, used, change, enabled, fresh>>, lost \subseteq lost',
         \A l \in Locs : Stage(l)' = Stage(l) /\ Entries(l)' = Entries(l)
  PROVE  Follows'
  <1> SUFFICES ASSUME NEW l \in Locs, Followable(l)' PROVE Fits(l)'
    BY DEF Follows
  <1>1. Followable(l)
    BY DEF Followable
  <1>2. Fits(l)
    BY <1>1 DEF Follows
  <1> QED BY <1>2, FitsStays

-----------------------------------------------------------------------------
(* What the kernel does in a port, step by step. *)
Known == Types /\ Whole /\ Addresses /\ Parts /\ Smooth

LEMMA PortIs ==
  ASSUME Known, Running, Top.port \in Ports(Top.dev), NEW p \in PortSeen
  PROVE  p \in Locs /\ PortSeen = {p} /\ (Top.dev = Root <=> p[1] = Root) /\ p[2] = Top.port
  <1>1. p \in Locs /\ p[2] = Top.port /\ (Top.dev = Root => p = <<Root, Top.port>>)
        /\ (Top.dev # Root => p[1] \in Hubs)
    BY SeenIsLoc DEF Known, Types
  <1>2. \A l \in PortSeen : l = p
    BY SeenIsOne DEF Known
  <1> QED BY <1>1, <1>2, LocIs

LEMMA RootResetFollows ==
  ASSUME Known, RootReset PROVE Nested' /\ Follows'
  <1>1. PICK p :
        /\ p = <<Root, Top.port>>
        /\ Running /\ Top.st = "reset" /\ Top.port \in Ports(Top.dev) /\ Top.dev = Root
        /\ Goto("enable") /\ PortSeen = {p} /\ change' = [change EXCEPT ![p] = FALSE]
        /\ UNCHANGED <<at, used, enabled, devAddr, fresh, lost, live, cell>>
    BY DEF RootReset, InPort, PortSeen, world, list
  <1>2. StackInv /\ Nested /\ Follows /\ change \in [Locs -> BOOLEAN]
    BY DEF Known, Types, PortTypes, Parts
  <1>3. p \in Locs
    BY <1>1, RootLoc
  <1>4. /\ Nested'
        /\ \A l \in Locs : IF l \in PortSeen THEN Stage(l) = StageOf("reset") /\ Stage(l)' = StageOf("enable")
                           ELSE Stage(l)' = Stage(l)
    BY <1>1, <1>2, InPlace DEF Steps, Greeting, Polling
  <1>5. \A l : Entries(l)' = Entries(l)
    BY <1>1 DEF Entries
  <1>6. Stage(p) = "due" /\ Stage(p)' = "enable"
    BY <1>1, <1>3, <1>4 DEF StageOf, Visits
  <1>7. \A l \in Locs \ {p} : change'[l] = change[l] /\ Stage(l)' = Stage(l)
    BY <1>1, <1>2, <1>4
  <1>8. Fits(p) => Fits(p)'
    BY <1>1, <1>2, <1>3, <1>5, <1>6 DEF Fits, Signals, Shown, Alone
  <1>9. Follows'
    BY <1>1, <1>2, <1>5, <1>7, <1>8, FollowsStep
  <1> QED BY <1>4, <1>9

LEMMA HubAckFollows ==
  ASSUME Known, HubAck PROVE Nested' /\ Follows'
  <1>1. /\ Running /\ Top.st = "ack" /\ Top.port \in Ports(Top.dev)
        /\ UNCHANGED <<at, used, change, enabled, devAddr, fresh, lost, live, cell>>
    BY DEF HubAck, InPort, world, ports, list
  <1>2. PICK p \in PortSeen : Goto(IF change[p] THEN "clear" ELSE "final")
    BY DEF HubAck
  <1>3. StackInv /\ Nested /\ Follows /\ change \in [Locs -> BOOLEAN]
    BY DEF Known, Types, PortTypes, Parts
  <1>4. p \in Locs /\ PortSeen = {p} /\ Top.dev # Root
    BY <1>1, <1>3, PortIs DEF Nested
  <1>5. \A l : Entries(l)' = Entries(l)
    BY <1>1 DEF Entries
  <1>6. PICK st \in {"clear", "final"} : Goto(st) /\ (st = "final" => ~change[p])
    BY <1>2, <1>3, <1>4
  <1>7. /\ Nested'
        /\ \A l \in Locs : IF l \in PortSeen THEN Stage(l) = StageOf("ack") /\ Stage(l)' = StageOf(st)
                           ELSE Stage(l)' = Stage(l)
    BY <1>1, <1>3, <1>4, <1>6, InPlace DEF Steps, Greeting, Polling
  <1>8. Stage(p) = "ack" /\ Stage(p)' = st
    BY <1>4, <1>7 DEF StageOf, Visits
  <1>9. \A l \in Locs \ {p} : Stage(l)' = Stage(l)
    BY <1>4, <1>7
  <1>10. Fits(p) => Fits(p)'
    BY <1>1, <1>3, <1>4, <1>5, <1>6, <1>8 DEF Fits, Signals, Shown, Alone
  <1>11. Follows'
    BY <1>1, <1>3, <1>5, <1>9, <1>10, FollowsStep
  <1> QED BY <1>7, <1>11

LEMMA ResetFollows ==
  ASSUME Known, RootEnable \/ HubReset
  PROVE  Nested' /\ Follows' /\ \A l \in Locs : l \in PortSeen' <=> l \in PortSeen
  <1>1. PICK p \in PortSeen :
           /\ p \in Locs /\ PortReset(p) /\ UNCHANGED <<at, cell, faults>>
           /\ Running /\ Top.st \in {"enable", "reset"} /\ Top.port \in Ports(Top.dev)
    BY ResetIs DEF Known
  <1>2. PICK st \in {"ack", "final"} :
           /\ Goto(st) /\ (Top.st = "reset" => st = "ack" /\ Top.dev # Root)
           /\ Top.st = "enable" => st = "final" /\ Top.dev = Root
    <2>1. Top.st = "enable" => Top.dev = Root
      BY <1>1, TopIsSound DEF Known, Types, Sound
    <2> QED BY <2>1 DEF RootEnable, HubReset, InPort
  <1>3. /\ StackInv /\ Nested /\ Follows /\ change \in [Locs -> BOOLEAN] /\ enabled \in [Locs -> BOOLEAN]
        /\ at \in [Locs -> Devs \cup {Null}] /\ Wiring
    BY DEF Known, Types, PortTypes, Parts, Addresses
  <1>4. /\ PortSeen = {p} /\ (Top.dev = Root <=> p[1] = Root) /\ p[2] = Top.port
        /\ p = <<p[1], p[2]>> /\ p[1] \in {Root} \cup Hubs
    BY <1>1, PortIs, LocIs
  <1>5. UNCHANGED <<used, fresh, lost, live, cell>>
    BY <1>1 DEF RootEnable, HubReset, world, list
  <1>6. /\ Nested' /\ Moves /\ Top'.st = st /\ Top'.port = Top.port
    BY <1>1, <1>2, <1>3, GotoIs DEF Moves, Steps, Greeting, Polling
  <1>7. Running' /\ Top'.dev = Top.dev
    BY <1>6 DEF Moves
  <1>8. /\ \A k \in Locs : k # p => (enabled'[k] <=> enabled[k] /\ k[1] # at[p])
        /\ \A k \in Locs : k[1] = at[p] => (change'[k] <=> at[k] # Null)
        /\ \A k \in Locs : k[1] # at[p] => change'[k] = change[k]
        /\ enabled'[p] <=> at[p] # Null
        /\ \A d \in Devs : d # at[p] => devAddr'[d] = devAddr[d]
        /\ enabled' \in [Locs -> BOOLEAN]
    BY <1>1, <1>3 DEF PortReset
  <1>9. /\ at[p] # Root /\ p[1] # at[p] /\ (Top.dev # Root => at[p] \notin Hubs) /\ Root \notin Devs
        /\ Null \notin Hubs
    <2>1. at[p] \in Devs \cup {Null} /\ Root \notin Devs /\ Root # Null /\ Null \notin Hubs
      BY <1>1, <1>3, LocIs
    <2>2. at[p] \in Hubs => p[1] = Root
      BY <1>1, <1>3 DEF Wiring
    <2> QED BY <1>1, <1>4, <2>1, <2>2
  (* Hubs other than the one in the port go on as they were. *)
  <1>10. ASSUME NEW h \in Hubs, h # at[p]
         PROVE  \A q \in Locs : at[q] = h => /\ q # p /\ q[1] = Root /\ (enabled'[q] <=> enabled[q])
    <2> SUFFICES ASSUME NEW q \in Locs, at[q] = h
                 PROVE  q # p /\ q[1] = Root /\ (enabled'[q] <=> enabled[q])
      OBVIOUS
    <2>1. q[1] = Root
      BY <1>3 DEF Wiring
    <2> QED BY <1>8, <1>9, <1>10, <2>1
  <1>11. ASSUME NEW h \in Hubs, h # at[p], NEW a PROVE h \in Answers(a)' <=> h \in Answers(a)
    BY <1>1, <1>8, <1>10, <1>11 DEF Answers, Devs
  <1>12. \A l \in Locs : Owns(l)' <=> Owns(l)
    <2> SUFFICES ASSUME NEW l \in Locs PROVE Owns(l)' <=> Owns(l)
      OBVIOUS
    <2>1. CASE Top.dev = Root
      BY <1>7, <2>1 DEF Owns
    <2>2. CASE Top.dev # Root
      <3>1. l[1] # Root => l[1] \in Hubs /\ l[1] # at[p]
        BY <1>9, <2>2, LocIs
      <3>2. l[1] # Root => (l[1] \in Answers(cell[Top.dev].addr)' <=> l[1] \in Answers(cell[Top.dev].addr))
        BY <1>1, <1>7, <1>11, <3>1 DEF Answers
      <3> QED BY <1>1, <1>7, <2>2, <3>2 DEF Owns
    <2> QED BY <2>1, <2>2
  <1>13. SeenAll /\ SeenAll'
    BY SeenAlways, PTL
  <1>14. \A l \in Locs : l \in PortSeen' <=> l = p
    BY <1>4, <1>6, <1>12, <1>13 DEF SeenAll
  <1>15. \A l : Entries(l)' = Entries(l)
    BY <1>5 DEF Entries
  <1> SUFFICES ASSUME NEW l \in Locs, Followable(l)' PROVE Fits(l)'
    BY <1>4, <1>6, <1>14 DEF Follows
  <1>16. Followable(l) /\ Fits(l)
    BY <1>1, <1>3, <1>5 DEF Followable, Follows
  <1>17. CASE l = p
    <2>1. Stage(l) = StageOf(Top.st) /\ Stage(l)' = StageOf(st)
      BY <1>1, <1>4, <1>6, <1>7, <1>14, <1>17 DEF Stage
    <2>2. Stage(l)' = st /\ Stage(l) \in {"due", "enable"} /\ (st = "final" => Stage(l) = "enable")
      BY <1>1, <1>2, <2>1 DEF StageOf, Visits
    <2>3. change'[l] = change[l] /\ (enabled'[l] <=> at[l] # Null)
      BY <1>8, <1>9, <1>17
    <2> QED BY <1>1, <1>2, <1>5, <1>15, <1>16, <2>2, <2>3 DEF Fits, Signals, Shown, Alone
  <1>22. ASSUME l[1] # Root, l[1] = at[p] PROVE Unstarted(l[1])' /\ Unstarted(l[1])
    <2>1. Top.dev = Root /\ Top.st = "enable" /\ p[1] = Root
      BY <1>1, <1>2, <1>4, <1>9, <1>22, LocIs
    <2>2. \A q \in Locs : at[q] = l[1] => q = p
      BY <1>1, <1>3, <1>22, <1>9, LocIs DEF Wiring
    <2>3. p \notin lost /\ \A q \in Locs : at[q] # p[1]
      <3>1. p \notin lost
        BY <1>1, <1>16, <1>22 DEF Followable
      <3>2. \A q \in Locs : at[q] # Root
        BY <1>3, LocIs
      <3> QED BY <2>1, <3>1, <3>2
    <2>4. Fits(p)
      BY <1>1, <1>3, <2>3 DEF Follows, Followable
    <2>5. Stage(p) = "enable"
      BY <1>1, <1>4, <2>1 DEF Stage, StageOf, Visits
    <2>6. ~enabled[p]
      BY <2>4, <2>5 DEF Fits, Signals
    <2>7. Unstarted(l[1])
      BY <2>2, <2>6 DEF Unstarted
    <2>8. Starting(p)'
      BY <1>2, <1>4, <1>6, <1>7, <2>1 DEF Starting
    <2> QED BY <1>1, <2>2, <2>7, <2>8 DEF Unstarted
  <1>18. ASSUME l # p PROVE Waits(l)' <=> Waits(l)
    <2>1. Owns(l) => l[2] # Top.port
      BY <1>4, <1>13, <1>18 DEF SeenAll
    <2>2. Owns(l) => (Ahead(Top', l) <=> Ahead(Top, l))
      BY <1>6, <2>1 DEF Ahead, Moves
    <2>3. ASSUME l[1] # Root, l[1] # at[p] PROVE Unstarted(l[1])' <=> Unstarted(l[1])
      <3>1. l[1] \in Hubs
        BY <2>3, LocIs
      <3>2. \A q \in Locs : at[q] = l[1] => q # p /\ q[1] = Root /\ (enabled'[q] <=> enabled[q])
        BY <1>10, <2>3, <3>1
      <3>3. \A q \in Locs : at[q] = l[1] => ~Starting(q) /\ ~Starting(q)'
        <4> SUFFICES ASSUME NEW q \in Locs, at[q] = l[1] PROVE ~Starting(q) /\ ~Starting(q)'
          OBVIOUS
        <4>1. q = <<q[1], q[2]>> /\ q # p /\ q[1] = Root
          BY <3>2, LocIs
        <4>2. Top.dev = Root => q[2] # Top.port
          BY <1>4, <4>1
        <4> QED BY <1>6, <1>7, <4>2 DEF Starting
      <3> QED BY <1>1, <3>2, <3>3 DEF Unstarted
    <2> QED BY <1>1, <1>3, <1>6, <1>12, <1>22, <2>2, <2>3, WaitsStays
  <1>19. ASSUME l # p PROVE Stage(l)' = Stage(l)
    BY <1>4, <1>14, <1>18, <1>19 DEF Stage
  <1>20. CASE l # p /\ l[1] # at[p]
    <2>1. enabled'[l] = enabled[l] /\ change'[l] = change[l]
      BY <1>3, <1>8, <1>20
    <2>2. Stage(l)' = Stage(l)
      BY <1>19, <1>20
    <2> QED BY <1>1, <1>5, <1>15, <1>16, <2>1, <2>2, FitsStays
  <1>21. CASE l # p /\ l[1] = at[p]
    <2>1. ~enabled'[l]
      BY <1>8, <1>21
    <2>2. l[1] # Root /\ l \notin PortSeen
      BY <1>4, <1>9, <1>21
    <2>3. Waits(l)
      BY <1>21, <1>22, <2>2 DEF Waits
    <2>4. Stage(l) = "due" /\ Stage(l)' = "due"
      BY <1>19, <1>21, <2>2, <2>3 DEF Stage
    <2>5. Alone(l)' <=> Alone(l)
      BY <1>5 DEF Alone
    <2> QED BY <1>15, <1>16, <2>1, <2>4, <2>5 DEF Fits, Signals, Shown
  <1> QED BY <1>17, <1>20, <1>21

LEMMA HubClearFollows ==
  ASSUME Known, HubClear, Smooth' PROVE Nested' /\ Follows'
  <1>1. /\ Running /\ Top.st = "clear" /\ Top.port \in Ports(Top.dev) /\ Goto("final")
        /\ UNCHANGED <<at, used, enabled, devAddr, live, cell>>
        /\ lost \subseteq lost'
    BY DEF HubClear, InPort, world, list, Acknowledge
  <1>2. /\ StackInv /\ Nested /\ Follows /\ change \in [Locs -> BOOLEAN] /\ fresh \in [Locs -> BOOLEAN]
        /\ Wiring /\ Smooth
    BY DEF Known, Types, PortTypes, Parts, Addresses
  <1>3. Top.dev # Root
    BY <1>1, <1>2 DEF Nested
  <1>4. /\ Nested'
        /\ \A l \in Locs : IF l \in PortSeen THEN Stage(l) = StageOf("clear") /\ Stage(l)' = StageOf("final")
                           ELSE Stage(l)' = Stage(l)
    BY <1>1, <1>2, <1>3, InPlace DEF Steps, Greeting, Polling
  <1>5. \A l : Entries(l)' = Entries(l)
    BY <1>1 DEF Entries
  <1>6. CASE \E p \in PortSeen : Acknowledge(p)
    <2>1. PICK p \in PortSeen : Acknowledge(p)
      BY <1>6
    <2>2. p \in Locs /\ PortSeen = {p}
      BY <1>1, PortIs
    <2>3. /\ change' = [change EXCEPT ![p] = FALSE] /\ fresh' = [fresh EXCEPT ![p] = FALSE]
          /\ at[p] # Null /\ ~enabled[p] => p \in lost'
      BY <2>1 DEF Acknowledge, Clear
    <2>4. Stage(p) = "clear" /\ Stage(p)' = "final"
      BY <1>4, <2>2 DEF StageOf, Visits
    <2>5. p \notin lost' /\ Fits(p) => Fits(p)'
      BY <1>1, <1>2, <1>5, <2>2, <2>3, <2>4 DEF Fits, Signals, Shown, Alone, Wiring
    <2>6. \A l \in Locs \ {p} : change'[l] = change[l] /\ fresh'[l] = fresh[l] /\ Stage(l)' = Stage(l)
      BY <1>2, <1>4, <2>2, <2>3
    <2>7. Follows'
      BY <1>1, <1>2, <1>5, <2>5, <2>6, FollowsStep
    <2> QED BY <1>4, <2>7
  <1>7. CASE PortSeen = {} /\ UNCHANGED <<change, fresh, lost>>
    <2>1. Follows'
      BY <1>1, <1>2, <1>4, <1>5, <1>7, FollowsSame
    <2> QED BY <1>4, <2>1
  <1>8. FailsIf(PortSeen = {} \/ Wide(cell[Top.dev].addr)) => PortSeen = {}
    BY <1>1, <1>2, <1>3, HeardFails DEF Known
  <1> QED BY <1>6, <1>7, <1>8 DEF HubClear

LEMMA LookFollows ==
  ASSUME Known, Look PROVE Nested' /\ Follows'
  <1>1. /\ Running /\ Top.st = "look" /\ Top.port \in Ports(Top.dev)
        /\ UNCHANGED <<at, used, change, enabled, devAddr, lost, live, cell>>
    BY DEF Look, InPort, world, ports, list
  <1>2. /\ StackInv /\ Nested /\ Follows /\ change \in [Locs -> BOOLEAN] /\ fresh \in [Locs -> BOOLEAN]
        /\ enabled \in [Locs -> BOOLEAN] /\ Wiring /\ Top.polls
    BY <1>1 DEF Known, Types, PortTypes, Parts, Addresses, Nested, Polling
  <1>3. PICK p \in PortSeen :
           /\ fresh' = [fresh EXCEPT ![p] = FALSE]
           /\ \/ change[p] /\ at[p] = Null /\ Goto("gone")
              \/ change[p] /\ at[p] # Null /\ Goto("came")
              \/ ~change[p] /\ NextPort
    BY DEF Look
  <1>4. p \in Locs /\ PortSeen = {p}
    BY <1>1, PortIs
  <1>5. \A l : Entries(l)' = Entries(l)
    BY <1>1 DEF Entries
  <1>6. PICK s \in {"gone", "came", "rest"} :
          /\ IF s = "gone" THEN change[p] /\ at[p] = Null
             ELSE IF s = "came" THEN change[p] /\ at[p] # Null ELSE ~change[p]
          /\ Nested'
          /\ \A l \in Locs : IF l \in PortSeen THEN Stage(l) = StageOf("look") /\ Stage(l)' = s
                             ELSE Stage(l)' = Stage(l)
    <2>1. ASSUME NEW st \in {"gone", "came"}, Goto(st)
          PROVE  /\ Nested'
                 /\ \A l \in Locs : IF l \in PortSeen THEN Stage(l) = StageOf("look") /\ Stage(l)' = StageOf(st)
                                    ELSE Stage(l)' = Stage(l)
      BY <1>1, <1>2, <2>1, InPlace DEF Steps, Greeting, Polling
    <2>2. CASE ~change[p] /\ NextPort
      <3>1. \A q : ~Starting(q)
        BY <1>1 DEF Starting, Greeting
      <3>2. /\ Nested'
            /\ \A l \in Locs : IF l \in PortSeen THEN Stage(l) = StageOf("look") /\ Stage(l)' = "rest"
                               ELSE Stage(l)' = Stage(l)
        BY <1>1, <1>2, <2>2, <3>1, Onward
      <3> QED BY <2>2, <3>2
    <2>3. StageOf("gone") = "gone" /\ StageOf("came") = "came"
      BY DEF StageOf, Visits
    <2> QED BY <1>3, <2>1, <2>2, <2>3
  <1>7. Stage(p) = "rest" /\ Stage(p)' = s
    BY <1>4, <1>6 DEF StageOf, Visits
  <1>8. Fits(p) => Fits(p)'
    <2> SUFFICES ASSUME Fits(p) PROVE Fits(p)'
      OBVIOUS
    <2>1. fresh'[p] = FALSE /\ (Alone(p)' <=> Alone(p))
      BY <1>1, <1>2, <1>3, <1>4 DEF Alone
    <2>2. Signals(p, "rest") /\ (Alone(p) => Shown(p, "rest"))
      BY <1>7 DEF Fits
    <2>3. enabled[p] => at[p] # Null
      BY <1>2, <1>4 DEF Wiring
    <2>4. Signals(p, Stage(p))'
      BY <1>1, <1>4, <1>6, <1>7, <2>1, <2>2, <2>3 DEF Signals
    <2>5. Alone(p) => Shown(p, Stage(p))'
      BY <1>1, <1>4, <1>5, <1>6, <1>7, <2>1, <2>2 DEF Shown, Signals
    <2> QED BY <2>1, <2>4, <2>5 DEF Fits
  <1>9. \A l \in Locs \ {p} : fresh'[l] = fresh[l] /\ Stage(l)' = Stage(l)
    BY <1>2, <1>3, <1>4, <1>6
  <1>10. Follows'
    BY <1>1, <1>2, <1>5, <1>8, <1>9, FollowsStep
  <1> QED BY <1>6, <1>10

LEMMA CameFollows ==
  ASSUME Known, RootCame \/ HubCame \/ HubCheck PROVE Nested' /\ Follows'
  <1>1. /\ Running /\ Top.st \in {"came", "check"} /\ Top.port \in Ports(Top.dev)
        /\ UNCHANGED <<at, used, enabled, devAddr, lost, live, cell>>
    BY DEF RootCame, HubCame, HubCheck, InPort, world, ports, list
  <1>2. /\ StackInv /\ Nested /\ Follows /\ change \in [Locs -> BOOLEAN] /\ fresh \in [Locs -> BOOLEAN]
        /\ enabled \in [Locs -> BOOLEAN] /\ Wiring
        /\ Top.polls /\ (Top.st = "check" => Top.dev # Root)
    BY <1>1 DEF Known, Types, PortTypes, Parts, Addresses, Nested, Polling
  <1>3. PICK p \in PortSeen :
           \/ Top.st = "came" /\ Top.dev = Root /\ Goto("reset") /\ UNCHANGED <<change, fresh>>
           \/ Top.st = "came" /\ Top.dev # Root /\ Goto("check") /\ Clear(p)
           \/ Top.st = "check" /\ change[p] /\ NextPort /\ UNCHANGED <<change, fresh>>
           \/ Top.st = "check" /\ ~change[p] /\ Goto("reset") /\ UNCHANGED <<change, fresh>>
    <2>1. CASE RootCame
      BY <2>1 DEF RootCame, InPort, PortSeen, ports
    <2>2. CASE HubCame
      BY <2>2 DEF HubCame, InPort
    <2>3. CASE HubCheck
      BY <2>3 DEF HubCheck, InPort, ports
    <2> QED BY <2>1, <2>2, <2>3
  <1>4. p \in Locs /\ PortSeen = {p}
    BY <1>1, PortIs
  <1>5. \A l : Entries(l)' = Entries(l)
    BY <1>1 DEF Entries
  <1>6. PICK s \in {"due", "check", "rest"} :
          /\ \/ Top.st = "came" /\ s = "due" /\ UNCHANGED <<change, fresh>>
             \/ Top.st = "came" /\ s = "check" /\ Clear(p)
             \/ Top.st = "check" /\ s = "rest" /\ change[p] /\ UNCHANGED <<change, fresh>>
             \/ Top.st = "check" /\ s = "due" /\ UNCHANGED <<change, fresh>>
          /\ Nested'
          /\ \A l \in Locs : IF l \in PortSeen THEN Stage(l) = StageOf(Top.st) /\ Stage(l)' = s
                             ELSE Stage(l)' = Stage(l)
    <2>1. ASSUME NEW st \in {"reset", "check"}, Goto(st), st = "check" => Top.dev # Root
          PROVE  /\ Nested'
                 /\ \A l \in Locs : IF l \in PortSeen THEN Stage(l) = StageOf(Top.st) /\ Stage(l)' = StageOf(st)
                                    ELSE Stage(l)' = Stage(l)
      BY <1>1, <1>2, <2>1, InPlace DEF Steps, Greeting, Polling
    <2>2. ASSUME NextPort
          PROVE  /\ Nested'
                 /\ \A l \in Locs : IF l \in PortSeen THEN Stage(l) = StageOf(Top.st) /\ Stage(l)' = "rest"
                                    ELSE Stage(l)' = Stage(l)
      <3>1. \A q : ~Starting(q)
        BY <1>1 DEF Starting, Greeting
      <3> QED BY <1>1, <1>2, <2>2, <3>1, Onward
    <2>3. StageOf("reset") = "due" /\ StageOf("check") = "check"
      BY DEF StageOf, Visits
    <2>4. CASE Top.st = "came" /\ Goto("reset") /\ UNCHANGED <<change, fresh>>
      BY <2>1, <2>3, <2>4
    <2>5. CASE Top.st = "came" /\ Top.dev # Root /\ Goto("check") /\ Clear(p)
      BY <2>1, <2>3, <2>5
    <2>6. CASE Top.st = "check" /\ change[p] /\ NextPort /\ UNCHANGED <<change, fresh>>
      BY <2>2, <2>6
    <2>7. CASE Top.st = "check" /\ Goto("reset") /\ UNCHANGED <<change, fresh>>
      BY <2>1, <2>3, <2>7
    <2> QED BY <1>3, <2>4, <2>5, <2>6, <2>7
  <1>7. Stage(p) = Top.st /\ Stage(p)' = s
    BY <1>1, <1>4, <1>6 DEF StageOf, Visits
  <1>8. Clear(p) => change'[p] = FALSE /\ fresh'[p] = FALSE
    BY <1>2, <1>4 DEF Clear
  <1>9. Fits(p) => Fits(p)'
    <2> SUFFICES ASSUME Fits(p) PROVE Fits(p)'
      OBVIOUS
    <2>1. Alone(p)' <=> Alone(p)
      BY <1>1 DEF Alone
    <2>2. Signals(p, Top.st) /\ (Alone(p) => Shown(p, Top.st))
      BY <1>7 DEF Fits
    <2>3. Signals(p, Stage(p))'
      BY <1>1, <1>2, <1>4, <1>6, <1>7, <1>8, <2>2 DEF Signals
    <2>4. Alone(p) => Shown(p, Stage(p))'
      BY <1>1, <1>4, <1>5, <1>6, <1>7, <2>2 DEF Shown, Signals
    <2> QED BY <2>1, <2>3, <2>4 DEF Fits
  <1>10. \A l \in Locs \ {p} : change'[l] = change[l] /\ fresh'[l] = fresh[l] /\ Stage(l)' = Stage(l)
    BY <1>2, <1>4, <1>6 DEF Clear
  <1>11. Follows'
    BY <1>1, <1>2, <1>5, <1>9, <1>10, FollowsStep
  <1> QED BY <1>6, <1>11

(* The port is left without a device... *)
LEMMA EmptyFollows ==
  ASSUME Known, NEW p \in PortSeen, Running, Top.st = "final", Top.port \in Ports(Top.dev),
         fresh' = [fresh EXCEPT ![p] = @ /\ change[p]], ~enabled[p], NextPort,
         UNCHANGED <<at, used, change, enabled, devAddr, lost, live, cell>>
  PROVE  Nested' /\ Follows'
  <1>1. /\ StackInv /\ Nested /\ Follows /\ change \in [Locs -> BOOLEAN] /\ fresh \in [Locs -> BOOLEAN]
        /\ enabled \in [Locs -> BOOLEAN] /\ Wiring
    BY DEF Known, Types, PortTypes, Parts, Addresses
  <1>2. p \in Locs /\ PortSeen = {p} /\ (Top.dev = Root <=> p[1] = Root) /\ p[2] = Top.port
    BY PortIs
  <1>3. \A q \in Locs : Starting(q) /\ enabled[q] => at[q] \notin Hubs
    <2> SUFFICES ASSUME NEW q \in Locs, Starting(q), at[q] \in Hubs PROVE ~enabled[q]
      OBVIOUS
    <2>1. q[1] = Root /\ q[2] = p[2] /\ p[1] = Root
      BY <1>1, <1>2 DEF Starting, Wiring
    <2>2. q = p
      BY <1>2, <2>1, LocIs
    <2> QED BY <2>2
  <1>4. /\ Nested'
        /\ \A l \in Locs : IF l \in PortSeen THEN Stage(l) = StageOf("final") /\ Stage(l)' = "rest"
                           ELSE Stage(l)' = Stage(l)
    BY <1>1, <1>3, Onward
  <1>5. \A l : Entries(l)' = Entries(l)
    BY DEF Entries
  <1>6. Stage(p) = "final" /\ Stage(p)' = "rest"
    BY <1>2, <1>4 DEF StageOf, Visits
  <1>7. Fits(p) => Fits(p)'
    <2> SUFFICES ASSUME Fits(p) PROVE Fits(p)'
      OBVIOUS
    <2>1. (Alone(p)' <=> Alone(p)) /\ (fresh'[p] <=> fresh[p] /\ change[p])
      BY <1>1, <1>2 DEF Alone
    <2>2. Signals(p, "final") /\ (Alone(p) => Shown(p, "final"))
      BY <1>6 DEF Fits
    <2>3. Signals(p, Stage(p))'
      BY <1>1, <1>2, <1>6, <2>1, <2>2 DEF Signals
    <2>4. Alone(p) => Shown(p, Stage(p))'
      BY <1>2, <1>5, <1>6, <2>1, <2>2 DEF Shown, Signals
    <2> QED BY <2>1, <2>3, <2>4 DEF Fits
  <1>8. \A l \in Locs \ {p} : fresh'[l] = fresh[l] /\ Stage(l)' = Stage(l)
    BY <1>1, <1>2, <1>4
  <1>9. Follows'
    BY <1>1, <1>5, <1>7, <1>8, FollowsStep
  <1> QED BY <1>4, <1>9

(* ... or a device is created for what is there. *)
LEMMA CreateIs ==
  ASSUME Known, NEW p \in PortSeen, Running, Top.st = "final", Top.port \in Ports(Top.dev),
         NEW c \in Malloc, Create(c, p), UNCHANGED <<at, enabled, devAddr>>
  PROVE  /\ Nested' /\ Moves /\ Top'.st = "desc" /\ Top'.port = Top.port /\ Top'.new = c
         /\ c \in Cells /\ c \notin live /\ live' = live \cup {c}
         /\ cell'[c].from = p /\ cell'[c].port = Top.port
         /\ \A d \in live : cell'[d] = cell[d]
         /\ \A l \in Locs : IF l \in PortSeen THEN Stage(l) = StageOf("final") /\ Stage(l)' = "rest"
                            ELSE Stage(l)' = Stage(l)
  <1>1. StackInv /\ Nested /\ ListTypes /\ Probed
    BY DEF Known, Types, Parts
  <1>2. c \in Cells /\ c \notin live
    BY DEF Malloc
  <1> DEFINE e == [Top EXCEPT !.st = "desc", !.new = c]
  <1>3. stack' = [stack EXCEPT ![Len(stack)] = e]
    BY <1>1, TopIsSound DEF Create, StackInv
  <1>4. /\ Sound(e) /\ e.st = "desc" /\ e.new = c /\ e.dev = Top.dev /\ e.polls = Top.polls
        /\ e.port = Top.port
    BY <1>1, <1>2, TopIsSound DEF Sound, Levels, Steps, Resting
  <1> HIDE DEF e
  <1>5. Nested'
    BY <1>1, <1>3, <1>4, NestedStays DEF Polling
  <1>6. StackInv' /\ Moves /\ Top' = e
    BY <1>1, <1>3, <1>4, FirstIs DEF Moves
  <1>7. /\ live' = live \cup {c}
        /\ cell'[c].from = p /\ cell'[c].port = Top.port /\ \A d \in Cells : d # c => cell'[d] = cell[d]
    BY <1>1, <1>2 DEF Create, ListTypes, Empty
  <1>8. Top.polls \/ \A l \in Locs : Owns(l)' <=> Owns(l)
    <2> SUFFICES ASSUME ~Top.polls, NEW l \in Locs PROVE Owns(l)' <=> Owns(l)
      OBVIOUS
    <2>1. Top.dev # Root => cell'[Top.dev].addr = cell[Top.dev].addr
      BY <1>1, <1>2, <1>7 DEF Probed, ListTypes
    <2> QED BY <1>4, <1>6, <2>1, OwnsStays
  <1>9. \A l \in Locs : IF l \in PortSeen THEN Stage(l) = StageOf("final") /\ Stage(l)' = "rest"
                        ELSE Stage(l)' = Stage(l)
    BY <1>1, <1>4, <1>5, <1>6, <1>8, GreetStage DEF Greeting
  <1> QED BY <1>1, <1>2, <1>4, <1>5, <1>6, <1>7, <1>9 DEF ListTypes

LEMMA CreateFollows ==
  ASSUME Known, NEW p \in PortSeen, Running, Top.st = "final", Top.port \in Ports(Top.dev),
         NEW c \in Malloc, Create(c, p), enabled[p],
         fresh' = [fresh EXCEPT ![p] = @ /\ change[p]],
         UNCHANGED <<at, used, change, enabled, devAddr, lost>>
  PROVE  Nested' /\ Follows'
  <1>1. /\ Follows /\ change \in [Locs -> BOOLEAN] /\ fresh \in [Locs -> BOOLEAN]
        /\ enabled \in [Locs -> BOOLEAN] /\ Wiring
    BY DEF Known, Types, PortTypes, Parts, Addresses
  <1>2. p \in Locs /\ PortSeen = {p}
    BY PortIs
  <1>3. /\ Nested' /\ c \notin live /\ live' = live \cup {c} /\ cell'[c].from = p
        /\ \A d \in live : cell'[d] = cell[d]
        /\ \A l \in Locs : IF l \in PortSeen THEN Stage(l) = StageOf("final") /\ Stage(l)' = "rest"
                           ELSE Stage(l)' = Stage(l)
    BY CreateIs
  <1>4. Stage(p) = "final" /\ Stage(p)' = "rest"
    BY <1>2, <1>3 DEF StageOf, Visits
  <1>5. \A l \in Locs : l # p => Entries(l)' = Entries(l)
    BY <1>3 DEF Entries
  <1>6. Entries(p) = {} => Entries(p)' = {c}
    BY <1>3 DEF Entries
  <1>7. Fits(p) => Fits(p)'
    <2> SUFFICES ASSUME Fits(p) PROVE Fits(p)'
      OBVIOUS
    <2>1. (Alone(p)' <=> Alone(p)) /\ (fresh'[p] <=> fresh[p] /\ change[p]) /\ at[p] # Null
      BY <1>1, <1>2 DEF Alone, Wiring
    <2>2. Signals(p, "final") /\ (Alone(p) => Shown(p, "final"))
      BY <1>4 DEF Fits
    <2>3. ~change[p]
      BY <2>2 DEF Signals
    <2>4. Signals(p, Stage(p))'
      BY <1>1, <1>2, <1>4, <2>1, <2>2, <2>3 DEF Signals
    <2>5. Alone(p) => Shown(p, Stage(p))'
      BY <1>2, <1>4, <1>6, <2>1, <2>2, <2>3 DEF Shown
    <2> QED BY <2>1, <2>4, <2>5 DEF Fits
  <1>8. \A l \in Locs \ {p} : fresh'[l] = fresh[l] /\ Stage(l)' = Stage(l)
    BY <1>1, <1>2, <1>3
  <1>9. Follows'
    BY <1>1, <1>5, <1>7, <1>8, FollowsStep
  <1> QED BY <1>3, <1>9

LEMMA FinalFollows ==
  ASSUME Known, FinalStatus, Smooth' PROVE Nested' /\ Follows'
  <1>1. /\ Running /\ Top.st = "final" /\ Top.port \in Ports(Top.dev)
        /\ UNCHANGED <<at, used, change, enabled, devAddr>> /\ Smooth
    BY DEF FinalStatus, InPort, world, ports, Known
  <1>2. PICK p \in PortSeen :
           /\ fresh' = [fresh EXCEPT ![p] = @ /\ change[p]]
           /\ \/ ~enabled[p] /\ NextPort /\ UNCHANGED <<list, cell, lost, faults>>
              \/ enabled[p] /\ \E c \in Malloc : Create(c, p)
              \/ enabled[p] /\ NoMemory(p)
    BY DEF FinalStatus
  <1>3. CASE ~enabled[p] /\ NextPort /\ UNCHANGED <<list, cell, lost, faults>>
    BY <1>1, <1>2, <1>3, EmptyFollows DEF list
  <1>4. ASSUME enabled[p], NEW c \in Malloc, Create(c, p) PROVE Nested' /\ Follows'
    <2>1. UNCHANGED lost
      BY <1>4 DEF Create
    <2> QED BY <1>1, <1>2, <1>4, <2>1, CreateFollows
  <1>5. ~NoMemory(p)
    BY <1>1 DEF NoMemory, Smooth
  <1> QED BY <1>2, <1>3, <1>4, <1>5

(* A disconnect removes an entry with the number of the port, if there is one. *)
LEMMA DisconnectIs ==
  ASSUME Types, Whole, Running, Disconnect
  PROVE  \/ UNCHANGED <<live, cell>> /\ \A c \in live : cell[c].port # Top.port
         \/ \E c \in live : /\ cell[c].port = Top.port /\ live' = live \ {c}
                            /\ \A d \in Cells \ {c} : cell'[d] = cell[d]
                            /\ Top.dev # Root => cell'[Top.dev] = cell[Top.dev]
  <1>1. Listed = live /\ ListTypes /\ StackInv
    BY WholeIsIntact DEF ListIntact, Types
  <1>2. DOMAIN Walk = 0 .. Cardinality(Cells)
    <2>1. next \in [Cells -> Target] /\ head \in Target
      BY <1>1 DEF ListTypes, Target
    <2> QED BY <2>1, Walks
  <1>3. CASE Places(Top.port) = {}
    <2>1. UNCHANGED <<live, cell>>
      BY <1>3 DEF Disconnect, list
    <2>2. ASSUME NEW c \in live, cell[c].port = Top.port PROVE FALSE
      <3>1. PICK n \in 0 .. Cardinality(Cells) : c = Walk[n]
        BY <1>1 DEF Listed
      <3>2. c \in Cells /\ n \in DOMAIN Walk
        BY <1>1, <1>2, <3>1 DEF ListTypes
      <3>3. n \in Places(Top.port)
        BY <2>2, <3>1, <3>2 DEF Places
      <3> QED BY <1>3, <3>3
    <2> QED BY <2>1, <2>2
  <1>4. CASE Places(Top.port) # {}
    <2> DEFINE n == FirstPlace(Top.port)
    <2>1. n \in Places(Top.port) /\ Unlink(n)
      BY <1>1, <1>4, FirstIsPlace DEF Disconnect
    <2>2. PICK c : c = Walk[n]
      OBVIOUS
    <2> HIDE DEF n
    <2>3. c \in Cells /\ cell[c].port = Top.port /\ n \in DOMAIN Walk
      BY <2>1, <2>2 DEF Places
    <2>4. c \in live
      <3>1. n \in 0 .. Cardinality(Cells)
        BY <1>2, <2>3
      <3> QED BY <1>1, <2>2, <2>3, <3>1 DEF Listed
    <2>5. Freed(c)
      BY <2>1, <2>2 DEF Unlink
    <2>6. live' = live \ {c} /\ \A d \in Cells \ {c} : cell'[d] = cell[d]
      BY <1>1, <2>5 DEF Freed, ListTypes
    <2>7. Top.dev # Root => cell'[Top.dev] = cell[Top.dev]
      <3>1. Top = stack[Len(stack)] /\ Len(stack) \in DOMAIN stack /\ Top.dev \in Cells \cup {Root}
        BY <1>1, TopIsSound DEF StackInv, Levels
      <3>2. Held(Top.dev)
        BY <3>1 DEF Held
      <3> QED BY <2>5, <2>6, <3>1, <3>2 DEF Freed
    <2> QED BY <2>3, <2>4, <2>6, <2>7
  <1> QED BY <1>3, <1>4

LEMMA GoneFollows ==
  ASSUME Known, RootGone \/ HubGone PROVE Nested' /\ Follows'
  <1>1. /\ Running /\ Top.st = "gone" /\ Top.port \in Ports(Top.dev) /\ Disconnect /\ NextPort
        /\ UNCHANGED <<at, used, enabled, devAddr>> /\ lost \subseteq lost'
    BY DEF RootGone, HubGone, InPort, world, ports, Acknowledge
  <1>2. /\ StackInv /\ Nested /\ Follows /\ change \in [Locs -> BOOLEAN] /\ fresh \in [Locs -> BOOLEAN]
        /\ enabled \in [Locs -> BOOLEAN] /\ Wiring /\ InUse /\ Types /\ Whole /\ ListTypes
    BY DEF Known, Types, PortTypes, Parts, Addresses
  <1>3. PICK p \in PortSeen : UNCHANGED <<change, fresh>> \/ Acknowledge(p)
    BY DEF RootGone, HubGone, InPort, PortSeen, ports
  <1>4. p \in Locs /\ PortSeen = {p} /\ p[2] = Top.port /\ p \in used
    BY <1>1, <1>2, PortIs DEF InUse
  <1>5. \/ UNCHANGED <<live, cell>> /\ \A c \in live : cell[c].port # Top.port
        \/ \E c \in live : /\ cell[c].port = Top.port /\ live' = live \ {c}
                           /\ \A d \in Cells \ {c} : cell'[d] = cell[d]
                           /\ Top.dev # Root => cell'[Top.dev] = cell[Top.dev]
    BY <1>1, <1>2, DisconnectIs
  <1>6. Top.dev # Root => cell'[Top.dev].addr = cell[Top.dev].addr
    BY <1>5
  <1>7. \A q : ~Starting(q)
    BY <1>1 DEF Starting, Greeting
  <1>8. /\ Nested'
        /\ \A l \in Locs : IF l \in PortSeen THEN Stage(l) = StageOf("gone") /\ Stage(l)' = "rest"
                           ELSE Stage(l)' = Stage(l)
    BY <1>1, <1>2, <1>6, <1>7, Onward
  <1>9. Stage(p) = "gone" /\ Stage(p)' = "rest"
    BY <1>4, <1>8 DEF StageOf, Visits
  <1>10. live \subseteq Cells /\ \A c \in live : cell[c].from \in used /\ cell[c].port = cell[c].from[2]
    BY <1>2 DEF InUse, ListTypes
  <1>11. ASSUME NEW l \in Locs \ {p}, Alone(l) PROVE Entries(l)' = Entries(l)
    <2>1. \A c \in live : cell[c].port = Top.port => cell[c].from # l
      BY <1>4, <1>10, <1>11 DEF Alone
    <2> QED BY <1>5, <1>10, <2>1 DEF Entries
  <1>12. ASSUME Alone(p), \A c, d \in Entries(p) : c = d PROVE Entries(p)' = {}
    <2>1. \A c \in live : cell[c].port = Top.port <=> c \in Entries(p)
      BY <1>4, <1>10, <1>12 DEF Alone, Entries
    <2>2. CASE UNCHANGED <<live, cell>> /\ \A c \in live : cell[c].port # Top.port
      <3>1. Entries(p) = {}
        BY <2>1, <2>2 DEF Entries
      <3> QED BY <2>2, <3>1 DEF Entries
    <2>3. ASSUME NEW c \in live, cell[c].port = Top.port, live' = live \ {c},
                 \A d \in Cells \ {c} : cell'[d] = cell[d]
          PROVE  Entries(p)' = {}
      <3>1. c \in Entries(p)
        BY <2>1, <2>3
      <3>2. \A d \in live' : d \in Cells /\ d # c /\ d \in live /\ cell'[d] = cell[d]
        BY <1>10, <2>3
      <3>3. \A d \in live' : cell'[d].from # p
        BY <1>12, <3>1, <3>2 DEF Entries
      <3> QED BY <3>3 DEF Entries
    <2> QED BY <1>5, <2>2, <2>3
  <1>13. p \notin lost' /\ Fits(p) => Fits(p)'
    <2> SUFFICES ASSUME Fits(p), p \notin lost' PROVE Fits(p)'
      OBVIOUS
    <2>1. Alone(p)' <=> Alone(p)
      BY <1>1 DEF Alone
    <2>2. Signals(p, "gone") /\ (Alone(p) => Shown(p, "gone"))
      BY <1>9 DEF Fits
    <2>3. \/ UNCHANGED <<change, fresh>>
          \/ fresh'[p] = FALSE /\ at[p] = Null
      <3>1. Acknowledge(p) => fresh'[p] = FALSE /\ (at[p] # Null /\ ~enabled[p] => p \in lost')
        BY <1>2, <1>4 DEF Acknowledge, Clear
      <3>2. ~enabled[p]
        BY <2>2 DEF Signals
      <3> QED BY <1>3, <3>1, <3>2
    <2>4. Signals(p, Stage(p))'
      BY <1>1, <1>2, <1>4, <1>9, <2>2, <2>3 DEF Signals
    <2>5. Alone(p) => Entries(p)' = {}
      BY <1>12, <2>2 DEF Shown
    <2>6. fresh'[p] \/ at[p] = Null
      BY <2>2, <2>3 DEF Signals
    <2>7. Alone(p) => Shown(p, Stage(p))'
      BY <1>1, <1>9, <2>5, <2>6 DEF Shown
    <2> QED BY <2>1, <2>4, <2>7 DEF Fits
  <1>14. \A l \in Locs \ {p} : change'[l] = change[l] /\ fresh'[l] = fresh[l] /\ Stage(l)' = Stage(l)
    BY <1>2, <1>3, <1>4, <1>8 DEF Acknowledge, Clear
  <1>15. Follows'
    BY <1>1, <1>2, <1>11, <1>13, <1>14, FollowsStep
  <1> QED BY <1>8, <1>15

-----------------------------------------------------------------------------
(* The initialisation of a device. *)
LEMMA SetAddressOwns ==
  ASSUME Known, SetAddress, Smooth', ~Top.polls, Top'.dev = Top.dev, NEW l \in Locs
  PROVE  Owns(l)' <=> Owns(l)
  <1>1. /\ Running /\ Top.st = "addr" /\ UNCHANGED <<at, enabled>>
        /\ devAddr' = [d \in Devs |-> IF d \in Answers(0) THEN nextAddr + 1 ELSE devAddr[d]]
        /\ cell' = [cell EXCEPT ![Top.new].addr = nextAddr']
    BY NamedIs DEF Known, Types, SetAddress, InPort, world
  <1>2. /\ PortTypes /\ ListTypes /\ StackInv /\ Probed /\ Top.new \in Cells
        /\ Top.dev \in Cells \cup {Root}
    BY <1>1, TopIsSound DEF Known, Types, Parts, Sound, Levels
  <1>3. CASE Top.dev = Root
    BY <1>3 DEF Owns
  <1>4. CASE Top.dev # Root
    <2> DEFINE a == cell[Top.dev].addr
    <2>1. Top.dev # Top.new /\ a # 0
      BY <1>1, <1>2, <1>4 DEF Probed, Greeting
    <2>2. a \in Nat /\ a <= nextAddr /\ nextAddr \in Nat
      BY <1>2, <1>4 DEF ListTypes, PortTypes, Entry
    <2>3. a' = a
      BY <1>1, <1>2, <1>4, <2>1 DEF ListTypes
    <2>4. \A d \in Devs : devAddr'[d] = Field(a) <=> devAddr[d] = Field(a)
      <3>1. Field(a) = a
        BY <1>2, <1>4, CellField DEF Known, PortTypes
      <3>2. \A d \in Answers(0) : devAddr[d] = 0
        BY FieldIs DEF Answers
      <3> QED BY <1>1, <2>1, <2>2, <3>1, <3>2
    <2>5. PICK b : b = a
      OBVIOUS
    <2> HIDE DEF a
    <2>6. Answers(b)' = Answers(b)
      BY <1>1, <2>4, <2>5 DEF Answers
    <2>7. Owns(l) <=> l[1] # Root /\ l[1] \in Answers(b)
      BY <1>4, <2>5 DEF Owns, a
    <2>8. Owns(l)' <=> l[1] # Root /\ l[1] \in Answers(b)'
      BY <1>4, <2>3, <2>5 DEF Owns, a, Answers
    <2> QED BY <2>6, <2>7, <2>8
  <1> QED BY <1>3, <1>4

LEMMA GreetFollows ==
  ASSUME Known, GetDescriptor \/ SetAddress, Smooth' PROVE Nested' /\ Follows' /\ Top'.new = Top.new
  <1>1. /\ Running /\ Top.st \in {"desc", "addr"} /\ Top.port \in Ports(Top.dev)
        /\ UNCHANGED <<at, used, change, enabled, fresh, lost, live>>
    BY DEF GetDescriptor, SetAddress, InPort, world, ports, list
  <1>2. PICK st \in {"addr", "conf"} : Goto(st)
    BY DEF GetDescriptor, SetAddress
  <1>3. StackInv /\ Nested /\ Follows /\ ListTypes
    BY DEF Known, Types, Parts
  <1>4. Top.new \in Cells
    BY <1>1, <1>3, TopIsSound DEF Sound
  <1>5. /\ StackInv' /\ Nested' /\ Moves /\ Top'.st = st /\ Top'.port = Top.port /\ Top'.new = Top.new
    BY <1>1, <1>2, <1>3, <1>4, GotoIs DEF Moves, Steps, Greeting, Polling
  <1>6. Top.polls \/ \A l \in Locs : Owns(l)' <=> Owns(l)
    <2> SUFFICES ASSUME ~Top.polls, NEW l \in Locs PROVE Owns(l)' <=> Owns(l)
      OBVIOUS
    <2>1. Top'.dev = Top.dev
      BY <1>5 DEF Moves
    <2>2. CASE GetDescriptor
      <3>1. UNCHANGED <<at, enabled, devAddr, cell>>
        BY <2>2 DEF GetDescriptor, world, ports
      <3> QED BY <2>1, <3>1, OwnsStays
    <2> QED BY <2>1, <2>2, SetAddressOwns
  <1>7. \A l \in Locs : IF l \in PortSeen THEN Stage(l) = StageOf(Top.st) /\ Stage(l)' = "rest"
                        ELSE Stage(l)' = Stage(l)
    BY <1>1, <1>3, <1>5, <1>6, GreetStage DEF Greeting
  <1>8. StageOf(Top.st) = "rest"
    BY <1>1 DEF StageOf, Visits
  <1>9. \A c \in live : cell'[c].from = cell[c].from
    BY <1>3, <1>4 DEF ListTypes, GetDescriptor, SetAddress, Entry
  <1>10. \A l \in Locs : Entries(l)' = Entries(l)
    BY <1>1, <1>9 DEF Entries
  <1>11. Follows'
    BY <1>1, <1>3, <1>7, <1>8, <1>10, FollowsSame
  <1> QED BY <1>5, <1>11

(* The next port, with nothing changed in this one. *)
LEMMA SkipFollows ==
  ASSUME Known, Running, NextPort,
         UNCHANGED <<at, used, change, enabled, fresh, lost, devAddr, live, cell>>,
         \A q \in Locs : Starting(q) /\ enabled[q] => at[q] \notin Hubs,
         Top.st \in Greeting \/ PortSeen = {}
  PROVE  Nested' /\ Follows'
  <1>1. StackInv /\ Nested /\ Follows
    BY DEF Known, Types, Parts
  <1>2. /\ Nested'
        /\ \A l \in Locs : IF l \in PortSeen THEN Stage(l) = StageOf(Top.st) /\ Stage(l)' = "rest"
                           ELSE Stage(l)' = Stage(l)
    BY <1>1, Onward
  <1>3. Top.st \in Greeting => StageOf(Top.st) = "rest"
    BY DEF StageOf, Visits, Greeting
  <1>4. \A l \in Locs : Stage(l)' = Stage(l) /\ Entries(l)' = Entries(l)
    BY <1>2, <1>3 DEF Entries
  <1>5. Follows'
    BY <1>1, <1>4, FollowsSame
  <1> QED BY <1>2, <1>5

(* A device that does not answer, or that is no hub, is not a hub behind a  *)
(* root port that still has to be started.                                  *)
LEMMA StartsIs ==
  ASSUME Known, Top.st \in Greeting, NEW q \in Locs, Starting(q), at[q] \in Hubs
  PROVE  q = cell[Top.new].from
  <1>1. q[1] = Root /\ q[2] = Top.port /\ Top.dev = Root /\ Running
    BY DEF Known, Addresses, Wiring, Starting
  <1>2. PICK l : l = cell[Top.new].from
    OBVIOUS
  <1>3. l \in Locs /\ l[2] = Top.port /\ l[1] = Root
    BY <1>1, <1>2 DEF Known, Parts, Greeted
  <1> QED BY <1>1, <1>2, <1>3, LocIs

LEMMA OtherFollows ==
  ASSUME Known, StartOther PROVE Nested' /\ Follows'
  <1>1. /\ Running /\ Top.st = "conf" /\ NextPort
        /\ UNCHANGED <<at, used, change, enabled, fresh, lost, devAddr, live, cell>>
    BY DEF StartOther, InPort, world, ports, list
  <1>2. PICK d \in Functions : d \in Answers(cell[Top.new].addr)
    BY DEF StartOther
  <1>3. PICK k \in Locs : at[k] = d /\ enabled[k] /\ devAddr[d] = Field(cell[Top.new].addr)
    BY <1>2 DEF Answers
  <1>4. k = cell[Top.new].from
    <2>1. Top.new \in Cells /\ ListTypes /\ nextAddr \in Nat
      BY <1>1, TopIsSound DEF Known, Types, PortTypes, Sound
    <2>2. devAddr[at[k]] = cell[Top.new].addr
      BY <1>3, <2>1, CellField DEF Known
    <2> QED BY <1>1, <1>3, <2>2 DEF Known, Parts, Greeted, Greeting
  <1>5. at[k] \notin Hubs
    BY <1>3, TopologyAssumption
  <1>6. \A q \in Locs : Starting(q) /\ enabled[q] => at[q] \notin Hubs
    BY <1>1, <1>4, <1>5, StartsIs DEF Greeting
  <1> QED BY <1>1, <1>6, SkipFollows DEF Greeting

LEMMA FailsFollows ==
  ASSUME Known, InitFails, Smooth' PROVE Nested' /\ Follows'
  <1>1. /\ Running /\ Top.st \in Greeting /\ NextPort
        /\ UNCHANGED <<at, used, change, enabled, fresh, lost, live, cell>>
    BY DEF InitFails, InPort, world, list, Greeting
  <1>2. Smooth /\ Wiring /\ Greeted
    BY DEF Known, Addresses, Parts
  <1>3. IF Top.st = "conf" THEN Answers(cell[Top.new].addr) = {} ELSE Answers(0) = {}
    <2>1. Top.new \in Cells /\ ListTypes /\ nextAddr \in Nat
      BY <1>1, TopIsSound DEF Known, Types, PortTypes, Sound, Greeting
    <2>2. ~Wide(cell[Top.new].addr) /\ ~Wide(0) /\ ~Wide(nextAddr')
      BY <1>2, <2>1, CellField, FieldIs DEF Smooth
    <2>3. IF Top.st = "conf" THEN FailsIf(Unanswered(cell[Top.new].addr))
          ELSE FailsIf(Unanswered(0)) \/ FailsIf(Unanswered(0) \/ Wide(nextAddr'))
      BY DEF InitFails, InPort
    <2>4. /\ Unanswered(0) \in BOOLEAN /\ (Unanswered(0) \/ Wide(nextAddr')) \in BOOLEAN
          /\ Unanswered(cell[Top.new].addr) \in BOOLEAN
      BY DEF Unanswered
    <2>5. IF Top.st = "conf" THEN Unanswered(cell[Top.new].addr) ELSE Unanswered(0)
      BY <1>2, <2>2, <2>3, <2>4, SmoothFails
    <2> QED BY <2>2, <2>5 DEF Unanswered
  <1>4. UNCHANGED devAddr
    <2>1. CASE Top.st = "addr"
      <3>1. \E taken \in {{}, Answers(0)} :
               devAddr' = [d \in Devs |-> IF d \in taken THEN Field(nextAddr') ELSE devAddr[d]]
        BY <2>1 DEF InitFails, InPort
      <3>2. devAddr' = [d \in Devs |-> devAddr[d]]
        BY <1>3, <2>1, <3>1
      <3> QED BY <3>2 DEF Known, Types, PortTypes
    <2>2. CASE Top.st # "addr"
      BY <2>2 DEF InitFails, InPort
    <2> QED BY <2>1, <2>2
  <1>5. PICK k : k = cell[Top.new].from
    OBVIOUS
  <1>6. ASSUME enabled[k] PROVE FALSE
    <2>1. k \in Locs /\ devAddr[at[k]] = (IF Top.st = "conf" THEN cell[Top.new].addr ELSE 0)
      BY <1>1, <1>2, <1>5, <1>6 DEF Greeted, Greeting
    <2>2. at[k] \in Devs
      BY <1>2, <1>6, <2>1 DEF Known, Types, PortTypes, Wiring
    <2>3. devAddr[at[k]] = Field(IF Top.st = "conf" THEN cell[Top.new].addr ELSE 0)
      <3>1. Top.new \in Cells /\ ListTypes /\ nextAddr \in Nat
        BY <1>1, TopIsSound DEF Known, Types, PortTypes, Sound, Greeting
      <3> QED BY <1>2, <2>1, <3>1, CellField, FieldIs
    <2> QED BY <1>3, <1>6, <2>1, <2>2, <2>3 DEF Answers
  <1>7. \A q \in Locs : Starting(q) /\ enabled[q] => at[q] \notin Hubs
    BY <1>1, <1>5, <1>6, StartsIs
  <1> QED BY <1>1, <1>4, <1>7, SkipFollows

LEMMA PortFailsFollows ==
  ASSUME Known, PortRequestFails, Smooth' PROVE Nested' /\ Follows'
  <1>1. /\ Running /\ Top.dev # Root /\ NextPort
        /\ FailsIf(PortSeen = {} \/ Wide(cell[Top.dev].addr))
        /\ UNCHANGED <<at, used, change, enabled, fresh, lost, devAddr, live, cell>>
    BY DEF PortRequestFails, world, ports, list
  <1>2. PortSeen = {}
    BY <1>1, HeardFails DEF Known
  <1>3. \A q : ~Starting(q)
    BY <1>1 DEF Starting
  <1> QED BY <1>1, <1>2, <1>3, SkipFollows

(* A hub takes the place of a device: the loop over its ports starts inside *)
(* the one over the root ports.                                             *)
LEMMA NestIs ==
  ASSUME StackInv, Running, Len(stack) = 1, NEW k \in Cells, stack' = Append(AfterPort, Loop(k, FALSE))
  PROVE  /\ Running' /\ Len(stack') = 2 /\ Top' = Loop(k, FALSE) /\ stack'[2] = Loop(k, FALSE)
         /\ stack'[1] = [Loop(Top.dev, Top.polls) EXCEPT !.port = Top.port + 1]
  <1> DEFINE e == [Loop(Top.dev, Top.polls) EXCEPT !.port = Top.port + 1]
             f == Loop(k, FALSE)
  <1>1. Running' /\ Len(stack') = 2 /\ Top' = f
    <2>1. Running' /\ Len(stack') = Len(stack) + 1 /\ Top' = f
      BY NestKeeps
    <2>2. 1 + 1 = 2
      OBVIOUS
    <2> QED BY <2>1, <2>2
  <1>2. AfterPort = [stack EXCEPT ![1] = e] /\ stack \in Seq(Levels)
    BY DEF AfterPort, StackInv
  <1>3. Top.dev \in Cells \cup {Root} /\ Top.polls \in BOOLEAN /\ Top.port + 1 \in Nat
    BY TopIsSound DEF Levels
  <1>4. e \in Levels /\ f \in Levels
    BY <1>3, LoopIsSound DEF Loop, Levels, Steps
  <1>5. PICK d \in Levels : d = e
    BY <1>4
  <1>6. PICK g \in Levels : g = f
    BY <1>4
  <1>7. PICK s : s = AfterPort
    OBVIOUS
  <1> HIDE DEF e, f
  <1>8. s \in Seq(Levels) /\ Len(s) = 1 /\ s[1] = d
    BY <1>2, <1>5, <1>7
  <1>9. Append(s, g)[1] = d /\ Append(s, g)[2] = g
    <2>1. s \in Seq(Levels)
      BY <1>8
    <2>2. (\A i \in 1 .. Len(s) : Append(s, g)[i] = s[i]) /\ Append(s, g)[Len(s) + 1] = g
      BY ONLY <2>1, g \in Levels, AppendProperties
    <2>3. 1 \in 1 .. 1 /\ 1 + 1 = 2
      OBVIOUS
    <2> QED BY <1>8, <2>2, <2>3, Zenon
  <1>10. stack' = Append(s, g)
    BY <1>6, <1>7 DEF f
  <1> QED BY <1>1, <1>5, <1>6, <1>9, <1>10 DEF e, f

LEMMA StartHubIs ==
  ASSUME Known, StartHub
  PROVE  LET p == cell[Top.new].from
         IN  /\ p \in Locs /\ at[p] \in Hubs /\ enabled[p] /\ p[1] = Root /\ p[2] = Top.port
             /\ PortSeen = {p} /\ Top.dev = Root
             /\ Answers(cell[Top.new].addr) = {at[p]}
  <1>1. Running /\ Top.st = "conf" /\ Top.port \in Ports(Top.dev)
    BY DEF StartHub, InPort
  <1>2. PICK p : p = cell[Top.new].from
    OBVIOUS
  <1>3. /\ p \in Locs /\ (p[1] = Root <=> Top.dev = Root) /\ p[2] = Top.port
        /\ \A k \in Locs : enabled[k] => (devAddr[at[k]] = cell[Top.new].addr <=> k = p)
    BY <1>1, <1>2 DEF Known, Parts, Greeted, Greeting
  <1>4. \A d \in Answers(cell[Top.new].addr) : d = at[p] /\ enabled[p]
    <2>1. Top.new \in Cells /\ ListTypes /\ nextAddr \in Nat
      BY <1>1, TopIsSound DEF Known, Types, PortTypes, Sound
    <2>2. Field(cell[Top.new].addr) = cell[Top.new].addr
      BY <2>1, CellField DEF Known
    <2> QED BY <1>3, <2>2 DEF Answers
  <1>5. at[p] \in Hubs /\ enabled[p] /\ at[p] \in Answers(cell[Top.new].addr)
    BY <1>4 DEF StartHub
  <1>6. p[1] = Root /\ Top.dev = Root
    BY <1>3, <1>5 DEF Known, Addresses, Wiring
  <1>7. PortSeen = {p}
    BY <1>3, <1>6, LocIs DEF PortSeen
  <1> QED BY <1>2, <1>3, <1>4, <1>5, <1>6, <1>7

LEMMA StartHubFollows ==
  ASSUME Known, StartHub PROVE Nested' /\ Follows'
  <1>1. /\ Running /\ Top.st = "conf" /\ Top.port \in Ports(Top.dev)
        /\ UNCHANGED <<at, used, change, enabled, fresh, lost, devAddr, live>>
        /\ cell' = [cell EXCEPT ![Top.new].hub = TRUE]
        /\ stack' = Append(AfterPort, Loop(Top.new, FALSE))
    BY DEF StartHub, InPort, world, ports, list
  <1>2. StackInv /\ Nested /\ Follows /\ ListTypes /\ Wiring
    BY DEF Known, Types, Parts, Addresses
  <1>3. PICK p : p = cell[Top.new].from
    OBVIOUS
  <1>4. PICK h : h = at[p]
    OBVIOUS
  <1>5. PICK n : n = Top.new
    OBVIOUS
  <1>6. /\ p \in Locs /\ at[p] = h /\ h \in Hubs /\ enabled[p] /\ p[1] = Root /\ p[2] = Top.port
        /\ PortSeen = {p} /\ Top.dev = Root /\ Answers(cell[n].addr) = {h} /\ n \in Cells
        /\ h # Root
    BY <1>1, <1>2, <1>3, <1>4, <1>5, StartHubIs, TopIsSound, LocIs DEF Sound
  <1>7. Len(stack) = 1 /\ Top = stack[1] /\ Top.port \in Nat /\ Top.polls \in BOOLEAN
    BY <1>1, <1>2, <1>6, Levels2
  <1>8. /\ Running' /\ Len(stack') = 2 /\ Top' = Loop(n, FALSE) /\ stack'[2] = Loop(n, FALSE)
        /\ stack'[1] = [Loop(Root, Top.polls) EXCEPT !.port = Top.port + 1]
    BY <1>1, <1>2, <1>5, <1>6, <1>7, NestIs
  <1>9. /\ stack'[1].dev = Root /\ stack'[1].polls = Top.polls /\ stack'[1].port = Top.port + 1
        /\ stack'[1].st = (IF Top.polls THEN "look" ELSE "reset")
        /\ Top'.dev = n /\ ~Top'.polls /\ Top'.port = 0 /\ Top'.st = "reset" /\ n # Root
    BY <1>6, <1>8, TopologyAssumption DEF Loop
  <1>10. Nested'
    <2>1. Running' /\ Len(stack') = 2 /\ stack'[2].dev # Root /\ ~stack'[2].polls
      BY <1>8, <1>9
    <2>2. Len(stack') <= 2
      BY <2>1
    <2> QED BY <1>9, <2>1, <2>2 DEF Nested, Polling
  <1>11. Answers(cell[n].addr)' = {h} /\ cell'[n].addr = cell[n].addr
    <2>1. cell'[n].addr = cell[n].addr
      BY <1>1, <1>2, <1>5, <1>6 DEF ListTypes, Entry
    <2> QED BY <1>1, <1>6, <2>1 DEF Answers
  <1>12. \A l \in Locs : Owns(l)' <=> l[1] = h
    BY <1>6, <1>9, <1>11 DEF Owns, Answers
  <1>13. SeenAll /\ SeenAll'
    BY SeenAlways, PTL
  <1>14. \A l \in Locs : l \in PortSeen' <=> l[1] = h /\ l[2] = 0
    BY <1>9, <1>12, <1>13 DEF SeenAll
  <1>15. ASSUME NEW l \in Locs, l[1] = Root PROVE Stage(l)' = Stage(l)
    <2>1. l \notin PortSeen' /\ l[2] \in Nat
      BY <1>6, <1>14, <1>15, LocIs
    <2>2. Waits(l)' <=> Ahead(stack'[1], l)
      BY <1>8, <1>9, <1>15 DEF Waits
    <2>3. Stage(l)' = IF Ahead(stack'[1], l) THEN "due" ELSE "rest"
      BY <1>8, <2>1, <2>2 DEF Stage
    <2>4. CASE l = p
      <3>1. ~Ahead(stack'[1], l)
        BY <1>6, <1>7, <1>9, <2>4 DEF Ahead
      <3> QED BY <1>1, <1>6, <2>3, <2>4, <3>1 DEF Stage, StageOf, Visits
    <2>5. CASE l # p
      <3>1. l[2] # Top.port
        BY <1>6, <1>15, <2>5, LocIs
      <3>2. Ahead(stack'[1], l) <=> Ahead(Top, l)
        BY <1>7, <1>9, <2>1, <3>1 DEF Ahead
      <3>3. Waits(l) <=> Ahead(Top, l)
        BY <1>1, <1>6, <1>7, <1>15 DEF Waits
      <3> QED BY <1>6, <2>3, <2>5, <3>2, <3>3 DEF Stage
    <2> QED BY <2>4, <2>5
  <1>16. ASSUME NEW l \in Locs, l[1] = h PROVE Stage(l)' = Stage(l)
    <2>1. l[1] # Root /\ l \notin PortSeen /\ l[2] \in Nat
      BY <1>6, <1>16, LocIs
    <2>2. Ahead(Top', l)
      BY <1>9, <2>1 DEF Ahead
    <2>3. Waits(l)'
      BY <1>8, <1>9, <1>12, <1>16, <2>1, <2>2 DEF Waits
    <2>4. Stage(l)' = "due"
      BY <1>9, <2>3 DEF Stage, StageOf, Visits
    <2>5. \A q \in Locs : at[q] = h => q = p
      BY <1>2, <1>6, LocIs DEF Wiring
    <2>6. Starting(p)
      BY <1>1, <1>6 DEF Starting, Greeting
    <2>7. Unstarted(l[1])
      BY <1>16, <2>5, <2>6 DEF Unstarted
    <2> QED BY <2>1, <2>4, <2>7 DEF Stage, Waits
  <1>17. ASSUME NEW l \in Locs, l[1] # Root, l[1] # h PROVE Stage(l)' = Stage(l)
    <2>1. l \notin PortSeen /\ l \notin PortSeen' /\ l[1] \in Hubs
      BY <1>6, <1>14, <1>17, LocIs
    <2>2. \A q \in Locs : at[q] = l[1] => ~Starting(q)
      <3> SUFFICES ASSUME NEW q \in Locs, at[q] = l[1], Starting(q) PROVE FALSE
        OBVIOUS
      <3>1. q[1] = Root /\ q[2] = Top.port
        BY <1>2, <2>1 DEF Starting, Wiring
      <3>2. q = p
        BY <1>6, <3>1, LocIs
      <3> QED BY <1>6, <1>17, <3>2
    <2>3. \A q : ~Starting(q)'
      BY <1>9 DEF Starting
    <2>4. Unstarted(l[1])' <=> Unstarted(l[1])
      BY <1>1, <2>2, <2>3 DEF Unstarted
    <2>5. Waits(l)' <=> Waits(l)
      BY <1>6, <1>12, <1>17, <2>4 DEF Waits
    <2> QED BY <2>1, <2>5 DEF Stage
  <1>18. \A c \in Cells : cell'[c].from = cell[c].from
    BY <1>1, <1>2, <1>5, <1>6 DEF ListTypes, Entry
  <1>19. \A l \in Locs : Entries(l)' = Entries(l)
    BY <1>1, <1>2, <1>18 DEF Entries, ListTypes
  <1>20. Follows'
    BY <1>1, <1>2, <1>15, <1>16, <1>17, <1>19, FollowsSame
  <1> QED BY <1>10, <1>20

-----------------------------------------------------------------------------
(* UsbPoll itself. *)
LEMMA PollFollows ==
  ASSUME Known, ~Running, NEW k \in Cells \cup {Root}, stack' = <<Loop(k, TRUE)>>,
         UNCHANGED <<at, used, change, enabled, fresh, lost, live, cell>>
  PROVE  Nested' /\ Follows'
  <1>1. StackInv' /\ Running' /\ Top' = Loop(k, TRUE) /\ Len(stack') = 1 /\ stack'[1] = Top'
    BY StartKeeps
  <1>2. Top'.polls /\ Top'.st = "look"
    BY <1>1 DEF Loop
  <1>3. Nested'
    <2>1. Len(stack') <= 2 /\ Len(stack') # 2
      BY <1>1
    <2> QED BY <1>1, <1>2, <2>1 DEF Nested
  <1>4. SeenAll' /\ Apart'
    BY <1>1, <1>3, SeenAlways, ApartAlways, PTL
  <1>5. ASSUME NEW l \in Locs PROVE Stage(l)' = Stage(l)
    <2>1. \A q : ~Starting(q) /\ ~Starting(q)'
      BY <1>2 DEF Starting, Greeting
    <2>2. Unstarted(l[1])' <=> Unstarted(l[1])
      BY <2>1 DEF Unstarted
    <2>3. ~Ahead(Top', l)
      BY <1>2 DEF Ahead
    <2>4. Waits(l)' <=> Waits(l)
      BY <1>1, <2>2, <2>3 DEF Waits
    <2>5. l \in PortSeen' => ~Waits(l)'
      BY <1>1, <1>2, <1>4 DEF SeenAll, Apart
    <2> QED BY <1>1, <1>2, <2>4, <2>5 DEF Stage, StageOf, Visits
  <1>6. \A l \in Locs : Entries(l)' = Entries(l)
    BY DEF Entries
  <1>7. Follows
    BY DEF Known, Parts
  <1>8. Follows'
    BY <1>5, <1>6, <1>7, FollowsSame
  <1> QED BY <1>3, <1>8

LEMMA StillFollows ==
  ASSUME Known, UNCHANGED <<at, used, change, enabled, fresh, lost, devAddr, live, cell, stack>>
  PROVE  Nested' /\ Follows'
  <1>1. Nested'
    BY DEF Known, Parts, Nested, Running, Top
  <1>2. UNCHANGED <<Running, Top, PortSeen>> /\ \A a : Answers(a)' = Answers(a)
    BY DEF Running, Top, PortSeen, Answers
  <1>3. ASSUME NEW l \in Locs PROVE Stage(l)' = Stage(l) /\ Entries(l)' = Entries(l)
    <2>1. \A q : Starting(q)' <=> Starting(q)
      BY <1>2 DEF Starting
    <2>2. Unstarted(l[1])' <=> Unstarted(l[1])
      BY <2>1 DEF Unstarted
    <2>3. Owns(l)' <=> Owns(l)
      BY <1>2 DEF Owns
    <2>4. Waits(l)' <=> Waits(l)
      BY <1>2, <2>2, <2>3 DEF Waits
    <2> QED BY <1>2, <2>4 DEF Stage, Entries
  <1>4. Follows'
    BY <1>3, FollowsSame DEF Known, Parts
  <1> QED BY <1>1, <1>4

LEMMA EndsFollows ==
  ASSUME Known, LoopEnds PROVE Nested' /\ Follows'
  <1>1. /\ Running /\ Top.port \notin Ports(Top.dev) /\ stack' = Front(stack)
        /\ UNCHANGED <<at, used, change, enabled, fresh, lost, devAddr, live, cell>>
    BY DEF LoopEnds, world, ports, list
  <1>2. StackInv /\ Nested /\ Follows
    BY DEF Known, Types, Parts
  <1>3. /\ Len(stack) \in {1, 2} /\ Top = stack[Len(stack)] /\ Top.port \in Nat
        /\ Len(stack) = 1 => Top = stack[1]
        /\ Top.dev = Root => Len(stack) = 1
        /\ Len(stack) = 2 => Top.dev # Root
    BY <1>1, <1>2, Levels2
  <1>4. Top.st \in Resting
    BY <1>1, <1>2, TopIsSound DEF Sound
  (* No port is left to visit. *)
  <1>5. ASSUME NEW l \in Locs, Owns(l) PROVE l[2] < Top.port
    <2>1. l[2] \in Ports(l[1]) /\ (Top.dev = Root <=> l[1] = Root)
      BY <1>5, LocIs DEF Owns
    <2>2. l[2] \in Ports(Top.dev)
      BY <2>1 DEF Ports
    <2>3. \E c \in Nat : Ports(Top.dev) = 0 .. c - 1
      BY TopologyAssumption DEF Ports
    <2> QED BY <1>1, <1>3, <2>2, <2>3
  <1>6. SeenAll /\ SeenAll' /\ Apart
    BY <1>2, SeenAlways, ApartAlways, PTL
  <1>7. ASSUME NEW l \in Locs
        PROVE  /\ l \notin PortSeen /\ (Owns(l) => ~Ahead(Top, l))
               /\ Stage(l) = IF Waits(l) THEN "due" ELSE "rest"
    <2>1. Owns(l) => l[2] < Top.port /\ l[2] \in Nat
      BY <1>5, LocIs
    <2>2. l \notin PortSeen
      BY <1>3, <1>6, <2>1 DEF SeenAll
    <2>3. Owns(l) => ~Ahead(Top, l)
      BY <1>3, <2>1 DEF Ahead
    <2> QED BY <2>2, <2>3 DEF Stage
  <1>8. /\ StackInv' /\ Len(stack') = Len(stack) - 1 /\ (Running' <=> Len(stack) > 1)
        /\ Running' => Top' = stack[Len(stack) - 1] /\ Top'.st \in Resting
    BY <1>1, <1>2, EndKeeps
  <1>9. \A q : ~Starting(q) /\ ~Starting(q)'
    BY <1>4, <1>8 DEF Starting, Resting, Greeting
  <1>10. \A h : Unstarted(h)' <=> Unstarted(h)
    BY <1>1, <1>9 DEF Unstarted
  <1>11. \A l \in Locs : Entries(l)' = Entries(l)
    BY <1>1 DEF Entries
  <1>12. CASE Len(stack) = 1
    <2>1. ~Running' /\ Len(stack') = 0
      BY <1>8, <1>12
    <2>2. Nested'
      <3>1. Len(stack') <= 2 /\ Len(stack') # 2
        BY <2>1
      <3> QED BY <2>1, <3>1 DEF Nested
    <2>3. ASSUME NEW l \in Locs PROVE Stage(l)' = Stage(l)
      <3>1. Waits(l)' <=> l[1] # Root /\ Unstarted(l[1])
        BY <1>10, <2>1 DEF Waits
      <3>2. CASE l[1] = Root
        <4>1. Top.dev = Root => Owns(l)
          BY <3>2 DEF Owns
        <4>2. ~Waits(l)
          BY <1>3, <1>7, <1>12, <3>2, <4>1 DEF Waits
        <4> QED BY <1>7, <2>1, <3>1, <3>2, <4>2 DEF Stage
      <3>3. CASE l[1] # Root
        <4>1. Waits(l) <=> Unstarted(l[1])
          BY <1>7, <3>3 DEF Waits
        <4> QED BY <1>7, <2>1, <3>1, <3>3, <4>1 DEF Stage
      <3> QED BY <3>2, <3>3
    <2>4. Follows'
      BY <1>1, <1>2, <1>11, <2>3, FollowsSame
    <2> QED BY <2>2, <2>4
  <1>13. CASE Len(stack) = 2
    <2>1. Running' /\ Len(stack') = 1 /\ Top' = stack[1]
      BY <1>8, <1>13
    <2>2. stack'[1] = stack[1]
      BY <2>1 DEF Top, Last
    <2>3. stack[1].dev = Root /\ stack[1].st = (IF stack[1].polls THEN "look" ELSE "reset")
      BY <1>2, <1>13 DEF Nested
    <2>4. Nested'
      <3>1. Len(stack') <= 2 /\ Len(stack') # 2
        BY <2>1
      <3> QED BY <2>1, <2>2, <2>3, <3>1 DEF Nested, Polling
    <2>5. ASSUME NEW l \in Locs PROVE Stage(l)' = Stage(l)
      <3>1. l \in PortSeen' <=> l[1] = Root /\ l[2] = stack[1].port
        BY <1>6, <2>1, <2>3 DEF SeenAll, Owns
      <3>2. CASE l[1] = Root
        <4>1. (Waits(l) <=> Ahead(stack[1], l)) /\ (Waits(l)' <=> Ahead(stack[1], l))
          BY <1>1, <2>1, <2>2, <2>3, <3>2 DEF Waits
        <4>2. CASE l \notin PortSeen'
          BY <1>7, <4>1, <4>2 DEF Stage
        <4>3. CASE l \in PortSeen'
          <5>1. Ahead(stack[1], l) <=> ~stack[1].polls
            <6>1. stack[1].port = l[2] /\ l[2] \in Nat
              BY <3>1, <4>3, LocIs
            <6> QED BY <2>3, <6>1 DEF Ahead
          <5>2. Stage(l)' = IF stack[1].polls THEN "rest" ELSE "due"
            BY <2>1, <2>3, <4>3 DEF Stage, StageOf, Visits
          <5> QED BY <1>7, <4>1, <5>1, <5>2
        <4> QED BY <4>2, <4>3
      <3>3. CASE l[1] # Root
        <4>1. Waits(l) <=> Unstarted(l[1])
          BY <1>7, <3>3 DEF Waits
        <4>2. Waits(l)' <=> Unstarted(l[1])
          BY <1>10, <2>1, <2>3, <3>3 DEF Waits
        <4> QED BY <1>7, <3>1, <3>3, <4>1, <4>2 DEF Stage
      <3> QED BY <3>2, <3>3
    <2>6. Follows'
      BY <1>1, <1>2, <1>11, <2>5, FollowsSame
    <2> QED BY <2>4, <2>6
  <1> QED BY <1>3, <1>12, <1>13

-----------------------------------------------------------------------------
(* The outside world: what is plugged in, or unplugged, behind a port.      *)
LEMMA EventIs ==
  ASSUME Types, Wiring, World
  PROVE  \E p \in Locs :
           /\ UNCHANGED <<devAddr, stack, cell, live, main, cursor, faults>>
           /\ events' = events + 1 /\ lost \subseteq lost' /\ used \subseteq used' /\ used' \subseteq used \cup {p}
           /\ fresh'[p] = TRUE /\ ~enabled'[p] /\ (change'[p] <=> Powered(p[1]))
           /\ at[p] = Null \/ at'[p] = Null
           /\ at'[p] # Null \/ at[p] # Null
           /\ at'[p] # Null => p \in used'
           /\ Overlaps(p) => p \in lost'
           /\ \A k \in Locs : k[1] = at[p] => k \in lost'
           /\ \A k \in Locs : k # p => at'[k] = at[k] /\ fresh'[k] = fresh[k] /\ (change'[k] => change[k])
           /\ \A k \in Locs : k # p /\ k[1] # at[p] => change'[k] = change[k] /\ enabled'[k] = enabled[k]
           /\ \A k \in Locs : enabled'[k] => k # p /\ enabled[k]
  <1>1. PICK p \in Sockets : Unplug(p) \/ \E d \in Devs : Plug(d, p)
    BY DEF World
  <1>2. p \in Locs /\ \A k \in Locs : k[1] # Null
    BY <1>1, TopologyAssumption, LocIs
  <1>3. /\ at \in [Locs -> Devs \cup {Null}] /\ change \in [Locs -> BOOLEAN]
        /\ enabled \in [Locs -> BOOLEAN] /\ fresh \in [Locs -> BOOLEAN]
    BY DEF Types, PortTypes
  <1>4. UNCHANGED <<devAddr, stack, cell, live, main, cursor, faults>> /\ events' = events + 1
        /\ fresh' = [fresh EXCEPT ![p] = TRUE]
    BY <1>1 DEF Unplug, Plug, Disturbed, list, poll
  <1>5. CASE Unplug(p)
    <2>1. /\ at[p] # Null /\ at' = [at EXCEPT ![p] = Null] /\ UNCHANGED used
          /\ change' = [k \in Locs |-> IF k = p THEN Powered(p[1]) ELSE change[k] /\ k[1] # at[p]]
          /\ enabled' = [k \in Locs |-> enabled[k] /\ k # p /\ k[1] # at[p]]
          /\ lost' = lost \cup {k \in Locs : k[1] = at[p] \/ (k = p /\ Overlaps(p))}
      BY <1>5 DEF Unplug
    <2>2. /\ \A k \in Locs : k # p /\ k[1] # at[p] => change'[k] = change[k] /\ enabled'[k] = enabled[k]
          /\ \A k \in Locs : k # p => at'[k] = at[k] /\ fresh'[k] = fresh[k] /\ (change'[k] => change[k])
          /\ \A k \in Locs : enabled'[k] => k # p /\ enabled[k]
      BY <1>2, <1>3, <1>4, <2>1
    <2>3. at'[p] = Null /\ fresh'[p] = TRUE /\ ~enabled'[p] /\ (change'[p] <=> Powered(p[1]))
      BY <1>2, <1>3, <1>4, <2>1
    <2>4. (\A k \in Locs : k[1] = at[p] => k \in lost') /\ (Overlaps(p) => p \in lost')
      BY <1>2, <2>1
    <2> QED BY <1>2, <1>4, <2>1, <2>2, <2>3, <2>4
  <1>6. ASSUME NEW d \in Devs, Plug(d, p)
        PROVE  /\ at[p] = Null /\ at'[p] # Null /\ used' = used \cup {p} /\ lost \subseteq lost'
               /\ fresh'[p] = TRUE /\ ~enabled'[p] /\ (change'[p] <=> Powered(p[1]))
               /\ Overlaps(p) => p \in lost'
               /\ \A k \in Locs : k # p => at'[k] = at[k] /\ fresh'[k] = fresh[k] /\ change'[k] = change[k]
               /\ enabled' = enabled
    <2>1. /\ at[p] = Null /\ at' = [at EXCEPT ![p] = d] /\ used' = used \cup {p}
          /\ change' = [change EXCEPT ![p] = Powered(p[1])] /\ enabled' = enabled
          /\ lost' = IF Overlaps(p) THEN lost \cup {p} ELSE lost
      BY <1>6 DEF Plug
    <2>2. ~enabled[p]
      BY <1>2, <2>1 DEF Wiring
    <2>3. d # Null
      BY TopologyAssumption
    <2> QED BY <1>2, <1>3, <1>4, <2>1, <2>2, <2>3
  <1>7. ASSUME NEW d \in Devs, Plug(d, p)
        PROVE  \A k \in Locs : enabled'[k] => k # p
    BY <1>6, <1>7
  <1>8. CASE \E d \in Devs : Plug(d, p)
    <2> USE <1>2
    <2> WITNESS p \in Locs
    <2> QED BY <1>4, <1>6, <1>7, <1>8
  <1> QED BY <1>1, <1>5, <1>8

LEMMA PowerIs ==
  ASSUME Wiring, NEW l \in Locs, Stage(l) # "due" PROVE Powered(l[1])
  <1>1. CASE l[1] = Root
    BY <1>1 DEF Powered
  <1>2. CASE l[1] # Root
    <2>1. \E q \in Locs : at[q] = l[1] /\ enabled[q]
      <3>1. CASE Running /\ l \in PortSeen
        <4>1. l[1] \in Answers(cell[Top.dev].addr)
          BY <1>2, <3>1, SeenIs DEF Owns
        <4> QED BY <4>1 DEF Answers
      <3>2. CASE ~(Running /\ l \in PortSeen)
        <4>1. ~Unstarted(l[1])
          BY <1>2, <3>2 DEF Stage, Waits
        <4> QED BY <4>1 DEF Unstarted
      <3> QED BY <3>1, <3>2
    <2>2. PICK q \in Locs : at[q] = l[1] /\ enabled[q]
      BY <2>1
    <2>3. q[1] = Root /\ q = <<q[1], q[2]>> /\ q[2] \in Ports(q[1])
      BY <1>2, <2>2, LocIs DEF Wiring
    <2> QED BY <2>2, <2>3 DEF Powered
  <1> QED BY <1>1, <1>2

LEMMA EventStage ==
  ASSUME Known, World, NEW p \in Locs, UNCHANGED <<devAddr, stack, cell>>,
         \A k \in Locs : k # p => at'[k] = at[k],
         \A k \in Locs : k # p /\ k[1] # at[p] => enabled'[k] = enabled[k],
         \A k \in Locs : enabled'[k] => k # p /\ enabled[k],
         NEW l \in Locs, l[1] # at[p]
  PROVE  Stage(l)' = Stage(l)
  <1>1. Wiring /\ at \in [Locs -> Devs \cup {Null}]
    BY DEF Known, Addresses, Types, PortTypes
  <1>2. Running' = Running /\ Top' = Top
    BY DEF Running, Top
  <1>3. ASSUME l[1] # Root
        PROVE  \A q \in Locs : at'[q] = l[1] /\ enabled'[q] <=> at[q] = l[1] /\ enabled[q]
    <2> SUFFICES ASSUME NEW q \in Locs
                 PROVE  at'[q] = l[1] /\ enabled'[q] <=> at[q] = l[1] /\ enabled[q]
      OBVIOUS
    <2>1. ASSUME at[q] = l[1], enabled[q] PROVE at'[q] = l[1] /\ enabled'[q]
      <3>1. l[1] \in Hubs /\ q[1] = Root
        BY <1>1, <1>3, <2>1, LocIs DEF Wiring
      <3>2. q # p /\ q[1] # at[p]
        BY <1>1, <2>1, <3>1, LocIs
      <3> QED BY <2>1, <3>2
    <2> QED BY <2>1
  <1>4. ASSUME l[1] # Root PROVE Unstarted(l[1])' <=> Unstarted(l[1])
    BY <1>2, <1>3, <1>4 DEF Unstarted, Starting
  <1>5. Owns(l)' <=> Owns(l)
    <2>1. CASE Top.dev = Root
      BY <1>2, <2>1 DEF Owns
    <2>2. CASE Top.dev # Root
      <3>1. l[1] # Root => (l[1] \in Answers(cell[Top.dev].addr)' <=> l[1] \in Answers(cell[Top.dev].addr))
        BY <1>2, <1>3 DEF Answers
      <3> QED BY <1>2, <2>2, <3>1 DEF Owns
    <2> QED BY <2>1, <2>2
  <1>6. SeenAll /\ SeenAll'
    BY SeenAlways, PTL
  <1>7. l \in PortSeen' <=> l \in PortSeen
    BY <1>2, <1>5, <1>6 DEF SeenAll
  <1>8. Waits(l)' <=> Waits(l)
    BY <1>2, <1>4, <1>5 DEF Waits
  <1> QED BY <1>2, <1>7, <1>8 DEF Stage

LEMMA WorldFollows ==
  ASSUME Known, World PROVE Nested' /\ Follows'
  <1>1. Wiring /\ Types /\ Follows /\ StackInv
    BY DEF Known, Addresses, Parts, Types
  <1>2. PICK p \in Locs :
           /\ UNCHANGED <<devAddr, stack, cell, live, main, cursor, faults>>
           /\ lost \subseteq lost' /\ used \subseteq used'
           /\ fresh'[p] = TRUE /\ ~enabled'[p] /\ (change'[p] <=> Powered(p[1]))
           /\ at[p] = Null \/ at'[p] = Null
           /\ Overlaps(p) => p \in lost'
           /\ \A k \in Locs : k[1] = at[p] => k \in lost'
           /\ \A k \in Locs : k # p => at'[k] = at[k] /\ fresh'[k] = fresh[k]
           /\ \A k \in Locs : k # p /\ k[1] # at[p] => change'[k] = change[k] /\ enabled'[k] = enabled[k]
           /\ \A k \in Locs : enabled'[k] => k # p /\ enabled[k]
    BY <1>1, EventIs
  <1>3. Nested'
    BY <1>2 DEF Known, Parts, Nested, Running, Top
  <1> SUFFICES ASSUME NEW l \in Locs, Followable(l)' PROVE Fits(l)'
    BY <1>3 DEF Follows
  <1>4. l \notin lost' /\ l[1] # at[p]
    BY <1>2 DEF Followable
  <1>5. Followable(l) /\ Fits(l)
    <2>1. \A q \in Locs : at[q] = l[1] => q # p /\ at'[q] = l[1]
      BY <1>2, <1>4
    <2> QED BY <1>1, <1>2, <1>4, <2>1 DEF Followable, Follows
  <1>6. PICK s : s = Stage(l)
    OBVIOUS
  <1>7. Stage(l)' = s
    BY <1>2, <1>4, <1>6, EventStage
  <1>8. Entries(l)' = Entries(l) /\ (Alone(l)' => Alone(l))
    BY <1>2 DEF Entries, Alone
  <1>9. CASE l # p
    BY <1>2, <1>4, <1>5, <1>6, <1>7, <1>8, <1>9 DEF Fits, Signals, Shown
  <1>10. CASE l = p
    <2>1. ~fresh[p] /\ ~(InPort("enable") /\ p \in PortSeen)
      BY <1>2, <1>4, <1>10 DEF Overlaps
    <2>2. s # "enable"
      <3> SUFFICES ASSUME s = "enable" PROVE FALSE
        OBVIOUS
      <3>1. Running /\ p \in PortSeen /\ Top.st = "enable"
        BY <1>6, <1>10 DEF Stage, StageOf
      <3>2. Top.port \in Ports(Top.dev)
        BY <1>1, <3>1, TopIsSound DEF Sound, Resting
      <3> QED BY <2>1, <3>1, <3>2 DEF InPort
    <2>3. s # "due" => change'[p]
      BY <1>1, <1>2, <1>6, <1>10, PowerIs
    <2>4. Signals(p, s) /\ (Alone(p) => Shown(p, s))
      BY <1>5, <1>6, <1>10 DEF Fits
    <2>5. Signals(p, s)'
      BY <1>2, <2>2, <2>3 DEF Signals
    <2>6. Shown(p, s) => Shown(p, s)'
      BY <1>2, <1>8, <1>10, <2>1 DEF Shown
    <2> QED BY <1>7, <1>8, <1>10, <2>4, <2>5, <2>6 DEF Fits
  <1> QED BY <1>9, <1>10

LEMMA FollowsKept ==
  ASSUME Known, [Next]_vars, Smooth' PROVE Nested' /\ Follows'
  <1>1. CASE UNCHANGED vars
    BY <1>1, StillFollows DEF vars, world, ports, list
  <1>2. CASE NewRound
    BY <1>2, PollFollows DEF NewRound, world, ports, list
  <1>3. CASE Visit
    <2>1. CASE stack' = <<Loop(cursor, TRUE)>>
      BY <1>3, <2>1, PollFollows DEF Visit, world, ports, list
    <2>2. CASE UNCHANGED stack
      BY <1>3, <2>2, StillFollows DEF Visit, world, ports, list
    <2> QED BY <1>3, <2>1, <2>2 DEF Visit
  <1>4. CASE UsbDevInit
    BY <1>4, GreetFollows, StartHubFollows, OtherFollows, FailsFollows DEF UsbDevInit
  <1>5. CASE ResetPort
    BY <1>5, RootResetFollows, ResetFollows, HubAckFollows, HubClearFollows, FinalFollows DEF ResetPort
  <1>6. CASE PollPort
    BY <1>6, LookFollows, GoneFollows, CameFollows DEF PollPort
  <1>7. CASE PortRequestFails \/ LoopEnds \/ World
    BY <1>7, PortFailsFollows, EndsFollows, WorldFollows
  <1> QED BY <1>1, <1>2, <1>3, <1>4, <1>5, <1>6, <1>7 DEF Next, Kernel

-----------------------------------------------------------------------------
(* The other parts of the invariant.  Where the innermost loop may be after *)
(* a step of the kernel.                                                    *)
LEMMA RestsIs ==
  ASSUME Known, Running, NextPort
  PROVE  Running' /\ Top'.st \in Resting /\ Top'.dev = Top.dev /\ Top'.polls = Top.polls
  <1>1. StackInv /\ Nested
    BY DEF Known, Types, Parts
  <1> QED BY <1>1, NextPortIs, Levels2 DEF Resting

LEMMA GotoGoes ==
  ASSUME Known, Running, Top.port \in Ports(Top.dev), NEW st \in Steps \ {"desc"}, Goto(st),
         st \in {"addr", "conf"} => Top.st \in {"desc", "addr"}, st = "enable" => Top.dev = Root
  PROVE  /\ Running' /\ Top'.st = st /\ Top'.dev = Top.dev /\ Top'.port = Top.port
         /\ Top'.polls = Top.polls /\ Top'.new = Top.new
  <1>1. StackInv
    BY DEF Known, Types
  <1>2. Top.st \in {"desc", "addr"} => Top.new \in Cells
    BY <1>1, TopIsSound DEF Sound
  <1> QED BY <1>1, <1>2, GotoKeeps

(* The kernel is between two ports, or goes on in the same port. *)
Between == Running => Top.st \in Resting
Inside ==
  /\ Running /\ Running' /\ Top.port \in Ports(Top.dev)
  /\ Top'.dev = Top.dev /\ Top'.port = Top.port /\ Top'.polls = Top.polls
  /\ \/ RootReset /\ Top'.st = "enable"
     \/ (RootEnable \/ HubReset) /\ Top'.st \in {"ack", "final"}
     \/ (HubAck \/ HubClear) /\ Top'.st \in {"clear", "final"}
     \/ Look /\ Top'.st \in {"gone", "came"} /\ \E l \in PortSeen : change[l]
     \/ HubCame /\ Top'.st = "check"
     \/ GetDescriptor /\ Top.st = "desc" /\ Top'.st = "addr" /\ Top'.new = Top.new
     \/ SetAddress /\ Top.st = "addr" /\ Top'.st = "conf" /\ Top'.new = Top.new
     \/ /\ FinalStatus /\ Top'.st = "desc"
        /\ \E p \in PortSeen, c \in Malloc : Create(c, p) /\ enabled[p] /\ Top'.new = c
Goes == Running /\ Running' /\ Top'.dev = Top.dev /\ Top'.polls = Top.polls

LEMMA ResetMoves ==
  ASSUME Known, ResetPort, Smooth' PROVE (Between' \/ Inside) /\ Goes
  <1>1. Running /\ Top.port \in Ports(Top.dev)
    BY DEF ResetPort, RootReset, RootEnable, HubReset, HubAck, HubClear, FinalStatus, InPort
  <1>2. CASE RootReset
    <2>1. Goto("enable") /\ Top.dev = Root
      BY <1>2 DEF RootReset
    <2> QED BY <1>1, <1>2, <2>1, GotoGoes DEF Inside, Goes, Steps
  <1>3. CASE RootEnable \/ HubReset
    <2>1. PICK st \in {"ack", "final"} : Goto(st)
      BY <1>3 DEF RootEnable, HubReset
    <2> QED BY <1>1, <1>3, <2>1, GotoGoes DEF Inside, Goes, Steps
  <1>4. CASE HubAck \/ HubClear
    <2>1. PICK st \in {"clear", "final"} : Goto(st)
      BY <1>4 DEF HubAck, HubClear
    <2> QED BY <1>1, <1>4, <2>1, GotoGoes DEF Inside, Goes, Steps
  <1>5. CASE FinalStatus
    <2>1. PICK p \in PortSeen : \/ NextPort
                                \/ enabled[p] /\ \E c \in Malloc : Create(c, p)
      BY <1>5 DEF FinalStatus, NoMemory
    <2>2. CASE NextPort
      BY <1>1, <2>2, RestsIs DEF Between, Goes
    <2>3. ASSUME NEW c \in Malloc, Create(c, p), enabled[p] PROVE Inside /\ Goes
      <3>1. Top.st = "final" /\ UNCHANGED <<at, enabled, devAddr>>
        BY <1>5 DEF FinalStatus, InPort, world, ports
      <3>2. Moves /\ Top'.st = "desc" /\ Top'.port = Top.port /\ Top'.new = c
        BY <1>1, <2>3, <3>1, CreateIs
      <3> QED BY <1>1, <1>5, <2>3, <3>2 DEF Inside, Goes, Moves
    <2> QED BY <2>1, <2>2, <2>3
  <1> QED BY <1>2, <1>3, <1>4, <1>5 DEF ResetPort

LEMMA PollMoves ==
  ASSUME Known, PollPort \/ PortRequestFails PROVE (Between' \/ Inside) /\ Goes
  <1>1. Running /\ Top.port \in Ports(Top.dev)
    BY DEF PollPort, Look, RootGone, HubGone, RootCame, HubCame, HubCheck, PortRequestFails, InPort
  <1>2. CASE NextPort
    BY <1>1, <1>2, RestsIs DEF Between, Goes
  <1>3. CASE Goto("reset")
    BY <1>1, <1>3, GotoGoes DEF Between, Goes, Steps, Resting
  <1>4. CASE Look /\ ~NextPort
    <2>1. PICK st \in {"gone", "came"} : Goto(st) /\ \E l \in PortSeen : change[l]
      BY <1>4 DEF Look
    <2> QED BY <1>1, <1>4, <2>1, GotoGoes DEF Inside, Goes, Steps
  <1>5. CASE HubCame
    <2>1. Goto("check")
      BY <1>5 DEF HubCame
    <2> QED BY <1>1, <1>5, <2>1, GotoGoes DEF Inside, Goes, Steps
  <1>6. RootGone \/ HubGone \/ RootCame \/ HubCheck \/ PortRequestFails => NextPort \/ Goto("reset")
    BY DEF RootGone, HubGone, RootCame, HubCheck, PortRequestFails
  <1> QED BY <1>2, <1>3, <1>4, <1>5, <1>6 DEF PollPort

LEMMA InitMoves ==
  ASSUME Known, UsbDevInit PROVE (Between' \/ Inside) /\ (Goes \/ StartHub)
  <1>1. Running /\ Top.port \in Ports(Top.dev)
    BY DEF UsbDevInit, GetDescriptor, SetAddress, StartHub, StartOther, InitFails, InPort
  <1>2. CASE GetDescriptor
    <2>1. Goto("addr") /\ Top.st = "desc"
      BY <1>2 DEF GetDescriptor, InPort
    <2> QED BY <1>1, <1>2, <2>1, GotoGoes DEF Inside, Goes, Steps
  <1>3. CASE SetAddress
    <2>1. Goto("conf") /\ Top.st = "addr"
      BY <1>3 DEF SetAddress, InPort
    <2> QED BY <1>1, <1>3, <2>1, GotoGoes DEF Inside, Goes, Steps
  <1>4. CASE StartHub
    <2>1. StackInv /\ Top.new \in Cells /\ stack' = Append(AfterPort, Loop(Top.new, FALSE))
      BY <1>1, <1>4, TopIsSound DEF StartHub, InPort, Known, Types, Sound
    <2>2. PICK n \in Cells : n = Top.new
      BY <2>1
    <2> QED BY <1>1, <1>4, <2>1, <2>2, NestKeeps DEF Between
  <1>5. CASE StartOther \/ InitFails
    <2>1. NextPort
      BY <1>5 DEF StartOther, InitFails
    <2> QED BY <1>1, <2>1, RestsIs DEF Between, Goes
  <1> QED BY <1>2, <1>3, <1>4, <1>5 DEF UsbDevInit

LEMMA RoundMoves ==
  ASSUME Known, NewRound \/ LoopEnds \/ Visit
  PROVE  Between' /\ (Running' => Top'.polls \/ Top'.dev = Root)
  <1>1. StackInv /\ Nested
    BY DEF Known, Types, Parts
  <1>2. CASE LoopEnds
    <2>1. Running /\ stack' = Front(stack)
      BY <1>2 DEF LoopEnds
    <2>2. Running' => Len(stack) > 1 /\ Top' = stack[Len(stack) - 1] /\ Top'.st \in Resting
      BY <1>1, <2>1, EndKeeps
    <2>3. Len(stack) \in {1, 2}
      BY <1>1, <2>1, Levels2
    <2>4. CASE Len(stack) = 1
      BY <2>2, <2>4 DEF Between
    <2>5. CASE Len(stack) = 2
      <3>1. 2 - 1 = 1
        OBVIOUS
      <3>2. Running' => Top' = stack[1]
        BY <2>2, <2>5, <3>1
      <3> QED BY <1>1, <2>2, <2>5, <3>2 DEF Between, Nested
    <2> QED BY <2>3, <2>4, <2>5
  <1>3. CASE \E k \in Cells \cup {Root} : stack' = <<Loop(k, TRUE)>>
    <2>1. PICK k \in Cells \cup {Root} : stack' = <<Loop(k, TRUE)>>
      BY <1>3
    <2>2. Top' = Loop(k, TRUE) /\ Top'.st \in Resting
      BY <2>1, StartKeeps
    <2> QED BY <2>2 DEF Between, Loop
  <1>4. CASE ~Running /\ UNCHANGED stack
    BY <1>4 DEF Running, Between
  <1> QED BY <1>2, <1>3, <1>4 DEF NewRound, Visit

LEMMA KernelMoves ==
  ASSUME Known, [Next]_vars, Smooth'
  PROVE  \/ (UNCHANGED vars \/ World) /\ UNCHANGED <<stack, cell, live, devAddr>>
         \/ /\ ResetPort \/ PollPort \/ PortRequestFails \/ UsbDevInit
            /\ (Between' \/ Inside) /\ (Goes \/ StartHub)
         \/ NewRound \/ LoopEnds \/ Visit
  <1>1. CASE UNCHANGED vars
    BY <1>1 DEF vars, ports, list
  <1>2. CASE World
    <2>1. UNCHANGED <<stack, cell, live, devAddr>>
      BY <1>2 DEF World, Unplug, Plug, list
    <2> QED BY <1>2, <2>1
  <1>3. CASE ResetPort
    BY <1>3, ResetMoves
  <1>4. CASE PollPort \/ PortRequestFails
    BY <1>4, PollMoves
  <1>5. CASE UsbDevInit
    BY <1>5, InitMoves
  <1> QED BY <1>1, <1>2, <1>3, <1>4, <1>5 DEF Next, Kernel

(* Entries keep what they say, and go only when a port is found empty. *)
LEMMA EntryStays ==
  ASSUME Known, ResetPort \/ PollPort \/ PortRequestFails \/ UsbDevInit, ~Top.polls, NEW d \in live,
         d # Top.new \/ Top.st # "addr"
  PROVE  d \in live' /\ cell'[d].addr = cell[d].addr
  <1>1. ListTypes /\ d \in Cells /\ cell \in [Cells -> Entry] /\ Nested
    BY DEF Known, Types, ListTypes, Parts
  <1>2. CASE ResetPort
    <2>1. CASE FinalStatus
      <3>1. \/ UNCHANGED <<live, cell>>
            \/ \E p \in PortSeen, c \in Malloc : Create(c, p)
        BY <2>1 DEF FinalStatus, list, NoMemory
      <3>2. ASSUME NEW p \in PortSeen, NEW c \in Malloc, Create(c, p)
            PROVE  d \in live' /\ cell'[d].addr = cell[d].addr
        <4>1. d # c
          BY DEF Malloc
        <4> QED BY <1>1, <3>2, <4>1 DEF Create
      <3> QED BY <3>1, <3>2
    <2>2. CASE RootReset \/ RootEnable \/ HubReset \/ HubAck \/ HubClear
      BY <2>2 DEF RootReset, RootEnable, HubReset, HubAck, HubClear, list
    <2> QED BY <1>2, <2>1, <2>2 DEF ResetPort
  <1>3. CASE UsbDevInit
    <2>1. CASE SetAddress
      <3>1. Top.st = "addr" /\ UNCHANGED live /\ cell' = [cell EXCEPT ![Top.new].addr = nextAddr']
        BY <2>1 DEF SetAddress, InPort, list
      <3> QED BY <1>1, <3>1
    <2>2. CASE StartHub
      <3>1. UNCHANGED live /\ cell' = [cell EXCEPT ![Top.new].hub = TRUE]
        BY <2>2 DEF StartHub, list
      <3> QED BY <1>1, <3>1 DEF Entry
    <2>3. CASE GetDescriptor \/ StartOther \/ InitFails
      BY <2>3 DEF GetDescriptor, StartOther, InitFails, list
    <2> QED BY <1>3, <2>1, <2>2, <2>3 DEF UsbDevInit
  <1>4. CASE PollPort \/ PortRequestFails
    <2>1. CASE RootGone \/ HubGone
      <3>1. Running /\ Top.st = "gone"
        BY <2>1 DEF RootGone, HubGone, InPort
      <3> QED BY <1>1, <3>1 DEF Nested, Polling
    <2>2. CASE Look \/ RootCame \/ HubCame \/ HubCheck \/ PortRequestFails
      BY <2>2 DEF Look, RootCame, HubCame, HubCheck, PortRequestFails, list
    <2> QED BY <1>4, <2>1, <2>2 DEF PollPort
  <1> QED BY <1>2, <1>3, <1>4

LEMMA ProbedKept ==
  ASSUME Known, [Next]_vars, Smooth' PROVE Probed'
  <1> SUFFICES ASSUME Running', Top'.dev # Root, ~Top'.polls
               PROVE  /\ Top'.dev \in live' /\ cell'[Top'.dev].addr # 0
                      /\ Top'.st \in Greeting => Top'.new # Top'.dev
    BY DEF Probed
  <1>1. StackInv /\ Nested /\ Probed /\ ListTypes
    BY DEF Known, Types, Parts
  <1>2. CASE UNCHANGED <<stack, cell, live>>
    <2>1. Running' = Running /\ Top' = Top
      BY <1>2 DEF Running, Top
    <2> QED BY <1>1, <1>2, <2>1 DEF Probed
  <1>3. CASE NewRound \/ LoopEnds \/ Visit
    BY <1>3, RoundMoves
  <1>4. ASSUME ResetPort \/ PollPort \/ PortRequestFails \/ UsbDevInit, Between' \/ Inside, Goes
        PROVE  /\ Top'.dev \in live' /\ cell'[Top'.dev].addr # 0
               /\ Top'.st \in Greeting => Top'.new # Top'.dev
    <2>1. PICK d : d = Top.dev
      OBVIOUS
    <2>2. /\ Running /\ Top'.dev = d /\ ~Top.polls /\ d \in live /\ cell[d].addr # 0
          /\ Top.st \in Greeting => Top.new # d
      BY <1>1, <1>4, <2>1 DEF Goes, Probed
    <2>3. d \in live' /\ cell'[d].addr = cell[d].addr
      BY <1>4, <2>2, EntryStays DEF Greeting
    <2>4. ASSUME Top'.st \in Greeting PROVE Top'.new # d
      <3>1. Inside
        BY <1>4, <2>4 DEF Between, Resting, Greeting
      <3>2. Top.st \in Greeting => Top.new # d
        BY <2>2
      <3>3. \/ Top.st \in Greeting /\ Top'.new = Top.new
            \/ \E c \in Malloc : Top'.new = c
        BY <2>4, <3>1 DEF Inside, Greeting
      <3> QED BY <2>2, <3>2, <3>3 DEF Malloc
    <2> QED BY <2>2, <2>3, <2>4
  <1>5. CASE StartHub
    <2>1. /\ Running /\ Top.st = "conf" /\ UNCHANGED live
          /\ cell' = [cell EXCEPT ![Top.new].hub = TRUE]
          /\ stack' = Append(AfterPort, Loop(Top.new, FALSE))
      BY <1>5 DEF StartHub, InPort, list
    <2>2. PICK n : n = Top.new
      OBVIOUS
    <2>3. n \in live /\ n \in Cells /\ cell[n].addr # 0
      BY <1>1, <2>1, <2>2 DEF Known, Parts, Greeted, Greeting, ListTypes
    <2>4. Top' = Loop(n, FALSE)
      BY <1>1, <2>1, <2>2, <2>3, NestKeeps
    <2>5. cell'[n].addr = cell[n].addr
      BY <1>1, <2>1, <2>2, <2>3 DEF ListTypes, Entry
    <2> QED BY <2>1, <2>3, <2>4, <2>5 DEF Loop, Greeting
  <1> QED BY <1>2, <1>3, <1>4, <1>5, KernelMoves

(* The ports visited are ports, and no event adds one to them. *)
SeenSound == StackInv /\ Running /\ Top.st \notin Resting => PortSeen \subseteq Locs
LEMMA SeenLocs == SeenSound
  BY SeenIsLoc, TopIsSound DEF SeenSound, Sound

LEMMA WorldSeen ==
  ASSUME Known, World, Running, Top.st \notin Resting
  PROVE  PortSeen' \subseteq PortSeen /\ PortSeen' \subseteq Locs
  <1>1. Types /\ Wiring /\ StackInv
    BY DEF Known, Types, Addresses
  <1>2. /\ UNCHANGED <<devAddr, stack, cell>>
        /\ \A k \in Locs : enabled'[k] => enabled[k] /\ at'[k] = at[k]
    BY <1>1, WorldKeeps
  <1>3. Running' = Running /\ Top' = Top /\ StackInv'
    BY <1>1, <1>2 DEF Running, Top, StackInv
  <1>4. SeenAll /\ SeenAll' /\ SeenSound'
    BY SeenAlways, SeenLocs, PTL
  <1>5. \A a : Answers(a)' \subseteq Answers(a)
    BY <1>2 DEF Answers
  <1>6. \A l \in Locs : Owns(l)' => Owns(l)
    BY <1>2, <1>3, <1>5 DEF Owns, Answers
  <1>7. PortSeen' \subseteq Locs
    BY <1>3, <1>4 DEF SeenSound
  <1> QED BY <1>3, <1>4, <1>6, <1>7 DEF SeenAll

LEMMA EntryFrom ==
  ASSUME Known, [Next]_vars, NEW c \in live'
  PROVE  \/ c \in live /\ cell'[c].from = cell[c].from /\ cell'[c].port = cell[c].port
         \/ \E p \in PortSeen : /\ FinalStatus /\ enabled[p]
                               /\ cell'[c].from = p /\ cell'[c].port = Top.port
  <1>1. ListTypes /\ cell \in [Cells -> Entry] /\ live \subseteq Cells /\ Types /\ Whole
    BY DEF Known, Types, ListTypes
  <1>2. CASE UNCHANGED <<live, cell>>
    BY <1>2
  <1>3. CASE FinalStatus
    <2>1. PICK p \in PortSeen : \/ UNCHANGED <<live, cell>>
                                \/ enabled[p] /\ \E d \in Malloc : Create(d, p)
      BY <1>3 DEF FinalStatus, list, NoMemory
    <2>2. ASSUME NEW d \in Malloc, Create(d, p), enabled[p]
          PROVE  \/ c \in live /\ cell'[c].from = cell[c].from /\ cell'[c].port = cell[c].port
                 \/ cell'[c].from = p /\ cell'[c].port = Top.port
      <3>1. /\ d \in Cells /\ live' = live \cup {d}
            /\ cell' = [cell EXCEPT ![d] = [Empty EXCEPT !.port = Top.port, !.from = p]]
        BY <2>2 DEF Create, Malloc
      <3>2. cell'[d].from = p /\ cell'[d].port = Top.port
        BY <1>1, <3>1 DEF Empty
      <3>3. c # d => c \in live /\ cell'[c] = cell[c]
        BY <1>1, <3>1
      <3> QED BY <3>2, <3>3
    <2> QED BY <1>2, <1>3, <2>1, <2>2
  <1>4. CASE UsbDevInit
    <2>1. CASE SetAddress
      <3>1. UNCHANGED live /\ cell' = [cell EXCEPT ![Top.new].addr = nextAddr']
        BY <2>1 DEF SetAddress, list
      <3> QED BY <1>1, <3>1 DEF Entry
    <2>2. CASE StartHub
      <3>1. UNCHANGED live /\ cell' = [cell EXCEPT ![Top.new].hub = TRUE]
        BY <2>2 DEF StartHub, list
      <3> QED BY <1>1, <3>1 DEF Entry
    <2>3. CASE GetDescriptor \/ StartOther \/ InitFails
      BY <1>2, <2>3 DEF GetDescriptor, StartOther, InitFails, list
    <2> QED BY <1>4, <2>1, <2>2, <2>3 DEF UsbDevInit
  <1>5. CASE RootGone \/ HubGone
    <2>1. Running /\ Disconnect
      BY <1>5 DEF RootGone, HubGone, InPort
    <2>2. \/ UNCHANGED <<live, cell>>
          \/ \E d \in live : live' = live \ {d} /\ \A e \in Cells \ {d} : cell'[e] = cell[e]
      BY <1>1, <2>1, DisconnectIs
    <2> QED BY <1>1, <1>2, <2>2
  <1>6. CASE UNCHANGED vars \/ World \/ NewRound \/ LoopEnds \/ Visit \/ PortRequestFails
    BY <1>2, <1>6 DEF vars, list, World, Plug, Unplug, NewRound, LoopEnds, Visit, PortRequestFails
  <1>7. CASE RootReset \/ RootEnable \/ HubReset \/ HubAck \/ HubClear
    BY <1>2, <1>7 DEF RootReset, RootEnable, HubReset, HubAck, HubClear, list
  <1>8. CASE Look \/ RootCame \/ HubCame \/ HubCheck
    BY <1>2, <1>8 DEF Look, RootCame, HubCame, HubCheck, list
  <1> QED BY <1>3, <1>4, <1>5, <1>6, <1>7, <1>8 DEF Next, Kernel, ResetPort, PollPort

(* Only a port with a device behind it reports a change that it did not     *)
(* report before, unless something happens at it.                           *)
LEMMA ChangeIs ==
  ASSUME Known, [Next]_vars, ~World
  PROVE  /\ UNCHANGED <<at, used>>
         /\ \A k \in Locs : change'[k] => change[k] \/ at[k] # Null
  <1>1. change \in [Locs -> BOOLEAN] /\ Types
    BY DEF Known, Types, PortTypes
  <1>2. CASE UNCHANGED vars \/ NewRound \/ LoopEnds \/ Visit \/ PortRequestFails \/ UsbDevInit
    BY <1>2 DEF vars, world, ports, NewRound, LoopEnds, Visit, PortRequestFails,
                UsbDevInit, GetDescriptor, SetAddress, StartHub, StartOther, InitFails
  <1>3. CASE RootReset \/ HubAck \/ HubClear \/ FinalStatus
    BY <1>1, <1>3 DEF RootReset, HubAck, HubClear, FinalStatus, world, ports, Acknowledge, Clear
  <1>4. CASE RootEnable \/ HubReset
    <2>1. UNCHANGED <<at, used>> /\ \E l \in PortSeen : PortReset(l)
      BY <1>1, <1>4, ResetIs DEF RootEnable, HubReset, world
    <2> QED BY <1>1, <2>1 DEF PortReset
  <1>5. CASE PollPort
    BY <1>1, <1>5 DEF PollPort, Look, RootGone, HubGone, RootCame, HubCame, HubCheck, world, ports,
                      Acknowledge, Clear
  <1> QED BY <1>2, <1>3, <1>4, <1>5 DEF Next, Kernel, ResetPort

LEMMA InUseKept ==
  ASSUME Known, [Next]_vars, Smooth' PROVE InUse'
  <1>1. Types /\ Wiring /\ InUse /\ StackInv /\ at \in [Locs -> Devs \cup {Null}]
    BY DEF Known, Types, PortTypes, Addresses, Parts
  <1>2. /\ used' \subseteq Locs /\ used \subseteq used'
        /\ \A l \in Locs : at'[l] # Null \/ change'[l] => l \in used'
    <2>1. CASE World
      <3>1. PICK p \in Locs :
              /\ used \subseteq used' /\ used' \subseteq used \cup {p}
              /\ at'[p] # Null \/ at[p] # Null
              /\ at'[p] # Null => p \in used'
              /\ \A k \in Locs : k # p => at'[k] = at[k] /\ (change'[k] => change[k])
        BY <1>1, <2>1, EventIs
      <3> QED BY <1>1, <3>1 DEF InUse
    <2>2. CASE ~World
      BY <1>1, <2>2, ChangeIs DEF InUse
    <2> QED BY <2>1, <2>2
  <1>3. ASSUME NEW c \in live' PROVE cell'[c].from \in used' /\ cell'[c].port = cell'[c].from[2]
    <2>1. CASE c \in live /\ cell'[c].from = cell[c].from /\ cell'[c].port = cell[c].port
      BY <1>1, <1>2, <2>1 DEF InUse
    <2>2. ASSUME NEW p \in PortSeen, FinalStatus, enabled[p],
                 cell'[c].from = p, cell'[c].port = Top.port
          PROVE  cell'[c].from \in used' /\ cell'[c].port = cell'[c].from[2]
      <3>1. p \in Locs /\ p[2] = Top.port
        BY <2>2, PortIs DEF FinalStatus, InPort
      <3>2. p \in used
        BY <1>1, <2>2, <3>1 DEF InUse, Wiring
      <3> QED BY <1>2, <2>2, <3>1, <3>2
    <2> QED BY <2>1, <2>2, EntryFrom
  <1>4. ASSUME Running', Top'.st = "gone" PROVE PortSeen' \subseteq used'
    <2>1. CASE UNCHANGED vars
      <3>1. Running' = Running /\ Top' = Top /\ PortSeen' = PortSeen
        BY <2>1 DEF Running, Top, PortSeen, Answers, vars, world, ports
      <3> QED BY <1>1, <1>2, <1>4, <3>1 DEF InUse
    <2>2. CASE World
      <3>1. Running' = Running /\ Top' = Top
        BY <1>1, <2>2, WorldKeeps DEF Running, Top
      <3>2. PortSeen' \subseteq PortSeen
        BY <1>4, <2>2, <3>1, WorldSeen DEF Resting
      <3> QED BY <1>1, <1>2, <1>4, <3>1, <3>2 DEF InUse
    <2>3. CASE Inside
      <3>1. Look /\ Running /\ Top.port \in Ports(Top.dev) /\ Top'.dev = Top.dev /\ Top'.port = Top.port
        BY <1>4, <2>3 DEF Inside
      <3>2. PICK p \in PortSeen : change[p]
        BY <1>4, <2>3 DEF Inside
      <3>3. p \in Locs /\ PortSeen = {p}
        BY <3>1, PortIs
      <3>4. PortSeen' = PortSeen
        BY <3>1, SeenStays DEF Look, world, ports
      <3> QED BY <1>1, <1>2, <3>2, <3>3, <3>4 DEF InUse
    <2>4. ~Between'
      BY <1>4 DEF Between, Resting
    <2> QED BY <2>1, <2>2, <2>3, <2>4, KernelMoves, RoundMoves
  <1> QED BY <1>2, <1>3, <1>4 DEF InUse

LEMMA UnnamedKept ==
  ASSUME Known, [Next]_vars, Smooth' PROVE Unnamed'
  <1> SUFFICES ASSUME Running', Top'.st \in {"ack", "clear", "final"}, NEW l \in PortSeen', enabled'[l]
               PROVE  devAddr'[at'[l]] = 0
    BY DEF Unnamed
  <1>1. Types /\ Wiring /\ Unnamed
    BY DEF Known, Addresses, Parts
  <1>2. CASE UNCHANGED vars
    <2>1. Running' = Running /\ Top' = Top /\ PortSeen' = PortSeen /\ UNCHANGED <<at, enabled, devAddr>>
      BY <1>2 DEF Running, Top, PortSeen, Answers, vars, world, ports
    <2> QED BY <1>1, <2>1 DEF Unnamed
  <1>3. CASE World
    <2>1. Running' = Running /\ Top' = Top
      BY <1>1, <1>3, WorldKeeps DEF Running, Top
    <2>2. l \in PortSeen /\ l \in Locs
      BY <1>3, <2>1, WorldSeen DEF Resting
    <2>3. UNCHANGED devAddr /\ enabled[l] /\ at'[l] = at[l]
      BY <1>1, <1>3, <2>2, WorldKeeps
    <2> QED BY <1>1, <2>1, <2>2, <2>3 DEF Unnamed
  <1>4. CASE Inside
    <2>1. /\ Running /\ Top.port \in Ports(Top.dev) /\ Top'.dev = Top.dev /\ Top'.port = Top.port
          /\ RootEnable \/ HubReset \/ HubAck \/ HubClear
      BY <1>4 DEF Inside
    <2>2. CASE RootEnable \/ HubReset
      <3>1. PICK p \in PortSeen : p \in Locs /\ PortReset(p) /\ UNCHANGED at
        BY <1>1, <2>2, ResetIs
      <3>2. PortSeen = {p}
        BY <2>1, PortIs
      <3>3. Types' /\ SeenSound'
        BY <1>1, TypesStep, SeenLocs, PTL DEF Known
      <3>4. l \in Locs
        BY <3>3 DEF SeenSound, Types, Resting
      <3>5. l = p
        BY <2>2, <3>2, <3>4, ResetFollows
      <3> QED BY <1>1, <3>1, <3>5, ResetKeeps
    <2>3. CASE HubAck \/ HubClear
      <3>1. UNCHANGED <<at, enabled, devAddr, cell>> /\ Top.st \in {"ack", "clear"}
        BY <2>3 DEF HubAck, HubClear, InPort, world, ports
      <3>2. PortSeen' = PortSeen
        BY <2>1, <3>1, SeenStays
      <3> QED BY <1>1, <2>1, <3>1, <3>2 DEF Unnamed
    <2> QED BY <2>1, <2>2, <2>3
  <1>5. ~Between'
    BY DEF Between, Resting
  <1> QED BY <1>2, <1>3, <1>4, <1>5, KernelMoves, RoundMoves

LEMMA GreetedKept ==
  ASSUME Known, [Next]_vars, Smooth' PROVE Greeted'
  <1> SUFFICES ASSUME Running', Top'.st \in Greeting PROVE Greeted'
    BY DEF Greeted
  <1>1. Types /\ ListTypes /\ PortTypes /\ Wiring /\ Greeted /\ Unnamed /\ InReset /\ Smooth
    BY DEF Known, Types, Addresses, Parts
  <1>2. CASE (UNCHANGED vars \/ World) /\ UNCHANGED <<stack, cell, live, devAddr>>
    <2>1. Running' = Running /\ Top' = Top /\ UNCHANGED <<cell, live, devAddr>>
      BY <1>2 DEF Running, Top
    <2>2. \A k \in Locs : enabled'[k] => enabled[k] /\ at'[k] = at[k]
      BY <1>1, <1>2, WorldKeeps DEF vars, world, ports
    <2> QED BY <1>1, <2>1, <2>2 DEF Greeted
  <1>3. CASE Inside
    <2>1. Running /\ Top.port \in Ports(Top.dev) /\ Top'.dev = Top.dev /\ Top'.port = Top.port
      BY <1>3 DEF Inside
    <2>2. ASSUME FinalStatus, Top'.st = "desc", NEW p \in PortSeen, NEW c \in Malloc, Create(c, p),
                 enabled[p], Top'.new = c
          PROVE  Greeted'
      <3>1. Top.st = "final" /\ UNCHANGED <<at, enabled, devAddr>>
        BY <2>2 DEF FinalStatus, InPort, world, ports
      <3>2. p \in Locs /\ (Top.dev = Root <=> p[1] = Root) /\ p[2] = Top.port
        BY <2>1, PortIs
      <3>3. c \in live' /\ cell'[c].from = p
        BY <2>1, <2>2, <3>1, CreateIs
      <3>4. devAddr[at[p]] = 0
        BY <1>1, <2>1, <2>2, <3>1 DEF Unnamed
      <3> QED BY <2>1, <2>2, <3>1, <3>2, <3>3, <3>4 DEF Greeted
    <2>3. CASE GetDescriptor /\ Top.st = "desc" /\ Top'.st = "addr" /\ Top'.new = Top.new
      <3>1. UNCHANGED <<at, enabled, devAddr, cell, live>>
        BY <2>3 DEF GetDescriptor, world, ports, list
      <3> QED BY <1>1, <2>1, <2>3, <3>1 DEF Greeted, Greeting
    <2>4. CASE SetAddress /\ Top.st = "addr" /\ Top'.st = "conf" /\ Top'.new = Top.new
      <3>1. /\ UNCHANGED <<at, enabled, live>> /\ nextAddr' = nextAddr + 1
            /\ devAddr' = [d \in Devs |-> IF d \in Answers(0) THEN nextAddr + 1 ELSE devAddr[d]]
            /\ cell' = [cell EXCEPT ![Top.new].addr = nextAddr']
        BY <1>1, <2>4, NamedIs DEF SetAddress, world, list
      <3>2. PICK n : n = Top.new
        OBVIOUS
      <3>3. PICK l : l = cell[n].from
        OBVIOUS
      <3>4. /\ n \in live /\ n \in Cells /\ l \in Locs /\ l[2] = Top.port /\ (l[1] = Root <=> Top.dev = Root)
            /\ enabled[l] => devAddr[at[l]] = 0
        BY <1>1, <2>1, <2>4, <3>2, <3>3 DEF Greeted, Greeting, ListTypes
      <3>5. cell'[n].from = l /\ cell'[n].addr = nextAddr + 1 /\ nextAddr \in Nat
        BY <1>1, <3>1, <3>2, <3>3, <3>4 DEF ListTypes, Entry, PortTypes
      <3>6. ASSUME NEW k \in Locs, enabled[k] PROVE devAddr'[at[k]] = nextAddr + 1 <=> k = l
        <4>1. at[k] \in Devs /\ (at[k] \in Answers(0) <=> devAddr[at[k]] = 0)
          BY <1>1, <3>6, AnswersZero
        <4>2. devAddr[at[k]] \in Nat /\ devAddr[at[k]] <= nextAddr
          BY <1>1, <4>1 DEF PortTypes
        <4>3. devAddr[at[k]] = 0 => k = l
          BY <1>1, <2>4, <3>2, <3>3, <3>6 DEF InReset, Nameless, Awaited
        <4> QED BY <3>1, <3>4, <3>5, <3>6, <4>1, <4>2, <4>3
      <3>7. nextAddr + 1 # 0
        BY <3>5
      <3> QED BY <2>1, <2>4, <3>1, <3>2, <3>4, <3>5, <3>6, <3>7 DEF Greeted
    <2> QED BY <1>3, <2>2, <2>3, <2>4 DEF Inside, Greeting
  <1>4. ~Between'
    BY DEF Between, Resting, Greeting
  <1> QED BY <1>2, <1>3, <1>4, KernelMoves, RoundMoves

LEMMA PortInvStep ==
  Types /\ Whole /\ Addresses /\ PortInv /\ [Next]_vars => PortInv'
  <1> SUFFICES ASSUME Types, Whole, Addresses, PortInv, [Next]_vars, Smooth' PROVE Parts'
    BY DEF PortInv
  <1>1. Smooth
    BY SmoothBefore
  <1>2. Known
    BY <1>1 DEF PortInv, Known
  <1> QED BY <1>2, FollowsKept, ProbedKept, UnnamedKept, GreetedKept, InUseKept DEF Parts

-----------------------------------------------------------------------------
(* At the start every port is still to be reset.                            *)
LEMMA InitialPorts == Init => PortInv
  <1> SUFFICES ASSUME Init PROVE Parts
    BY DEF PortInv
  <1>1. Running /\ Len(stack) = 1 /\ Top = stack[1] /\ stack[1] = Loop(Root, FALSE)
    <2>1. stack = <<Loop(Root, FALSE)>>
      BY DEF Init
    <2> DEFINE f == Loop(Root, FALSE)
    <2> HIDE DEF f
    <2>2. stack = <<f>>
      BY <2>1 DEF f
    <2>3. Running /\ Len(stack) = 1 /\ Top = stack[1] /\ stack[1] = f
      BY <2>2 DEF Running, Top, Last
    <2> QED BY <2>3 DEF f
  <1>2. Top.dev = Root /\ ~Top.polls /\ Top.port = 0 /\ Top.st = "reset"
    BY <1>1 DEF Loop
  <1>3. Nested
    <2>1. Len(stack) <= 2 /\ Len(stack) # 2
      BY <1>1
    <2> QED BY <1>1, <1>2, <2>1 DEF Nested, Polling
  <1>4. Probed /\ Unnamed /\ Greeted
    BY <1>2 DEF Probed, Unnamed, Greeted, Greeting
  <1>5. InUse
    BY <1>2 DEF InUse, Init
  <1>6. ASSUME NEW l \in Locs PROVE Fits(l)
    <2>1. ~enabled[l] /\ Entries(l) = {}
      BY DEF Init, Entries
    <2>2. Ahead(Top, l)
      BY <1>2, LocIs DEF Ahead
    <2>3. \A q \in Locs : ~enabled[q]
      BY DEF Init
    <2>4. Waits(l)
      BY <1>1, <1>2, <2>2, <2>3 DEF Waits, Unstarted
    <2>5. Stage(l) = "due"
      BY <1>2, <2>4 DEF Stage, StageOf, Visits
    <2> QED BY <2>1, <2>5 DEF Fits, Signals, Shown
  <1> QED BY <1>3, <1>4, <1>5, <1>6 DEF Parts, Follows

(* Between two rounds every port that could be followed is at rest.         *)
LEMMA PortsAreMeant == Types /\ Addresses /\ PortInv => PortsAgree
  <1> SUFFICES ASSUME Types, Addresses, PortInv, ~Running, Smooth, NEW l \in Sockets,
                      Followed(l), Reported(l), Alone(l)
               PROVE  Agrees(l)
    BY DEF PortsAgree
  <1>1. /\ Wiring /\ Follows /\ at \in [Locs -> Devs \cup {Null}] /\ l \in Locs
    BY TopologyAssumption DEF Addresses, PortInv, Parts, Types, PortTypes
  <1>2. \A q \in Locs : ~Starting(q) /\ at[q] # Root
    BY <1>1, LocIs DEF Starting
  <1>3. ASSUME NEW k \in Locs PROVE Stage(k) = IF k[1] # Root /\ Unstarted(k[1]) THEN "due" ELSE "rest"
    BY DEF Stage, Waits
  <1>4. Followable(l) /\ Stage(l) = "rest"
    <2>1. CASE l[1] = Root
      BY <1>1, <1>2, <1>3, <2>1 DEF Followable, Followed
    <2>2. CASE l[1] # Root
      <3>1. PICK n \in Ports(Root) : at[<<Root, n>>] = l[1] /\ Followed(<<Root, n>>)
        BY <2>2 DEF Reported
      <3>2. PICK q \in Locs : q = <<Root, n>>
        BY RootLoc
      <3>3. at[q] = l[1] /\ q[1] = Root /\ q \notin lost /\ ~fresh[q] /\ l[1] # Null
        BY <1>1, <2>2, <3>1, <3>2, LocIs DEF Followed
      <3>4. \A k \in Locs : at[k] = l[1] => k = q
        BY <1>1, <3>3 DEF Wiring
      <3>5. Followable(l)
        BY <3>3, <3>4 DEF Followable, Followed
      <3>6. Fits(q)
        BY <1>1, <1>2, <3>3 DEF Follows, Followable
      <3>7. Signals(q, "rest")
        BY <1>3, <3>3, <3>6 DEF Fits
      <3>8. enabled[q]
        BY <3>3, <3>7 DEF Signals
      <3>9. ~Unstarted(l[1])
        BY <1>2, <3>3, <3>8 DEF Unstarted
      <3> QED BY <1>1, <1>3, <3>5, <3>9
    <2> QED BY <2>1, <2>2
  <1>5. Shown(l, "rest") /\ ~fresh[l]
    BY <1>1, <1>4 DEF Follows, Fits, Followed
  <1>6. (\A c, d \in Entries(l) : c = d) /\ (Entries(l) # {} <=> at[l] # Null)
    BY <1>5 DEF Shown
  <1>7. CASE at[l] = Null
    BY <1>6, <1>7, FS_EmptySet DEF Agrees
  <1>8. CASE at[l] # Null
    <2>1. PICK c : Entries(l) = {c}
      BY <1>6, <1>8
    <2>2. Cardinality(Entries(l)) = 1
      BY <2>1, FS_Singleton
    <2> QED BY <1>8, <2>2 DEF Agrees
  <1> QED BY <1>7, <1>8

(* At the end of a round of UsbPoll (usbd.cpp:343) the list has one entry    *)
(* for every port with a device and none for any other: for every port that *)
(* the driver could follow, hub above it included, and whose number no other *)
(* port in use shares, as long as no request fails, memory lasts and the    *)
(* addresses fit their field.  The plugging may fall between any two steps  *)
(* of a probe or a poll.                                                    *)
THEOREM PortsAgreeHolds == Spec => []PortsAgree
  <1>1. Init => PortInv
    BY InitialPorts
  <1>2. Types /\ Whole /\ Addresses /\ PortInv /\ [Next]_vars => PortInv'
    BY PortInvStep
  <1>3. Types /\ Addresses /\ PortInv => PortsAgree
    BY PortsAreMeant
  <1> QED BY <1>1, <1>2, <1>3, WellTyped, AddressesHold, PTL DEF Spec
=============================================================================
