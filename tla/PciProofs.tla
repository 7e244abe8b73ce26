----------------------------- MODULE PciProofs ------------------------------
(***************************************************************************)
(* Proofs that every EHCI controller the kernel started is the kernel's,   *)
(* and that the scan finds all there is to find and leaves the registers   *)
(* as they were, for any number of slots and functions and any machine.    *)
(***************************************************************************)
EXTENDS Pci, FiniteSetTheorems, TLAPS

(* The wait for the hand-off is the only time at which a semaphore is      *)
(* asked for and not given.                                                *)
Asked == \A f \in Ids : owner[f] = "asked" => f = Here /\ pc = "handoff"

(* Controllers in the list lie before the function the scan is at, so that *)
(* none of them is reset again.                                            *)
Behind(f) == f[1] < slot \/ (f[1] = slot /\ pc # "slot" /\ f[2] < func)
AllBehind == \A f \in ToSet(controllers) : Behind(f)

(* What each wait of the start has established. *)
Established ==
  /\ pc \in {"seeHalted", "owner", "handoff", "lists", "start"} => run[Here] # "reset"
  /\ pc \in {"lists", "start"} => owner[Here] \notin {"firmware", "asked"}
  /\ pc = "start" => lists[Here] = "kernel"

OursInv == BusTypeOK /\ Asked /\ AllBehind /\ Established /\ StartedIsOurs

(* The function that is being started is one of the bus. *)
LEMMA HereIsId == ASSUME BusTypeOK, pc \in Starting PROVE Here \in Ids
  BY ScanAssumption DEF BusTypeOK, Here, Ids, Starting

(* Controllers in the list are functions of the bus. *)
LEMMA ListedAreIds ==
  ASSUME BusTypeOK, NEW f \in ToSet(controllers)
  PROVE  f \in Ids /\ f[1] \in Int /\ f[2] \in Int
  <1>1. f \in Ids
    BY DEF BusTypeOK, ToSet
  <1> QED BY <1>1, ScanAssumption DEF Ids

(* What is linked in front of a list joins its elements. *)
LEMMA ToSetPrepend ==
  ASSUME NEW S, NEW s \in Seq(S), NEW e \in S
  PROVE  <<e>> \o s \in Seq(S) /\ ToSet(<<e>> \o s) = {e} \cup ToSet(s)
  <1> DEFINE t == <<e>> \o s
  <1>1. t \in Seq(S) /\ Len(t) = Len(s) + 1 /\ Len(s) \in Nat
    OBVIOUS
  <1>2. \A i \in 1 .. Len(s) + 1 : t[i] = IF i = 1 THEN e ELSE s[i - 1]
    OBVIOUS
  <1>3. DOMAIN t = 1 .. Len(s) + 1 /\ DOMAIN s = 1 .. Len(s)
    BY <1>1
  <1> HIDE DEF t
  <1>4. t[1] = e /\ 1 \in DOMAIN t
    BY <1>1, <1>2, <1>3
  <1>5. \A i \in DOMAIN s : i + 1 \in DOMAIN t /\ t[i + 1] = s[i]
    BY <1>1, <1>2, <1>3
  <1>6. \A i \in DOMAIN t : t[i] = e \/ \E j \in DOMAIN s : t[i] = s[j]
    <2> SUFFICES ASSUME NEW i \in DOMAIN t, i # 1 PROVE \E j \in DOMAIN s : t[i] = s[j]
      BY <1>4
    <2>1. i - 1 \in DOMAIN s /\ t[i] = s[i - 1]
      BY <1>1, <1>2, <1>3
    <2> QED BY <2>1
  <1>7. ToSet(t) = {e} \cup ToSet(s)
    BY <1>4, <1>5, <1>6 DEF ToSet
  <1> QED BY <1>1, <1>7 DEF t

(* Nothing has been started, and the firmware has been asked for nothing. *)
LEMMA OursInit == BusInit => OursInv
  <1> SUFFICES ASSUME BusInit PROVE OursInv
    OBVIOUS
  <1>1. ToSet(controllers) = {}
    BY DEF BusInit, ToSet
  <1>2. BusTypeOK
    BY ScanAssumption, MachinesAssumption DEF BusInit, BusTypeOK, Starting, None
  <1>3. Asked /\ AllBehind /\ Established /\ StartedIsOurs
    BY <1>1, MachinesAssumption DEF BusInit, Asked, AllBehind, Established, StartedIsOurs
  <1> QED BY <1>2, <1>3 DEF OursInv

(* A step of the scan proper: no start is under way after it, or it has    *)
(* not got beyond the registers.                                           *)
LEMMA ScanMoves ==
  ASSUME OursInv, BusTypeOK', AllBehind',
         UNCHANGED <<owner, run, lists, controllers>>,
         pc \in {"slot", "visit", "address", "restore"},
         pc' \in {"slot", "visit", "done", "address", "restore", "reset"}
  PROVE  OursInv'
  BY DEF OursInv, Asked, Established, StartedIsOurs

(* One step of the scan, of the start of a controller, of a controller or  *)
(* of the firmware.                                                        *)
LEMMA OursStep == OursInv /\ [BusNext]_busVars => OursInv'
  <1> SUFFICES ASSUME OursInv, [BusNext]_busVars PROVE OursInv'
    OBVIOUS
  <1>1. CASE ReadHeader
    <2>1. UNCHANGED <<owner, run, lists, controllers>>
      BY <1>1 DEF ReadHeader, hardware, scan
    <2>2. BusTypeOK'
      BY <1>1, <2>1, ScanAssumption DEF ReadHeader, OursInv, BusTypeOK, Starting, hardware, scan, FuncCount
    <2>3. AllBehind'
      BY ListedAreIds, <1>1, <2>1 DEF ReadHeader, OursInv, BusTypeOK, AllBehind, Behind, Starting, hardware, scan
    <2>4. pc \in {"slot", "visit", "address", "restore"}
          /\ pc' \in {"slot", "visit", "done", "address", "restore", "reset"}
      BY <1>1 DEF ReadHeader
    <2> QED BY <2>1, <2>2, <2>3, <2>4, ScanMoves
  <1>2. CASE Visit
    <2>1. UNCHANGED <<owner, run, lists, controllers>>
      BY <1>2 DEF Visit, hardware, scan
    <2>2. BusTypeOK'
      BY <1>2, <2>1, ScanAssumption DEF Visit, OursInv, BusTypeOK, Starting, hardware, scan
    <2>3. AllBehind'
      BY ListedAreIds, <1>2, <2>1 DEF Visit, OursInv, BusTypeOK, AllBehind, Behind, Starting, hardware, scan
    <2>4. pc \in {"slot", "visit", "address", "restore"}
          /\ pc' \in {"slot", "visit", "done", "address", "restore", "reset"}
      BY <1>2 DEF Visit
    <2> QED BY <2>1, <2>2, <2>3, <2>4, ScanMoves
  <1>3. CASE NextSlot
    <2>1. UNCHANGED <<owner, run, lists, controllers>>
      BY <1>3 DEF NextSlot, hardware, scan
    <2>2. BusTypeOK'
      BY <1>3, <2>1, ScanAssumption DEF NextSlot, OursInv, BusTypeOK, Starting, hardware, scan
    <2>3. AllBehind'
      BY ListedAreIds, <1>3, <2>1 DEF NextSlot, OursInv, BusTypeOK, AllBehind, Behind, Starting, hardware, scan
    <2>4. pc \in {"slot", "visit", "address", "restore"}
          /\ pc' \in {"slot", "visit", "done", "address", "restore", "reset"}
      BY <1>3 DEF NextSlot
    <2> QED BY <2>1, <2>2, <2>3, <2>4, ScanMoves
  <1>4. CASE SizeBar
    <2>1. UNCHANGED <<owner, run, lists, controllers>>
      BY <1>4 DEF SizeBar, hardware, scan
    <2>2. BusTypeOK'
      BY <1>4, <2>1, ScanAssumption DEF SizeBar, OursInv, BusTypeOK, Starting, hardware, scan
    <2>3. AllBehind'
      BY ListedAreIds, <1>4, <2>1 DEF SizeBar, OursInv, BusTypeOK, AllBehind, Behind, Starting, hardware, scan
    <2>4. pc \in {"slot", "visit", "address", "restore"}
          /\ pc' \in {"slot", "visit", "done", "address", "restore", "reset"}
      BY <1>4 DEF SizeBar
    <2> QED BY <2>1, <2>2, <2>3, <2>4, ScanMoves
  <1>5. CASE RestoreBar
    <2>1. UNCHANGED <<owner, run, lists, controllers>>
      BY <1>5 DEF RestoreBar, hardware, scan
    <2>2. BusTypeOK'
      BY <1>5, <2>1, ScanAssumption DEF RestoreBar, OursInv, BusTypeOK, Starting, hardware, scan
    <2>3. AllBehind'
      BY ListedAreIds, <1>5, <2>1 DEF RestoreBar, OursInv, BusTypeOK, AllBehind, Behind, Starting, hardware, scan
    <2>4. pc \in {"slot", "visit", "address", "restore"}
          /\ pc' \in {"slot", "visit", "done", "address", "restore", "reset"}
      BY <1>5 DEF RestoreBar
    <2> QED BY <2>1, <2>2, <2>3, <2>4, ScanMoves
  <1>6. CASE ProbeAhci
    <2>1. UNCHANGED <<owner, run, lists, controllers>>
      BY <1>6 DEF ProbeAhci, hardware, scan
    <2>2. BusTypeOK'
      BY <1>6, <2>1, ScanAssumption DEF ProbeAhci, OursInv, BusTypeOK, Starting, hardware, scan
    <2>3. AllBehind'
      BY ListedAreIds, <1>6, <2>1 DEF ProbeAhci, OursInv, BusTypeOK, AllBehind, Behind, Starting, hardware, scan
    <2>4. pc \in {"slot", "visit", "address", "restore"}
          /\ pc' \in {"slot", "visit", "done", "address", "restore", "reset"}
      BY <1>6 DEF ProbeAhci
    <2> QED BY <2>1, <2>2, <2>3, <2>4, ScanMoves
  <1>7. CASE Reset
    BY <1>7, HereIsId
    DEF Reset, OursInv, BusTypeOK, Asked, AllBehind, Behind, Established, StartedIsOurs, Here,
        Starting, None, fixed, hardware, scan
  <1>8. CASE SeeReset
    BY <1>8, HereIsId
    DEF SeeReset, OursInv, BusTypeOK, Asked, AllBehind, Behind, Established, StartedIsOurs, Here,
        Starting, None, fixed, hardware, scan
  <1>9. CASE SeeHalted
    BY <1>9, HereIsId
    DEF SeeHalted, OursInv, BusTypeOK, Asked, AllBehind, Behind, Established, StartedIsOurs, Here,
        Starting, None, fixed, hardware, scan
  <1>10. CASE ReadOwner
    BY <1>10, HereIsId
    DEF ReadOwner, OursInv, BusTypeOK, Asked, AllBehind, Behind, Established, StartedIsOurs, Here,
        Starting, None, fixed, hardware, scan
  <1>11. CASE SeeHandedOver
    BY <1>11, HereIsId
    DEF SeeHandedOver, HandedOver, OursInv, BusTypeOK, Asked, AllBehind, Behind, Established, StartedIsOurs, Here,
        Starting, None, fixed, hardware, scan
  <1>12. CASE SetLists
    BY <1>12, HereIsId
    DEF SetLists, OursInv, BusTypeOK, Asked, AllBehind, Behind, Established, StartedIsOurs, Here,
        Starting, None, fixed, hardware, scan
  <1>13. CASE Start
    BY <1>13, HereIsId
    DEF Start, OursInv, BusTypeOK, Asked, AllBehind, Behind, Established, StartedIsOurs, Here,
        Starting, None, fixed, hardware, scan
  <1>14. CASE Register
    <2>1. Here \in Ids /\ controllers \in Seq(Ids)
      BY <1>14, HereIsId DEF Register, OursInv, BusTypeOK, Starting
    <2>2. controllers' \in Seq(Ids) /\ ToSet(controllers') = {Here} \cup ToSet(controllers)
      BY <1>14, <2>1, ToSetPrepend DEF Register
    <2>3. BusTypeOK'
      BY <1>14, <2>2 DEF Register, OursInv, BusTypeOK, Starting, hardware
    <2>4. Asked' /\ Established'
      BY <1>14 DEF Register, OursInv, Asked, Established, hardware
    <2>5. AllBehind'
      <3>1. /\ slot' = slot /\ func' = func + 1 /\ pc' = "visit"
            /\ slot \in Nat /\ func \in Nat
        BY <1>14 DEF Register, OursInv, BusTypeOK
      <3>2. ASSUME NEW f \in ToSet(controllers) PROVE Behind(f)'
        BY <3>1, <3>2, ListedAreIds DEF OursInv, AllBehind, Behind
      <3>3. ASSUME NEW f \in ToSet(controllers') PROVE Behind(f)'
        <4>1. CASE f = Here
          BY <4>1, <3>1 DEF Behind, Here
        <4> QED BY <4>1, <3>2, <3>3, <2>2
      <3> QED BY <3>3 DEF AllBehind
    <2>6. StartedIsOurs'
      BY <1>14, <2>1, <2>2 DEF Register, OursInv, StartedIsOurs, hardware
    <2> QED BY <2>3, <2>4, <2>5, <2>6 DEF OursInv
  <1>15. CASE UNCHANGED busVars
    BY <1>15
    DEF busVars, OursInv, BusTypeOK, Asked, AllBehind, Behind, Established, StartedIsOurs, Here,
        fixed, hardware, scan
  <1>16. ASSUME NEW f \in Ids, HcResets(f) PROVE OursInv'
    <2>1. /\ run[f] = "reset"
          /\ run' = [run EXCEPT ![f] = "off"] /\ lists' = [lists EXCEPT ![f] = None]
          /\ UNCHANGED <<owner, pc, slot, func, funcCount, controllers>>
      BY <1>16 DEF HcResets, software, scan
    <2>2. BusTypeOK'
      BY <2>1 DEF OursInv, BusTypeOK, None
    <2>3. Asked' /\ AllBehind'
      BY <2>1 DEF OursInv, Asked, AllBehind, Behind, Here
    <2>4. Established'
      BY <2>1 DEF OursInv, BusTypeOK, Established, Here
    <2>5. StartedIsOurs'
      BY <2>1 DEF OursInv, BusTypeOK, StartedIsOurs, Here
    <2> QED BY <2>2, <2>3, <2>4, <2>5 DEF OursInv
  <1>17. ASSUME NEW f \in Ids, HcFollows(f) PROVE OursInv'
    BY <1>17
    DEF HcFollows, OursInv, BusTypeOK, Asked, AllBehind, Behind, Established, StartedIsOurs, Here,
        Starting, None, software, fixed, scan
  <1>18. ASSUME NEW f \in Ids, FirmwareRuns(f) PROVE OursInv'
    BY <1>18
    DEF FirmwareRuns, OursInv, BusTypeOK, Asked, AllBehind, Behind, Established, StartedIsOurs, Here,
        Starting, None, software, fixed, scan
  <1>19. ASSUME NEW f \in Ids, FirmwareReleases(f) PROVE OursInv'
    BY <1>19
    DEF FirmwareReleases, OursInv, BusTypeOK, Asked, AllBehind, Behind, Established, StartedIsOurs, Here,
        Starting, None, software, fixed, scan
  <1> QED BY <1>1, <1>2, <1>3, <1>4, <1>5, <1>6, <1>7, <1>8, <1>9, <1>10, <1>11, <1>12, <1>13, <1>14, <1>15, <1>16, <1>17, <1>18, <1>19
    DEF BusNext, Scan, InitEhci, External, Ehcis

(* A started controller runs the kernel's schedule and was given away by    *)
(* the firmware: the controller is reset and handed over before it is       *)
(* started, and no later step of the scan comes back to it.                 *)
THEOREM StartedIsOursHolds == BusSpec => []StartedIsOurs
  <1>1. OursInv => StartedIsOurs
    BY DEF OursInv
  <1> QED BY <1>1, OursInit, OursStep, PTL DEF BusSpec
-----------------------------------------------------------------------------
(* What the scan has found so far is what lies behind the function it is   *)
(* at, and nothing else; a register that is being sized has its value in   *)
(* address.                                                                *)
Bound == machine \in Machines /\ slot <= Slots /\ (pc = "done" => slot = Slots)
Counted == pc \notin {"slot", "done"} => funcCount = FuncCount

AtController ==
  pc \in Starting =>
    /\ machine[Here].class = "ehci" /\ index \in {0, 1}
    /\ index = 1 => machine[Here].bars[0].kind = "wide"
    /\ pc \notin {"address", "restore"} => machine[Here].bars[0].kind # "io"

Found == [f \in Ids |-> machine[f].bars]
Sized ==
  IF pc = "restore"
  THEN bar = [Found EXCEPT ![Here][index] = Ones] /\ address = Found[Here][index]
  ELSE bar = Found

Wanted == {f \in Seen("ehci") : machine[f].bars[0].kind # "io"}
Listed ==
  /\ ToSet(controllers) = {f \in Wanted : Behind(f)}
  /\ IsFiniteSet(ToSet(controllers))
  /\ Cardinality(ToSet(controllers)) = Len(controllers)

LastSeen ==
  /\ \A g \in Seen("ahci") : Behind(g) => NotBefore(iddd, g)
  /\ (\E g \in Seen("ahci") : Behind(g)) => iddd \in Seen("ahci")

Probed == pc = "done" /\ iddd \in Seen("ahci") => probed = Found[iddd][5].value

FoundInv ==
  OursInv /\ Bound /\ Counted /\ AtController /\ Sized /\ Listed /\ LastSeen /\ Probed

(* The numbers of a function of the bus. *)
LEMMA IdParts ==
  ASSUME NEW f \in Ids
  PROVE  f[1] \in Nat /\ f[1] < Slots /\ f[2] \in Nat /\ f[2] < Functions /\ f = <<f[1], f[2]>>
  BY ScanAssumption DEF Ids

(* A step that passes no function that answers and touches neither the list *)
(* nor iddd leaves what has been found as it was.                           *)
LEMMA Kept ==
  ASSUME Listed, LastSeen, UNCHANGED <<machine, controllers, iddd>>,
         \A f \in Ids : Visible(f) => (Behind(f)' <=> Behind(f))
  PROVE  Listed' /\ LastSeen'
  <1>1. UNCHANGED <<Seen("ehci"), Seen("ahci"), Wanted>>
    BY DEF Seen, Visible, Wanted
  <1>2. \A c : \A f \in Seen(c) : f \in Ids /\ Visible(f)
    BY DEF Seen
  <1>3. \A f \in Wanted : f \in Seen("ehci")
    BY DEF Wanted
  <1>4. {f \in Wanted : Behind(f)}' = {f \in Wanted : Behind(f)}
    BY <1>1, <1>2, <1>3
  <1>5. Listed'
    BY <1>4 DEF Listed
  <1>6. \A f, g \in Ids : NotBefore(f, g)' <=> NotBefore(f, g)
    BY DEF NotBefore
  <1>7. LastSeen'
    BY <1>1, <1>2 DEF LastSeen, NotBefore
  <1> QED BY <1>5, <1>7

(* Passing the function the scan is at puts that one behind it. *)
LEMMA Passing ==
  ASSUME BusTypeOK, UNCHANGED slot, func' = func + 1, pc \in {"visit"} \cup Starting,
         pc' = "visit", NEW f \in Ids
  PROVE  Behind(f)' <=> (Behind(f) \/ f = Here)
  BY IdParts DEF BusTypeOK, Starting, Behind, Here

(* A function is seen when it answers with its class and its slot says it   *)
(* has as many.                                                             *)
LEMMA HereVisible ==
  ASSUME BusTypeOK, Counted, pc \in {"visit"} \cup Starting, func < funcCount
  PROVE  Here \in Ids /\ Visible(Here)
  <1>1. /\ slot \in Nat /\ slot < Slots /\ func \in Nat /\ func < Functions
        /\ funcCount = FuncCount
    BY ScanAssumption DEF BusTypeOK, Counted, Starting
  <1>2. Here \in Ids /\ Here[1] = slot /\ Here[2] = func
    BY <1>1, ScanAssumption DEF Here, Ids
  <1>3. machine[<<slot, 0>>].multi \/ func = 0
    BY <1>1 DEF FuncCount, BusTypeOK
  <1> QED BY <1>2, <1>3 DEF Visible

(* A step within the start of a controller, and one of the hardware or the  *)
(* firmware, changes nothing of it.                                         *)
LEMMA StartMoves ==
  ASSUME FoundInv,
         UNCHANGED <<machine, bar, slot, func, funcCount, index, address, iddd, controllers, probed>>,
         pc' = pc \/ {pc, pc'} \subseteq Starting \ {"address", "restore"}
  PROVE  Bound' /\ Counted' /\ AtController' /\ Sized' /\ Listed' /\ LastSeen' /\ Probed'
  <1>1. \A f \in Ids : Behind(f)' <=> Behind(f)
    BY DEF Behind, Starting
  <1>2. Listed' /\ LastSeen'
    BY <1>1, Kept DEF FoundInv
  <1>3. UNCHANGED <<Found, Here, FuncCount, Seen("ahci")>>
    BY DEF Found, Here, FuncCount, Seen, Visible
  <1>4. Bound' /\ Counted'
    BY <1>3 DEF FoundInv, Bound, Counted, Starting
  <1>5. AtController'
    BY <1>3 DEF FoundInv, AtController
  <1>6. Sized'
    BY <1>3 DEF FoundInv, Sized, Starting
  <1>7. Probed'
    BY <1>3 DEF FoundInv, Probed, Starting
  <1> QED BY <1>2, <1>4, <1>5, <1>6, <1>7

LEMMA FoundInit == BusInit => FoundInv
  <1> SUFFICES ASSUME BusInit PROVE FoundInv
    OBVIOUS
  <1>1. OursInv
    BY OursInit
  <1>2. ToSet(controllers) = {} /\ Len(controllers) = 0
    BY DEF BusInit, ToSet
  <1>3. \A f \in Ids : ~Behind(f)
    BY IdParts DEF BusInit, Behind
  <1>4. Listed
    BY <1>2, <1>3, FS_EmptySet DEF Listed, Wanted, Seen
  <1>5. LastSeen
    BY <1>3 DEF LastSeen, Seen
  <1>6. Bound /\ Counted /\ AtController /\ Sized /\ Probed
    BY ScanAssumption DEF BusInit, Bound, Counted, AtController, Sized, Probed, Found, Starting
  <1> QED BY <1>1, <1>4, <1>5, <1>6 DEF FoundInv

(* Reading the header of a slot, and leaving it: what answers there is      *)
(* behind the scan when funcCount functions are.                            *)
LEMMA FoundHeader == FoundInv /\ OursInv' /\ ReadHeader => FoundInv'
  <1> SUFFICES ASSUME FoundInv, OursInv', ReadHeader PROVE FoundInv'
    OBVIOUS
  <1>1. /\ UNCHANGED <<machine, bar, slot, index, address, iddd, controllers, probed>>
        /\ pc = "slot" /\ pc' = "visit" /\ func' = 0 /\ funcCount' = FuncCount
    BY DEF ReadHeader, fixed, hardware
  <1>2. \A f \in Ids : Behind(f)' <=> Behind(f)
    BY <1>1, IdParts DEF Behind
  <1>3. Listed' /\ LastSeen'
    BY <1>1, <1>2, Kept DEF FoundInv
  <1>4. UNCHANGED <<FuncCount, Found>>
    BY <1>1 DEF FuncCount, Found
  <1>5. Bound' /\ Counted' /\ AtController' /\ Sized' /\ Probed'
    BY <1>1, <1>4 DEF FoundInv, Bound, Counted, AtController, Sized, Probed, Starting
  <1> QED BY <1>3, <1>5 DEF FoundInv

LEMMA FoundSlot == FoundInv /\ OursInv' /\ NextSlot => FoundInv'
  <1> SUFFICES ASSUME FoundInv, OursInv', NextSlot PROVE FoundInv'
    OBVIOUS
  <1>1. /\ UNCHANGED <<machine, bar, func, index, address, iddd, controllers, probed>>
        /\ pc = "visit" /\ func = funcCount /\ slot' = slot + 1 /\ pc' = "slot"
        /\ slot \in Nat /\ slot < Slots /\ func = FuncCount
    BY DEF NextSlot, fixed, hardware, FoundInv, OursInv, BusTypeOK, Counted
  <1>2. ASSUME NEW f \in Ids, Visible(f) PROVE Behind(f)' <=> Behind(f)
    <2>1. f[1] = slot => f[2] < func
      BY <1>1, <1>2, IdParts, ScanAssumption DEF Visible, FuncCount
    <2> QED BY <1>1, <2>1, IdParts DEF Behind
  <1>3. Listed' /\ LastSeen'
    BY <1>1, <1>2, Kept DEF FoundInv
  <1>4. UNCHANGED Found
    BY <1>1 DEF Found
  <1>5. Bound' /\ Counted' /\ AtController' /\ Sized' /\ Probed'
    BY <1>1, <1>4, ScanAssumption DEF FoundInv, Bound, Counted, AtController, Sized, Probed, Starting
  <1> QED BY <1>3, <1>5 DEF FoundInv

(* A function that is no EHCI controller is passed at once; an AHCI         *)
(* controller is then the last one seen.                                    *)
LEMMA FoundVisit == FoundInv /\ OursInv' /\ Visit => FoundInv'
  <1> SUFFICES ASSUME FoundInv, OursInv', Visit PROVE FoundInv'
    OBVIOUS
  <1>1. /\ UNCHANGED <<machine, bar, slot, funcCount, address, controllers, probed>>
        /\ pc = "visit" /\ func < funcCount
        /\ iddd' = IF machine[Here].class = "ahci" THEN Here ELSE iddd
    BY DEF Visit, fixed, hardware
  <1>2. Here \in Ids /\ Visible(Here) /\ BusTypeOK
    BY <1>1, HereVisible DEF FoundInv, OursInv
  <1>3. UNCHANGED <<Found, FuncCount, Seen("ehci"), Seen("ahci"), Wanted>>
    BY <1>1 DEF Found, FuncCount, Seen, Visible, Wanted
  <1>4. CASE machine[Here].class = "ehci"
    <2>1. pc' = "address" /\ index' = 0 /\ UNCHANGED <<func, iddd>>
      BY <1>1, <1>4 DEF Visit
    <2>2. \A f \in Ids : Behind(f)' <=> Behind(f)
      BY <1>1, <2>1 DEF Behind
    <2>3. Listed' /\ LastSeen'
      BY <1>1, <2>1, <2>2, Kept DEF FoundInv
    <2>4. Here' = Here
      BY <1>1, <2>1 DEF Here
    <2>5. Bound' /\ Counted' /\ AtController' /\ Sized' /\ Probed'
      BY <1>1, <1>3, <1>4, <2>1, <2>4
      DEF FoundInv, Bound, Counted, AtController, Sized, Probed, Starting
    <2> QED BY <2>3, <2>5 DEF FoundInv
  <1>5. CASE machine[Here].class # "ehci"
    <2>1. func' = func + 1 /\ UNCHANGED <<pc, index>>
      BY <1>5 DEF Visit
    <2>2. \A f \in Ids : Behind(f)' <=> (Behind(f) \/ f = Here)
      BY <1>1, <1>2, <2>1, Passing
    <2>3. Here \notin Wanted /\ Wanted \subseteq Ids
      BY <1>5 DEF Wanted, Seen
    <2>4. {f \in Wanted : Behind(f)}' = {f \in Wanted : Behind(f)}
      BY <1>3, <2>2, <2>3
    <2>5. Listed'
      BY <1>1, <2>4 DEF FoundInv, Listed
    <2>6. \A g \in Seen("ahci") : g \in Ids /\ machine[g].class = "ahci"
      BY DEF Seen
    <2>7. LastSeen'
      <3>1. CASE machine[Here].class = "ahci"
        <4>1. Here \in Seen("ahci") /\ iddd' = Here
          BY <1>1, <1>2, <3>1 DEF Seen
        <4>2. ASSUME NEW g \in Ids, Behind(g) \/ g = Here PROVE NotBefore(Here, g)
          BY <1>1, <1>2, <4>2, IdParts DEF Behind, NotBefore, Here, BusTypeOK
        <4> QED BY <1>3, <2>2, <2>6, <4>1, <4>2 DEF LastSeen, NotBefore
      <3>2. CASE machine[Here].class # "ahci"
        <4>1. \A g \in Seen("ahci") : Behind(g)' <=> Behind(g)
          BY <2>2, <2>6, <3>2
        <4> QED BY <1>1, <1>3, <3>2, <4>1 DEF FoundInv, LastSeen, NotBefore
      <3> QED BY <3>1, <3>2
    <2>8. Bound' /\ Counted' /\ AtController' /\ Sized' /\ Probed'
      BY <1>1, <1>3, <2>1 DEF FoundInv, Bound, Counted, AtController, Sized, Probed, Starting
    <2> QED BY <2>5, <2>7, <2>8 DEF FoundInv
  <1> QED BY <1>4, <1>5

(* The registers of the controller that is being started.                   *)
LEMMA HereBars ==
  ASSUME FoundInv, pc \in Starting
  PROVE  /\ Here \in Ids
         /\ Found[Here] = machine[Here].bars
         /\ machine[Here].bars = [i \in 0 .. 5 |-> machine[Here].bars[i]]
  <1>1. Here \in Ids
    BY HereIsId DEF FoundInv, OursInv
  <1>2. machine \in Machines /\ machine[Here].class # "absent"
    BY DEF FoundInv, Bound, AtController
  <1> QED BY <1>1, <1>2, BarsAssumption DEF Found

LEMMA FoundSize == FoundInv /\ OursInv' /\ SizeBar => FoundInv'
  <1> SUFFICES ASSUME FoundInv, OursInv', SizeBar PROVE FoundInv'
    OBVIOUS
  <1>1. /\ UNCHANGED <<machine, slot, func, funcCount, index, iddd, controllers, probed>>
        /\ pc = "address" /\ pc' = "restore"
        /\ address' = bar[Here][index]
        /\ bar' = [bar EXCEPT ![Here][index] = Ones]
    BY DEF SizeBar, fixed, scan
  <1>2. UNCHANGED <<Found, Here, FuncCount, Ones>>
    BY <1>1 DEF Found, Here, FuncCount, Ones
  <1>3. \A f \in Ids : Behind(f)' <=> Behind(f)
    BY <1>1 DEF Behind
  <1>4. Listed' /\ LastSeen'
    BY <1>1, <1>3, Kept DEF FoundInv
  <1>5. Sized'
    BY <1>1, <1>2 DEF FoundInv, Sized
  <1>6. Bound' /\ Counted' /\ AtController' /\ Probed'
    BY <1>1, <1>2 DEF FoundInv, Bound, Counted, AtController, Probed, Starting
  <1> QED BY <1>4, <1>5, <1>6 DEF FoundInv

(* Putting a register back undoes the sizing of it. *)
LEMMA FoundRestore == FoundInv /\ OursInv' /\ RestoreBar => FoundInv'
  <1> SUFFICES ASSUME FoundInv, OursInv', RestoreBar PROVE FoundInv'
    OBVIOUS
  <1>1. /\ UNCHANGED <<machine, slot, funcCount, iddd, controllers, probed>>
        /\ pc = "restore" /\ bar' = [bar EXCEPT ![Here][index] = address]
    BY DEF RestoreBar, Restored, fixed
  <1>2. /\ Here \in Ids /\ Found[Here] = machine[Here].bars
        /\ machine[Here].bars = [i \in 0 .. 5 |-> machine[Here].bars[i]]
        /\ machine[Here].class = "ehci" /\ index \in {0, 1}
        /\ (index = 1 => machine[Here].bars[0].kind = "wide")
        /\ bar = [Found EXCEPT ![Here][index] = Ones] /\ address = Found[Here][index]
    BY <1>1, HereBars DEF FoundInv, AtController, Sized, Starting
  <1>3. bar' = Found
    <2>1. DOMAIN Found = Ids /\ Found = [f \in Ids |-> Found[f]]
      BY DEF Found
    <2>2. Found[Here] = [i \in 0 .. 5 |-> Found[Here][i]] /\ index \in 0 .. 5
      BY <1>2
    <2>3. [[Found[Here] EXCEPT ![index] = Ones] EXCEPT ![index] = Found[Here][index]] = Found[Here]
      BY <2>2
    <2>4. bar = [Found EXCEPT ![Here] = [Found[Here] EXCEPT ![index] = Ones]]
      BY <1>2
    <2>5. bar[Here] = [Found[Here] EXCEPT ![index] = Ones]
      BY <1>2, <2>1, <2>4
    <2>6. bar' = [bar EXCEPT ![Here] = [bar[Here] EXCEPT ![index] = address]]
      BY <1>1
    <2>7. [bar[Here] EXCEPT ![index] = address] = Found[Here]
      BY <1>2, <2>3, <2>5
    <2>8. bar' = [bar EXCEPT ![Here] = Found[Here]]
      BY <2>6, <2>7
    <2> QED BY <1>2, <2>1, <2>4, <2>8
  <1>4. UNCHANGED <<Found, FuncCount, Seen("ehci"), Seen("ahci"), Wanted>>
    BY <1>1 DEF Found, FuncCount, Seen, Visible, Wanted
  <1>5. pc' \in {"address", "visit", "reset"}
    BY DEF RestoreBar
  <1>6. Bound' /\ Counted' /\ Sized' /\ Probed'
    BY <1>1, <1>3, <1>4, <1>5 DEF FoundInv, Bound, Counted, Sized, Probed, Starting
  <1>7. CASE index = 0 /\ address.kind = "io"
    <2>1. func' = func + 1 /\ pc' = "visit"
      BY <1>7 DEF RestoreBar
    <2>2. \A f \in Ids : Behind(f)' <=> (Behind(f) \/ f = Here)
      BY <1>1, <2>1, Passing DEF FoundInv, OursInv, Starting
    <2>3. Here \notin Wanted /\ Here \notin Seen("ahci")
      BY <1>2, <1>7 DEF Wanted, Seen
    <2>4. Wanted \subseteq Ids /\ Seen("ahci") \subseteq Ids
      BY DEF Wanted, Seen
    <2>5. {f \in Wanted : Behind(f)}' = {f \in Wanted : Behind(f)}
      BY <1>4, <2>2, <2>3, <2>4
    <2>6. Listed'
      BY <1>1, <2>5 DEF FoundInv, Listed
    <2>7. \A f \in Seen("ahci") : Behind(f)' <=> Behind(f)
      BY <2>2, <2>3, <2>4
    <2>8. LastSeen'
      BY <1>1, <1>4, <2>7 DEF FoundInv, LastSeen, NotBefore
    <2>9. AtController'
      BY <2>1 DEF AtController, Starting
    <2> QED BY <1>6, <2>6, <2>8, <2>9 DEF FoundInv
  <1>8. CASE ~(index = 0 /\ address.kind = "io")
    <2>1. UNCHANGED func
          /\ (IF index = 0 /\ address.kind = "wide" THEN index' = 1 /\ pc' = "address"
               ELSE pc' = "reset" /\ UNCHANGED index)
      BY <1>8 DEF RestoreBar
    <2>2. \A f \in Ids : Behind(f)' <=> Behind(f)
      BY <1>1, <1>5, <2>1 DEF Behind
    <2>3. Listed' /\ LastSeen'
      BY <1>1, <2>2, Kept DEF FoundInv
    <2>4. UNCHANGED Here
      BY <1>1, <2>1 DEF Here
    <2>5. AtController'
      BY <1>1, <1>2, <1>8, <2>1, <2>4 DEF AtController
    <2> QED BY <1>6, <2>3, <2>5 DEF FoundInv
  <1> QED BY <1>7, <1>8

(* A controller is linked once: it was not behind the scan before, and is   *)
(* now.                                                                     *)
LEMMA FoundRegister == FoundInv /\ OursInv' /\ Register => FoundInv'
  <1> SUFFICES ASSUME FoundInv, OursInv', Register PROVE FoundInv'
    OBVIOUS
  <1>1. /\ UNCHANGED <<machine, bar, slot, funcCount, index, address, iddd, probed>>
        /\ pc = "seeRunning" /\ pc' = "visit" /\ func' = func + 1
        /\ controllers' = <<Here>> \o controllers
    BY DEF Register, fixed, hardware
  <1>2. BusTypeOK /\ controllers \in Seq(Ids) /\ func < funcCount
    BY <1>1 DEF FoundInv, OursInv, BusTypeOK, Starting
  <1>3. Here \in Wanted /\ Here \notin Seen("ahci") /\ Here \in Ids
    BY <1>1, <1>2, HereVisible DEF FoundInv, AtController, Starting, Wanted, Seen
  <1>4. \A f \in Ids : Behind(f)' <=> (Behind(f) \/ f = Here)
    BY <1>1, <1>2, Passing DEF Starting
  <1>5. ~Behind(Here)
    BY <1>2 DEF Behind, Here, BusTypeOK
  <1>6. UNCHANGED <<Found, FuncCount, Seen("ehci"), Seen("ahci"), Wanted>>
    BY <1>1 DEF Found, FuncCount, Seen, Visible, Wanted
  <1>7. Listed'
    <2>1. ToSet(controllers') = {Here} \cup ToSet(controllers)
      BY <1>1, <1>2, <1>3, ToSetPrepend
    <2>2. Len(controllers') = Len(controllers) + 1
      BY <1>1, <1>2, <1>3
    <2>3. Here \notin ToSet(controllers)
      BY <1>5 DEF FoundInv, Listed
    <2>4. /\ IsFiniteSet(ToSet(controllers'))
          /\ Cardinality(ToSet(controllers')) = Cardinality(ToSet(controllers)) + 1
      <3>1. IsFiniteSet(ToSet(controllers))
        BY DEF FoundInv, Listed
      <3>2. ToSet(controllers') = ToSet(controllers) \cup {Here}
        BY <2>1
      <3> HIDE DEF Here
      <3> QED BY ONLY <2>3, <3>1, <3>2, FS_AddElement
    <2>5. Wanted \subseteq Ids
      BY DEF Wanted, Seen
    <2>6. {f \in Wanted : Behind(f)}' = {Here} \cup {f \in Wanted : Behind(f)}
      BY <1>3, <1>4, <1>6, <2>5
    <2> QED BY <2>1, <2>2, <2>4, <2>6 DEF FoundInv, Listed
  <1>8. LastSeen'
    <2>1. \A g \in Seen("ahci") : Behind(g)' <=> Behind(g)
      BY <1>3, <1>4 DEF Seen
    <2> QED BY <1>1, <1>6, <2>1 DEF FoundInv, LastSeen, NotBefore
  <1>9. Bound' /\ Counted' /\ AtController' /\ Sized' /\ Probed'
    BY <1>1, <1>6 DEF FoundInv, Bound, Counted, AtController, Sized, Probed, Starting
  <1> QED BY <1>7, <1>8, <1>9 DEF FoundInv

LEMMA FoundProbe == FoundInv /\ OursInv' /\ ProbeAhci => FoundInv'
  <1> SUFFICES ASSUME FoundInv, OursInv', ProbeAhci PROVE FoundInv'
    OBVIOUS
  <1>1. /\ UNCHANGED <<machine, bar, slot, func, funcCount, index, address, iddd, controllers>>
        /\ pc = "slot" /\ pc' = "done" /\ slot = Slots
        /\ probed' = IF machine[iddd].class = "absent" THEN Ones.value ELSE bar[iddd][5].value
    BY DEF ProbeAhci, fixed, hardware
  <1>2. \A f \in Ids : Behind(f)' <=> Behind(f)
    BY <1>1, IdParts DEF Behind
  <1>3. Listed' /\ LastSeen'
    BY <1>1, <1>2, Kept DEF FoundInv
  <1>4. UNCHANGED <<Found, Seen("ahci")>>
    BY <1>1 DEF Found, Seen, Visible
  <1>5. Probed'
    <2>1. bar = Found
      BY <1>1 DEF FoundInv, Sized
    <2>2. iddd \in Seen("ahci") => machine[iddd].class # "absent"
      BY DEF Seen
    <2> QED BY <1>1, <1>4, <2>1, <2>2 DEF Probed
  <1>6. Bound' /\ Counted' /\ AtController' /\ Sized'
    BY <1>1, <1>4, ScanAssumption DEF FoundInv, Bound, Counted, AtController, Sized, Starting
  <1> QED BY <1>3, <1>5, <1>6 DEF FoundInv

LEMMA FoundStep == FoundInv /\ [BusNext]_busVars => FoundInv'
  <1> SUFFICES ASSUME FoundInv, [BusNext]_busVars PROVE FoundInv'
    OBVIOUS
  <1>1. OursInv'
    BY OursStep DEF FoundInv
  <1>2. CASE Scan
    <2>1. ReadHeader \/ Visit \/ NextSlot \/ SizeBar \/ RestoreBar \/ ProbeAhci
      BY <1>2 DEF Scan
    <2> QED BY <1>1, <2>1, FoundHeader, FoundVisit, FoundSlot, FoundSize, FoundRestore, FoundProbe
  <1>3. CASE Register
    BY <1>1, <1>3, FoundRegister
  <1>4. CASE Reset \/ SeeReset \/ SeeHalted \/ ReadOwner \/ SeeHandedOver \/ SetLists \/ Start
    <2>1. /\ UNCHANGED <<machine, bar, slot, func, funcCount, index, address, iddd, controllers, probed>>
          /\ {pc, pc'} \subseteq Starting \ {"address", "restore"}
      BY <1>4
      DEF Reset, SeeReset, SeeHalted, ReadOwner, SeeHandedOver, SetLists, Start, Starting, fixed,
          hardware, scan
    <2> QED BY <1>1, <2>1, StartMoves DEF FoundInv
  <1>5. CASE External \/ UNCHANGED busVars
    <2>1. UNCHANGED <<machine, bar, pc, slot, func, funcCount, index, address, iddd, controllers, probed>>
      BY <1>5
      DEF External, HcResets, HcFollows, FirmwareRuns, FirmwareReleases, software, busVars, fixed,
          hardware, scan
    <2> QED BY <1>1, <2>1, StartMoves DEF FoundInv
  <1> QED BY <1>2, <1>3, <1>4, <1>5 DEF BusNext, InitEhci

(* When the scan is done the list has every EHCI controller with registers  *)
(* in memory once, the AHCI probe was given the last AHCI controller there  *)
(* is, and every base address register is as it was found.                  *)
THEOREM AllFoundHolds == BusSpec => []AllFound
  <1>1. FoundInv => AllFound
    <2> SUFFICES ASSUME FoundInv, pc = "done" PROVE AllFound
      BY DEF AllFound
    <2>1. \A f \in Ids : Behind(f)
      BY IdParts DEF FoundInv, Bound, Behind
    <2>2. ToSet(controllers) = Wanted /\ Cardinality(ToSet(controllers)) = Len(controllers)
      BY <2>1 DEF FoundInv, Listed, Wanted, Seen
    <2>3. bar = [f \in Ids |-> machine[f].bars]
      BY DEF FoundInv, Sized, Found
    <2>4. ASSUME NEW f \in Seen("ahci"), \A g \in Seen("ahci") : NotBefore(f, g)
          PROVE  probed = machine[f].bars[5].value
      <3>1. f \in Ids /\ iddd \in Seen("ahci") /\ iddd \in Ids
        BY <2>1 DEF FoundInv, LastSeen, Seen
      <3>2. NotBefore(f, iddd) /\ NotBefore(iddd, f)
        BY <2>1, <2>4, <3>1 DEF FoundInv, LastSeen
      <3>3. f = iddd
        BY <3>1, <3>2, IdParts DEF NotBefore
      <3> QED BY <3>1, <3>3 DEF FoundInv, Probed, Found
    <2> QED BY <2>2, <2>3, <2>4 DEF AllFound, Wanted
  <1> QED BY <1>1, FoundInit, FoundStep, PTL DEF BusSpec
=============================================================================
