-------------------------------- MODULE Ehci --------------------------------
(***************************************************************************)
(* Transfers of the EHCI driver (usb/ehci.cpp): the pools of transfer      *)
(* descriptors and queue heads, the asynchronous schedule they are linked  *)
(* into, the polling wait with its timeout, and the host controller that   *)
(* runs the schedule at the same time.                                     *)
(*                                                                         *)
(* The driver is single threaded and handles one transfer at a time.  What *)
(* the controller can see is written in the order of the code; each read   *)
(* of a volatile field of the queue head is a step.  The controller and    *)
(* the devices are external: a device may answer, stall or never answer.   *)
(*                                                                         *)
(* No caller passes w = 0, so nothing is ever put on the periodic schedule.*)
(***************************************************************************)
EXTENDS Integers, FiniteSets, FiniteSetsExt, SequencesExt

CONSTANTS
  MaxQh,      \* queue heads left in the pool after the two schedule heads
  MaxTd,      \* MAX_TD
  Endps,      \* bulk endpoints
  Packets,    \* numbers of data packets a control transfer may need
  Timeout     \* "timeout" of EhciWaitForQH, in ticks of time1024

ASSUME EhciAssumption ==
  /\ MaxQh \in Nat \ {0} /\ MaxTd \in Nat \ {0} /\ Timeout \in Nat \ {0}
  /\ Packets \subseteq Nat /\ IsFiniteSet(Endps)

TD == 1 .. MaxTd
QH == 1 .. MaxQh
AsyncHead == 0              \* hc->asyncQH
Terminate == 0         \* PTR_TERMINATE
Control == "control"   \* endpoint 0: t->endp is null
None == "none"
ASSUME NamesAssumption == {Control, None} \cap Endps = {}

VARIABLES
  tdActive,   \* descriptors taken from the pool
  tdNext,     \* EhciTD.tdNext and link
  tdState,    \* what the controller made of each descriptor
  qhActive,   \* queue heads taken from the pool
  qhlp,       \* horizontal link of each queue head, as the controller follows it
  chain,      \* EhciQH.tdHead
  nextLink, curLink, token,   \* overlay of each queue head
  endpOf,     \* endpoint and data toggle programmed into each queue head
  list,       \* the schedule as the driver links it (qhLink), without its head
  toggle,     \* UsbEndpoint.toggle
  pc, cur,    \* the driver: where it is, and its queue head
  complete, success, endp,    \* the UsbTransfer of the current or last call
  elapsed,    \* time1024 - start_time
  hcAt,       \* external: queue head the controller visits next
  devToggle,  \* external: the toggle each device expects
  recycled,   \* ghost: cur was reused while the controller was about to visit it
  starved,    \* ghost: a call gave up for want of descriptors
  upset       \* ghost: endpoints that stalled, had a transfer given up or recycled

pool == <<tdActive, tdNext, qhActive>>
schedule == <<qhlp, list>>
overlay == <<nextLink, curLink, token, tdState>>
transfer == <<complete, success, endp, elapsed>>
setup == <<chain, endpOf, recycled>>
vars == <<pool, schedule, overlay, transfer, setup, toggle, pc, cur, hcAt, devToggle,
          starved, upset>>

Idle == [active |-> FALSE, halted |-> FALSE]

-----------------------------------------------------------------------------
(* ehci_alloc_TD and ehci_alloc_QH take the first entry that is free. *)
FreeTds == TD \ tdActive
FirstTds(n) == {td \in FreeTds : Cardinality({x \in FreeTds : x < td}) < n}

(* A faulty form: the link of the last descriptor is not reset. *)
LinkedStale(tds) == [td \in TD |-> IF td \in tds /\ \E x \in tds : x > td
                                   THEN Min({x \in tds : x > td}) ELSE tdNext[td]]

(* Descriptors in the order of their allocation, each linked to the next. *)
Linked(tds) == [td \in TD |-> IF td \in tds
                              THEN IF \E x \in tds : x > td
                                   THEN Min({x \in tds : x > td}) ELSE Terminate
                              ELSE tdNext[td]]

(* The call returns early: descriptors already taken are not given back. *)
Starve(n, done) ==
  /\ Cardinality(FreeTds) < n
  /\ tdActive' = TD
  /\ complete' = done /\ success' = FALSE
  /\ starved' = TRUE
  /\ UNCHANGED <<tdNext, qhActive, schedule, overlay, setup, endp, elapsed, toggle,
                 pc, cur, hcAt, devToggle, upset>>

(* Takes n descriptors and a queue head, fills them in up to qh->token, or  *)
(* goes on with a null queue head if there is none.                         *)
Prepare(n, e) ==
  /\ Cardinality(FreeTds) >= n
  /\ LET tds == FirstTds(n)
     IN  /\ tdActive' = tdActive \cup tds
         /\ tdNext' = Linked(tds)
         /\ tdState' = [td \in TD |-> IF td \in tds THEN "ready" ELSE tdState[td]]
         /\ IF qhActive = QH
            THEN pc' = "wild" /\ UNCHANGED <<qhActive, chain, endpOf, nextLink, cur, recycled, upset>>
            ELSE LET q == Min(QH \ qhActive)
                 IN  /\ qhActive' = qhActive \cup {q}
                     /\ chain' = [chain EXCEPT ![q] = Min(tds)]
                     /\ nextLink' = [nextLink EXCEPT ![q] = Min(tds)]
                     /\ endpOf' = [endpOf EXCEPT
                          ![q] = <<e, IF e = Control THEN 0 ELSE toggle[e]>>]
                     /\ cur' = q
                     /\ recycled' = (hcAt = q)
                     /\ upset' = IF hcAt = q THEN upset \cup ({e} \cap Endps) ELSE upset
                     /\ pc' = "token"
  /\ complete' = FALSE /\ success' = FALSE /\ endp' = e /\ elapsed' = 0
  /\ UNCHANGED <<schedule, curLink, token, toggle, hcAt, devToggle, starved>>

(* ehci_device_control: setup, n data packets and status. *)
DeviceControl(n) ==
  /\ pc = "idle"
  /\ Starve(n + 2, FALSE) \/ Prepare(n + 2, Control)

(* ehci_dev_interface: one descriptor for one packet of a bulk endpoint. *)
DevInterface(e) ==
  /\ pc = "idle"
  /\ Starve(1, TRUE) \/ Prepare(1, e)

(* qh->token = 0 ends ehci_init_qh. *)
InitToken ==
  /\ pc = "token"
  /\ token' = [token EXCEPT ![cur] = Idle]
  /\ pc' = "insert"
  /\ UNCHANGED <<pool, schedule, nextLink, curLink, tdState, transfer, setup, toggle, cur,
                 hcAt, devToggle, starved, upset>>

(* ehci_insert_async_qh, at the end of the ring. *)
LastQh == IF list = <<>> THEN AsyncHead ELSE Last(list)
InsertAsyncQh ==
  /\ pc = "insert"
  /\ qhlp' = [qhlp EXCEPT ![cur] = AsyncHead, ![LastQh] = cur]
  /\ list' = Append(list, cur)
  /\ pc' = "wait"
  /\ UNCHANGED <<pool, overlay, transfer, setup, toggle, cur, hcAt, devToggle, starved, upset>>

driverFixed == <<pool, schedule, overlay, setup, toggle, cur, hcAt, devToggle, starved>>

(* A faulty form: without the timeout. *)
WaitTestForever ==
  /\ pc = "wait"
  /\ pc' = IF ~complete THEN "halted" ELSE "leave"
  /\ UNCHANGED <<driverFixed, transfer, upset>>

(* EhciWaitForQH: the loop condition. *)
WaitTest ==
  /\ pc = "wait"
  /\ pc' = IF ~complete /\ elapsed < Timeout + 1 THEN "halted" ELSE "leave"
  /\ UNCHANGED <<driverFixed, transfer, upset>>

(* ehci_process_qh reads the queue head three times. *)
ReadHalted ==
  /\ pc = "halted"
  /\ IF token[cur].halted
     THEN complete' = TRUE /\ success' = FALSE /\ pc' = "retire"
     ELSE pc' = "link" /\ UNCHANGED <<complete, success>>
  /\ UNCHANGED <<driverFixed, endp, elapsed, upset>>

(* A faulty form: the transfer counts as done after any descriptor. *)
ReadLinkSkipped ==
  /\ pc = "link"
  /\ pc' = "active"
  /\ UNCHANGED <<driverFixed, transfer, upset>>

ReadLink ==
  /\ pc = "link"
  /\ pc' = IF nextLink[cur] = Terminate THEN "active" ELSE "wait"
  /\ UNCHANGED <<driverFixed, transfer, upset>>

ReadActive ==
  /\ pc = "active"
  /\ IF ~token[cur].active
     THEN complete' = TRUE /\ success' = TRUE /\ pc' = "retire"
     ELSE pc' = "wait" /\ UNCHANGED <<complete, success>>
  /\ UNCHANGED <<driverFixed, endp, elapsed, upset>>

(* What is reached from td along the links f: the least set of descriptors  *)
(* that holds td and, with each descriptor, the one it is linked to.        *)
Reach(f, td) ==
  {x \in TD : \A S \in SUBSET TD :
     td \in S /\ (\A y \in S : f[y] # Terminate => f[y] \in S) => x \in S}

(* Descriptors linked from td on; a faulty form goes no further than td. *)
ChainHead(td) == {td}
ChainFrom(td) == Reach(tdNext, td)

(* ehci_remove_from_qh; a faulty form unlinks behind the head. *)
Place(q) == CHOOSE j \in DOMAIN list : list[j] = q
PrevIsHead(q) == AsyncHead
PrevQh(q) == IF Place(q) = 1 THEN AsyncHead ELSE list[Place(q) - 1]

(* The other data toggle; a faulty form forgets it. *)
FlipForgotten(t) == t
Flip(t) == 1 - t

(* ehci_free_QH. *)
FreeQh(q) == qhActive \ {q}

(* The end of ehci_process_qh for a transfer that is complete. *)
Retire ==
  /\ pc = "retire"
  /\ toggle' = IF success /\ endp # Control THEN [toggle EXCEPT ![endp] = Flip(@)] ELSE toggle
  /\ qhlp' = [qhlp EXCEPT ![PrevQh(cur)] = qhlp[cur]]
  /\ list' = RemoveAt(list, Place(cur))
  /\ tdActive' = tdActive \ ChainFrom(chain[cur])
  /\ qhActive' = FreeQh(cur)
  /\ pc' = "wait"
  /\ UNCHANGED <<tdNext, overlay, transfer, setup, cur, hcAt, devToggle, starved, upset>>

(* The rest of EhciWaitForQH: late is late, even for a completed transfer. *)
Leave ==
  /\ pc = "leave"
  /\ IF elapsed >= Timeout
     THEN complete' = TRUE /\ success' = FALSE /\ upset' = upset \cup ({endp} \cap Endps)
     ELSE UNCHANGED <<complete, success, upset>>
  /\ pc' = "idle" /\ elapsed' = 0
  /\ UNCHANGED <<driverFixed, endp>>

(* rtc_time; only the time since a call began matters. *)
Tick ==
  /\ pc \in {"wait", "halted", "link", "active", "retire", "leave"}
  /\ elapsed < Timeout + 1
  /\ elapsed' = elapsed + 1
  /\ UNCHANGED <<driverFixed, complete, success, endp, pc, upset>>

-----------------------------------------------------------------------------
(* External: the host controller and the devices. *)

hcFixed == <<pool, schedule, transfer, setup, toggle, pc, cur, starved>>

HcMove ==
  /\ hcAt' = qhlp[hcAt]
  /\ hcAt' # hcAt
  /\ UNCHANGED <<hcFixed, overlay, devToggle, upset>>

HcFetch ==
  /\ hcAt # AsyncHead
  /\ token[hcAt] = Idle /\ nextLink[hcAt] # Terminate
  /\ curLink' = [curLink EXCEPT ![hcAt] = nextLink[hcAt]]
  /\ nextLink' = [nextLink EXCEPT ![hcAt] = tdNext[nextLink[hcAt]]]
  /\ token' = [token EXCEPT ![hcAt] = [active |-> TRUE, halted |-> FALSE]]
  /\ UNCHANGED <<hcFixed, tdState, hcAt, devToggle, upset>>

(* A packet with the toggle the device expects moves the device on. *)
HcRetire ==
  /\ hcAt # AsyncHead /\ token[hcAt].active
  /\ token' = [token EXCEPT ![hcAt] = Idle]
  /\ tdState' = [tdState EXCEPT ![curLink[hcAt]] = "done"]
  /\ devToggle' = IF endpOf[hcAt][1] \in Endps /\ devToggle[endpOf[hcAt][1]] = endpOf[hcAt][2]
                  THEN [devToggle EXCEPT ![endpOf[hcAt][1]] = 1 - @] ELSE devToggle
  /\ UNCHANGED <<hcFixed, nextLink, curLink, hcAt, upset>>

HcHalt ==
  /\ hcAt # AsyncHead /\ token[hcAt].active
  /\ token' = [token EXCEPT ![hcAt] = [active |-> FALSE, halted |-> TRUE]]
  /\ tdState' = [tdState EXCEPT ![curLink[hcAt]] = "halted"]
  /\ upset' = upset \cup ({endpOf[hcAt][1]} \cap Endps)
  /\ UNCHANGED <<hcFixed, nextLink, curLink, hcAt, devToggle>>

-----------------------------------------------------------------------------
Init ==
  /\ tdActive = {} /\ tdNext = [td \in TD |-> Terminate]
  /\ tdState = [td \in TD |-> "ready"]
  /\ qhActive = {} /\ qhlp = [q \in {AsyncHead} \cup QH |-> AsyncHead]
  /\ chain = [q \in QH |-> Terminate]
  /\ nextLink = [q \in QH |-> Terminate] /\ curLink = [q \in QH |-> Terminate]
  /\ token = [q \in QH |-> Idle] /\ endpOf = [q \in QH |-> <<None, 0>>]
  /\ list = <<>>
  /\ toggle = [e \in Endps |-> 0] /\ devToggle = [e \in Endps |-> 0]
  /\ pc = "idle" /\ cur = AsyncHead
  /\ complete = FALSE /\ success = FALSE /\ endp = None /\ elapsed = 0
  /\ hcAt = AsyncHead /\ recycled = FALSE /\ starved = FALSE /\ upset = {}

Call == (\E n \in Packets : DeviceControl(n)) \/ (\E e \in Endps : DevInterface(e))
Driver == InitToken \/ InsertAsyncQh \/ WaitTest \/ ReadHalted \/ ReadLink \/ ReadActive
          \/ Retire \/ Leave
Controller == HcMove \/ HcFetch \/ HcRetire \/ HcHalt

Next == Call \/ Driver \/ Tick \/ Controller

(* The processor and the real-time clock run; the controller need not.      *)
Spec == Init /\ [][Next]_vars /\ WF_vars(Driver) /\ WF_vars(Tick)

-----------------------------------------------------------------------------
Pcs == {"idle", "token", "insert", "wait", "halted", "link", "active", "retire", "leave",
        "wild"}
Tokens == [active : BOOLEAN, halted : BOOLEAN]
Links == TD \cup {Terminate}

TypeOK ==
  /\ tdActive \subseteq TD /\ tdNext \in [TD -> Links]
  /\ tdState \in [TD -> {"ready", "done", "halted"}]
  /\ qhActive \subseteq QH /\ qhlp \in [{AsyncHead} \cup QH -> {AsyncHead} \cup QH]
  /\ chain \in [QH -> Links] /\ nextLink \in [QH -> Links] /\ curLink \in [QH -> Links]
  /\ token \in [QH -> Tokens] /\ endpOf \in [QH -> (Endps \cup {Control, None}) \X {0, 1}]
  /\ list \in Seq(QH)
  /\ toggle \in [Endps -> {0, 1}] /\ devToggle \in [Endps -> {0, 1}]
  /\ pc \in Pcs /\ cur \in {AsyncHead} \cup QH
  /\ complete \in BOOLEAN /\ success \in BOOLEAN
  /\ endp \in Endps \cup {Control, None} /\ elapsed \in 0 .. Timeout + 1
  /\ hcAt \in {AsyncHead} \cup QH /\ recycled \in BOOLEAN /\ starved \in BOOLEAN
  /\ upset \subseteq Endps

(* The ring the controller follows is the list the driver keeps: after any  *)
(* number of insertions, removals and abandoned transfers, the horizontal   *)
(* links visit the list in order and come back to the head                  *)
(* (ehci.cpp:123-153).                                                      *)
RingIsList ==
  LET ring == <<AsyncHead>> \o list
  IN  /\ TypeOK
      /\ \A i \in DOMAIN ring :
           qhlp[ring[i]] = IF i = Len(ring) THEN AsyncHead ELSE ring[i + 1]
      /\ IsInjective(list)
      /\ Range(list) \subseteq qhActive

(* No descriptor serves two transfers, and every descriptor of a transfer   *)
(* on the schedule is taken, so the controller never runs one that the pool *)
(* may hand out again - not even those of transfers given up long ago       *)
(* (ehci.cpp:76-119, 321-331).                                              *)
ChainsApart ==
  \A p \in Range(list) :
    /\ ChainFrom(chain[p]) \subseteq tdActive
    /\ \A q \in Range(list) \ {p} : ChainFrom(chain[p]) \cap ChainFrom(chain[q]) = {}

(* Between calls, what is missing from the pools is on the schedule, except *)
(* after a call that ran out of descriptors: those are gone for good        *)
(* (ehci.cpp:413-437).  And the driver uses a null queue head               *)
(* (ehci.cpp:443-448) only when every queue head of the pool is held by a   *)
(* transfer that timed out.                                                 *)
NothingLeaks ==
  /\ pc = "idle" =>
       /\ qhActive = Range(list)
       /\ ~starved => tdActive = UNION {ChainFrom(chain[q]) : q \in Range(list)}
  /\ pc = "wild" => Range(list) = QH

(* A transfer reported as successful has no descriptor left to run, and at  *)
(* most its last one stalled: between the reads of qh->token at             *)
(* ehci.cpp:276 and :283 the controller may stall the last descriptor.      *)
SuccessIsSettled ==
  pc = "idle" /\ success /\ ~recycled =>
    /\ \A td \in ChainFrom(chain[cur]) : tdState[td] # "ready"
    /\ \A td \in ChainFrom(chain[cur]) : tdState[td] = "halted" => tdNext[td] = Terminate

(* Host and device agree on the data toggle of an endpoint between calls,   *)
(* unless a transfer on it stalled, was given up, or was written into a     *)
(* queue head the controller still held (ehci.cpp:312-316).                 *)
TogglesAgree ==
  pc = "idle" => \A e \in Endps \ upset : toggle[e] = devToggle[e]

(* Every call comes back, whatever the device does, as long as a queue head *)
(* was there to wait for (ehci.cpp:337-356).                                *)
CallsReturn == (pc # "idle") ~> (pc \in {"idle", "wild"})
=============================================================================
