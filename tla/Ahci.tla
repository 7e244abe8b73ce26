--------------------------------- MODULE Ahci ---------------------------------
(***************************************************************************)
(* One port of an AHCI controller and its driver (storage/ahci.cpp): the   *)
(* probe of the port, with the move of its command list, then reads and    *)
(* writes one at a time.                                                   *)
(*                                                                         *)
(* The driver polls registers; every access to one is a step, and the      *)
(* controller works in between.  The controller reads a command from       *)
(* memory when it starts it, stops at an error until ST is cleared, and    *)
(* moves data as long as both the command and its PRDT ask for more.       *)
(***************************************************************************)
EXTENDS Integers, FiniteSets

CONSTANTS
  NcsValues,  \* what CAP.NCS may be: the number of slots less one, in five bits
  Counts,     \* numbers of sectors that callers ask for
  MaxSpin,    \* how often the driver looks at a busy port
  MaxCalls    \* bound: calls, the two of the probe included

ASSUME AhciAssumption ==
  /\ NcsValues \subseteq 0 .. 31 /\ Counts \subseteq 1 .. 128
  /\ MaxSpin \in Nat \ {0} /\ MaxCalls \in Nat

VARIABLES
  ncs,                     \* CAP.NCS
  st, fre, cr, fr, clb,    \* PxCMD: start and running bits; whose command list it is
  ci, tfes,                \* PxCI as a set; the error bit of PxIS
  busy, run, halted,       \* external: BSY or DRQ, the command being run, stopped at an error
  table,                   \* command headers and tables, by slot
  pc, op, asked, slot, spin, result, calls,   \* the driver's call
  moved, failed            \* ghost: sectors moved by this call's command; it met an error

engine == <<ncs, st, fre, cr, fr, clb>>
controller == <<busy, run, halted>>
call == <<op, asked, slot, spin, result, calls>>
ghosts == <<moved, failed>>
vars == <<engine, ci, tfes, controller, table, pc, call, ghosts>>

Slots == 0 .. ncs
NoSlot == -1
PerPrdt == 16     \* sectors that an entry of the PRDT describes

(* A command: entries of the PRDT, sectors of the last one, sectors asked for. *)
NoCommand == [op |-> "none", entries |-> 0, last |-> 0, count |-> 0]

Init ==
  /\ ncs \in NcsValues
  /\ st \in BOOLEAN /\ fre \in BOOLEAN /\ cr \in {FALSE, st} /\ fr \in {FALSE, fre}
  /\ clb = "firmware" /\ ci = {} /\ tfes \in BOOLEAN
  /\ busy \in BOOLEAN /\ run = NoSlot /\ halted = FALSE
  /\ table = [s \in Slots |-> NoCommand]
  /\ pc = "clear st" /\ op = "none" /\ asked = 0 /\ slot = NoSlot /\ spin = 0
  /\ result = "none" /\ calls = 0
  /\ moved = 0 /\ failed = FALSE

Goto(p) == pc' = p

-----------------------------------------------------------------------------
(* port_rebase: stop_cmd, the new command list, start_cmd.                  *)
ClearSt ==
  /\ pc = "clear st" /\ Goto("clear fre") /\ st' = FALSE
  /\ UNCHANGED <<ncs, fre, cr, fr, clb, ci, tfes, controller, table, call, ghosts>>

ClearFre ==
  /\ pc = "clear fre" /\ Goto("fr") /\ fre' = FALSE
  /\ UNCHANGED <<ncs, st, cr, fr, clb, ci, tfes, controller, table, call, ghosts>>

(* A faulty form: only the receipt of FISes is waited for.                  *)
SeeFrOnly ==
  /\ pc = "fr" /\ Goto(IF fr THEN "fr" ELSE "rebase")
  /\ UNCHANGED <<engine, ci, tfes, controller, table, call, ghosts>>

SeeFr ==
  /\ pc = "fr" /\ Goto(IF fr THEN "fr" ELSE "cr")
  /\ UNCHANGED <<engine, ci, tfes, controller, table, call, ghosts>>

SeeCr ==
  /\ pc = "cr" /\ Goto(IF cr THEN "fr" ELSE "rebase")
  /\ UNCHANGED <<engine, ci, tfes, controller, table, call, ghosts>>

Rebase ==
  /\ pc = "rebase" /\ Goto("start")
  /\ clb' = "driver" /\ table' = [s \in Slots |-> NoCommand]
  /\ UNCHANGED <<ncs, st, fre, cr, fr, ci, tfes, controller, call, ghosts>>

(* start_cmd waits for CR again; the order of the two bits is the code's.   *)
SetFre ==
  /\ pc = "start" /\ ~cr /\ Goto("set st") /\ fre' = TRUE
  /\ UNCHANGED <<ncs, st, cr, fr, clb, ci, tfes, controller, table, call, ghosts>>

SetSt ==
  /\ pc = "set st" /\ Goto("idle") /\ st' = TRUE
  /\ UNCHANGED <<ncs, fre, cr, fr, clb, ci, tfes, controller, table, call, ghosts>>

PortRebase == ClearSt \/ ClearFre \/ SeeFr \/ SeeCr \/ Rebase \/ SetFre \/ SetSt

-----------------------------------------------------------------------------
(* ahci_probe_port: a read, then an identification whose result is not      *)
(* looked at; afterwards the drive is read and written.                     *)
Allowed(o, n) ==
  /\ calls < MaxCalls
  /\ CASE calls = 0 -> o = "read" /\ n = 16
       [] calls = 1 -> o = "identify" /\ n = 1 /\ result = "done"
       [] OTHER -> o \in {"read", "write"} /\ n \in Counts

(* Begin clears PxIS.                                                       *)
Begin(o, n) ==
  /\ pc = "idle" /\ Allowed(o, n) /\ Goto("find")
  /\ op' = o /\ asked' = n /\ result' = "none" /\ spin' = 0 /\ slot' = NoSlot
  /\ calls' = calls + 1
  /\ tfes' = FALSE /\ moved' = 0 /\ failed' = FALSE
  /\ UNCHANGED <<engine, ci, controller, table>>

Return(r) == Goto("idle") /\ result' = r

(* A faulty form: PxSACT alone is looked at. *)
FreeSlotsSact == 0 .. (ncs % 16) - 1

(* find_cmdslot takes four of the five bits of CAP.NCS for the number of    *)
(* slots, and the first that is free.                                       *)
FreeSlots == {s \in 0 .. (ncs % 16) - 1 : s \notin ci}

FindSlot ==
  /\ pc = "find" /\ FreeSlots # {}
  /\ slot' = CHOOSE s \in FreeSlots : \A t \in FreeSlots : s <= t
  /\ Goto("build")
  /\ UNCHANGED <<engine, ci, tfes, controller, table, op, asked, spin, result, calls, ghosts>>

NoSlotFree ==
  /\ pc = "find" /\ FreeSlots = {} /\ Return("failed")
  /\ UNCHANGED <<engine, ci, tfes, controller, table, op, asked, slot, spin, calls, ghosts>>

(* The entries of the PRDT are filled while count is reduced; what is left  *)
(* of it goes into the command.                                             *)
Entries(n) == (n - 1) \div PerPrdt + 1

(* A faulty form: nothing is left where the last entry is full.             *)
LeftFull(n) == n - PerPrdt * (n \div PerPrdt)

Left(n) == n - PerPrdt * (Entries(n) - 1)

Build ==
  /\ pc = "build" /\ Goto("spin")
  /\ table' = [table EXCEPT ![slot] = [op |-> op, entries |-> Entries(asked),
                                       last |-> Left(asked), count |-> Left(asked)]]
  /\ UNCHANGED <<engine, ci, tfes, controller, call, ghosts>>

(* The loop ends when the port is not busy or after MaxSpin looks, which is *)
(* a failure even if the port is ready by then.                             *)
Spin ==
  /\ pc = "spin"
  /\ \/ busy /\ spin < MaxSpin /\ spin' = spin + 1 /\ UNCHANGED <<pc, result>>
     \/ ~busy /\ spin < MaxSpin /\ Goto("issue") /\ UNCHANGED <<spin, result>>
     \/ spin = MaxSpin /\ Return("failed") /\ UNCHANGED spin
  /\ UNCHANGED <<engine, ci, tfes, controller, table, op, asked, slot, calls, ghosts>>

Issue ==
  /\ pc = "issue" /\ Goto("see ci") /\ ci' = ci \cup {slot}
  /\ UNCHANGED <<engine, tfes, controller, table, call, ghosts>>

SeeCi ==
  /\ pc = "see ci" /\ Goto(IF slot \in ci THEN "see is" ELSE "again")
  /\ UNCHANGED <<engine, ci, tfes, controller, table, call, ghosts>>

(* A faulty form: the loop is left only when the command is done.           *)
SeeIsBlind ==
  /\ pc = "see is" /\ Goto("see ci")
  /\ UNCHANGED <<engine, ci, tfes, controller, table, call, ghosts>>

SeeIs ==
  /\ pc = "see is"
  /\ \/ tfes /\ Return("failed")
     \/ ~tfes /\ Goto("see ci") /\ UNCHANGED result
  /\ UNCHANGED <<engine, ci, tfes, controller, table, op, asked, slot, spin, calls, ghosts>>

CheckAgain ==
  /\ pc = "again" /\ Return(IF tfes THEN "failed" ELSE "done")
  /\ UNCHANGED <<engine, ci, tfes, controller, table, op, asked, slot, spin, calls, ghosts>>

Driver ==
  \/ PortRebase
  \/ \E o \in {"read", "write", "identify"}, n \in Counts \cup {1, 16} : Begin(o, n)
  \/ FindSlot \/ NoSlotFree \/ Build \/ Spin \/ Issue \/ SeeCi \/ SeeIs \/ CheckAgain

-----------------------------------------------------------------------------
(* External: the controller and the disk.                                   *)
Untouched == UNCHANGED <<ncs, st, fre, clb, table, pc, call>>

(* CR follows ST, and PxCI is cleared with it; FR follows FRE.              *)
HbaFollows ==
  /\ \/ /\ cr # st /\ cr' = st /\ UNCHANGED fr
        /\ ci' = IF st THEN ci ELSE {}
        /\ run' = NoSlot /\ halted' = FALSE
     \/ fr # fre /\ fr' = fre /\ UNCHANGED <<cr, ci, run, halted>>
  /\ UNCHANGED <<tfes, busy, ghosts>> /\ Untouched

DiskReady ==
  /\ busy /\ run = NoSlot /\ ~halted /\ busy' = FALSE
  /\ UNCHANGED <<cr, fr, ci, tfes, run, halted, ghosts>> /\ Untouched

HbaFetch(s) ==
  /\ cr /\ ~halted /\ run = NoSlot /\ ~busy /\ s \in ci
  /\ run' = s /\ busy' = TRUE
  /\ UNCHANGED <<cr, fr, ci, tfes, halted, ghosts>> /\ Untouched

(* The command runs to its end: as many sectors as it and its PRDT ask for. *)
Asked(c) == LET described == PerPrdt * (c.entries - 1) + c.last
            IN  IF c.count < described THEN c.count ELSE described
HbaDone ==
  /\ run # NoSlot /\ run' = NoSlot /\ busy' = FALSE
  /\ ci' = ci \ {run}
  /\ moved' = IF run = slot THEN Asked(table[run]) ELSE moved
  /\ UNCHANGED <<cr, fr, tfes, halted, failed>> /\ Untouched

(* It ends in an error, of the task file or another one.                    *)
HbaHalts ==
  /\ run # NoSlot /\ run' = NoSlot /\ halted' = TRUE
  /\ tfes' \in {tfes, TRUE} /\ busy' \in (IF tfes' THEN {FALSE} ELSE BOOLEAN)
  /\ failed' = (failed \/ run = slot)
  /\ UNCHANGED <<cr, fr, ci, moved>> /\ Untouched

Controller == HbaFollows \/ DiskReady \/ HbaDone \/ HbaHalts \/ \E s \in ci : HbaFetch(s)

Next == Driver \/ Controller
Spec == Init /\ [][Next]_vars /\ WF_vars(Driver)

-----------------------------------------------------------------------------
(* Types: the driver never uses a slot that the controller has not got, and *)
(* a returned call has a result.                                            *)
TypeOK ==
  /\ {st, fre, cr, fr, tfes, busy, halted, failed} \subseteq BOOLEAN
  /\ ncs \in NcsValues /\ clb \in {"firmware", "driver"} /\ ci \subseteq Slots /\ run \in ci \cup {NoSlot}
  /\ \A s \in Slots : table[s].entries \in 0 .. 8 /\ table[s].last \in 0 .. PerPrdt
  /\ slot \in Slots \cup {NoSlot} /\ spin \in 0 .. MaxSpin /\ calls \in 0 .. MaxCalls
  /\ result \in {"none", "done", "failed"}
  /\ pc = "idle" /\ calls > 0 => result # "none"
  /\ moved \in Nat

(* The command list moves only while the controller uses neither list, in   *)
(* whatever state the firmware left the port (ahci.cpp:59-76).              *)
ListMovesAtRest == [][clb' # clb => ~cr /\ ~fr]_vars

(* The header and the table of a command that was issued do not change      *)
(* while it is pending, though a command that failed stays pending and      *)
(* other calls follow it (ahci.cpp:325-337).                                *)
PendingUntouched == [][\A s \in ci \cap ci' : table'[s] = table[s]]_vars

(* What a result tells the caller.  True: what was asked for was moved, up  *)
(* to one entry of the PRDT, for the completion seen was that of the call's *)
(* own command, errors between two looks included (ahci.cpp:146-170).       *)
(* False, without an error of its own command: nothing was left behind that *)
(* the disk might still do (ahci.cpp:85-144).                               *)
ResultsMean ==
  /\ TypeOK
  /\ result = "done" /\ asked <= PerPrdt => moved = asked
  /\ result = "failed" /\ ~failed => moved = 0 /\ slot \notin ci

(* A call comes back unless it waits for the controller: to stop, or to end *)
(* a command that is neither done nor in error (ahci.cpp:68-75, 149-161).   *)
WaitsForController ==
  \/ pc \in {"fr", "cr", "start"} /\ (cr \/ fr)
  \/ pc \in {"see ci", "see is"} /\ slot \in ci /\ ~tfes
CallsReturn == pc # "idle" ~> pc = "idle" \/ WaitsForController

(* "8K u8s (16 sectors) per PRDT" (ahci.cpp:101), as many entries as the    *)
(* count needs: a call that returns true has moved all sectors.             *)
AllSectorsMoved == result = "done" => moved = asked
=============================================================================
