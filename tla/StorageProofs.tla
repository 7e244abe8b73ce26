--------------------------- MODULE StorageProofs ----------------------------
(***************************************************************************)
(* Proofs about the storage drivers.                                       *)
(*                                                                         *)
(* Ahci, for any number of slots and any state in which the firmware left  *)
(* the port: the command list moves only while the controller is at rest,  *)
(* a pending command is left alone, and the result of a call is that of    *)
(* its own command.                                                        *)
(*                                                                         *)
(* Drives with the block cache under it, for any number of disks, drives,  *)
(* names and calls, and any bounds of la_val.  The two specifications      *)
(* share no state.                                                         *)
(***************************************************************************)
EXTENDS Ahci, Drives, WellFoundedInduction, FiniteSetTheorems, TLAPS

Rebasing == {"clear st", "clear fre", "fr", "cr", "rebase", "start", "set st"}

(* What each wait of stop_cmd has established, and that it stays so: with   *)
(* ST and FRE clear the controller can only stop.                           *)
StopInv ==
  /\ st \in BOOLEAN /\ fre \in BOOLEAN /\ cr \in BOOLEAN /\ fr \in BOOLEAN
  /\ pc \in {"clear fre", "fr", "cr", "rebase"} => ~st
  /\ pc \in {"fr", "cr", "rebase"} => ~fre
  /\ pc \in {"cr", "rebase"} => ~fr
  /\ pc = "rebase" => ~cr

(* Nothing is pending before the first call, and the slot of a call is free *)
(* until the call issues its command.                                       *)
Commands == [op : {"none", "read", "write", "identify"}, entries : Int, last : Int, count : Int]
SlotInv ==
  /\ ncs \in 0 .. 31 /\ asked \in 0 .. 128 /\ op \in {"none", "read", "write", "identify"}
  /\ table \in [Slots -> Commands] /\ ci \subseteq Slots
  /\ pc \in Rebasing => ci = {}
  /\ pc \in {"build", "spin", "issue"} => slot \in Slots \ ci

(* find_cmdslot returns a free slot that the controller has. *)
LEMMA SlotFound ==
  ASSUME ncs \in 0 .. 31, FreeSlots # {}
  PROVE  (CHOOSE s \in FreeSlots : \A t \in FreeSlots : s <= t) \in Slots \ ci
  <1>1. FreeSlots \subseteq Slots \ ci
    BY DEF FreeSlots, Slots
  <1>2. FreeSlots \subseteq Nat
    BY <1>1 DEF FreeSlots
  <1>3. PICK x \in FreeSlots : \A y \in FreeSlots : ~(<<y, x>> \in OpToRel(<, Nat))
    BY <1>2, WFMin, NatLessThanWellFounded, Zenon
  <1>4. \A y \in FreeSlots : ~(y < x)
    <2> TAKE y \in FreeSlots
    <2>1. <<y, x>> \in Nat \X Nat
      BY <1>2
    <2>2. ~(<<y, x>> \in OpToRel(<, Nat))
      BY <1>3
    <2> QED BY <2>1, <2>2 DEF OpToRel
  <1>5. \A y \in FreeSlots : x <= y
    BY <1>2, <1>4
  <1> QED BY <1>1, <1>5

(* The state the firmware left. *)
LEMMA AhciInit == Init => StopInv /\ SlotInv
  <1> SUFFICES ASSUME Init PROVE StopInv /\ SlotInv
    OBVIOUS
  <1>1. cr \in BOOLEAN /\ fr \in BOOLEAN
    <2>1. st \in BOOLEAN /\ fre \in BOOLEAN /\ cr \in {FALSE, st} /\ fr \in {FALSE, fre}
      BY DEF Init
    <2> QED BY <2>1, Zenon
  <1>2. StopInv
    BY <1>1 DEF Init, StopInv
  <1>3. NoCommand \in Commands
    BY DEF NoCommand, Commands
  <1>4. table \in [Slots -> Commands]
    <2>1. table = [s \in Slots |-> NoCommand]
      BY DEF Init
    <2> QED BY <1>3, <2>1
  <1>5. ncs \in 0 .. 31
    BY AhciAssumption DEF Init
  <1>6. asked = 0 /\ calls = 0
    BY DEF Init
  <1>7. asked \in 0 .. 128
    BY <1>6
  <1>8. ci = {} /\ op = "none" /\ pc = "clear st"
    BY DEF Init
  <1>9. SlotInv
    <2>1. op \in {"none", "read", "write", "identify"}
      BY <1>8
    <2>2. ci \subseteq Slots /\ (pc \in Rebasing => ci = {})
      BY <1>8
    <2>3. pc \in {"build", "spin", "issue"} => slot \in Slots \ ci
      BY <1>8
    <2> QED BY <1>4, <1>5, <2>1, <2>2, <2>3, <1>7 DEF SlotInv
  <1> QED BY <1>2, <1>9

(* What Build writes is a command. *)
LEMMA Built ==
  ASSUME asked \in 0 .. 128, op \in {"none", "read", "write", "identify"}
  PROVE  [op |-> op, entries |-> Entries(asked), last |-> Left(asked), count |-> Left(asked)]
           \in Commands
  <1>1. Entries(asked) \in Int /\ Left(asked) \in Int
    BY DEF Entries, Left, PerPrdt
  <1> QED BY <1>1 DEF Commands

(* One step of the driver or the controller keeps what stop_cmd waited for. *)
LEMMA StopStep == StopInv /\ [Next]_vars => StopInv'
  <1> SUFFICES ASSUME StopInv, [Next]_vars PROVE StopInv'
    OBVIOUS
  <1> USE DEF StopInv, engine, controller, call, ghosts, Goto, Return, Untouched
  <1>1. CASE ClearSt
    BY <1>1 DEF ClearSt
  <1>2. CASE ClearFre
    BY <1>2 DEF ClearFre
  <1>3. CASE SeeFr
    BY <1>3 DEF SeeFr
  <1>4. CASE SeeCr
    BY <1>4 DEF SeeCr
  <1>5. CASE Rebase
    BY <1>5 DEF Rebase
  <1>6. CASE SetFre
    BY <1>6 DEF SetFre
  <1>7. CASE SetSt
    BY <1>7 DEF SetSt
  <1>8. CASE FindSlot
    BY <1>8 DEF FindSlot
  <1>9. CASE NoSlotFree
    BY <1>9 DEF NoSlotFree
  <1>10. CASE Build
    BY <1>10 DEF Build
  <1>11. CASE Spin
    BY <1>11 DEF Spin
  <1>12. CASE Issue
    BY <1>12 DEF Issue
  <1>13. CASE SeeCi
    BY <1>13 DEF SeeCi
  <1>14. CASE SeeIs
    BY <1>14 DEF SeeIs
  <1>15. CASE CheckAgain
    BY <1>15 DEF CheckAgain
  <1>16. CASE HbaFollows
    BY <1>16 DEF HbaFollows
  <1>17. CASE DiskReady
    BY <1>17 DEF DiskReady
  <1>18. CASE HbaDone
    BY <1>18 DEF HbaDone
  <1>19. CASE HbaHalts
    BY <1>19 DEF HbaHalts
  <1>20. ASSUME NEW o \in {"read", "write", "identify"}, NEW n \in Counts \cup {1, 16}, Begin(o, n)
        PROVE  StopInv'
    BY <1>20, AhciAssumption DEF Begin
  <1>21. ASSUME NEW s \in ci, HbaFetch(s) PROVE StopInv'
    BY <1>21 DEF HbaFetch
  <1>22. CASE UNCHANGED vars
    BY <1>22 DEF vars
  <1> QED BY <1>1, <1>2, <1>3, <1>4, <1>5, <1>6, <1>7, <1>8, <1>9, <1>10, <1>11, <1>12, <1>13, <1>14, <1>15, <1>16, <1>17, <1>18, <1>19, <1>20, <1>21, <1>22
    DEF Next, Driver, PortRebase, Controller

(* Moving the command list empties every slot of it. *)
LEMMA RebaseStep == SlotInv /\ Rebase => SlotInv'
  <1> SUFFICES ASSUME SlotInv, Rebase PROVE SlotInv'
    OBVIOUS
  <1>1. NoCommand \in Commands
    BY DEF NoCommand, Commands
  <1>2. ncs' = ncs /\ ci' = ci /\ asked' = asked /\ op' = op /\ pc = "rebase" /\ pc' = "start"
    BY DEF Rebase, call, Goto
  <1>3. Slots' = Slots
    BY <1>2 DEF Slots
  <1>4. table' = [s \in Slots |-> NoCommand]
    BY DEF Rebase
  <1>5. table' \in [Slots' -> Commands]
    BY <1>1, <1>3, <1>4
  <1>6. Commands' = Commands /\ Rebasing' = Rebasing
    BY DEF Commands, Rebasing
  <1>7. ci = {}
    BY <1>2 DEF SlotInv, Rebasing
  <1> QED BY <1>2, <1>5, <1>6, <1>7 DEF SlotInv

(* One step keeps the slots apart. *)
LEMMA SlotStep == SlotInv /\ [Next]_vars => SlotInv'
  <1> SUFFICES ASSUME SlotInv, [Next]_vars PROVE SlotInv'
    OBVIOUS
  <1> USE DEF SlotInv, engine, controller, call, ghosts, Goto, Return, Untouched, Slots, Rebasing
  <1>1. CASE ClearSt
    BY <1>1 DEF ClearSt
  <1>2. CASE ClearFre
    BY <1>2 DEF ClearFre
  <1>3. CASE SeeFr
    BY <1>3 DEF SeeFr
  <1>4. CASE SeeCr
    BY <1>4 DEF SeeCr
  <1>5. CASE Rebase
    BY <1>5, RebaseStep
  <1>6. CASE SetFre
    BY <1>6 DEF SetFre
  <1>7. CASE SetSt
    BY <1>7 DEF SetSt
  <1>8. CASE FindSlot
    BY <1>8, SlotFound DEF FindSlot
  <1>9. CASE NoSlotFree
    BY <1>9 DEF NoSlotFree
  <1>10. CASE Build
    BY <1>10, Built DEF Build
  <1>11. CASE Spin
    BY <1>11 DEF Spin
  <1>12. CASE Issue
    BY <1>12 DEF Issue
  <1>13. CASE SeeCi
    BY <1>13 DEF SeeCi
  <1>14. CASE SeeIs
    BY <1>14 DEF SeeIs
  <1>15. CASE CheckAgain
    BY <1>15 DEF CheckAgain
  <1>16. CASE HbaFollows
    BY <1>16 DEF HbaFollows
  <1>17. CASE DiskReady
    BY <1>17 DEF DiskReady
  <1>18. CASE HbaDone
    BY <1>18 DEF HbaDone
  <1>19. CASE HbaHalts
    BY <1>19 DEF HbaHalts
  <1>20. ASSUME NEW o \in {"read", "write", "identify"}, NEW n \in Counts \cup {1, 16}, Begin(o, n)
        PROVE  SlotInv'
    BY <1>20, AhciAssumption DEF Begin
  <1>21. ASSUME NEW s \in ci, HbaFetch(s) PROVE SlotInv'
    BY <1>21 DEF HbaFetch
  <1>22. CASE UNCHANGED vars
    BY <1>22 DEF vars
  <1> QED BY <1>1, <1>2, <1>3, <1>4, <1>5, <1>6, <1>7, <1>8, <1>9, <1>10, <1>11, <1>12, <1>13, <1>14, <1>15, <1>16, <1>17, <1>18, <1>19, <1>20, <1>21, <1>22
    DEF Next, Driver, PortRebase, Controller

(* The command list moves only while the controller uses neither list, in   *)
(* whatever state the firmware left the port.                               *)
THEOREM ListMovesAtRestHolds == Spec => ListMovesAtRest
  <1>1. StopInv /\ [Next]_vars => [clb' # clb => ~cr /\ ~fr]_vars
    <2> SUFFICES ASSUME StopInv, Next, clb' # clb PROVE ~cr /\ ~fr
      OBVIOUS
    <2>1. Rebase
      BY DEF Next, Driver, PortRebase, Controller, ClearSt, ClearFre, SeeFr, SeeCr, SetFre, SetSt,
             Begin, FindSlot, NoSlotFree, Build, Spin, Issue, SeeCi, SeeIs, CheckAgain,
             HbaFollows, DiskReady, HbaDone, HbaHalts, HbaFetch, Untouched, engine
    <2> QED BY <2>1 DEF Rebase, StopInv
  <1>2. Init => StopInv
    BY AhciInit
  <1> QED BY <1>1, <1>2, StopStep, PTL DEF Spec, ListMovesAtRest

(* A call fills in a slot that is free, and the list moves before the first *)
(* command: a pending command is not changed, whatever failed before.       *)
THEOREM PendingUntouchedHolds == Spec => PendingUntouched
  <1>1. SlotInv /\ [Next]_vars => [\A s \in ci \cap ci' : table'[s] = table[s]]_vars
    <2> SUFFICES ASSUME SlotInv, Next, table' # table, NEW s \in ci \cap ci'
                 PROVE  table'[s] = table[s]
      OBVIOUS
    <2>1. Rebase \/ Build
      BY DEF Next, Driver, PortRebase, Controller, ClearSt, ClearFre, SeeFr, SeeCr, SetFre, SetSt,
             Begin, FindSlot, NoSlotFree, Spin, Issue, SeeCi, SeeIs, CheckAgain,
             HbaFollows, DiskReady, HbaDone, HbaHalts, HbaFetch, Untouched
    <2> QED BY <2>1 DEF Rebase, Build, SlotInv, Rebasing
  <1>2. Init => SlotInv
    BY AhciInit
  <1> QED BY <1>1, <1>2, SlotStep, PTL DEF Spec, PendingUntouched

-----------------------------------------------------------------------------
(* What the results of calls rest on.  Before, while and after a call waits *)
(* for its command:                                                         *)
Waiting == {"see ci", "see is", "again"}
Preparing == {"find", "build", "spin", "issue"}
Calling == Preparing \cup Waiting

TypesInv ==
  /\ pc \in Rebasing \cup Calling \cup {"idle"}
  /\ tfes \in BOOLEAN /\ busy \in BOOLEAN /\ halted \in BOOLEAN /\ failed \in BOOLEAN
  /\ ncs \in NcsValues /\ clb \in {"firmware", "driver"} /\ run \in ci \cup {NoSlot}
  /\ slot \in Slots \cup {NoSlot} /\ spin \in 0 .. MaxSpin /\ calls \in 0 .. MaxCalls
  /\ result \in {"none", "done", "failed"} /\ moved \in Nat
  /\ pc = "idle" /\ calls > 0 => result # "none"

(* Tables are empty or built, and built where a command is pending. *)
BuiltFor(c, n) == c.entries = Entries(n) /\ c.last = Left(n) /\ c.count = Left(n)
TablesInv ==
  /\ \A s \in Slots : table[s].entries \in 0 .. 8 /\ table[s].last \in 0 .. PerPrdt
  /\ \A s \in ci : \E n \in 1 .. 128 : BuiltFor(table[s], n)
  /\ pc \in Calling => asked \in 1 .. 128
  /\ pc \in Waiting \cup {"spin", "issue"} => slot \in Slots /\ BuiltFor(table[slot], asked)

(* A controller in error runs nothing, and it is only then that a command   *)
(* of an earlier call is pending.                                           *)
EngineInv ==
  /\ pc \notin Rebasing => st
  /\ pc \in Rebasing => ~halted /\ result = "none" /\ calls = 0
  /\ pc \in Calling /\ tfes => halted
  /\ halted => run = NoSlot
  /\ pc \notin Rebasing /\ (halted \/ run # NoSlot) => cr
  /\ ~halted /\ pc \notin {"see ci", "see is"} => ci = {}
  /\ ~halted => ci \subseteq {slot}

CallInv ==
  /\ pc \in Preparing => moved = 0 /\ slot \notin ci
  /\ pc \in Waiting => slot \in ci \/ moved = Asked(table[slot])
  /\ pc = "again" => slot \notin ci
  /\ pc \in Calling => result = "none" /\ (tfes => failed)
  /\ result = "done" => slot \in Slots \ ci /\ (asked <= PerPrdt => moved = asked)
  /\ result = "failed" /\ ~failed => moved = 0 /\ slot \notin ci

AhciInv == StopInv /\ SlotInv /\ TypesInv /\ TablesInv /\ EngineInv /\ CallInv

(* The entries that a count needs, and what the last of them describes. *)
LEMMA EntriesAndLeft ==
  ASSUME NEW n \in 1 .. 128
  PROVE  /\ Entries(n) \in 1 .. 8 /\ Left(n) \in 1 .. PerPrdt
         /\ n <= PerPrdt => Entries(n) = 1 /\ Left(n) = n
  BY DEF Entries, Left, PerPrdt

(* What a command moves is a number, and for up to one entry what was asked. *)
LEMMA AskedFits ==
  ASSUME NEW c, NEW n \in 1 .. 128, BuiltFor(c, n)
  PROVE  Asked(c) \in Nat /\ (n <= PerPrdt => Asked(c) = n)
  <1>1. /\ Entries(n) \in 1 .. 8 /\ Left(n) \in 1 .. PerPrdt
        /\ n <= PerPrdt => Entries(n) = 1 /\ Left(n) = n
    BY EntriesAndLeft
  <1>2. Asked(c) = IF Left(n) < PerPrdt * (Entries(n) - 1) + Left(n)
                   THEN Left(n) ELSE PerPrdt * (Entries(n) - 1) + Left(n)
    BY DEF Asked, BuiltFor
  <1> QED BY <1>1, <1>2 DEF PerPrdt

(* One step keeps the commands of earlier calls apart from errors. *)
LEMMA EngineStep ==
  ASSUME StopInv, SlotInv, TypesInv, EngineInv, [Next]_vars
  PROVE  EngineInv'
  <1> USE DEF StopInv, SlotInv, TypesInv, EngineInv, engine, controller, call, ghosts, Goto, Return, Untouched, Slots, Rebasing, Waiting, Preparing, Calling, NoSlot
  <1>1. CASE ClearSt
    BY <1>1 DEF ClearSt
  <1>2. CASE ClearFre
    BY <1>2 DEF ClearFre
  <1>3. CASE SeeFr
    BY <1>3 DEF SeeFr
  <1>4. CASE SeeCr
    BY <1>4 DEF SeeCr
  <1>5. CASE Rebase
    BY <1>5 DEF Rebase
  <1>6. CASE SetFre
    BY <1>6 DEF SetFre
  <1>7. CASE SetSt
    BY <1>7 DEF SetSt
  <1>8. CASE FindSlot
    BY <1>8 DEF FindSlot
  <1>9. CASE NoSlotFree
    BY <1>9 DEF NoSlotFree
  <1>10. CASE Build
    BY <1>10 DEF Build
  <1>11. CASE Spin
    BY <1>11 DEF Spin
  <1>12. CASE Issue
    BY <1>12 DEF Issue
  <1>13. CASE SeeCi
    BY <1>13 DEF SeeCi
  <1>14. CASE SeeIs
    BY <1>14 DEF SeeIs
  <1>15. CASE CheckAgain
    BY <1>15 DEF CheckAgain
  <1>16. CASE HbaFollows
    BY <1>16 DEF HbaFollows
  <1>17. CASE DiskReady
    BY <1>17 DEF DiskReady
  <1>18. CASE HbaDone
    BY <1>18 DEF HbaDone
  <1>19. CASE HbaHalts
    BY <1>19 DEF HbaHalts
  <1>20. ASSUME NEW o \in {"read", "write", "identify"}, NEW n \in Counts \cup {1, 16}, Begin(o, n)
        PROVE  EngineInv'
    BY <1>20, AhciAssumption DEF Begin
  <1>21. ASSUME NEW s \in ci, HbaFetch(s) PROVE EngineInv'
    BY <1>21 DEF HbaFetch
  <1>22. CASE UNCHANGED vars
    BY <1>22 DEF vars
  <1> HIDE DEF StopInv, SlotInv, TypesInv, EngineInv, engine, controller, call, ghosts
  <1> QED BY <1>1, <1>2, <1>3, <1>4, <1>5, <1>6, <1>7, <1>8, <1>9, <1>10, <1>11, <1>12, <1>13, <1>14, <1>15, <1>16, <1>17, <1>18, <1>19, <1>20, <1>21, <1>22
    DEF Next, Driver, PortRebase, Controller

(* One step keeps the types. *)
LEMMA TypesStep ==
  ASSUME StopInv, SlotInv, TypesInv, EngineInv, TablesInv, [Next]_vars
  PROVE  TypesInv'
  <1> USE DEF SlotInv, TypesInv, engine, controller, call, ghosts, Goto, Return, Untouched, Slots, Rebasing, Waiting, Preparing, Calling, NoSlot
  <1>1. CASE ClearSt
    BY <1>1 DEF ClearSt
  <1>2. CASE ClearFre
    BY <1>2 DEF ClearFre
  <1>3. CASE SeeFr
    BY <1>3 DEF SeeFr
  <1>4. CASE SeeCr
    BY <1>4 DEF SeeCr
  <1>5. CASE Rebase
    BY <1>5 DEF Rebase
  <1>6. CASE SetFre
    BY <1>6 DEF SetFre
  <1>7. CASE SetSt
    <2>1. calls = 0 /\ pc' = "idle"
      BY <1>7 DEF SetSt, EngineInv
    <2>2. UNCHANGED <<tfes, busy, halted, failed, ncs, clb, run, ci, slot, spin, calls, result, moved>>
      BY <1>7 DEF SetSt
    <2> HIDE DEF Slots, Calling, Rebasing
    <2>3. Slots' = Slots
      BY <2>2 DEF Slots
    <2> QED BY <2>1, <2>2, <2>3
  <1>8. CASE FindSlot
    BY <1>8, SlotFound DEF FindSlot
  <1>9. CASE NoSlotFree
    BY <1>9 DEF NoSlotFree
  <1>10. CASE Build
    BY <1>10 DEF Build
  <1>11. CASE Spin
    <2>1. spin' \in 0 .. MaxSpin
      BY <1>11, AhciAssumption DEF Spin
    <2>2. pc' \in {"spin", "issue", "idle"} /\ result' \in {"none", "done", "failed"}
      BY <1>11 DEF Spin
    <2>3. pc' = "idle" => result' = "failed"
      BY <1>11 DEF Spin
    <2> QED BY <1>11, <2>1, <2>2, <2>3 DEF Spin
  <1>12. CASE Issue
    BY <1>12 DEF Issue
  <1>13. CASE SeeCi
    BY <1>13 DEF SeeCi
  <1>14. CASE SeeIs
    BY <1>14 DEF SeeIs
  <1>15. CASE CheckAgain
    BY <1>15 DEF CheckAgain
  <1>16. CASE HbaFollows
    <2>1. halted' \in BOOLEAN /\ run' \in ci' \cup {NoSlot}
      BY <1>16 DEF HbaFollows
    <2>2. UNCHANGED <<pc, tfes, busy, failed, ncs, clb, slot, spin, calls, result, moved>>
      BY <1>16 DEF HbaFollows
    <2>3. Slots' = Slots
      BY <2>2
    <2> HIDE DEF SlotInv, TablesInv, Slots, Calling, Rebasing
    <2> QED BY <2>1, <2>2, <2>3
  <1>17. CASE DiskReady
    <2>1. UNCHANGED <<pc, tfes, halted, failed, ncs, clb, run, ci, slot, spin, calls, result, moved>>
      BY <1>17 DEF DiskReady
    <2>2. busy' \in BOOLEAN /\ Slots' = Slots
      BY <1>17, <2>1 DEF DiskReady
    <2> HIDE DEF SlotInv, TablesInv, Slots, Calling, Rebasing
    <2> QED BY <2>1, <2>2
  <1>18. CASE HbaDone
    <2>1. moved' \in Nat
      <3>1. run \in ci
        BY <1>18 DEF HbaDone
      <3>2. PICK n \in 1 .. 128 : BuiltFor(table[run], n)
        BY <3>1 DEF TablesInv
      <3> QED BY <1>18, <3>2, AskedFits DEF HbaDone
    <2>2. UNCHANGED <<pc, tfes, halted, failed, ncs, clb, slot, spin, calls, result>>
      BY <1>18 DEF HbaDone
    <2>3. busy' \in BOOLEAN /\ run' = NoSlot /\ Slots' = Slots
      BY <1>18, <2>2 DEF HbaDone
    <2> HIDE DEF SlotInv, TablesInv, Slots, Calling, Rebasing
    <2> QED BY <2>1, <2>2, <2>3
  <1>19. CASE HbaHalts
    BY <1>19 DEF HbaHalts
  <1>20. ASSUME NEW o \in {"read", "write", "identify"}, NEW n \in Counts \cup {1, 16}, Begin(o, n)
        PROVE  TypesInv'
    <2>1. calls' \in 0 .. MaxCalls
      BY <1>20, AhciAssumption DEF Begin, Allowed
    <2>2. 0 \in 0 .. MaxSpin
      <3>1. MaxSpin \in Nat
        BY AhciAssumption
      <3> QED BY ONLY <3>1
    <2> QED BY <1>20, <2>1, <2>2 DEF Begin
  <1>21. ASSUME NEW s \in ci, HbaFetch(s) PROVE TypesInv'
    <2>1. UNCHANGED <<pc, tfes, halted, failed, ncs, clb, ci, slot, spin, calls, result, moved>>
      BY <1>21 DEF HbaFetch
    <2>2. busy' \in BOOLEAN /\ run' \in ci' /\ Slots' = Slots
      BY <1>21, <2>1 DEF HbaFetch
    <2> HIDE DEF SlotInv, TablesInv, Slots, Calling, Rebasing
    <2> QED BY <2>1, <2>2
  <1>22. CASE UNCHANGED vars
    <2>1. UNCHANGED <<pc, tfes, busy, halted, failed, ncs, clb, run, ci, slot, spin, calls, result, moved>>
      BY <1>22 DEF vars
    <2> HIDE DEF Slots, Calling, Rebasing
    <2>2. Slots' = Slots
      BY <2>1 DEF Slots
    <2> QED BY <2>1, <2>2
  <1> HIDE DEF SlotInv, TypesInv, TablesInv, engine, controller, call, ghosts
  <1> QED BY <1>1, <1>2, <1>3, <1>4, <1>5, <1>6, <1>7, <1>8, <1>9, <1>10, <1>11, <1>12, <1>13, <1>14, <1>15, <1>16, <1>17, <1>18, <1>19, <1>20, <1>21, <1>22
    DEF Next, Driver, PortRebase, Controller

(* A call asks for up to 128 sectors. *)
LEMMA CountsFit == \A n \in Counts \cup {1, 16} : n \in 1 .. 128
  BY AhciAssumption

(* An empty command has entries and sectors of a command. *)
LEMMA NothingAsked == NoCommand.entries \in 0 .. 8 /\ NoCommand.last \in 0 .. PerPrdt
  BY DEF NoCommand, PerPrdt

(* ... and what the tables hold. *)
LEMMA TablesStep ==
  ASSUME SlotInv, TypesInv, TablesInv, [Next]_vars
  PROVE  TablesInv'
  <1> USE DEF SlotInv, TypesInv, TablesInv, BuiltFor, engine, controller, call, ghosts, Goto, Return, Untouched, Slots, Rebasing, Waiting, Preparing, Calling, NoSlot
  <1>1. CASE ClearSt
    BY <1>1 DEF ClearSt
  <1>2. CASE ClearFre
    BY <1>2 DEF ClearFre
  <1>3. CASE SeeFr
    BY <1>3 DEF SeeFr
  <1>4. CASE SeeCr
    BY <1>4 DEF SeeCr
  <1>5. CASE Rebase
    <2>1. pc' = "start" /\ ci' = {} /\ ncs' = ncs
      BY <1>5 DEF Rebase
    <2>2. table' = [s \in Slots |-> NoCommand]
      BY <1>5 DEF Rebase
    <2>3. \A s \in Slots' : table'[s].entries \in 0 .. 8 /\ table'[s].last \in 0 .. PerPrdt
      <3>1. Slots' = Slots
        BY <2>1
      <3> HIDE DEF Slots, SlotInv, TypesInv, TablesInv
      <3> QED BY ONLY <3>1, <2>2, NothingAsked
    <2>4. pc' \notin Calling /\ pc' \notin Waiting \cup {"spin", "issue"}
      BY <2>1
    <2> HIDE DEF SlotInv, TypesInv, BuiltFor, Slots, Calling, Waiting, Preparing, Rebasing
    <2> QED BY ONLY <2>1, <2>3, <2>4 DEF TablesInv
  <1>6. CASE SetFre
    BY <1>6 DEF SetFre
  <1>7. CASE SetSt
    BY <1>7 DEF SetSt
  <1>8. CASE FindSlot
    BY <1>8 DEF FindSlot
  <1>9. CASE NoSlotFree
    BY <1>9 DEF NoSlotFree
  <1>10. CASE Build
    <2> DEFINE c == [op |-> op, entries |-> Entries(asked), last |-> Left(asked), count |-> Left(asked)]
    <2>1. asked \in 1 .. 128 /\ slot \in Slots \ ci /\ pc = "build" /\ pc' = "spin"
      BY <1>10 DEF Build
    <2>2. BuiltFor(c, asked) /\ c.entries \in 0 .. 8 /\ c.last \in 0 .. PerPrdt
      <3>1. Entries(asked) \in 1 .. 8 /\ Left(asked) \in 1 .. PerPrdt
        BY <2>1, EntriesAndLeft
      <3>2. c.entries = Entries(asked) /\ c.last = Left(asked) /\ c.count = Left(asked)
        OBVIOUS
      <3>3. Entries(asked) \in 0 .. 8 /\ Left(asked) \in 0 .. PerPrdt
        BY ONLY <3>1 DEF PerPrdt
      <3> HIDE DEF c
      <3> QED BY <3>2, <3>3
    <2>3. table' = [table EXCEPT ![slot] = c] /\ UNCHANGED <<ncs, ci, asked, slot>>
      BY <1>10 DEF Build
    <2> HIDE DEF c
    <2>4. table'[slot] = c /\ \A s \in Slots \ {slot} : table'[s] = table[s]
      BY <2>1, <2>3
    <2>5. \A s \in Slots : table'[s].entries \in 0 .. 8 /\ table'[s].last \in 0 .. PerPrdt
      BY <2>2, <2>4
    <2>6. \A s \in ci : \E n \in 1 .. 128 : BuiltFor(table'[s], n)
      <3> SUFFICES ASSUME NEW s \in ci PROVE \E n \in 1 .. 128 : BuiltFor(table'[s], n)
        OBVIOUS
      <3>1. s \in Slots \ {slot}
        BY <2>1
      <3>2. table'[s] = table[s]
        BY <2>4, <3>1
      <3> QED BY <3>2, Zenon
    <2>7. BuiltFor(table'[slot], asked)
      BY <2>2, <2>4
    <2> QED BY <2>1, <2>3, <2>5, <2>6, <2>7
  <1>11. CASE Spin
    BY <1>11 DEF Spin
  <1>12. CASE Issue
    BY <1>12 DEF Issue
  <1>13. CASE SeeCi
    BY <1>13 DEF SeeCi
  <1>14. CASE SeeIs
    BY <1>14 DEF SeeIs
  <1>15. CASE CheckAgain
    BY <1>15 DEF CheckAgain
  <1>16. CASE HbaFollows
    BY <1>16 DEF HbaFollows
  <1>17. CASE DiskReady
    BY <1>17 DEF DiskReady
  <1>18. CASE HbaDone
    BY <1>18 DEF HbaDone
  <1>19. CASE HbaHalts
    BY <1>19 DEF HbaHalts
  <1>20. ASSUME NEW o \in {"read", "write", "identify"}, NEW n \in Counts \cup {1, 16}, Begin(o, n)
        PROVE  TablesInv'
    <2>1. pc' = "find" /\ asked' = n /\ UNCHANGED <<ncs, ci, table>>
      BY <1>20 DEF Begin
    <2>2. n \in 1 .. 128
      BY ONLY <1>20, CountsFit
    <2> HIDE DEF BuiltFor, SlotInv, TypesInv
    <2> QED BY <2>1, <2>2
  <1>21. ASSUME NEW s \in ci, HbaFetch(s) PROVE TablesInv'
    BY <1>21 DEF HbaFetch
  <1>22. CASE UNCHANGED vars
    BY <1>22 DEF vars
  <1> HIDE DEF SlotInv, TypesInv, TablesInv, BuiltFor, engine, controller, call, ghosts
  <1> QED BY <1>1, <1>2, <1>3, <1>4, <1>5, <1>6, <1>7, <1>8, <1>9, <1>10, <1>11, <1>12, <1>13, <1>14, <1>15, <1>16, <1>17, <1>18, <1>19, <1>20, <1>21, <1>22
    DEF Next, Driver, PortRebase, Controller

(* ... and what the results rest on. *)
LEMMA CallStep ==
  ASSUME AhciInv, [Next]_vars
  PROVE  CallInv'
  <1> USE DEF AhciInv, SlotInv, TypesInv, EngineInv, CallInv, engine, controller, call, ghosts, Goto, Return, Untouched, Slots, Rebasing, Waiting, Preparing, Calling, NoSlot
  <1>1. CASE ClearSt
    BY <1>1 DEF ClearSt
  <1>2. CASE ClearFre
    BY <1>2 DEF ClearFre
  <1>3. CASE SeeFr
    BY <1>3 DEF SeeFr
  <1>4. CASE SeeCr
    BY <1>4 DEF SeeCr
  <1>5. CASE Rebase
    BY <1>5 DEF Rebase
  <1>6. CASE SetFre
    BY <1>6 DEF SetFre
  <1>7. CASE SetSt
    BY <1>7 DEF SetSt
  <1>8. CASE FindSlot
    BY <1>8, SlotFound DEF FindSlot
  <1>9. CASE NoSlotFree
    BY <1>9 DEF NoSlotFree
  <1>10. CASE Build
    BY <1>10 DEF Build
  <1>11. CASE Spin
    BY <1>11 DEF Spin
  <1>12. CASE Issue
    BY <1>12 DEF Issue
  <1>13. CASE SeeCi
    BY <1>13 DEF SeeCi
  <1>14. CASE SeeIs
    BY <1>14 DEF SeeIs
  <1>15. CASE CheckAgain
    <2>1. slot \in Slots \ ci /\ moved = Asked(table[slot]) /\ BuiltFor(table[slot], asked) /\ asked \in 1 .. 128
      BY <1>15 DEF CheckAgain, TablesInv
    <2>2. asked <= PerPrdt => moved = asked
      BY <2>1, AskedFits
    <2>3. UNCHANGED <<ncs, ci, slot, asked, moved, failed, table, tfes>> /\ pc' = "idle"
          /\ pc = "again" /\ result' = IF tfes THEN "failed" ELSE "done"
      BY <1>15 DEF CheckAgain
    <2>4. result' = "failed" => failed
      BY <2>3
    <2> QED BY <2>1, <2>2, <2>3, <2>4
  <1>16. CASE HbaFollows
    BY <1>16 DEF HbaFollows
  <1>17. CASE DiskReady
    BY <1>17 DEF DiskReady
  <1>18. CASE HbaDone
    BY <1>18 DEF HbaDone
  <1>19. CASE HbaHalts
    BY <1>19 DEF HbaHalts
  <1>20. ASSUME NEW o \in {"read", "write", "identify"}, NEW n \in Counts \cup {1, 16}, Begin(o, n)
        PROVE  CallInv'
    BY <1>20, AhciAssumption DEF Begin
  <1>21. ASSUME NEW s \in ci, HbaFetch(s) PROVE CallInv'
    BY <1>21 DEF HbaFetch
  <1>22. CASE UNCHANGED vars
    BY <1>22 DEF vars
  <1> HIDE DEF AhciInv, SlotInv, TypesInv, EngineInv, CallInv, engine, controller, call, ghosts
  <1> QED BY <1>1, <1>2, <1>3, <1>4, <1>5, <1>6, <1>7, <1>8, <1>9, <1>10, <1>11, <1>12, <1>13, <1>14, <1>15, <1>16, <1>17, <1>18, <1>19, <1>20, <1>21, <1>22
    DEF Next, Driver, PortRebase, Controller

(* The state the firmware left, with no call yet. *)
LEMMA AhciStart ==
  ASSUME Init
  PROVE  AhciInv
  <1>1. StopInv /\ SlotInv
    BY AhciInit
  <1>2. /\ pc = "clear st" /\ ci = {} /\ run = NoSlot /\ slot = NoSlot /\ ~halted
        /\ result = "none" /\ calls = 0 /\ moved = 0 /\ spin = 0 /\ clb = "firmware"
        /\ table = [s \in Slots |-> NoCommand] /\ ncs \in NcsValues
        /\ tfes \in BOOLEAN /\ busy \in BOOLEAN /\ halted \in BOOLEAN /\ failed \in BOOLEAN
    BY DEF Init
  <1>3. 0 \in 0 .. MaxSpin /\ 0 \in 0 .. MaxCalls
    <2>1. MaxSpin \in Nat /\ MaxCalls \in Nat
      BY AhciAssumption
    <2> QED BY ONLY <2>1
  <1>4. TypesInv
    BY <1>2, <1>3 DEF TypesInv, Rebasing
  <1>5. TablesInv
    <2>1. NoCommand.entries = 0 /\ NoCommand.last = 0
      BY DEF NoCommand
    <2>2. \A s \in Slots : table[s] = NoCommand
      BY <1>2
    <2>3. 0 \in 0 .. 8 /\ 0 \in 0 .. PerPrdt
      BY DEF PerPrdt
    <2>4. \A s \in Slots : table[s].entries \in 0 .. 8 /\ table[s].last \in 0 .. PerPrdt
      BY <2>1, <2>2, <2>3
    <2> QED BY <1>2, <2>4 DEF TablesInv, Calling, Preparing, Waiting
  <1>6. EngineInv
    BY <1>2 DEF EngineInv, Rebasing, Calling, Preparing, Waiting
  <1>7. CallInv
    BY <1>2 DEF CallInv, Rebasing, Calling, Preparing, Waiting
  <1> QED BY <1>1, <1>4, <1>5, <1>6, <1>7 DEF AhciInv

THEOREM AhciInvHolds == Spec => []AhciInv
  <1>1. Init => AhciInv
    BY AhciStart
  <1>2. AhciInv /\ [Next]_vars => AhciInv'
    BY StopStep, SlotStep, EngineStep, TypesStep, TablesStep, CallStep DEF AhciInv
  <1> QED BY <1>1, <1>2, PTL DEF Spec

(* What a result tells the caller, for any number of slots, calls and       *)
(* failures: true, that what was asked for was moved, up to one entry of    *)
(* the PRDT; false without an error of the call's own command, that nothing *)
(* was left behind (ahci.cpp:85-170).                                       *)
THEOREM ResultsMeanHolds == Spec => []ResultsMean
  <1>1. ASSUME AhciInv PROVE ResultsMean
    <2>1. {st, fre, cr, fr, tfes, busy, halted, failed} \subseteq BOOLEAN
      BY <1>1, Zenon DEF AhciInv, StopInv, TypesInv
    <2>2. TypeOK
      BY <1>1, <2>1 DEF AhciInv, TypesInv, TablesInv, SlotInv, TypeOK
    <2>3. result = "done" /\ asked <= PerPrdt => moved = asked
      BY <1>1 DEF AhciInv, CallInv
    <2>4. result = "failed" /\ ~failed => moved = 0 /\ slot \notin ci
      BY <1>1 DEF AhciInv, CallInv
    <2> QED BY <2>2, <2>3, <2>4 DEF ResultsMean
  <1> QED BY <1>1, AhciInvHolds, PTL

-----------------------------------------------------------------------------
(* From here on: the block cache and the table of drives. *)

(* The pairs of a map were allocated before the next one. *)
Older(m, p) == IsFiniteSet(m) /\ \A x \in m : x.at \in Nat /\ x.at <= p

Maps ==
  /\ pairs \in Nat
  /\ DOMAIN last_access = Disks /\ DOMAIN cache = Disks
  /\ \A d \in Disks : Older(cache[d], pairs) /\ Older(last_access[d], pairs)

Counters ==
  /\ dropped \in [Disks -> Nat]
  /\ reads \in [Disks -> [all : Nat, good : Nat]]
  /\ PairsAccounted

(* A drive is in the table under its own name. *)
Table ==
  /\ registered \subseteq Drive
  /\ \A k \in DOMAIN device_names : device_names[k] \in registered \cup {NoDrive}
  /\ \A d \in registered : /\ Bytes[d.name] \in DOMAIN device_names
                           /\ device_names[Bytes[d.name]] = d
  /\ \A k \in DOMAIN device_names : device_names[k] # NoDrive => Bytes[device_names[k].name] = k

DrivesInv == Maps /\ Counters /\ ReadsFresh /\ Table

-----------------------------------------------------------------------------
(* A pair allocated now meets none of the pairs allocated before. *)
LEMMA NothingFound ==
  ASSUME NEW m, NEW p \in Nat, NEW q \in Nat, p < q, Older(m, p), NEW k
  PROVE  PairFor(m, k, q) = [at |-> q, first |-> k, second |-> Zero]
  <1> DEFINE new == [at |-> q, first |-> k, second |-> Zero]
             hits == {x \in m : Memcmp(x, new) = 0}
  <1>1. new.at = q
    OBVIOUS
  <1>2. \A x \in m : x.at \in Nat /\ x.at <= p
    BY DEF Older
  <1>3. \A x \in m : Memcmp(x, new) # 0
    <2> SUFFICES ASSUME NEW x \in m PROVE Memcmp(x, new) # 0
      OBVIOUS
    <2>1. Memcmp(x, new) = x.at - q
      BY <1>1 DEF Memcmp
    <2> QED BY <1>2, <2>1
  <1>4. hits = {}
    BY <1>3
  <1>5. PairFor(m, k, q) = IF hits = {} THEN new ELSE CHOOSE x \in hits : TRUE
    BY DEF PairFor
  <1> QED BY <1>4, <1>5

(* So each assignment adds a pair. *)
LEMMA Assigned ==
  ASSUME NEW m, NEW p \in Nat, NEW q \in Nat, p < q, Older(m, p), NEW k, NEW v
  PROVE  Older(Assign(m, k, v, q), q) /\ Cardinality(Assign(m, k, v, q)) = Cardinality(m) + 1
  <1> DEFINE r == [at |-> q, first |-> k, second |-> Zero]
             w == [r EXCEPT !.second = v]
  <1>1. Assign(m, k, v, q) = (m \ {r}) \cup {w}
    BY NothingFound DEF Assign
  <1>2. r.at = q /\ w.at = q
    OBVIOUS
  <1>3. \A x \in m : x.at \in Nat /\ x.at <= p
    BY DEF Older
  <1> HIDE DEF r, w
  <1>4. r \notin m /\ w \notin m
    BY <1>2, <1>3
  <1>5. Assign(m, k, v, q) = m \cup {w}
    BY <1>1, <1>4
  <1>6. IsFiniteSet(m \cup {w}) /\ Cardinality(m \cup {w}) = Cardinality(m) + 1
    BY <1>4, FS_AddElement DEF Older
  <1>7. \A x \in m \cup {w} : x.at \in Nat /\ x.at <= q
    BY <1>2, <1>3
  <1> QED BY <1>5, <1>6, <1>7 DEF Older

LEMMA OlderStill ==
  ASSUME NEW m, NEW p \in Nat, NEW q \in Nat, p <= q, Older(m, p)
  PROVE  Older(m, q) /\ Cardinality(m) \in Nat
  BY FS_CardinalityType DEF Older

LEMMA NothingHeld ==
  ASSUME NEW p
  PROVE  Older({}, p) /\ Cardinality({}) = 0
  BY FS_EmptySet DEF Older

Cache == Maps /\ Counters /\ ReadsFresh

(* A buffer gets what the disk holds, or keeps what the driver did not move. *)
LEMMA MovedIsHeld ==
  ASSUME NEW d \in Disks, NEW lba, NEW n \in SectorCounts, NEW res, NEW part,
         Moves(d, lba, n, res, part)
  PROVE  /\ DOMAIN Moved(d, lba, n, part) = 1 .. n
         /\ \A i \in 1 .. n : Moved(d, lba, n, part)[i] \in {Held(d, lba, n)[i], Other}
         /\ res /\ Whole(d, n) => Moved(d, lba, n, part) = Held(d, lba, n)
  <1>1. \A i \in part : lba + i - 1 \in LBAs
    BY DEF Moves
  <1>2. /\ DOMAIN Moved(d, lba, n, part) = 1 .. n
        /\ \A i \in 1 .. n :
             Moved(d, lba, n, part)[i] = IF i \in part THEN platter[d][lba + i - 1] ELSE Other
    BY DEF Moved
  <1>3. \A i \in 1 .. n :
          Held(d, lba, n)[i] = IF lba + i - 1 \in LBAs THEN platter[d][lba + i - 1] ELSE Other
    BY DEF Held
  <1>4. \A i \in 1 .. n : Moved(d, lba, n, part)[i] \in {Held(d, lba, n)[i], Other}
    BY <1>1, <1>2, <1>3, Zenon
  <1>5. ASSUME res, Whole(d, n) PROVE Moved(d, lba, n, part) = Held(d, lba, n)
    <2>1. type[d] = "AHCI" /\ n <= PerEntry /\ part = Commanded(d, n)
      BY <1>5 DEF Whole, Moves
    <2>2. n \in Nat /\ n >= 1 /\ PerEntry \in Nat /\ PerEntry >= 1
      BY DiskAssumption
    <2>3. LastEntry(n) = n
      <3>1. n - 1 \in Nat /\ n - 1 < PerEntry
        BY ONLY <2>1, <2>2
      <3>2. (n - 1) \div PerEntry = 0
        BY ONLY <2>2, <3>1
      <3> QED BY ONLY <2>2, <3>2 DEF LastEntry
    <2>4. part = 1 .. n
      BY <2>1, <2>3 DEF Commanded
    <2>5. \A i \in 1 .. n : i \in part /\ lba + i - 1 \in LBAs
      BY <1>1, <2>4
    <2> QED BY <2>5 DEF Moved, Held
  <1> QED BY <1>2, <1>4, <1>5

(* Reading.  The pairs of the maps of a disk and those dropped grow by one  *)
(* when the read fails and by three when it succeeds; it never finds a      *)
(* block.                                                                   *)
LEMMA ReadKeeps ==
  ASSUME Cache, NEW d \in Disks, NEW lba, NEW n \in SectorCounts, NEW res, NEW part,
         Read(d, lba, n, res, part)
  PROVE  Cache'
  <1> DEFINE pair == PairFor(cache[d], lba, pairs + 1)
             full == la_val[d] > LaMax
             found == cache[d] \cup {pair}
             c == IF full THEN {} ELSE found
             la == IF full THEN {} ELSE last_access[d]
             val == IF full THEN LaMin ELSE la_val[d]
  <1>0. /\ pairs \in Nat /\ pairs + 1 \in Nat /\ pairs + 2 \in Nat /\ pairs + 3 \in Nat
        /\ pairs < pairs + 1 /\ pairs < pairs + 2 /\ pairs + 1 < pairs + 3
        /\ pairs <= pairs + 1 /\ pairs <= pairs + 3 /\ pairs + 1 <= pairs + 1 /\ pairs + 2 <= pairs + 3
    BY DEF Cache, Maps
  <1>1. Older(cache[d], pairs) /\ Older(last_access[d], pairs)
    BY DEF Cache, Maps
  <1>2. pair = [at |-> pairs + 1, first |-> lba, second |-> Zero]
    BY <1>0, <1>1, NothingFound
  <1>3. Older(found, pairs + 1) /\ Cardinality(found) = Cardinality(cache[d]) + 1
    <2>1. pair.at = pairs + 1
      BY <1>2
    <2>2. \A x \in cache[d] : x.at \in Nat /\ x.at <= pairs
      BY <1>1 DEF Older
    <2>3. pair \notin cache[d]
      BY <1>0, <2>1, <2>2
    <2>4. IsFiniteSet(found) /\ Cardinality(found) = Cardinality(cache[d]) + 1
      BY <1>1, <2>3, FS_AddElement DEF Older
    <2>5. \A x \in found : x.at \in Nat /\ x.at <= pairs + 1
      BY <1>0, <2>1, <2>2
    <2> QED BY <2>4, <2>5 DEF Older
  <1>4. pair.second = Zero
    BY <1>2
  <1>5. /\ dropped' = IF full
                      THEN [dropped EXCEPT ![d] = @ + Cardinality(found) + Cardinality(last_access[d])]
                      ELSE dropped
        /\ \/ res /\ Fill(d, lba, n, part, c, la, val)
           \/ /\ cache' = [cache EXCEPT ![d] = c]
              /\ last_access' = [last_access EXCEPT ![d] = la]
              /\ pairs' = pairs + 1
              /\ reads' = [reads EXCEPT ![d].all = @ + 1]
              /\ UNCHANGED done
    BY <1>4 DEF Read
  <1> HIDE DEF pair, found, full, val
  <1>6. Cardinality(cache[d]) \in Nat /\ Cardinality(last_access[d]) \in Nat /\ Cardinality(found) \in Nat
    BY <1>0, <1>1, <1>3, OlderStill
  <1>7. Older(c, pairs + 1) /\ Older(la, pairs)
    BY <1>1, <1>3, NothingHeld
  <1>8. /\ dropped' \in [Disks -> Nat] /\ \A e \in Disks \ {d} : dropped'[e] = dropped[e]
        /\ dropped[d] \in Nat
        /\ dropped'[d] = IF full THEN dropped[d] + Cardinality(found) + Cardinality(last_access[d])
                         ELSE dropped[d]
    BY <1>5, <1>6 DEF Cache, Counters
  <1>9. /\ Cardinality(c) \in Nat /\ Cardinality(la) \in Nat
        /\ Cardinality(c) + Cardinality(la) + dropped'[d]
             = Cardinality(cache[d]) + Cardinality(last_access[d]) + dropped[d] + 1
    BY <1>3, <1>6, <1>8, NothingHeld
  <1>10. /\ \A e \in Disks : reads[e] \in [all : Nat, good : Nat]
         /\ \A e \in Disks : Cardinality(cache[e]) + Cardinality(last_access[e]) + dropped[e]
                               = reads[e].all + 2 * reads[e].good
         /\ DOMAIN cache = Disks /\ DOMAIN last_access = Disks
         /\ reads \in [Disks -> [all : Nat, good : Nat]]
         /\ \A e \in Disks : Older(cache[e], pairs) /\ Older(last_access[e], pairs)
    BY DEF Cache, Counters, PairsAccounted, Maps
  <1> HIDE DEF c, la
  <1>11. CASE res /\ Fill(d, lba, n, part, c, la, val)
    <2> DEFINE block == [type |-> "block", LBA |-> lba, la |-> val, buf |-> Moved(d, lba, n, part)]
               cm == Assign(c, lba, block, pairs + 3)
               lm == Assign(la, val, lba, pairs + 2)
    <2>1. /\ cache' = [cache EXCEPT ![d] = cm] /\ last_access' = [last_access EXCEPT ![d] = lm]
          /\ pairs' = pairs + 3
          /\ reads' = [reads EXCEPT ![d].all = @ + 1, ![d].good = @ + 1]
          /\ done' = [whole |-> Whole(d, n), got |-> block.buf, held |-> Held(d, lba, n)]
      BY <1>11 DEF Fill
    <2>2. block.buf = Moved(d, lba, n, part)
      OBVIOUS
    <2> HIDE DEF block
    <2>3. Older(cm, pairs + 3) /\ Cardinality(cm) = Cardinality(c) + 1
      BY <1>0, <1>7, Assigned
    <2>4. Older(lm, pairs + 2) /\ Cardinality(lm) = Cardinality(la) + 1
      BY <1>0, <1>7, Assigned
    <2> HIDE DEF cm, lm
    <2>5. Older(lm, pairs + 3)
      BY <1>0, <2>4, OlderStill
    <2>6. cache'[d] = cm /\ last_access'[d] = lm
      BY <1>10, <2>1
    <2>7. \A e \in Disks \ {d} : cache'[e] = cache[e] /\ last_access'[e] = last_access[e]
      BY <1>10, <2>1
    <2>8. \A e \in Disks : Older(cache[e], pairs + 3) /\ Older(last_access[e], pairs + 3)
      BY <1>0, <1>10, OlderStill
    <2>9. Maps'
      BY <1>0, <1>10, <2>1, <2>3, <2>5, <2>6, <2>7, <2>8 DEF Maps
    <2>10. /\ reads' \in [Disks -> [all : Nat, good : Nat]]
           /\ reads'[d].all = reads[d].all + 1 /\ reads'[d].good = reads[d].good + 1
           /\ \A e \in Disks \ {d} : reads'[e] = reads[e]
      BY <1>10, <2>1
    <2>11. Cardinality(cache'[d]) + Cardinality(last_access'[d]) + dropped'[d]
             = reads'[d].all + 2 * reads'[d].good
      <3>1. reads[d].all \in Nat /\ reads[d].good \in Nat /\ dropped'[d] \in Nat
        BY <1>8, <1>10
      <3>2. Cardinality(c) + Cardinality(la) + dropped'[d] = reads[d].all + 2 * reads[d].good + 1
        BY <1>9, <1>10
      <3>3. (Cardinality(c) + 1) + (Cardinality(la) + 1) + dropped'[d]
              = (reads[d].all + 1) + 2 * (reads[d].good + 1)
        <4>1. (Cardinality(c) + 1) + (Cardinality(la) + 1) + dropped'[d]
                = (Cardinality(c) + Cardinality(la) + dropped'[d]) + 2
          BY ONLY <1>9, <3>1
        <4>2. (reads[d].all + 1) + 2 * (reads[d].good + 1) = (reads[d].all + 2 * reads[d].good + 1) + 2
          BY ONLY <3>1
        <4> QED BY ONLY <3>2, <4>1, <4>2
      <3> QED BY <2>3, <2>4, <2>6, <2>10, <3>3
    <2>12. Counters'
      BY <1>8, <1>10, <2>7, <2>10, <2>11 DEF Counters, PairsAccounted
    <2>13. ReadsFresh'
      <3>1. Moves(d, lba, n, res, part)
        BY DEF Read
      <3>2. /\ done'.got = Moved(d, lba, n, part) /\ done'.held = Held(d, lba, n)
            /\ done'.whole = Whole(d, n)
        BY <2>1, <2>2
      <3> DEFINE m == Moved(d, lba, n, part)
                 h == Held(d, lba, n)
      <3>3. DOMAIN m = 1 .. n /\ (\A i \in 1 .. n : m[i] \in {h[i], Other}) /\ (Whole(d, n) => m = h)
        BY <1>11, <3>1, MovedIsHeld
      <3> HIDE DEF m, h
      <3>4. done'.got = m /\ done'.held = h /\ done'.whole = Whole(d, n)
        BY <3>2 DEF m, h
      <3>5. \A i \in DOMAIN done'.got : done'.got[i] \in {done'.held[i], Other}
        BY <3>3, <3>4, Zenon
      <3>6. done'.whole => done'.got = done'.held
        BY <3>3, <3>4, Zenon
      <3> QED BY <3>5, <3>6 DEF ReadsFresh
    <2> QED BY <2>9, <2>12, <2>13 DEF Cache
  <1>12. CASE /\ cache' = [cache EXCEPT ![d] = c]
              /\ last_access' = [last_access EXCEPT ![d] = la]
              /\ pairs' = pairs + 1
              /\ reads' = [reads EXCEPT ![d].all = @ + 1]
              /\ UNCHANGED done
    <2>1. cache'[d] = c /\ last_access'[d] = la
      BY <1>10, <1>12
    <2>2. \A e \in Disks \ {d} : cache'[e] = cache[e] /\ last_access'[e] = last_access[e]
      BY <1>10, <1>12
    <2>3. \A e \in Disks : Older(cache[e], pairs + 1) /\ Older(last_access[e], pairs + 1)
      BY <1>0, <1>10, OlderStill
    <2>4. Older(la, pairs + 1)
      BY <1>0, <1>7, OlderStill
    <2>5. Maps'
      BY <1>0, <1>7, <1>10, <1>12, <2>1, <2>2, <2>3, <2>4 DEF Maps
    <2>6. /\ reads' \in [Disks -> [all : Nat, good : Nat]]
          /\ reads'[d].all = reads[d].all + 1 /\ reads'[d].good = reads[d].good
          /\ \A e \in Disks \ {d} : reads'[e] = reads[e]
      BY <1>10, <1>12
    <2>7. Cardinality(cache'[d]) + Cardinality(last_access'[d]) + dropped'[d]
            = reads'[d].all + 2 * reads'[d].good
      BY <1>6, <1>8, <1>9, <1>10, <2>1, <2>6
    <2>8. Counters'
      BY <1>8, <1>10, <2>2, <2>6, <2>7 DEF Counters, PairsAccounted
    <2>9. ReadsFresh'
      BY <1>12 DEF ReadsFresh, Cache
    <2> QED BY <2>5, <2>8, <2>9 DEF Cache
  <1> QED BY <1>5, <1>11, <1>12

LEMMA CacheKept ==
  ASSUME Cache, UNCHANGED <<cache, last_access, pairs, dropped, reads, done>>
  PROVE  Cache'
  BY DEF Cache, Maps, Counters, PairsAccounted, ReadsFresh

-----------------------------------------------------------------------------
(* The table.  Asking for a name adds at most an empty entry. *)
LEMMA EntryFits ==
  ASSUME Table, NEW name
  PROVE  /\ Entry(name) \in registered \cup {NoDrive}
         /\ Entry(name) # NoDrive => /\ Bytes[name] \in DOMAIN device_names
                                     /\ Bytes[Entry(name).name] = Bytes[name]
  BY DEF Table, Entry

LEMMA AskKeeps ==
  ASSUME Table, NEW name, device_names' = WithEntry(name, Entry(name)), UNCHANGED registered
  PROVE  Table'
  <1>1. DOMAIN device_names' = DOMAIN device_names \cup {Bytes[name]}
    BY DEF WithEntry
  <1>2. \A k \in DOMAIN device_names :
          device_names'[k] = device_names[k]
    BY DEF WithEntry, Entry
  <1>3. device_names'[Bytes[name]] = Entry(name)
    BY DEF WithEntry
  <1>4. Bytes[name] \notin DOMAIN device_names => Entry(name) = NoDrive
    BY DEF Entry
  <1>5. \A k \in DOMAIN device_names' :
          \/ k \in DOMAIN device_names /\ device_names'[k] = device_names[k]
          \/ device_names'[k] = NoDrive
    BY <1>1, <1>2, <1>3, <1>4
  <1> QED BY <1>1, <1>2, <1>5, Zenon DEF Table

LEMMA AddKeeps ==
  ASSUME Table, NEW d \in Drive, AddDevice(d.name, d)
  PROVE  Table'
  <1>1. CASE Entry(d.name) # NoDrive
    <2>1. UNCHANGED <<device_names, registered>>
      BY <1>1 DEF AddDevice
    <2> QED BY <2>1 DEF Table
  <1>2. CASE Entry(d.name) = NoDrive
    <2> DEFINE b == Bytes[d.name]
    <2>1. device_names' = WithEntry(d.name, d) /\ registered' = registered \cup {d}
      BY <1>2 DEF AddDevice
    <2>2. DOMAIN device_names' = DOMAIN device_names \cup {b}
      BY <2>1 DEF WithEntry
    <2>3. \A k \in DOMAIN device_names' :
            device_names'[k] = IF k = b THEN d ELSE device_names[k]
      BY <2>1 DEF WithEntry
    <2>4. \A e \in registered : Bytes[e.name] # b
      <3> SUFFICES ASSUME NEW e \in registered, Bytes[e.name] = b PROVE FALSE
        OBVIOUS
      <3>1. b \in DOMAIN device_names /\ device_names[b] = e /\ e \in Drive
        BY DEF Table
      <3>2. Entry(d.name) = e
        BY <3>1 DEF Entry
      <3> QED BY <1>2, <3>1, <3>2, NullAssumption
    <2> HIDE DEF b
    <2>5. registered' \subseteq Drive
      BY <2>1 DEF Table
    <2>6. \A k \in DOMAIN device_names' : device_names'[k] \in registered' \cup {NoDrive}
      BY <2>1, <2>2, <2>3 DEF Table
    <2>7. \A e \in registered' : /\ Bytes[e.name] \in DOMAIN device_names'
                                 /\ device_names'[Bytes[e.name]] = e
      <3>1. Bytes[d.name] = b
        BY DEF b
      <3> QED BY <2>1, <2>2, <2>3, <2>4, <3>1, Zenon DEF Table
    <2>8. \A k \in DOMAIN device_names' :
            device_names'[k] # NoDrive => Bytes[device_names'[k].name] = k
      <3>1. Bytes[d.name] = b
        BY DEF b
      <3> QED BY <2>2, <2>3, <3>1, Zenon DEF Table
    <2> QED BY <2>5, <2>6, <2>7, <2>8 DEF Table
  <1> QED BY <1>1, <1>2

LEMMA RemoveKeeps ==
  ASSUME Table, NEW name, RemoveDevice(name)
  PROVE  Table'
  <1>1. CASE Entry(name) = NoDrive
    <2>1. device_names' = WithEntry(name, Entry(name)) /\ UNCHANGED registered
      BY <1>1 DEF RemoveDevice
    <2> QED BY <2>1, AskKeeps
  <1>2. CASE Entry(name) # NoDrive
    <2> DEFINE b == Bytes[name]
               d == Entry(name)
    <2>1. device_names' = WithoutEntry(name) /\ registered' = registered \ {d}
      BY <1>2 DEF RemoveDevice
    <2>2. DOMAIN device_names' = DOMAIN device_names \ {b}
      BY <2>1 DEF WithoutEntry
    <2>3. \A k \in DOMAIN device_names' : device_names'[k] = device_names[k]
      BY <2>1 DEF WithoutEntry
    <2>4. b \in DOMAIN device_names /\ Bytes[d.name] = b /\ d = device_names[b]
      BY <1>2, EntryFits DEF Entry
    <2> HIDE DEF b, d
    <2>5. \A e \in registered \ {d} : Bytes[e.name] # b
      BY <2>4, Zenon DEF Table
    <2>6. \A k \in DOMAIN device_names' : device_names[k] # d \/ d = NoDrive
      BY <2>2, <2>4, Zenon DEF Table
    <2>7. d # NoDrive
      BY <1>2 DEF d
    <2>8. registered' \subseteq Drive
      BY <2>1 DEF Table
    <2>9. \A k \in DOMAIN device_names' : device_names'[k] \in registered' \cup {NoDrive}
      BY <2>1, <2>2, <2>3, <2>6, <2>7 DEF Table
    <2>10. \A e \in registered' : /\ Bytes[e.name] \in DOMAIN device_names'
                                  /\ device_names'[Bytes[e.name]] = e
      BY <2>1, <2>2, <2>3, <2>5 DEF Table
    <2>11. \A k \in DOMAIN device_names' :
             device_names'[k] # NoDrive => Bytes[device_names'[k].name] = k
      BY <2>2, <2>3 DEF Table
    <2> QED BY <2>8, <2>9, <2>10, <2>11 DEF Table
  <1> QED BY <1>1, <1>2

-----------------------------------------------------------------------------
LEMMA Started ==
  ASSUME DrivesInit
  PROVE  DrivesInv
  <1>1. /\ pairs = 0 /\ cache = [d \in Disks |-> {}] /\ last_access = [d \in Disks |-> {}]
        /\ dropped = [d \in Disks |-> 0] /\ reads = [d \in Disks |-> [all |-> 0, good |-> 0]]
        /\ done = [whole |-> FALSE, got |-> <<>>, held |-> <<>>]
        /\ device_names = [k \in {} |-> NoDrive] /\ registered = {}
    BY DEF DrivesInit, StorageInit
  <1>2. Maps
    BY <1>1, NothingHeld DEF Maps
  <1>3. Counters
    <2>1. dropped \in [Disks -> Nat] /\ reads \in [Disks -> [all : Nat, good : Nat]]
      BY <1>1
    <2>2. PairsAccounted
      BY <1>1, NothingHeld DEF PairsAccounted
    <2> QED BY <2>1, <2>2 DEF Counters
  <1>4. ReadsFresh /\ Table
    BY <1>1 DEF ReadsFresh, Table
  <1> QED BY <1>2, <1>3, <1>4 DEF DrivesInv

LEMMA Preserved ==
  ASSUME DrivesInv, [DrivesNext]_drives
  PROVE  DrivesInv'
  <1>0. Cache /\ Table
    BY DEF DrivesInv, Cache
  <1>1. ASSUME NEW d \in Drive, AddDevice(d.name, d)
        PROVE  Cache' /\ Table'
    <2>1. UNCHANGED <<cache, last_access, pairs, dropped, reads, done>>
      BY <1>1 DEF AddDevice, storage
    <2> QED BY <1>0, <1>1, <2>1, CacheKept, AddKeeps
  <1>2. ASSUME NEW name \in Names, RemoveDevice(name)
        PROVE  Cache' /\ Table'
    <2>1. UNCHANGED <<cache, last_access, pairs, dropped, reads, done>>
      BY <1>2 DEF RemoveDevice, storage
    <2> QED BY <1>0, <1>2, <2>1, CacheKept, RemoveKeeps
  <1>3. ASSUME NEW name \in Names, NEW lba, NEW n \in SectorCounts,
               LogicalRead(name, lba, n)
        PROVE  Cache' /\ Table'
    <2>1. Table'
      BY <1>0, <1>3, AskKeeps DEF LogicalRead
    <2> DEFINE drive == Entry(name)
    <2>2. CASE drive # NoDrive /\ Passes(drive, lba, n)
      <3>1. PICK res, part : Read(drive.strg, drive.disk_offset + lba, n, res, part)
        BY <1>3, <2>2 DEF LogicalRead
      <3>2. drive \in Drive
        BY <1>0, <2>2, EntryFits DEF Table
      <3>3. drive.strg \in Disks
        BY <3>2 DEF Drive
      <3> QED BY <1>0, <2>1, <3>1, <3>3, ReadKeeps
    <2>3. CASE ~(drive # NoDrive /\ Passes(drive, lba, n))
      <3>1. UNCHANGED <<cache, last_access, pairs, dropped, reads, done>>
        BY <1>3, <2>3 DEF LogicalRead, storage
      <3> QED BY <1>0, <2>1, <3>1, CacheKept
    <2> QED BY <2>2, <2>3
  <1>4. ASSUME NEW name \in Names, NEW lba, NEW n, NEW v,
               LogicalWrite(name, lba, n, v)
        PROVE  Cache' /\ Table'
    <2>1. Table'
      BY <1>0, <1>4, AskKeeps DEF LogicalWrite
    <2>2. UNCHANGED <<cache, last_access, pairs, dropped, reads, done>>
      BY <1>4 DEF LogicalWrite, Write, storage
    <2> QED BY <1>0, <2>1, <2>2, CacheKept
  <1>5. CASE UNCHANGED drives
    <2>1. UNCHANGED <<cache, last_access, pairs, dropped, reads, done, device_names, registered>>
      BY <1>5 DEF drives, storage
    <2> QED BY <1>0, <2>1, CacheKept DEF Table, DrivesInv, Cache
  <1> QED BY <1>1, <1>2, <1>3, <1>4, <1>5 DEF DrivesNext, DrivesInv, Cache

THEOREM DrivesInvHolds == DrivesSpec => []DrivesInv
  <1>1. DrivesInit => DrivesInv
    BY Started
  <1>2. DrivesInv /\ [DrivesNext]_drives => DrivesInv'
    BY Preserved
  <1> QED BY <1>1, <1>2, PTL DEF DrivesSpec

(* No read that succeeds returns a sector from the past, for any disks,     *)
(* calls and writes in between and whatever part of them the drivers move:  *)
(* each sector is what the disk holds or was not moved, and on an AHCI     *)
(* disk all sectors of one PRDT entry are what it holds.  For no call ever  *)
(* finds a block in the cache (storage.cpp:23-36, map.h:27-32): the pair it *)
(* searches with is newer than all of the map.                              *)
THEOREM ReadsFreshHolds == DrivesSpec => []ReadsFresh
  <1>1. DrivesInv => ReadsFresh
    BY DEF DrivesInv
  <1> QED BY <1>1, DrivesInvHolds, PTL

(* On every disk the maps, cleared or not, have taken one pair for each     *)
(* read that failed and three for each that succeeded (storage.cpp:23,      *)
(* 70-72), and the table of drives leads to what was added and not removed, *)
(* for any names (drives.cpp:43-60).                                        *)
THEOREM TablesAccountedHolds == DrivesSpec => []TablesAccounted
  <1>1. ASSUME DrivesInv PROVE TablesAccounted
    <2>1. Table /\ PairsAccounted
      BY <1>1 DEF DrivesInv, Counters
    <2>2. \A d \in registered : d # NoDrive
      BY <2>1, NullAssumption DEF Table
    <2>3. {device_names[k] : k \in DOMAIN device_names} \ {NoDrive} = registered
      <3>1. \A k \in DOMAIN device_names : device_names[k] # NoDrive => device_names[k] \in registered
        BY <2>1, Zenon DEF Table
      <3>2. \A d \in registered : \E k \in DOMAIN device_names : device_names[k] = d
        BY <2>1, Zenon DEF Table
      <3> QED BY <2>2, <3>1, <3>2
    <2>4. \A d, e \in registered : Bytes[d.name] = Bytes[e.name] => d = e
      BY <2>1 DEF Table
    <2> QED BY <2>1, <2>3, <2>4 DEF TablesAccounted, TableAccounted
  <1> QED BY <1>1, DrivesInvHolds, PTL
=============================================================================
