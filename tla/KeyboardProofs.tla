--------------------------- MODULE KeyboardProofs ---------------------------
(***************************************************************************)
(* Proofs about Keyboard, for every size of the ring, every keyboard and   *)
(* every number of lost increments.                                        *)
(***************************************************************************)
EXTENDS Keyboard, TLAPS

(* Where the main loop is inside get, and what that says of the counter.    *)
GetInv ==
  /\ pc \in {"read", "advance", "load"} => length >= 1
  /\ pc = "store" => reg >= 1 /\ reg <= length

CountInv == TypeOK /\ GetInv /\ Accounting

(* An index of the ring advances by one and wraps at QueueMax. *)
LEMMA ModWrap ==
  ASSUME NEW i \in 0 .. QueueMax
  PROVE  i % QueueMax = IF i = QueueMax THEN 0 ELSE i
  BY QueueMaxAssumption

(* What insert does to the parts that every handler shares. *)
LEMMA InsertType ==
  ASSUME CountInv, NEW k \in Key, Insert(k)
  PROVE  /\ queue' \in [0 .. QueueMax - 1 -> Key]
         /\ length' \in 0 .. QueueMax
         /\ length' >= length
         /\ tail' \in {-1} \cup 0 .. QueueMax - 1
         /\ backlog' \in Seq(Key)
         /\ length' - length = Len(backlog') - Len(backlog)
  <1>1. CASE length = QueueMax
    BY <1>1 DEF Insert, CountInv, TypeOK
  <1>2. CASE length # QueueMax
    <2>1. tail + 1 \in 0 .. QueueMax
      BY QueueMaxAssumption DEF CountInv, TypeOK
    <2>2. (tail + 1) % QueueMax \in 0 .. QueueMax - 1
      BY <2>1, ModWrap, QueueMaxAssumption
    <2>3. /\ tail' = (tail + 1) % QueueMax
          /\ queue' = [queue EXCEPT ![tail'] = k]
          /\ length' = length + 1
          /\ backlog' = Append(backlog, k)
      BY <1>2 DEF Insert
    <2>4. backlog' \in Seq(Key) /\ Len(backlog') = Len(backlog) + 1
      BY <2>3 DEF CountInv, TypeOK
    <2>5. length' \in 0 .. QueueMax
      BY <1>2, <2>3, QueueMaxAssumption DEF CountInv, TypeOK
    <2>6. Len(backlog) \in Nat /\ length \in Int
      BY DEF CountInv, TypeOK
    <2> QED BY <2>2, <2>3, <2>4, <2>5, <2>6 DEF CountInv, TypeOK
  <1> QED BY <1>1, <1>2

(* The characters the handlers insert are characters of the keyboard. *)
LEMMA KeyType ==
  ASSUME NEW c \in ScanCodes
  PROVE  Codes[c] \in Chars /\ CodesSh[c] \in Chars
  BY DEF Chars

LEMMA CountInit == Init => CountInv
  <1> SUFFICES ASSUME Init PROVE CountInv
    OBVIOUS
  <1>1. TypeOK
    BY QueueMaxAssumption, TailInitAssumption
       DEF Init, TypeOK, Key, NoKey, Chars, Pcs
  <1>2. GetInv /\ Accounting
    BY DEF Init, GetInv, Accounting, InFlight
  <1> QED BY <1>1, <1>2 DEF CountInv

(* A handler leaves the main loop where it is; the counter only grows. *)
LEMMA HandlerCount ==
  ASSUME CountInv, NEW k \in Key, Insert(k) \/ UNCHANGED <<queue, length, tail, backlog>>,
         UNCHANGED <<head, main, lost>>
  PROVE  /\ queue' \in [0 .. QueueMax - 1 -> Key]
         /\ length' \in 0 .. QueueMax
         /\ tail' \in {-1} \cup 0 .. QueueMax - 1
         /\ backlog' \in Seq(Key)
         /\ head' \in 0 .. QueueMax - 1 /\ lost' \in Nat
         /\ pc' \in Pcs /\ z' \in Key /\ reg' \in 0 .. QueueMax
         /\ GetInv' /\ Accounting'
  <1>1. CASE Insert(k)
    <2>1. /\ queue' \in [0 .. QueueMax - 1 -> Key]
          /\ length' \in 0 .. QueueMax
          /\ length' >= length
          /\ tail' \in {-1} \cup 0 .. QueueMax - 1
          /\ backlog' \in Seq(Key)
          /\ length' - length = Len(backlog') - Len(backlog)
      BY <1>1, InsertType
    <2>2. GetInv'
      BY <2>1, QueueMaxAssumption DEF GetInv, CountInv, TypeOK, main
    <2>3. Accounting'
      <3>1. length \in Nat /\ length' \in Nat /\ lost \in Nat
            /\ Len(backlog) \in Nat /\ Len(backlog') \in Nat
        BY <2>1 DEF CountInv, TypeOK
      <3>2. pc' = pc /\ lost' = lost
        BY DEF main
      <3>3. Accounting
        BY DEF CountInv
      <3> QED BY ONLY <2>1, <3>1, <3>2, <3>3 DEF Accounting, InFlight
    <2> QED BY <2>1, <2>2, <2>3 DEF CountInv, TypeOK, main
  <1>2. CASE UNCHANGED <<queue, length, tail, backlog>>
    BY <1>2 DEF CountInv, TypeOK, GetInv, Accounting, InFlight, main
  <1> QED BY <1>1, <1>2

LEMMA CountStep == CountInv /\ [Next]_vars => CountInv'
  <1> SUFFICES ASSUME CountInv, [Next]_vars PROVE CountInv'
    OBVIOUS
  <1>1. ASSUME NEW c \in ScanCodes, Make(c) PROVE CountInv'
    <2> DEFINE ch == IF shift' = 1 THEN CodesSh[c] ELSE Codes[c]
    <2>1. ch \in Chars /\ [keycode |-> ch, pressed |-> 1] \in Key
      BY KeyType DEF Key
    <2>2. Insert([keycode |-> ch, pressed |-> 1]) /\ UNCHANGED <<head, main, lost>>
      BY <1>1 DEF Make
    <2>3. /\ held' \subseteq ScanCodes /\ shift' \in {0, 1} /\ last_code' \in ScanCodes
          /\ pressed_keys' \in Chars /\ since' \in -2 .. 2
      BY <1>1, <2>1 DEF Make, CountInv, TypeOK
    <2> HIDE DEF ch
    <2> QED BY <2>1, <2>2, <2>3, HandlerCount DEF CountInv, TypeOK
  <1>2. ASSUME NEW c \in ScanCodes, Break(c) PROVE CountInv'
    <2> DEFINE ch == IF shift' = 1 THEN CodesSh[c] ELSE Codes[c]
    <2>1. ch \in Chars /\ [keycode |-> ch, pressed |-> 0] \in Key
      BY KeyType DEF Key
    <2>2. Insert([keycode |-> ch, pressed |-> 0]) /\ UNCHANGED <<head, main, lost>>
      BY <1>2 DEF Break, StopRepeat
    <2>3. /\ held' \subseteq ScanCodes /\ shift' \in {0, 1}
          /\ last_code' \in {0} \cup ScanCodes
          /\ pressed_keys' \in Chars /\ since' \in -2 .. 2
      BY <1>2 DEF Break, StopRepeat, CountInv, TypeOK, Chars
    <2> HIDE DEF ch
    <2> QED BY <2>1, <2>2, <2>3, HandlerCount DEF CountInv, TypeOK
  <1>3. CASE PitTimer
    <2>1. [keycode |-> pressed_keys, pressed |-> 1] \in Key
      BY DEF CountInv, TypeOK, Key
    <2>2. /\ \/ Insert([keycode |-> pressed_keys, pressed |-> 1])
             \/ UNCHANGED <<queue, length, tail, backlog>>
          /\ UNCHANGED <<head, main, lost>>
      BY <1>3 DEF PitTimer
    <2>3. /\ held' \subseteq ScanCodes /\ shift' \in {0, 1}
          /\ last_code' \in {0} \cup ScanCodes
          /\ pressed_keys' \in Chars /\ since' \in -2 .. 2
      BY <1>3 DEF PitTimer, CountInv, TypeOK
    <2> QED BY <2>1, <2>2, <2>3, HandlerCount DEF CountInv, TypeOK
  <1>4. CASE GetEmpty \/ GetCheck \/ Use
    <2>1. z' \in Key /\ pc' \in Pcs
      <3>1. NoKey \in Key
        BY DEF NoKey, Key, Chars
      <3> QED BY <1>4, <3>1 DEF GetEmpty, GetCheck, Use, CountInv, TypeOK, Pcs
    <2>2. TypeOK'
      BY <1>4, <2>1 DEF GetEmpty, GetCheck, Use, CountInv, TypeOK, ring, handler
    <2>3. GetInv' /\ Accounting'
      BY <1>4 DEF GetEmpty, GetCheck, Use, CountInv, TypeOK, ring, GetInv, Accounting, InFlight
    <2> QED BY <2>2, <2>3 DEF CountInv
  <1>5. CASE GetRead
    <2>1. queue[head] \in Key
      BY DEF CountInv, TypeOK
    <2> QED BY <1>5, <2>1 DEF GetRead, CountInv, TypeOK, ring, handler, GetInv, Accounting,
                              InFlight, Pcs
  <1>6. CASE GetAdvance
    <2>1. backlog # <<>>
      BY <1>6 DEF GetAdvance, CountInv, TypeOK, GetInv, Accounting, InFlight
    <2>2. backlog' \in Seq(Key) /\ Len(backlog') = Len(backlog) - 1
      BY <1>6, <2>1 DEF GetAdvance, CountInv, TypeOK
    <2>3. head' \in 0 .. QueueMax - 1
      <3>1. head + 1 \in 0 .. QueueMax
        BY QueueMaxAssumption DEF CountInv, TypeOK
      <3>2. (head + 1) % QueueMax \in 0 .. QueueMax - 1
        BY <3>1, ModWrap, QueueMaxAssumption
      <3> QED BY <1>6, <3>2 DEF GetAdvance
    <2>4. Accounting'
      <3>1. Len(backlog) \in Nat /\ length \in Nat /\ lost \in Nat
        BY DEF CountInv, TypeOK
      <3> QED BY <1>6, <2>2, <3>1 DEF GetAdvance, CountInv, Accounting, InFlight
    <2>5. GetInv'
      BY <1>6 DEF GetAdvance, CountInv, GetInv
    <2> QED BY <1>6, <2>2, <2>3, <2>4, <2>5 DEF GetAdvance, CountInv, TypeOK, handler, Pcs
  <1>7. CASE DecLoad
    BY <1>7, QueueMaxAssumption DEF DecLoad, CountInv, TypeOK, ring, handler, GetInv,
       Accounting, InFlight, Pcs
  <1>8. CASE DecStore
    <2>1. Racing = length - reg /\ Racing \in Nat
      BY <1>8 DEF DecStore, Racing, CountInv, TypeOK, GetInv
    <2>2. length' \in 0 .. QueueMax /\ lost' \in Nat
      BY <1>8, <2>1, QueueMaxAssumption DEF DecStore, CountInv, TypeOK, GetInv
    <2>3. Accounting'
      <3>1. Len(backlog) \in Nat /\ length \in Nat /\ reg \in Nat /\ lost \in Nat
        BY DEF CountInv, TypeOK
      <3> QED BY <1>8, <2>1, <3>1 DEF DecStore, CountInv, Accounting, InFlight
    <2> QED BY <1>8, <2>2, <2>3 DEF DecStore, CountInv, TypeOK, handler, GetInv, Pcs
  <1>9. CASE UNCHANGED vars
    BY <1>9 DEF vars, ring, handler, main, CountInv, TypeOK, GetInv, Accounting, InFlight
  <1> QED
    BY <1>1, <1>2, <1>3, <1>4, <1>5, <1>6, <1>7, <1>8, <1>9 DEF Next, Handlers, MainLoop

(* The state of the driver keeps its types and ranges; in particular the    *)
(* counter that get decrements from a register never leaves 0..QueueMax.    *)
THEOREM TypeCorrect == Spec => []TypeOK
  <1>1. CountInv => TypeOK
    BY DEF CountInv
  <1> QED BY CountInit, CountStep, <1>1, PTL DEF Spec

(* length counts the unread keys up to the increments that "length--" in    *)
(* the main loop overwrote, and nothing else makes it wrong.                *)
THEOREM AccountingHolds == Spec => []Accounting
  <1>1. CountInv => Accounting
    BY DEF CountInv
  <1> QED BY CountInit, CountStep, <1>1, PTL DEF Spec

-----------------------------------------------------------------------------
(* FifoOrder is not inductive: it says nothing of the slot that the next    *)
(* insert will fill.                                                        *)
FifoInv ==
  TailInit = -1 /\ lost = 0 =>
    /\ (tail + 1) % QueueMax = Slot(head, Len(backlog))
    /\ \A i \in 1 .. Len(backlog) : queue[Slot(head, i - 1)] = backlog[i]
    /\ pc = "advance" => z = Head(backlog)

(* While nothing was lost the ring owes at most QueueMax keys.              *)
LEMMA BacklogFits ==
  ASSUME CountInv, lost = 0
  PROVE  Len(backlog) \in 0 .. QueueMax /\ Len(backlog) <= length
  BY QueueMaxAssumption DEF CountInv, TypeOK, Accounting, InFlight

(* Different distances from head, none beyond the ring, are different slots. *)
LEMMA SlotInjective ==
  ASSUME NEW h \in 0 .. QueueMax - 1,
         NEW i \in 0 .. QueueMax - 1, NEW j \in 0 .. QueueMax - 1, i # j
  PROVE  Slot(h, i) # Slot(h, j) /\ Slot(h, i) \in 0 .. QueueMax - 1
  BY QueueMaxAssumption DEF Slot

(* An insert appends to the order of the ring. *)
LEMMA InsertFifo ==
  ASSUME CountInv, FifoInv, NEW k \in Key,
         Insert(k) \/ UNCHANGED <<queue, length, tail, backlog>>,
         UNCHANGED <<head, main, lost>>
  PROVE  FifoInv'
  <1> SUFFICES ASSUME TailInit = -1, lost = 0, length # QueueMax, Insert(k) PROVE FifoInv'
    BY DEF FifoInv, main, Insert, Slot
  <1> DEFINE n == Len(backlog)
             t == (tail + 1) % QueueMax
  <1>1. n \in 0 .. QueueMax - 1
    BY BacklogFits, QueueMaxAssumption DEF CountInv, TypeOK
  <1>2. /\ tail' = t
        /\ queue' = [queue EXCEPT ![t] = k]
        /\ backlog' = Append(backlog, k)
    BY DEF Insert
  <1>3. t = Slot(head, n) /\ head \in 0 .. QueueMax - 1 /\ t \in 0 .. QueueMax - 1
    <2>1. t = Slot(head, n) /\ head \in 0 .. QueueMax - 1
      BY DEF FifoInv, CountInv, TypeOK
    <2>2. Slot(head, n) \in 0 .. QueueMax - 1
      BY <1>1, <2>1, QueueMaxAssumption DEF Slot
    <2> QED BY <2>1, <2>2
  <1>4. backlog \in Seq(Key) /\ Len(backlog') = n + 1
    BY <1>2 DEF CountInv, TypeOK
  <1>5. (tail' + 1) % QueueMax = Slot(head', Len(backlog'))
    <2>1. t + 1 \in 0 .. QueueMax
      BY <1>3, QueueMaxAssumption
    <2>2. (t + 1) % QueueMax = IF t + 1 = QueueMax THEN 0 ELSE t + 1
      BY <2>1, ModWrap
    <2>3. Slot(head, n + 1) = IF t + 1 = QueueMax THEN 0 ELSE t + 1
      BY <1>1, <1>3, QueueMaxAssumption DEF Slot
    <2> QED BY <1>2, <1>4, <2>2, <2>3
  <1>6. ASSUME NEW i \in 1 .. Len(backlog')
        PROVE  queue'[Slot(head', i - 1)] = backlog'[i]
    <2>1. CASE i = n + 1
      BY <1>1, <1>2, <1>3, <1>4, <2>1 DEF CountInv, TypeOK
    <2>2. CASE i # n + 1
      <3>1. i \in 1 .. n /\ i - 1 \in 0 .. QueueMax - 1 /\ i - 1 # n
        BY <1>1, <1>4, <2>2, QueueMaxAssumption
      <3>2. Slot(head, i - 1) # t /\ Slot(head, i - 1) \in 0 .. QueueMax - 1
        BY <1>1, <1>3, <3>1, SlotInjective
      <3>3. queue'[Slot(head, i - 1)] = queue[Slot(head, i - 1)]
        BY <1>2, <3>2 DEF CountInv, TypeOK
      <3>4. backlog'[i] = backlog[i]
        BY <1>2, <1>4, <3>1
      <3> QED BY <3>1, <3>3, <3>4 DEF FifoInv
    <2> QED BY <2>1, <2>2
  <1>7. pc' = "advance" => z' = Head(backlog')
    <2>1. pc = "advance" => backlog # <<>>
      BY DEF CountInv, TypeOK, GetInv, Accounting, InFlight
    <2>2. pc = "advance" => Head(backlog') = Head(backlog)
      BY <1>2, <1>4, <2>1
    <2> QED BY <2>2 DEF FifoInv, main
  <1> QED BY <1>5, <1>6, <1>7 DEF FifoInv, Slot

LEMMA FifoInit == Init => FifoInv
  <1>1. 0 % QueueMax = 0
    BY ModWrap, QueueMaxAssumption
  <1> QED BY <1>1, QueueMaxAssumption DEF Init, FifoInv, Slot

LEMMA FifoStep == CountInv /\ FifoInv /\ [Next]_vars => FifoInv'
  <1> SUFFICES ASSUME CountInv, FifoInv, [Next]_vars PROVE FifoInv'
    OBVIOUS
  <1>1. ASSUME NEW c \in ScanCodes, Make(c) \/ Break(c) PROVE FifoInv'
    <2> DEFINE ch == IF shift' = 1 THEN CodesSh[c] ELSE Codes[c]
    <2>1. /\ [keycode |-> ch, pressed |-> 0] \in Key
          /\ [keycode |-> ch, pressed |-> 1] \in Key
      BY KeyType DEF Key
    <2>2. /\ \/ Insert([keycode |-> ch, pressed |-> 0])
             \/ Insert([keycode |-> ch, pressed |-> 1])
          /\ UNCHANGED <<head, main, lost>>
      BY <1>1 DEF Make, Break, StopRepeat
    <2> HIDE DEF ch
    <2> QED BY <2>1, <2>2, InsertFifo
  <1>2. CASE PitTimer
    <2>1. [keycode |-> pressed_keys, pressed |-> 1] \in Key
      BY DEF CountInv, TypeOK, Key
    <2> QED BY <1>2, <2>1, InsertFifo DEF PitTimer
  <1>3. CASE GetEmpty \/ GetCheck \/ DecLoad \/ Use
    BY <1>3 DEF GetEmpty, GetCheck, DecLoad, Use, FifoInv, ring, Slot
  <1>4. CASE GetRead
    <2> SUFFICES ASSUME TailInit = -1, lost = 0 PROVE FifoInv'
      BY <1>4 DEF GetRead, FifoInv
    <2>1. Len(backlog) >= 1 /\ Len(backlog) \in Nat
      BY <1>4 DEF GetRead, CountInv, TypeOK, GetInv, Accounting, InFlight
    <2>2. queue[Slot(head, 0)] = backlog[1]
      BY <2>1 DEF FifoInv
    <2>3. Slot(head, 0) = head /\ Head(backlog) = backlog[1]
      <3>1. head \in 0 .. QueueMax - 1 /\ backlog \in Seq(Key)
        BY DEF CountInv, TypeOK
      <3>2. Slot(head, 0) = head
        BY <3>1, QueueMaxAssumption DEF Slot
      <3>3. Head(backlog) = backlog[1]
        BY <3>1, <2>1
      <3> QED BY <3>2, <3>3
    <2> QED BY <1>4, <2>2, <2>3 DEF GetRead, FifoInv, ring, Slot
  <1>5. CASE GetAdvance
    <2> SUFFICES ASSUME TailInit = -1, lost = 0 PROVE FifoInv'
      BY <1>5 DEF GetAdvance, FifoInv
    <2> DEFINE n == Len(backlog)
    <2>1. n \in 1 .. QueueMax /\ backlog \in Seq(Key) /\ head \in 0 .. QueueMax - 1
      BY <1>5, BacklogFits DEF GetAdvance, CountInv, TypeOK, GetInv, Accounting, InFlight
    <2>2. backlog' = Tail(backlog) /\ Len(backlog') = n - 1
      BY <1>5, <2>1 DEF GetAdvance
    <2>3. head' = IF head + 1 = QueueMax THEN 0 ELSE head + 1
      <3>1. head + 1 \in 0 .. QueueMax
        BY <2>1, QueueMaxAssumption
      <3> QED BY <1>5, <3>1, ModWrap DEF GetAdvance
    <2>4. ASSUME NEW i \in 1 .. n PROVE Slot(head', i - 1) = Slot(head, i)
      BY <2>1, <2>3, QueueMaxAssumption DEF Slot
    <2>5. ASSUME NEW i \in 1 .. n - 1 PROVE queue[Slot(head, i)] = backlog'[i]
      <3>1. i + 1 \in 1 .. n /\ (i + 1) - 1 = i
        BY <2>1
      <3>2. backlog'[i] = backlog[i + 1]
        BY <2>1, <2>2
      <3>3. queue[Slot(head, (i + 1) - 1)] = backlog[i + 1]
        BY <3>1 DEF FifoInv
      <3> QED BY <3>1, <3>2, <3>3
    <2>6. (tail' + 1) % QueueMax = Slot(head', Len(backlog'))
      BY <1>5, <2>1, <2>2, <2>4 DEF GetAdvance, FifoInv
    <2>7. \A i \in 1 .. Len(backlog') : queue'[Slot(head', i - 1)] = backlog'[i]
      BY <1>5, <2>1, <2>2, <2>4, <2>5 DEF GetAdvance
    <2> QED BY <1>5, <2>6, <2>7 DEF GetAdvance, FifoInv, Slot
  <1>6. CASE DecStore
    <2>1. Racing \in Nat /\ lost \in Nat
      BY <1>6 DEF DecStore, Racing, CountInv, TypeOK, GetInv
    <2>2. lost' = 0 => lost = 0
      BY <1>6, <2>1 DEF DecStore
    <2> QED BY <1>6, <2>2 DEF DecStore, FifoInv, Slot
  <1>7. CASE UNCHANGED vars
    BY <1>7 DEF vars, ring, main, FifoInv, Slot
  <1> QED
    BY <1>1, <1>2, <1>3, <1>4, <1>5, <1>6, <1>7 DEF Next, Handlers, MainLoop

(* Keys come out of the ring in the order in which they were accepted, and  *)
(* none is skipped, repeated or overwritten, for every size of the ring,    *)
(* until an increment of length is lost.                                    *)
THEOREM FifoOrderHolds == Spec => []FifoOrder
  <1>1. FifoInv => FifoOrder
    BY DEF FifoInv, FifoOrder
  <1> QED BY CountInit, CountStep, FifoInit, FifoStep, <1>1, PTL DEF Spec

-----------------------------------------------------------------------------
LEMMA RepeatStep == CountInv /\ RepeatsOnlyHeldKey /\ [Next]_vars => RepeatsOnlyHeldKey'
  <1> SUFFICES ASSUME CountInv, RepeatsOnlyHeldKey, [Next]_vars PROVE RepeatsOnlyHeldKey'
    OBVIOUS
  <1>1. ASSUME NEW c \in ScanCodes, Make(c) PROVE RepeatsOnlyHeldKey'
    BY <1>1 DEF Make, RepeatsOnlyHeldKey
  <1>2. ASSUME NEW c \in ScanCodes, Break(c) PROVE RepeatsOnlyHeldKey'
    BY <1>2 DEF Break, StopRepeat, RepeatsOnlyHeldKey
  <1>3. CASE PitTimer \/ MainLoop \/ UNCHANGED vars
    BY <1>3 DEF PitTimer, MainLoop, GetEmpty, GetCheck, GetRead, GetAdvance, DecLoad,
                DecStore, Use, handler, vars, RepeatsOnlyHeldKey
  <1> QED BY <1>1, <1>2, <1>3 DEF Next, Handlers

(* The timer never repeats a key that is up, nor a character of another key. *)
THEOREM RepeatsOnlyHeldKeyHolds == Spec => []RepeatsOnlyHeldKey
  <1>1. Init => RepeatsOnlyHeldKey
    BY DEF Init, RepeatsOnlyHeldKey
  <1> QED BY CountInit, CountStep, RepeatStep, <1>1, PTL DEF Spec
=============================================================================
