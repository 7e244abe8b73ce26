------------------------------ MODULE Keyboard ------------------------------
(***************************************************************************)
(* Keyboard input of the kernel: the interrupt handlers that fill          *)
(* keys_queue (input/ps2.cpp, interrupts.cpp), the ring itself             *)
(* (includes/input/input.h) and the main loop that empties it              *)
(* (kernel.cpp).                                                           *)
(*                                                                         *)
(* Handlers are entered through interrupt gates (IDT flags 0x8E), so a     *)
(* handler runs to its end before another one starts: each is one action.  *)
(* The main loop runs with interrupts enabled and can be interrupted       *)
(* between any two of its memory accesses: KeyQueue::get is one action per *)
(* access of a shared variable.  The kernel is built with -O0, where       *)
(* "length--" is a load, a subtraction in a register and a store.          *)
(***************************************************************************)
EXTENDS Integers, Sequences

CONSTANTS
  QueueMax,    \* QUEUE_MAX, the slots of the ring
  TailInit,    \* tail at boot: -1 if KeyQueue's initialisers ran, 0 if not
  ScanCodes,   \* the make codes of the keyboard (a break code is 128 more)
  ShiftCodes,  \* the make codes of the two shift keys
  Codes,       \* character of each make code, 0 where there is none
  CodesSh,     \* the same, with shift
  MaxLost      \* bound: increments of length a store may overwrite

ASSUME QueueMaxAssumption == QueueMax \in Nat \ {0}
ASSUME TailInitAssumption == TailInit \in {-1, 0}
ASSUME CodesAssumption ==
  /\ ScanCodes \subseteq 1 .. 127
  /\ ShiftCodes \subseteq ScanCodes
  /\ Codes \in [ScanCodes -> Nat]
  /\ CodesSh \in [ScanCodes -> Nat]
ASSUME BoundsAssumption == MaxLost \in Nat

VARIABLES
  queue, length, head, tail,              \* KeyQueue
  shift, last_code, pressed_keys,         \* keyboard_handle
  since,                                  \* pit_timer: time - last_press, up to 2
  pc, z, reg,                             \* main loop: place, fetched key, register
  held,                                   \* external: keys held down
  backlog,                                \* ghost: accepted, not yet fetched
  lost                                    \* ghost: increments overwritten by a store

ring == <<queue, length, head, tail>>
handler == <<shift, last_code, pressed_keys, since>>
main == <<pc, z, reg>>
vars == <<ring, handler, main, held, backlog, lost>>

Chars == {0} \cup {Codes[c] : c \in ScanCodes} \cup {CodesSh[c] : c \in ScanCodes}
Key == [keycode : Chars, pressed : {0, 1}]
NoKey == [keycode |-> 0, pressed |-> 0]

-----------------------------------------------------------------------------
(* A faulty form of insert: a refused key is counted.                       *)
InsertCountsRefused(k) ==
  /\ length' = length + 1
  /\ IF length = QueueMax
     THEN UNCHANGED <<queue, tail, backlog>>
     ELSE /\ tail' = (tail + 1) % QueueMax
          /\ queue' = [queue EXCEPT ![tail'] = k]
          /\ backlog' = Append(backlog, k)

(* KeyQueue::insert, called by handlers only. *)
Insert(k) ==
  IF length = QueueMax
  THEN UNCHANGED <<queue, length, tail, backlog>>
  ELSE /\ tail' = (tail + 1) % QueueMax
       /\ queue' = [queue EXCEPT ![tail'] = k]
       /\ length' = length + 1
       /\ backlog' = Append(backlog, k)

(* Increments of length since the main loop loaded it in "length--". *)
Racing == IF pc = "store" THEN length - reg ELSE 0

(* Bound of the model: at most MaxLost increments are overwritten. *)
MayInterrupt == pc = "store" => lost + Racing < MaxLost

(* keyboard_handle for a make code.  A held key may repeat its make code. *)
Make(c) ==
  /\ MayInterrupt
  /\ held' = held \cup {c}
  /\ shift' = IF c \in ShiftCodes THEN 1 ELSE shift
  /\ LET ch == IF shift' = 1 THEN CodesSh[c] ELSE Codes[c]
     IN  /\ last_code' = c
         /\ pressed_keys' = ch
         /\ since' = -2
         /\ Insert([keycode |-> ch, pressed |-> 1])
  /\ UNCHANGED <<head, main, lost>>

(* A faulty form: the character goes on repeating. *)
StopRepeatHalf(c) ==
  /\ last_code' = IF last_code = c THEN 0 ELSE last_code
  /\ UNCHANGED pressed_keys

StopRepeat(c) ==
  IF last_code = c
  THEN last_code' = 0 /\ pressed_keys' = 0
  ELSE UNCHANGED <<last_code, pressed_keys>>

(* keyboard_handle for a break code: only the last key made stops repeating. *)
Break(c) ==
  /\ MayInterrupt
  /\ c \in held
  /\ held' = held \ {c}
  /\ shift' = IF c \in ShiftCodes THEN 0 ELSE shift
  /\ StopRepeat(c)
  /\ LET ch == IF shift' = 1 THEN CodesSh[c] ELSE Codes[c]
     IN  Insert([keycode |-> ch, pressed |-> 0])
  /\ UNCHANGED <<head, since, main, lost>>

(* pit_timer: counts the tick and repeats the key that is held down, if the *)
(* last press or repeat is more than two ticks ago.                         *)
PitTimer ==
  /\ MayInterrupt
  /\ IF pressed_keys # 0 /\ since >= 2
     THEN /\ Insert([keycode |-> pressed_keys, pressed |-> 1])
          /\ since' = 0
     ELSE /\ since' = IF since < 2 THEN since + 1 ELSE since
          /\ UNCHANGED <<queue, length, tail, backlog>>
  /\ UNCHANGED <<head, shift, last_code, pressed_keys, main, held, lost>>

-----------------------------------------------------------------------------
(* The main loop: KeyQueue::get access by access, then the use of its key. *)

(* A faulty form: the last key is taken for none. *)
GetEmptyEarly ==
  /\ pc = "check" /\ length <= 1
  /\ z' = NoKey
  /\ pc' = "use"
  /\ UNCHANGED <<ring, handler, reg, held, backlog, lost>>

GetEmpty ==
  /\ pc = "check" /\ length = 0
  /\ z' = NoKey
  /\ pc' = "use"
  /\ UNCHANGED <<ring, handler, reg, held, backlog, lost>>

GetCheck ==
  /\ pc = "check" /\ length # 0
  /\ pc' = "read"
  /\ UNCHANGED <<ring, handler, z, reg, held, backlog, lost>>

(* A faulty form: the newest key is read. *)
GetReadNewest ==
  /\ pc = "read"
  /\ z' = queue[tail]
  /\ pc' = "advance"
  /\ UNCHANGED <<ring, handler, reg, held, backlog, lost>>

GetRead ==
  /\ pc = "read"
  /\ z' = queue[head]
  /\ pc' = "advance"
  /\ UNCHANGED <<ring, handler, reg, held, backlog, lost>>

GetAdvance ==
  /\ pc = "advance"
  /\ head' = (head + 1) % QueueMax
  /\ backlog' = Tail(backlog)
  /\ pc' = "load"
  /\ UNCHANGED <<queue, length, tail, handler, z, reg, held, lost>>

DecLoad ==
  /\ pc = "load"
  /\ reg' = length
  /\ pc' = "store"
  /\ UNCHANGED <<ring, handler, z, held, backlog, lost>>

DecStore ==
  /\ pc = "store"
  /\ length' = reg - 1
  /\ lost' = lost + Racing
  /\ pc' = "use"
  /\ UNCHANGED <<queue, head, tail, handler, z, reg, held, backlog>>

(* print_char for a pressed key with a character, then UsbPoll. *)
Use ==
  /\ pc = "use"
  /\ pc' = "check"
  /\ UNCHANGED <<ring, handler, z, reg, held, backlog, lost>>

-----------------------------------------------------------------------------
Init ==
  /\ queue = [i \in 0 .. QueueMax - 1 |-> NoKey]
  /\ length = 0 /\ head = 0 /\ tail = TailInit
  /\ shift = 0 /\ last_code = 0 /\ pressed_keys = 0 /\ since = 0
  /\ pc = "check" /\ z = NoKey /\ reg = 0
  /\ held = {} /\ backlog = <<>> /\ lost = 0

Handlers == PitTimer \/ \E c \in ScanCodes : Make(c) \/ Break(c)
MainLoop == GetEmpty \/ GetCheck \/ GetRead \/ GetAdvance \/ DecLoad \/ DecStore \/ Use

Next == Handlers \/ MainLoop

(* The main loop never blocks and every handler returns to it. *)
Spec == Init /\ [][Next]_vars /\ WF_vars(MainLoop)

-----------------------------------------------------------------------------
Pcs == {"check", "read", "advance", "load", "store", "use"}

(* Types and ranges.  That length stays in 0..QueueMax is not a matter of   *)
(* form: it is decremented from a register loaded earlier (input.h:30-33).  *)
TypeOK ==
  /\ queue \in [0 .. QueueMax - 1 -> Key]
  /\ length \in 0 .. QueueMax
  /\ head \in 0 .. QueueMax - 1
  /\ tail \in {-1} \cup 0 .. QueueMax - 1
  /\ shift \in {0, 1}
  /\ last_code \in {0} \cup ScanCodes
  /\ pressed_keys \in Chars
  /\ since \in -2 .. 2
  /\ pc \in Pcs /\ z \in Key /\ reg \in 0 .. QueueMax
  /\ held \subseteq ScanCodes
  /\ backlog \in Seq(Key)
  /\ lost \in Nat

(* Between the advance of head and the store, length counts a key that has *)
(* left the ring.                                                          *)
InFlight == IF pc \in {"load", "store"} THEN 1 ELSE 0

(* The counter of the ring is wrong by exactly the increments that the      *)
(* main loop's "length--" overwrote: KeyQueue::get against insert in a      *)
(* handler (input.h:26 and input.h:33).                                     *)
Accounting == length + lost = Len(backlog) + InFlight

(* The slot that follows slot i by n. *)
Slot(i, n) == IF i + n < QueueMax THEN i + n ELSE i + n - QueueMax

(* The ring, read from head, is the backlog in order of arrival, and the    *)
(* key that get returns is the oldest one, as long as no increment was lost *)
(* and the initialiser of tail ran (input.h:15-35).                         *)
FifoOrder ==
  TailInit = -1 /\ lost = 0 =>
    /\ \A i \in 1 .. Len(backlog) : queue[Slot(head, i - 1)] = backlog[i]
    /\ pc = "advance" => z = Head(backlog)

(* The timer repeats a key only while that key is down, with a character    *)
(* of that key: across shift presses and releases, in any order             *)
(* (ps2.cpp:12-40, interrupts.cpp:60-64).                                   *)
RepeatsOnlyHeldKey ==
  pressed_keys # 0 =>
    /\ last_code \in held
    /\ pressed_keys \in {Codes[last_code], CodesSh[last_code]}

(* A key that the counter knows of is fetched by the main loop, however     *)
(* often handlers interrupt it, unless one more increment is lost: each     *)
(* lost increment leaves one key waiting for later input                    *)
(* (kernel.cpp:22-28, input.h:26-33).                                       *)
KeyEventuallyFetched ==
  \A n \in 0 .. MaxLost :
    (lost = n /\ Len(backlog) > n) ~> (pc = "advance" \/ lost > n)

(* What get returns is the oldest key of the backlog (input.h:28-35),       *)
(* whatever the start-up code did.                                          *)
FetchesOldest == lost = 0 /\ pc = "advance" => z = Head(backlog)
=============================================================================
