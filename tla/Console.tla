------------------------------ MODULE Console -------------------------------
(***************************************************************************)
(* The text console (video.cpp) and what the kernel prints on it: single   *)
(* characters, strings, numbers, printf and log_debug.  One action is one  *)
(* print_char.  No interrupt handler prints.                               *)
(***************************************************************************)
EXTENDS Text, FiniteSets

CONSTANTS
  Width, Height,
  FirstCalls,   \* what may be printed first
  Calls,        \* what may be printed afterwards
  MaxLines      \* bound: lines of text in a run

ASSUME ScreenAssumption ==
  /\ Width \in Nat \ {0} /\ Height \in Nat \ {0}
  /\ MaxLines \in Nat

NewLine == "\n"
Return == "\r"
Nothing == <<>>
DefaultAttr == 15
Colors == [ok |-> 10, info |-> 11, error |-> 12, warning |-> 14]

VARIABLES
  screen,    \* video memory: a cell is <<character, attribute>> or Nothing
  cursor, attr,
  pending,   \* what the call in progress has still to do
  asked,     \* the call in progress or the last one
  lines,     \* ghost: the text printed, in lines of at most Width cells
  lost       \* ghost: the characters of it, <<line, column>>, that missed the screen

console == <<screen, cursor, attr, pending, asked, lines, lost>>

Cells == Width * Height
LabelFormat == <<[lit |-> " "],
                 [flags |-> <<[flag |-> "number", digits |-> <<"7">>]>>, conv |-> "s", long |-> FALSE],
                 [lit |-> " "]>>

(* Faulty form of scroll: the last row stays. *)
ScrolledKeeps(scr) ==
  [c \in 0 .. Cells - 1 |-> IF c + Width < Cells THEN scr[c + Width] ELSE scr[c]]
(* scroll *)
Scrolled(scr) ==
  [c \in 0 .. Cells - 1 |-> IF c + Width < Cells THEN scr[c + Width] ELSE Nothing]

(* print_int: a word with the sign bit set is printed as its magnitude,    *)
(* which for the smallest is negative again and prints as 0.               *)
PrintInt(a, base) ==
  IF a < WordMod \div 2 THEN Upper(Btoa(a, base))
  ELSE <<"-">> \o (IF Magnitude(a) >= WordMod \div 2 THEN <<"0">> ELSE Upper(Btoa(Magnitude(a), base)))

(* What a call does: characters, and in log_debug changes of attr. *)
Char(c) == [char |-> c]
Attr(a) == [attr |-> a]
Chars(s) == [i \in 1 .. Len(s) |-> Char(s[i])]
LogDebug(call, at) ==
  (IF at % Width # 0 THEN <<Char(NewLine)>> ELSE <<>>)
    \o <<Char("["), Attr(Colors[call.level])>>
    \o Chars(Vsprintf(LabelFormat, <<call.label>>))
    \o <<Attr(DefaultAttr), Char("]"), Char(" ")>>
    \o Chars(Vsprintf(call.format, call.args)) \o <<Char(NewLine)>>
Work(call, at) ==
  CASE call.do = "print_string" -> Chars(call.text)
    [] call.do = "print_int" -> Chars(PrintInt(call.value, call.base))
    [] call.do = "printf" -> Chars(Vsprintf(call.format, call.args))
    [] call.do = "log_debug" -> LogDebug(call, at)

ConsoleInit ==
  /\ screen = [c \in 0 .. Cells - 1 |-> Nothing]
  /\ cursor = 0 /\ attr = DefaultAttr
  /\ asked \in FirstCalls
  /\ pending = Work(asked, 0)
  /\ lines = <<Nothing>> /\ lost = {}

Call(c) ==
  /\ pending = <<>> /\ Len(lines) < MaxLines
  /\ asked' = c
  /\ pending' = Work(c, cursor)
  /\ UNCHANGED <<screen, cursor, attr, lines, lost>>

SetAttr ==
  /\ pending # <<>> /\ "attr" \in DOMAIN Head(pending)
  /\ attr' = Head(pending).attr
  /\ pending' = Tail(pending)
  /\ UNCHANGED <<screen, cursor, asked, lines, lost>>

(* print_char takes the next character, c. *)
Takes(c) == pending # <<>> /\ Head(pending) = Char(c) /\ pending' = Tail(pending)

PrintNewLine ==
  /\ Takes(NewLine)
  /\ LET row == cursor \div Width + 1
     IN IF row = Height
        THEN screen' = Scrolled(screen) /\ cursor' = (row - 1) * Width
        ELSE cursor' = row * Width /\ UNCHANGED screen
  /\ lines' = Append(lines, Nothing)
  /\ UNCHANGED <<attr, asked, lost>>

(* The test at the head of print_char: a cursor behind the last row goes   *)
(* up by one row, and the screen with it.                                  *)
Behind == cursor \div Width >= Height
ScreenNow == IF Behind THEN Scrolled(screen) ELSE screen
CursorNow == IF Behind THEN cursor - Width ELSE cursor

PrintReturn ==
  /\ Takes(Return)
  /\ screen' = ScreenNow /\ cursor' = CursorNow
  /\ UNCHANGED <<attr, asked, lines, lost>>

(* Any other character; in the text, a line of Width cells is followed by  *)
(* another.                                                                *)
PrintOther(c) ==
  /\ c \notin {NewLine, Return}
  /\ Takes(c)
  /\ LET cell == <<c, attr>>
         line == Append(Last(lines), cell)
         text == [lines EXCEPT ![Len(lines)] = line]
     IN /\ screen' = IF CursorNow < Cells THEN [ScreenNow EXCEPT ![CursorNow] = cell] ELSE ScreenNow
        /\ lost' = IF CursorNow < Cells THEN lost ELSE lost \cup {<<Len(lines), Len(line)>>}
        /\ lines' = IF Len(line) = Width THEN Append(text, Nothing) ELSE text
  /\ cursor' = CursorNow + 1
  /\ UNCHANGED <<attr, asked>>

ConsoleNext ==
  \/ \E c \in Calls : Call(c)
  \/ SetAttr \/ PrintNewLine \/ PrintReturn
  \/ pending # <<>> /\ "char" \in DOMAIN Head(pending) /\ PrintOther(Head(pending).char)

-----------------------------------------------------------------------------
(* The screen shows the end of the text, line under line, with the cursor  *)
(* at its end, through any number of scrolls and colours; what it does not *)
(* show was lost to newlines printed when the last cell had been written,  *)
(* each of which costs at most one of the characters that follow, so that  *)
(* nothing is lost without a full last row (video.cpp:34-40).              *)
LostToNewLines(l, c) ==
  \E j \in 1 .. l - 1 :
    /\ Len(lines[j]) = Width
    /\ Len(FlattenSeq(SubSeq(lines, j + 1, l - 1))) + c <= l - j - 1
Shown(l, c) ==
  IF l \in 1 .. Len(lines) /\ c \in 1 .. Len(lines[l]) /\ <<l, c>> \notin lost
  THEN lines[l][c] ELSE Nothing
ShowsText ==
  LET above == Len(lines) - 1 - cursor \div Width
  IN /\ cursor % Width = Len(Last(lines))
     /\ \A row \in 0 .. Height - 1, col \in 0 .. Width - 1 :
          screen[row * Width + col] = Shown(above + row + 1, col + 1)
     /\ \A x \in lost : LostToNewLines(x[1], x[2])

(* What a number looks like: its sign, and digits without a leading zero   *)
(* that read back as its magnitude.                                        *)
Reads(s, v, base, digits) ==
  /\ Len(s) > 0 /\ (Len(s) > 1 => s[1] # "0")
  /\ \A i \in 1 .. Len(s) : \E d \in 1 .. base : s[i] = digits[d]
  /\ Atob(s, base) = v
Signed(s, v) ==
  IF v < WordMod \div 2 THEN Reads(s, v, 10, Digits)
  ELSE s # <<>> /\ s[1] = "-" /\ Reads(Tail(s), WordMod - v, 10, Digits)
Represents(s, e, v) ==
  CASE e.conv \in {"d", "i"} /\ ~e.long -> Signed(s, v)
    [] e.conv = "X" -> Reads(s, v, 16, Capitals)
    [] e.conv \in {"s", "c"} -> s = v
    [] OTHER -> Reads(s, v, IF Bases[e.conv] < 0 THEN 10 ELSE Bases[e.conv], Digits)

(* A call of printf with one directive [flags, width, conv] prints the      *)
(* value, as long as it asks for no precision, in a field no wider than     *)
(* needed: blanks before it, behind it or evenly around it, or zeros before *)
(* it (string.cpp:345-495).  print_int prints its number, but for the       *)
(* smallest (video.cpp:58-72).                                              *)
Field(s, width, fmt, e, v) ==
  \E i \in 1 .. Len(s) + 1, j \in 0 .. Len(s) :
    LET left == SubSeq(s, 1, i - 1)
        right == SubSeq(s, j + 1, Len(s))
        pad == IF fmt = "zero" THEN "0" ELSE " "
    IN /\ i <= j + 1
       /\ Represents(SubSeq(s, i, j), e, v)
       /\ ToSet(left) \subseteq {pad} /\ ToSet(right) \subseteq {pad}
       /\ Len(s) = width \/ (Len(s) > width /\ i = 1 /\ j = Len(s))
       /\ fmt \in {"right", "zero"} => right = <<>>
       /\ fmt = "left" => left = <<>>
       /\ fmt = "center" => Len(left) - Len(right) \in {0, 1}
FieldsRight ==
  /\ asked.do = "printf" /\ Len(asked.format) = 1 /\ "field" \in DOMAIN asked =>
       Field(Vsprintf(asked.format, asked.args), asked.field.width, asked.field.fmt,
             asked.format[1], Last(asked.args))
  /\ asked.do = "print_int" /\ asked.value # WordMod \div 2 /\ asked.base = 10 =>
       Signed(PrintInt(asked.value, asked.base), asked.value)
=============================================================================
