-------------------------------- MODULE Text --------------------------------
(***************************************************************************)
(* The formatting routines of string.cpp that printf and log_debug reach:  *)
(* btoa, atob, str_fmt and vsprintf.                                       *)
(*                                                                         *)
(* A string is the sequence of its characters before the terminator.  A    *)
(* format is a sequence of literal characters and directives, a directive  *)
(* a sequence of modifiers with a conversion.  Arguments are words of      *)
(* WordMod values, or strings for "s" and "c".  The parts under FLOATINGPT *)
(* are not compiled; with "e", "f", "g", or a format that ends inside a    *)
(* directive, vsprintf leaves no terminator or runs past the format's: no  *)
(* format of the kernel does that, and none does here.                     *)
(***************************************************************************)
EXTENDS Integers, Sequences, SequencesExt

CONSTANT WordMod   \* 2^32

ASSUME WordAssumption == WordMod \in Nat /\ WordMod > 1

Digits == <<"0", "1", "2", "3", "4", "5", "6", "7", "8", "9", "a", "b", "c", "d", "e", "f">>
Capitals == <<"0", "1", "2", "3", "4", "5", "6", "7", "8", "9", "A", "B", "C", "D", "E", "F">>
DigitOf(c) == CHOOSE d \in 0 .. 15 : Digits[d + 1] = c \/ Capitals[d + 1] = c

(* atob: the value of a string of digits, modulo a word. *)
Atob(s, base) == FoldLeft(LAMBDA v, c : (v * base + DigitOf(c)) % WordMod, 0, s)

(* Faulty form: the sign bit alone is taken off. *)
MagnitudeMasked(v) == v - WordMod \div 2
(* (~value) + 1 *)
Magnitude(v) == (WordMod - v) % WordMod

Numeral(value, base) ==
  LET n[v \in 0 .. WordMod - 1] ==
        IF v = 0 THEN <<>> ELSE Append(n[v \div base], Digits[(v % base) + 1])
  IN n[value]

(* btoa: base -10 is signed decimal. *)
Btoa(value, base) ==
  CASE value = 0 -> <<"0">>
    [] base = -10 /\ value >= WordMod \div 2 -> <<"-">> \o Numeral(Magnitude(value), 10)
    [] OTHER -> Numeral(value, IF base = -10 THEN 10 ELSE base)

(* llbtoa: its words are as wide, so the test of bit 63 never succeeds. *)
Llbtoa(value, base) ==
  IF value = 0 THEN <<"0">> ELSE Numeral(value, IF base = -10 THEN 10 ELSE base)

(* strtoupper, of a numeral *)
Upper(s) == [i \in 1 .. Len(s) |-> IF s[i] = "-" THEN "-" ELSE Capitals[DigitOf(s[i]) + 1]]

Repeat(c, n) == [i \in 1 .. n |-> c]

StrFmt(p, size, fmt) ==
  LET missing == size - Len(p)
      half == missing \div 2
  IN CASE missing <= 0 -> p
       [] fmt = "right" -> Repeat(" ", missing) \o p
       [] fmt = "left" -> p \o Repeat(" ", missing)
       [] fmt = "zero" -> Repeat("0", missing) \o p
       [] fmt = "center" -> Repeat(" ", missing - half) \o p \o Repeat(" ", half)

(* The modifiers of a directive; m holds fmt, width, trunc, haddot and the *)
(* arguments not used yet.                                                 *)
NoModifier(args) == [fmt |-> "right", width |-> 0, trunc |-> 0, dot |-> FALSE, args |-> args]
Sized(m, n) == IF m.dot THEN [m EXCEPT !.trunc = n] ELSE [m EXCEPT !.width = n]
Modify(m, f) ==
  CASE f.flag = "-" -> [m EXCEPT !.fmt = "left"]
    [] f.flag = "0" -> [m EXCEPT !.fmt = "zero"]
    [] f.flag = "~" -> [m EXCEPT !.fmt = "center"]
    [] f.flag = "." -> [m EXCEPT !.dot = TRUE]
    [] f.flag = "*" -> [Sized(m, Head(m.args)) EXCEPT !.args = Tail(m.args)]
    [] f.flag = "number" -> Sized(m, Atob(f.digits, 10))

Bases == [d |-> -10, i |-> -10, u |-> 10, x |-> 16, X |-> 16, p |-> 16, P |-> 16, r |-> 16,
          R |-> 16, o |-> 8, b |-> 2]
Addresses == {"p", "P", "r", "R"}

(* What a conversion leaves at d, and what d has moved over before. *)
Before(conv) == CASE conv = "%" -> <<"%">> [] conv \in {"p", "r"} -> <<"0", "x">> [] OTHER -> <<>>
Image(dir, arg) ==
  CASE dir.conv \in {"s", "c"} -> arg
    [] dir.conv \in DOMAIN Bases ->
         LET s == IF dir.long THEN Llbtoa(arg, Bases[dir.conv]) ELSE Btoa(arg, Bases[dir.conv])
         IN IF dir.conv = "X" THEN Upper(s) ELSE s
    [] dir.conv = "%" -> <<>>

(* One element of the format: a directive takes its argument, cuts its     *)
(* image to the precision and pads it to the width.                        *)
Put(st, e) ==
  IF "lit" \in DOMAIN e THEN [st EXCEPT !.out = Append(@, e.lit)]
  ELSE
    LET m == FoldLeft(Modify, NoModifier(st.args), e.flags)
        address == e.conv \in Addresses
        takes == e.conv # "%"
        image == Image(e, IF takes THEN Head(m.args) ELSE 0)
        cut == IF m.trunc > 0 /\ m.trunc < Len(image) THEN SubSeq(image, 1, m.trunc) ELSE image
    IN [out |-> st.out \o Before(e.conv)
                  \o StrFmt(cut, IF address THEN 8 ELSE m.width,
                            IF address THEN "zero" ELSE m.fmt),
        args |-> IF takes THEN Tail(m.args) ELSE m.args]

Vsprintf(format, args) == FoldLeft(Put, [out |-> <<>>, args |-> args], format).out
=============================================================================
