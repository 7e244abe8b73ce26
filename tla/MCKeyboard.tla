----------------------------- MODULE MCKeyboard -----------------------------
(* Instance for TLC: one letter and a shift key. *)
EXTENDS Keyboard

LetterA == 30        \* make code of A
ShiftL == 42

MCScanCodes == {LetterA, ShiftL}
MCShiftCodes == {ShiftL}
MCCodes == [c \in MCScanCodes |-> IF c = LetterA THEN 97 ELSE 0]
MCCodesSh == [c \in MCScanCodes |-> IF c = LetterA THEN 65 ELSE 0]
NegOne == -1
=============================================================================
