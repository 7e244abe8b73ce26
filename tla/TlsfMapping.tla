----------------------------- MODULE TlsfMapping -----------------------------
(***************************************************************************)
(* The size arithmetic of memory/tlsf.c: how a request is rounded, and     *)
(* which of the segregated lists a size belongs to.                        *)
(***************************************************************************)
EXTENDS Integers

CONSTANTS
  Align,        \* BLOCK_ALIGN = MIN_BLOCK_SIZE = BHDR_OVERHEAD
  MaxLog2Sli,   \* MAX_LOG2_SLI
  SmallBlock,   \* SMALL_BLOCK
  FliOffset,    \* FLI_OFFSET
  RealFli,      \* REAL_FLI
  WordMod       \* 2^(bits of a size_t)

MaxSli == 2 ^ MaxLog2Sli
MinBlock == Align

ASSUME MappingAssumption ==
  /\ \E k \in 0 .. 30 : Align = 2 ^ k
  /\ MaxLog2Sli \in Nat \ {0} /\ RealFli \in Nat \ {0} /\ FliOffset \in Nat
  /\ SmallBlock = 2 ^ (FliOffset + 1) /\ FliOffset + RealFli <= 31 /\ WordMod \in Nat
  /\ MaxLog2Sli <= FliOffset + 1 /\ SmallBlock \div MaxSli <= Align

Class == (0 .. RealFli - 1) \X (0 .. MaxSli - 1)

(* ms_bit: position of the highest one of a positive word. *)
MsBit(r) == CHOOSE k \in 0 .. 31 : 2 ^ k <= r /\ r < 2 ^ (k + 1)

(* ROUNDUP_SIZE, in a word. *)
RoundUp(r) == LET s == (r + Align - 1) % WordMod IN s - (s % Align)
RoundDown(r) == r - (r % Align)

(* The size a request stands for. *)
Adjust(n) == IF n < MinBlock THEN MinBlock ELSE RoundUp(n)

(* MAPPING_INSERT: the list a free block of size r belongs to. *)
MappingInsert(r) ==
  IF r < SmallBlock
  THEN <<0, r \div (SmallBlock \div MaxSli)>>
  ELSE LET f == MsBit(r)
       IN  <<f - FliOffset, (r \div 2 ^ (f - MaxLog2Sli)) - MaxSli>>

(* A faulty form: not rounded. *)
SearchSizeExact(r) == r

(* MAPPING_SEARCH: r rounded up so that every block of its list is enough. *)
SearchSize(r) ==
  IF r < SmallBlock
  THEN r
  ELSE LET t == 2 ^ (MsBit(r) - MaxLog2Sli)
       IN  (r + t - 1) - ((r + t - 1) % t)
SearchClass(r) == MappingInsert(SearchSize(r))

(* The lists are searched in this order. *)
Before(c, d) == c[1] < d[1] \/ (c[1] = d[1] /\ c[2] <= d[2])

-----------------------------------------------------------------------------
(* The list that a request of n bytes is sent to, and a block of size s:    *)
(* the block has a list, is long enough if it is in that list or a later    *)
(* one, and is in no list before that of n if it is as long as n; and       *)
(* rounding costs less than one part in MaxSli (tlsf.c:317-349).            *)
GoodClass(n, s) ==
  LET r == Adjust(n)
      m == SearchSize(r)
  IN  /\ m >= n /\ m % Align = 0
      /\ r >= SmallBlock => MaxSli * (m - r) < r
      /\ MappingInsert(s) \in Class
      /\ Before(SearchClass(r), MappingInsert(s)) => s >= m
      /\ s >= r => Before(MappingInsert(r), MappingInsert(s))
=============================================================================
