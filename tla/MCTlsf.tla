-------------------------------- MODULE MCTlsf --------------------------------
(***************************************************************************)
(* A small heap for TLC, and the size classes at the kernel's own          *)
(* constants (tlsf.c:132-148), for requests and blocks around every power  *)
(* of two and every boundary of a list, up to the largest size the lists   *)
(* are made for.                                                           *)
(***************************************************************************)
EXTENDS Tlsf

Kernel == INSTANCE TlsfMapping WITH
            Align <- 8, MaxLog2Sli <- 5, SmallBlock <- 128, FliOffset <- 6, RealFli <- 24,
            WordMod <- 2147483647

Powers == {2 ^ k : k \in 3 .. 29}
Near == UNION {{p - 9, p - 8, p - 1, p, p + 1, p + 7, p + 8, p + p \div 32,
                p + p \div 32 + 8, p + p \div 2 - 8} : p \in Powers}
MCSizes == {x \in Near : x > 0 /\ x < 2 ^ 30}
BlockSizes == {x \in MCSizes : x % 8 = 0}
=============================================================================
