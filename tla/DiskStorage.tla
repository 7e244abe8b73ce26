---------------------------- MODULE DiskStorage -----------------------------
(***************************************************************************)
(* The storages of the kernel and their block cache (storage/storage.cpp), *)
(* with the map the cache is kept in (std/map.h).                          *)
(*                                                                         *)
(* A map is a set of pairs, each at the address malloc gave it; RbTree is  *)
(* the tree that holds them.  The comparison the cache uses (memcmp of     *)
(* map.h, lines 28-32) subtracts the addresses of two pairs, not their     *)
(* keys, and operator[] allocates the pair it searches with: a search      *)
(* meets only pairs at other addresses.  The maps' memory is never given   *)
(* back: rb_tree_dealloc is called without a callback and erase frees only *)
(* the pair it searched with.                                              *)
(*                                                                         *)
(* A driver that answers true may have moved less than it was asked for.  *)
(* Of an AHCI disk, which Ahci models, it has moved the sectors that its  *)
(* last PRDT entry describes (ahci.cpp:95-132); of a USB disk, whatever    *)
(* part arrived before the status, or nothing (msd.cpp:430-460).  So it is *)
(* for an ATA disk, whose driver always answers 1 (ata.cpp:139-160), and   *)
(* which the type "USB" stands for too.                                    *)
(***************************************************************************)
EXTENDS Integers, FiniteSets, Sequences

CONSTANTS
  Disks,     \* the entries of storages[] in use
  PerEntry,  \* sectors that an entry of the driver's PRDT describes: 16
  Sectors,   \* sectors of every disk
  Versions,  \* what a sector can hold
  Other,     \* anything else: what was in the buffer before, or a wrong part of the disk
  SectorCounts, \* sectors asked for by one call
  LaMax,     \* la_val above this empties the cache: 1e9
  LaMin,     \* la_val after that: -1e18
  MaxPairs   \* bound: pairs allocated

ASSUME DiskAssumption ==
  /\ Sectors \in Nat \ {0} /\ MaxPairs \in Nat
  /\ PerEntry \in Nat \ {0} /\ Other \notin Versions
  /\ SectorCounts \subseteq 1 .. Sectors
  /\ LaMax \in Nat /\ LaMin \in Int /\ LaMin < 0

LBAs == 0 .. Sectors - 1
Zero == [type |-> "none"]                \* a null _storage_cache_block *

VARIABLES
  platter,      \* external: what the sectors of each disk hold
  type,         \* disk_storage::type, which chooses the driver, by disk
  cache,        \* cache: LBA -> block, a set of pairs, by disk
  last_access,  \* last_access: la_val -> LBA, a set of pairs, by disk
  la_val,       \* disk_storage::la_val
  pairs,        \* ghost: pairs allocated so far; the next one's address
  dropped,      \* ghost: pairs of maps that were cleared, by disk
  reads,        \* ghost: by disk, calls of read, and those that succeeded
  done          \* ghost: last read that succeeded: whether the driver answers for
                \* every sector, what the buffer got, what the sectors hold

storage == <<platter, type, cache, last_access, la_val, pairs, dropped, reads, done>>

(* The driver's part of a read or a write, by number from 1: the sectors    *)
(* its command asks for, and those of them that it moves if it answers res. *)
LastEntry(n) == n - PerEntry * ((n - 1) \div PerEntry)
Commanded(d, n) == 1 .. (IF type[d] = "AHCI" THEN LastEntry(n) ELSE n)
Moves(d, lba, n, res, part) ==
  /\ part \subseteq Commanded(d, n) /\ \A i \in part : lba + i - 1 \in LBAs
  /\ res /\ type[d] = "AHCI" => part = Commanded(d, n)
Whole(d, n) == type[d] = "AHCI" /\ n <= PerEntry

(* What sectors hold, and what a buffer holds if only some are moved to it. *)
Held(d, lba, n) == [i \in 1 .. n |-> IF lba + i - 1 \in LBAs THEN platter[d][lba + i - 1] ELSE Other]
Moved(d, lba, n, part) == [i \in 1 .. n |-> IF i \in part THEN platter[d][lba + i - 1] ELSE Other]

(* Faulty form of the comparison: by key. *)
MemcmpKeys(a, b) == a.first - b.first

(* memcmp: zero if the two pairs are one. *)
Memcmp(a, b) == a.at - b.at

(* The pair operator[] returns for key k: one the search finds, else the   *)
(* new one at address p, with a null value.                                *)
PairFor(m, k, p) ==
  LET new == [at |-> p, first |-> k, second |-> Zero]
      hits == {x \in m : Memcmp(x, new) = 0}
  IN IF hits = {} THEN new ELSE CHOOSE x \in hits : TRUE

(* map m after operator[](k) = v with a pair allocated at p. *)
Assign(m, k, v, p) ==
  LET r == PairFor(m, k, p) IN (m \ {r}) \cup {[r EXCEPT !.second = v]}

(* map m after erase(k): the pair it searches with is freed again. *)
Erase(m, k, p) == {x \in m : Memcmp(x, [at |-> p, first |-> k, second |-> Zero]) # 0}
-----------------------------------------------------------------------------
StorageInit ==
  /\ platter \in [Disks -> [LBAs -> {CHOOSE v \in Versions : TRUE}]]
  /\ type \in [Disks -> {"AHCI", "USB"}]
  /\ cache = [d \in Disks |-> {}]
  /\ last_access = [d \in Disks |-> {}]
  /\ la_val = [d \in Disks |-> 0]
  /\ pairs = 0 /\ dropped = [d \in Disks |-> 0]
  /\ reads = [d \in Disks |-> [all |-> 0, good |-> 0]]
  /\ done = [whole |-> FALSE, got |-> <<>>, held |-> <<>>]

(* The block copied to the buffer: n sectors from its data, the sectors    *)
(* past its end being whatever lies there.                                 *)
FromBlock(b, n) ==
  IF n <= Len(b.buf) THEN SubSeq(b.buf, 1, n)
  ELSE b.buf \o [i \in 1 .. n - Len(b.buf) |-> Other]

(* A read answered from the cache. *)
Hit(d, lba, n, scb, c, la, val) ==
  LET kept == IF scb.la # LaMin - 1 THEN Erase(la, scb.la, pairs + 1) ELSE la
  IN /\ cache' = [cache EXCEPT ![d] =
                    {IF x.second = scb THEN [x EXCEPT !.second.la = val] ELSE x : x \in c}]
     /\ last_access' = [last_access EXCEPT ![d] = Assign(kept, val, lba, pairs + 2)]
     /\ la_val' = [la_val EXCEPT ![d] = val + 1]
     /\ pairs' = pairs + 2
     /\ done' = [whole |-> Whole(d, n), got |-> FromBlock(scb, n), held |-> Held(d, lba, n)]
     /\ reads' = [reads EXCEPT ![d].all = @ + 1, ![d].good = @ + 1]

(* A read the disk answered: the buffer, whatever is in it, is copied to a *)
(* new block.                                                              *)
Fill(d, lba, n, part, c, la, val) ==
  LET block == [type |-> "block", LBA |-> lba, la |-> val, buf |-> Moved(d, lba, n, part)]
  IN /\ last_access' = [last_access EXCEPT ![d] = Assign(la, val, lba, pairs + 2)]
     /\ la_val' = [la_val EXCEPT ![d] = val + 1]
     /\ cache' = [cache EXCEPT ![d] = Assign(c, lba, block, pairs + 3)]
     /\ pairs' = pairs + 3
     /\ done' = [whole |-> Whole(d, n), got |-> block.buf, held |-> Held(d, lba, n)]
     /\ reads' = [reads EXCEPT ![d].all = @ + 1, ![d].good = @ + 1]

(* disk_storage::read.  scb is taken before the cache is emptied; res is   *)
(* what the driver of the disk answers, and part what it moved.          *)
Read(d, lba, n, res, part) ==
  /\ pairs + 3 <= MaxPairs
  /\ Moves(d, lba, n, res, part)
  /\ LET pair == PairFor(cache[d], lba, pairs + 1)
         full == la_val[d] > LaMax
         found == cache[d] \cup {pair}
         c == IF full THEN {} ELSE found
         la == IF full THEN {} ELSE last_access[d]
         val == IF full THEN LaMin ELSE la_val[d]
     IN /\ dropped' = IF full
                      THEN [dropped EXCEPT ![d] = @ + Cardinality(found) + Cardinality(last_access[d])]
                      ELSE dropped
        /\ IF pair.second # Zero THEN Hit(d, lba, n, pair.second, c, la, val)
           ELSE IF res THEN Fill(d, lba, n, part, c, la, val)
           ELSE /\ cache' = [cache EXCEPT ![d] = c]
                /\ last_access' = [last_access EXCEPT ![d] = la]
                /\ la_val' = [la_val EXCEPT ![d] = val]
                /\ pairs' = pairs + 1
                /\ reads' = [reads EXCEPT ![d].all = @ + 1]
                /\ UNCHANGED done
  /\ UNCHANGED <<platter, type>>

(* disk_storage::write: the cache is not touched.  A driver that fails may *)
(* have moved a part too.                                                 *)
Write(d, lba, n, v, res, part) ==
  /\ Moves(d, lba, n, res, part)
  /\ platter' = [platter EXCEPT ![d] = [s \in LBAs |-> IF s - lba + 1 \in part THEN v ELSE @[s]]]
  /\ UNCHANGED <<type, cache, last_access, la_val, pairs, dropped, reads, done>>
-----------------------------------------------------------------------------
(* No read is answered from the past: a sector in the buffer of a read that *)
(* succeeds is what the disk holds at that moment, or one that the driver   *)
(* did not move; and where the driver moves all it answers for, an AHCI     *)
(* disk asked for no more than one PRDT entry describes, all of them are    *)
(* what the disk holds.  Writes leave the blocks of the cache as they are   *)
(* (line 76), the blocks of partial reads stay there as if they were whole  *)
(* (line 63), and a block would be copied without regard to how much was    *)
(* read into it (line 35); but memcmp makes no two pairs equal, so no block *)
(* is ever found.                                                           *)
ReadsFresh ==
  /\ \A i \in DOMAIN done.got : done.got[i] \in {done.held[i], Other}
  /\ done.whole => done.got = done.held

(* The price: no entry is ever used again and none is given back.  Each     *)
(* call leaves a pair, and two more when it succeeds (lines 23, 70-72), far *)
(* past the CACHE_MAX_RECORDS records of storage.h:11, which nothing looks  *)
(* at.                                                                      *)
PairsAccounted ==
  \A d \in Disks :
    Cardinality(cache[d]) + Cardinality(last_access[d]) + dropped[d]
      = reads[d].all + 2 * reads[d].good
=============================================================================
