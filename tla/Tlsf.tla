-------------------------------- MODULE Tlsf --------------------------------
(***************************************************************************)
(* The two-level segregated fit allocator of memory/tlsf.c behind malloc,  *)
(* free and realloc (memory/memory.cpp).  A heap is a value: the boundary  *)
(* tags of the pool, the free lists and the two bitmaps.  The macros and   *)
(* functions of tlsf.c are operators on it, and each call of the kernel is *)
(* one action: no interrupt handler allocates.                             *)
(*                                                                         *)
(* Sizes and addresses are bytes, scaled by the constants.  The payload of *)
(* blocks is not modelled: a header that a merge leaves inside a payload   *)
(* becomes Blank, whose fields no operation may rely on.                   *)
(***************************************************************************)
EXTENDS TlsfMapping, FiniteSets, FiniteSetsExt

CONSTANTS
  PoolSize,     \* bytes of the area behind tlsf_t
  Requests      \* sizes callers ask for

Overhead == Align
BhdrSize == 2 * Align    \* sizeof(bhdr_t)

(* The lists are made for blocks below LargestSize (1 GB).  The code checks *)
(* neither that the memory found fits (memory.cpp:25) nor that a request is *)
(* in their range; what follows is for machines and callers that keep to it.*)
LargestSize == 2 ^ (FliOffset + RealFli)
ASSUME TlsfAssumption ==
  /\ PoolSize \in Nat /\ PoolSize % Align = 0 /\ PoolSize >= 6 * Align
  /\ PoolSize - 4 * Align < LargestSize /\ PoolSize < WordMod
  /\ Requests \subseteq Nat
  /\ \A n \in Requests : /\ n + 2 * Align <= WordMod
                         /\ Adjust(n) < LargestSize /\ SearchSize(Adjust(n)) < LargestSize

VARIABLES
  heap,    \* the pool
  live     \* ghost: length asked for, by pointer the callers hold

vars == <<heap, live>>

Null == -1
Addr == {a \in 0 .. PoolSize - 1 : a % Align = 0}

Header(size, free, prevFree, prevHdr) ==
  [size |-> size, free |-> free, prevFree |-> prevFree, prevHdr |-> prevHdr,
   next |-> Null, prev |-> Null]
Blank == Header(-1, FALSE, FALSE, Null)

(* GET_NEXT_BLOCK(b->ptr.buffer, size) *)
After(b, size) == b + Overhead + size
NextBlock(h, b) == After(b, h.hdr[b].size)

Buffer(b) == b + Overhead       \* b->ptr.buffer, the pointer callers hold
BlockOf(ptr) == ptr - Overhead

-----------------------------------------------------------------------------
(* A faulty form: larger first-level classes are not searched. *)
FindSuitableNarrow(h, c) ==
  LET same == {s \in c[2] .. MaxSli - 1 : <<c[1], s>> \in h.sl}
  IN  IF same = {} THEN {} ELSE {<<c[1], Min(same)>>}

(* FIND_SUITABLE_BLOCK: the first non-empty list at or above c, or none. *)
FindSuitable(h, c) ==
  LET same == {s \in c[2] .. MaxSli - 1 : <<c[1], s>> \in h.sl}
      above == {f \in h.fl : f > c[1]}
  IN  IF same # {} THEN {<<c[1], Min(same)>>}
      ELSE IF above = {} THEN {}
      ELSE LET f == Min(above)
           IN  {<<f, Min({s \in 0 .. MaxSli - 1 : <<f, s>> \in h.sl})>>}

-----------------------------------------------------------------------------
(* Free lists *)

(* clear_bit of the lists of c, once the list of c is empty. *)
ClearBits(h, c) ==
  LET sl == h.sl \ {c}
  IN  [h EXCEPT !.sl = sl,
                !.fl = IF \E d \in sl : d[1] = c[1] THEN @ ELSE @ \ {c[1]}]

SetLink(h, b, next, prev) == [h EXCEPT !.hdr[b].next = next, !.hdr[b].prev = prev]

(* EXTRACT_BLOCK: unlinks b, whose list is taken to be c. *)
Extract(h, b, c) ==
  LET n == h.hdr[b].next
      p == h.hdr[b].prev
      h1 == IF n = Null THEN h ELSE [h EXCEPT !.hdr[n].prev = p]
      h2 == IF p = Null THEN h1 ELSE [h1 EXCEPT !.hdr[p].next = n]
      h3 == IF h2.matrix[c] # b THEN h2 ELSE [h2 EXCEPT !.matrix[c] = n]
      h4 == IF h2.matrix[c] = b /\ n = Null THEN ClearBits(h3, c) ELSE h3
  IN  SetLink(h4, b, Null, Null)

(* A faulty form: the block stays in its list. *)
ExtractHdrKeeps(h, b, c) == h

(* EXTRACT_BLOCK_HDR: takes the first block of the list of c. *)
ExtractHdr(h, b, c) ==
  LET n == h.hdr[b].next
      h1 == [h EXCEPT !.matrix[c] = n]
      h2 == IF n = Null THEN ClearBits(h1, c) ELSE [h1 EXCEPT !.hdr[n].prev = Null]
  IN  SetLink(h2, b, Null, Null)

(* A faulty form: the old first block does not learn of the new one. *)
InsertFreeOneWay(h, b) ==
  LET c == MappingInsert(h.hdr[b].size)
  IN  [SetLink(h, b, h.matrix[c], Null) EXCEPT
         !.matrix[c] = b, !.sl = h.sl \cup {c}, !.fl = h.fl \cup {c[1]}]

(* INSERT_BLOCK, at the front of the list of b's size. *)
InsertFree(h, b) ==
  LET c == MappingInsert(h.hdr[b].size)
      first == h.matrix[c]
      h1 == IF first = Null THEN h ELSE [h EXCEPT !.hdr[first].prev = b]
  IN  [SetLink(h1, b, first, Null) EXCEPT
         !.matrix[c] = b, !.sl = h.sl \cup {c}, !.fl = h.fl \cup {c[1]}]

(* Unlinks a free neighbour that is about to be merged. *)
ExtractFree(h, b) == Extract(h, b, MappingInsert(h.hdr[b].size))

MergedSize(h, b, n) == h.hdr[b].size + h.hdr[n].size + Overhead

(* A faulty form: a rest of a bare header is split off. *)
SplitsEarly(total, size) == total - size >= Overhead
Splits(total, size) == total - size >= BhdrSize

(* Cuts b down to size and makes a free block of the rest when it can hold  *)
(* one; otherwise b keeps its length.                                       *)
SplitOff(h, b, total, size) ==
  LET b2 == After(b, size)
      rest == total - size - Overhead
      next_b == After(b, total)
      h1 == [h EXCEPT
               !.hdr[b2] = Header(rest, TRUE, FALSE, @.prevHdr),
               !.hdr[next_b].prevHdr = b2,
               !.hdr[next_b].prevFree = TRUE,
               !.hdr[b].size = size,
               !.hdr[b].free = FALSE]
  IN  InsertFree(h1, b2)

-----------------------------------------------------------------------------
(* The allocator: results are a heap and the pointer returned. *)

(* malloc_ex *)
MallocEx(h, n) ==
  LET size == SearchSize(Adjust(n))
      found == FindSuitable(h, SearchClass(Adjust(n)))
  IN  IF found = {} THEN [heap |-> h, ptr |-> Null]
      ELSE LET c == CHOOSE d \in found : TRUE
               b == h.matrix[c]
               h1 == ExtractHdr(h, b, c)
               total == h.hdr[b].size
           IN  [heap |-> IF Splits(total, size)
                         THEN SplitOff(h1, b, total, size)
                         ELSE [h1 EXCEPT !.hdr[NextBlock(h, b)].prevFree = FALSE,
                                         !.hdr[b].free = FALSE],
                ptr |-> Buffer(b)]

(* Makes b and the block n behind it one, after one of them was unlinked in k. *)
Merge(h, k, b, n) == [k EXCEPT !.hdr[b].size = MergedSize(h, b, n), !.hdr[n] = Blank]

(* b with the free block behind it, and with the one in front of it. *)
Swallow(h, b, n) == Merge(h, ExtractFree(h, n), b, n)
SwallowInto(h, p, b) == Merge(h, ExtractFree(h, p), p, b)

(* b is free, and the block behind it learns of it. *)
Released(h, b) ==
  LET h1 == InsertFree([h EXCEPT !.hdr[b].free = TRUE], b)
  IN  [h1 EXCEPT !.hdr[NextBlock(h1, b)].prevFree = TRUE,
                 !.hdr[NextBlock(h1, b)].prevHdr = b]

(* free_ex: merges with the next and with the previous block if they are free. *)
FreeEx(h, ptr) ==
  LET b == BlockOf(ptr)
      n == NextBlock(h, b)
      p == h.hdr[b].prevHdr
      h1 == IF h.hdr[n].free THEN Swallow(h, b, n) ELSE h
  IN  IF h.hdr[b].prevFree THEN Released(SwallowInto(h1, p, b), p) ELSE Released(h1, b)

(* The length that memcpy moves. *)
Copied(old, size) == IF old > size THEN size ELSE old

(* realloc_ex of a block in use. *)
ReallocEx(h, ptr, n) ==
  LET b == BlockOf(ptr)
      old == h.hdr[b].size
      next_b == NextBlock(h, b)
      size == Adjust(n)
      spare == h.hdr[next_b].free
      h1 == IF spare THEN Swallow(h, b, next_b) ELSE h
      total == h1.hdr[b].size
      h2 == IF spare /\ size > old
            THEN [h1 EXCEPT !.hdr[After(b, total)].prevHdr = b,
                            !.hdr[After(b, total)].prevFree = FALSE]
            ELSE h1
      moved == MallocEx(h, size)
  IN  IF size <= old \/ (spare /\ size <= old + h.hdr[next_b].size)
      THEN [heap |-> IF Splits(total, size) THEN SplitOff(h2, b, total, size) ELSE h2,
            ptr |-> ptr, copied |-> old]
      ELSE IF moved.ptr = Null
      THEN [heap |-> h, ptr |-> Null, copied |-> 0]
      ELSE [heap |-> FreeEx(moved.heap, ptr), ptr |-> moved.ptr,
            copied |-> Copied(old, size)]

(* process_area, then free_ex of its one big block: init_memory_pool. *)
FirstBlock == 2 * Overhead
LastBlock == PoolSize - Overhead
InitHeap ==
  FreeEx([hdr |-> [a \in Addr |->
                     CASE a = 0 -> Header(Overhead, FALSE, FALSE, Null)
                       [] a = FirstBlock ->
                            Header(RoundDown(PoolSize - 4 * Overhead), FALSE, FALSE, Null)
                       [] a = LastBlock -> Header(0, FALSE, TRUE, FirstBlock)
                       [] OTHER -> Blank],
          matrix |-> [c \in Class |-> Null], sl |-> {}, fl |-> {}],
         Buffer(FirstBlock))

-----------------------------------------------------------------------------
Init == heap = InitHeap /\ live = [p \in {} |-> 0]

(* live after ptr was handed out for n bytes and those in old given back. *)
Hold(ptr, n, old) ==
  [q \in (DOMAIN live \ old) \cup {ptr} |-> IF q = ptr THEN n ELSE live[q]]

Malloc(n) ==
  LET r == MallocEx(heap, n)
  IN  /\ heap' = r.heap
      /\ live' = IF r.ptr = Null THEN live ELSE Hold(r.ptr, n, {})

Free(ptr) ==
  /\ heap' = FreeEx(heap, ptr)
  /\ live' = [q \in DOMAIN live \ {ptr} |-> live[q]]

(* realloc of a pointer in use; a size of 0 is free. *)
Realloc(ptr, n) ==
  LET r == ReallocEx(heap, ptr, n)
  IN  /\ n # 0
      /\ heap' = r.heap
      /\ live' = IF r.ptr = Null THEN live ELSE Hold(r.ptr, n, {ptr})

Next ==
  \/ \E n \in Requests : Malloc(n)
  \/ \E ptr \in DOMAIN live : Free(ptr)
  \/ \E ptr \in DOMAIN live, n \in Requests : Realloc(ptr, n)

Spec == Init /\ [][Next]_vars

-----------------------------------------------------------------------------
Blocks == {a \in Addr : heap.hdr[a] # Blank}
Inner == Blocks \ {0, LastBlock}
FreeBlocks == {a \in Blocks : heap.hdr[a].free}

(* Types: headers, lists and bitmaps are those of a heap, and only free     *)
(* blocks have links.                                                       *)
TypeOK ==
  /\ heap.hdr \in [Addr -> [size : -1 .. PoolSize, free : BOOLEAN, prevFree : BOOLEAN,
                            prevHdr : Addr \cup {Null}, next : Addr \cup {Null},
                            prev : Addr \cup {Null}]]
  /\ \A a \in Addr : heap.hdr[a].free \/ (heap.hdr[a].next = Null /\ heap.hdr[a].prev = Null)
  /\ heap.matrix \in [Class -> Addr \cup {Null}]
  /\ heap.sl \subseteq Class /\ heap.fl \subseteq 0 .. RealFli - 1
  /\ DOMAIN live \subseteq {Buffer(a) : a \in Addr}

(* Blocks tile the pool from the area header to the sentinel, tags agree    *)
(* with the neighbours they describe, and free blocks are never adjacent:   *)
(* after any sequence of splits and merges (tlsf.c:749-765, 790-808).       *)
Tiling ==
  /\ {0, LastBlock} \subseteq Blocks \ FreeBlocks
  /\ \A b \in Blocks \ {LastBlock} :
       LET n == NextBlock(heap, b)
       IN  /\ n \in Blocks /\ \A a \in Blocks : a <= b \/ a >= n
           /\ heap.hdr[n].prevFree = heap.hdr[b].free
           /\ heap.hdr[b].free => heap.hdr[n].prevHdr = b /\ ~heap.hdr[n].free
           /\ heap.hdr[b].size >= MinBlock /\ heap.hdr[b].size % Align = 0

(* Every block that is not free is held by exactly one caller, and is long  *)
(* enough for what that caller asked.                                       *)
Ownership ==
  /\ {BlockOf(p) : p \in DOMAIN live} = Inner \ FreeBlocks
  /\ \A p \in DOMAIN live : heap.hdr[BlockOf(p)].size >= live[p]

(* The blocks of the heap after any sequence of calls: the pool is tiled by *)
(* them, their tags agree, and callers hold those that are not free.        *)
BoundaryTags == TypeOK /\ Tiling /\ Ownership

(* The free lists hold exactly the free blocks, each in the list of its     *)
(* size, linked both ways; the bitmaps mark exactly the lists that are not  *)
(* empty (tlsf.c:372-411).                                                  *)
ListOf(c) == {b \in FreeBlocks : MappingInsert(heap.hdr[b].size) = c}
FreeLists ==
  /\ \A c \in Class :
       LET first == heap.matrix[c]
           l == ListOf(c)
       IN  /\ IF l = {} THEN first = Null ELSE first \in l /\ heap.hdr[first].prev = Null
           /\ \A b \in l :
                /\ heap.hdr[b].next # Null =>
                     heap.hdr[b].next \in l /\ heap.hdr[heap.hdr[b].next].prev = b
                /\ b # first =>
                     heap.hdr[b].prev \in l /\ heap.hdr[heap.hdr[b].prev].next = b
           /\ c \in heap.sl <=> l # {}
  /\ heap.fl = {c[1] : c \in heap.sl}

(* malloc fails only if no free block reaches the size class it searches    *)
(* from: no list at or above that class is missed (tlsf.c:352-369).         *)
FailsOnlyWhenNoFit ==
  \A n \in Requests :
    MallocEx(heap, n).ptr = Null =>
      \A b \in FreeBlocks : heap.hdr[b].size < SearchSize(Adjust(n))

(* A block that realloc moves takes along all that its caller stored and    *)
(* still has room for (tlsf.c:886-895).                                     *)
ReallocKeepsData ==
  \A p \in DOMAIN live, n \in Requests \ {0} :
    LET r == ReallocEx(heap, p, n)
    IN  r.ptr # Null => r.copied >= Min({live[p], n})

(* The rest of a block that malloc hands out is given back whenever it can  *)
(* be a block of its own (tlsf.c:750-761).                                  *)
NoWaste ==
  \A n \in Requests :
    LET r == MallocEx(heap, n)
    IN  r.ptr # Null =>
          r.heap.hdr[BlockOf(r.ptr)].size < SearchSize(Adjust(n)) + BhdrSize

(* The results of the next call, whatever came before it: malloc finds a    *)
(* block if there is one to be found and takes no more of it than it must,  *)
(* and a realloc that succeeds keeps the data (tlsf.c:352-369, 749-765,     *)
(* 886-895).                                                                *)
CallsAsPromised == FailsOnlyWhenNoFit /\ ReallocKeepsData /\ NoWaste

(* malloc, free and realloc implement the heap that callers expect. *)
Abstract == INSTANCE Heap
ImplementsHeap == Abstract!Spec
=============================================================================
