-------------------------------- MODULE Heap --------------------------------
(***************************************************************************)
(* What malloc, free and realloc promise their callers                     *)
(* (includes/memory/memory.h): every pointer handed out names a region of  *)
(* the pool at least as long as was asked for, apart from every other      *)
(* region in use, until it is given back.                                  *)
(***************************************************************************)
EXTENDS Integers

CONSTANTS
  PoolSize,    \* bytes of the pool
  Requests     \* sizes callers ask for

VARIABLE live    \* length asked for, by pointer in use

Pointers == 1 .. PoolSize

(* The regions of length n that touch no region in use but old's. *)
Vacant(n, old) ==
  {p \in Pointers :
     /\ p + n <= PoolSize
     /\ \A q \in DOMAIN live \ old : p + n <= q \/ q + live[q] <= p}

(* live after p was handed out for n bytes and the pointers in old given back. *)
Grant(p, n, old) ==
  [q \in (DOMAIN live \ old) \cup {p} |-> IF q = p THEN n ELSE live[q]]

Release(old) == [q \in DOMAIN live \ old |-> live[q]]

Init == live = [p \in {} |-> 0]

Malloc(n) == \E p \in Vacant(n, {}) \ DOMAIN live : live' = Grant(p, n, {})

Free(p) == p \in DOMAIN live /\ live' = Release({p})

(* A region may grow or shrink in place, move, or be given back (size 0). *)
Realloc(p, n) ==
  /\ p \in DOMAIN live
  /\ \E q \in Vacant(n, {p}) \ (DOMAIN live \ {p}) : live' = Grant(q, n, {p})

Next ==
  \/ \E n \in Requests : Malloc(n)
  \/ \E p \in DOMAIN live : Free(p)
  \/ \E p \in DOMAIN live, n \in Requests : Realloc(p, n)

Spec == Init /\ [][Next]_live

-----------------------------------------------------------------------------
(* Regions in use lie in the pool. *)
InPool ==
  \A p \in DOMAIN live : p \in Pointers /\ live[p] \in Nat /\ p + live[p] <= PoolSize

(* Regions in use do not overlap. *)
Disjoint ==
  \A p, q \in DOMAIN live : p # q => p + live[p] <= q \/ q + live[q] <= p
=============================================================================
