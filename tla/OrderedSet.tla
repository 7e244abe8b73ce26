----------------------------- MODULE OrderedSet -----------------------------
(***************************************************************************)
(* What std/trees.h promises its callers (std/map.h): a finite set of      *)
(* values that can be searched, and walked in order in both directions     *)
(* from either end.                                                        *)
(***************************************************************************)
EXTENDS Integers

CONSTANTS
  Values,   \* the values callers store
  None      \* no value: NULL

VARIABLES
  set,      \* the values stored
  at,       \* where the walk stands, None before a walk and past its end
  found     \* the answer of the last operation, if it was a search

Least(S) == {v \in S : \A w \in S : v <= w}
Greatest(S) == {v \in S : \A w \in S : w <= v}

(* at' is the element of S, which has at most one, or None. *)
MoveTo(S) == IF S = {} THEN at' = None ELSE at' \in S

Init == set = {} /\ at = None /\ found = None

Insert(v) == set' = set \cup {v} /\ at' = None /\ found' = None
Remove(v) == set' = set \ {v} /\ at' = None /\ found' = None
Clear == set' = {} /\ at' = None /\ found' = None
Find(v) == found' = (IF v \in set THEN v ELSE None) /\ at' = None /\ UNCHANGED set

First == MoveTo(Least(set)) /\ found' = None /\ UNCHANGED set
Last == MoveTo(Greatest(set)) /\ found' = None /\ UNCHANGED set
Forward == at # None /\ MoveTo(Least({v \in set : v > at})) /\ UNCHANGED <<set, found>>
Backward == at # None /\ MoveTo(Greatest({v \in set : v < at})) /\ UNCHANGED <<set, found>>

Next ==
  \/ \E v \in Values : Insert(v) \/ Remove(v) \/ Find(v)
  \/ Clear
  \/ First \/ Last \/ Forward \/ Backward

Spec == Init /\ [][Next]_<<set, at, found>>
=============================================================================
