------------------------------- MODULE RbTree -------------------------------
(***************************************************************************)
(* The red-black tree under every map of the kernel (std/trees.cpp).       *)
(*                                                                         *)
(* Insertion and removal go down the tree once, from a false root above    *)
(* the real one, recolouring and rotating on the way: each turn of a loop  *)
(* is one action, and "call" holds the locals of the function between two  *)
(* turns.  Calls do not overlap: no interrupt handler uses a tree.  Nodes  *)
(* are the blocks malloc hands out; the values are compared as integers,   *)
(* as rb_tree_node_cmp_ptr_cb does (lines 62-65).                          *)
(***************************************************************************)
EXTENDS Integers, FiniteSets, Sequences

CONSTANTS
  Nodes,    \* bound: blocks malloc can hand out as nodes
  Values,   \* the values callers store
  Null,     \* NULL
  FalseRoot, \* the false root on the stack
  MaxOdd    \* bound: insertions of a present and removals of an absent value

ASSUME ValuesAssumption == Values \subseteq Nat /\ MaxOdd \in Nat
ASSUME NodesAssumption ==
  IsFiniteSet(Nodes) /\ Null \notin Nodes /\ FalseRoot \notin Nodes \cup {Null}

VARIABLES
  root, size,   \* rb_tree
  mem,          \* the nodes and the false root, by address
  used,         \* the nodes malloc has handed out and free has not taken back
  call,         \* locals of the call under way, [op |-> "none"] between calls
  node, path,   \* rb_iter: current node and the nodes above it
  found,        \* what the last call returned, if it was rb_tree_find
  leaked,       \* ghost: nodes created for a value that was there already
  drift         \* ghost: what such insertions and absent removals did to size

vars == <<root, size, mem, used, call, node, path, found, leaked, drift>>
iterator == <<node, path>>

Idle == [op |-> "none"]
Links == {0, 1}
Blank == [red |-> FALSE, link |-> [d \in Links |-> Null], value |-> Null]

(* rb_node_is_red, and the child of n on side d. *)
IsRed(m, n) == n # Null /\ m[n].red
Child(m, n, d) == m[n].link[d]
SetLink(m, n, d, c) == [m EXCEPT ![n].link[d] = c]
Paint(m, n, colour) == [m EXCEPT ![n].red = colour]

(* The memory after rb_node_rotate(n, d); what it returns is the node that *)
(* was n's child on the other side.                                        *)
Rotate(m, n, d) ==
  LET r == Child(m, n, 1 - d)
  IN [m EXCEPT ![n].link[1 - d] = Child(m, r, d), ![n].red = TRUE,
               ![r].link[d] = n, ![r].red = FALSE]

(* rb_node_rotate2: the child is rotated the other way first; what it      *)
(* returns is the inner grandchild.                                        *)
Rotate2(m, n, d) ==
  LET c == Child(m, n, 1 - d)
  IN Rotate(SetLink(Rotate(m, c, 1 - d), n, 1 - d, Child(m, c, d)), n, d)

Inner(m, n, d) == Child(m, Child(m, n, 1 - d), d)

(* n, turned to side d below its parent p on side s of it: p->link[s] =    *)
(* rotate(n, d), and the same with rotate2.                                *)
RotateUnder(m, p, s, n, d) == SetLink(Rotate(m, n, d), p, s, Child(m, n, 1 - d))
Rotate2Under(m, p, s, n, d) == SetLink(Rotate2(m, n, d), p, s, Inner(m, n, d))

SideOf(m, p, n) == IF Child(m, p, 1) = n THEN 1 ELSE 0
Toward(m, n, v) == IF m[n].value < v THEN 1 ELSE 0

(* The nodes of the tree below n. *)
Below(m, n) ==
  LET sub[k \in 0 .. Cardinality(Nodes)] ==
        IF k = 0 THEN {n} \ {Null}
        ELSE sub[k - 1] \cup ({Child(m, a, d) : a \in sub[k - 1], d \in Links} \ {Null})
  IN sub[Cardinality(Nodes)]

(* The tree as the call under way sees it: its false root points to it. *)
Top == IF call.op \in {"insert", "remove"} THEN Child(mem, FalseRoot, 1) ELSE root
Contents == {mem[n].value : n \in Below(mem, Top)}
-----------------------------------------------------------------------------
Init ==
  /\ root = Null /\ size = 0
  /\ mem = [n \in Nodes \cup {FalseRoot} |-> Blank]
  /\ used = {} /\ call = Idle
  /\ node = Null /\ path = <<>>
  /\ found = Null
  /\ leaked = {} /\ drift = 0

NoWalk == node' = Null /\ path' = <<>>

(* rb_node_create, and the first node of a tree or the start of the search. *)
Insert(v) ==
  /\ call = Idle
  /\ v \in Contents => Cardinality(leaked) < MaxOdd
  /\ \E n \in Nodes \ used :
       LET m == [mem EXCEPT ![n] = [Blank EXCEPT !.red = TRUE, !.value = v]]
       IN /\ used' = used \cup {n}
          /\ IF root = Null
             THEN /\ root' = n
                  /\ mem' = Paint(m, n, FALSE)
                  /\ size' = size + 1
                  /\ UNCHANGED call
             ELSE /\ mem' = [m EXCEPT ![FalseRoot] = [Blank EXCEPT !.link[1] = root]]
                  /\ call' = [op |-> "insert", new |-> n, t |-> FalseRoot, g |-> Null,
                              p |-> Null, q |-> root, dir |-> 0, last |-> 0]
                  /\ UNCHANGED <<root, size>>
  /\ NoWalk /\ found' = Null
  /\ UNCHANGED <<leaked, drift>>

(* The new node is linked where the search ends; two red children hand     *)
(* their colour up.                                                        *)
LinkOrFlip(m, c) ==
  LET q == c.q IN
  IF q = Null THEN SetLink(m, c.p, c.dir, c.new)
  ELSE IF IsRed(m, Child(m, q, 0)) /\ IsRed(m, Child(m, q, 1))
       THEN Paint(Paint(Paint(m, q, TRUE), Child(m, q, 0), FALSE), Child(m, q, 1), FALSE)
       ELSE m

(* Faulty form: an inner grandchild is rotated like an outer one. *)
FixOuterOnly(m, c, q) ==
  IF ~(IsRed(m, q) /\ IsRed(m, c.p)) THEN m
  ELSE RotateUnder(m, c.t, SideOf(m, c.t, c.g), c.g, 1 - c.last)

(* A red node under a red parent: the grandparent is rotated away. *)
FixRedRed(m, c, q) ==
  IF ~(IsRed(m, q) /\ IsRed(m, c.p)) THEN m
  ELSE LET side == SideOf(m, c.t, c.g)
       IN IF q = Child(m, c.p, c.last)
          THEN RotateUnder(m, c.t, side, c.g, 1 - c.last)
          ELSE Rotate2Under(m, c.t, side, c.g, 1 - c.last)

(* One turn of the loop of rb_tree_insert_node; the node of the value ends *)
(* it, whether it is the new one or one that was there.                    *)
InsertTurn ==
  /\ call.op = "insert"
  /\ LET q == IF call.q = Null THEN call.new ELSE call.q
         m == FixRedRed(LinkOrFlip(mem, call), call, q)
         v == m[call.new].value
         dir == Toward(m, q, v)
     IN IF m[q].value = v
        THEN /\ root' = Child(m, FalseRoot, 1)
             /\ mem' = [n \in DOMAIN m |->
                          IF n = FalseRoot \/ (n = call.new /\ q # n) THEN Blank
                          ELSE [m[n] EXCEPT !.red = @ /\ n # root']]
             /\ size' = size + 1
             /\ IF q = call.new THEN UNCHANGED <<leaked, drift>>
                ELSE leaked' = leaked \cup {call.new} /\ drift' = drift + 1
             /\ call' = Idle
        ELSE /\ mem' = m
             /\ call' = [call EXCEPT
                           !.t = IF call.g # Null THEN call.g ELSE @,
                           !.g = call.p, !.p = q, !.q = Child(m, q, dir),
                           !.last = call.dir, !.dir = dir]
             /\ UNCHANGED <<root, size, leaked, drift>>
  /\ UNCHANGED <<used, iterator, found>>
-----------------------------------------------------------------------------
(* rb_tree_remove_with_cb with a callback that frees the node. *)
Remove(v) ==
  /\ call = Idle
  /\ v \notin Contents /\ root # Null => drift > -MaxOdd
  /\ IF root = Null THEN UNCHANGED <<mem, call>>
     ELSE /\ mem' = [mem EXCEPT ![FalseRoot] = [Blank EXCEPT !.link[1] = root]]
          /\ call' = [op |-> "remove", value |-> v, g |-> Null, p |-> Null,
                      q |-> FalseRoot, f |-> Null, dir |-> 1]
  /\ NoWalk /\ found' = Null
  /\ UNCHANGED <<root, size, used, leaked, drift>>

(* The sibling s of q takes part: it is painted red with q when its        *)
(* children are black, else p is rotated so that q gets a red parent.      *)
BorrowFromSibling(m, g, p, q, s, last) ==
  IF ~IsRed(m, Child(m, s, 0)) /\ ~IsRed(m, Child(m, s, 1))
  THEN Paint(Paint(Paint(m, p, FALSE), s, TRUE), q, TRUE)
  ELSE LET side == SideOf(m, g, p)
           turned == IF IsRed(m, Child(m, s, last))
                     THEN Rotate2Under(m, g, side, p, last)
                     ELSE RotateUnder(m, g, side, p, last)
           top == Child(turned, g, side)
           reds == Paint(Paint(turned, q, TRUE), top, TRUE)
       IN Paint(Paint(reds, Child(reds, top, 0), FALSE), Child(reds, top, 1), FALSE)

(* One turn of the search: a red node is pushed down ahead of it. *)
RemoveTurn ==
  /\ call.op = "remove" /\ Child(mem, call.q, call.dir) # Null
  /\ LET g == call.p
         p == call.q
         last == call.dir
         q == Child(mem, p, last)
         dir == Toward(mem, q, call.value)
         black == ~IsRed(mem, q) /\ ~IsRed(mem, Child(mem, q, dir))
         leans == black /\ IsRed(mem, Child(mem, q, 1 - dir))
         s == Child(mem, p, 1 - last)
     IN /\ mem' = IF leans THEN RotateUnder(mem, p, last, q, dir)
                  ELSE IF black /\ s # Null THEN BorrowFromSibling(mem, g, p, q, s, last)
                  ELSE mem
        /\ call' = [call EXCEPT
                      !.g = g, !.q = q, !.dir = dir,
                      !.p = IF leans THEN Child(mem, q, 1 - dir) ELSE p,
                      !.f = IF mem[q].value = call.value THEN q ELSE @]
  /\ UNCHANGED <<root, size, used, iterator, found, leaked, drift>>

(* Faulty form: the node found is freed, not the one its value went to. *)
RemoveEndFreesFound ==
  /\ call.op = "remove" /\ Child(mem, call.q, call.dir) = Null
  /\ LET p == call.p
         q == call.q
         orphan == Child(mem, q, IF Child(mem, q, 0) = Null THEN 1 ELSE 0)
     IN /\ mem' = IF call.f = Null THEN mem ELSE SetLink(mem, p, SideOf(mem, p, q), orphan)
        /\ root' = Child(mem', FalseRoot, 1)
        /\ used' = used \ {call.f}
        /\ drift' = IF call.f = Null THEN drift - 1 ELSE drift
  /\ size' = size - 1
  /\ call' = Idle
  /\ UNCHANGED <<iterator, found, leaked>>

(* At the bottom: the value found is swapped down into the last node, which *)
(* is unlinked and freed.                                                   *)
RemoveEnd ==
  /\ call.op = "remove" /\ Child(mem, call.q, call.dir) = Null
  /\ LET p == call.p
         q == call.q
         f == call.f
         orphan == Child(mem, q, IF Child(mem, q, 0) = Null THEN 1 ELSE 0)
         m == IF f = Null THEN mem
              ELSE SetLink([mem EXCEPT ![f].value = mem[q].value, ![q].value = mem[f].value],
                           p, SideOf(mem, p, q), orphan)
         freed == IF f = Null THEN {} ELSE {q}
     IN /\ root' = Child(m, FalseRoot, 1)
        /\ mem' = [n \in DOMAIN m |-> IF n \in freed \cup {FalseRoot} THEN Blank
                                      ELSE IF n = root' THEN [m[n] EXCEPT !.red = FALSE]
                                      ELSE m[n]]
        /\ used' = used \ freed
        /\ drift' = IF f = Null THEN drift - 1 ELSE drift
  /\ size' = size - 1
  /\ call' = Idle
  /\ UNCHANGED <<iterator, found, leaked>>
-----------------------------------------------------------------------------
(* rb_tree_find. *)
Lookup(m, n, v) ==
  LET at[k \in 0 .. Cardinality(Nodes)] ==
        IF k = 0 THEN n
        ELSE LET a == at[k - 1]
             IN IF a = Null \/ m[a].value = v THEN a ELSE Child(m, a, Toward(m, a, v))
      it == at[Cardinality(Nodes)]
  IN IF it = Null THEN Null ELSE m[it].value

Find(v) ==
  /\ call = Idle
  /\ found' = Lookup(mem, root, v)
  /\ NoWalk
  /\ UNCHANGED <<root, size, mem, used, call, leaked, drift>>

(* rb_tree_dealloc with a callback that frees, and the new tree that takes *)
(* its place (rb_tree_create): left links are rotated away until the tree  *)
(* is a list.                                                              *)
Dealloc ==
  /\ call = Idle
  /\ call' = [op |-> "dealloc", node |-> root]
  /\ NoWalk /\ found' = Null
  /\ UNCHANGED <<root, size, mem, used, leaked, drift>>

DeallocTurn ==
  /\ call.op = "dealloc" /\ call.node # Null
  /\ LET n == call.node
         left == Child(mem, n, 0)
     IN IF left = Null
        THEN /\ used' = used \ {n}
             /\ mem' = [mem EXCEPT ![n] = Blank]
             /\ call' = [call EXCEPT !.node = Child(mem, n, 1)]
        ELSE /\ mem' = SetLink(SetLink(mem, n, 0, Child(mem, left, 1)), left, 1, n)
             /\ call' = [call EXCEPT !.node = left]
             /\ UNCHANGED used
  /\ UNCHANGED <<root, size, iterator, found, leaked, drift>>

DeallocEnd ==
  /\ call.op = "dealloc" /\ call.node = Null
  /\ root' = Null /\ size' = 0 /\ drift' = 0 /\ call' = Idle
  /\ UNCHANGED <<mem, used, iterator, found, leaked>>
-----------------------------------------------------------------------------
(* The nodes from n down side d. *)
Spine(n, d) ==
  LET down[k \in 0 .. Cardinality(Nodes)] ==
        IF k = 0 THEN <<n>>
        ELSE LET s == down[k - 1]
                 c == Child(mem, s[Len(s)], d)
             IN IF c = Null THEN s ELSE Append(s, c)
  IN down[Cardinality(Nodes)]

(* The iterator stands on the last node of s, the others above it. *)
StandOn(s) == node' = s[Len(s)] /\ path' = SubSeq(s, 1, Len(s) - 1)

(* rb_iter_first (d = 0) and rb_iter_last (d = 1). *)
IterStart(d) ==
  /\ call = Idle
  /\ IF root = Null THEN NoWalk ELSE StandOn(Spine(root, d))
  /\ found' = Null
  /\ UNCHANGED <<root, size, mem, used, call, leaked, drift>>

(* Faulty form: the iterator climbs one node only. *)
IterMoveOneUp(d) ==
  /\ call = Idle /\ node # Null
  /\ LET all == Append(path, node)
     IN IF Child(mem, node, d) # Null
        THEN StandOn(all \o Spine(Child(mem, node, d), 1 - d))
        ELSE IF path = <<>> THEN NoWalk ELSE StandOn(path)
  /\ UNCHANGED <<root, size, mem, used, call, found, leaked, drift>>

(* rb_iter_next (d = 1) and rb_iter_prev (d = 0): down the other side, or  *)
(* up to the first node reached from its side 1 - d.                       *)
IterMove(d) ==
  /\ call = Idle /\ node # Null
  /\ LET all == Append(path, node)
         turns == {i \in 1 .. Len(path) : Child(mem, all[i], d) # all[i + 1]}
     IN IF Child(mem, node, d) # Null
        THEN StandOn(all \o Spine(Child(mem, node, d), 1 - d))
        ELSE IF turns = {} THEN NoWalk
        ELSE StandOn(SubSeq(all, 1, CHOOSE i \in turns : \A j \in turns : j <= i))
  /\ UNCHANGED <<root, size, mem, used, call, found, leaked, drift>>

Turn == InsertTurn \/ RemoveTurn \/ RemoveEnd \/ DeallocTurn \/ DeallocEnd

Next ==
  \/ \E v \in Values : Insert(v) \/ Remove(v) \/ Find(v)
  \/ Dealloc
  \/ Turn
  \/ \E d \in Links : IterStart(d) \/ IterMove(d)

Spec == Init /\ [][Next]_vars
-----------------------------------------------------------------------------
(* rb_tree_test, with the height of the tree as fuel: 0 for a broken tree, *)
(* else the black nodes on every way down, plus one.                       *)
Test(m, r) ==
  LET t[k \in 0 .. Cardinality(Nodes), n \in Nodes \cup {Null}] ==
        IF n = Null THEN 1
        ELSE IF k = 0 THEN 0
        ELSE LET ln == Child(m, n, 0)
                 rn == Child(m, n, 1)
                 lh == t[k - 1, ln]
                 rh == t[k - 1, rn]
             IN IF \/ m[n].red /\ (IsRed(m, ln) \/ IsRed(m, rn))
                   \/ ln # Null /\ m[ln].value >= m[n].value
                   \/ rn # Null /\ m[rn].value <= m[n].value
                   \/ lh = 0 \/ rh = 0 \/ lh # rh
                THEN 0
                ELSE IF m[n].red THEN lh ELSE lh + 1
  IN t[Cardinality(Nodes), r]

(* Whatever calls came before, the tree passes the kernel's own test of a   *)
(* red-black tree between two calls, and its root is black.                 *)
TestPasses == call = Idle => Test(mem, root) # 0 /\ ~IsRed(mem, root)

(* Every block in use as a node hangs in the tree once, or is the node of a *)
(* present value inserted again, which nothing frees (lines 198-200): no    *)
(* rotation drops a subtree and no node is used after it was freed.  size   *)
(* counts the nodes but for those insertions and for removals of absent     *)
(* values (lines 252, 370).                                                 *)
Held ==
  Below(mem, IF call.op = "dealloc" THEN call.node ELSE Top)
    \cup (IF call.op = "insert" THEN {call.new} ELSE {})
NodesAccounted ==
  /\ used = Held \cup leaked
  /\ Held \cap leaked = {}
  /\ call = Idle => size = Cardinality(Held) + drift

(* Through all turns of all loops the tree holds the set it should, a find  *)
(* finds what it holds and the iterator visits it in order.                 *)
OS == INSTANCE OrderedSet WITH
        None <- Null,
        set <- IF call.op = "dealloc" THEN {} ELSE Contents,
        at <- IF node = Null THEN Null ELSE mem[node].value
ImplementsSet == OS!Spec
=============================================================================
