----------------------------- MODULE EhciProofs -----------------------------
(***************************************************************************)
(* Proofs about the transfers of the EHCI driver, for pools of any size,   *)
(* any endpoints, transfers of any length, any timeout and any behaviour   *)
(* of the controller and the devices.                                      *)
(***************************************************************************)
EXTENDS Ehci, TLAPS, WellFoundedInduction, FiniteSetTheorems

Chain(q) == ChainFrom(chain[q])

(* Queue heads taken from the pool: those on the schedule and, until it is  *)
(* linked, the one of the call.                                             *)
Busy == Range(list) \cup (IF pc \in {"token", "insert"} THEN {cur} ELSE {})

(* The driver works on a transfer that is not over yet. *)
Working == pc \in {"halted", "link", "active", "retire"}
           \/ (pc \in {"wait", "leave"} /\ ~complete)

(* The links follow the list, and end at the head off the list. *)
Ring ==
  /\ \A i \in 1 .. Len(list) : qhlp[list[i]] = IF i = Len(list) THEN AsyncHead ELSE list[i + 1]
  /\ qhlp[AsyncHead] = IF list = <<>> THEN AsyncHead ELSE list[1]
  /\ \A q \in QH \ Range(list) : qhlp[q] = AsyncHead
  /\ IsInjective(list)

(* Where the queue head of the call is at each place of the driver: only    *)
(* the last one of the ring is ever removed.                                *)
CallAt ==
  /\ pc \in {"token", "insert"} => cur \in QH \ Range(list)
  /\ Working => list # <<>> /\ cur = Last(list)
  /\ pc \in {"wait", "leave"} /\ complete => cur \in QH \ Range(list)
  /\ success /\ pc # "retire" => pc \in {"wait", "leave", "idle"} /\ cur \in QH \ Range(list)
  /\ pc \in {"token", "insert", "halted", "link", "active"} => ~complete
  /\ pc = "retire" => complete
  /\ success => complete
  /\ pc = "leave" => complete \/ elapsed = Timeout + 1

Pools ==
  /\ qhActive = Busy
  /\ \A q \in Busy : chain[q] \in TD /\ Chain(q) \subseteq tdActive
  /\ \A p, q \in Busy : p # q => Chain(p) \cap Chain(q) = {}
  /\ ~starved /\ pc # "wild" => tdActive = UNION {Chain(q) : q \in Busy}
  /\ pc = "wild" => Busy = QH

(* The controller works inside the chains of the queue heads in use, and    *)
(* has nothing to do in the others, which it may still visit.               *)
Overlays ==
  /\ \A q \in QH : token[q].active => q \in Busy /\ curLink[q] \in Chain(q) /\ ~token[q].halted
  /\ \A q \in Busy : nextLink[q] \in Chain(q) \cup {Terminate}
  /\ \A q \in QH \ Busy : token[q].halted \/ nextLink[q] = Terminate
  /\ pc = "active" => nextLink[cur] = Terminate
  /\ pc = "retire" => /\ ~token[cur].active
                      /\ IF success THEN nextLink[cur] = Terminate ELSE token[cur].halted
  /\ pc \in {"token", "insert"} /\ ~recycled => hcAt # cur

(* While a transfer runs, a descriptor that is not done lies ahead of the   *)
(* controller or under it, and one that stalled is where it stands.         *)
Ahead ==
  /\ \A td \in Chain(cur) :
       /\ tdState[td] = "ready" =>
            \/ nextLink[cur] # Terminate /\ td \in ChainFrom(nextLink[cur])
            \/ token[cur].active /\ td = curLink[cur]
       /\ tdState[td] = "halted" => token[cur].halted /\ td = curLink[cur]
  /\ token[cur].active \/ token[cur].halted => nextLink[cur] = tdNext[curLink[cur]]

(* What success means, from the moment it is reported. *)
Settled == \A td \in Chain(cur) :
             /\ tdState[td] # "ready"
             /\ tdState[td] = "halted" => tdNext[td] = Terminate

Settling ==
  ~recycled =>
    /\ pc = "token" => /\ nextLink[cur] = chain[cur]
                       /\ \A td \in Chain(cur) : tdState[td] = "ready"
    /\ pc = "insert" \/ Working => Ahead
    /\ success /\ pc # "retire" => /\ Settled
                                   /\ \A q \in Busy : Chain(cur) \cap Chain(q) = {}

(* Of the transfers of an endpoint that met no trouble at most the one of   *)
(* the call is in use; it is one descriptor with the toggle of the host,    *)
(* and the device has moved on once that descriptor is done.                *)
Current == pc \in {"token", "insert"} \/ Working
Toggles ==
  pc # "wild" =>
    /\ \A q \in Busy : endpOf[q][1] \in Endps \ upset => q = cur /\ Current
    /\ Current => endpOf[cur][1] = endp
    /\ Current /\ endp \in Endps \ upset =>
         /\ endpOf[cur][2] = toggle[endp] /\ ~recycled
         /\ tdNext[chain[cur]] = Terminate
         /\ pc # "token" => ~token[cur].halted
         /\ tdState[chain[cur]] = "done" => ~token[cur].active /\ nextLink[cur] = Terminate
    /\ \A e \in Endps \ upset :
         devToggle[e] = IF Current /\ e = endp /\ tdState[chain[cur]] = "done"
                        THEN 1 - toggle[e] ELSE toggle[e]

EhciInv == TypeOK /\ Ring /\ CallAt /\ Pools /\ Overlays /\ Settling /\ Toggles

-----------------------------------------------------------------------------
(* The least closed set: it holds its start, is closed, and lies inside     *)
(* every closed set that holds the start.                                   *)
LEMMA ReachStart ==
  ASSUME NEW f, NEW a \in TD
  PROVE  a \in Reach(f, a) /\ Reach(f, a) \subseteq TD
  BY DEF Reach

LEMMA ReachClosed ==
  ASSUME NEW f \in [TD -> Links], NEW a \in TD, NEW y \in Reach(f, a), f[y] # Terminate
  PROVE  f[y] \in Reach(f, a)
  BY DEF Reach, Links

LEMMA ReachLeast ==
  ASSUME NEW f, NEW a \in TD, NEW S \in SUBSET TD, a \in S,
         \A y \in S : f[y] # Terminate => f[y] \in S
  PROVE  Reach(f, a) \subseteq S
  BY DEF Reach

(* Links outside a chain do not matter to it. *)
LEMMA ReachSame ==
  ASSUME NEW f \in [TD -> Links], NEW g \in [TD -> Links], NEW a \in TD,
         \A y \in Reach(f, a) : g[y] = f[y]
  PROVE  Reach(g, a) = Reach(f, a)
  <1>1. Reach(g, a) \subseteq Reach(f, a)
    <2>1. \A y \in Reach(f, a) : g[y] # Terminate => g[y] \in Reach(f, a)
      BY ReachClosed
    <2>2. a \in Reach(f, a) /\ Reach(f, a) \in SUBSET TD
      BY ReachStart
    <2> QED BY <2>1, <2>2, ReachLeast
  <1>2. Reach(f, a) \subseteq Reach(g, a)
    <2> DEFINE S == Reach(f, a) \cap Reach(g, a)
    <2>1. \A y \in S : f[y] # Terminate => f[y] \in S
      <3> SUFFICES ASSUME NEW y \in S, f[y] # Terminate PROVE f[y] \in S
        OBVIOUS
      <3>1. f[y] \in Reach(f, a)
        BY ReachClosed
      <3>2. g[y] = f[y]
        OBVIOUS
      <3>3. g[y] \in Reach(g, a)
        BY <3>2, ReachClosed
      <3> QED BY <3>1, <3>2, <3>3
    <2>2. a \in S /\ S \in SUBSET TD
      BY ReachStart
    <2> HIDE DEF S
    <2>3. Reach(f, a) \subseteq S
      BY <2>1, <2>2, ReachLeast
    <2> QED BY <2>3 DEF S
  <1> QED BY <1>1, <1>2

(* What follows the first descriptor of a chain. *)
LEMMA ReachStep ==
  ASSUME NEW f \in [TD -> Links], NEW a \in TD
  PROVE  /\ f[a] # Terminate => Reach(f, a) \subseteq {a} \cup Reach(f, f[a])
         /\ f[a] = Terminate => Reach(f, a) = {a}
  <1>1. CASE f[a] = Terminate
    <2>1. {a} \in SUBSET TD /\ \A y \in {a} : f[y] # Terminate => f[y] \in {a}
      BY <1>1
    <2>2. Reach(f, a) \subseteq {a}
      BY <2>1, ReachLeast
    <2> QED BY <1>1, <2>2, ReachStart
  <1>2. CASE f[a] # Terminate
    <2> DEFINE S == {a} \cup Reach(f, f[a])
    <2>1. f[a] \in TD
      BY <1>2 DEF Links
    <2>2. a \in S /\ S \in SUBSET TD
      BY <2>1, ReachStart
    <2>3. \A y \in S : f[y] # Terminate => f[y] \in S
      <3>1. \A y \in Reach(f, f[a]) : f[y] # Terminate => f[y] \in Reach(f, f[a])
        BY <2>1, ReachClosed
      <3>2. f[a] \in Reach(f, f[a])
        BY <2>1, ReachStart
      <3> QED BY <3>1, <3>2
    <2> HIDE DEF S
    <2>4. Reach(f, a) \subseteq S
      BY <2>2, <2>3, ReachLeast
    <2> QED BY <1>2, <2>4 DEF S
  <1> QED BY <1>1, <1>2

(* A set of numbers with an upper bound has a greatest element, and a set   *)
(* of natural numbers a least one.                                          *)
LEMMA MinIsLeast ==
  ASSUME NEW S \in SUBSET Nat, S # {}
  PROVE  Min(S) \in S /\ \A y \in S : Min(S) =< y
  <1>1. PICK m \in S : \A y \in S : ~(<<y, m>> \in OpToRel(<, Nat))
    BY WFMin, NatLessThanWellFounded, Zenon
  <1>2. \A y \in S : m =< y
    <2> TAKE y \in S
    <2>1. <<y, m>> \in Nat \X Nat /\ ~(<<y, m>> \in OpToRel(<, Nat))
      BY <1>1
    <2>2. ~(y < m)
      BY <2>1 DEF OpToRel
    <2> QED BY <2>2
  <1> QED BY <1>2 DEF Min

LEMMA MaxIsGreatest ==
  ASSUME NEW n \in Nat, NEW S \in SUBSET (0 .. n), S # {}
  PROVE  \E m \in S : \A y \in S : y =< m
  <1> DEFINE T == {x \in 0 .. n : n - x \in S}
  <1>1. PICK s \in S : TRUE
    OBVIOUS
  <1>2. s \in 0 .. n /\ n - s \in 0 .. n /\ n - (n - s) = s
    OBVIOUS
  <1>3. n - s \in T
    BY <1>2
  <1>4. T \in SUBSET Nat /\ T # {}
    BY <1>3
  <1>5. Min(T) \in T /\ \A y \in T : Min(T) =< y
    BY <1>4, MinIsLeast
  <1>6. \A y \in S : y \in 0 .. n /\ n - y \in 0 .. n /\ n - (n - y) = y
    OBVIOUS
  <1>7. \A y \in S : n - y \in T
    BY <1>6
  <1>8. Min(T) \in 0 .. n /\ n - Min(T) \in S
    BY <1>5
  <1> HIDE DEF T
  <1>9. \A y \in S : y =< n - Min(T)
    BY <1>5, <1>6, <1>7, <1>8
  <1> QED BY <1>8, <1>9

(* The first free descriptors are free ones, and there is a first one.      *)
LEMMA FirstTdsFree ==
  ASSUME NEW n \in Nat \ {0}, tdActive \in SUBSET TD, Cardinality(FreeTds) >= n
  PROVE  FirstTds(n) \in SUBSET (TD \ tdActive) /\ FirstTds(n) # {}
  <1>1. FreeTds \in SUBSET Nat
    BY DEF FreeTds, TD
  <1>2. FreeTds # {}
    BY FS_EmptySet
  <1>3. Min(FreeTds) \in FreeTds /\ \A y \in FreeTds : Min(FreeTds) =< y
    BY <1>1, <1>2, MinIsLeast
  <1>4. {x \in FreeTds : x < Min(FreeTds)} = {}
    <2>1. \A x \in FreeTds : x \in Nat /\ Min(FreeTds) \in Nat /\ Min(FreeTds) =< x
      BY <1>1, <1>3
    <2>2. \A x \in FreeTds : ~(x < Min(FreeTds))
      BY <2>1
    <2> QED BY <2>2
  <1>5. Cardinality({x \in FreeTds : x < Min(FreeTds)}) < n
    BY <1>4, FS_EmptySet
  <1>6. Min(FreeTds) \in FirstTds(n)
    BY <1>3, <1>5 DEF FirstTds
  <1>7. FirstTds(n) \subseteq FreeTds
    BY DEF FirstTds
  <1> QED BY <1>6, <1>7 DEF FreeTds

(* Descriptors linked in their order make one chain. *)
LEMMA LinkedChain ==
  ASSUME NEW tds \in SUBSET TD, tds # {}, tdNext \in [TD -> Links]
  PROVE  /\ Linked(tds) \in [TD -> Links]
         /\ Min(tds) \in tds
         /\ Reach(Linked(tds), Min(tds)) = tds
  <1> DEFINE after(td) == {x \in tds : x > td}
             g == Linked(tds)
  <1>1. Min(tds) \in tds /\ \A y \in tds : Min(tds) =< y
    BY MinIsLeast DEF TD
  <1>2. \A td \in tds : after(td) # {} => /\ Min(after(td)) \in after(td)
                                           /\ \A y \in after(td) : Min(after(td)) =< y
    <2> TAKE td \in tds
    <2>1. tds \in SUBSET Nat
      BY DEF TD
    <2>2. after(td) \in SUBSET Nat
      BY <2>1
    <2> HIDE DEF after
    <2> QED BY <2>2, MinIsLeast
  <1>3. \A td \in tds : g[td] = IF after(td) # {} THEN Min(after(td)) ELSE Terminate
    BY DEF Linked
  <1>4. \A td \in TD \ tds : g[td] = tdNext[td]
    BY DEF Linked
  <1>5. \A td \in tds : g[td] # Terminate => g[td] \in tds
    BY <1>2, <1>3
  <1>6. g \in [TD -> Links]
    <2>1. g = [td \in TD |-> g[td]]
      BY DEF Linked
    <2>2. \A td \in TD : g[td] \in Links
      BY <1>3, <1>4, <1>5 DEF Links
    <2> HIDE DEF g
    <2> QED BY <2>1, <2>2
  <1>7. Reach(g, Min(tds)) \subseteq tds
    <2> HIDE DEF g
    <2> QED BY <1>1, <1>5, ReachLeast
  <1> DEFINE R == Reach(g, Min(tds))
  <1>8. Min(tds) \in R /\ \A y \in R : g[y] # Terminate => g[y] \in R
    <2> HIDE DEF g
    <2> QED BY <1>1, <1>6, ReachStart, ReachClosed
  <1>9. tds \subseteq R
    <2> SUFFICES ASSUME tds \ R # {} PROVE FALSE
      OBVIOUS
    <2> HIDE DEF R, g
    <2> DEFINE m == Min(tds \ R)
               before == {x \in tds : x < m}
    <2>1. m \in tds \ R /\ \A y \in tds \ R : m =< y
      BY MinIsLeast DEF TD
    <2> HIDE DEF m
    <2>2. m \in 1 .. MaxTd /\ MaxTd \in Nat /\ tds \subseteq 1 .. MaxTd
      BY <2>1, EhciAssumption DEF TD
    <2>3. Min(tds) \in before
      <3>1. Min(tds) \in 1 .. MaxTd /\ Min(tds) =< m /\ Min(tds) # m
        BY <1>1, <1>8, <2>1, <2>2
      <3>2. Min(tds) < m
        BY <2>2, <3>1
      <3> QED BY <1>1, <3>2
    <2>4. PICK p \in before : \A y \in before : y =< p
      <3>1. tds \in SUBSET (0 .. MaxTd)
        BY <2>2
      <3>2. before \in SUBSET (0 .. MaxTd) /\ before # {}
        BY <2>3, <3>1
      <3> HIDE DEF before
      <3> QED BY <3>2, <2>2, MaxIsGreatest
    <2>5. p \in R
      BY <2>1, <2>2, <2>4
    <2>6. m \in after(p)
      BY <2>1, <2>2, <2>4
    <2>7. Min(after(p)) \in tds /\ Min(after(p)) > p /\ Min(after(p)) =< m
      BY <1>2, <2>4, <2>6
    <2>8. Min(after(p)) = m
      <3> DEFINE k == Min(after(p))
      <3>1. k \in 1 .. MaxTd /\ p \in 1 .. MaxTd
        BY <2>2, <2>4, <2>7
      <3>2. k < m => k \in before
        BY <2>7
      <3>3. k \in before => k =< p
        BY <2>4
      <3> HIDE DEF before, after, k
      <3>4. ~(k < m)
        BY <2>7, <3>1, <3>2, <3>3 DEF k
      <3>5. k =< m
        BY <2>7 DEF k
      <3>6. k = m
        BY <2>2, <3>1, <3>4, <3>5
      <3> QED BY <3>6 DEF k
    <2>9. g[p] = m
      BY <1>3, <2>4, <2>6, <2>8
    <2>10. m # Terminate
      BY <2>2 DEF Terminate
    <2> QED BY <1>8, <2>1, <2>5, <2>9, <2>10
  <1> QED BY <1>1, <1>6, <1>7, <1>9

(* The list with a queue head linked at its end. *)
LEMMA AppendList ==
  ASSUME list \in Seq(QH), NEW q \in QH, NEW t, t = Append(list, q)
  PROVE  /\ t \in Seq(QH) /\ Len(t) = Len(list) + 1 /\ Len(list) \in Nat /\ t # <<>>
         /\ \A i \in 1 .. Len(list) : t[i] = list[i]
         /\ t[Len(t)] = q
         /\ Range(t) = Range(list) \cup {q}
         /\ IsInjective(list) /\ q \notin Range(list) => IsInjective(t)
  <1>1. t \in Seq(QH) /\ Len(t) = Len(list) + 1 /\ Len(list) \in Nat /\ t # <<>>
    OBVIOUS
  <1>2. (\A i \in 1 .. Len(list) : t[i] = list[i]) /\ t[Len(t)] = q
    OBVIOUS
  <1>3. DOMAIN t = 1 .. Len(list) + 1 /\ DOMAIN list = 1 .. Len(list)
    BY <1>1
  <1>4. Range(t) = Range(list) \cup {q}
    <2>1. \A i \in DOMAIN t : i \in DOMAIN list \/ i = Len(t)
      BY <1>1, <1>3
    <2>2. Len(t) \in DOMAIN t /\ DOMAIN list \subseteq DOMAIN t
      BY <1>1, <1>3
    <2> QED BY <1>2, <1>3, <2>1, <2>2 DEF Range
  <1>5. ASSUME IsInjective(list), q \notin Range(list), NEW a \in DOMAIN t, NEW b \in DOMAIN t, t[a] = t[b]
        PROVE  a = b
    <2>1. CASE a \in DOMAIN list /\ b \in DOMAIN list
      BY <1>2, <1>3, <1>5, <2>1 DEF IsInjective
    <2>2. CASE a = Len(t) /\ b = Len(t)
      BY <2>2
    <2>3. ASSUME NEW i \in DOMAIN list PROVE t[i] # q
      BY <1>2, <1>3, <1>5 DEF Range
    <2> QED BY <1>1, <1>2, <1>3, <1>5, <2>1, <2>2, <2>3
  <1> QED BY <1>1, <1>2, <1>4, <1>5 DEF IsInjective

(* The list without its last queue head. *)
LEMMA RemoveLast ==
  ASSUME list \in Seq(QH), list # <<>>, IsInjective(list), cur = Last(list),
         NEW t, t = RemoveAt(list, Place(cur))
  PROVE  /\ Place(cur) = Len(list) /\ Len(list) \in Nat \ {0} /\ cur = list[Len(list)]
         /\ cur \in QH
         /\ t \in Seq(QH) /\ Len(t) = Len(list) - 1
         /\ \A i \in 1 .. Len(t) : t[i] = list[i]
         /\ Range(t) = Range(list) \ {cur}
         /\ IsInjective(t)
  <1>1. Len(list) \in Nat \ {0} /\ cur = list[Len(list)] /\ DOMAIN list = 1 .. Len(list)
    BY DEF Last
  <1>2. cur \in QH
    BY <1>1
  <1>3. Place(cur) = Len(list)
    <2>1. Len(list) \in DOMAIN list /\ list[Len(list)] = cur
      BY <1>1
    <2>2. Place(cur) \in DOMAIN list /\ list[Place(cur)] = cur
      BY <2>1 DEF Place
    <2> QED BY <2>1, <2>2 DEF IsInjective
  <1>4. t = SubSeq(list, 1, Len(list) - 1) \o SubSeq(list, Len(list) + 1, Len(list))
    BY <1>3 DEF RemoveAt
  <1>5. t \in Seq(QH) /\ Len(t) = Len(list) - 1 /\ \A i \in 1 .. Len(t) : t[i] = list[i]
    <2> DEFINE n == Len(list)
               a == SubSeq(list, 1, n - 1)
               b == SubSeq(list, n + 1, n)
    <2>1. a \in Seq(QH) /\ Len(a) = n - 1 /\ \A i \in 1 .. n - 1 : a[i] = list[i]
      BY <1>1
    <2>2. b = <<>>
      BY <1>1
    <2>3. t = a
      BY <1>4, <2>1, <2>2
    <2> QED BY <2>1, <2>3
  <1>6. DOMAIN t = 1 .. Len(list) - 1 /\ DOMAIN t \subseteq DOMAIN list /\ Len(list) \notin DOMAIN t
    <2>1. DOMAIN t = 1 .. Len(list) - 1
      BY <1>5
    <2> QED BY <1>1, <2>1
  <1>7. \A i \in DOMAIN list : i \in DOMAIN t \/ i = Len(list)
    BY <1>1, <1>6
  <1>8. \A i \in DOMAIN t : t[i] = list[i] /\ t[i] # cur
    <2> TAKE i \in DOMAIN t
    <2>1. i \in DOMAIN list /\ i # Len(list)
      BY <1>6
    <2>2. t[i] = list[i]
      BY <1>5
    <2>3. Len(list) \in DOMAIN list
      BY <1>1
    <2>4. list[i] # list[Len(list)]
      BY <2>1, <2>3 DEF IsInjective
    <2> QED BY <1>1, <2>2, <2>4
  <1>9. Range(t) = Range(list) \ {cur}
    BY <1>1, <1>6, <1>7, <1>8 DEF Range
  <1>10. IsInjective(t)
    BY <1>6, <1>8 DEF IsInjective
  <1> QED BY <1>1, <1>2, <1>3, <1>5, <1>9, <1>10

-----------------------------------------------------------------------------
(* What a call starts with. *)
LEMMA CallStarts ==
  ASSUME Call
  PROVE  /\ pc = "idle"
         /\ \/ \E n \in Nat, done \in BOOLEAN : Starve(n, done)
            \/ \E n \in Nat \ {0}, e \in Endps \cup {Control} :
                 Prepare(n, e) /\ (e \in Endps => n = 1)
  <1>1. CASE \E n \in Packets : DeviceControl(n)
    <2>1. PICK n \in Packets : DeviceControl(n)
      BY <1>1
    <2>2. n \in Nat /\ n + 2 \in Nat \ {0} /\ Control \notin Endps
      BY EhciAssumption, NamesAssumption
    <2> QED BY <2>1, <2>2 DEF DeviceControl
  <1>2. CASE \E e \in Endps : DevInterface(e)
    <2>1. PICK e \in Endps : DevInterface(e)
      BY <1>2
    <2>2. 1 \in Nat \ {0} /\ e \in Endps \cup {Control}
      OBVIOUS
    <2>3. pc = "idle" /\ (Starve(1, TRUE) \/ Prepare(1, e))
      BY <2>1 DEF DevInterface
    <2> QED BY <2>2, <2>3, Zenon
  <1> QED BY <1>1, <1>2 DEF Call

(* The next free queue head. *)
LEMMA FreshQh ==
  ASSUME qhActive \subseteq QH, qhActive # QH
  PROVE  Min(QH \ qhActive) \in QH \ qhActive
  <1>1. QH \in SUBSET Nat
    BY DEF QH
  <1>2. QH \ qhActive \in SUBSET Nat /\ QH \ qhActive # {}
    BY <1>1
  <1> QED BY <1>2, MinIsLeast

(* What Prepare takes from the pools: the values it gives its variables.    *)
LEMMA PrepareTakes ==
  ASSUME TypeOK, NEW n \in Nat \ {0}, NEW e \in Endps \cup {Control}, Prepare(n, e)
  PROVE  \E tds \in SUBSET (TD \ tdActive) :
           /\ tds # {} /\ tds \in SUBSET TD /\ Min(tds) \in tds
           /\ tdActive' = tdActive \cup tds
           /\ tdNext' = Linked(tds) /\ tdNext' \in [TD -> Links]
           /\ Reach(tdNext', Min(tds)) = tds
           /\ \A td \in TD \ tds : tdNext'[td] = tdNext[td]
           /\ tdState' = [td \in TD |-> IF td \in tds THEN "ready" ELSE tdState[td]]
           /\ n = 1 => tdNext'[Min(tds)] = Terminate
           /\ \/ /\ qhActive = QH /\ pc' = "wild"
                 /\ UNCHANGED <<qhActive, chain, endpOf, nextLink, cur, recycled, upset>>
              \/ \E q \in QH \ qhActive :
                   /\ qhActive' = qhActive \cup {q}
                   /\ chain' = [chain EXCEPT ![q] = Min(tds)]
                   /\ nextLink' = [nextLink EXCEPT ![q] = Min(tds)]
                   /\ endpOf' = [endpOf EXCEPT ![q] = <<e, IF e = Control THEN 0 ELSE toggle[e]>>]
                   /\ cur' = q
                   /\ recycled' = (hcAt = q)
                   /\ upset' = IF hcAt = q THEN upset \cup ({e} \cap Endps) ELSE upset
                   /\ pc' = "token"
  <1> DEFINE tds == FirstTds(n)
  <1>1. tds \in SUBSET (TD \ tdActive) /\ tds # {}
    BY FirstTdsFree DEF TypeOK, Prepare
  <1>2. Linked(tds) \in [TD -> Links] /\ Min(tds) \in tds /\ Reach(Linked(tds), Min(tds)) = tds
    BY <1>1, LinkedChain DEF TypeOK
  <1>3. \A td \in TD \ tds : Linked(tds)[td] = tdNext[td]
    BY DEF Linked
  <1>4. n = 1 => Linked(tds)[Min(tds)] = Terminate
    <2> SUFFICES ASSUME n = 1, NEW x \in tds, x > Min(tds) PROVE FALSE
      BY <1>1, <1>2 DEF Linked
    <2> DEFINE below == {y \in FreeTds : y < x}
    <2>1. FreeTds \in SUBSET TD /\ IsFiniteSet(TD) /\ below \in SUBSET TD
      BY EhciAssumption, FS_Interval DEF FreeTds, TD
    <2>2. IsFiniteSet(below)
      BY <2>1, FS_Subset
    <2>3. Min(tds) \in below
      BY <1>1, <1>2 DEF FreeTds
    <2>4. Cardinality(below) # 0
      BY <2>2, <2>3, FS_EmptySet
    <2>5. Cardinality(below) < 1
      BY DEF FirstTds
    <2>6. Cardinality(below) \in Nat
      BY <2>2, FS_CardinalityType
    <2> QED BY <2>4, <2>5, <2>6
  <1>5. /\ tdActive' = tdActive \cup tds
        /\ tdNext' = Linked(tds)
        /\ tdState' = [td \in TD |-> IF td \in tds THEN "ready" ELSE tdState[td]]
    BY DEF Prepare
  <1>6. CASE qhActive = QH
    BY <1>1, <1>2, <1>3, <1>4, <1>5, <1>6 DEF Prepare
  <1>7. CASE qhActive # QH
    <2> DEFINE q == Min(QH \ qhActive)
    <2>1. q \in QH \ qhActive
      BY <1>7, FreshQh DEF TypeOK
    <2>2. /\ qhActive' = qhActive \cup {q}
          /\ chain' = [chain EXCEPT ![q] = Min(tds)]
          /\ nextLink' = [nextLink EXCEPT ![q] = Min(tds)]
          /\ endpOf' = [endpOf EXCEPT ![q] = <<e, IF e = Control THEN 0 ELSE toggle[e]>>]
          /\ cur' = q
          /\ recycled' = (hcAt = q)
          /\ upset' = IF hcAt = q THEN upset \cup ({e} \cap Endps) ELSE upset
          /\ pc' = "token"
      BY <1>7 DEF Prepare
    <2> HIDE DEF q, tds
    <2> QED BY <1>1, <1>2, <1>3, <1>4, <1>5, <2>1, <2>2
  <1> QED BY <1>6, <1>7

(* The initial state, with empty pools and nothing on the schedule. *)
LEMMA EhciInit == Init => EhciInv
  <1> SUFFICES ASSUME Init PROVE EhciInv
    OBVIOUS
  <1>1. Control \notin Endps /\ 0 \in 0 .. Timeout + 1 /\ <<>> \in Seq(QH)
    BY EhciAssumption, NamesAssumption
  <1>2. TypeOK
    BY <1>1 DEF Init, TypeOK, Pcs, Tokens, Links, Idle, AsyncHead, None, Control
  <1>3. Busy = {} /\ ~Working /\ ~Current /\ Range(list) = {} /\ Len(list) = 0
    BY DEF Init, Busy, Working, Current, Range
  <1>4. Ring
    BY <1>3 DEF Init, Ring, IsInjective
  <1>5. CallAt
    BY <1>3 DEF Init, CallAt
  <1>6. Pools
    BY <1>3 DEF Init, Pools
  <1>7. Overlays
    BY <1>3 DEF Init, Overlays, Idle
  <1>8. Settling
    BY <1>3 DEF Init, Settling
  <1>9. Toggles
    BY <1>3 DEF Init, Toggles
  <1> QED BY <1>2, <1>4, <1>5, <1>6, <1>7, <1>8, <1>9 DEF EhciInv

(* Every variable keeps its type. *)
LEMMA TypeStep == EhciInv /\ [Next]_vars => TypeOK'
  <1> SUFFICES ASSUME EhciInv, [Next]_vars PROVE TypeOK'
    OBVIOUS
  <1> USE DEF AsyncHead, Terminate
  <1>0. TypeOK /\ CallAt /\ Ring /\ Timeout \in Nat /\ Control \notin Endps
    BY EhciAssumption, NamesAssumption DEF EhciInv
  <1>1. CASE \E n \in Nat, done \in BOOLEAN : Starve(n, done)
    BY <1>0, <1>1 DEF TypeOK, Starve, schedule, overlay, setup
  <1>2. CASE \E n \in Nat \ {0}, e \in Endps \cup {Control} :
               Prepare(n, e) /\ (e \in Endps => n = 1)
    <2>1. PICK n \in Nat \ {0}, e \in Endps \cup {Control} : Prepare(n, e)
      BY <1>2
    <2>2. /\ complete' = FALSE /\ success' = FALSE /\ endp' = e /\ elapsed' = 0
          /\ UNCHANGED <<qhlp, list, curLink, token, toggle, hcAt, devToggle, starved>>
      BY <2>1 DEF Prepare, schedule
    <2>3. PICK tds \in SUBSET (TD \ tdActive) : 
           /\ Min(tds) \in tds
           /\ tdActive' = tdActive \cup tds
           /\ tdNext' \in [TD -> Links]
           /\ tdState' = [td \in TD |-> IF td \in tds THEN "ready" ELSE tdState[td]]
           /\ \/ /\ qhActive = QH /\ pc' = "wild"
                 /\ UNCHANGED <<qhActive, chain, endpOf, nextLink, cur, recycled, upset>>
              \/ \E q \in QH \ qhActive :
                   /\ qhActive' = qhActive \cup {q}
                   /\ chain' = [chain EXCEPT ![q] = Min(tds)]
                   /\ nextLink' = [nextLink EXCEPT ![q] = Min(tds)]
                   /\ endpOf' = [endpOf EXCEPT ![q] = <<e, IF e = Control THEN 0 ELSE toggle[e]>>]
                   /\ cur' = q
                   /\ recycled' = (hcAt = q)
                   /\ upset' = IF hcAt = q THEN upset \cup ({e} \cap Endps) ELSE upset
                   /\ pc' = "token"
      BY <1>0, <2>1, PrepareTakes
    <2>4. /\ tdActive' \subseteq TD
          /\ tdState' \in [TD -> {"ready", "done", "halted"}]
          /\ Min(tds) \in Links
      BY <1>0, <2>3 DEF TypeOK, Links
    <2>5. <<e, IF e = Control THEN 0 ELSE toggle[e]>> \in (Endps \cup {Control, None}) \X {0, 1}
      BY <1>0, <2>1 DEF TypeOK
    <2>6. /\ qhActive \subseteq QH /\ chain \in [QH -> Links] /\ nextLink \in [QH -> Links]
          /\ endpOf \in [QH -> (Endps \cup {Control, None}) \X {0, 1}]
          /\ cur \in {0} \cup QH /\ recycled \in BOOLEAN /\ upset \subseteq Endps
      BY <1>0 DEF TypeOK
    <2>7. /\ qhActive' \subseteq QH /\ cur' \in {0} \cup QH
          /\ recycled' \in BOOLEAN /\ upset' \subseteq Endps /\ pc' \in Pcs
      BY <2>3, <2>6 DEF Pcs
    <2>8. chain' \in [QH -> Links] /\ nextLink' \in [QH -> Links]
      BY <2>3, <2>4, <2>6
    <2>9. endpOf' \in [QH -> (Endps \cup {Control, None}) \X {0, 1}]
      BY <2>3, <2>5, <2>6
    <2>10. elapsed' \in 0 .. Timeout + 1
      <3>1. 0 \in 0 .. Timeout + 1
        BY <1>0
      <3> QED BY <2>2, <3>1
    <2>11. /\ tdNext' \in [TD -> Links]
           /\ complete' \in BOOLEAN /\ success' \in BOOLEAN
           /\ endp' \in Endps \cup {Control, None}
      BY <1>0, <2>2, <2>3
    <2>12. /\ qhlp' \in [{0} \cup QH -> {0} \cup QH] /\ list' \in Seq(QH)
           /\ curLink' \in [QH -> Links] /\ token' \in [QH -> Tokens]
           /\ toggle' \in [Endps -> {0, 1}] /\ devToggle' \in [Endps -> {0, 1}]
           /\ hcAt' \in {0} \cup QH /\ starved' \in BOOLEAN
      BY <1>0, <2>2 DEF TypeOK
    <2> QED BY <2>4, <2>7, <2>8, <2>9, <2>10, <2>11, <2>12 DEF TypeOK
  <1>3. CASE InitToken
    BY <1>0, <1>3 DEF TypeOK, InitToken, pool, schedule, transfer, setup, Pcs, Tokens, Idle, CallAt
  <1>4. CASE InsertAsyncQh
    <2>1. cur \in QH
      BY <1>0, <1>4 DEF CallAt, InsertAsyncQh
    <2>2. LastQh \in {0} \cup QH
      BY <1>0 DEF TypeOK, LastQh, Last
    <2>3. list' \in Seq(QH)
      BY <1>0, <1>4, <2>1 DEF TypeOK, InsertAsyncQh
    <2>4. qhlp' \in [{0} \cup QH -> {0} \cup QH]
      BY <1>0, <1>4, <2>1, <2>2 DEF TypeOK, InsertAsyncQh
    <2> QED BY <1>0, <1>4, <2>3, <2>4 DEF TypeOK, InsertAsyncQh, pool, overlay, transfer, setup, Pcs
  <1>5. CASE WaitTest
    BY <1>0, <1>5 DEF TypeOK, WaitTest, driverFixed, pool, schedule, overlay, setup, transfer, Pcs
  <1>6. CASE ReadHalted
    BY <1>0, <1>6 DEF TypeOK, ReadHalted, driverFixed, pool, schedule, overlay, setup, Pcs
  <1>7. CASE ReadLink
    BY <1>0, <1>7 DEF TypeOK, ReadLink, driverFixed, pool, schedule, overlay, setup, transfer, Pcs
  <1>8. CASE ReadActive
    BY <1>0, <1>8 DEF TypeOK, ReadActive, driverFixed, pool, schedule, overlay, setup, Pcs
  <1>9. CASE Retire
    <2>1. Working
      BY <1>9 DEF Working, Retire
    <2>2. list # <<>> /\ cur = Last(list) /\ IsInjective(list) /\ list \in Seq(QH)
      BY <1>0, <2>1 DEF CallAt, Ring, TypeOK
    <2>3. list' \in Seq(QH) /\ cur \in QH /\ Place(cur) = Len(list) /\ Len(list) \in Nat \ {0}
      BY <1>9, <2>2, RemoveLast DEF Retire
    <2>4. PrevQh(cur) \in {0} \cup QH
      BY <2>2, <2>3 DEF PrevQh
    <2>5. qhlp' \in [{0} \cup QH -> {0} \cup QH]
      BY <1>0, <1>9, <2>3, <2>4 DEF TypeOK, Retire
    <2>6. toggle' \in [Endps -> {0, 1}]
      <3>1. toggle' = toggle \/ toggle' = [toggle EXCEPT ![endp] = 1 - toggle[endp]]
        BY <1>9 DEF Retire, Flip
      <3>2. toggle \in [Endps -> {0, 1}]
        BY <1>0 DEF TypeOK
      <3>3. \A e \in Endps : 1 - toggle[e] \in {0, 1}
        BY <3>2
      <3> QED BY <3>1, <3>2, <3>3
    <2> QED BY <1>0, <1>9, <2>3, <2>5, <2>6
         DEF TypeOK, Retire, overlay, transfer, setup, Pcs, FreeQh
  <1>10. CASE Leave
    <2>1. complete' \in BOOLEAN /\ success' \in BOOLEAN /\ upset' \subseteq Endps
      BY <1>0, <1>10 DEF TypeOK, Leave
    <2>2. pc' = "idle" /\ elapsed' = 0 /\ UNCHANGED <<driverFixed, endp>>
      BY <1>10 DEF Leave
    <2>3. elapsed' \in 0 .. Timeout + 1 /\ pc' \in Pcs
      BY <1>0, <2>2 DEF Pcs
    <2> QED BY <1>0, <2>1, <2>2, <2>3 DEF TypeOK, driverFixed, pool, schedule, overlay, setup
  <1>11. CASE Tick
    BY <1>0, <1>11 DEF TypeOK, Tick, driverFixed, pool, schedule, overlay, setup, Pcs
  <1>12. CASE HcMove
    BY <1>0, <1>12 DEF TypeOK, HcMove, hcFixed, pool, schedule, overlay, setup, transfer
  <1>13. CASE HcFetch
    BY <1>0, <1>13 DEF TypeOK, HcFetch, hcFixed, pool, schedule, setup, transfer, Tokens, Links
  <1>14. CASE HcRetire
    <2>1. devToggle \in [Endps -> {0, 1}] /\ \A e \in Endps : 1 - devToggle[e] \in {0, 1}
      BY <1>0 DEF TypeOK
    <2>2. devToggle' \in [Endps -> {0, 1}]
      BY <1>14, <2>1 DEF HcRetire
    <2>3. token' \in [QH -> Tokens] /\ tdState' \in [TD -> {"ready", "done", "halted"}]
      BY <1>0, <1>14 DEF TypeOK, HcRetire, Tokens, Idle
    <2>4. UNCHANGED <<hcFixed, nextLink, curLink, hcAt, upset>>
      BY <1>14 DEF HcRetire
    <2> QED BY <1>0, <2>2, <2>3, <2>4 DEF TypeOK, hcFixed, pool, schedule, setup, transfer
  <1>15. CASE HcHalt
    BY <1>0, <1>15 DEF TypeOK, HcHalt, hcFixed, pool, schedule, setup, transfer, Tokens
  <1>16. CASE UNCHANGED vars
    BY <1>0, <1>16 DEF TypeOK, vars, pool, schedule, overlay, setup, transfer
  <1> QED BY CallStarts, <1>1, <1>2, <1>3, <1>4, <1>5, <1>6, <1>7, <1>8, <1>9, <1>10,
             <1>11, <1>12, <1>13, <1>14, <1>15, <1>16 DEF Next, Driver, Controller

-----------------------------------------------------------------------------
(* Only two steps of the driver change the schedule. *)
LEMMA RingChanges ==
  ASSUME [Next]_vars, ~InsertAsyncQh, ~Retire
  PROVE  UNCHANGED <<qhlp, list>>
  <1>1. CASE Call
    BY <1>1, CallStarts DEF Starve, Prepare, schedule
  <1>2. CASE InitToken \/ WaitTest \/ ReadHalted \/ ReadLink \/ ReadActive \/ Leave \/ Tick
    BY <1>2 DEF InitToken, WaitTest, ReadHalted, ReadLink, ReadActive, Leave, Tick, driverFixed, schedule
  <1>3. CASE Controller
    BY <1>3 DEF Controller, HcMove, HcFetch, HcRetire, HcHalt, hcFixed, schedule
  <1>4. CASE UNCHANGED vars
    BY <1>4 DEF vars, schedule
  <1> QED BY <1>1, <1>2, <1>3, <1>4 DEF Next, Driver

(* The ring stays the list. *)
LEMMA RingStep == EhciInv /\ [Next]_vars => Ring'
  <1> SUFFICES ASSUME EhciInv, [Next]_vars PROVE Ring'
    OBVIOUS
  <1> USE DEF AsyncHead
  <1>0. TypeOK /\ CallAt /\ Ring
    BY DEF EhciInv
  <1>t. list \in Seq(QH) /\ qhlp \in [{0} \cup QH -> {0} \cup QH] /\ 0 \notin QH
    BY <1>0 DEF TypeOK, QH
  <1>1. CASE InsertAsyncQh
    <2>1. cur \in QH /\ cur \notin Range(list) /\ qhlp[cur] = 0
      BY <1>0, <1>1 DEF CallAt, InsertAsyncQh, Ring
    <2>2. /\ list' = Append(list, cur)
          /\ qhlp' = [qhlp EXCEPT ![cur] = 0, ![LastQh] = cur]
      BY <1>1 DEF InsertAsyncQh
    <2>3. /\ list' \in Seq(QH) /\ Len(list') = Len(list) + 1 /\ Len(list) \in Nat /\ list' # <<>>
          /\ \A i \in 1 .. Len(list) : list'[i] = list[i]
          /\ list'[Len(list')] = cur
          /\ Range(list') = Range(list) \cup {cur}
          /\ IsInjective(list')
      BY <1>0, <1>t, <2>1, <2>2, AppendList DEF Ring
    <2>4. LastQh = IF list = <<>> THEN 0 ELSE list[Len(list)]
      BY DEF LastQh, Last
    <2>5. DOMAIN list = 1 .. Len(list) /\ \A i \in 1 .. Len(list) : list[i] \in Range(list) /\ list[i] \in QH
      BY <1>t DEF Range
    <2>6. LastQh \in {0} \cup Range(list) /\ LastQh # cur /\ LastQh \in {0} \cup QH
      <3>1. CASE list = <<>>
        BY <1>t, <2>1, <2>4, <3>1
      <3>2. CASE list # <<>>
        <4>1. Len(list) \in 1 .. Len(list)
          BY <1>t, <3>2
        <4> QED BY <2>1, <2>4, <2>5, <3>2, <4>1
      <3> QED BY <3>1, <3>2
    <2>7. /\ qhlp'[cur] = 0 /\ qhlp'[LastQh] = cur
          /\ \A q \in {0} \cup QH : q # cur /\ q # LastQh => qhlp'[q] = qhlp[q]
      BY <1>t, <2>1, <2>2, <2>6
    <2>8. \A q \in QH \ Range(list') : qhlp'[q] = 0
      <3> SUFFICES ASSUME NEW q \in QH, q \notin Range(list') PROVE qhlp'[q] = 0
        OBVIOUS
      <3>1. q \notin Range(list) /\ q # cur /\ q # 0
        BY <1>t, <2>3
      <3>2. q # LastQh
        BY <2>6, <3>1
      <3>3. qhlp[q] = 0
        BY <1>0, <3>1 DEF Ring
      <3> QED BY <2>7, <3>1, <3>2, <3>3
    <2>9. qhlp'[0] = IF list' = <<>> THEN 0 ELSE list'[1]
      <3>1. CASE list = <<>>
        <4>1. Len(list) = 0 /\ LastQh = 0
          BY <2>4, <3>1
        <4>2. list' # <<>> /\ list'[1] = cur
          BY <2>3, <4>1
        <4> QED BY <2>7, <4>1, <4>2
      <3>2. CASE list # <<>>
        <4>1. Len(list) \in 1 .. Len(list) /\ 1 \in 1 .. Len(list)
          BY <1>t, <3>2
        <4>2. LastQh # 0 /\ cur # 0
          BY <1>t, <2>1, <2>4, <2>5, <3>2, <4>1
        <4>3. qhlp'[0] = qhlp[0] /\ list'[1] = list[1]
          BY <2>3, <2>7, <4>1, <4>2
        <4> QED BY <1>0, <2>3, <3>2, <4>3 DEF Ring
      <3> QED BY <3>1, <3>2
    <2>10. ASSUME NEW i \in 1 .. Len(list')
           PROVE  qhlp'[list'[i]] = IF i = Len(list') THEN 0 ELSE list'[i + 1]
      <3>1. CASE i = Len(list')
        BY <2>3, <2>7, <3>1
      <3>2. CASE i = Len(list)
        <4>1. list # <<>> /\ list'[i] = LastQh /\ i + 1 = Len(list')
          BY <2>3, <2>4, <3>2
        <4> QED BY <2>3, <2>7, <4>1
      <3>3. CASE i \in 1 .. Len(list) /\ i # Len(list)
        <4>1. list'[i] = list[i] /\ list'[i + 1] = list[i + 1] /\ i # Len(list')
          BY <2>3, <3>3
        <4>2. list[i] # LastQh
          <5>1. Len(list) \in DOMAIN list /\ i \in DOMAIN list
            BY <1>t, <3>3
          <5>2. list # <<>>
            BY <5>1
          <5> QED BY <1>0, <2>4, <3>3, <5>1, <5>2 DEF Ring, IsInjective
        <4>3. list[i] # cur /\ list[i] \in QH
          BY <2>1, <2>5, <3>3
        <4>4. qhlp'[list[i]] = list[i + 1]
          BY <1>0, <2>7, <3>3, <4>2, <4>3 DEF Ring
        <4> QED BY <4>1, <4>4
      <3>4. i \in 1 .. Len(list) \/ i = Len(list')
        BY <2>3
      <3> QED BY <3>1, <3>2, <3>3, <3>4
    <2> QED BY <2>3, <2>8, <2>9, <2>10 DEF Ring
  <1>2. CASE Retire
    <2>1. list # <<>> /\ cur = Last(list) /\ IsInjective(list)
      BY <1>0, <1>2 DEF CallAt, Retire, Ring, Working
    <2>2. /\ list' = RemoveAt(list, Place(cur))
          /\ qhlp' = [qhlp EXCEPT ![PrevQh(cur)] = qhlp[cur]]
      BY <1>2 DEF Retire
    <2>3. /\ Place(cur) = Len(list) /\ Len(list) \in Nat \ {0} /\ cur = list[Len(list)]
          /\ cur \in QH
          /\ list' \in Seq(QH) /\ Len(list') = Len(list) - 1
          /\ \A i \in 1 .. Len(list') : list'[i] = list[i]
          /\ Range(list') = Range(list) \ {cur}
          /\ IsInjective(list')
      BY <1>t, <2>1, <2>2, RemoveLast
    <2>4. DOMAIN list = 1 .. Len(list) /\ \A i \in 1 .. Len(list) : list[i] \in QH
      BY <1>t
    <2>5. qhlp[cur] = 0
      BY <1>0, <2>3 DEF Ring
    <2> DEFINE p == PrevQh(cur)
    <2>6. p = IF Len(list) = 1 THEN 0 ELSE list[Len(list) - 1]
      BY <2>3 DEF PrevQh
    <2>7. p \in {0} \cup QH
      BY <2>3, <2>4, <2>6
    <2> HIDE DEF p
    <2>8. qhlp'[p] = 0 /\ \A q \in {0} \cup QH : q # p => qhlp'[q] = qhlp[q]
      BY <1>t, <2>2, <2>5, <2>7 DEF p
    <2>9. \A q \in QH \ Range(list') : qhlp'[q] = 0
      BY <1>0, <2>3, <2>5, <2>8 DEF Ring
    <2>10. qhlp'[0] = IF list' = <<>> THEN 0 ELSE list'[1]
      <3>1. CASE Len(list) = 1
        BY <2>3, <2>6, <2>8, <3>1
      <3>2. CASE Len(list) # 1
        <4>1. Len(list) - 1 \in 1 .. Len(list) /\ 1 \in 1 .. Len(list')
          BY <2>3, <3>2
        <4>2. p # 0 /\ list' # <<>>
          BY <1>t, <2>3, <2>4, <2>6, <3>2, <4>1
        <4>3. qhlp'[0] = qhlp[0] /\ list'[1] = list[1]
          BY <2>3, <2>8, <4>1, <4>2
        <4> QED BY <1>0, <2>1, <4>2, <4>3 DEF Ring
      <3> QED BY <3>1, <3>2
    <2>11. ASSUME NEW i \in 1 .. Len(list')
           PROVE  qhlp'[list'[i]] = IF i = Len(list') THEN 0 ELSE list'[i + 1]
      <3>1. list'[i] = list[i] /\ i \in 1 .. Len(list) /\ Len(list) # 1 /\ i # Len(list)
        BY <2>3
      <3>2. CASE i = Len(list')
        BY <2>3, <2>6, <2>8, <3>1, <3>2
      <3>3. CASE i # Len(list')
        <4>1. list'[i + 1] = list[i + 1] /\ i # Len(list) - 1
          BY <2>3, <3>3
        <4>2. list[i] # p
          <5>1. i \in DOMAIN list /\ Len(list) - 1 \in DOMAIN list
            BY <2>3, <2>4, <3>1
          <5> QED BY <2>1, <2>6, <3>1, <4>1, <5>1 DEF IsInjective
        <4>3. qhlp'[list[i]] = list[i + 1]
          BY <1>0, <2>4, <2>8, <3>1, <4>2 DEF Ring
        <4> QED BY <3>1, <3>3, <4>1, <4>3
      <3> QED BY <3>2, <3>3
    <2> QED BY <2>3, <2>9, <2>10, <2>11 DEF Ring
  <1>3. CASE UNCHANGED <<qhlp, list>>
    BY <1>0, <1>3 DEF Ring
  <1> QED BY <1>1, <1>2, <1>3, RingChanges

(* Queue heads in use, and the last of the list. *)
LEMMA CallPlaces ==
  ASSUME TypeOK, Ring, CallAt
  PROVE  /\ Range(list) \subseteq QH /\ Busy \subseteq QH
         /\ Working => cur \in Range(list) /\ cur \in Busy
         /\ pc \in {"token", "insert"} => cur \in Busy /\ cur \in QH
         /\ pc \notin {"token", "insert"} => Busy = Range(list)
  <1>1. Range(list) \subseteq QH /\ \A i \in DOMAIN list : list[i] \in Range(list)
    BY DEF TypeOK, Range
  <1>2. Busy \subseteq QH
    BY <1>1 DEF CallAt, Busy
  <1>3. ASSUME Working PROVE cur \in Range(list)
    <2>1. list # <<>> /\ cur = list[Len(list)] /\ list \in Seq(QH)
      BY <1>3 DEF CallAt, Last, TypeOK
    <2>2. Len(list) \in DOMAIN list
      BY <2>1
    <2> QED BY <1>1, <2>1, <2>2
  <1> QED BY <1>1, <1>2, <1>3 DEF CallAt, Busy

(* The driver keeps its place. *)
LEMMA CallStep == EhciInv /\ [Next]_vars => CallAt'
  <1> SUFFICES ASSUME EhciInv, [Next]_vars PROVE CallAt'
    OBVIOUS
  <1>0. TypeOK /\ CallAt /\ Ring /\ TypeOK'
    BY TypeStep DEF EhciInv
  <1>t. list \in Seq(QH) /\ Range(list) \subseteq QH /\ elapsed \in 0 .. Timeout + 1 /\ Timeout \in Nat \ {0}
    BY <1>0, CallPlaces, EhciAssumption DEF TypeOK
  <1>1. CASE pc = "idle" /\ \E n \in Nat, done \in BOOLEAN : Starve(n, done)
    BY <1>0, <1>1 DEF CallAt, Starve, schedule, Working
  <1>2. CASE \E n \in Nat \ {0}, e \in Endps \cup {Control} :
               Prepare(n, e) /\ (e \in Endps => n = 1)
    <2>1. PICK n \in Nat \ {0}, e \in Endps \cup {Control} : Prepare(n, e)
      BY <1>2
    <2>2. complete' = FALSE /\ success' = FALSE /\ list' = list
      BY <2>1 DEF Prepare, schedule
    <2>3. CASE qhActive = QH
      <3>1. pc' = "wild"
        BY <2>1, <2>3 DEF Prepare
      <3> QED BY <2>2, <3>1 DEF CallAt, Working
    <2>4. CASE qhActive # QH
      <3>1. pc' = "token" /\ cur' = Min(QH \ qhActive)
        BY <2>1, <2>4 DEF Prepare
      <3>2. cur' \in QH \ qhActive /\ Range(list) \subseteq qhActive
        BY <1>0, <2>4, <3>1, FreshQh DEF TypeOK, EhciInv, Pools, Busy
      <3> QED BY <2>2, <3>1, <3>2 DEF CallAt, Working
    <2> QED BY <2>3, <2>4
  <1>3. CASE InitToken
    BY <1>0, <1>3 DEF CallAt, InitToken, pool, schedule, transfer, setup, Working
  <1>4. CASE InsertAsyncQh
    <2>1. cur \in QH \ Range(list) /\ ~complete /\ ~success
      BY <1>0, <1>4 DEF CallAt, InsertAsyncQh
    <2>2. /\ list' = Append(list, cur) /\ pc' = "wait"
          /\ UNCHANGED <<cur, complete, success, elapsed>>
      BY <1>4 DEF InsertAsyncQh, transfer
    <2>3. list' # <<>> /\ list'[Len(list')] = cur'
      BY <1>t, <2>1, <2>2, AppendList
    <2> QED BY <2>1, <2>2, <2>3 DEF CallAt, Working, Last
  <1>5. CASE WaitTest
    BY <1>0, <1>t, <1>5 DEF CallAt, WaitTest, driverFixed, schedule, transfer, Working
  <1>6. CASE ReadHalted
    BY <1>0, <1>6 DEF CallAt, ReadHalted, driverFixed, schedule, Working
  <1>7. CASE ReadLink
    BY <1>0, <1>7 DEF CallAt, ReadLink, driverFixed, schedule, transfer, Working
  <1>8. CASE ReadActive
    BY <1>0, <1>8 DEF CallAt, ReadActive, driverFixed, schedule, Working
  <1>9. CASE Retire
    <2>1. list # <<>> /\ cur = Last(list) /\ IsInjective(list) /\ complete
      BY <1>0, <1>9 DEF CallAt, Retire, Ring, Working
    <2>2. /\ list' = RemoveAt(list, Place(cur)) /\ pc' = "wait"
          /\ UNCHANGED <<cur, complete, success, elapsed>>
      BY <1>9 DEF Retire, transfer
    <2>3. cur \in QH /\ Range(list') = Range(list) \ {cur}
      BY <1>t, <2>1, <2>2, RemoveLast
    <2> QED BY <2>1, <2>2, <2>3 DEF CallAt, Working
  <1>10. CASE Leave
    BY <1>0, <1>10 DEF CallAt, Leave, driverFixed, schedule, Working
  <1>11. CASE Tick
    BY <1>0, <1>t, <1>11 DEF CallAt, Tick, driverFixed, schedule, Working
  <1>12. CASE Controller
    BY <1>0, <1>12 DEF CallAt, Controller, HcMove, HcFetch, HcRetire, HcHalt, hcFixed, schedule, transfer, Working
  <1>13. CASE UNCHANGED vars
    BY <1>0, <1>13 DEF CallAt, vars, schedule, transfer, Working
  <1> QED BY CallStarts, <1>1, <1>2, <1>3, <1>4, <1>5, <1>6, <1>7, <1>8, <1>9, <1>10,
             <1>11, <1>12, <1>13 DEF Next, Driver

-----------------------------------------------------------------------------
(* Chains and the queue heads in use change only when a call prepares its   *)
(* transfer and when a transfer is retired.                                 *)
LEMMA QuietStep ==
  ASSUME EhciInv, [Next]_vars, ~Call, ~Retire
  PROVE  /\ UNCHANGED <<tdActive, tdNext, qhActive, chain, endpOf, recycled, toggle, cur, starved>>
         /\ Busy' = Busy
         /\ \A q : Chain(q)' = Chain(q)
         /\ pc' = "wild" <=> pc = "wild"
  <1>0. TypeOK /\ CallAt
    BY DEF EhciInv
  <1>1. CASE InitToken
    BY <1>1 DEF InitToken, pool, schedule, setup, Busy, Chain, ChainFrom
  <1>2. CASE InsertAsyncQh
    <2>1. cur \in QH /\ list \in Seq(QH)
      BY <1>0, <1>2 DEF CallAt, InsertAsyncQh, TypeOK
    <2>2. list' = Append(list, cur) /\ pc = "insert" /\ pc' = "wait" /\ UNCHANGED <<pool, setup, toggle, cur, starved>>
      BY <1>2 DEF InsertAsyncQh
    <2>3. Range(list') = Range(list) \cup {cur}
      BY <2>1, <2>2, AppendList
    <2> QED BY <2>2, <2>3 DEF pool, setup, Busy, Chain, ChainFrom
  <1>3. CASE WaitTest \/ ReadHalted \/ ReadLink \/ ReadActive \/ Leave \/ Tick
    <2>1. UNCHANGED driverFixed
      BY <1>3 DEF WaitTest, ReadHalted, ReadLink, ReadActive, Leave, Tick, driverFixed
    <2>2. /\ pc \notin {"token", "insert", "wild"}
          /\ pc' \notin {"token", "insert", "wild"}
      BY <1>3 DEF WaitTest, ReadHalted, ReadLink, ReadActive, Leave, Tick
    <2> QED BY <2>1, <2>2 DEF driverFixed, pool, schedule, setup, Busy, Chain, ChainFrom
  <1>4. CASE Controller
    <2>1. UNCHANGED hcFixed
      BY <1>4 DEF Controller, HcMove, HcFetch, HcRetire, HcHalt
    <2> QED BY <2>1 DEF hcFixed, pool, schedule, setup, Busy, Chain, ChainFrom
  <1>5. CASE UNCHANGED vars
    BY <1>5 DEF vars, pool, schedule, setup, Busy, Chain, ChainFrom
  <1> QED BY <1>1, <1>2, <1>3, <1>4, <1>5 DEF Next, Driver

(* A transfer is retired: its queue head is out of use, the chains stay.    *)
LEMMA RetireFrees ==
  ASSUME EhciInv, Retire
  PROVE  /\ cur \in Busy /\ Busy' = Busy \ {cur} /\ qhActive' = qhActive \ {cur}
         /\ \A q : Chain(q)' = Chain(q)
         /\ tdActive' = tdActive \ Chain(cur)
         /\ pc = "retire" /\ pc' = "wait" /\ starved' = starved
         /\ UNCHANGED <<tdNext, chain, overlay, transfer, endpOf, recycled, cur, hcAt, devToggle, upset>>
  <1>0. TypeOK /\ CallAt /\ Ring
    BY DEF EhciInv
  <1>1. /\ pc = "retire" /\ pc' = "wait" /\ list' = RemoveAt(list, Place(cur))
        /\ tdActive' = tdActive \ ChainFrom(chain[cur]) /\ qhActive' = qhActive \ {cur}
        /\ UNCHANGED <<tdNext, overlay, transfer, setup, cur, hcAt, devToggle, starved, upset>>
    BY DEF Retire, FreeQh
  <1>2. list # <<>> /\ cur = Last(list) /\ IsInjective(list) /\ list \in Seq(QH)
    BY <1>0, <1>1 DEF CallAt, Ring, Working, TypeOK
  <1>3. Range(list') = Range(list) \ {cur}
    BY <1>1, <1>2, RemoveLast
  <1>4. cur \in Busy
    BY <1>0, <1>1, CallPlaces DEF Working
  <1> QED BY <1>1, <1>3, <1>4 DEF Busy, Chain, ChainFrom, setup

(* A transfer is prepared: the chains in use stay what they were, and the   *)
(* new one is made of the descriptors taken.                                *)
LEMMA PrepareAdds ==
  ASSUME EhciInv, NEW n \in Nat \ {0}, NEW e \in Endps \cup {Control}, pc = "idle", Prepare(n, e)
  PROVE  \E tds \in SUBSET (TD \ tdActive) :
           /\ tdActive' = tdActive \cup tds
           /\ \A q \in Busy : Chain(q)' = Chain(q) /\ chain'[q] = chain[q] /\ nextLink'[q] = nextLink[q]
           /\ \A q \in Busy : \A td \in Chain(q) : tdNext'[td] = tdNext[td] /\ tdState'[td] = tdState[td]
           /\ starved' = starved
           /\ \A td \in tds : tdState'[td] = "ready"
           /\ \/ /\ pc' = "wild" /\ Busy' = Busy /\ Busy = QH
                 /\ UNCHANGED <<qhActive, chain, endpOf, nextLink, cur, recycled, upset>>
              \/ \E q \in QH \ Busy :
                   /\ pc' = "token" /\ Busy' = Busy \cup {q} /\ qhActive' = qhActive \cup {q}
                   /\ cur' = q /\ Chain(q)' = tds
                   /\ chain'[q] \in tds /\ nextLink'[q] = chain'[q]
                   /\ n = 1 => tdNext'[chain'[q]] = Terminate
                   /\ \A p \in QH \ {q} : nextLink'[p] = nextLink[p] /\ endpOf'[p] = endpOf[p]
                   /\ endpOf'[q] = <<e, IF e = Control THEN 0 ELSE toggle[e]>>
                   /\ recycled' = (hcAt = q)
                   /\ upset' = IF hcAt = q THEN upset \cup ({e} \cap Endps) ELSE upset
  <1>0. TypeOK /\ CallAt /\ Ring /\ Pools /\ qhActive = Busy /\ Busy \subseteq QH
    BY CallPlaces DEF EhciInv, Pools
  <1>1. PICK tds \in SUBSET (TD \ tdActive) :
           /\ tds # {} /\ tds \in SUBSET TD /\ Min(tds) \in tds
           /\ tdActive' = tdActive \cup tds
           /\ tdNext' = Linked(tds) /\ tdNext' \in [TD -> Links]
           /\ Reach(tdNext', Min(tds)) = tds
           /\ \A td \in TD \ tds : tdNext'[td] = tdNext[td]
           /\ tdState' = [td \in TD |-> IF td \in tds THEN "ready" ELSE tdState[td]]
           /\ n = 1 => tdNext'[Min(tds)] = Terminate
           /\ \/ /\ qhActive = QH /\ pc' = "wild"
                 /\ UNCHANGED <<qhActive, chain, endpOf, nextLink, cur, recycled, upset>>
              \/ \E q \in QH \ qhActive :
                   /\ qhActive' = qhActive \cup {q}
                   /\ chain' = [chain EXCEPT ![q] = Min(tds)]
                   /\ nextLink' = [nextLink EXCEPT ![q] = Min(tds)]
                   /\ endpOf' = [endpOf EXCEPT ![q] = <<e, IF e = Control THEN 0 ELSE toggle[e]>>]
                   /\ cur' = q
                   /\ recycled' = (hcAt = q)
                   /\ upset' = IF hcAt = q THEN upset \cup ({e} \cap Endps) ELSE upset
                   /\ pc' = "token"
    BY <1>0, PrepareTakes
  <1>2. list' = list /\ starved' = starved /\ Busy = Range(list)
    BY DEF Prepare, schedule, Busy
  <1>3. /\ chain \in [QH -> Links] /\ nextLink \in [QH -> Links] /\ tdNext \in [TD -> Links]
        /\ endpOf \in [QH -> (Endps \cup {Control, None}) \X {0, 1}]
        /\ tdActive \subseteq TD /\ tdState \in [TD -> {"ready", "done", "halted"}]
    BY <1>0 DEF TypeOK
  <1>4. \A q \in Busy : chain[q] \in TD /\ Chain(q) \subseteq tdActive /\ Chain(q) = Reach(tdNext, chain[q])
    BY <1>0 DEF Pools, Chain, ChainFrom
  <1>5. \A q \in Busy : \A td \in Chain(q) : tdNext'[td] = tdNext[td] /\ tdState'[td] = tdState[td]
    BY <1>1, <1>3, <1>4
  <1>6. \A q \in Busy : Reach(tdNext', chain[q]) = Chain(q)
    <2> TAKE q \in Busy
    <2>1. chain[q] \in TD /\ \A td \in Reach(tdNext, chain[q]) : tdNext'[td] = tdNext[td]
      BY <1>4, <1>5
    <2>2. Reach(tdNext', chain[q]) = Reach(tdNext, chain[q])
      BY <1>1, <1>3, <2>1, ReachSame
    <2> QED BY <1>4, <2>2
  <1>7. \A td \in tds : tdState'[td] = "ready"
    BY <1>1
  <1>8. CASE qhActive = QH /\ pc' = "wild" /\ UNCHANGED <<qhActive, chain, endpOf, nextLink, cur, recycled, upset>>
    <2>1. Busy' = Busy
      BY <1>2, <1>8 DEF Busy
    <2>2. \A q \in Busy : Chain(q)' = Chain(q)
      BY <1>6, <1>8 DEF Chain, ChainFrom
    <2> QED BY <1>0, <1>1, <1>2, <1>5, <1>7, <1>8, <2>1, <2>2
  <1>9. ASSUME NEW q \in QH \ qhActive,
                   /\ qhActive' = qhActive \cup {q}
                   /\ chain' = [chain EXCEPT ![q] = Min(tds)]
                   /\ nextLink' = [nextLink EXCEPT ![q] = Min(tds)]
                   /\ endpOf' = [endpOf EXCEPT ![q] = <<e, IF e = Control THEN 0 ELSE toggle[e]>>]
                   /\ cur' = q
                   /\ recycled' = (hcAt = q)
                   /\ upset' = IF hcAt = q THEN upset \cup ({e} \cap Endps) ELSE upset
                   /\ pc' = "token"
        PROVE  /\ \A p \in Busy : Chain(p)' = Chain(p) /\ chain'[p] = chain[p] /\ nextLink'[p] = nextLink[p]
               /\ \E r \in QH \ Busy :
                   /\ pc' = "token" /\ Busy' = Busy \cup {r} /\ qhActive' = qhActive \cup {r}
                   /\ cur' = r /\ Chain(r)' = tds
                   /\ chain'[r] \in tds /\ nextLink'[r] = chain'[r]
                   /\ n = 1 => tdNext'[chain'[r]] = Terminate
                   /\ \A p \in QH \ {r} : nextLink'[p] = nextLink[p] /\ endpOf'[p] = endpOf[p]
                   /\ endpOf'[r] = <<e, IF e = Control THEN 0 ELSE toggle[e]>>
                   /\ recycled' = (hcAt = r)
                   /\ upset' = IF hcAt = r THEN upset \cup ({e} \cap Endps) ELSE upset
    <2>1. Busy' = Busy \cup {q} /\ q \in QH \ Busy
      BY <1>0, <1>2, <1>9 DEF Busy
    <2>2. chain'[q] = Min(tds) /\ nextLink'[q] = Min(tds)
          /\ endpOf'[q] = <<e, IF e = Control THEN 0 ELSE toggle[e]>>
      BY <1>3, <1>9
    <2>3. \A p \in QH \ {q} : chain'[p] = chain[p] /\ nextLink'[p] = nextLink[p] /\ endpOf'[p] = endpOf[p]
      BY <1>3, <1>9
    <2>4. Chain(q)' = tds
      BY <1>1, <2>2 DEF Chain, ChainFrom
    <2>5. \A p \in Busy : p \in QH \ {q}
      BY <1>0, <2>1
    <2>6. \A p \in Busy : Chain(p)' = Chain(p)
      BY <1>6, <2>3, <2>5 DEF Chain, ChainFrom
    <2>7. chain'[q] \in tds /\ nextLink'[q] = chain'[q] /\ (n = 1 => tdNext'[chain'[q]] = Terminate)
      BY <1>1, <2>2
    <2>8. \A p \in Busy : Chain(p)' = Chain(p) /\ chain'[p] = chain[p] /\ nextLink'[p] = nextLink[p]
      BY <2>3, <2>5, <2>6
    <2> QED BY <1>9, <2>1, <2>2, <2>3, <2>4, <2>7, <2>8
  <1> QED BY <1>1, <1>2, <1>5, <1>7, <1>8, <1>9

(* No descriptor is in two chains, and none is lost to the pool. *)
LEMMA PoolsStep == EhciInv /\ [Next]_vars => Pools'
  <1> SUFFICES ASSUME EhciInv, [Next]_vars PROVE Pools'
    OBVIOUS
  <1>0. TypeOK /\ CallAt /\ Ring /\ Pools /\ tdActive \subseteq TD /\ Busy \subseteq QH
    BY CallPlaces DEF EhciInv, TypeOK
  <1>1. CASE pc = "idle" /\ \E n \in Nat, done \in BOOLEAN : Starve(n, done)
    <2>1. /\ tdActive' = TD /\ starved' = TRUE
          /\ UNCHANGED <<tdNext, qhActive, chain, list, pc, cur>>
      BY <1>1 DEF Starve, schedule, setup
    <2>2. Busy' = Busy /\ \A q : Chain(q)' = Chain(q)
      BY <2>1 DEF Busy, Chain, ChainFrom
    <2>3. \A q \in Busy : Chain(q) \subseteq TD
      BY <1>0 DEF Pools
    <2> QED BY <1>0, <2>1, <2>2, <2>3 DEF Pools
  <1>2. CASE pc = "idle" /\ \E n \in Nat \ {0}, e \in Endps \cup {Control} :
               Prepare(n, e) /\ (e \in Endps => n = 1)
    <2>1. PICK n \in Nat \ {0}, e \in Endps \cup {Control} : Prepare(n, e)
      BY <1>2
    <2>2. PICK tds \in SUBSET (TD \ tdActive) :
           /\ tdActive' = tdActive \cup tds
           /\ \A q \in Busy : Chain(q)' = Chain(q) /\ chain'[q] = chain[q]
           /\ starved' = starved
           /\ \/ /\ pc' = "wild" /\ Busy' = Busy /\ Busy = QH
                 /\ UNCHANGED <<qhActive, chain, endpOf, nextLink, cur, recycled, upset>>
              \/ \E q \in QH \ Busy :
                   /\ pc' = "token" /\ Busy' = Busy \cup {q} /\ qhActive' = qhActive \cup {q}
                   /\ Chain(q)' = tds /\ chain'[q] \in tds
      BY <1>2, <2>1, PrepareAdds
    <2>3. \A q \in Busy : chain[q] \in TD /\ Chain(q) \subseteq tdActive
      BY <1>0 DEF Pools
    <2>4. CASE pc' = "wild" /\ Busy' = Busy /\ Busy = QH /\ qhActive' = qhActive
      BY <1>0, <2>2, <2>3, <2>4 DEF Pools
    <2>5. ASSUME NEW q \in QH \ Busy, pc' = "token", Busy' = Busy \cup {q},
                 qhActive' = qhActive \cup {q}, Chain(q)' = tds, chain'[q] \in tds
          PROVE  Pools'
      <3>1. qhActive' = Busy'
        BY <1>0, <2>5 DEF Pools
      <3>2. \A p \in Busy' : chain'[p] \in TD /\ Chain(p)' \subseteq tdActive'
        BY <2>2, <2>3, <2>5
      <3>3. \A p, r \in Busy' : p # r => Chain(p)' \cap Chain(r)' = {}
        BY <1>0, <2>2, <2>3, <2>5 DEF Pools
      <3>4. ~starved' /\ pc' # "wild" => tdActive' = UNION {Chain(p)' : p \in Busy'}
        <4> SUFFICES ASSUME ~starved PROVE tdActive' = UNION {Chain(p)' : p \in Busy'}
          BY <2>2
        <4>1. tdActive = UNION {Chain(p) : p \in Busy}
          BY <1>0, <1>2 DEF Pools
        <4> QED BY <2>2, <2>5, <4>1
      <3> QED BY <2>5, <3>1, <3>2, <3>3, <3>4 DEF Pools
    <2> QED BY <2>2, <2>4, <2>5
  <1>3. CASE Retire
    <2>1. /\ cur \in Busy /\ Busy' = Busy \ {cur} /\ qhActive' = qhActive \ {cur}
          /\ \A q : Chain(q)' = Chain(q)
          /\ tdActive' = tdActive \ Chain(cur)
          /\ pc = "retire" /\ pc' = "wait" /\ starved' = starved /\ chain' = chain
      BY <1>3, RetireFrees
    <2>2. \A q \in Busy' : chain'[q] \in TD /\ Chain(q)' \subseteq tdActive'
      BY <1>0, <2>1 DEF Pools
    <2>3. ~starved' => tdActive' = UNION {Chain(q)' : q \in Busy'}
      <3> SUFFICES ASSUME ~starved PROVE tdActive \ Chain(cur) = UNION {Chain(q) : q \in Busy \ {cur}}
        BY <2>1
      <3>1. tdActive = UNION {Chain(q) : q \in Busy} /\ \A q \in Busy \ {cur} : Chain(q) \cap Chain(cur) = {}
        BY <1>0, <2>1 DEF Pools
      <3> QED BY <2>1, <3>1
    <2> QED BY <1>0, <2>1, <2>2, <2>3 DEF Pools
  <1>4. CASE ~Call /\ ~Retire
    <2>1. /\ UNCHANGED <<tdActive, qhActive, chain, starved>> /\ Busy' = Busy
          /\ \A q : Chain(q)' = Chain(q)
          /\ pc' = "wild" <=> pc = "wild"
      BY <1>4, QuietStep
    <2> QED BY <1>0, <2>1 DEF Pools
  <1> QED BY CallStarts, <1>1, <1>2, <1>3, <1>4

-----------------------------------------------------------------------------
(* The links lead to queue heads on the schedule only. *)
LEMMA LinksLead ==
  ASSUME TypeOK, Ring, NEW q \in {AsyncHead} \cup QH
  PROVE  qhlp[q] \in {AsyncHead} \cup Range(list)
  <1>1. list \in Seq(QH) /\ DOMAIN list = 1 .. Len(list) /\ Len(list) \in Nat
    BY DEF TypeOK
  <1>2. CASE q = AsyncHead
    <2>1. list # <<>> => 1 \in DOMAIN list
      BY <1>1
    <2> QED BY <1>2, <2>1 DEF Ring, Range
  <1>3. CASE q \in Range(list)
    <2>1. PICK i \in DOMAIN list : q = list[i]
      BY <1>3 DEF Range
    <2>2. i # Len(list) => i + 1 \in DOMAIN list
      BY <1>1, <2>1
    <2>3. i \in 1 .. Len(list)
      BY <1>1, <2>1
    <2> QED BY <2>1, <2>2, <2>3 DEF Ring, Range
  <1>4. CASE q \in QH \ Range(list)
    BY <1>4 DEF Ring
  <1> QED BY <1>2, <1>3, <1>4

(* The controller stays in the chains in use. *)
LEMMA OverlaysStep == EhciInv /\ [Next]_vars => Overlays'
  <1> SUFFICES ASSUME EhciInv, [Next]_vars PROVE Overlays'
    OBVIOUS
  <1> USE DEF AsyncHead, Terminate
  <1>0. TypeOK /\ TypeOK' /\ CallAt /\ Ring /\ Pools /\ Overlays /\ Busy \subseteq QH
    BY TypeStep, CallPlaces DEF EhciInv
  <1>t. /\ token \in [QH -> Tokens] /\ nextLink \in [QH -> Links] /\ curLink \in [QH -> Links]
        /\ tdNext \in [TD -> Links] /\ hcAt \in {0} \cup QH /\ cur \in {0} \cup QH
    BY <1>0 DEF TypeOK
  <1>c. \A q \in Busy : \A td \in Chain(q) : td \in TD /\ tdNext[td] \in Chain(q) \cup {0}
    <2> TAKE q \in Busy
    <2> TAKE td \in Chain(q)
    <2>1. chain[q] \in TD /\ Chain(q) = Reach(tdNext, chain[q])
      BY <1>0 DEF Pools, Chain, ChainFrom
    <2> QED BY <1>t, <2>1, ReachStart, ReachClosed
  <1>1. CASE pc = "idle" /\ \E n \in Nat, done \in BOOLEAN : Starve(n, done)
    <2>1. UNCHANGED <<tdNext, chain, list, pc, cur, token, nextLink, curLink, hcAt, recycled>>
      BY <1>1 DEF Starve, schedule, overlay, setup
    <2>2. Busy' = Busy /\ \A q : Chain(q)' = Chain(q)
      BY <2>1 DEF Busy, Chain, ChainFrom
    <2> QED BY <1>0, <1>1, <2>1, <2>2 DEF Overlays
  <1>2. CASE pc = "idle" /\ \E n \in Nat \ {0}, e \in Endps \cup {Control} :
               Prepare(n, e) /\ (e \in Endps => n = 1)
    <2>1. PICK n \in Nat \ {0}, e \in Endps \cup {Control} : Prepare(n, e)
      BY <1>2
    <2>2. PICK tds \in SUBSET (TD \ tdActive) :
           /\ \A q \in Busy : Chain(q)' = Chain(q) /\ nextLink'[q] = nextLink[q]
           /\ \/ /\ pc' = "wild" /\ Busy' = Busy /\ Busy = QH
                 /\ UNCHANGED <<qhActive, chain, endpOf, nextLink, cur, recycled, upset>>
              \/ \E q \in QH \ Busy :
                   /\ pc' = "token" /\ Busy' = Busy \cup {q}
                   /\ cur' = q /\ Chain(q)' = tds
                   /\ chain'[q] \in tds /\ nextLink'[q] = chain'[q]
                   /\ \A p \in QH \ {q} : nextLink'[p] = nextLink[p]
                   /\ recycled' = (hcAt = q)
      BY <1>2, <2>1, PrepareAdds
    <2>3. UNCHANGED <<token, curLink, hcAt>>
      BY <2>1 DEF Prepare
    <2>4. CASE pc' = "wild" /\ Busy' = Busy /\ nextLink' = nextLink
      BY <1>0, <2>2, <2>3, <2>4 DEF Overlays
    <2>5. ASSUME NEW q \in QH \ Busy, pc' = "token", Busy' = Busy \cup {q},
                 cur' = q, Chain(q)' = tds, chain'[q] \in tds, nextLink'[q] = chain'[q],
                 \A p \in QH \ {q} : nextLink'[p] = nextLink[p], recycled' = (hcAt = q)
          PROVE  Overlays'
      <3>1. \A p \in QH : token[p].active => p \in Busy' /\ curLink[p] \in Chain(p)' /\ ~token[p].halted
        BY <1>0, <2>2, <2>5 DEF Overlays
      <3>2. \A p \in Busy' : nextLink'[p] \in Chain(p)' \cup {0}
        BY <1>0, <2>2, <2>5 DEF Overlays
      <3>3. \A p \in QH \ Busy' : token[p].halted \/ nextLink'[p] = 0
        BY <1>0, <2>5 DEF Overlays
      <3> QED BY <2>3, <2>5, <3>1, <3>2, <3>3 DEF Overlays
    <2> QED BY <2>2, <2>4, <2>5
  <1>3. CASE Retire
    <2>1. /\ cur \in Busy /\ Busy' = Busy \ {cur}
          /\ \A q : Chain(q)' = Chain(q)
          /\ pc = "retire" /\ pc' = "wait"
          /\ UNCHANGED <<token, nextLink, curLink, cur, hcAt, recycled>>
      BY <1>3, RetireFrees DEF overlay
    <2> QED BY <1>0, <2>1 DEF Overlays
  <1>4. CASE ~Call /\ ~Retire
    <2>0. /\ UNCHANGED <<cur, recycled>> /\ Busy' = Busy
          /\ \A q : Chain(q)' = Chain(q)
          /\ pc' = "wild" <=> pc = "wild"
      BY <1>4, QuietStep
    <2>1. CASE InitToken
      <3>1. /\ cur \in Busy /\ cur \in QH /\ pc = "token" /\ pc' = "insert"
            /\ token' = [token EXCEPT ![cur] = Idle]
            /\ UNCHANGED <<nextLink, curLink, hcAt>>
        BY <1>0, <2>1, CallPlaces DEF InitToken
      <3>2. /\ ~token'[cur].active /\ ~token'[cur].halted
            /\ \A q \in QH \ {cur} : token'[q] = token[q]
        BY <1>t, <3>1 DEF Idle
      <3> QED BY <1>0, <2>0, <3>1, <3>2 DEF Overlays
    <2>2. CASE InsertAsyncQh
      <3>1. pc' = "wait" /\ UNCHANGED <<token, nextLink, curLink, hcAt>>
        BY <2>2 DEF InsertAsyncQh, overlay
      <3> QED BY <1>0, <2>0, <3>1 DEF Overlays
    <2>3. CASE WaitTest \/ ReadHalted \/ ReadLink \/ ReadActive \/ Leave \/ Tick
      <3>1. UNCHANGED <<token, nextLink, curLink, hcAt>>
        BY <2>3 DEF WaitTest, ReadHalted, ReadLink, ReadActive, Leave, Tick, driverFixed, overlay
      <3>2. pc' = "active" => nextLink[cur] = 0
        BY <1>0, <2>3 DEF WaitTest, ReadHalted, ReadLink, ReadActive, Leave, Tick, Overlays
      <3>3. pc' = "retire" => ~token[cur].active /\ (IF success' THEN nextLink[cur] = 0 ELSE token[cur].halted)
        <4>1. CASE WaitTest \/ ReadLink \/ Leave
          BY <4>1 DEF WaitTest, ReadLink, Leave
        <4>2. CASE Tick
          BY <1>0, <4>2 DEF Tick, Overlays
        <4>3. CASE ReadHalted
          <5>1. cur \in QH
            BY <1>0, <4>3, CallPlaces DEF ReadHalted, Working
          <5> QED BY <1>0, <4>3, <5>1 DEF ReadHalted, Overlays
        <4>4. CASE ReadActive
          BY <1>0, <4>4 DEF ReadActive, Overlays
        <4> QED BY <2>3, <4>1, <4>2, <4>3, <4>4
      <3>4. pc' \notin {"token", "insert"}
        BY <2>3 DEF WaitTest, ReadHalted, ReadLink, ReadActive, Leave, Tick
      <3> QED BY <1>0, <2>0, <3>1, <3>2, <3>3, <3>4 DEF Overlays
    <2>4. CASE HcMove
      <3>1. hcAt' \in {0} \cup Range(list)
        BY <1>0, <1>t, <2>4, LinksLead DEF HcMove
      <3>2. UNCHANGED <<pc, success, token, nextLink, curLink>>
        BY <2>4 DEF HcMove, hcFixed, transfer, overlay
      <3>3. pc \in {"token", "insert"} => hcAt' # cur
        BY <1>0, <3>1 DEF CallAt, QH
      <3> QED BY <1>0, <2>0, <3>2, <3>3 DEF Overlays
    <2>5. CASE HcFetch
      <3> DEFINE q == hcAt
      <3>1. /\ q \in QH /\ ~token[q].active /\ ~token[q].halted /\ nextLink[q] # 0
            /\ curLink' = [curLink EXCEPT ![q] = nextLink[q]]
            /\ nextLink' = [nextLink EXCEPT ![q] = tdNext[nextLink[q]]]
            /\ token' = [token EXCEPT ![q] = [active |-> TRUE, halted |-> FALSE]]
            /\ UNCHANGED <<pc, success, hcAt>>
        BY <1>t, <2>5 DEF HcFetch, hcFixed, transfer, Idle
      <3>2. q \in Busy /\ nextLink[q] \in Chain(q)
        BY <1>0, <3>1 DEF Overlays
      <3>3. tdNext[nextLink[q]] \in Chain(q) \cup {0}
        BY <1>c, <3>2
      <3>4. /\ curLink'[q] \in Chain(q) /\ nextLink'[q] \in Chain(q) \cup {0}
            /\ token'[q].active /\ ~token'[q].halted
            /\ \A p \in QH \ {q} : token'[p] = token[p] /\ nextLink'[p] = nextLink[p] /\ curLink'[p] = curLink[p]
        BY <1>t, <3>1, <3>2, <3>3
      <3> HIDE DEF q
      <3>5. pc \in {"active", "retire"} => q # cur /\ cur \in QH
        BY <1>0, <3>1, CallPlaces DEF Overlays, Working
      <3>6. pc \in {"token", "insert"} /\ ~recycled => hcAt' # cur
        BY <1>0, <3>1 DEF Overlays
      <3>7. \A p \in QH : token'[p].active => p \in Busy /\ curLink'[p] \in Chain(p) /\ ~token'[p].halted
        BY <1>0, <3>2, <3>4 DEF Overlays
      <3>8. /\ \A p \in Busy : nextLink'[p] \in Chain(p) \cup {0}
            /\ \A p \in QH \ Busy : token'[p].halted \/ nextLink'[p] = 0
        BY <1>0, <3>2, <3>4 DEF Overlays
      <3>9. /\ pc = "active" => nextLink'[cur] = 0
            /\ pc = "retire" => ~token'[cur].active /\ (IF success THEN nextLink'[cur] = 0 ELSE token'[cur].halted)
        BY <1>0, <3>4, <3>5 DEF Overlays
      <3> QED BY <2>0, <3>1, <3>6, <3>7, <3>8, <3>9 DEF Overlays
    <2>6. CASE HcRetire \/ HcHalt
      <3> DEFINE q == hcAt
      <3>1. /\ q \in QH /\ token[q].active
            /\ token' = [token EXCEPT ![q] = Idle]
                 \/ token' = [token EXCEPT ![q] = [active |-> FALSE, halted |-> TRUE]]
            /\ UNCHANGED <<pc, success, hcAt, nextLink, curLink>>
        BY <1>t, <2>6 DEF HcRetire, HcHalt, hcFixed, transfer, Idle
      <3>2. q \in Busy
        BY <1>0, <3>1 DEF Overlays
      <3>3. ~token'[q].active /\ \A p \in QH \ {q} : token'[p] = token[p]
        BY <1>t, <3>1 DEF Idle
      <3> HIDE DEF q
      <3>4. pc = "retire" => q # cur /\ cur \in QH
        BY <1>0, <3>1, CallPlaces DEF Overlays, Working
      <3>5. pc \in {"token", "insert"} /\ ~recycled => hcAt' # cur
        BY <1>0, <3>1 DEF Overlays
      <3>6. \A p \in QH : token'[p].active => p \in Busy /\ curLink'[p] \in Chain(p) /\ ~token'[p].halted
        BY <1>0, <3>1, <3>3 DEF Overlays
      <3>7. /\ \A p \in Busy : nextLink'[p] \in Chain(p) \cup {0}
            /\ \A p \in QH \ Busy : token'[p].halted \/ nextLink'[p] = 0
        BY <1>0, <3>1, <3>2, <3>3 DEF Overlays
      <3>8. /\ pc = "active" => nextLink'[cur] = 0
            /\ pc = "retire" => ~token'[cur].active /\ (IF success THEN nextLink'[cur] = 0 ELSE token'[cur].halted)
        BY <1>0, <3>1, <3>3, <3>4 DEF Overlays
      <3> QED BY <2>0, <3>1, <3>5, <3>6, <3>7, <3>8 DEF Overlays
    <2>7. CASE UNCHANGED vars
      BY <1>0, <2>0, <2>7 DEF Overlays, vars, overlay, transfer
    <2> QED BY <1>4, <2>1, <2>2, <2>3, <2>4, <2>5, <2>6, <2>7 DEF Next, Driver, Controller
  <1> QED BY CallStarts, <1>1, <1>2, <1>3, <1>4

-----------------------------------------------------------------------------
(* Descriptors move behind the controller one at a time. *)
LEMMA AheadFetch ==
  ASSUME EhciInv, HcFetch, cur = hcAt, Ahead
  PROVE  Ahead'
  <1> USE DEF AsyncHead, Terminate
  <1>0. TypeOK /\ Pools /\ Overlays
    BY DEF EhciInv
  <1>t. /\ token \in [QH -> Tokens] /\ nextLink \in [QH -> Links] /\ curLink \in [QH -> Links]
        /\ tdNext \in [TD -> Links]
    BY <1>0 DEF TypeOK
  <1>1. /\ cur \in QH /\ ~token[cur].active /\ ~token[cur].halted /\ nextLink[cur] # 0
        /\ curLink' = [curLink EXCEPT ![cur] = nextLink[cur]]
        /\ nextLink' = [nextLink EXCEPT ![cur] = tdNext[nextLink[cur]]]
        /\ token' = [token EXCEPT ![cur] = [active |-> TRUE, halted |-> FALSE]]
        /\ UNCHANGED <<tdNext, chain, cur, tdState>>
    BY <1>0 DEF HcFetch, hcFixed, pool, setup, Idle, TypeOK
  <1>2. /\ curLink'[cur] = nextLink[cur] /\ nextLink'[cur] = tdNext[nextLink[cur]]
        /\ token'[cur].active /\ ~token'[cur].halted
    BY <1>t, <1>1
  <1>3. nextLink[cur] \in TD
    BY <1>t, <1>1 DEF Links
  <1>4. Chain(cur)' = Chain(cur)
    BY <1>1 DEF Chain, ChainFrom
  <1>5. ASSUME NEW td \in Chain(cur)
        PROVE  /\ tdState[td] = "ready" =>
                    \/ nextLink'[cur] # 0 /\ td \in Reach(tdNext, nextLink'[cur])
                    \/ td = curLink'[cur]
               /\ tdState[td] # "halted"
    <2>1. tdState[td] # "halted"
      BY <1>1 DEF Ahead
    <2>2. tdState[td] = "ready" => td \in Reach(tdNext, nextLink[cur])
      BY <1>1 DEF Ahead, ChainFrom
    <2>3. \/ tdNext[nextLink[cur]] # 0 /\ Reach(tdNext, nextLink[cur]) \subseteq {nextLink[cur]} \cup Reach(tdNext, tdNext[nextLink[cur]])
          \/ Reach(tdNext, nextLink[cur]) = {nextLink[cur]}
      BY <1>t, <1>3, ReachStep
    <2> QED BY <1>2, <2>1, <2>2, <2>3
  <1> QED BY <1>1, <1>2, <1>4, <1>5 DEF Ahead, ChainFrom

LEMMA AheadDone ==
  ASSUME EhciInv, HcRetire \/ HcHalt, cur = hcAt, Ahead
  PROVE  Ahead'
  <1> USE DEF AsyncHead, Terminate
  <1>0. TypeOK /\ Pools /\ Overlays
    BY DEF EhciInv
  <1>t. token \in [QH -> Tokens] /\ tdState \in [TD -> {"ready", "done", "halted"}]
    BY <1>0 DEF TypeOK
  <1>1. /\ cur \in QH /\ token[cur].active
        /\ \/ /\ token' = [token EXCEPT ![cur] = Idle]
              /\ tdState' = [tdState EXCEPT ![curLink[cur]] = "done"]
           \/ /\ token' = [token EXCEPT ![cur] = [active |-> FALSE, halted |-> TRUE]]
              /\ tdState' = [tdState EXCEPT ![curLink[cur]] = "halted"]
        /\ UNCHANGED <<tdNext, chain, cur, nextLink, curLink>>
    BY <1>0 DEF HcRetire, HcHalt, hcFixed, pool, setup, TypeOK
  <1>2. Chain(cur)' = Chain(cur) /\ ~token[cur].halted
    BY <1>0, <1>1 DEF Chain, ChainFrom, Overlays
  <1>3. nextLink[cur] = tdNext[curLink[cur]]
    BY <1>1 DEF Ahead
  <1>4. ~token'[cur].active
    BY <1>t, <1>1 DEF Idle
  <1>5. ASSUME NEW td \in Chain(cur)
        PROVE  /\ tdState'[td] = "ready" => nextLink[cur] # 0 /\ td \in ChainFrom(nextLink[cur])
               /\ tdState'[td] = "halted" => token'[cur].halted /\ td = curLink[cur]
    <2>0. td \in TD
      BY DEF Chain, ChainFrom, Reach
    <2>1. td # curLink[cur] => tdState'[td] = tdState[td]
      BY <1>t, <1>1, <2>0
    <2>2. /\ tdState[td] = "ready" =>
               \/ nextLink[cur] # 0 /\ td \in ChainFrom(nextLink[cur])
               \/ td = curLink[cur]
          /\ tdState[td] # "halted"
      BY <1>2 DEF Ahead
    <2>3. CASE td = curLink[cur]
      <3>1. tdState'[td] # "ready" /\ (tdState'[td] = "halted" => token'[cur].halted)
        BY <1>t, <1>1, <2>0, <2>3
      <3> QED BY <2>3, <3>1
    <2>4. CASE td # curLink[cur]
      BY <2>1, <2>2, <2>4
    <2> QED BY <2>3, <2>4
  <1>6. \A td : (td \in ChainFrom(nextLink[cur]))' <=> td \in ChainFrom(nextLink[cur])
    BY <1>1 DEF ChainFrom
  <1> QED BY <1>1, <1>2, <1>3, <1>4, <1>5, <1>6 DEF Ahead

(* What a step at another queue head leaves alone. *)
LEMMA ElsewhereStep ==
  ASSUME EhciInv, HcFetch \/ HcRetire \/ HcHalt, NEW c \in QH, c # hcAt,
         \A q \in Busy \ {c} : Chain(c) \cap Chain(q) = {}
  PROVE  /\ token'[c] = token[c] /\ nextLink'[c] = nextLink[c] /\ curLink'[c] = curLink[c]
         /\ \A td \in Chain(c) : tdState'[td] = tdState[td]
  <1> USE DEF AsyncHead
  <1>0. TypeOK /\ Overlays
    BY DEF EhciInv
  <1>t. /\ token \in [QH -> Tokens] /\ nextLink \in [QH -> Links] /\ curLink \in [QH -> Links]
        /\ tdState \in [TD -> {"ready", "done", "halted"}] /\ hcAt \in QH
    BY <1>0 DEF TypeOK, HcFetch, HcRetire, HcHalt
  <1>1. token'[c] = token[c] /\ nextLink'[c] = nextLink[c] /\ curLink'[c] = curLink[c]
    BY <1>t DEF HcFetch, HcRetire, HcHalt
  <1>2. CASE HcFetch
    BY <1>1, <1>2 DEF HcFetch
  <1>3. CASE HcRetire \/ HcHalt
    <2>1. token[hcAt].active
      BY <1>3 DEF HcRetire, HcHalt
    <2>2. hcAt \in Busy /\ curLink[hcAt] \in Chain(hcAt)
      BY <1>0, <1>t, <2>1 DEF Overlays
    <2>3. curLink[hcAt] \notin Chain(c)
      BY <2>2
    <2>4. Chain(c) \subseteq TD
      BY DEF Chain, ChainFrom, Reach
    <2>5. \E v : tdState' = [tdState EXCEPT ![curLink[hcAt]] = v]
      BY <1>3 DEF HcRetire, HcHalt
    <2> QED BY <1>t, <1>1, <2>3, <2>4, <2>5
  <1> QED BY <1>2, <1>3

(* A transfer reported as done is done. *)
LEMMA SettlingStep == EhciInv /\ [Next]_vars => Settling'
  <1> SUFFICES ASSUME EhciInv, [Next]_vars, ~recycled' PROVE Settling'
    BY DEF Settling
  <1> USE DEF AsyncHead, Terminate
  <1>0. TypeOK /\ CallAt /\ Ring /\ Pools /\ Overlays /\ Settling /\ Busy \subseteq QH
    BY CallPlaces DEF EhciInv
  <1>t. /\ token \in [QH -> Tokens] /\ hcAt \in {0} \cup QH /\ cur \in {0} \cup QH
    BY <1>0 DEF TypeOK
  <1>1. CASE pc = "idle" /\ \E n \in Nat, done \in BOOLEAN : Starve(n, done)
    <2>1. success' = FALSE /\ pc' = "idle"
      BY <1>1 DEF Starve
    <2> QED BY <2>1 DEF Settling, Working
  <1>2. CASE pc = "idle" /\ \E n \in Nat \ {0}, e \in Endps \cup {Control} :
               Prepare(n, e) /\ (e \in Endps => n = 1)
    <2>1. PICK n \in Nat \ {0}, e \in Endps \cup {Control} : Prepare(n, e)
      BY <1>2
    <2>2. PICK tds \in SUBSET (TD \ tdActive) :
           /\ \A td \in tds : tdState'[td] = "ready"
           /\ \/ pc' = "wild"
              \/ \E q \in QH \ Busy :
                   /\ pc' = "token" /\ cur' = q /\ Chain(q)' = tds /\ nextLink'[q] = chain'[q]
      BY <1>2, <2>1, PrepareAdds
    <2>3. success' = FALSE
      BY <2>1 DEF Prepare
    <2>4. CASE pc' = "wild"
      BY <2>3, <2>4 DEF Settling, Working
    <2>5. ASSUME NEW q \in QH, pc' = "token", cur' = q, Chain(q)' = tds, nextLink'[q] = chain'[q]
          PROVE  Settling'
      <3>1. Chain(cur)' = tds
        BY <2>5 DEF Chain, ChainFrom
      <3> QED BY <2>2, <2>3, <2>5, <3>1 DEF Settling, Working
    <2> QED BY <2>2, <2>4, <2>5
  <1>3. CASE Retire
    <2>1. /\ cur \in Busy /\ Busy' = Busy \ {cur}
          /\ \A q : Chain(q)' = Chain(q)
          /\ pc = "retire" /\ pc' = "wait"
          /\ UNCHANGED <<tdNext, chain, token, nextLink, curLink, tdState, cur, success, complete, recycled>>
      BY <1>3, RetireFrees DEF overlay, transfer
    <2>2. complete
      BY <1>0, <2>1 DEF CallAt
    <2>3. Ahead
      BY <1>0, <2>1 DEF Settling, Working
    <2>4. ASSUME success PROVE Settled /\ \A q \in Busy' : Chain(cur) \cap Chain(q) = {}
      <3>1. ~token[cur].active /\ nextLink[cur] = 0
        BY <1>0, <2>1, <2>4 DEF Overlays
      <3>2. \A td \in Chain(cur) : tdState[td] # "ready"
        BY <2>3, <3>1 DEF Ahead
      <3>3. \A td \in Chain(cur) : tdState[td] = "halted" => tdNext[td] = 0
        BY <2>3, <3>1 DEF Ahead
      <3>4. \A q \in Busy \ {cur} : Chain(cur) \cap Chain(q) = {}
        BY <1>0, <2>1 DEF Pools
      <3> QED BY <2>1, <3>2, <3>3, <3>4 DEF Settled
    <2>5. Chain(cur)' = Chain(cur) /\ (Settled' <=> Settled)
      BY <2>1 DEF Chain, ChainFrom, Settled
    <2> QED BY <2>1, <2>2, <2>4, <2>5 DEF Settling, Working
  <1>4. CASE ~Call /\ ~Retire
    <2>0. /\ UNCHANGED <<tdNext, chain, cur, recycled>> /\ Busy' = Busy
          /\ \A q : Chain(q)' = Chain(q)
      BY <1>4, QuietStep
    <2>q. Chain(cur)' = Chain(cur)
      BY <2>0 DEF Chain, ChainFrom
    <2>1. CASE InitToken
      <3>1. /\ cur \in Busy /\ cur \in QH /\ pc = "token" /\ pc' = "insert" /\ ~success
            /\ token' = [token EXCEPT ![cur] = Idle]
            /\ UNCHANGED <<nextLink, curLink, tdState, success>>
        BY <1>0, <2>1, CallPlaces DEF InitToken, CallAt, transfer
      <3>2. ~token'[cur].active /\ ~token'[cur].halted
        BY <1>t, <3>1 DEF Idle
      <3>3. nextLink[cur] = chain[cur] /\ (\A td \in Chain(cur) : tdState[td] = "ready")
        BY <1>0, <2>0, <3>1 DEF Settling
      <3>4. nextLink[cur] # 0
        BY <1>0, <3>1, <3>3 DEF Pools, TD
      <3>5. ChainFrom(nextLink[cur])' = Chain(cur)
        BY <2>0, <3>1, <3>3 DEF Chain, ChainFrom
      <3>6. Ahead'
        BY <2>0, <2>q, <3>1, <3>2, <3>3, <3>4, <3>5 DEF Ahead
      <3> QED BY <3>1, <3>6 DEF Settling
    <2>2. CASE ~InitToken /\ ~Controller
      <3>1. UNCHANGED <<token, nextLink, curLink, tdState>>
        BY <1>4, <2>2 DEF Next, Driver, InsertAsyncQh, WaitTest, ReadHalted, ReadLink, ReadActive,
                         Leave, Tick, driverFixed, overlay, vars
      <3>2. /\ pc' = "token" => pc = "token"
            /\ pc' = "insert" \/ Working' => pc = "insert" \/ Working
            /\ success' /\ pc' # "retire" => success /\ pc # "retire"
        <4>1. CASE UNCHANGED vars
          BY <4>1 DEF vars, transfer, Working
        <4>2. CASE InsertAsyncQh
          BY <4>2 DEF InsertAsyncQh, transfer, Working
        <4>3. CASE WaitTest \/ ReadLink
          BY <4>3 DEF WaitTest, ReadLink, transfer, Working
        <4>4. CASE ReadHalted \/ ReadActive
          BY <1>0, <4>4 DEF ReadHalted, ReadActive, Working, CallAt
        <4>5. CASE Leave
          BY <4>5 DEF Leave, Working
        <4>6. CASE Tick
          BY <4>6 DEF Tick, Working
        <4> QED BY <1>4, <2>2, <4>1, <4>2, <4>3, <4>4, <4>5, <4>6 DEF Next, Driver
      <3>3. (Ahead' <=> Ahead) /\ (Settled' <=> Settled)
        BY <2>0, <3>1 DEF Ahead, Settled, Chain, ChainFrom
      <3> QED BY <1>0, <2>0, <2>q, <3>1, <3>2, <3>3 DEF Settling
    <2>3. CASE HcMove
      <3>1. UNCHANGED <<pc, success, complete, token, nextLink, curLink, tdState>>
        BY <2>3 DEF HcMove, hcFixed, transfer, overlay
      <3>2. (Ahead' <=> Ahead) /\ (Settled' <=> Settled)
        BY <2>0, <3>1 DEF Ahead, Settled, Chain, ChainFrom
      <3> QED BY <1>0, <2>0, <2>q, <3>1, <3>2 DEF Settling, Working
    <2>4. CASE HcFetch \/ HcRetire \/ HcHalt
      <3>1. UNCHANGED <<pc, success, complete>> /\ (Working' <=> Working)
        BY <2>4 DEF HcFetch, HcRetire, HcHalt, hcFixed, transfer, Working
      <3>2. pc = "token" \/ pc = "insert" \/ Working => cur \in Busy /\ cur \in QH
        BY <1>0, CallPlaces
      <3>3. success /\ pc # "retire" => cur \in QH \ Busy
        BY <1>0, CallPlaces DEF CallAt
      <3>4. ASSUME pc = "token" \/ pc = "insert" \/ Working, cur # hcAt
            PROVE  /\ token'[cur] = token[cur] /\ nextLink'[cur] = nextLink[cur] /\ curLink'[cur] = curLink[cur]
                   /\ \A td \in Chain(cur) : tdState'[td] = tdState[td]
        <4>1. \A q \in Busy \ {cur} : Chain(cur) \cap Chain(q) = {}
          BY <1>0, <3>2, <3>4 DEF Pools
        <4> QED BY <2>4, <3>2, <3>4, <4>1, ElsewhereStep
      <3>5. pc = "token" => /\ nextLink'[cur] = chain[cur]
                            /\ \A td \in Chain(cur) : tdState'[td] = "ready"
        BY <1>0, <2>0, <3>4 DEF Settling, Overlays
      <3>6. ASSUME pc = "insert" \/ Working PROVE Ahead'
        <4>1. Ahead
          BY <1>0, <2>0, <3>6 DEF Settling
        <4>2. CASE cur = hcAt
          BY <2>4, <4>1, <4>2, AheadFetch, AheadDone
        <4>3. CASE cur # hcAt
          <5>1. \A td : (td \in ChainFrom(nextLink[cur]))' <=> td \in ChainFrom(nextLink[cur])
            BY <2>0, <3>4, <3>6, <4>3 DEF ChainFrom
          <5> QED BY <2>0, <2>q, <3>4, <3>6, <4>1, <4>3, <5>1 DEF Ahead
        <4> QED BY <4>2, <4>3
      <3>7. ASSUME success, pc # "retire"
            PROVE  Settled' /\ \A q \in Busy : Chain(cur) \cap Chain(q) = {}
        <4>1. Settled /\ \A q \in Busy : Chain(cur) \cap Chain(q) = {}
          BY <1>0, <2>0, <3>7 DEF Settling
        <4>2. cur \in QH /\ cur \notin Busy
          BY <3>3, <3>7
        <4>3. cur # hcAt
          BY <1>0, <2>4, <4>2 DEF HcFetch, HcRetire, HcHalt, Overlays, Idle
        <4>4. \A td \in Chain(cur) : tdState'[td] = tdState[td]
          BY <2>4, <4>1, <4>2, <4>3, ElsewhereStep
        <4> QED BY <2>0, <2>q, <4>1, <4>4 DEF Settled
      <3> QED BY <2>0, <2>q, <3>1, <3>5, <3>6, <3>7 DEF Settling
    <2> QED BY <1>4, <2>1, <2>2, <2>3, <2>4 DEF Controller
  <1> QED BY CallStarts, <1>1, <1>2, <1>3, <1>4

-----------------------------------------------------------------------------
(* A chain of one descriptor. *)
LEMMA SingleChain ==
  ASSUME TypeOK, Pools, NEW q \in Busy
  PROVE  /\ chain[q] \in TD /\ chain[q] \in Chain(q)
         /\ tdNext[chain[q]] = Terminate => Chain(q) = {chain[q]}
  <1>1. chain[q] \in TD /\ tdNext \in [TD -> Links]
    BY DEF TypeOK, Pools
  <1> QED BY <1>1, ReachStart, ReachStep DEF Chain, ChainFrom

(* Outside the body of a wait nothing moves the call on but Leave. *)
LEMMA CurrentStays ==
  ASSUME EhciInv, [Next]_vars, ~Call, ~Retire, ~Leave
  PROVE  Current' <=> Current
  <1>0. CallAt
    BY DEF EhciInv
  <1>1. CASE InitToken \/ InsertAsyncQh
    BY <1>0, <1>1 DEF InitToken, InsertAsyncQh, transfer, Current, Working, CallAt
  <1>2. CASE WaitTest \/ ReadLink
    BY <1>0, <1>2 DEF WaitTest, ReadLink, transfer, Current, Working, CallAt
  <1>3. CASE ReadHalted \/ ReadActive
    BY <1>0, <1>3 DEF ReadHalted, ReadActive, Current, Working, CallAt
  <1>4. CASE Tick
    BY <1>4 DEF Tick, Current, Working
  <1>5. CASE Controller
    BY <1>5 DEF Controller, HcMove, HcFetch, HcRetire, HcHalt, hcFixed, transfer, Current, Working
  <1>6. CASE UNCHANGED vars
    BY <1>6 DEF vars, transfer, Current, Working
  <1> QED BY <1>1, <1>2, <1>3, <1>4, <1>5, <1>6 DEF Next, Driver

(* Host and device stay in step. *)
LEMMA TogglesStep == EhciInv /\ [Next]_vars => Toggles'
  <1> SUFFICES ASSUME EhciInv, [Next]_vars, pc' # "wild" PROVE Toggles'
    BY DEF Toggles
  <1> USE DEF AsyncHead, Terminate
  <1>0. /\ TypeOK /\ CallAt /\ Ring /\ Pools /\ Overlays /\ Settling /\ Toggles
        /\ Busy \subseteq QH /\ Control \notin Endps
    BY CallPlaces, NamesAssumption DEF EhciInv
  <1>t. /\ token \in [QH -> Tokens] /\ hcAt \in {0} \cup QH /\ cur \in {0} \cup QH
        /\ toggle \in [Endps -> {0, 1}] /\ devToggle \in [Endps -> {0, 1}] /\ upset \subseteq Endps
        /\ tdState \in [TD -> {"ready", "done", "halted"}]
    BY <1>0 DEF TypeOK
  <1>c. Current => cur \in Busy /\ cur \in QH
    BY <1>0, CallPlaces DEF Current
  <1>1. CASE pc = "idle" /\ \E n \in Nat, done \in BOOLEAN : Starve(n, done)
    <2>1. UNCHANGED <<tdNext, chain, list, endpOf, recycled, pc, cur, toggle, devToggle, upset>>
      BY <1>1 DEF Starve, schedule, setup
    <2>2. Busy' = Busy /\ ~Current /\ ~Current'
      BY <1>1, <2>1 DEF Busy, Current, Working
    <2> QED BY <1>0, <1>1, <2>1, <2>2 DEF Toggles
  <1>2. CASE pc = "idle" /\ \E n \in Nat \ {0}, e \in Endps \cup {Control} :
               Prepare(n, e) /\ (e \in Endps => n = 1)
    <2>1. PICK n \in Nat \ {0}, e \in Endps \cup {Control} : Prepare(n, e) /\ (e \in Endps => n = 1)
      BY <1>2
    <2>2. PICK tds \in SUBSET (TD \ tdActive), q \in QH \ Busy :
           /\ \A td \in tds : tdState'[td] = "ready"
           /\ pc' = "token" /\ Busy' = Busy \cup {q}
           /\ cur' = q
           /\ chain'[q] \in tds
           /\ n = 1 => tdNext'[chain'[q]] = Terminate
           /\ \A p \in QH \ {q} : endpOf'[p] = endpOf[p]
           /\ endpOf'[q] = <<e, IF e = Control THEN 0 ELSE toggle[e]>>
           /\ recycled' = (hcAt = q)
           /\ upset' = IF hcAt = q THEN upset \cup ({e} \cap Endps) ELSE upset
      BY <1>2, <2>1, PrepareAdds
    <2>3. endp' = e /\ UNCHANGED <<toggle, devToggle>> /\ ~Current /\ Current' /\ upset \subseteq upset'
      BY <1>2, <2>1, <2>2 DEF Prepare, Current, Working
    <2>4. \A p \in Busy' : endpOf'[p][1] \in Endps \ upset' => p = cur'
      BY <1>0, <1>2, <2>2, <2>3 DEF Toggles
    <2>5. endp' \in Endps \ upset' => endpOf'[cur'][2] = toggle'[endp'] /\ ~recycled' /\ tdNext'[chain'[cur']] = 0
      <3> SUFFICES ASSUME e \in Endps, hcAt # q
                   PROVE  endpOf'[q][2] = toggle[e] /\ tdNext'[chain'[q]] = 0
        BY <2>2, <2>3
      <3>1. e # Control /\ n = 1
        BY <1>0, <2>1
      <3>2. endpOf'[q] = <<e, toggle[e]>>
        BY <2>2, <3>1
      <3> QED BY <2>2, <3>1, <3>2
    <2>6. tdState'[chain'[cur']] # "done"
      BY <2>2
    <2>7. \A x \in Endps \ upset' : devToggle'[x] = toggle'[x]
      BY <1>0, <1>2, <2>3 DEF Toggles
    <2>8. endpOf'[cur'][1] = endp'
      BY <2>2, <2>3
    <2> QED BY <2>2, <2>3, <2>4, <2>5, <2>6, <2>7, <2>8 DEF Toggles
  <1>3. CASE Retire
    <2>1. /\ cur \in Busy /\ Busy' = Busy \ {cur}
          /\ pc = "retire" /\ pc' = "wait"
          /\ UNCHANGED <<tdNext, chain, token, nextLink, curLink, tdState, cur, success, complete, endp, recycled, endpOf, devToggle, upset>>
      BY <1>3, RetireFrees DEF overlay, transfer
    <2>2. complete /\ Current /\ ~Current'
      BY <1>0, <2>1 DEF CallAt, Current, Working
    <2>3. \A q \in Busy' : ~(endpOf'[q][1] \in Endps \ upset')
      BY <1>0, <2>1, <2>2 DEF Toggles
    <2>4. toggle' = IF success /\ endp # Control THEN [toggle EXCEPT ![endp] = 1 - toggle[endp]] ELSE toggle
      BY <1>3 DEF Retire, Flip
    <2>5. ASSUME NEW e \in Endps \ upset PROVE devToggle[e] = toggle'[e]
      <3>1. CASE e # endp
        <4>1. toggle'[e] = toggle[e]
          BY <1>t, <2>4, <3>1
        <4> QED BY <1>0, <2>1, <3>1, <4>1 DEF Toggles
      <3>2. CASE e = endp
        <4>1. ~recycled /\ ~token[cur].halted
          BY <1>0, <2>1, <2>2, <3>2 DEF Toggles
        <4>2. success /\ nextLink[cur] = 0 /\ ~token[cur].active
          BY <1>0, <2>1, <4>1 DEF Overlays
        <4>3. Ahead
          BY <1>0, <2>1, <4>1 DEF Settling, Working
        <4>4. chain[cur] \in TD /\ chain[cur] \in Chain(cur)
          BY <1>0, <2>1, SingleChain
        <4>5. tdState[chain[cur]] # "ready" /\ tdState[chain[cur]] # "halted"
          BY <4>1, <4>2, <4>3, <4>4 DEF Ahead
        <4>6. tdState[chain[cur]] = "done"
          BY <1>t, <4>4, <4>5
        <4>7. devToggle[e] = 1 - toggle[e]
          BY <1>0, <2>1, <2>2, <3>2, <4>6 DEF Toggles
        <4>8. toggle'[e] = 1 - toggle[e]
          BY <1>0, <1>t, <2>4, <3>2, <4>2
        <4> QED BY <4>7, <4>8
      <3> QED BY <3>1, <3>2
    <2> QED BY <2>1, <2>2, <2>3, <2>5 DEF Toggles
  <1>4. CASE ~Call /\ ~Retire
    <2>0. /\ UNCHANGED <<tdNext, chain, endpOf, recycled, toggle, cur>> /\ Busy' = Busy /\ pc # "wild"
      BY <1>4, QuietStep
    <2>1. CASE Leave
      <3>1. /\ pc = "leave" /\ pc' = "idle" /\ UNCHANGED <<endp, tdState, devToggle>>
            /\ upset' = IF elapsed >= Timeout THEN upset \cup ({endp} \cap Endps) ELSE upset
        BY <2>1 DEF Leave, driverFixed, overlay
      <3>2. Current => endp \notin Endps \ upset'
        <4>1. Current => elapsed = Timeout + 1 /\ Timeout \in Nat
          BY <1>0, <3>1, EhciAssumption DEF CallAt, Current, Working
        <4> QED BY <3>1, <4>1
      <3>3. ~Current' /\ upset \subseteq upset'
        BY <3>1 DEF Current, Working
      <3>4. \A q \in Busy : ~(endpOf[q][1] \in Endps \ upset')
        BY <1>0, <2>0, <3>2, <3>3 DEF Toggles
      <3>5. \A e \in Endps \ upset' : devToggle[e] = toggle[e]
        BY <1>0, <2>0, <3>2, <3>3 DEF Toggles
      <3> QED BY <2>0, <3>1, <3>3, <3>4, <3>5 DEF Toggles
    <2>c. CASE ~Leave
     <3>c. Current' <=> Current
       BY <1>4, <2>c, CurrentStays
     <3>1. CASE InitToken
      <4>1. /\ cur \in QH /\ token' = [token EXCEPT ![cur] = Idle] /\ pc = "token"
            /\ UNCHANGED <<nextLink, tdState, endp, devToggle, upset>>
        BY <1>0, <3>1, CallPlaces DEF InitToken, transfer
      <4>2. ~token'[cur].halted /\ ~token'[cur].active
        BY <1>t, <4>1 DEF Idle
      <4> QED BY <1>0, <2>0, <3>c, <4>1, <4>2 DEF Toggles
     <3>2. CASE ~InitToken /\ ~HcFetch /\ ~HcRetire /\ ~HcHalt
      <4>1. /\ UNCHANGED <<token, nextLink, tdState, endp, devToggle, upset>>
            /\ pc' # "token" => pc # "token"
        <5>1. CASE WaitTest \/ ReadHalted \/ ReadLink \/ ReadActive \/ Tick
          BY <5>1 DEF WaitTest, ReadHalted, ReadLink, ReadActive, Tick, driverFixed, overlay, transfer
        <5>2. CASE InsertAsyncQh
          BY <5>2 DEF InsertAsyncQh, overlay, transfer
        <5>3. CASE HcMove
          BY <5>3 DEF HcMove, hcFixed, overlay, transfer
        <5>4. CASE UNCHANGED vars
          BY <5>4 DEF vars, overlay, transfer
        <5> QED BY <1>4, <2>c, <3>2, <5>1, <5>2, <5>3, <5>4 DEF Next, Driver, Controller
      <4> QED BY <1>0, <2>0, <3>c, <4>1 DEF Toggles
     <3>3. CASE HcFetch
      <4>1. /\ hcAt \in QH /\ token[hcAt] = Idle /\ nextLink[hcAt] # 0
            /\ token' = [token EXCEPT ![hcAt] = [active |-> TRUE, halted |-> FALSE]]
            /\ UNCHANGED <<tdState, endp, devToggle, upset, pc>>
        BY <1>t, <3>3 DEF HcFetch, hcFixed, transfer
      <4>2. ~token'[hcAt].halted /\ \A q \in QH \ {hcAt} : token'[q] = token[q]
        BY <1>t, <4>1
      <4>3. \A q \in QH \ {hcAt} : nextLink'[q] = nextLink[q]
        BY <1>0, <3>3 DEF HcFetch, TypeOK
      <4>4. ASSUME Current, endp \in Endps \ upset
            PROVE  /\ pc # "token" => ~token'[cur].halted
                   /\ tdState[chain[cur]] = "done" => ~token'[cur].active /\ nextLink'[cur] = 0
        BY <1>0, <1>c, <2>0, <4>1, <4>2, <4>3, <4>4 DEF Toggles
      <4> QED BY <1>0, <2>0, <3>c, <4>1, <4>4 DEF Toggles
     <3>4. CASE HcRetire
      <4> DEFINE x == endpOf[hcAt][1]
      <4>1. /\ hcAt \in QH /\ token[hcAt].active
            /\ token' = [token EXCEPT ![hcAt] = Idle]
            /\ tdState' = [tdState EXCEPT ![curLink[hcAt]] = "done"]
            /\ devToggle' = IF x \in Endps /\ devToggle[x] = endpOf[hcAt][2]
                            THEN [devToggle EXCEPT ![x] = 1 - devToggle[x]] ELSE devToggle
            /\ UNCHANGED <<nextLink, endp, upset, pc>>
        BY <1>t, <3>4 DEF HcRetire, hcFixed, transfer
      <4>2. ~token'[hcAt].halted /\ ~token'[hcAt].active /\ \A q \in QH \ {hcAt} : token'[q] = token[q]
        BY <1>t, <4>1 DEF Idle
      <4>3. hcAt \in Busy /\ curLink[hcAt] \in Chain(hcAt)
        BY <1>0, <4>1 DEF Overlays
      <4>4. ASSUME Current, hcAt # cur PROVE tdState'[chain[cur]] = tdState[chain[cur]]
        <5>1. chain[cur] \in TD /\ chain[cur] \in Chain(cur) /\ Chain(cur) \cap Chain(hcAt) = {}
          BY <1>0, <1>c, <4>3, <4>4, SingleChain DEF Pools
        <5> QED BY <1>t, <4>1, <4>3, <5>1
      <4>5. ASSUME Current, endp \in Endps \ upset, hcAt = cur
            PROVE  /\ nextLink[cur] = 0 /\ tdState'[chain[cur]] = "done" /\ x = endp
                   /\ endpOf[cur][2] = toggle[endp] /\ devToggle[endp] = toggle[endp]
        <5>1. /\ ~recycled /\ tdNext[chain[cur]] = 0 /\ endpOf[cur][2] = toggle[endp]
              /\ tdState[chain[cur]] # "done" /\ x = endp /\ devToggle[endp] = toggle[endp]
          BY <1>0, <2>0, <4>1, <4>5 DEF Toggles
        <5>2. Chain(cur) = {chain[cur]} /\ chain[cur] \in TD
          BY <1>0, <1>c, <4>5, <5>1, SingleChain
        <5>3. curLink[cur] = chain[cur]
          BY <4>3, <4>5, <5>2
        <5>4. Ahead
          BY <1>0, <4>1, <4>5, <5>1 DEF Settling, Overlays, Current
        <5>5. nextLink[cur] = 0
          BY <4>1, <4>5, <5>1, <5>3, <5>4 DEF Ahead
        <5> QED BY <1>t, <4>1, <4>5, <5>1, <5>2, <5>3, <5>5
      <4>6. ASSUME Current, endp \in Endps \ upset
            PROVE  /\ pc # "token" => ~token'[cur].halted
                   /\ tdState'[chain[cur]] = "done" => ~token'[cur].active /\ nextLink'[cur] = 0
        <5>1. CASE hcAt = cur
          BY <4>1, <4>2, <4>5, <4>6, <5>1
        <5>2. CASE hcAt # cur
          BY <1>0, <1>c, <2>0, <4>1, <4>2, <4>4, <4>6, <5>2 DEF Toggles
        <5> QED BY <5>1, <5>2
      <4>7. ASSUME NEW e \in Endps \ upset
            PROVE  devToggle'[e] = IF Current /\ e = endp /\ tdState'[chain[cur]] = "done"
                                   THEN 1 - toggle[e] ELSE toggle[e]
        <5>1. devToggle[e] = IF Current /\ e = endp /\ tdState[chain[cur]] = "done"
                             THEN 1 - toggle[e] ELSE toggle[e]
          BY <1>0, <2>0 DEF Toggles
        <5>2. CASE x = e
          <6>1. hcAt = cur /\ Current
            BY <1>0, <2>0, <4>3, <5>2 DEF Toggles
          <6>2. e = endp
            BY <1>0, <2>0, <5>2, <6>1 DEF Toggles
          <6>3. /\ tdState'[chain[cur]] = "done" /\ devToggle[e] = endpOf[hcAt][2] /\ devToggle[e] = toggle[e]
            BY <4>5, <6>1, <6>2
          <6>4. devToggle'[e] = 1 - devToggle[e]
            BY <1>t, <4>1, <5>2, <6>3
          <6> QED BY <6>1, <6>2, <6>3, <6>4
        <5>3. CASE x # e
          <6>1. devToggle'[e] = devToggle[e]
            BY <1>t, <4>1, <5>3
          <6>2. Current /\ e = endp => hcAt # cur
            BY <1>0, <2>0, <5>3 DEF Toggles
          <6> QED BY <4>4, <5>1, <6>1, <6>2
        <5> QED BY <5>2, <5>3
      <4> HIDE DEF x
      <4> QED BY <1>0, <2>0, <3>c, <4>1, <4>6, <4>7 DEF Toggles
     <3>5. CASE HcHalt
      <4> DEFINE x == endpOf[hcAt][1]
      <4>1. /\ hcAt \in QH /\ token[hcAt].active
            /\ token' = [token EXCEPT ![hcAt] = [active |-> FALSE, halted |-> TRUE]]
            /\ tdState' = [tdState EXCEPT ![curLink[hcAt]] = "halted"]
            /\ upset' = upset \cup ({x} \cap Endps)
            /\ UNCHANGED <<nextLink, endp, devToggle, pc>>
        BY <1>t, <3>5 DEF HcHalt, hcFixed, transfer
      <4>2. \A q \in QH \ {hcAt} : token'[q] = token[q]
        BY <1>t, <4>1
      <4>3. hcAt \in Busy /\ curLink[hcAt] \in Chain(hcAt)
        BY <1>0, <4>1 DEF Overlays
      <4>4. ASSUME Current, hcAt # cur PROVE tdState'[chain[cur]] = tdState[chain[cur]]
        <5>1. chain[cur] \in TD /\ chain[cur] \in Chain(cur) /\ Chain(cur) \cap Chain(hcAt) = {}
          BY <1>0, <1>c, <4>3, <4>4, SingleChain DEF Pools
        <5> QED BY <1>t, <4>1, <4>3, <5>1
      <4>5. Current /\ endp \in Endps \ upset' => hcAt # cur
        BY <1>0, <2>0, <4>1 DEF Toggles
      <4>6. upset \subseteq upset'
        BY <4>1
      <4> HIDE DEF x
      <4>7. ASSUME Current, endp \in Endps \ upset'
            PROVE  /\ pc # "token" => ~token'[cur].halted
                   /\ tdState'[chain[cur]] = "done" => ~token'[cur].active /\ nextLink'[cur] = 0
        BY <1>0, <1>c, <2>0, <4>1, <4>2, <4>4, <4>5, <4>6, <4>7 DEF Toggles
      <4>8. ASSUME NEW e \in Endps \ upset'
            PROVE  devToggle[e] = IF Current /\ e = endp /\ tdState'[chain[cur]] = "done"
                                   THEN 1 - toggle[e] ELSE toggle[e]
        BY <1>0, <2>0, <4>4, <4>5, <4>6 DEF Toggles
      <4> QED BY <1>0, <2>0, <3>c, <4>1, <4>6, <4>7, <4>8 DEF Toggles
     <3> QED BY <3>1, <3>2, <3>3, <3>4, <3>5
    <2> QED BY <2>1, <2>c
  <1> QED BY CallStarts, <1>1, <1>2, <1>3, <1>4

-----------------------------------------------------------------------------
LEMMA EhciInvariant == Spec => []EhciInv
  <1>1. EhciInv /\ [Next]_vars => EhciInv'
    BY TypeStep, RingStep, CallStep, PoolsStep, OverlaysStep, SettlingStep, TogglesStep DEF EhciInv
  <1> QED BY EhciInit, <1>1, PTL DEF Spec

(* The ring the controller follows is the list the driver keeps, whatever   *)
(* was inserted, removed or abandoned (ehci.cpp:123-153).                   *)
THEOREM RingHolds == Spec => []RingIsList
  <1>1. EhciInv => RingIsList
    <2> SUFFICES ASSUME EhciInv PROVE RingIsList
      OBVIOUS
    <2> USE DEF AsyncHead
    <2> DEFINE ring == <<0>> \o list
    <2>0. TypeOK /\ Ring /\ Pools
      BY DEF EhciInv
    <2>1. list \in Seq(QH) /\ 0 \in {0} \cup QH /\ Len(list) \in Nat
      BY <2>0 DEF TypeOK
    <2>2. Len(ring) = Len(list) + 1 /\ DOMAIN ring = 1 .. Len(list) + 1
      BY <2>1
    <2>3. \A i \in 1 .. Len(list) + 1 : ring[i] = IF i = 1 THEN 0 ELSE list[i - 1]
      BY <2>1
    <2> HIDE DEF ring
    <2>4. ASSUME NEW i \in DOMAIN ring
          PROVE  qhlp[ring[i]] = IF i = Len(ring) THEN 0 ELSE ring[i + 1]
      <3>1. CASE i = 1
        <4>1. list = <<>> <=> Len(list) = 0
          BY <2>1
        <4>2. i # Len(ring) => i + 1 \in 1 .. Len(list) + 1 /\ i + 1 # 1 /\ (i + 1) - 1 = 1
          BY <2>1, <2>2, <3>1
        <4> QED BY <2>0, <2>2, <2>3, <3>1, <4>1, <4>2 DEF Ring
      <3>2. CASE i # 1
        <4>1. i - 1 \in 1 .. Len(list) /\ ring[i] = list[i - 1] /\ (i - 1) + 1 = i
          BY <2>1, <2>2, <2>3, <3>2
        <4>2. i # Len(ring) => /\ i + 1 \in 1 .. Len(list) + 1 /\ i + 1 # 1 /\ (i + 1) - 1 = i
                              /\ i - 1 # Len(list)
          BY <2>1, <2>2, <3>2
        <4>3. i = Len(ring) <=> i - 1 = Len(list)
          BY <2>1, <2>2
        <4>4. qhlp[list[i - 1]] = IF i - 1 = Len(list) THEN 0 ELSE list[i]
          BY <2>0, <4>1 DEF Ring
        <4> QED BY <2>3, <4>1, <4>2, <4>3, <4>4
      <3> QED BY <3>1, <3>2
    <2>5. IsInjective(list) /\ Range(list) \subseteq qhActive
      BY <2>0 DEF Ring, Pools, Busy
    <2> QED BY <2>0, <2>4, <2>5 DEF RingIsList, ring
  <1> QED BY EhciInvariant, <1>1, PTL

(* No descriptor serves two transfers, and none on the schedule is free     *)
(* (ehci.cpp:76-119, 321-331).                                              *)
THEOREM ChainsHold == Spec => []ChainsApart
  <1>1. EhciInv => ChainsApart
    BY DEF EhciInv, Pools, Busy, Chain, ChainsApart
  <1> QED BY EhciInvariant, <1>1, PTL

(* What is missing from the pools between calls is on the schedule, and the *)
(* null queue head is met only with every queue head held                   *)
(* (ehci.cpp:413-448).                                                      *)
THEOREM PoolsHold == Spec => []NothingLeaks
  <1>1. EhciInv => NothingLeaks
    BY DEF EhciInv, Pools, Busy, Chain, NothingLeaks
  <1> QED BY EhciInvariant, <1>1, PTL

(* A transfer reported as successful has no descriptor left to run          *)
(* (ehci.cpp:276-305).                                                      *)
THEOREM SuccessHolds == Spec => []SuccessIsSettled
  <1>1. EhciInv => SuccessIsSettled
    BY DEF EhciInv, Settling, Settled, Chain, SuccessIsSettled
  <1> QED BY EhciInvariant, <1>1, PTL

(* Host and device agree on the data toggle of every endpoint that met no   *)
(* trouble (ehci.cpp:312-316).                                              *)
THEOREM TogglesHold == Spec => []TogglesAgree
  <1>1. EhciInv => TogglesAgree
    BY DEF EhciInv, Toggles, Current, Working, TogglesAgree
  <1> QED BY EhciInvariant, <1>1, PTL
=============================================================================
