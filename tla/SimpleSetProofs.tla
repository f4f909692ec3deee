-------------------------- MODULE SimpleSetProofs --------------------------
(***************************************************************************)
(* Proofs about SimpleSet, for every set of keys, every hash function and  *)
(* every size of the table: the hash set of set.c implements KeySet.       *)
(*                                                                         *)
(* Two hypotheses are needed, and stated with each theorem: no set is      *)
(* created with a single slot (UsualSizes: the first element fills it and  *)
(* leaves probes nowhere to stop), and nothing is removed while a probe    *)
(* chain is wrapped (CarefulRemovals: the run set_remove_wraps shows what  *)
(* happens otherwise).                                                     *)
(***************************************************************************)
EXTENDS SimpleSet, FiniteSetTheorems, TLAPS

UsualSizes      == 1 \notin InitSizes
CarefulRemovals == Removals = "unwrapped"

-----------------------------------------------------------------------------
(* The inductive invariant                                                 *)

Slots     == 0..(number_nodes - 1)
HomeOf(s) == nodes[s].hash % number_nodes
Half      == number_nodes \div 2

\* Slot t comes before slot s when probing from slot h.
OnPath(h, s, t) == IF h <= s THEN h <= t /\ t < s ELSE h <= t \/ t < s

\* __get_index(k) comes to slot s and stops there.
StopsAt(nds, n, k, h, s) ==
  /\ s \in 0..(n - 1) /\ nds[s] \in {NULL, Node(k, h)}
  /\ \A t \in 0..(n - 1) : OnPath(h % n, s, t) => nds[t] \notin {NULL, Node(k, h)}

\* No empty slot lies between the node in slot s and its home.
Reached(s) == \A t \in Slots : OnPath(HomeOf(s), s, t) => nodes[t] # NULL

\* Every node carries the hash of its key, and no two have the same key.
NodesInv ==
  /\ \A s \in Occupied : nodes[s].hash = hash_function[nodes[s].key]
  /\ \A s, t \in Occupied : nodes[s].key = nodes[t].key => s = t

\* The table is at most a quarter full, but for the last element added; after
\* doubling, at most an eighth.
SizeInv ==
  /\ number_nodes # 1
  /\ number_nodes = 0 => used_nodes = 0
  /\ number_nodes > 0 => 4 * used_nodes <= number_nodes + 4
  /\ pc = "grow" => number_nodes = 2 * Half /\ Half >= 2 /\ 4 * used_nodes <= Half + 4
  /\ pc # "idle" => arg \notin Stored

\* __relayout_nodes after set_remove: the slots before i are in order, and what
\* a later node misses is a hole between start and i.
ShrinkInv ==
  /\ start \in Slots /\ start <= i
  /\ \A s \in Occupied : HomeOf(s) <= s
  /\ \A s \in Occupied : s < i => Reached(s)
  /\ \A s \in Occupied : s >= i =>
       \A t \in Slots : HomeOf(s) <= t /\ t < s =>
         nodes[t] # NULL \/ (start <= t /\ (t < i \/ t = start))

\* __relayout_nodes after the table has been doubled, in the old half: a node
\* in the new half has been put there by probing, so it follows the nodes before
\* it without a gap, from its home or from the beginning of the half.
LowerInv ==
  \A s \in Occupied : s >= Half =>
    /\ HomeOf(s) <= s
    /\ \A t \in Slots : Half <= t /\ HomeOf(s) <= t /\ t < s => nodes[t] # NULL

\* In the new half: behind some empty slot z nothing will move any more, and
\* the chains that wrap at the end of the table begin there.
UpperInvAt(z) ==
  /\ z \in Half..(number_nodes - 1) /\ nodes[z] = NULL
  /\ \A s \in Occupied : s >= Half => HomeOf(s) <= s
  /\ \A s \in Occupied : s > z => HomeOf(s) > z /\ Reached(s)
  /\ \A s \in Occupied : s < HomeOf(s) => HomeOf(s) > z

GrowInv ==
  /\ \A s \in Occupied : s < i => Reached(s)
  /\ i <= Half => LowerInv
  /\ i >= Half => \E z \in Slots : UpperInvAt(z)

ChainInv ==
  /\ pc = "idle" => \A s \in Occupied : Reached(s)
  /\ pc = "shrink" => ShrinkInv
  /\ pc = "grow" => GrowInv

IInv == TypeOK /\ NodesInv /\ SizeInv /\ CountExact /\ ChainInv /\ NeverCircular

-----------------------------------------------------------------------------
(* Probing                                                                 *)

\* A set of natural numbers that is not empty has a least element.
LEMMA LeastExists ==
  ASSUME NEW T \in SUBSET Nat, T # {}
  PROVE  \E d \in T : \A e \in T : d <= e
<1>1. \E d \in T : \A e \in T : ~(<<e, d>> \in OpToRel(<, Nat))
  BY NatLessThanWellFounded, WFMin
<1>2. PICK d \in T : \A e \in T : ~(<<e, d>> \in OpToRel(<, Nat))
  BY <1>1
<1>3. \A e \in T : ~(e < d)
  BY <1>2 DEF OpToRel
<1> QED
  BY <1>3

\* A hash has its home in the table.
LEMMA HomeInTable ==
  ASSUME NEW h \in Nat, NEW n \in Nat \ {0}
  PROVE  h % n \in 0..(n - 1)
OBVIOUS

\* How many steps it is from home to slot s.
Distance(home, n, s) == IF home <= s THEN s - home ELSE s - home + n

\* Probing from home comes by every slot, at a distance of its own, and the slots
\* on the path to slot s are the ones at smaller distances.
LEMMA ProbeDistance ==
  ASSUME NEW n \in Nat \ {0}, NEW home \in 0..(n - 1)
  PROVE  /\ \A s \in 0..(n - 1) : /\ Distance(home, n, s) \in 0..(n - 1)
                                  /\ Probe(home, n, Distance(home, n, s)) = s
         /\ \A d \in 0..(n - 1) : /\ Probe(home, n, d) \in 0..(n - 1)
                                  /\ Distance(home, n, Probe(home, n, d)) = d
         /\ \A s, t \in 0..(n - 1) :
              OnPath(home, s, t) <=> Distance(home, n, t) < Distance(home, n, s)
BY DEF Distance, Probe, OnPath

\* __get_index stops at the first slot that is empty or holds the key, and finds
\* no slot only when there is none.
LEMMA GetIndexStops ==
  ASSUME NEW n \in Nat \ {0}, NEW h \in Nat, NEW nds, NEW k
  PROVE  LET r == GetIndex(nds, n, k, h) IN
         \/ /\ r = [res |-> "CIRCULAR_ERROR", index |-> 0]
            /\ \A t \in 0..(n - 1) : nds[t] \notin {NULL, Node(k, h)}
         \/ /\ StopsAt(nds, n, k, h, r.index)
            /\ r = [res |-> IF nds[r.index] = NULL THEN "FALSE" ELSE "TRUE", index |-> r.index]
<1> DEFINE home  == h % n
           Here  == {NULL, Node(k, h)}
           stops == {d \in 0..(n - 1) : nds[Probe(home, n, d)] \in Here}
           first == CHOOSE d \in stops : \A e \in stops : d <= e
           slot  == Probe(home, n, first)
           r     == GetIndex(nds, n, k, h)
<1>1. home \in 0..(n - 1)
  BY HomeInTable
<1>2. r = IF stops = {} THEN [res |-> "CIRCULAR_ERROR", index |-> 0]
          ELSE [res |-> IF nds[slot] = NULL THEN "FALSE" ELSE "TRUE", index |-> slot]
  BY DEF GetIndex
<1>3. \A t \in 0..(n - 1) : nds[t] \in Here => Distance(home, n, t) \in stops
  <2> HIDE DEF home, Here
  <2> QED
    BY <1>1, ProbeDistance
<1>4. CASE stops = {}
  BY <1>2, <1>3, <1>4
<1>5. CASE stops # {}
  <2>1. stops \in SUBSET Nat
    OBVIOUS
  <2>2. \E d \in stops : \A e \in stops : d <= e
    <3> HIDE DEF stops
    <3> QED
      BY <1>5, <2>1, LeastExists
  <2>3. first \in stops /\ \A e \in stops : first <= e
    <3> HIDE DEF stops
    <3> QED
      BY <2>2
  <2>4. first \in 0..(n - 1) /\ nds[slot] \in Here
    <3> HIDE DEF first
    <3> QED
      BY <2>3
  <2> HIDE DEF first, stops
  <2>5. slot \in 0..(n - 1) /\ Distance(home, n, slot) = first
    <3> HIDE DEF home
    <3> QED
      BY <1>1, <2>4, ProbeDistance
  <2>6. \A t \in 0..(n - 1) : OnPath(home, slot, t) => nds[t] \notin Here
    <3> SUFFICES ASSUME NEW t \in 0..(n - 1), OnPath(home, slot, t), nds[t] \in Here
                 PROVE  FALSE
      OBVIOUS
    <3> HIDE DEF home, Here, slot
    <3>1. Distance(home, n, t) < Distance(home, n, slot) /\ Distance(home, n, t) \in Nat
      BY <1>1, <2>5, ProbeDistance
    <3>2. first <= Distance(home, n, t)
      BY <1>3, <2>3
    <3> QED
      BY <2>4, <2>5, <3>1, <3>2
  <2>7. StopsAt(nds, n, k, h, slot)
    <3> HIDE DEF slot
    <3> QED
      BY <2>4, <2>5, <2>6 DEF StopsAt
  <2>8. r = [res |-> IF nds[slot] = NULL THEN "FALSE" ELSE "TRUE", index |-> slot]
    BY <1>2, <1>5
  <2>9. r.index = slot
    <3> HIDE DEF slot, r
    <3> QED
      BY <2>8
  <2> HIDE DEF slot, r
  <2>10. StopsAt(nds, n, k, h, r.index)
    BY <2>7, <2>9
  <2>11. r = [res |-> IF nds[r.index] = NULL THEN "FALSE" ELSE "TRUE", index |-> r.index]
    BY <2>8, <2>9
  <2> QED
    BY <2>10, <2>11 DEF r
<1> QED
  BY <1>4, <1>5

\* There is only one slot to stop at.
LEMMA StopsOnce ==
  ASSUME NEW n \in Nat \ {0}, NEW h \in Nat, NEW nds, NEW k, NEW s, NEW t,
         StopsAt(nds, n, k, h, s), StopsAt(nds, n, k, h, t)
  PROVE  s = t
<1> DEFINE home == h % n
<1>1. home \in 0..(n - 1)
  BY HomeInTable
<1>2. s \in 0..(n - 1) /\ t \in 0..(n - 1) /\ ~OnPath(home, s, t) /\ ~OnPath(home, t, s)
  BY DEF StopsAt
<1> HIDE DEF home
<1> QED
  BY <1>1, <1>2 DEF OnPath

\* Where __get_index would stop is what it returns.
LEMMA GetIndexFinds ==
  ASSUME NEW n \in Nat \ {0}, NEW h \in Nat, NEW nds, NEW k, NEW s,
         StopsAt(nds, n, k, h, s)
  PROVE  GetIndex(nds, n, k, h) =
           [res |-> IF nds[s] = NULL THEN "FALSE" ELSE "TRUE", index |-> s]
<1> DEFINE r == GetIndex(nds, n, k, h)
<1>1. \/ /\ r = [res |-> "CIRCULAR_ERROR", index |-> 0]
         /\ \A t \in 0..(n - 1) : nds[t] \notin {NULL, Node(k, h)}
      \/ /\ StopsAt(nds, n, k, h, r.index)
         /\ r = [res |-> IF nds[r.index] = NULL THEN "FALSE" ELSE "TRUE", index |-> r.index]
  BY GetIndexStops
<1> HIDE DEF r
<1>2. s \in 0..(n - 1) /\ nds[s] \in {NULL, Node(k, h)}
  BY DEF StopsAt
<1>3. StopsAt(nds, n, k, h, r.index)
  BY <1>1, <1>2
<1>4. r.index = s
  BY <1>3, StopsOnce
<1> QED
  BY <1>1, <1>2, <1>4 DEF r

-----------------------------------------------------------------------------
(* The table                                                               *)

\* What is in an occupied slot.
LEMMA OccupiedSlot ==
  ASSUME TypeOK, NEW s \in Occupied
  PROVE  /\ number_nodes \in Nat \ {0} /\ s \in Slots /\ s \in Nat
         /\ nodes[s] # NULL /\ nodes[s] \in Nodes
         /\ nodes[s].key \in Keys /\ nodes[s].hash \in Nat
         /\ Node(nodes[s].key, nodes[s].hash) = nodes[s]
         /\ HomeOf(s) \in Slots
<1>1. number_nodes \in Nat /\ s \in 0..(number_nodes - 1) /\ nodes[s] # NULL
  BY DEF TypeOK, Occupied
<1>2. number_nodes \in Nat \ {0} /\ s \in Nat
  BY <1>1
<1>3. nodes[s] \in Nodes
  BY <1>1 DEF TypeOK
<1>4. nodes[s].key \in Keys /\ nodes[s].hash \in Nat
  BY <1>3, HashAssumption DEF Nodes
<1>5. Node(nodes[s].key, nodes[s].hash) = nodes[s]
  BY <1>3 DEF Nodes, Node
<1>6. HomeOf(s) \in Slots
  BY <1>2, <1>4, HomeInTable DEF HomeOf, Slots
<1> QED
  BY <1>1, <1>2, <1>3, <1>4, <1>5, <1>6 DEF Slots

\* The occupied slots are finitely many.
LEMMA OccupiedFinite ==
  ASSUME TypeOK
  PROVE  IsFiniteSet(Occupied) /\ Cardinality(Occupied) \in Nat
<1>1. number_nodes \in Nat /\ IsFiniteSet(0..(number_nodes - 1))
  BY FS_Interval DEF TypeOK
<1>2. Occupied \in SUBSET (0..(number_nodes - 1))
  BY DEF Occupied
<1> QED
  BY <1>1, <1>2, FS_Subset, FS_CardinalityType

\* A stretch of the table that is longer than the number of nodes has room.
LEMMA RoomBetween ==
  ASSUME TypeOK, NEW a \in Nat, NEW b \in Nat, b < number_nodes,
         Cardinality(Occupied) < b - a + 1
  PROVE  \E t \in a..b : nodes[t] = NULL
<1> SUFFICES ASSUME \A t \in a..b : nodes[t] # NULL PROVE FALSE
  OBVIOUS
<1>1. number_nodes \in Nat /\ IsFiniteSet(Occupied) /\ Cardinality(Occupied) \in Nat
  BY OccupiedFinite DEF TypeOK
<1>2. (a..b) \in SUBSET Occupied
  BY <1>1 DEF Occupied
<1>3. Cardinality(a..b) <= Cardinality(Occupied)
  BY <1>1, <1>2, FS_Subset
<1>4. Cardinality(a..b) = IF a > b THEN 0 ELSE b - a + 1
  BY FS_Interval
<1> QED
  BY <1>1, <1>3, <1>4

\* A node that is not cut off from its home is found where it is.
LEMMA ReachedStops ==
  ASSUME TypeOK, NodesInv, NEW s \in Occupied, Reached(s)
  PROVE  StopsAt(nodes, number_nodes, nodes[s].key, nodes[s].hash, s)
<1>1. /\ number_nodes \in Nat \ {0} /\ s \in Slots /\ s \in Nat /\ nodes[s] # NULL
      /\ Node(nodes[s].key, nodes[s].hash) = nodes[s] /\ HomeOf(s) \in Slots
  BY OccupiedSlot
<1>2. ASSUME NEW t \in Slots, OnPath(HomeOf(s), s, t)
      PROVE  nodes[t] # NULL /\ nodes[t] # nodes[s]
  <2>1. nodes[t] # NULL /\ t \in Occupied
    BY <1>2 DEF Reached, Occupied, Slots
  <2>2. t # s
    BY <1>1, <1>2 DEF OnPath, Slots
  <2> QED
    BY <2>1, <2>2 DEF NodesInv
<1> QED
  BY <1>1, <1>2 DEF StopsAt, HomeOf, Slots

\* Between calls a key of the table is found.
LEMMA FindPresent ==
  ASSUME TypeOK, NodesInv, \A s \in Occupied : Reached(s), NEW k \in Stored
  PROVE  /\ Find(k).res = "TRUE"
         /\ Find(k).index \in Occupied /\ nodes[Find(k).index].key = k
<1>1. PICK s \in Occupied : nodes[s].key = k
  BY DEF Stored, Occupied
<1>2. /\ number_nodes \in Nat \ {0} /\ nodes[s] # NULL /\ nodes[s].hash \in Nat
      /\ StopsAt(nodes, number_nodes, nodes[s].key, nodes[s].hash, s)
  BY OccupiedSlot, ReachedStops
<1>3. nodes[s].hash = hash_function[k]
  BY <1>1 DEF NodesInv
<1>4. GetIndex(nodes, number_nodes, k, hash_function[k]) =
        [res |-> IF nodes[s] = NULL THEN "FALSE" ELSE "TRUE", index |-> s]
  BY <1>1, <1>2, <1>3, GetIndexFinds
<1>5. Find(k) = [res |-> "TRUE", index |-> s]
  BY <1>2, <1>4 DEF Find
<1> QED
  BY <1>1, <1>5

\* A key that is not in the table is not found; as long as there is an empty
\* slot, the probe ends at the first one.
LEMMA FindAbsent ==
  ASSUME TypeOK, number_nodes > 0, NEW k \in Keys, k \notin Stored,
         \E t \in Slots : nodes[t] = NULL
  PROVE  /\ Find(k).res = "FALSE"
         /\ Find(k).index \in Slots /\ nodes[Find(k).index] = NULL
         /\ StopsAt(nodes, number_nodes, k, hash_function[k], Find(k).index)
<1> DEFINE h == hash_function[k]
           r == Find(k)
<1>1. number_nodes \in Nat \ {0} /\ h \in Nat
  <2>1. number_nodes \in Nat /\ hash_function \in HashFunctions
    BY DEF TypeOK
  <2>2. hash_function \in [Keys -> Hashes] /\ Hashes \subseteq Nat
    BY <2>1, HashAssumption
  <2>3. h \in Hashes
    BY <2>2
  <2>4. number_nodes \in Nat \ {0}
    BY <2>1
  <2> QED
    BY <2>2, <2>3, <2>4
<1>2. \/ /\ r = [res |-> "CIRCULAR_ERROR", index |-> 0]
         /\ \A t \in 0..(number_nodes - 1) : nodes[t] \notin {NULL, Node(k, h)}
      \/ /\ StopsAt(nodes, number_nodes, k, h, r.index)
         /\ r = [res |-> IF nodes[r.index] = NULL THEN "FALSE" ELSE "TRUE", index |-> r.index]
  BY <1>1, GetIndexStops DEF Find
<1> HIDE DEF r, h
<1>3. /\ StopsAt(nodes, number_nodes, k, h, r.index)
      /\ r = [res |-> IF nodes[r.index] = NULL THEN "FALSE" ELSE "TRUE", index |-> r.index]
  BY <1>2 DEF Slots
<1>4. r.index \in Slots /\ nodes[r.index] \in {NULL, Node(k, h)}
  BY <1>3 DEF StopsAt, Slots
<1>5. nodes[r.index] # Node(k, h) \/ nodes[r.index] = NULL
  <2> SUFFICES ASSUME nodes[r.index] = Node(k, h), nodes[r.index] # NULL PROVE FALSE
    OBVIOUS
  <2>1. nodes[r.index].key = k
    BY DEF Node
  <2> QED
    BY <1>4, <2>1 DEF Stored, Slots
<1>6. nodes[r.index] = NULL
  BY <1>4, <1>5
<1>7. r.res = "FALSE"
  BY <1>3, <1>6
<1> QED
  BY <1>3, <1>4, <1>6, <1>7 DEF r, h

\* Where the node of slot i is moved: to the first slot that is free for it,
\* which may be its own.
LEMMA MoveTarget ==
  ASSUME TypeOK, NodesInv, NEW s \in Occupied
  PROVE  LET to == GetIndex(nodes, number_nodes, nodes[s].key, nodes[s].hash).index IN
         /\ to \in Slots /\ (to # s => nodes[to] = NULL)
         /\ \A t \in Slots : OnPath(HomeOf(s), to, t) => nodes[t] # NULL /\ t # s
<1> DEFINE k  == nodes[s].key
           h  == nodes[s].hash
           r  == GetIndex(nodes, number_nodes, k, h)
<1>1. /\ number_nodes \in Nat \ {0} /\ h \in Nat /\ s \in Slots /\ nodes[s] # NULL
      /\ Node(k, h) = nodes[s]
  BY OccupiedSlot
<1>2. \/ /\ r = [res |-> "CIRCULAR_ERROR", index |-> 0]
         /\ \A t \in 0..(number_nodes - 1) : nodes[t] \notin {NULL, Node(k, h)}
      \/ /\ StopsAt(nodes, number_nodes, k, h, r.index)
         /\ r = [res |-> IF nodes[r.index] = NULL THEN "FALSE" ELSE "TRUE", index |-> r.index]
  <2> HIDE DEF h, k
  <2> QED
    BY <1>1, GetIndexStops
<1> HIDE DEF r
<1>3. StopsAt(nodes, number_nodes, k, h, r.index)
  BY <1>1, <1>2 DEF Slots
<1>4. /\ r.index \in Slots /\ nodes[r.index] \in {NULL, nodes[s]}
      /\ \A t \in Slots : OnPath(HomeOf(s), r.index, t) => nodes[t] \notin {NULL, nodes[s]}
  BY <1>1, <1>3 DEF StopsAt, Slots, HomeOf
<1>5. r.index # s => nodes[r.index] = NULL
  BY <1>1, <1>4 DEF NodesInv, Occupied, Slots
<1> QED
  BY <1>4, <1>5 DEF r

\* A node that moves from slot s to a free slot: the same nodes, elsewhere.
LEMMA MoveKeeps ==
  ASSUME TypeOK, NodesInv, NEW s \in Occupied, NEW to \in Slots, to # s, nodes[to] = NULL,
         nodes' = [nodes EXCEPT ![to] = nodes[s], ![s] = NULL],
         UNCHANGED <<number_nodes, hash_function>>
  PROVE  /\ nodes' \in [Slots -> Nodes \cup {NULL}]
         /\ Occupied' = (Occupied \ {s}) \cup {to}
         /\ nodes'[to] = nodes[s] /\ nodes'[s] = NULL
         /\ \A t \in Slots \ {s, to} : nodes'[t] = nodes[t]
         /\ NodesInv' /\ Stored' = Stored
         /\ Cardinality(Occupied') = Cardinality(Occupied)
<1>1. s \in Slots /\ nodes[s] # NULL /\ nodes[s] \in Nodes
  BY OccupiedSlot
<1>2. /\ nodes' \in [Slots -> Nodes \cup {NULL}]
      /\ nodes'[to] = nodes[s] /\ nodes'[s] = NULL
      /\ \A t \in Slots \ {s, to} : nodes'[t] = nodes[t]
  BY <1>1 DEF TypeOK, Slots
<1>3. Occupied' = (Occupied \ {s}) \cup {to}
  BY <1>1, <1>2 DEF Occupied, Slots
<1>4. to \notin Occupied
  BY DEF Occupied
<1>5. NodesInv'
  BY <1>1, <1>2, <1>3, <1>4 DEF NodesInv, Occupied, Slots
<1>6. \A x : x \in Stored <=> \E t \in Occupied : nodes[t].key = x
  BY DEF Stored, Occupied
<1>7. \A x : x \in Stored' <=> \E t \in Occupied' : nodes'[t].key = x
  BY DEF Stored, Occupied
<1>8. Stored' = Stored
  <2>1. \A x : x \in Stored => x \in Stored'
    BY <1>1, <1>2, <1>3, <1>4, <1>6, <1>7 DEF Occupied, Slots
  <2>2. \A x : x \in Stored' => x \in Stored
    BY <1>1, <1>2, <1>3, <1>4, <1>6, <1>7 DEF Occupied, Slots
  <2> QED
    BY <2>1, <2>2
<1>9. Cardinality(Occupied') = Cardinality(Occupied)
  <2>1. IsFiniteSet(Occupied) /\ Cardinality(Occupied) \in Nat
    BY OccupiedFinite
  <2>2. IsFiniteSet(Occupied \ {s}) /\ Cardinality(Occupied \ {s}) = Cardinality(Occupied) - 1
    BY <2>1, FS_RemoveElement
  <2>3. to \notin Occupied \ {s}
    BY <1>4
  <2>4. Cardinality((Occupied \ {s}) \cup {to}) = Cardinality(Occupied \ {s}) + 1
    BY <2>2, <2>3, FS_AddElement
  <2> QED
    BY <1>3, <2>1, <2>2, <2>4
<1> QED
  BY <1>2, <1>3, <1>5, <1>8, <1>9

-----------------------------------------------------------------------------
(* Calls that move no node                                                 *)

\* The status in an answer.
LEMMA StatusOf ==
  /\ \A call, k, res : Status(call, k, res).res = res
  /\ \A call, k, res, size, elems : Answer(call, k, res, size, elems).res = res
BY DEF Status, Answer, Abstract!Status, Abstract!Answer

\* There is always an empty slot.
LEMMA RoomInTable ==
  ASSUME TypeOK, SizeInv, CountExact, number_nodes > 0
  PROVE  \E t \in Slots : nodes[t] = NULL
<1>1. number_nodes \in Nat /\ used_nodes \in Nat /\ Cardinality(Occupied) \in Nat
  BY OccupiedFinite DEF TypeOK
<1>2. number_nodes > 1 /\ 4 * used_nodes <= number_nodes + 4 /\ Cardinality(Occupied) <= used_nodes
  BY <1>1 DEF SizeInv, CountExact
<1>3. Cardinality(Occupied) < (number_nodes - 1) - 0 + 1
  BY <1>1, <1>2
<1>4. number_nodes - 1 \in Nat /\ number_nodes - 1 < number_nodes
  BY <1>1, <1>2
<1> QED
  BY <1>3, <1>4, RoomBetween DEF Slots

\* A call that only returns an answer keeps the invariant and the keys.
LEMMA ReturnKeeps ==
  ASSUME IInv, pc = "idle", TableUnchanged, NEW a, Returns(a), a.res # "CIRCULAR_ERROR"
  PROVE  IInv' /\ Stored' = Stored
<1> USE DEF TableUnchanged, Returns
<1>1. Occupied' = Occupied /\ Stored' = Stored
  BY DEF Occupied, Stored
<1>2. TypeOK' /\ NeverCircular'
  BY DEF IInv, TypeOK, NeverCircular
<1>3. NodesInv'
  BY <1>1 DEF IInv, NodesInv
<1>4. SizeInv' /\ CountExact'
  BY <1>1 DEF IInv, SizeInv, CountExact
<1>5. \A s \in Occupied : Reached(s)'
  BY DEF IInv, ChainInv, Reached, HomeOf, Slots
<1> QED
  BY <1>1, <1>2, <1>3, <1>4, <1>5 DEF IInv, ChainInv

\* An empty table satisfies the invariant.
LEMMA EmptyTable ==
  ASSUME NEW n \in Nat, n # 1, nodes = [s \in 0..(n - 1) |-> NULL], number_nodes = n,
         used_nodes = 0, pc = "idle", arg = NULL, start = 0, i = 0,
         hash_function \in HashFunctions \cup {NULL}, n > 0 => hash_function \in HashFunctions,
         ret.res # "CIRCULAR_ERROR"
  PROVE  IInv /\ Stored = {}
<1>1. Occupied = {} /\ Stored = {}
  BY DEF Occupied, Stored
<1>2. TypeOK
  BY DEF TypeOK
<1>3. CountExact
  BY <1>1, FS_EmptySet DEF CountExact
<1> QED
  BY <1>1, <1>2, <1>3 DEF IInv, NodesInv, SizeInv, ChainInv, NeverCircular

\* Adding a key to a table that is not too full: it goes to the first empty slot
\* from its home, where it can be found, and every other node stays findable.
LEMMA InsertKeeps ==
  ASSUME TypeOK, NodesInv, used_nodes = Cardinality(Occupied), \A s \in Occupied : Reached(s),
         number_nodes > 1, 4 * used_nodes <= number_nodes,
         NEW k \in Keys, k \notin Stored, Insert(k)
  PROVE  IInv' /\ Stored' = Stored \cup {k} /\ ret' = Status("add", k, "TRUE")
<1> DEFINE f == Find(k).index
           h == hash_function[k]
<1>1. /\ number_nodes \in Nat /\ used_nodes \in Nat
      /\ IsFiniteSet(Occupied) /\ Cardinality(Occupied) \in Nat
  BY OccupiedFinite DEF TypeOK
<1>2. \E t \in Slots : nodes[t] = NULL
  <2>1. Cardinality(Occupied) < (number_nodes - 1) - 0 + 1
    BY <1>1
  <2>2. number_nodes - 1 \in Nat /\ number_nodes - 1 < number_nodes
    BY <1>1
  <2> QED
    BY <2>1, <2>2, RoomBetween DEF Slots
<1>3. Find(k).res = "FALSE" /\ f \in Slots /\ nodes[f] = NULL /\ StopsAt(nodes, number_nodes, k, h, f)
  BY <1>1, <1>2, FindAbsent
<1>4. /\ nodes' = [nodes EXCEPT ![f] = Node(k, h)]
      /\ used_nodes' = used_nodes + 1
      /\ Returns(Status("add", k, "TRUE"))
      /\ UNCHANGED <<number_nodes, hash_function>>
  BY <1>3 DEF Insert
<1> HIDE DEF f
<1>5. hash_function \in HashFunctions /\ h \in Hashes
  BY <1>1, HashAssumption DEF TypeOK
<1> HIDE DEF h
<1>6. Node(k, h) \in Nodes /\ Node(k, h) # NULL /\ Node(k, h).key = k /\ Node(k, h).hash = h
  BY <1>5, NoNodeAssumption DEF Node, Nodes
<1>7. /\ nodes' \in [Slots -> Nodes \cup {NULL}] /\ Slots' = Slots
      /\ nodes'[f] = Node(k, h)
      /\ \A t \in Slots \ {f} : nodes'[t] = nodes[t]
  BY <1>3, <1>4, <1>6 DEF TypeOK, Slots
<1>8. Occupied' = Occupied \cup {f} /\ f \notin Occupied
  BY <1>3, <1>6, <1>7 DEF Occupied, Slots
<1>9. TypeOK'
  BY <1>1, <1>4, <1>5, <1>7 DEF TypeOK, Returns, Slots
<1>10. \A s \in Occupied : s \in Slots /\ s # f /\ nodes'[s] = nodes[s] /\ nodes[s].key # k
  BY <1>7, <1>8 DEF Occupied, Slots, Stored
<1>11. NodesInv'
  <2>1. nodes'[f].key = k /\ nodes'[f].hash = hash_function'[k]
    BY <1>4, <1>6, <1>7 DEF h
  <2>2. \A s \in Occupied' : nodes'[s].hash = hash_function'[nodes'[s].key]
    BY <1>4, <1>8, <1>10, <2>1 DEF NodesInv
  <2>3. \A s, t \in Occupied' : nodes'[s].key = nodes'[t].key => s = t
    BY <1>8, <1>10, <2>1 DEF NodesInv
  <2> QED
    BY <2>2, <2>3 DEF NodesInv
<1>12. Stored' = Stored \cup {k}
  <2>1. \A x : x \in Stored <=> \E t \in Occupied : nodes[t].key = x
    BY DEF Stored, Occupied
  <2>2. \A x : x \in Stored' <=> \E t \in Occupied' : nodes'[t].key = x
    BY DEF Stored, Occupied
  <2>3. \A x : x \in Stored' <=> x \in Stored \/ x = k
    BY <1>6, <1>7, <1>8, <1>10, <2>1, <2>2
  <2> QED
    BY <2>3
<1>13. CountExact'
  <2>1. Cardinality(Occupied') = Cardinality(Occupied) + 1
    BY <1>1, <1>8, FS_AddElement
  <2> QED
    BY <1>4, <2>1 DEF CountExact, Returns
<1>14. SizeInv'
  BY <1>1, <1>4 DEF SizeInv, Returns
<1>15. \A s \in Occupied' : Reached(s)'
  <2>1. ASSUME NEW s \in Occupied PROVE Reached(s)'
    <3>1. HomeOf(s)' = HomeOf(s)
      BY <1>4, <1>10 DEF HomeOf
    <3>2. \A t \in Slots : nodes[t] # NULL => nodes'[t] # NULL
      BY <1>6, <1>7
    <3> QED
      BY <1>7, <3>1, <3>2 DEF Reached
  <2>2. ASSUME NEW s, s = f PROVE Reached(s)'
    <3>1. HomeOf(s)' = h % number_nodes
      BY <1>4, <1>6, <1>7, <2>2 DEF HomeOf
    <3>2. \A t \in Slots : OnPath(h % number_nodes, f, t) => nodes[t] # NULL
      BY <1>3 DEF StopsAt, Slots
    <3>3. \A t \in Slots : nodes[t] # NULL => nodes'[t] # NULL
      BY <1>6, <1>7
    <3> QED
      BY <1>7, <2>2, <3>1, <3>2, <3>3 DEF Reached
  <2> QED
    BY <1>8, <2>1, <2>2
<1>16. NeverCircular' /\ ret' = Status("add", k, "TRUE") /\ pc' = "idle"
  BY <1>4, StatusOf DEF NeverCircular, Returns
<1> QED
  BY <1>9, <1>11, <1>12, <1>13, <1>14, <1>15, <1>16 DEF IInv, ChainInv

-----------------------------------------------------------------------------
(* The calls that start __relayout_nodes                                   *)

\* What __get_index finds is in the table.
LEMMA FoundIsStored ==
  ASSUME TypeOK, number_nodes > 0, NEW k \in Keys, Find(k).res = "TRUE"
  PROVE  k \in Stored
<1> DEFINE h == hash_function[k]
           r == Find(k)
<1>1. number_nodes \in Nat \ {0} /\ h \in Nat
  <2>1. number_nodes \in Nat \ {0} /\ hash_function \in HashFunctions
    BY DEF TypeOK
  <2>2. hash_function \in [Keys -> Hashes] /\ Hashes \subseteq Nat
    BY <2>1, HashAssumption
  <2>3. h \in Hashes
    BY <2>2
  <2> QED
    BY <2>1, <2>2, <2>3
<1>2. \/ r = [res |-> "CIRCULAR_ERROR", index |-> 0]
      \/ /\ StopsAt(nodes, number_nodes, k, h, r.index)
         /\ r = [res |-> IF nodes[r.index] = NULL THEN "FALSE" ELSE "TRUE", index |-> r.index]
  BY <1>1, GetIndexStops DEF Find
<1>3. r.res = "TRUE"
  OBVIOUS
<1> HIDE DEF r, h
<1>4. StopsAt(nodes, number_nodes, k, h, r.index) /\ nodes[r.index] # NULL
  BY <1>2, <1>3
<1>5. r.index \in 0..(number_nodes - 1) /\ nodes[r.index] = Node(k, h)
  BY <1>4 DEF StopsAt
<1>6. nodes[r.index].key = k
  BY <1>5 DEF Node
<1> QED
  BY <1>4, <1>5, <1>6 DEF Stored

\* Doubling the table moves nothing yet.
LEMMA GrowStarts ==
  ASSUME IInv, NEW k \in Keys, AddGrow(k)
  PROVE  IInv' /\ Stored' = Stored /\ k \notin Stored
<1>1. /\ TypeOK /\ NodesInv /\ SizeInv /\ CountExact /\ pc = "idle"
      /\ number_nodes \in Nat /\ number_nodes > 1 /\ used_nodes \in Nat
  BY DEF IInv, AddGrow, Live, TypeOK, SizeInv
<1>2. /\ number_nodes' = 2 * number_nodes /\ pc' = "grow" /\ arg' = k /\ start' = 0 /\ i' = 0
      /\ nodes' = [s \in 0..(2 * number_nodes - 1) |->
                     IF s < number_nodes THEN nodes[s] ELSE NULL]
      /\ UNCHANGED <<used_nodes, hash_function, ret>>
      /\ Find(k).res # "TRUE"
  BY DEF AddGrow
<1>3. k \notin Stored
  BY <1>1, <1>2, FindPresent DEF IInv, ChainInv
<1>4. \A s \in Occupied : s \in 0..(number_nodes' - 1) /\ s < number_nodes /\ nodes'[s] = nodes[s]
  BY <1>1, <1>2 DEF Occupied
<1>5. Occupied' = Occupied
  <2>1. \A s : s \in Occupied' => s \in Occupied
    BY <1>1, <1>2 DEF Occupied
  <2>2. \A s : s \in Occupied => s \in Occupied'
    BY <1>1, <1>4 DEF Occupied
  <2> QED
    BY <2>1, <2>2
<1>6. Stored' = Stored
  <2>1. \A x : x \in Stored <=> \E t \in Occupied : nodes[t].key = x
    BY DEF Stored, Occupied
  <2>2. \A x : x \in Stored' <=> \E t \in Occupied' : nodes'[t].key = x
    BY DEF Stored, Occupied
  <2> QED
    BY <1>4, <1>5, <2>1, <2>2
<1>7. TypeOK'
  <2>1. nodes' \in [0..(number_nodes' - 1) -> Nodes \cup {NULL}]
    BY <1>1, <1>2 DEF TypeOK
  <2> QED
    BY <1>1, <1>2, <2>1 DEF TypeOK
<1>8. NodesInv' /\ CountExact' /\ NeverCircular'
  BY <1>1, <1>2, <1>4, <1>5 DEF NodesInv, CountExact, NeverCircular, IInv
<1>9. Half' = number_nodes
  BY <1>1, <1>2 DEF Half
<1>10. SizeInv'
  BY <1>1, <1>2, <1>3, <1>6, <1>9 DEF SizeInv
<1>11. GrowInv'
  <2>1. \A s \in Occupied' : s \in Nat /\ ~(s < i') /\ ~(s >= Half')
    BY <1>1, <1>2, <1>4, <1>5, <1>9
  <2>2. ~(i' >= Half')
    BY <1>1, <1>2, <1>9
  <2> QED
    BY <2>1, <2>2 DEF GrowInv, LowerInv
<1> QED
  BY <1>2, <1>3, <1>6, <1>7, <1>8, <1>10, <1>11 DEF IInv, ChainInv

\* Removing a node from a table without wrapped chains leaves one hole.
LEMMA RemoveStarts ==
  ASSUME IInv, NEW k \in Keys, ~Wrapped, RemovePresent(k)
  PROVE  IInv' /\ k \in Stored /\ Stored' = Stored \ {k}
<1> DEFINE f == Find(k).index
<1>1. /\ TypeOK /\ NodesInv /\ SizeInv /\ CountExact /\ pc = "idle"
      /\ number_nodes \in Nat /\ number_nodes > 1 /\ used_nodes \in Nat
      /\ \A s \in Occupied : Reached(s)
  BY DEF IInv, RemovePresent, Live, TypeOK, SizeInv, ChainInv
<1>2. k \in Stored
  BY <1>1, FoundIsStored DEF RemovePresent
<1>3. f \in Occupied /\ nodes[f].key = k
  BY <1>1, <1>2, FindPresent
<1>4. /\ nodes' = [nodes EXCEPT ![f] = NULL] /\ pc' = "shrink" /\ arg' = k /\ start' = f /\ i' = f
      /\ UNCHANGED <<number_nodes, used_nodes, hash_function, ret>>
  BY DEF RemovePresent
<1> HIDE DEF f
<1>5. f \in Slots /\ f \in Nat /\ Slots' = Slots
  BY <1>1, <1>3, <1>4, OccupiedSlot DEF Slots
<1>6. /\ nodes' \in [Slots -> Nodes \cup {NULL}] /\ nodes'[f] = NULL
      /\ \A t \in Slots \ {f} : nodes'[t] = nodes[t]
  BY <1>1, <1>4, <1>5 DEF TypeOK, Slots
<1>7. Occupied' = Occupied \ {f}
  BY <1>4, <1>6 DEF Occupied, Slots
<1>8. \A s \in Occupied \ {f} : s \in Slots /\ s \in Nat /\ nodes'[s] = nodes[s]
  BY <1>1, <1>6, OccupiedSlot
<1>9. Stored' = Stored \ {k}
  <2>1. \A x : x \in Stored <=> \E t \in Occupied : nodes[t].key = x
    BY DEF Stored, Occupied
  <2>2. \A x : x \in Stored' <=> \E t \in Occupied' : nodes'[t].key = x
    BY DEF Stored, Occupied
  <2>3. \A x : x \in Stored' <=> x \in Stored /\ x # k
    BY <1>1, <1>3, <1>7, <1>8, <2>1, <2>2 DEF NodesInv
  <2> QED
    BY <2>3
<1>10. TypeOK'
  BY <1>1, <1>4, <1>5, <1>6 DEF TypeOK, Slots
<1>11. NodesInv'
  BY <1>1, <1>4, <1>7, <1>8 DEF NodesInv
<1>12. CountExact'
  <2>1. /\ IsFiniteSet(Occupied) /\ Cardinality(Occupied) \in Nat
        /\ Cardinality(Occupied \ {f}) = Cardinality(Occupied) - 1
    BY <1>1, <1>3, OccupiedFinite, FS_RemoveElement
  <2> QED
    BY <1>1, <1>4, <1>7, <2>1 DEF CountExact
<1>13. SizeInv' /\ NeverCircular'
  BY <1>1, <1>4, <1>9 DEF SizeInv, NeverCircular, IInv
<1>14. ShrinkInv'
  <2>1. \A s \in Occupied' : HomeOf(s)' = HomeOf(s) /\ HomeOf(s) \in Slots /\ HomeOf(s) <= s
    <3>1. \A s \in Occupied : s \in Slots /\ s \in Nat /\ HomeOf(s) \in Slots
      BY <1>1, OccupiedSlot
    <3>2. \A s \in Occupied : ~(s < HomeOf(s))
      BY DEF Wrapped, HomeOf, Occupied
    <3> QED
      BY <1>1, <1>4, <1>7, <1>8, <3>1, <3>2 DEF HomeOf, Slots
  <2>2. \A s \in Occupied', t \in Slots :
          HomeOf(s) <= t /\ t < s => nodes'[t] # NULL \/ t = f
    <3> SUFFICES ASSUME NEW s \in Occupied', NEW t \in Slots, HomeOf(s) <= t, t < s, t # f
                 PROVE  nodes'[t] # NULL
      OBVIOUS
    <3>1. OnPath(HomeOf(s), s, t)
      BY <2>1 DEF OnPath
    <3> QED
      BY <1>1, <1>6, <1>7, <3>1 DEF Reached
  <2>3. \A s \in Occupied' : s < f => Reached(s)'
    <3> SUFFICES ASSUME NEW s \in Occupied', s < f, NEW t \in Slots, OnPath(HomeOf(s), s, t)
                 PROVE  nodes'[t] # NULL
      BY <1>5, <2>1 DEF Reached
    <3>1. HomeOf(s) <= t /\ t < s
      BY <2>1 DEF OnPath
    <3> QED
      BY <1>5, <1>7, <1>8, <2>2, <3>1 DEF Slots
  <2>4. f <= f
    BY <1>5
  <2> QED
    BY <1>4, <1>5, <2>1, <2>2, <2>3, <2>4 DEF ShrinkInv
<1> QED
  BY <1>2, <1>4, <1>9, <1>10, <1>11, <1>12, <1>13, <1>14 DEF IInv, ChainInv

-----------------------------------------------------------------------------
(* One turn of __relayout_nodes                                            *)

\* The node in slot i moves to slot to, the first one that is free for it.
MovesTo(to) ==
  /\ i \in Occupied /\ to \in Slots /\ to # i /\ nodes[to] = NULL
  /\ nodes' = [nodes EXCEPT ![to] = nodes[i], ![i] = NULL]
  /\ \A t \in Slots : OnPath(HomeOf(i), to, t) => nodes[t] # NULL /\ t # i

\* The node in slot i, if any, stays, and is not cut off from its home.
Stays == nodes' = nodes /\ (i \in Occupied => Reached(i))

\* A turn moves the node or leaves it, and goes on to the next slot.
LEMMA Turn ==
  ASSUME TypeOK, NodesInv, Relayout
  PROVE  /\ i \in Slots /\ i' = i + 1
         /\ pc \in {"grow", "shrink"}
         /\ pc = "shrink" => nodes[i] # NULL \/ i = start
         /\ UNCHANGED <<number_nodes, used_nodes, hash_function, pc, arg, start, ret>>
         /\ Stays \/ \E to \in Slots : MovesTo(to)
<1> DEFINE to == GetIndex(nodes, number_nodes, nodes[i].key, nodes[i].hash).index
<1>1. /\ i' = i + 1 /\ pc \in {"grow", "shrink"} /\ ~LoopEnds
      /\ UNCHANGED <<number_nodes, used_nodes, hash_function, pc, arg, start, ret>>
      /\ nodes' = IF nodes[i] = NULL \/ to = i THEN nodes
                  ELSE [nodes EXCEPT ![to] = nodes[i], ![i] = NULL]
  BY DEF Relayout
<1>2. i \in Slots /\ (pc = "shrink" => nodes[i] # NULL \/ i = start)
  BY <1>1 DEF LoopEnds, TypeOK, Slots
<1>3. CASE nodes[i] = NULL
  BY <1>1, <1>2, <1>3 DEF Stays, Occupied
<1>4. CASE nodes[i] # NULL
  <2>1. i \in Occupied
    BY <1>2, <1>4 DEF Occupied, Slots
  <2>2. /\ to \in Slots /\ (to # i => nodes[to] = NULL)
        /\ \A t \in Slots : OnPath(HomeOf(i), to, t) => nodes[t] # NULL /\ t # i
    BY <2>1, MoveTarget
  <2> HIDE DEF to
  <2>3. CASE to = i
    BY <1>1, <1>2, <2>2, <2>3 DEF Stays, Reached
  <2>4. CASE to # i
    BY <1>1, <1>2, <1>4, <2>1, <2>2, <2>4 DEF MovesTo
  <2> QED
    BY <2>3, <2>4
<1> QED
  BY <1>3, <1>4

\* What a move leaves alone, and what can be found after it.
LEMMA Move ==
  ASSUME TypeOK, NodesInv, UNCHANGED <<number_nodes, hash_function>>,
         NEW to \in Slots, MovesTo(to)
  PROVE  /\ nodes' \in [Slots -> Nodes \cup {NULL}] /\ Slots' = Slots /\ Half' = Half
         /\ Occupied' = (Occupied \ {i}) \cup {to}
         /\ NodesInv' /\ Stored' = Stored /\ Cardinality(Occupied') = Cardinality(Occupied)
         /\ nodes'[to] # NULL /\ nodes'[i] = NULL /\ \A t \in Slots \ {i, to} : nodes'[t] = nodes[t]
         /\ HomeOf(to)' = HomeOf(i)
         /\ \A s \in Occupied \ {i} : s \in Slots \ {i, to} /\ HomeOf(s)' = HomeOf(s)
         /\ Reached(to)'
         /\ \A s \in Occupied \ {i} : Reached(s) /\ ~OnPath(HomeOf(s), s, i) => Reached(s)'
<1>1. /\ i \in Occupied /\ to \in Slots /\ to # i /\ nodes[to] = NULL
      /\ nodes' = [nodes EXCEPT ![to] = nodes[i], ![i] = NULL]
      /\ \A t \in Slots : OnPath(HomeOf(i), to, t) => nodes[t] # NULL /\ t # i
  BY DEF MovesTo
<1>2. /\ nodes' \in [Slots -> Nodes \cup {NULL}]
      /\ Occupied' = (Occupied \ {i}) \cup {to}
      /\ nodes'[to] = nodes[i] /\ nodes'[i] = NULL
      /\ \A t \in Slots \ {i, to} : nodes'[t] = nodes[t]
      /\ NodesInv' /\ Stored' = Stored
      /\ Cardinality(Occupied') = Cardinality(Occupied)
  BY <1>1, MoveKeeps
<1>3. Slots' = Slots /\ Half' = Half
  BY DEF Slots, Half
<1>4. nodes[i] # NULL
  BY <1>1 DEF Occupied
<1>5. HomeOf(to)' = HomeOf(i)
  BY <1>2 DEF HomeOf
<1>6. \A s \in Occupied \ {i} : s \in Slots \ {i, to} /\ HomeOf(s)' = HomeOf(s)
  BY <1>1, <1>2 DEF HomeOf, Occupied, Slots
<1>7. \A t \in Slots : nodes[t] # NULL /\ t # i => nodes'[t] # NULL
  BY <1>2, <1>4
<1>8. Reached(to)'
  BY <1>1, <1>3, <1>5, <1>7 DEF Reached
<1>9. \A s \in Occupied \ {i} : Reached(s) /\ ~OnPath(HomeOf(s), s, i) => Reached(s)'
  BY <1>3, <1>6, <1>7 DEF Reached
<1> QED
  BY <1>2, <1>3, <1>4, <1>5, <1>6, <1>8, <1>9

\* The occupied slots and their homes are numbers.
LEMMA SlotNumbers ==
  ASSUME TypeOK
  PROVE  /\ number_nodes \in Nat
         /\ \A s \in Slots : s \in Nat /\ s < number_nodes
         /\ \A s \in Occupied : s \in Slots /\ HomeOf(s) \in Slots
BY OccupiedSlot DEF Slots, TypeOK

\* A turn after set_remove.
LEMMA TurnShrink ==
  ASSUME TypeOK, NodesInv, pc = "shrink", ShrinkInv, Relayout
  PROVE  ShrinkInv'
<1>1. /\ i \in Slots /\ i' = i + 1 /\ (nodes[i] # NULL \/ i = start)
      /\ UNCHANGED <<number_nodes, used_nodes, hash_function, pc, arg, start, ret>>
      /\ Stays \/ \E to \in Slots : MovesTo(to)
  BY Turn
<1>2. /\ number_nodes \in Nat
      /\ \A s \in Slots : s \in Nat /\ s < number_nodes
      /\ \A s \in Occupied : s \in Slots /\ HomeOf(s) \in Slots
  BY SlotNumbers
<1>3. /\ start \in Slots /\ start <= i
      /\ \A s \in Occupied : HomeOf(s) <= s
      /\ \A s \in Occupied : s < i => Reached(s)
      /\ \A s \in Occupied : s >= i =>
           \A t \in Slots : HomeOf(s) <= t /\ t < s =>
             nodes[t] # NULL \/ (start <= t /\ (t < i \/ t = start))
  BY DEF ShrinkInv
<1>4. CASE Stays
  <2>1. /\ Slots' = Slots /\ Occupied' = Occupied /\ nodes' = nodes
        /\ \A s : HomeOf(s)' = HomeOf(s) /\ (Reached(s)' <=> Reached(s))
    BY <1>1, <1>4 DEF Stays, Slots, Occupied, HomeOf, Reached
  <2>2. \A s \in Occupied : s < i + 1 => Reached(s)
    <3> SUFFICES ASSUME NEW s \in Occupied, s < i + 1 PROVE Reached(s)
      OBVIOUS
    <3>1. s < i \/ s = i
      BY <1>1, <1>2
    <3> QED
      BY <1>3, <1>4, <3>1 DEF Stays
  <2>3. \A s \in Occupied : s >= i + 1 =>
          \A t \in Slots : HomeOf(s) <= t /\ t < s =>
            nodes[t] # NULL \/ (start <= t /\ (t < i + 1 \/ t = start))
    <3> SUFFICES ASSUME NEW s \in Occupied, s >= i + 1, NEW t \in Slots, HomeOf(s) <= t, t < s,
                        nodes[t] = NULL
                 PROVE  start <= t /\ (t < i + 1 \/ t = start)
      OBVIOUS
    <3>1. s >= i
      BY <1>1, <1>2
    <3>2. start <= t /\ (t < i \/ t = start)
      BY <1>3, <3>1
    <3> QED
      BY <1>1, <1>2, <3>2
  <2>4. start <= i + 1
    BY <1>1, <1>2, <1>3
  <2> QED
    BY <1>1, <1>3, <2>1, <2>2, <2>3, <2>4 DEF ShrinkInv
<1>5. ASSUME NEW to \in Slots, MovesTo(to) PROVE ShrinkInv'
  <2>1. /\ Slots' = Slots /\ Occupied' = (Occupied \ {i}) \cup {to}
        /\ nodes'[to] # NULL /\ nodes'[i] = NULL /\ \A t \in Slots \ {i, to} : nodes'[t] = nodes[t]
        /\ HomeOf(to)' = HomeOf(i)
        /\ \A s \in Occupied \ {i} : s \in Slots \ {i, to} /\ HomeOf(s)' = HomeOf(s)
        /\ Reached(to)'
        /\ \A s \in Occupied \ {i} : Reached(s) /\ ~OnPath(HomeOf(s), s, i) => Reached(s)'
    BY <1>1, <1>5, Move
  <2>2. i \in Occupied /\ to \in Slots /\ to # i /\ ~OnPath(HomeOf(i), to, i)
    BY <1>1, <1>5 DEF MovesTo
  <2>3. HomeOf(i) <= to /\ to < i
    BY <1>2, <1>3, <2>2 DEF OnPath
  <2>4. \A s \in Occupied' : HomeOf(s)' <= s
    BY <1>3, <2>1, <2>3
  <2>5. \A s \in Occupied' : s < i + 1 => Reached(s)'
    <3> SUFFICES ASSUME NEW s \in Occupied \ {i}, s < i + 1 PROVE Reached(s)'
      BY <2>1
    <3>1. s < i /\ HomeOf(s) <= s
      BY <1>1, <1>2, <1>3
    <3>2. ~OnPath(HomeOf(s), s, i)
      BY <1>1, <1>2, <3>1 DEF OnPath
    <3> QED
      BY <1>3, <2>1, <3>1, <3>2
  <2>6. \A s \in Occupied' : s >= i + 1 =>
          \A t \in Slots : HomeOf(s)' <= t /\ t < s =>
            nodes'[t] # NULL \/ (start <= t /\ (t < i + 1 \/ t = start))
    <3> SUFFICES ASSUME NEW s \in Occupied', s >= i + 1, NEW t \in Slots, HomeOf(s)' <= t, t < s,
                        nodes'[t] = NULL
                 PROVE  start <= t /\ (t < i + 1 \/ t = start)
      OBVIOUS
    <3>1. s \in Occupied \ {i} /\ s >= i /\ HomeOf(s) <= t
      BY <1>1, <1>2, <2>1, <2>3
    <3>2. CASE t = i
      BY <1>1, <1>2, <1>3, <3>2
    <3>3. CASE t # i
      <4>1. nodes[t] = NULL
        BY <2>1, <3>3
      <4>2. start <= t /\ (t < i \/ t = start)
        BY <1>3, <3>1, <4>1
      <4> QED
        BY <1>1, <1>2, <4>2
    <3> QED
      BY <3>2, <3>3
  <2>7. start <= i + 1
    BY <1>1, <1>2, <1>3
  <2> QED
    BY <1>1, <1>3, <2>1, <2>4, <2>5, <2>6, <2>7 DEF ShrinkInv
<1> QED
  BY <1>1, <1>4, <1>5


\* Once the old half is in order, some slot of the new half is empty, and nothing
\* behind it is misplaced.  (O are the occupied slots, and home their homes.)
LEMMA EnterUpper ==
  ASSUME NEW H \in Nat, H >= 2, NEW n \in Nat, n = 2 * H, NEW O \in SUBSET (0..(n - 1)),
         Cardinality(O) < H, NEW home \in [O -> 0..(n - 1)],
         \A s \in O : s >= H =>
           /\ home[s] <= s
           /\ \A t \in 0..(n - 1) : H <= t /\ home[s] <= t /\ t < s => t \in O,
         \A s \in O : s < H => \A t \in 0..(n - 1) : OnPath(home[s], s, t) => t \in O
  PROVE  \E z \in H..(n - 1) :
           /\ z \notin O
           /\ \A s \in O : s > z =>
                home[s] > z /\ \A t \in 0..(n - 1) : OnPath(home[s], s, t) => t \in O
           /\ \A s \in O : s < home[s] => home[s] > z
<1>1. PICK z \in H..(n - 1) : z \notin O
  <2>1. SUFFICES ASSUME (H..(n - 1)) \in SUBSET O PROVE FALSE
    OBVIOUS
  <2>2. IsFiniteSet(O)
    <3>1. IsFiniteSet(0..(n - 1))
      BY FS_Interval
    <3> QED
      BY <3>1, FS_Subset
  <2>3. Cardinality(H..(n - 1)) <= Cardinality(O) /\ Cardinality(O) \in Nat
    BY <2>1, <2>2, FS_Subset, FS_CardinalityType
  <2>4. Cardinality(H..(n - 1)) = IF H > n - 1 THEN 0 ELSE (n - 1) - H + 1
    BY FS_Interval
  <2> QED
    BY <2>3, <2>4
<1>2. z \in 0..(n - 1) /\ z \in Nat /\ z >= H
  OBVIOUS
<1>3. \A s \in O : s \in Nat /\ home[s] \in Nat
  OBVIOUS
<1>4. ASSUME NEW s \in O, s > z
      PROVE  home[s] > z /\ \A t \in 0..(n - 1) : OnPath(home[s], s, t) => t \in O
  <2>1. s >= H /\ s \in Nat /\ home[s] \in Nat
    BY <1>2, <1>3, <1>4
  <2>2. home[s] > z /\ home[s] <= s
    BY <1>1, <1>2, <1>4, <2>1
  <2>3. \A t \in 0..(n - 1) : OnPath(home[s], s, t) => home[s] <= t /\ t < s /\ H <= t
    BY <1>2, <2>1, <2>2 DEF OnPath
  <2> QED
    BY <2>1, <2>2, <2>3
<1>5. ASSUME NEW s \in O, s < home[s] PROVE home[s] > z
  <2>1. s < H
    BY <1>3, <1>5
  <2>2. home[s] <= z => OnPath(home[s], s, z)
    BY <1>3, <1>5 DEF OnPath
  <2> QED
    BY <1>1, <1>2, <1>3, <2>1, <2>2
<1> QED
  BY <1>1, <1>4, <1>5

\* A node that moves while the table is being laid out goes down, when its home is
\* below it.
LEMMA MovesDown ==
  ASSUME TypeOK, NEW to \in Slots, MovesTo(to), HomeOf(i) <= i
  PROVE  HomeOf(i) <= to /\ to < i
<1>1. i \in Occupied /\ to # i /\ ~OnPath(HomeOf(i), to, i)
  BY SlotNumbers DEF MovesTo
<1>2. i \in Nat /\ to \in Nat /\ HomeOf(i) \in Nat
  BY <1>1, SlotNumbers
<1> QED
  BY <1>1, <1>2 DEF OnPath

\* A turn in the old half of a table that has been doubled.
LEMMA TurnLower ==
  ASSUME TypeOK, NodesInv, SizeInv, CountExact, pc = "grow", GrowInv, Relayout, i < Half
  PROVE  /\ \A s \in Occupied' : s < i + 1 => Reached(s)'
         /\ LowerInv'
<1>1. /\ i \in Slots /\ UNCHANGED <<number_nodes, hash_function>>
      /\ Stays \/ \E to \in Slots : MovesTo(to)
  BY Turn
<1>2. /\ number_nodes \in Nat
      /\ \A s \in Slots : s \in Nat /\ s < number_nodes
      /\ \A s \in Occupied : s \in Slots /\ HomeOf(s) \in Slots
  BY SlotNumbers
<1>3. number_nodes = 2 * Half /\ Half \in Nat /\ Half >= 2
  BY <1>2 DEF SizeInv, Half
<1>4. /\ \A s \in Occupied : s < i => Reached(s)
      /\ \A s \in Occupied : s >= Half =>
           /\ HomeOf(s) <= s
           /\ \A t \in Slots : Half <= t /\ HomeOf(s) <= t /\ t < s => nodes[t] # NULL
  BY <1>1, <1>2, <1>3 DEF GrowInv, LowerInv
<1>5. CASE Stays
  <2>1. /\ Slots' = Slots /\ Occupied' = Occupied /\ nodes' = nodes /\ Half' = Half
        /\ \A s : HomeOf(s)' = HomeOf(s) /\ (Reached(s)' <=> Reached(s))
    BY <1>1, <1>5 DEF Stays, Slots, Occupied, HomeOf, Reached, Half
  <2>2. \A s \in Occupied : s < i + 1 => s < i \/ s = i
    BY <1>1, <1>2
  <2> QED
    BY <1>4, <1>5, <2>1, <2>2 DEF Stays, LowerInv
<1>6. ASSUME NEW to \in Slots, MovesTo(to)
      PROVE  (\A s \in Occupied' : s < i + 1 => Reached(s)') /\ LowerInv'
  <2>1. /\ Slots' = Slots /\ Half' = Half /\ Occupied' = (Occupied \ {i}) \cup {to}
        /\ nodes'[to] # NULL /\ nodes'[i] = NULL /\ \A t \in Slots \ {i, to} : nodes'[t] = nodes[t]
        /\ HomeOf(to)' = HomeOf(i)
        /\ \A s \in Occupied \ {i} : s \in Slots \ {i, to} /\ HomeOf(s)' = HomeOf(s)
        /\ Reached(to)'
        /\ \A s \in Occupied \ {i} : Reached(s) /\ ~OnPath(HomeOf(s), s, i) => Reached(s)'
    BY <1>1, <1>6, Move
  <2>2. /\ i \in Occupied /\ to # i /\ nodes[to] = NULL
        /\ \A t \in Slots : OnPath(HomeOf(i), to, t) => nodes[t] # NULL /\ t # i
    BY <1>6 DEF MovesTo
  <2>3. PICK z \in Half..(number_nodes - 1) : nodes[z] = NULL
    <3>1. used_nodes \in Nat /\ Cardinality(Occupied) = used_nodes /\ 4 * used_nodes <= Half + 4
      BY OccupiedFinite DEF TypeOK, CountExact, SizeInv
    <3>2. Cardinality(Occupied) < (number_nodes - 1) - Half + 1
      BY <1>3, <3>1
    <3>3. number_nodes - 1 \in Nat /\ number_nodes - 1 < number_nodes
      BY <1>2, <1>3
    <3> QED
      BY <1>3, <3>2, <3>3, RoomBetween
  <2>4. z \in Slots /\ z \in Nat /\ z > i
    BY <1>1, <1>2, <1>3 DEF Slots
  <2>5. \A s \in Occupied' : s < i + 1 => Reached(s)'
    <3> SUFFICES ASSUME NEW s \in Occupied \ {i}, s < i + 1 PROVE Reached(s)'
      BY <2>1
    <3>1. s \in Slots /\ s < i /\ HomeOf(s) \in Nat /\ s \in Nat /\ i \in Nat
      BY <1>1, <1>2
    <3>2. Reached(s)
      BY <1>4, <3>1
    <3>3. s < HomeOf(s) => ~(HomeOf(s) <= z)
      BY <2>3, <2>4, <3>1, <3>2 DEF Reached, OnPath
    <3>4. ~OnPath(HomeOf(s), s, i)
      BY <2>4, <3>1, <3>3 DEF OnPath
    <3> QED
      BY <2>1, <3>2, <3>4
  <2>6. LowerInv'
    <3> SUFFICES ASSUME NEW s \in Occupied', s >= Half
                 PROVE  /\ HomeOf(s)' <= s
                        /\ \A t \in Slots : Half <= t /\ HomeOf(s)' <= t /\ t < s => nodes'[t] # NULL
      BY <2>1 DEF LowerInv
    <3>1. \A t \in Slots : Half <= t /\ nodes[t] # NULL => nodes'[t] # NULL
      BY <1>1, <1>2, <1>3, <2>1
    <3>2. CASE s = to
      <4>1. HomeOf(i) \in Nat /\ to \in Nat /\ i \in Nat /\ i < to
        BY <1>1, <1>2, <1>3, <2>2, <3>2
      <4>2. HomeOf(i) <= to
        BY <1>1, <2>2, <4>1 DEF OnPath
      <4>3. \A t \in Slots : HomeOf(i) <= t /\ t < to => nodes[t] # NULL
        BY <2>2, <4>2 DEF OnPath
      <4> QED
        BY <2>1, <3>1, <3>2, <4>2, <4>3
    <3>3. CASE s # to
      <4>1. s \in Occupied \ {i} /\ HomeOf(s)' = HomeOf(s)
        BY <2>1, <3>3
      <4> QED
        BY <1>4, <3>1, <4>1
    <3> QED
      BY <3>2, <3>3
  <2> QED
    BY <2>5, <2>6
<1> QED
  BY <1>1, <1>5, <1>6

\* A turn in the new half.
LEMMA TurnUpper ==
  ASSUME TypeOK, NodesInv, pc = "grow", GrowInv, Relayout, Half \in Nat, i >= Half
  PROVE  /\ \A s \in Occupied' : s < i + 1 => Reached(s)'
         /\ \E z \in Slots' : UpperInvAt(z)'
<1>1. /\ i \in Slots /\ UNCHANGED <<number_nodes, hash_function>>
      /\ Stays \/ \E to \in Slots : MovesTo(to)
  BY Turn
<1>2. /\ number_nodes \in Nat
      /\ \A s \in Slots : s \in Nat /\ s < number_nodes
      /\ \A s \in Occupied : s \in Slots /\ HomeOf(s) \in Slots
  BY SlotNumbers
<1>3. PICK z \in Slots : UpperInvAt(z)
  BY DEF GrowInv
<1>4. /\ z \in Half..(number_nodes - 1) /\ nodes[z] = NULL
      /\ \A s \in Occupied : s >= Half => HomeOf(s) <= s
      /\ \A s \in Occupied : s > z => HomeOf(s) > z /\ Reached(s)
      /\ \A s \in Occupied : s < HomeOf(s) => HomeOf(s) > z
      /\ \A s \in Occupied : s < i => Reached(s)
  BY <1>3 DEF UpperInvAt, GrowInv
<1>5. CASE Stays
  <2>1. /\ Slots' = Slots /\ Occupied' = Occupied /\ nodes' = nodes /\ Half' = Half
        /\ \A s : HomeOf(s)' = HomeOf(s) /\ (Reached(s)' <=> Reached(s))
    BY <1>1, <1>5 DEF Stays, Slots, Occupied, HomeOf, Reached, Half
  <2>2. \A s \in Occupied : s < i + 1 => s < i \/ s = i
    BY <1>1, <1>2
  <2>3. \A s \in Occupied' : s < i + 1 => Reached(s)'
    BY <1>4, <1>5, <2>1, <2>2 DEF Stays
  <2>4. UpperInvAt(z)'
    BY <1>1, <1>4, <2>1 DEF UpperInvAt
  <2> QED
    BY <1>3, <2>1, <2>3, <2>4
<1>6. ASSUME NEW to \in Slots, MovesTo(to)
      PROVE  (\A s \in Occupied' : s < i + 1 => Reached(s)') /\ \E x \in Slots' : UpperInvAt(x)'
  <2>1. /\ Slots' = Slots /\ Half' = Half /\ Occupied' = (Occupied \ {i}) \cup {to}
        /\ nodes'[to] # NULL /\ nodes'[i] = NULL /\ \A t \in Slots \ {i, to} : nodes'[t] = nodes[t]
        /\ HomeOf(to)' = HomeOf(i)
        /\ \A s \in Occupied \ {i} : s \in Slots \ {i, to} /\ HomeOf(s)' = HomeOf(s)
        /\ Reached(to)'
        /\ \A s \in Occupied \ {i} : Reached(s) /\ ~OnPath(HomeOf(s), s, i) => Reached(s)'
    BY <1>1, <1>6, Move
  <2>2. i \in Occupied /\ nodes[i] # NULL /\ to # i /\ nodes[to] = NULL
    BY <1>6 DEF MovesTo, Occupied
  <2>3. HomeOf(i) <= to /\ to < i /\ HomeOf(i) <= i
    BY <1>4, <1>6, <2>2, MovesDown
  <2>4. i \in Nat /\ to \in Nat /\ HomeOf(i) \in Nat /\ z \in Nat /\ i # z
    BY <1>1, <1>2, <1>3, <1>4, <2>2
  <2>5. i < z
    <3> SUFFICES ASSUME i > z PROVE FALSE
      BY <2>4
    <3>1. Reached(i) /\ OnPath(HomeOf(i), i, to)
      BY <1>4, <2>2, <2>3, <2>4 DEF OnPath
    <3> QED
      BY <2>2, <3>1 DEF Reached
  <2>6. \A s \in Occupied' : s < i + 1 => Reached(s)'
    <3> SUFFICES ASSUME NEW s \in Occupied \ {i}, s < i + 1 PROVE Reached(s)'
      BY <2>1
    <3>1. s \in Nat /\ s < i /\ HomeOf(s) \in Nat
      BY <1>1, <1>2
    <3>2. Reached(s)
      BY <1>4, <3>1
    <3>3. ~OnPath(HomeOf(s), s, i)
      BY <1>4, <2>4, <2>5, <3>1 DEF OnPath
    <3> QED
      BY <2>1, <3>2, <3>3
  <2>7. z \in Slots \ {i, to} /\ nodes'[z] = NULL
    BY <1>3, <1>4, <2>1, <2>3, <2>4, <2>5
  <2>8. \A s \in Occupied' : s >= Half => HomeOf(s)' <= s
    BY <1>4, <2>1, <2>3
  <2>9. \A s \in Occupied' : s > z => HomeOf(s)' > z /\ Reached(s)'
    <3> SUFFICES ASSUME NEW s \in Occupied', s > z PROVE HomeOf(s)' > z /\ Reached(s)'
      OBVIOUS
    <3>1. s \in Occupied \ {i}
      BY <2>1, <2>3, <2>4, <2>5
    <3>2. s \in Nat /\ HomeOf(s) \in Nat /\ HomeOf(s) > z /\ Reached(s) /\ HomeOf(s)' = HomeOf(s)
      BY <1>2, <1>4, <2>1, <3>1
    <3>3. HomeOf(s) <= s
      BY <1>4, <2>4, <2>5, <3>1, <3>2
    <3>4. ~OnPath(HomeOf(s), s, i)
      BY <2>4, <2>5, <3>2, <3>3 DEF OnPath
    <3> QED
      BY <2>1, <3>1, <3>2, <3>4
  <2>10. \A s \in Occupied' : s < HomeOf(s)' => HomeOf(s)' > z
    BY <1>4, <2>1, <2>3, <2>4
  <2>11. UpperInvAt(z)'
    BY <1>1, <1>4, <2>1, <2>7, <2>8, <2>9, <2>10 DEF UpperInvAt
  <2> QED
    BY <2>1, <2>6, <2>7, <2>11
<1> QED
  BY <1>1, <1>5, <1>6

\* A turn after the table has been doubled.
LEMMA TurnGrow ==
  ASSUME TypeOK, NodesInv, SizeInv, CountExact, pc = "grow", GrowInv, Relayout,
         TypeOK', SizeInv', CountExact'
  PROVE  GrowInv'
<1>1. i \in Slots /\ i' = i + 1 /\ UNCHANGED <<number_nodes, used_nodes, pc>>
  BY Turn
<1>2. number_nodes \in Nat /\ i \in Nat /\ Slots' = Slots /\ Half' = Half
  BY <1>1, SlotNumbers DEF Slots, Half
<1>3. /\ number_nodes = 2 * Half /\ Half \in Nat /\ Half >= 2
      /\ used_nodes \in Nat /\ 4 * used_nodes <= Half + 4
  BY <1>2 DEF SizeInv, Half, TypeOK
<1>4. CASE i >= Half
  BY <1>1, <1>2, <1>3, <1>4, TurnUpper DEF GrowInv
<1>5. CASE i < Half
  <2>1. (\A s \in Occupied' : s < i + 1 => Reached(s)') /\ LowerInv'
    BY <1>5, TurnLower
  <2>2. CASE i + 1 < Half
    BY <1>1, <1>2, <1>3, <2>1, <2>2 DEF GrowInv
  <2>3. CASE i + 1 = Half
    <3> DEFINE n    == number_nodes
               O    == Occupied'
               home == [s \in Occupied' |-> HomeOf(s)']
    <3>1. O \in SUBSET (0..(n - 1)) /\ Slots = 0..(n - 1)
      BY <1>1 DEF Occupied, Slots
    <3>2. \A s \in O : nodes'[s] \in Nodes /\ HomeOf(s)' = nodes'[s].hash % n
      BY <1>1 DEF Occupied, TypeOK, HomeOf
    <3>3. \A s \in O : HomeOf(s)' \in 0..(n - 1)
      <4> SUFFICES ASSUME NEW s \in O PROVE HomeOf(s)' \in 0..(n - 1)
        OBVIOUS
      <4>1. nodes'[s] \in Nodes /\ HomeOf(s)' = nodes'[s].hash % n
        BY <3>2
      <4>2. nodes'[s].hash \in Nat
        BY <4>1, HashAssumption DEF Nodes
      <4>3. n \in Nat \ {0}
        BY <1>2, <1>3
      <4> HIDE DEF n
      <4>4. (nodes'[s].hash % n) \in 0..(n - 1)
        BY <4>2, <4>3, HomeInTable
      <4> QED
        BY <4>1, <4>4
    <3>4. home \in [O -> 0..(n - 1)] /\ \A s \in O : home[s] = HomeOf(s)'
      BY <3>3
    <3>5. \A s \in O : Reached(s)' <=> \A t \in 0..(n - 1) : OnPath(home[s], s, t) => t \in O
      BY <1>1, <3>4 DEF Reached, Occupied, Slots
    <3>6. \A t \in 0..(n - 1) : t \in O <=> nodes'[t] # NULL
      BY <1>1 DEF Occupied
    <3>7. Cardinality(O) < Half
      <4>1. IsFiniteSet(0..(n - 1))
        BY <1>2, FS_Interval
      <4>2. Cardinality(O) \in Nat
        BY <3>1, <4>1, FS_Subset, FS_CardinalityType
      <4>3. used_nodes = Cardinality(O) + 0
        BY <1>1 DEF CountExact
      <4> QED
        BY <1>3, <4>2, <4>3
    <3> HIDE DEF home, O
    <3>8. \A s \in O : s >= Half =>
            /\ home[s] <= s
            /\ \A t \in 0..(n - 1) : Half <= t /\ home[s] <= t /\ t < s => t \in O
      BY <1>2, <2>1, <3>1, <3>4, <3>6 DEF LowerInv, O
    <3>9. \A s \in O : s < Half => \A t \in 0..(n - 1) : OnPath(home[s], s, t) => t \in O
      BY <2>1, <2>3, <3>5 DEF O
    <3>10. PICK z \in Half..(n - 1) :
             /\ z \notin O
             /\ \A s \in O : s > z =>
                  home[s] > z /\ \A t \in 0..(n - 1) : OnPath(home[s], s, t) => t \in O
             /\ \A s \in O : s < home[s] => home[s] > z
      BY <1>2, <1>3, <3>1, <3>4, <3>7, <3>8, <3>9, EnterUpper
    <3>11. z \in Slots /\ nodes'[z] = NULL
      BY <1>2, <1>3, <3>1, <3>6, <3>10
    <3>12. UpperInvAt(z)'
      BY <1>1, <1>2, <3>4, <3>5, <3>8, <3>10, <3>11 DEF UpperInvAt, O
    <3>13. \E x \in Slots' : UpperInvAt(x)'
      BY <1>2, <3>11, <3>12
    <3> QED
      BY <1>1, <2>1, <3>13 DEF GrowInv
  <2> QED
    BY <1>2, <1>3, <1>5, <2>2, <2>3
<1> QED
  BY <1>2, <1>3, <1>4, <1>5

\* A turn keeps the invariant, and every key.
LEMMA RelayoutKeeps ==
  ASSUME IInv, Relayout
  PROVE  /\ IInv' /\ Stored' = Stored
         /\ UNCHANGED <<pc, arg, ret>>
<1>1. TypeOK /\ NodesInv /\ SizeInv /\ CountExact /\ ChainInv /\ NeverCircular
  BY DEF IInv
<1>2. /\ i \in Slots /\ i' = i + 1 /\ pc \in {"grow", "shrink"}
      /\ UNCHANGED <<number_nodes, used_nodes, hash_function, pc, arg, start, ret>>
      /\ Stays \/ \E to \in Slots : MovesTo(to)
  BY <1>1, Turn
<1>3. /\ nodes' \in [Slots -> Nodes \cup {NULL}]
      /\ NodesInv' /\ Stored' = Stored /\ Cardinality(Occupied') = Cardinality(Occupied)
  <2>1. CASE Stays
    <3>1. Occupied' = Occupied /\ Stored' = Stored
      BY <1>2, <2>1 DEF Stays, Occupied, Stored
    <3>2. NodesInv'
      BY <1>1, <1>2, <2>1, <3>1 DEF Stays, NodesInv
    <3>3. nodes' \in [Slots -> Nodes \cup {NULL}]
      BY <1>1, <2>1 DEF Stays, TypeOK, Slots
    <3> QED
      BY <3>1, <3>2, <3>3
  <2>2. ASSUME NEW to \in Slots, MovesTo(to)
        PROVE  /\ nodes' \in [Slots -> Nodes \cup {NULL}]
               /\ NodesInv' /\ Stored' = Stored /\ Cardinality(Occupied') = Cardinality(Occupied)
    BY <1>1, <1>2, <2>2, Move
  <2> QED
    BY <1>2, <2>1, <2>2
<1>4. TypeOK'
  <2>1. i' \in Nat /\ Slots' = Slots
    BY <1>1, <1>2 DEF TypeOK, Slots
  <2> QED
    BY <1>1, <1>2, <1>3, <2>1 DEF TypeOK, Slots
<1>5. SizeInv' /\ CountExact' /\ NeverCircular'
  BY <1>1, <1>2, <1>3 DEF SizeInv, CountExact, NeverCircular, Half
<1>6. ChainInv'
  <2>1. CASE pc = "shrink"
    BY <1>1, <1>2, <2>1, TurnShrink DEF ChainInv
  <2>2. CASE pc = "grow"
    BY <1>1, <1>2, <1>4, <1>5, <2>2, TurnGrow DEF ChainInv
  <2> QED
    BY <1>2, <2>1, <2>2
<1> QED
  BY <1>2, <1>3, <1>4, <1>5, <1>6 DEF IInv

-----------------------------------------------------------------------------
(* The end of __relayout_nodes                                             *)

\* When the loop ends, no node is cut off.  After set_remove it may end before
\* the last node, at an empty slot: the nodes behind it have their homes there.
LEMMA LoopDone ==
  ASSUME IInv, pc # "idle", LoopEnds
  PROVE  \A s \in Occupied : Reached(s)
<1>1. TypeOK /\ ChainInv
  BY DEF IInv
<1>2. /\ number_nodes \in Nat /\ i \in Nat
      /\ \A s \in Slots : s \in Nat /\ s < number_nodes
      /\ \A s \in Occupied : s \in Slots /\ HomeOf(s) \in Slots /\ nodes[s] # NULL
  BY <1>1, SlotNumbers DEF TypeOK, Occupied
<1>3. \A s \in Occupied : s < i => Reached(s)
  BY <1>1 DEF ChainInv, TypeOK, GrowInv, ShrinkInv
<1>4. CASE i >= number_nodes
  BY <1>2, <1>3, <1>4
<1>5. CASE i < number_nodes
  <2>1. nodes[i] = NULL /\ pc = "shrink" /\ i # start /\ i \in Slots
    BY <1>2, <1>5 DEF LoopEnds, Slots
  <2>2. /\ start \in Nat /\ start <= i
        /\ \A s \in Occupied : HomeOf(s) <= s
        /\ \A s \in Occupied : s >= i =>
             \A t \in Slots : HomeOf(s) <= t /\ t < s =>
               nodes[t] # NULL \/ (start <= t /\ (t < i \/ t = start))
    BY <1>1, <1>2, <2>1 DEF ChainInv, ShrinkInv
  <2> SUFFICES ASSUME NEW s \in Occupied, ~(s < i) PROVE Reached(s)
    BY <1>3
  <2>3. s \in Nat /\ HomeOf(s) \in Nat /\ s > i /\ s >= i /\ start < i
    <3>1. s # i /\ s \in Slots /\ HomeOf(s) \in Slots
      BY <1>2, <2>1
    <3>2. s \in Nat /\ HomeOf(s) \in Nat
      BY <1>2, <3>1
    <3> QED
      BY <1>2, <2>1, <2>2, <3>1, <3>2
  <2>4. HomeOf(s) > i
    BY <1>2, <2>1, <2>2, <2>3
  <2>5. \A t \in Slots : OnPath(HomeOf(s), s, t) => HomeOf(s) <= t /\ t < s /\ ~(t < i) /\ t # start
    BY <1>2, <2>2, <2>3, <2>4 DEF OnPath
  <2> QED
    BY <2>2, <2>3, <2>5 DEF Reached
<1> QED
  BY <1>2, <1>4, <1>5

\* The end of a set_add that had to double the table.
LEMMA AddEnds ==
  ASSUME IInv, AddEnd
  PROVE  /\ IInv' /\ arg \in Keys /\ arg \notin Stored
         /\ Stored' = Stored \cup {arg} /\ ret' = Status("add", arg, "TRUE")
<1>1. TypeOK /\ NodesInv /\ SizeInv /\ CountExact /\ pc = "grow" /\ LoopEnds /\ Insert(arg)
  BY DEF IInv, AddEnd
<1>2. number_nodes \in Nat /\ used_nodes \in Nat /\ arg \in Keys /\ arg \notin Stored
  BY <1>1 DEF TypeOK, SizeInv
<1>3. used_nodes = Cardinality(Occupied)
  BY <1>1, OccupiedFinite DEF CountExact
<1>4. number_nodes > 1 /\ 4 * used_nodes <= number_nodes
  <2>1. number_nodes = 2 * Half /\ Half \in Nat /\ Half >= 2 /\ 4 * used_nodes <= Half + 4
    BY <1>1, <1>2 DEF SizeInv, Half
  <2> QED
    BY <1>2, <2>1
<1>5. \A s \in Occupied : Reached(s)
  BY <1>1, LoopDone
<1> QED
  BY <1>1, <1>2, <1>3, <1>4, <1>5, InsertKeeps

\* The end of a set_remove.
LEMMA RemoveEnds ==
  ASSUME IInv, RemoveEnd
  PROVE  /\ IInv' /\ arg \in Keys /\ arg \notin Stored
         /\ Stored' = Stored /\ ret' = Status("remove", arg, "TRUE")
<1>1. /\ TypeOK /\ NodesInv /\ SizeInv /\ CountExact /\ pc = "shrink" /\ LoopEnds
      /\ used_nodes' = used_nodes - 1 /\ Returns(Status("remove", arg, "TRUE"))
      /\ UNCHANGED <<nodes, number_nodes, hash_function>>
  BY DEF IInv, RemoveEnd
<1>2. /\ number_nodes \in Nat /\ number_nodes > 0 /\ used_nodes \in Nat
      /\ arg \in Keys /\ arg \notin Stored
  BY <1>1 DEF TypeOK, SizeInv
<1>3. Cardinality(Occupied) \in Nat /\ used_nodes = Cardinality(Occupied) + 1
  BY <1>1, OccupiedFinite DEF CountExact
<1>4. Occupied' = Occupied /\ Stored' = Stored /\ pc' = "idle" /\ used_nodes' \in Nat
  BY <1>1, <1>2, <1>3 DEF Occupied, Stored, Returns
<1>5. TypeOK'
  BY <1>1, <1>2, <1>4 DEF TypeOK, Returns
<1>6. NodesInv' /\ CountExact'
  BY <1>1, <1>2, <1>3, <1>4 DEF NodesInv, CountExact
<1>7. SizeInv'
  BY <1>1, <1>2, <1>4 DEF SizeInv, Returns
<1>8. NeverCircular' /\ ret' = Status("remove", arg, "TRUE")
  BY <1>1, StatusOf DEF NeverCircular, Returns
<1>9. \A s \in Occupied' : Reached(s)'
  BY <1>1, <1>4, LoopDone DEF Reached, HomeOf, Slots
<1> QED
  BY <1>2, <1>4, <1>5, <1>6, <1>7, <1>8, <1>9 DEF IInv, ChainInv

-----------------------------------------------------------------------------
(* The calls                                                               *)

\* What __get_index answers between calls.
LEMMA FindAnswers ==
  ASSUME IInv, Live, NEW k \in Keys
  PROVE  /\ Find(k).res = IF k \in Stored THEN "TRUE" ELSE "FALSE"
         /\ number_nodes \in Nat /\ number_nodes > 1
<1>1. /\ TypeOK /\ NodesInv /\ SizeInv /\ CountExact /\ pc = "idle" /\ number_nodes > 0
      /\ \A s \in Occupied : Reached(s)
  BY DEF IInv, Live, ChainInv
<1>2. number_nodes \in Nat /\ number_nodes > 1
  BY <1>1 DEF TypeOK, SizeInv
<1>3. \E t \in Slots : nodes[t] = NULL
  BY <1>1, RoomInTable
<1>4. k \in Stored => Find(k).res = "TRUE"
  BY <1>1, FindPresent
<1>5. k \notin Stored => Find(k).res = "FALSE"
  BY <1>1, <1>3, FindAbsent
<1> QED
  BY <1>2, <1>4, <1>5

\* set_init_alt, set_clear and set_destroy leave an empty table.
LEMMA Emptied ==
  ASSUME NEW n \in Nat, n # 1, nodes' = [s \in 0..(n - 1) |-> NULL], number_nodes' = n,
         used_nodes' = 0, pc' = "idle", arg' = NULL, start' = 0, i' = 0,
         hash_function' \in HashFunctions \cup {NULL}, n > 0 => hash_function' \in HashFunctions,
         ret'.res # "CIRCULAR_ERROR"
  PROVE  IInv' /\ Stored' = {}
<1>1. Occupied' = {} /\ Stored' = {}
  BY DEF Occupied, Stored
<1>2. TypeOK'
  BY DEF TypeOK
<1>3. CountExact'
  BY <1>1, FS_EmptySet DEF CountExact
<1>4. SizeInv'
  BY DEF SizeInv
<1> QED
  BY <1>1, <1>2, <1>3, <1>4 DEF IInv, NodesInv, ChainInv, NeverCircular

\* So those three calls keep the invariant, for the sizes that are used.
LEMMA EmptyingCalls ==
  ASSUME UsualSizes, IInv,
         \/ \E n \in InitSizes, hash \in HashFunctions : SetInit(n, hash)
         \/ SetClear
         \/ SetDestroy
  PROVE  IInv' /\ Stored' = {}
<1>1. ASSUME NEW n \in InitSizes, NEW hash \in HashFunctions, SetInit(n, hash)
      PROVE  IInv' /\ Stored' = {}
  <2>1. n \in Nat /\ n # 1
    BY SizeAssumption DEF UsualSizes
  <2>2. ret'.res # "CIRCULAR_ERROR"
    BY <1>1, StatusOf DEF SetInit, Returns
  <2> QED
    BY <1>1, <2>1, <2>2, Emptied DEF SetInit, Returns
<1>2. CASE SetClear
  <2>1. number_nodes \in Nat /\ number_nodes # 1 /\ hash_function \in HashFunctions
    BY <1>2 DEF IInv, TypeOK, SizeInv, SetClear, Live
  <2>2. ret'.res # "CIRCULAR_ERROR"
    BY <1>2, StatusOf DEF SetClear, Returns
  <2> QED
    BY <1>2, <2>1, <2>2, Emptied DEF SetClear, Returns
<1>3. CASE SetDestroy
  <2>1. nodes' = [s \in 0..(0 - 1) |-> NULL] /\ number_nodes' = 0 /\ used_nodes' = 0 /\ hash_function' = NULL
    BY <1>3 DEF SetDestroy
  <2>2. ret'.res # "CIRCULAR_ERROR"
    BY <1>3, StatusOf DEF SetDestroy, Returns
  <2> QED
    BY <1>3, <2>1, <2>2, Emptied DEF SetDestroy, Returns
<1> QED
  BY <1>1, <1>2, <1>3

\* The calls that only ask, or that fail.
LEMMA AskingCalls ==
  ASSUME IInv,
         \/ SetInitFails
         \/ \E k \in Keys : AddPresent(k) \/ AddFails(k) \/ RemoveAbsent(k) \/ SetContains(k)
         \/ SetLength
         \/ SetToArray
  PROVE  IInv' /\ Stored' = Stored
<1>1. ASSUME NEW k \in Keys, AddPresent(k) \/ AddFails(k) \/ RemoveAbsent(k) \/ SetContains(k)
      PROVE  IInv' /\ Stored' = Stored
  <2>1. pc = "idle" /\ Live /\ TableUnchanged
    BY <1>1 DEF AddPresent, AddFails, RemoveAbsent, SetContains, Live
  <2>2. Find(k).res # "CIRCULAR_ERROR"
    BY <2>1, FindAnswers
  <2>3. \E a : Returns(a) /\ a.res # "CIRCULAR_ERROR"
    <3>1. AddPresent(k) => Returns(Status("add", k, "ALREADY_PRESENT"))
      BY DEF AddPresent
    <3>2. AddFails(k) => Returns(Status("add", k, "MALLOC_ERROR"))
      BY DEF AddFails
    <3>3. RemoveAbsent(k) => Returns(Status("remove", k, Find(k).res))
      BY DEF RemoveAbsent
    <3>4. SetContains(k) => Returns(Status("contains", k, Find(k).res))
      BY DEF SetContains
    <3> QED
      BY <1>1, <2>2, <3>1, <3>2, <3>3, <3>4, StatusOf
  <2> QED
    BY <2>1, <2>3, ReturnKeeps
<1>2. ASSUME SetInitFails \/ SetLength \/ SetToArray PROVE IInv' /\ Stored' = Stored
  <2>1. pc = "idle" /\ TableUnchanged
    BY <1>2 DEF SetInitFails, SetLength, SetToArray, Live
  <2>2. \E a : Returns(a) /\ a.res # "CIRCULAR_ERROR"
    <3>1. SetInitFails => Returns(Status("init", NULL, "MALLOC_ERROR"))
      BY DEF SetInitFails
    <3>2. SetLength => Returns(Answer("length", NULL, "TRUE", used_nodes, {}))
      BY DEF SetLength
    <3>3. SetToArray => Returns(Answer("to_array", NULL, "TRUE", used_nodes, Stored))
      BY DEF SetToArray
    <3> QED
      BY <1>2, <3>1, <3>2, <3>3, StatusOf
  <2> QED
    BY <2>1, <2>2, ReturnKeeps
<1> QED
  BY <1>1, <1>2

\* set_add finds room.
LEMMA AddsNew ==
  ASSUME IInv, NEW k \in Keys, AddNew(k)
  PROVE  IInv' /\ k \notin Stored /\ Stored' = Stored \cup {k} /\ ret' = Status("add", k, "TRUE")
<1>1. /\ TypeOK /\ NodesInv /\ CountExact /\ Live /\ pc = "idle" /\ ~TooFull /\ Insert(k)
      /\ \A s \in Occupied : Reached(s)
  BY DEF IInv, AddNew, Live, ChainInv
<1>2. k \notin Stored /\ number_nodes \in Nat /\ number_nodes > 1
  BY <1>1, FindAnswers DEF AddNew
<1>3. used_nodes = Cardinality(Occupied) /\ used_nodes \in Nat
  BY <1>1, OccupiedFinite DEF CountExact
<1>4. 4 * used_nodes <= number_nodes
  BY <1>1, <1>2, <1>3 DEF TooFull
<1> QED
  BY <1>1, <1>2, <1>3, <1>4, InsertKeeps

-----------------------------------------------------------------------------
(* The theorems                                                            *)

\* Before set_init there is no table.
LEMMA InitIInv ==
  ASSUME Init
  PROVE  IInv /\ Stored = {}
<1>1. ret.res # "CIRCULAR_ERROR"
  BY StatusOf DEF Init
<1>2. nodes = [s \in 0..(0 - 1) |-> NULL]
  BY DEF Init
<1> QED
  BY <1>1, <1>2, EmptyTable DEF Init

\* Every call, and every turn of __relayout_nodes, keeps the invariant.
LEMMA NextIInv ==
  ASSUME UsualSizes, CarefulRemovals, IInv, [Next]_vars
  PROVE  IInv'
<1>1. CASE UNCHANGED vars
  BY <1>1 DEF vars, IInv, TypeOK, NodesInv, SizeInv, CountExact, ChainInv, NeverCircular, Occupied,
     Stored, Half, Reached, HomeOf, Slots, ShrinkInv, GrowInv, LowerInv, UpperInvAt
<1>2. ASSUME NEW k \in Keys, SetAdd(k) PROVE IInv'
  BY <1>2, AskingCalls, AddsNew, GrowStarts DEF SetAdd
<1>3. ASSUME NEW k \in Keys, SetRemove(k) PROVE IInv'
  BY <1>3, AskingCalls, RemoveStarts DEF SetRemove, CarefulRemovals
<1>4. ASSUME \E k \in Keys : SetContains(k) PROVE IInv'
  BY <1>4, AskingCalls
<1>5. CASE SetInitFails \/ SetLength \/ SetToArray
  BY <1>5, AskingCalls
<1>6. ASSUME (\E n \in InitSizes, hash \in HashFunctions : SetInit(n, hash)) \/ SetClear \/ SetDestroy
      PROVE  IInv'
  BY <1>6, EmptyingCalls
<1>7. CASE Relayout
  BY <1>7, RelayoutKeeps
<1>8. CASE AddEnd
  BY <1>8, AddEnds
<1>9. CASE RemoveEnd
  BY <1>9, RemoveEnds
<1> QED
  BY <1>1, <1>2, <1>3, <1>4, <1>5, <1>6, <1>7, <1>8, <1>9 DEF Next

\* The inductive invariant holds in every reachable state.
THEOREM Invariance ==
  ASSUME UsualSizes, CarefulRemovals
  PROVE  Spec => []IInv
<1>1. Init => IInv
  BY InitIInv
<1>2. IInv /\ [Next]_vars => IInv'
  BY NextIInv
<1> QED
  BY <1>1, <1>2, PTL DEF Spec

\* The fields of the struct and the locals of its calls keep their types, and
\* used_nodes never goes below zero.
THEOREM TypeCorrect ==
  ASSUME UsualSizes, CarefulRemovals
  PROVE  Spec => []TypeOK
<1>1. IInv => TypeOK
  BY DEF IInv
<1> QED
  BY <1>1, Invariance, PTL

\* Between calls __get_index finds every node of the table, however often the
\* table has been doubled and whatever has been removed.
THEOREM NoNodeCutOff ==
  ASSUME UsualSizes, CarefulRemovals
  PROVE  Spec => []Findable
<1>1. IInv => Findable
  <2> SUFFICES ASSUME IInv, pc = "idle", NEW s \in 0..(number_nodes - 1), nodes[s] # NULL
               PROVE  GetIndex(nodes, number_nodes, nodes[s].key, nodes[s].hash)
                        = [res |-> "TRUE", index |-> s]
    BY DEF Findable
  <2>1. TypeOK /\ NodesInv /\ s \in Occupied /\ Reached(s)
    BY DEF IInv, ChainInv, Occupied
  <2>2. StopsAt(nodes, number_nodes, nodes[s].key, nodes[s].hash, s)
    BY <2>1, ReachedStops
  <2>3. number_nodes \in Nat \ {0} /\ nodes[s].hash \in Nat
    BY <2>1, OccupiedSlot
  <2> QED
    BY <2>2, <2>3, GetIndexFinds
<1> QED
  BY <1>1, Invariance, PTL

\* No call ever answers SET_CIRCULAR_ERROR.
THEOREM ProbesEnd ==
  ASSUME UsualSizes, CarefulRemovals
  PROVE  Spec => []NeverCircular
<1>1. IInv => NeverCircular
  BY DEF IInv
<1> QED
  BY <1>1, Invariance, PTL

\* used_nodes counts the nodes, so the array of set_to_array has the right size.
THEOREM CountCorrect ==
  ASSUME UsualSizes, CarefulRemovals
  PROVE  Spec => []CountExact
<1>1. IInv => CountExact
  BY DEF IInv
<1> QED
  BY <1>1, Invariance, PTL

\* No turn of __relayout_nodes loses or invents a key.
THEOREM NoKeyLost ==
  ASSUME UsualSizes, CarefulRemovals
  PROVE  Spec => RelayoutKeepsKeys
<1>1. IInv /\ [Next]_vars => [pc # "idle" /\ pc' = pc => Stored' = Stored]_vars
  <2> SUFFICES ASSUME IInv, Next, pc # "idle", pc' = pc PROVE Stored' = Stored
    BY DEF vars
  <2>1. Relayout \/ AddEnd \/ RemoveEnd
    BY DEF Next, SetInit, SetInitFails, SetClear, SetDestroy, SetAdd, AddPresent, AddNew, AddFails,
       AddGrow, SetRemove, RemoveAbsent, RemovePresent, SetContains, SetLength, SetToArray, Live
  <2>2. ~AddEnd /\ ~RemoveEnd
    BY DEF AddEnd, Insert, RemoveEnd, Returns
  <2> QED
    BY <2>1, <2>2, RelayoutKeeps
<1> QED
  BY <1>1, Invariance, PTL DEF Spec, RelayoutKeepsKeys

-----------------------------------------------------------------------------
(* The refinement of KeySet                                                *)

\* The table holds as many keys as nodes.
LEMMA StoredCounted ==
  ASSUME TypeOK, NodesInv
  PROVE  Cardinality(Stored) = Cardinality(Occupied)
<1> DEFINE f == [s \in Occupied |-> nodes[s].key]
<1>1. \A x : x \in Stored <=> \E t \in Occupied : nodes[t].key = x
  BY DEF Stored, Occupied
<1>2. f \in [Occupied -> Stored]
  BY <1>1
<1>3. \A s, t \in Occupied : f[s] = f[t] => s = t
  BY DEF NodesInv
<1>4. \A x \in Stored : \E s \in Occupied : f[s] = x
  BY <1>1
<1> HIDE DEF f
<1>5. f \in Bijection(Occupied, Stored)
  BY <1>2, <1>3, <1>4 DEF Bijection, Injection, Surjection, IsInjective
<1>6. IsFiniteSet(Occupied) /\ ExistsBijection(Occupied, Stored)
  BY <1>5, OccupiedFinite DEF ExistsBijection
<1> QED
  BY <1>6, FS_Bijection

\* Counting is the same in both modules.
LEMMA SameCardinality == \A S : Abstract!Cardinality(S) = Cardinality(S)
BY DEF Abstract!Cardinality, Cardinality

\* Each step is a step of the abstract set, or changes nothing of it.
LEMMA StepRefines ==
  ASSUME UsualSizes, CarefulRemovals, IInv, [Next]_vars
  PROVE  [Abstract!Next]_(Abstract!vars)
<1> USE DEF Status, Answer
<1>1. CASE UNCHANGED vars
  BY <1>1 DEF vars, Abstract!vars, Stored
<1>2. ASSUME (\E n \in InitSizes, hash \in HashFunctions : SetInit(n, hash)) \/ SetClear \/ SetDestroy
      PROVE  \E call \in {"init", "clear", "destroy"} : Abstract!Reset(call)
  <2>1. Stored' = {} /\ pc' = "idle"
    BY <1>2, EmptyingCalls DEF SetInit, SetClear, SetDestroy, Returns
  <2>2. \E call \in {"init", "clear", "destroy"} : ret' = Status(call, NULL, "TRUE")
    BY <1>2 DEF SetInit, SetClear, SetDestroy, Returns
  <2> QED
    BY <2>1, <2>2 DEF Abstract!Reset
<1>3. CASE SetInitFails
  <2>1. Stored' = Stored /\ pc = "idle" /\ pc' = "idle" /\ ret' = Status("init", NULL, "MALLOC_ERROR")
    BY <1>3, AskingCalls DEF SetInitFails, Returns
  <2> QED
    BY <2>1 DEF Abstract!Reset, Abstract!Next
<1>4. ASSUME NEW k \in Keys, SetAdd(k) PROVE Abstract!Add(k) \/ UNCHANGED Abstract!vars
  <2>1. Live /\ pc = "idle"
    BY <1>4 DEF SetAdd, AddPresent, AddNew, AddFails, AddGrow, Live
  <2>2. Find(k).res = "TRUE" <=> k \in Stored
    BY <2>1, FindAnswers
  <2>3. CASE AddPresent(k)
    <3>1. Stored' = Stored /\ pc' = "idle" /\ ret' = Status("add", k, "ALREADY_PRESENT") /\ k \in Stored
      BY <2>2, <2>3, AskingCalls DEF AddPresent, Returns
    <3> QED
      BY <2>1, <3>1 DEF Abstract!Add
  <2>4. CASE AddFails(k)
    <3>1. Stored' = Stored /\ pc' = "idle" /\ ret' = Status("add", k, "MALLOC_ERROR") /\ k \notin Stored
      BY <2>2, <2>4, AskingCalls DEF AddFails, Returns
    <3> QED
      BY <2>1, <3>1 DEF Abstract!Add
  <2>5. CASE AddNew(k)
    <3>1. Stored' = Stored \cup {k} /\ ret' = Status("add", k, "TRUE") /\ k \notin Stored
      BY <2>5, AddsNew
    <3>2. pc' = "idle"
      BY <2>5 DEF AddNew, Insert, Returns
    <3> QED
      BY <2>1, <3>1, <3>2 DEF Abstract!Add
  <2>6. CASE AddGrow(k)
    <3>1. Stored' = Stored /\ pc' = "grow" /\ ret' = ret
      BY <2>6, GrowStarts DEF AddGrow
    <3> QED
      BY <2>1, <3>1 DEF Abstract!vars
  <2> QED
    BY <1>4, <2>3, <2>4, <2>5, <2>6 DEF SetAdd
<1>5. ASSUME NEW k \in Keys, SetRemove(k) PROVE Abstract!Remove(k) \/ UNCHANGED Abstract!vars
  <2>1. Live /\ pc = "idle"
    BY <1>5 DEF SetRemove, RemoveAbsent, RemovePresent, Live
  <2>2. Find(k).res = IF k \in Stored THEN "TRUE" ELSE "FALSE"
    BY <2>1, FindAnswers
  <2>3. CASE RemoveAbsent(k)
    <3>1. Stored' = Stored /\ pc' = "idle" /\ ret' = Status("remove", k, "FALSE") /\ k \notin Stored
      BY <2>2, <2>3, AskingCalls DEF RemoveAbsent, Returns
    <3> QED
      BY <2>1, <3>1 DEF Abstract!Remove
  <2>4. CASE ~Wrapped /\ RemovePresent(k)
    <3>1. k \in Stored /\ Stored' = Stored \ {k} /\ pc' = "shrink" /\ arg' = k /\ ret' = ret
      BY <2>4, RemoveStarts DEF RemovePresent
    <3> QED
      BY <2>1, <3>1 DEF Abstract!vars
  <2> QED
    BY <1>5, <2>3, <2>4 DEF SetRemove, CarefulRemovals
<1>6. ASSUME NEW k \in Keys, SetContains(k) PROVE Abstract!Contains(k)
  <2>1. Live /\ pc = "idle" /\ pc' = "idle" /\ ret' = Status("contains", k, Find(k).res)
    BY <1>6 DEF SetContains, Live, Returns
  <2>2. Stored' = Stored /\ Find(k).res = IF k \in Stored THEN "TRUE" ELSE "FALSE"
    BY <1>6, <2>1, FindAnswers, AskingCalls
  <2> QED
    BY <2>1, <2>2 DEF Abstract!Contains
<1>7. ASSUME SetLength \/ SetToArray PROVE Abstract!Length \/ Abstract!ToArray
  <2>1. /\ pc = "idle" /\ pc' = "idle" /\ Stored' = Stored
        /\ \/ ret' = Answer("length", NULL, "TRUE", used_nodes, {})
           \/ ret' = Answer("to_array", NULL, "TRUE", used_nodes, Stored)
    BY <1>7, AskingCalls DEF SetLength, SetToArray, Live, Returns
  <2>2. used_nodes = Cardinality(Stored)
    <3>1. TypeOK /\ NodesInv /\ CountExact
      BY DEF IInv
    <3> QED
      BY <2>1, <3>1, StoredCounted, OccupiedFinite DEF CountExact
  <2>3. (IF pc = "shrink" THEN Stored \cup {arg} ELSE Stored) = Stored
    BY <2>1
  <2>4. Abstract!Cardinality(IF pc = "shrink" THEN Stored \cup {arg} ELSE Stored) = used_nodes
    BY <2>2, <2>3, SameCardinality
  <2>5. (IF pc' = "shrink" THEN Stored' \cup {arg'} ELSE Stored') = Stored
    BY <2>1
  <2>6. CASE ret' = Answer("length", NULL, "TRUE", used_nodes, {})
    BY <2>3, <2>4, <2>5, <2>6, Zenon DEF Abstract!Length
  <2>7. CASE ret' = Answer("to_array", NULL, "TRUE", used_nodes, Stored)
    BY <2>3, <2>4, <2>5, <2>7, Zenon DEF Abstract!ToArray
  <2> QED
    BY <2>1, <2>6, <2>7
<1>8. CASE Relayout
  BY <1>8, RelayoutKeeps DEF Abstract!vars
<1>9. CASE AddEnd
  <2>1. /\ arg \in Keys /\ arg \notin Stored /\ Stored' = Stored \cup {arg}
        /\ ret' = Status("add", arg, "TRUE")
    BY <1>9, AddEnds
  <2>2. pc = "grow" /\ pc' = "idle"
    BY <1>9 DEF AddEnd, Insert, Returns
  <2>3. Abstract!Add(arg)
    BY <2>1, <2>2 DEF Abstract!Add
  <2> QED
    BY <2>1, <2>3 DEF Abstract!Next
<1>10. CASE RemoveEnd
  <2>1. arg \in Keys /\ arg \notin Stored /\ Stored' = Stored /\ ret' = Status("remove", arg, "TRUE")
    BY <1>10, RemoveEnds
  <2>2. pc = "shrink" /\ pc' = "idle"
    BY <1>10 DEF RemoveEnd, Returns
  <2>3. Abstract!Remove(arg)
    BY <2>1, <2>2 DEF Abstract!Remove
  <2> QED
    BY <2>1, <2>3 DEF Abstract!Next
<1> QED
  BY <1>1, <1>2, <1>3, <1>4, <1>5, <1>6, <1>7, <1>8, <1>9, <1>10 DEF Next, Abstract!Next

\* The hash set implements the mathematical set of set.h: whatever the caller
\* does, every answer is the one that set would give.
THEOREM RefinesKeySet ==
  ASSUME UsualSizes, CarefulRemovals
  PROVE  Spec => Implements
<1>1. Init => Abstract!Init
  BY InitIInv DEF Init, Abstract!Init, Status
<1>2. IInv /\ [Next]_vars => [Abstract!Next]_(Abstract!vars)
  BY StepRefines
<1> QED
  BY <1>1, <1>2, Invariance, PTL DEF Spec, Implements, Abstract!Spec

=============================================================================
