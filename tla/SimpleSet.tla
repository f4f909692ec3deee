----------------------------- MODULE SimpleSet -----------------------------
(***************************************************************************)
(* The hash set of set.c, which server.c fills with the block list: open   *)
(* addressing with linear probing, doubling above a quarter full, and      *)
(* removal that lays the following nodes out again.                        *)
(*                                                                         *)
(* One caller uses the set at a time.  A call is one step, except that the *)
(* loop of __relayout_nodes takes one step per slot, so that its loop      *)
(* invariants are invariants of the specification; no other call starts    *)
(* before it has ended.                                                    *)
(***************************************************************************)
EXTENDS Integers, FiniteSets

CONSTANTS
  Keys,         \* the strings the caller uses
  Hashes,       \* the values the hash functions take (uint64_t)
  HashFunctions,\* the functions a set may be created with
  InitSizes,    \* the num_els a set may be created with
  MaxSize,      \* bound: slots for which memory can be found
  Removals,     \* when the caller calls set_remove: "any" time, or only while "unwrapped"
  NULL

ASSUME HashAssumption == Hashes \subseteq Nat /\ HashFunctions \subseteq [Keys -> Hashes]
ASSUME SizeAssumption == InitSizes \subseteq Nat \ {0} /\ MaxSize \in Nat
ASSUME RemovalsAssumption == Removals \in {"any", "unwrapped"}
ASSUME NoNodeAssumption == NULL \notin [key : Keys, hash : Hashes] /\ NULL \notin Keys

VARIABLES
  nodes,          \* slot -> node, NULL when empty
  number_nodes,   \* the number of slots; 0 before set_init and after set_destroy
  used_nodes,
  hash_function,
  pc,             \* "idle", or in __relayout_nodes for set_add ("grow") or set_remove ("shrink")
  arg,            \* the key of the call in progress
  start, i,       \* __relayout_nodes: its argument and its loop variable
  ret             \* the last call that returned, and what it returned

vars == <<nodes, number_nodes, used_nodes, hash_function, pc, arg, start, i, ret>>

Nodes == [key : Keys, hash : Hashes]
Node(k, h) == [key |-> k, hash |-> h]

-----------------------------------------------------------------------------
(* Probing                                                                 *)

\* The slot __get_index looks at after d steps from home, wrapping at n.
Probe(home, n, d) == IF home + d < n THEN home + d ELSE home + d - n

\* __get_index: the first slot from hash % n that is empty (FALSE) or holds the
\* key (TRUE); CIRCULAR_ERROR, and no index, when there is neither.
GetIndex(nds, n, k, h) ==
  LET home  == h % n
      stops == {d \in 0..(n - 1) : nds[Probe(home, n, d)] \in {NULL, Node(k, h)}}
      first == CHOOSE d \in stops : \A e \in stops : d <= e
      slot  == Probe(home, n, first)
  IN  IF stops = {} THEN [res |-> "CIRCULAR_ERROR", index |-> 0]
      ELSE [res |-> IF nds[slot] = NULL THEN "FALSE" ELSE "TRUE", index |-> slot]

Find(k) == GetIndex(nodes, number_nodes, k, hash_function[k])

\* The keys in the table.
Stored == {nodes[s].key : s \in {t \in 0..(number_nodes - 1) : nodes[t] # NULL}}

\* The set that the table stands for; a removal counts once set_remove returns.
Abstract == INSTANCE KeySet
  WITH keys <- IF pc = "shrink" THEN Stored \cup {arg} ELSE Stored
Answer(call, k, res, size, elems) == Abstract!Answer(call, k, res, size, elems)
Status(call, k, res) == Abstract!Status(call, k, res)

-----------------------------------------------------------------------------
(* The calls                                                               *)

Live == pc = "idle" /\ number_nodes > 0

\* The call returns; its locals are gone.
Returns(answer) ==
  /\ ret' = answer
  /\ pc' = "idle" /\ arg' = NULL /\ start' = 0 /\ i' = 0

TableUnchanged == UNCHANGED <<nodes, number_nodes, used_nodes, hash_function>>

\* set_init_alt (set_init calls it with 1024 and NULL).
SetInit(n, hash) ==
  /\ pc = "idle" /\ number_nodes = 0
  /\ nodes' = [s \in 0..(n - 1) |-> NULL]
  /\ number_nodes' = n
  /\ used_nodes' = 0
  /\ hash_function' = hash
  /\ Returns(Status("init", NULL, "TRUE"))
 

SetInitFails ==
  /\ pc = "idle" /\ number_nodes = 0
  /\ Returns(Status("init", NULL, "MALLOC_ERROR"))
  /\ TableUnchanged

SetClear ==
  /\ Live
  /\ nodes' = [s \in 0..(number_nodes - 1) |-> NULL]
  /\ used_nodes' = 0
  /\ Returns(Status("clear", NULL, "TRUE"))
  /\ UNCHANGED <<number_nodes, hash_function>>

SetDestroy ==
  /\ Live
  /\ nodes' = [s \in 0..-1 |-> NULL]
  /\ number_nodes' = 0
  /\ used_nodes' = 0
  /\ hash_function' = NULL
  /\ Returns(Status("destroy", NULL, "TRUE"))
 

SetContains(k) ==
  /\ Live
  /\ Returns(Status("contains", k, Find(k).res))
  /\ TableUnchanged

SetLength ==
  /\ Live
  /\ Returns(Answer("length", NULL, "TRUE", used_nodes, {}))
  /\ TableUnchanged

SetToArray ==
  /\ Live
  /\ Returns(Answer("to_array", NULL, "TRUE", used_nodes, Stored))
  /\ TableUnchanged

\* The end of __set_add: the key goes into the first open slot.
Insert(k) ==
  LET found == Find(k)
  IN  /\ IF found.res = "FALSE"
         THEN /\ nodes' = [nodes EXCEPT ![found.index] = Node(k, hash_function[k])]
              /\ used_nodes' = used_nodes + 1
              /\ Returns(Status("add", k, "TRUE"))
         ELSE /\ UNCHANGED <<nodes, used_nodes>>
              /\ Returns(Status("add", k, found.res))
      /\ UNCHANGED <<number_nodes, hash_function>>

\* Mutant of TooFull: the table doubles only when it is completely full.
FullOnly == used_nodes > number_nodes

\* (float)used_nodes / number_nodes > MAX_FULLNESS_PERCENT (0.25).
TooFull == 4 * used_nodes > number_nodes

AddPresent(k) ==
  /\ Live /\ Find(k).res = "TRUE"
  /\ Returns(Status("add", k, "ALREADY_PRESENT"))
  /\ TableUnchanged

AddNew(k) ==
  /\ Live /\ Find(k).res # "TRUE" /\ ~TooFull
  /\ Insert(k)

\* realloc() fails, here or for want of memory: nothing has changed.
AddFails(k) ==
  /\ Live /\ Find(k).res # "TRUE" /\ TooFull
  /\ Returns(Status("add", k, "MALLOC_ERROR"))
  /\ TableUnchanged

\* Mutant of AddGrow: the nodes are not laid out again in the larger table.
AddGrowInPlace(k) ==
  /\ Live /\ Find(k).res # "TRUE" /\ TooFull
  /\ 2 * number_nodes <= MaxSize
  /\ number_nodes' = 2 * number_nodes
  /\ nodes' = [s \in 0..(2 * number_nodes - 1) |-> IF s < number_nodes THEN nodes[s] ELSE NULL]
  /\ pc' = "grow" /\ arg' = k /\ start' = 0 /\ i' = 2 * number_nodes
  /\ UNCHANGED <<used_nodes, hash_function, ret>>

\* The table is doubled and every node is laid out again.
AddGrow(k) ==
  /\ Live /\ Find(k).res # "TRUE" /\ TooFull
  /\ 2 * number_nodes <= MaxSize
  /\ number_nodes' = 2 * number_nodes
  /\ nodes' = [s \in 0..(2 * number_nodes - 1) |-> IF s < number_nodes THEN nodes[s] ELSE NULL]
  /\ pc' = "grow" /\ arg' = k /\ start' = 0 /\ i' = 0
  /\ UNCHANGED <<used_nodes, hash_function, ret>>

SetAdd(k) == AddPresent(k) \/ AddNew(k) \/ AddFails(k) \/ AddGrow(k)

\* Mutant of RemoveAbsent: the count is decremented for a key that is absent.
RemoveAbsentCounted(k) ==
  /\ Live /\ Find(k).res # "TRUE"
  /\ used_nodes' = used_nodes - 1
  /\ Returns(Status("remove", k, Find(k).res))
  /\ UNCHANGED <<nodes, number_nodes, hash_function>>

RemoveAbsent(k) ==
  /\ Live /\ Find(k).res # "TRUE"
  /\ Returns(Status("remove", k, Find(k).res))
  /\ TableUnchanged

\* The node is freed and the ones behind it are laid out again.
RemovePresent(k) ==
  /\ Live /\ Find(k).res = "TRUE"
  /\ nodes' = [nodes EXCEPT ![Find(k).index] = NULL]
  /\ pc' = "shrink" /\ arg' = k /\ start' = Find(k).index /\ i' = Find(k).index
  /\ UNCHANGED <<number_nodes, used_nodes, hash_function, ret>>

\* Some probe chain has wrapped: a node sits below its home slot.
Wrapped == \E s \in 0..(number_nodes - 1) :
             nodes[s] # NULL /\ s < nodes[s].hash % number_nodes

SetRemove(k) ==
  \/ RemoveAbsent(k)
  \/ (Removals = "unwrapped" => ~Wrapped) /\ RemovePresent(k)

-----------------------------------------------------------------------------
(* __relayout_nodes                                                        *)

\* The loop ends after the last slot and, for set_remove (end_on_null = 0), at
\* the first empty slot after start.
LoopEnds == \/ i >= number_nodes
            \/ i < number_nodes /\ nodes[i] = NULL /\ pc = "shrink" /\ i # start

\* Mutant of Relayout: a node that moves is not freed where it was.
RelayoutCopies ==
  /\ pc \in {"grow", "shrink"} /\ ~LoopEnds
  /\ nodes' = IF nodes[i] = NULL THEN nodes
              ELSE [nodes EXCEPT
                      ![GetIndex(nodes, number_nodes, nodes[i].key, nodes[i].hash).index] = nodes[i]]
  /\ i' = i + 1
  /\ UNCHANGED <<number_nodes, used_nodes, hash_function, pc, arg, start, ret>>

\* Mutant of Relayout: a node moves to its home slot, occupied or not.
RelayoutHome ==
  /\ pc \in {"grow", "shrink"} /\ ~LoopEnds
  /\ LET to == nodes[i].hash % number_nodes
     IN  nodes' = IF nodes[i] = NULL \/ to = i THEN nodes
                  ELSE [nodes EXCEPT ![to] = nodes[i], ![i] = NULL]
  /\ i' = i + 1
  /\ UNCHANGED <<number_nodes, used_nodes, hash_function, pc, arg, start, ret>>

\* One turn: the node in slot i moves to where __get_index would put it.
Relayout ==
  /\ pc \in {"grow", "shrink"} /\ ~LoopEnds
  /\ LET to == GetIndex(nodes, number_nodes, nodes[i].key, nodes[i].hash).index
     IN  nodes' = IF nodes[i] = NULL \/ to = i THEN nodes
                  ELSE [nodes EXCEPT ![to] = nodes[i], ![i] = NULL]
  /\ i' = i + 1
  /\ UNCHANGED <<number_nodes, used_nodes, hash_function, pc, arg, start, ret>>

AddEnd == pc = "grow" /\ LoopEnds /\ Insert(arg)

\* Mutant of RemoveEnd: used_nodes is not decremented.
RemoveUncounted ==
  /\ pc = "shrink" /\ LoopEnds
  /\ Returns(Status("remove", arg, "TRUE"))
  /\ TableUnchanged

RemoveEnd ==
  /\ pc = "shrink" /\ LoopEnds
  /\ used_nodes' = used_nodes - 1
  /\ Returns(Status("remove", arg, "TRUE"))
  /\ UNCHANGED <<nodes, number_nodes, hash_function>>

-----------------------------------------------------------------------------
(* The specification                                                       *)

Init ==
  /\ nodes = [s \in 0..-1 |-> NULL]
  /\ number_nodes = 0 /\ used_nodes = 0
  /\ hash_function = NULL
  /\ pc = "idle" /\ arg = NULL /\ start = 0 /\ i = 0
  /\ ret = Status("none", NULL, "TRUE")

Next ==
  \/ \E n \in InitSizes, hash \in HashFunctions : SetInit(n, hash)
  \/ SetInitFails
  \/ SetClear
  \/ SetDestroy
  \/ \E k \in Keys : SetAdd(k) \/ SetRemove(k) \/ SetContains(k)
  \/ SetLength
  \/ SetToArray
  \/ Relayout
  \/ AddEnd
  \/ RemoveEnd

Spec == Init /\ [][Next]_vars

-----------------------------------------------------------------------------
(* Properties                                                              *)

\* The fields of the struct, and the locals of a call, hold values of their
\* types; in particular the unsigned used_nodes never goes below zero.
TypeOK ==
  /\ number_nodes \in Nat /\ used_nodes \in Nat
  /\ nodes \in [0..(number_nodes - 1) -> Nodes \cup {NULL}]
  /\ hash_function \in HashFunctions \cup {NULL}
  /\ number_nodes > 0 => hash_function \in HashFunctions
  /\ pc \in {"idle", "grow", "shrink"}
  /\ pc # "idle" => number_nodes > 0 /\ arg \in Keys
  /\ arg \in Keys \cup {NULL}
  /\ start \in Nat /\ i \in Nat

\* Between calls, __get_index finds every node of the table where it is: no
\* element is cut off from its home slot by an empty one (set_contains answers
\* SET_TRUE "if present", set.h:86).
Findable ==
  pc = "idle" =>
    \A s \in 0..(number_nodes - 1) : nodes[s] # NULL =>
      GetIndex(nodes, number_nodes, nodes[s].key, nodes[s].hash) = [res |-> "TRUE", index |-> s]

\* A probe always meets an empty slot or its key: SET_CIRCULAR_ERROR "should
\* never happen" (set.h:71 and set.h:89).
NeverCircular == ret.res # "CIRCULAR_ERROR"

\* __relayout_nodes, whatever it moves and in whatever order, neither loses nor
\* invents a key.
RelayoutKeepsKeys == [][pc # "idle" /\ pc' = pc => Stored' = Stored]_vars

\* used_nodes counts the nodes of the table, also in the middle of a removal:
\* set_to_array sizes its array by it and fills it by walking the table.
Occupied == {s \in 0..(number_nodes - 1) : nodes[s] # NULL}
CountExact == used_nodes = Cardinality(Occupied) + (IF pc = "shrink" THEN 1 ELSE 0)

\* The table implements the set that set.h describes: every call answers as the
\* mathematical set would.
Implements == Abstract!Spec

=============================================================================
