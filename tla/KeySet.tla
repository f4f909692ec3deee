------------------------------- MODULE KeySet -------------------------------
(***************************************************************************)
(* What set.h promises: a mathematical set of keys.  Each call takes       *)
(* effect at once, and its answer is determined by the set, except that    *)
(* adding a new key may fail for want of memory and then changes nothing.  *)
(***************************************************************************)
EXTENDS Naturals, FiniteSets

CONSTANTS Keys, NULL

VARIABLES keys,     \* the elements
          ret       \* the last call and what it returned

vars == <<keys, ret>>

Answer(call, k, res, size, elems) ==
  [call |-> call, key |-> k, res |-> res, size |-> size, elems |-> elems]

\* The answer of a call that returns only a status.
Status(call, k, res) == Answer(call, k, res, 0, {})

Init == keys = {} /\ ret = Status("none", NULL, "TRUE")

\* set_init_alt, set_clear, set_destroy: nothing is in the set.
Reset(call) ==
  \/ keys' = {} /\ ret' = Status(call, NULL, "TRUE")
  \/ keys' = keys /\ ret' = Status(call, NULL, "MALLOC_ERROR")

Add(k) ==
  \/ k \in keys    /\ keys' = keys          /\ ret' = Status("add", k, "ALREADY_PRESENT")
  \/ k \notin keys /\ keys' = keys \cup {k} /\ ret' = Status("add", k, "TRUE")
  \/ k \notin keys /\ keys' = keys          /\ ret' = Status("add", k, "MALLOC_ERROR")

Remove(k) ==
  \/ k \in keys    /\ keys' = keys \ {k} /\ ret' = Status("remove", k, "TRUE")
  \/ k \notin keys /\ keys' = keys       /\ ret' = Status("remove", k, "FALSE")

Contains(k) ==
  /\ keys' = keys
  /\ ret' = Status("contains", k, IF k \in keys THEN "TRUE" ELSE "FALSE")

Length ==
  keys' = keys /\ ret' = Answer("length", NULL, "TRUE", Cardinality(keys), {})

ToArray ==
  keys' = keys /\ ret' = Answer("to_array", NULL, "TRUE", Cardinality(keys), keys)

Next ==
  \/ \E call \in {"init", "clear", "destroy"} : Reset(call)
  \/ \E k \in Keys : Add(k) \/ Remove(k) \/ Contains(k)
  \/ Length
  \/ ToArray

Spec == Init /\ [][Next]_vars

=============================================================================
