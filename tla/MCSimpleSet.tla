---------------------------- MODULE MCSimpleSet ----------------------------
(***************************************************************************)
(* Model-checking instances of SimpleSet: every hash function from a few   *)
(* keys to a few values, chosen so that homes collide and probe chains     *)
(* meet the end of the table at each size it passes through.               *)
(***************************************************************************)
EXTENDS SimpleSet, TLC

AllHashFunctions == [Keys -> Hashes]

\* Keys are interchangeable: all hash functions are explored.
KeySymmetry == Permutations(Keys)

=============================================================================
