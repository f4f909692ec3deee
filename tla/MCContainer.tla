---------------------------- MODULE MCContainer ----------------------------
(***************************************************************************)
(* Model-checking instances of Container.                                  *)
(***************************************************************************)
EXTENDS Container, TLC

=============================================================================
