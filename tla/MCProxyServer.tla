--------------------------- MODULE MCProxyServer ---------------------------
(***************************************************************************)
(* Model-checking instances of ProxyServer: few clients, one host that is  *)
(* allowed and one that is blocked.                                        *)
(***************************************************************************)
EXTENDS ProxyServer, TLC

\* Clients are interchangeable: nothing orders or names one of them.
ClientSymmetry == Permutations(Clients)

=============================================================================
