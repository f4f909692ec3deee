-------------------------- MODULE MCMultiprocServ --------------------------
(***************************************************************************)
(* Model-checking instances of MultiprocServ: two connections at a time    *)
(* is all an interleaving needs, as the threads share only the process.    *)
(***************************************************************************)
EXTENDS MultiprocServ

\* A listed name that begins with the name of another host, and a name that only
\* a last line without a newline refuses, and that does not resolve.
Bad == <<"b", "o">>
Odd == <<"k">>
SmallNames == {Bad, Odd}
SmallHosts == {Bad, <<"b">>}
SmallFile  == {[text |-> Bad, nl |-> TRUE], [text |-> <<"k", "x">>, nl |-> FALSE]}

\* Names of one letter, which no recv() cuts.
LetterNames == {<<"b">>, <<"k">>}
LetterFile  == {[text |-> <<"b">>, nl |-> TRUE]}

=============================================================================
