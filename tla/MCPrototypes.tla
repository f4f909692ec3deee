---------------------------- MODULE MCPrototypes ----------------------------
(***************************************************************************)
(* A model-checking instance of Prototypes: a listed name, one it begins   *)
(* with, one that begins with it, one apart, and the refuge.               *)
(***************************************************************************)
EXTENDS Prototypes

Short  == <<"x">>
Listed == <<"x", "y">>
Longer == <<"x", "y", "z">>
Apart  == <<"o">>
Haven  == <<"r">>

Line(text)  == [text |-> text, nl |-> TRUE]
LastLine(text) == [text |-> text, nl |-> FALSE]

\* A list, one whose last line has no newline, one with an empty line, one with
\* the refuge on it, and none.
SmallFiles == {<<Line(Listed)>>, <<Line(Apart), LastLine(Listed)>>,
               <<Line(Listed), Line(<< >>)>>, <<Line(Listed), Line(Haven)>>, NULL}

SmallHosts == {Short, Listed, Longer, Apart, Haven}

SmallRequests == {Asks("port", Listed), Asks("port", Short), Asks("port", Apart),
                  Asks("bare", Longer), Asks("cut", Listed), Asks("none", << >>)}

=============================================================================
