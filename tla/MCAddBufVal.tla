------------------------------ MODULE MCAddBufVal ------------------------------
(* AddBufVal for TLC: two files and one-line trace calls of the engine's  *)
(* shapes, with "x", "y" and "L" standing for identifier characters and   *)
(* "q" for the characters of a format string.                              *)
EXTENDS AddBufVal

MCArgs == <<"a.c", "b.c">>

\* indented or not; a format with or without a comma in it; no value, a
\* one- or two-character value; the value last or followed by another
\* argument
MCCalls ==
  {[pre |-> p, args |-> a, value |-> v, rest |-> r] :
     p \in {<<>>, <<" ">>},
     a \in {<<" ", "L", ",", " ", "q", ",", " ">>,
            <<" ", "L", ",", " ", "q", ",", " ", "q", ",", " ">>},
     v \in {<<" ", "x">>, <<" ", "x", "y">>},
     r \in {<<")", ";">>, <<",", " ", "y", ")", ";">>}}
  \cup
  {[pre |-> <<>>, args |-> <<" ", "L", ",", " ", "q", ",", " ">>, value |-> <<>>,
    rest |-> <<")", ";">>]}

\* another call that passes pThreadData, and a closing brace
MCPlain == {<<"x", "(", "pThreadData", ",", " ", "y", ")", ";">>, <<"}">>}

MCStale == <<<<"q", NL>>>>

=============================================================================
