------------------------------ MODULE MCEditor -------------------------------
(* Model-checking instances of Editor.                                     *)
EXTENDS Editor

X(n) == [i \in 1 .. n |-> "x"]

\* A line that wraps in every size, an empty line and a short one.
Refreshed == {<<Line(<<>>)>>, <<Line(X(5)), Line(<<>>), Line(X(2))>>}

\* A list item whose words wrap.
Words == {<<Line(<<"-", " ", "x", "x", " ", "x">>), Line(X(1))>>}

SmallSizes == {<<1, 3>>, <<2, 2>>, <<3, 2>>, <<4, 2>>}
=============================================================================
