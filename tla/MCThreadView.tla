----------------------------- MODULE MCThreadView -----------------------------
(* Model-checking instances of ThreadView.                                 *)
EXTENDS ThreadView

X(n) == [i \in 1 .. n |-> "x"]

\* One line, which wraps in a narrow pane.
OneLine == <<Line(X(3))>>

\* One chunk: a line of code and a line of text.
OneChunk == << <<[runes |-> X(3), wrap |-> "hard"], Line(X(1))>> >>

OneThought == << X(1) \o <<"\n">> >>
=============================================================================
