------------------------------- MODULE MCPatch -------------------------------
EXTENDS Patch

Line(t, pad) == [text |-> t, pad |-> pad]

UpTo(S, lo, hi) == UNION {[1 .. n -> S] : n \in lo .. hi}

\* One update of file "a": every body of up to four lines, against every file of up
\* to three lines and one with carriage returns.
BodyToks == {Mark("@@"), Mark("eof"), Text("+", Line("X", "")), Text("-", Line("A", "")),
             Text("-", Line("B", "")), Text(" ", Line("A", "")), Text(" ", Line("B", "sp"))}

OldFiles == UpTo({Line("A", ""), Line("B", "")}, 1, 3)
               \cup {<<Line("A", "cr"), Line("B", "cr"), Line("A", "")>>, Empty}

Updates == {[patch |-> <<FileTok("update", "a")>> \o body \o <<Mark("end")>>,
             files |-> [a |-> old, b |-> Missing, c |-> Empty, o |-> Missing]] :
               body \in UpTo(BodyToks, 1, 4), old \in OldFiles}

\* One or two files in a patch: updates, moves, deletions and additions of files that
\* are there or missing, inside and outside of the workspace, and malformed parts.
Edit == <<Text("-", Line("A", "")), Text("+", Line("X", ""))>>

Parts == {<<FileTok("update", p)>> \o Edit : p \in {"a", "b"}}
    \cup {<<FileTok("update", p), FileTok("move", q)>> \o Edit :
              p \in {"a"}, q \in {"a", "b", "c", "o"}}
    \cup {<<FileTok("update", "b"), FileTok("move", "c")>> \o Edit}
    \cup {<<FileTok("delete", p)>> : p \in {"a", "b", "c"}}
    \cup {<<FileTok("add", p), Text("+", Line(t, ""))>> : p \in {"a", "c"}, t \in {"X", ""}}
    \cup {<<FileTok("add", "c"), Text("-", Line("A", ""))>>, <<Mark("bad")>>,
          <<FileTok("update", "a"), Text("-", Line("A", ""))>>,
          <<FileTok("update", "a")>> \o Edit \o <<FileTok("move", "c")>>}

Several == {[patch |-> FlattenSeq(parts) \o last,
             files |-> [a |-> <<Line("A", "")>>, b |-> b, c |-> Missing, o |-> Missing]] :
               parts \in UpTo(Parts, 1, 2), last \in {<<Mark("end")>>},
               b \in {Missing, <<Line("B", ""), Line("A", "")>>}}
       \cup {[patch |-> <<FileTok("delete", "a")>>,
              files |-> [a |-> Empty, b |-> Missing, c |-> Missing, o |-> Missing]]}

MCCalls == Updates \cup Several
=============================================================================
