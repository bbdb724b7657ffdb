----------------------------- MODULE MCApprovals -----------------------------
(* Model-checking instances of Approvals.                                  *)
EXTENDS Approvals, TLC

ApprovalSymmetry == Permutations(Procs) \cup Permutations(Callers)

Req(kind, name, isDir) == [kind |-> kind, name |-> name, isDir |-> isDir]

\* One file, read and written, in the directory that setup grants.
OneFile == {Req("read", <<"sandbox", "f">>, FALSE), Req("write", <<"sandbox", "f">>, FALSE)}

\* Directories inside one another.
Nested == {Req("read", <<"d", "e">>, TRUE), Req("patch", <<"d", "e">>, TRUE),
           Req("patch", <<"d">>, TRUE)}

\* Every kind of request, on objects none of which contains another.
Mixed == {Req("read", <<"d", "f">>, FALSE), Req("write", <<"d", "f">>, FALSE),
          Req("exec", <<"make", "all">>, FALSE), Req("fetch", <<"host">>, FALSE),
          Req("get", <<"host">>, FALSE), Req("post", <<"host">>, FALSE),
          Req("other", <<"x">>, FALSE)}
=============================================================================
