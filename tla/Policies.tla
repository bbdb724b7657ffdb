------------------------------- MODULE Policies -------------------------------
(***************************************************************************)
(* Approval policies: what a tool call asks for, which lasting grants the  *)
(* prompt offers, and how a store answers a lookup.  A path, a command     *)
(* line or a host is a sequence of names; the subsystem and the group of a *)
(* policy id follow from its target, so an id is a target and a domain.    *)
(***************************************************************************)
EXTENDS Integers, SequencesExt

CONSTANT Requests   \* what tools and sandboxed commands ask for:
                    \* [kind, name, isDir] records

Kinds   == {"read", "write", "patch", "exec", "fetch", "get", "post", "other"}
Actions == {"read", "write", "exec"}

\* A scheme, a host and a port are one name: no site is within another one.
ASSUME RequestAssumption ==
    /\ Requests # {}
    /\ \A r \in Requests : /\ r.kind \in Kinds
                           /\ r.name \in Seq(STRING) /\ r.name # <<>>
                           /\ r.kind \in {"fetch", "get", "post"} => Len(r.name) = 1
                           /\ r.isDir \in BOOLEAN

\* Requests of sandboxed commands, which the HTTP proxy lets through or not.
ByProxy(r) == r.kind \in {"get", "post"}

RequiredActions(r) ==
    CASE r.kind = "read"             -> {"read"}
      [] r.kind \in {"write", "fetch", "post"} -> {"read", "write"}
      [] r.kind = "patch"            -> {"write"}
      [] r.kind = "exec"             -> {"exec"}
      [] r.kind = "get"              -> {"read"}
      [] r.kind = "other"            -> {}

-----------------------------------------------------------------------------
(* The lasting choices of a request, in the order they are shown.          *)

PolicyID(target, domain)  == [target |-> target, domain |-> domain]
Choice(id, actions)       == [id |-> id, actions |-> actions]

Dirname(r) == IF r.isDir THEN r.name ELSE Front(r.name)

\* commonFileBuildApprovalRequest.  The root directory gets no policy.
FileChoices(r) ==
    LET file == PolicyID("file", r.name)
        dir  == PolicyID("directory", Dirname(r))
        Both(id) == (IF r.kind = "read" THEN <<Choice(id, {"read"})>> ELSE <<>>)
                        \o <<Choice(id, {"read", "write"})>>
    IN  (IF r.isDir THEN <<>> ELSE Both(file))
            \o (IF Dirname(r) = <<>> THEN <<>> ELSE Both(dir))

\* FilePatchTool: r.name is the common root of the files the patch touches.
PatchChoices(r) ==
    IF r.name = <<>> THEN <<>>
    ELSE <<Choice(PolicyID("directory", r.name), {"read", "write"})>>

\* RunCommandTool: this invocation, or the command with any arguments.
CommandChoices(r) ==
    <<Choice(PolicyID("invocation", r.name), {"exec"}),
      Choice(PolicyID("command", <<Head(r.name)>>), {"exec"})>>

WebChoices(r) == <<Choice(PolicyID("domain", r.name), {"read", "write"})>>

ChoicesOf(r) ==
    CASE r.kind \in {"read", "write"}         -> FileChoices(r)
      [] r.kind = "patch"                     -> PatchChoices(r)
      [] r.kind = "exec"                      -> CommandChoices(r)
      [] r.kind \in {"fetch", "get", "post"}  -> WebChoices(r)
      [] r.kind = "other"                     -> <<>>

-----------------------------------------------------------------------------
(* Stores: a function from policy ids to allowed actions; {} is no policy, *)
(* for none is ever saved without actions.                                 *)

Sandbox   == PolicyID("directory", <<"sandbox">>)   \* of setupDefaultApprovals
PolicyIDs == {Sandbox} \cup {ch.id : ch \in UNION {Range(ChoicesOf(r)) : r \in Requests}}
Policies  == [PolicyIDs -> SUBSET Actions]
NoPolicy  == [id \in PolicyIDs |-> {}]

\* Faulty variant: the arguments are swapped.
Within_Swapped(path, root) == root # <<>> /\ IsPrefix(path, root)

\* isPathWithin
Within(path, root) == root # <<>> /\ IsPrefix(root, path)

\* The stored policies that decide for id when it has none of its own.
Ancestors(d, id) ==
    {a \in PolicyIDs : /\ d[a] # {}
                       /\ id.target \in {"directory", "domain"}
                       /\ a.target = id.target
                       /\ Within(id.domain, a.domain)}

\* Check: the policy of the id itself, or that of the nearest ancestor.
Check(d, id) ==
    IF d[id] # {} THEN d[id]
    ELSE IF Ancestors(d, id) = {} THEN {}
    ELSE d[CHOOSE a \in Ancestors(d, id) :
             \A b \in Ancestors(d, id) : Len(b.domain) <= Len(a.domain)]

-----------------------------------------------------------------------------
(* What the labels of the choices say, without reference to a store: the   *)
(* user's grant g allows what r requires.                                  *)

Grants(g, r) ==
    /\ RequiredActions(r) # {}
    /\ RequiredActions(r) \subseteq g.actions
    /\ \/ g.id.target = "file"       /\ r.kind \in {"read", "write"} /\ ~r.isDir
                                     /\ g.id.domain = r.name
       \/ g.id.target = "directory"  /\ r.kind \in {"read", "write", "patch"}
                                     /\ IsPrefix(g.id.domain, r.name)
       \/ g.id.target = "invocation" /\ r.kind = "exec" /\ g.id.domain = r.name
       \/ g.id.target = "command"    /\ r.kind = "exec" /\ g.id.domain[1] = r.name[1]
       \/ g.id.target = "domain"     /\ r.kind \in {"fetch", "get", "post"}
                                     /\ g.id.domain = r.name
=============================================================================
