------------------------------ MODULE Approvals ------------------------------
(***************************************************************************)
(* Approval of tool calls.  The tool calls of an octium process ask its    *)
(* PolicyStoreApprover at the same time; the process keeps one             *)
(* JSONApprovalPolicyStore, guarded by a read-write mutex, and writes it   *)
(* to approvals.json through approvals.json.tmp.  The processes of a user  *)
(* share both files and no lock.  First-time setup writes approvals.json   *)
(* through a store of its own.                                             *)
(*                                                                         *)
(* A prompt is one step here; how it reaches the user is the subject of    *)
(* ThreadRun.  A process may be killed, or quit, at any moment.            *)
(***************************************************************************)
EXTENDS Policies

CONSTANTS Procs,             \* octium processes
          Callers,           \* goroutines of a process that run tool calls
          NoCaller,          \* nobody holds the store's mutex
          SetupRuns,         \* when setup may find approvals.json missing: "never",
                             \* "first" (before the process loads its store), "later"
          WritesMayFail      \* may writing approvals.json fail?

ASSUME ApprovalAssumption == /\ NoCaller \notin Callers /\ "setup" \notin Callers
                             /\ SetupRuns \in {"never", "first", "later"}
                             /\ WritesMayFail \in BOOLEAN

Setup  == "setup"                            \* the goroutine of the menu
Agents == Procs \X (Callers \cup {Setup})    \* whoever can write the file

VARIABLES
    up,      \* processes that have loaded their store
    data,    \* the policies of every store
    lock,    \* the caller that holds the store's mutex for writing
    op,      \* what every agent is doing
    file,    \* approvals.json
    tmp,     \* approvals.json.tmp
    agreed,  \* history: the lasting grants the user chose
    saved    \* history: those whose Save returned

vars == <<up, data, lock, op, file, tmp, agreed, saved>>

(* A file: missing, empty, not parseable, or the policies it holds.        *)
Absent   == [state |-> "absent", map |-> NoPolicy]
Blank    == [state |-> "blank",  map |-> NoPolicy]
Torn     == [state |-> "torn",   map |-> NoPolicy]
Whole(d) == [state |-> "whole",  map |-> d]
Files    == [state : {"absent", "blank", "torn", "whole"}, map : Policies]

Persisting == {"open", "write", "rename"}
NoChoice   == Choice(Sandbox, {})
AnyRequest == CHOOSE r \in Requests : TRUE

\* fd tells where the file that the agent opened as approvals.json.tmp is now.
Idle == [pc |-> "idle", req |-> AnyRequest, left |-> <<>>, choice |-> NoChoice,
         covered |-> FALSE, byUser |-> FALSE, snap |-> NoPolicy, fd |-> "none"]

Init ==
    /\ up = {}
    /\ data = [p \in Procs |-> NoPolicy]
    /\ lock = [p \in Procs |-> NoCaller]
    /\ op = [a \in Agents |-> Idle]
    /\ file = Absent /\ tmp = Absent
    /\ agreed = {} /\ saved = {}

-----------------------------------------------------------------------------
(* PolicyStoreApprover.AskApproval, and isRequestAllowedByPolicy.          *)

Request(p, c, r) ==
    /\ p \in up
    /\ op[<<p, c>>].pc = "idle"
    /\ op' = [op EXCEPT ![<<p, c>>] =
                [Idle EXCEPT !.pc = "checking", !.req = r,
                             !.left = IF RequiredActions(r) = {} THEN <<>> ELSE ChoicesOf(r),
                             !.covered = \E g \in saved : Grants(g, r)]]
    /\ UNCHANGED <<up, data, lock, file, tmp, agreed, saved>>

\* One lookup: the mutex is taken for each choice anew, so that other calls
\* may save a policy between two lookups.
CheckChoice(p, c) ==
    /\ op[<<p, c>>].pc = "checking" /\ op[<<p, c>>].left # <<>>
    /\ lock[p] = NoCaller
    /\ op' = [op EXCEPT ![<<p, c>>] =
                IF RequiredActions(@.req) \subseteq Check(data[p], Head(@.left).id)
                THEN [@ EXCEPT !.pc = "allowed", !.left = <<>>]
                ELSE [@ EXCEPT !.left = Tail(op[<<p, c>>].left)]]
    /\ UNCHANGED <<up, data, lock, file, tmp, agreed, saved>>

\* No policy allows the call: ask the user; the proxy refuses instead.
Ask(p, c) ==
    /\ op[<<p, c>>].pc = "checking" /\ op[<<p, c>>].left = <<>>
    /\ op' = [op EXCEPT ![<<p, c>>] = IF ByProxy(@.req) THEN Idle
                                      ELSE [@ EXCEPT !.pc = "asking"]]
    /\ UNCHANGED <<up, data, lock, file, tmp, agreed, saved>>

AnswerOnce(p, c) ==
    /\ op[<<p, c>>].pc = "asking"
    /\ op' = [op EXCEPT ![<<p, c>>] = [@ EXCEPT !.pc = "allowed", !.byUser = TRUE]]
    /\ UNCHANGED <<up, data, lock, file, tmp, agreed, saved>>

\* The user declines, or the prompt is cancelled.
AnswerNo(p, c) ==
    /\ op[<<p, c>>].pc = "asking"
    /\ op' = [op EXCEPT ![<<p, c>>] = Idle]
    /\ UNCHANGED <<up, data, lock, file, tmp, agreed, saved>>

AnswerAlways(p, c, ch) ==
    /\ op[<<p, c>>].pc = "asking"
    /\ ch \in Range(ChoicesOf(op[<<p, c>>].req))
    /\ op' = [op EXCEPT ![<<p, c>>] =
                [@ EXCEPT !.pc = "saving", !.byUser = TRUE, !.choice = ch]]
    /\ agreed' = agreed \cup {ch}
    /\ UNCHANGED <<up, data, lock, file, tmp, saved>>

\* Faulty variant: a policy that exists is kept.
Save_FirstWins(p, c) ==
    /\ op[<<p, c>>].pc = "saving"
    /\ lock[p] = NoCaller
    /\ lock' = [lock EXCEPT ![p] = c]
    /\ data' = [data EXCEPT ![p][op[<<p, c>>].choice.id] =
                   IF @ # {} THEN @ ELSE op[<<p, c>>].choice.actions]
    /\ op' = [op EXCEPT ![<<p, c>>] = [@ EXCEPT !.pc = "open", !.snap = data'[p]]]
    /\ UNCHANGED <<up, file, tmp, agreed, saved>>

\* Save: take the mutex, replace the policy, and encode the store.
Save(p, c) ==
    /\ op[<<p, c>>].pc = "saving"
    /\ lock[p] = NoCaller
    /\ lock' = [lock EXCEPT ![p] = c]
    /\ data' = [data EXCEPT ![p][op[<<p, c>>].choice.id] = op[<<p, c>>].choice.actions]
    /\ op' = [op EXCEPT ![<<p, c>>] = [@ EXCEPT !.pc = "open", !.snap = data'[p]]]
    /\ UNCHANGED <<up, file, tmp, agreed, saved>>

\* The tool has run.
Return(p, c) ==
    /\ op[<<p, c>>].pc = "allowed"
    /\ op' = [op EXCEPT ![<<p, c>>] = Idle]
    /\ UNCHANGED <<up, data, lock, file, tmp, agreed, saved>>

-----------------------------------------------------------------------------
(* persist: write approvals.json.tmp and rename it.                        *)

\* Save returns whether or not the file was written; a call goes on.
SaveReturns(a, fds, written) ==
    /\ op' = [fds EXCEPT ![a] =
                IF a[2] = Setup THEN Idle
                ELSE [@ EXCEPT !.pc = "allowed", !.snap = NoPolicy, !.fd = "none"]]
    /\ lock' = IF a[2] = Setup THEN lock ELSE [lock EXCEPT ![a[1]] = NoCaller]
    /\ saved' = IF a[2] = Setup /\ ~written THEN saved ELSE saved \cup {op[a].choice}

\* Faulty variant: approvals.json itself is truncated and written.
PersistOpen_InPlace(a) ==
    /\ op[a].pc = "open"
    /\ file' = Blank
    /\ op' = [op EXCEPT ![a] = [@ EXCEPT !.pc = "write", !.fd = "file"]]
    /\ UNCHANGED <<up, data, lock, tmp, agreed, saved>>

\* Create or truncate; another agent may have the same file open.
PersistOpen(a) ==
    /\ op[a].pc = "open"
    /\ tmp' = Blank
    /\ op' = [op EXCEPT ![a] = [@ EXCEPT !.pc = "write", !.fd = "tmp"]]
    /\ UNCHANGED <<up, data, lock, file, agreed, saved>>

\* What writing d from the start of a file leaves: when another agent wrote
\* more than that, the tail of it remains.
Overwrite(old, d) ==
    IF old \in {Blank, Whole(d)} THEN {Whole(d)} ELSE {Whole(d), Torn}

PersistWrite(a) ==
    /\ op[a].pc = "write"
    /\ IF op[a].fd = "tmp"  THEN tmp' \in Overwrite(tmp, op[a].snap) ELSE UNCHANGED tmp
    /\ IF op[a].fd = "file" THEN file' \in Overwrite(file, op[a].snap) ELSE UNCHANGED file
    /\ op' = [op EXCEPT ![a].pc = "rename"]
    /\ UNCHANGED <<up, data, lock, agreed, saved>>

\* os.Rename moves whatever is at approvals.json.tmp, or fails if another agent
\* has moved it already.  Open files stay with what they were opened on.
PersistRename(a) ==
    /\ op[a].pc = "rename"
    /\ IF tmp = Absent
       THEN UNCHANGED <<file, tmp>> /\ SaveReturns(a, op, FALSE)
       ELSE /\ file' = tmp /\ tmp' = Absent
            /\ SaveReturns(a, [b \in Agents |-> [op[b] EXCEPT !.fd =
                                  CASE @ = "tmp" -> "file" [] @ = "file" -> "gone" [] OTHER -> @]],
                           TRUE)
    /\ UNCHANGED <<up, data, agreed>>

\* Creating, writing, syncing or renaming fails; a failed write may leave a part.
PersistFail(a) ==
    /\ WritesMayFail
    /\ op[a].pc \in Persisting
    /\ IF op[a].pc = "write" /\ op[a].fd = "tmp"  THEN tmp' \in {tmp, Torn} ELSE UNCHANGED tmp
    /\ IF op[a].pc = "write" /\ op[a].fd = "file" THEN file' \in {file, Torn} ELSE UNCHANGED file
    /\ SaveReturns(a, op, FALSE)
    /\ UNCHANGED <<up, data, agreed>>

-----------------------------------------------------------------------------
(* setupDefaultApprovals, and the life of a process.                       *)

SetupStat(p) ==
    /\ SetupRuns = IF p \in up THEN "later" ELSE "first"
    /\ op[<<p, Setup>>].pc = "idle"
    /\ file = Absent
    /\ op' = [op EXCEPT ![<<p, Setup>>].pc = "stat"]
    /\ UNCHANGED <<up, data, lock, file, tmp, agreed, saved>>

\* A new store, and its Save; another process may have created the file by now.
SetupLoad(p) ==
    /\ op[<<p, Setup>>].pc = "stat"
    /\ LET ch == Choice(Sandbox, {"read", "write"})
       IN  IF file.state \in {"absent", "whole"}
           THEN /\ op' = [op EXCEPT ![<<p, Setup>>] =
                            [@ EXCEPT !.pc = "open", !.choice = ch,
                                      !.snap = [file.map EXCEPT ![Sandbox] = ch.actions]]]
                /\ agreed' = agreed \cup {ch}
           ELSE /\ op' = [op EXCEPT ![<<p, Setup>>] = Idle]
                /\ UNCHANGED agreed
    /\ UNCHANGED <<up, data, lock, file, tmp, saved>>

\* NewJSONApprovalPolicyStore: a file that does not parse is an error.
Start(p) ==
    /\ p \notin up
    /\ op[<<p, Setup>>].pc = "idle"
    /\ file.state \in {"absent", "whole"}
    /\ up' = up \cup {p}
    /\ data' = [data EXCEPT ![p] = file.map]
    /\ UNCHANGED <<lock, op, file, tmp, agreed, saved>>

Kill(p) ==
    /\ p \in up \/ op[<<p, Setup>>].pc # "idle"
    /\ up' = up \ {p}
    /\ data' = [data EXCEPT ![p] = NoPolicy]
    /\ lock' = [lock EXCEPT ![p] = NoCaller]
    /\ op' = [a \in Agents |-> IF a[1] = p THEN Idle ELSE op[a]]
    /\ UNCHANGED <<file, tmp, agreed, saved>>

CallerStep(p, c) ==
    \/ \E r \in Requests : Request(p, c, r)
    \/ CheckChoice(p, c) \/ Ask(p, c)
    \/ AnswerOnce(p, c) \/ AnswerNo(p, c)
    \/ \E ch \in Range(ChoicesOf(op[<<p, c>>].req)) : AnswerAlways(p, c, ch)
    \/ Save(p, c) \/ Return(p, c)

Persist(a) == PersistOpen(a) \/ PersistWrite(a) \/ PersistRename(a) \/ PersistFail(a)

Next ==
    \/ \E p \in Procs : \/ \E c \in Callers : CallerStep(p, c)
                        \/ SetupStat(p) \/ SetupLoad(p) \/ Start(p) \/ Kill(p)
    \/ \E a \in Agents : Persist(a)

Spec == Init /\ [][Next]_vars

-----------------------------------------------------------------------------
(* Correctness.                                                            *)

\* Besides the types: the mutex is held exactly while its caller is in Save.
TypeOK ==
    /\ up \subseteq Procs
    /\ data \in [Procs -> Policies]
    /\ lock \in [Procs -> Callers \cup {NoCaller}]
    /\ file \in Files /\ tmp \in Files
    /\ saved \subseteq agreed
    /\ \A a \in Agents :
         /\ op[a].pc \in {"idle", "checking", "asking", "saving", "allowed", "stat"} \cup Persisting
         /\ op[a].req \in Requests
         /\ op[a].snap \in Policies
         /\ op[a].fd \in {"none", "tmp", "file", "gone"}
    /\ \A p \in Procs, c \in Callers : lock[p] = c <=> op[<<p, c>>].pc \in Persisting

\* A tool call runs only if the user approved that very call, or chose before,
\* in this process or another one, or was given at setup, a grant whose label
\* covers it: neither the
\* search for an ancestor's policy nor a reload, a replaced policy or a half
\* written file ever gives more than was granted.
AllowedWasGranted ==
    \A a \in Agents :
        op[a].pc = "allowed" =>
            op[a].byUser \/ \E g \in agreed : Grants(g, op[a].req)

\* persist's promise: approvals.json is replaced atomically, so that whoever
\* reads it, whenever a process is killed or a write fails, can parse it.
FileIsWhole == file.state \in {"absent", "whole"}

\* What the labels say ("allow all future reads/writes within ..."): the user
\* is not asked about a call that a grant saved before it began covers.
GrantsHonoured ==
    \A a \in Agents : op[a].pc = "asking" => ~op[a].covered
=============================================================================
