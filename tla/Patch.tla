-------------------------------- MODULE Patch ---------------------------------
(***************************************************************************)
(* The apply_patch tool: the approval for the paths that the text of the   *)
(* patch names, loading, parsing, the computation of the new contents and  *)
(* their application to the workspace, one file after another.             *)
(*                                                                         *)
(* A line of a file is its text and the whitespace around it, which the    *)
(* search for a context may disregard.  The contents of a file are its     *)
(* lines, one at least (strings.Split); <<>> stands for a missing file.    *)
(* The text of a patch is a sequence of classified lines, its Begin marker *)
(* left out; what a marker may look like is left to the classification.    *)
(* Lines of files and patches count from 1, where the code counts from 0.  *)
(***************************************************************************)
EXTENDS Integers, FiniteSets, SequencesExt

CONSTANTS Outside,   \* the paths that lie outside of the workspace
          Calls      \* the text of the patch and the files before the call

Blank   == [text |-> "", pad |-> ""]
Missing == <<>>
Empty   == <<Blank>>
Contents(lines) == IF lines = <<>> THEN Empty ELSE lines   \* strings.Join

Tok(tag, path, line) == [tag |-> tag, path |-> path, line |-> line]
FileTok(tag, path)   == Tok(tag, path, Blank)
Mark(tag)            == Tok(tag, "", Blank)
Text(tag, line)      == Tok(tag, "", line)

FileTags == {"update", "delete", "add"}
DoneTags == FileTags \cup {"end"}
StopTags == DoneTags \cup {"@@", "eof", "move", "bad"}

FileLines  == [text : STRING, pad : {"", "cr", "sp"}]
PatchLines == [tag : StopTags \cup {"+", "-", " "}, path : STRING, line : FileLines]

\* The files of a call are those its patch names and others, there or missing.
ASSUME PatchAssumption ==
    \A c \in Calls :
        /\ c.patch \in Seq(PatchLines)
        /\ c.files \in [DOMAIN c.files -> Seq(FileLines)]
        /\ \A i \in DOMAIN c.patch :
              c.patch[i].tag \in FileTags \cup {"move"} => c.patch[i].path \in DOMAIN c.files

VARIABLES
    files,     \* the files of the workspace
    before,    \* the files before the call (history)
    patch,     \* the text of the patch
    pc,        \* where the call is
    approved,  \* the paths the user was asked about
    orig,      \* the files loaded: a function on the paths needed
    index,     \* Parser.index
    actions,   \* Parser.patch.Actions, a function on paths
    cur,       \* the update being parsed
    commit,    \* Commit.Changes, a function on paths
    todo,      \* the paths of the commit that are still to apply
    moving     \* the file whose moved contents were written, "" if none

fileVars  == <<files, before>>
parseVars == <<index, actions, cur>>
applyVars == <<commit, todo, moving>>
vars      == <<fileVars, patch, pc, approved, orig, parseVars, applyVars>>

None  == [p \in {} |-> <<>>]
NoCur == [path |-> "", move |-> "", idx |-> 1, chunks |-> <<>>, sections |-> <<>>]

Init ==
    /\ \E c \in Calls : patch = c.patch /\ files = c.files /\ before = c.files
    /\ pc = "approve" /\ approved = {}
    /\ orig = None /\ index = 1 /\ actions = None /\ cur = NoCur
    /\ commit = None /\ todo = {} /\ moving = ""

Put(f, p, v) == [q \in DOMAIN f \cup {p} |-> IF q = p THEN v ELSE f[q]]

Fail == /\ pc' = "failed"
        /\ UNCHANGED <<fileVars, patch, approved, orig, parseVars, applyVars>>
-----------------------------------------------------------------------------
(* Approval and loading.                                                   *)

\* The paths named by the lines of a text with one of the tags.
Named(tags) == {patch[i].path : i \in {j \in DOMAIN patch : patch[j].tag \in tags}}

\* Faulty variant: the targets of moves are forgotten.
CollectPatchPaths_NoMoves == Named(FileTags)

CollectPatchPaths == Named(FileTags \cup {"move"})

\* BuildApprovalRequest refuses paths outside of the workspace; the user may decline.
Approve ==
    /\ pc = "approve"
    /\ \/ /\ CollectPatchPaths \cap Outside = {}
          /\ approved' = CollectPatchPaths
          /\ pc' = "load"
          /\ UNCHANGED <<fileVars, patch, orig, parseVars, applyVars>>
       \/ Fail

\* processPatch and loadFiles: the files that are updated or deleted must be there,
\* the text must have its last marker.
Load ==
    /\ pc = "load"
    /\ LET need == Named({"update", "delete"})
       IN  IF (\A p \in need : files[p] # Missing) /\ Named({"end"}) # {}
           THEN /\ orig' = [p \in need |-> files[p]]
                /\ pc' = "parse"
                /\ UNCHANGED <<fileVars, patch, approved, parseVars, applyVars>>
           ELSE Fail
-----------------------------------------------------------------------------
(* The parser.                                                             *)

\* The first line of the patch from i on that has one of the tags.
NextWith(i, tags) ==
    CHOOSE j \in i .. Len(patch) : /\ patch[j].tag \in tags
                                   /\ \A k \in i .. j - 1 : patch[k].tag \notin tags

LinesOf(toks) == [i \in DOMAIN toks |-> toks[i].line]

Parsed(path, action, next) ==
    /\ actions' = Put(actions, path, action)
    /\ index' = next
    /\ pc' = "parse"
    /\ UNCHANGED <<fileVars, patch, approved, orig, applyVars>>

ParseDelete ==
    /\ pc = "parse" /\ patch[index].tag = "delete"
    /\ LET path == patch[index].path
       IN  IF path \in DOMAIN actions \/ path \notin DOMAIN orig THEN Fail
           ELSE Parsed(path, [type |-> "delete"], index + 1) /\ UNCHANGED cur

\* parseAddFile: nothing but added lines up to the next file
ParseAdd ==
    /\ pc = "parse" /\ patch[index].tag = "add"
    /\ LET path == patch[index].path
           end  == NextWith(index + 1, DoneTags)
           body == SubSeq(patch, index + 1, end - 1)
       IN  IF \/ path \in DOMAIN actions \/ path \in DOMAIN orig
              \/ \E i \in DOMAIN body : body[i].tag # "+"
           THEN Fail
           ELSE /\ Parsed(path, [type |-> "add", new |-> Contents(LinesOf(body))], end)
                /\ UNCHANGED cur

ParseUpdate ==
    /\ pc = "parse" /\ patch[index].tag = "update"
    /\ LET path == patch[index].path
           move == IF patch[index + 1].tag = "move" THEN patch[index + 1].path ELSE ""
       IN  IF path \in DOMAIN actions \/ path \notin DOMAIN orig THEN Fail
           ELSE /\ cur' = [NoCur EXCEPT !.path = path, !.move = move]
                /\ index' = index + (IF move = "" THEN 1 ELSE 2)
                /\ pc' = "update"
                /\ UNCHANGED <<fileVars, patch, approved, orig, actions, applyVars>>

ParseEnd ==
    /\ pc = "parse" /\ patch[index].tag = "end"
    /\ pc' = "commit"
    /\ UNCHANGED <<fileVars, patch, approved, orig, parseVars, applyVars>>

ParseUnknown ==
    /\ pc = "parse" /\ patch[index].tag \notin DoneTags
    /\ Fail

\* How much of the whitespace findContextCore disregards: none, a carriage return, all.
Alike(level, l, m) ==
    /\ l.text = m.text
    /\ \/ l.pad = m.pad
       \/ level = 1 /\ {l.pad, m.pad} = {"", "cr"}
       \/ level = 2

MatchesAt(lines, ctx, level, i) ==
    \A j \in DOMAIN ctx : Alike(level, lines[i + j - 1], ctx[j])

\* The place of a context at line start or later, 0 if there is none: the first
\* at the strictest level at which there is one.
FindContextCore(lines, ctx, start) ==
    LET At(level) == {i \in start .. Len(lines) - Len(ctx) + 1 : MatchesAt(lines, ctx, level, i)}
        levels    == {l \in 0 .. 2 : At(l) # {}}
    IN  IF ctx = <<>> THEN start
        ELSE IF levels = {} THEN 0
        ELSE Min(At(Min(levels)))

\* A context before the end of the file is sought at the end first.
FindContext(lines, ctx, start, eof) ==
    LET last == IF eof THEN FindContextCore(lines, ctx, Len(lines) - Len(ctx) + 1) ELSE 0
    IN  IF last > 0 THEN last ELSE FindContextCore(lines, ctx, start)

\* peekNextSection reads a section line by line: the lines that must be there, the
\* chunks found, and the deletions and insertions of the chunk that is open.
Unread == [old |-> <<>>, chunks |-> <<>>, del |-> 0, ins |-> <<>>]

\* Faulty variant: a chunk is placed after the lines it deletes.
CloseChunk_NoDel(r) ==
    IF r.del = 0 /\ r.ins = <<>> THEN r
    ELSE [r EXCEPT !.chunks = Append(@, [orig |-> Len(r.old), del |-> r.del, ins |-> r.ins]),
                   !.del = 0, !.ins = <<>>]

\* A chunk ends where a line is kept; it is placed relative to its section.
CloseChunk(r) ==
    IF r.del = 0 /\ r.ins = <<>> THEN r
    ELSE [r EXCEPT !.chunks = Append(@, [orig |-> Len(r.old) - r.del,
                                         del |-> r.del, ins |-> r.ins]),
                   !.del = 0, !.ins = <<>>]

ReadLine(r, t) ==
    CASE t.tag = "+" -> [r EXCEPT !.ins = Append(@, t.line)]
      [] t.tag = "-" -> [r EXCEPT !.old = Append(@, t.line), !.del = @ + 1]
      [] OTHER       -> [CloseChunk(r) EXCEPT !.old = Append(@, t.line)]

ReadLines(body) ==
    LET read[i \in 0 .. Len(body)] ==
            IF i = 0 THEN Unread ELSE ReadLine(read[i - 1], body[i])
    IN  read[Len(body)]

PeekNextSection(body) == CloseChunk(ReadLines(body))

\* The chunks of a section that was found at line m
Placed(chunks, m) == [n \in DOMAIN chunks |-> [chunks[n] EXCEPT !.orig = @ + m]]

\* One round of parseUpdateFile: a section of hunks is found in the file.
Section ==
    /\ pc = "update" /\ patch[index].tag \notin DoneTags \cup {"eof"}
    /\ LET first == IF patch[index].tag = "@@" THEN index + 1 ELSE index
           stop  == NextWith(first, StopTags)
           body  == SubSeq(patch, first, stop - 1)
           eof   == patch[stop].tag = "eof"
           lines == orig[cur.path]
           peek  == PeekNextSection(body)
           old   == peek.old
           m     == FindContext(lines, old, cur.idx, eof)
       IN  CASE patch[stop].tag \in {"move", "bad"} \/ (body = <<>> /\ ~eof) -> Fail
             [] eof /\ Len(old) > Len(lines) ->   \* a negative index
                    /\ pc' = "panicked"
                    /\ UNCHANGED <<fileVars, patch, approved, orig, parseVars, applyVars>>
             [] ~(eof /\ Len(old) > Len(lines)) /\ m = 0 -> Fail
             [] OTHER ->
                    /\ cur' = [cur EXCEPT !.idx = m + Len(old),
                                          !.chunks = @ \o Placed(peek.chunks, m),
                                          !.sections = Append(@, [at |-> m, body |-> body])]
                    /\ index' = IF eof THEN stop + 1 ELSE stop
                    /\ UNCHANGED <<fileVars, patch, pc, approved, orig, actions, applyVars>>

EndUpdate ==
    /\ pc = "update" /\ patch[index].tag \in DoneTags \cup {"eof"}
    /\ Parsed(cur.path, [type |-> "update", move |-> cur.move, chunks |-> cur.chunks,
                         sections |-> cur.sections], index)
    /\ cur' = NoCur
-----------------------------------------------------------------------------
(* The commit and its application.                                         *)

\* getUpdatedFile: the new lines and the next of the old, after each chunk.
Untouched == [ok |-> TRUE, dest |-> <<>>, next |-> 1]

AddChunk(lines, u, ch) ==
    [ok   |-> u.ok /\ u.next <= ch.orig /\ ch.orig <= Len(lines) + 1,
     dest |-> u.dest \o SubSeq(lines, u.next, ch.orig - 1) \o ch.ins,
     next |-> ch.orig + ch.del]

Updated(lines, chunks) ==
    LET to[k \in 0 .. Len(chunks)] ==
            IF k = 0 THEN Untouched
            ELSE AddChunk(lines, to[k - 1], chunks[k])
    IN  to[Len(chunks)]

GetUpdatedFile(lines, chunks) ==
    LET u == Updated(lines, chunks)
    IN  [ok |-> u.ok, new |-> u.dest \o SubSeq(lines, u.next, Len(lines))]

\* The FileChange of path p
Change(p) ==
    LET a == actions[p]
        u == GetUpdatedFile(orig[p], a.chunks)
    IN  CASE a.type = "delete" -> [ok |-> TRUE, type |-> "delete", new |-> Missing,
                                   moves |-> FALSE, target |-> p]
          [] a.type = "add"    -> [ok |-> a.new # Empty, type |-> "add", new |-> a.new,
                                   moves |-> FALSE, target |-> p]
          [] a.type = "update" -> [ok |-> u.ok, type |-> "update", new |-> Contents(u.new),
                                   moves |-> a.move # "", target |-> IF a.move = "" THEN p ELSE a.move]

\* patchToCommit: all changes, or none
PatchToCommit ==
    /\ pc = "commit"
    /\ LET changes == [p \in DOMAIN actions |-> Change(p)]
       IN  IF \E p \in DOMAIN actions : ~changes[p].ok THEN Fail
           ELSE /\ commit' = changes
                /\ todo' = DOMAIN actions
                /\ pc' = "apply"
                /\ UNCHANGED <<fileVars, patch, approved, orig, parseVars, moving>>

\* applyCommit takes the changes in any order and stops at the first failure.
Applying(p) == pc = "apply" /\ p \in todo

Reachable(p) == {p, commit[p].target} \cap Outside = {}

\* A file is written or removed, and the call goes on.
Wrote(path, contents, step, left, from) ==
    /\ files' = [files EXCEPT ![path] = contents]
    /\ pc' = step /\ todo' = left /\ moving' = from
    /\ UNCHANGED <<before, patch, approved, orig, parseVars, commit>>

ApplyDelete(p) ==
    /\ Applying(p) /\ commit[p].type = "delete"
    /\ IF files[p] = Missing \/ ~Reachable(p) THEN Fail
       ELSE Wrote(p, Missing, "apply", todo \ {p}, "")

\* Faulty variant: a moved file is removed before its target is written.
ApplyWrite_RemoveFirst(p) ==
    /\ Applying(p) /\ commit[p].type # "delete"
    /\ IF commit[p].new = Empty THEN Fail
       ELSE IF commit[p].moves /\ files[p] # Missing
            THEN Wrote(p, Missing, "apply", todo, "")
            ELSE Wrote(commit[p].target, commit[p].new, "apply", todo \ {p}, "")

\* The new contents go to the file or to the target of its move, over whatever is
\* there; contents that are empty are refused.
ApplyWrite(p) ==
    /\ Applying(p) /\ commit[p].type # "delete"
    /\ IF commit[p].new = Empty \/ ~Reachable(p) THEN Fail
       ELSE IF commit[p].moves
            THEN Wrote(commit[p].target, commit[p].new, "remove", todo, p)
            ELSE Wrote(p, commit[p].new, "apply", todo \ {p}, "")

\* The write fails when the file is truncated already.
ApplyWriteFails(p) ==
    /\ Applying(p) /\ commit[p].type # "delete"
    /\ commit[p].new # Empty /\ Reachable(p)
    /\ Wrote(commit[p].target, Empty, "failed", todo, "")

\* A moved file is removed once its target is written.
RemoveSource ==
    /\ pc = "remove"
    /\ IF files[moving] = Missing THEN Fail
       ELSE Wrote(moving, Missing, "apply", todo \ {moving}, "")

\* A file cannot be opened or removed, or the process is killed.
ApplyFails == pc \in {"apply", "remove"} /\ Fail

ApplyDone ==
    /\ pc = "apply" /\ todo = {}
    /\ pc' = "done"
    /\ UNCHANGED <<fileVars, patch, approved, orig, parseVars, applyVars>>

Next ==
    \/ Approve \/ Load
    \/ ParseDelete \/ ParseAdd \/ ParseUpdate \/ Section \/ EndUpdate
    \/ ParseEnd \/ ParseUnknown
    \/ PatchToCommit
    \/ \E p \in todo : ApplyDelete(p) \/ ApplyWrite(p) \/ ApplyWriteFails(p)
    \/ RemoveSource \/ ApplyFails \/ ApplyDone

Spec == Init /\ [][Next]_vars
-----------------------------------------------------------------------------
(* Correctness.                                                            *)

\* A section of an update as its author reads it, line by line: it takes the lines
\* of the file from its place on, which it keeps, drops or adds to.
From(line) == [next |-> line, text |-> <<>>]

EditLine(lines, w, t) ==
    [next |-> IF t.tag = "+" THEN w.next ELSE w.next + 1,
     text |-> CASE t.tag = "+" -> Append(w.text, t.line)
                [] t.tag = "-" -> w.text
                [] OTHER       -> Append(w.text, lines[w.next])]

AsWritten(lines, s) ==
    LET to[i \in 0 .. Len(s.body)] ==
            IF i = 0 THEN From(s.at)
            ELSE EditLine(lines, to[i - 1], s.body[i])
    IN  to[Len(s.body)]

\* What is between the sections is kept.
WriteSection(lines, w, s) ==
    [next |-> AsWritten(lines, s).next,
     text |-> w.text \o SubSeq(lines, w.next, s.at - 1) \o AsWritten(lines, s).text]

WrittenTo(lines, sections) ==
    LET to[n \in 0 .. Len(sections)] ==
            IF n = 0 THEN From(1)
            ELSE WriteSection(lines, to[n - 1], sections[n])
    IN  to[Len(sections)]

Rewritten(lines, sections) ==
    LET w == WrittenTo(lines, sections)
    IN  w.text \o SubSeq(lines, w.next, Len(lines))

Apart(lines, sections) ==
    \A n \in 1 .. Len(sections) - 1 : AsWritten(lines, sections[n]).next <= sections[n + 1].at

\* A patch no two parts of which are about the same file.
Targets == {p \in DOMAIN commit : commit[p].moves}
Tidy ==
    /\ \A p \in Targets : commit[p].target \notin DOMAIN commit
    /\ \A p, q \in Targets : p # q => commit[p].target # commit[q].target

\* What the patch makes of path q
Expected(q) ==
    LET to == {p \in DOMAIN commit : commit[p].target = q /\ commit[p].type # "delete"}
        p  == CHOOSE r \in to : TRUE
    IN  IF to = {} THEN (IF q \in DOMAIN commit THEN Missing ELSE before[q])
        ELSE IF commit[p].type = "add" THEN commit[p].new
        ELSE Contents(Rewritten(before[p], actions[p].sections))

\* Once processPatch returns without an error every file is what the patch says:
\* the places its contexts were found at hold the new lines, everything between
\* them is as it was, moved and deleted files are gone, and the other files are
\* untouched.
AppliedAsWritten ==
    pc = "done" /\ Tidy
    /\ (\A p \in DOMAIN actions :
            actions[p].type = "update" => Apart(before[p], actions[p].sections))
        => \A q \in DOMAIN files : files[q] = Expected(q)

\* Parsing and applying a patch changes no file the user was not asked about, and
\* none outside of the workspace (collectPatchPaths reads the text by itself, not
\* with the parser that finds the changes).
OnlyApprovedChange ==
    [][\A q \in DOMAIN files : files'[q] # files[q] => q \in approved \ Outside]_vars

\* However the application of a tidy patch ends, the text of a file that moves is
\* under its old or its new name (applyCommit writes before it removes).
MoveKeepsText ==
    Tidy => \A p \in Targets :
               files[p] = before[p] \/ files[commit[p].target] = commit[p].new
=============================================================================
