---------------------------- MODULE Patch_proofs -----------------------------
(***************************************************************************)
(* Proofs about Patch for any text of a patch and any files: what is       *)
(* changed was approved, a move keeps the text, and a patch that succeeds  *)
(* has applied every change, in whatever order.                            *)
(***************************************************************************)
EXTENDS Patch, SequenceTheorems, WellFoundedInduction, TLAPS

-----------------------------------------------------------------------------
(* What the parser and the commit may name.                                *)

Ends == {i \in DOMAIN patch : patch[i].tag = "end"}

\* The parser stays before the last marker, so that it always has a line to look at.
ParseInv ==
    /\ patch \in Seq(PatchLines)
    /\ pc \in {"approve", "load"} => index = 1
    /\ pc \in {"parse", "update"} =>
          index \in Nat \ {0} /\ Ends # {} /\ \A e \in Ends : index <= e

\* A change is that of a file the patch names, and a move goes where it says.
Origin(p)      == p \in Named(FileTags)
Destination(m) == m = "" \/ m \in Named({"move"})

NameInv ==
    /\ cur = [path |-> cur.path, move |-> cur.move, idx |-> cur.idx,
              chunks |-> cur.chunks, sections |-> cur.sections]
    /\ pc = "update" => Origin(cur.path) /\ Destination(cur.move)
    /\ \A p \in DOMAIN actions :
          /\ Origin(p)
          /\ actions[p].type \in {"add", "delete", "update"}
          /\ actions[p].type = "update" => Destination(actions[p].move)
    /\ \A p \in DOMAIN commit :
          /\ Origin(p)
          /\ commit[p].type \in {"add", "delete", "update"}
          /\ IF commit[p].moves THEN commit[p].type = "update" /\ commit[p].target \in Named({"move"})
             ELSE commit[p].target = p
          /\ commit[p].type = "delete" => commit[p].new = Missing

\* The files of the call, the user's consent to all of them, and nothing written
\* before the whole patch was understood.
CallInv ==
    /\ files = [p \in DOMAIN before |-> files[p]]
    /\ CollectPatchPaths \subseteq DOMAIN before
    /\ pc \in {"load", "parse", "update", "commit", "apply", "remove", "done"} =>
          approved = CollectPatchPaths /\ CollectPatchPaths \cap Outside = {}
    /\ pc \in {"approve", "load", "parse", "update", "commit", "panicked"} =>
          files = before /\ commit = None
    /\ todo \subseteq DOMAIN commit
    /\ pc = "remove" => moving \in todo /\ commit[moving].moves

\* A change that is applied: its file or target has the new contents, and a file
\* that moved is gone.
Applied(p) == /\ files[commit[p].target] = commit[p].new
              /\ commit[p].moves => files[p] = Missing

Concerned == DOMAIN commit \cup {commit[p].target : p \in DOMAIN commit}

\* While a tidy commit is applied, every change is applied or still to come.
ApplyInv ==
    /\ pc = "done" => todo = {}
    /\ MoveKeepsText
    /\ Tidy /\ pc \in {"apply", "remove", "done"} =>
          /\ \A p \in todo : files[p] = before[p]
          /\ \A p \in DOMAIN commit \ todo : Applied(p)
          /\ \A q \in DOMAIN files \ Concerned : files[q] = before[q]
    /\ Tidy /\ pc = "remove" => files[commit[moving].target] = commit[moving].new

-----------------------------------------------------------------------------
(* The parser.                                                             *)

\* The next marker is found, and it is not beyond the last one.
LEMMA NextMarker ==
  ASSUME patch \in Seq(PatchLines), NEW i \in Nat \ {0}, NEW tags, "end" \in tags,
         Ends # {}, \A e \in Ends : i <= e
  PROVE  /\ NextWith(i, tags) \in i .. Len(patch)
         /\ patch[NextWith(i, tags)].tag \in tags
         /\ \A e \in Ends : NextWith(i, tags) <= e
  <1> DEFINE S == {j \in i .. Len(patch) : patch[j].tag \in tags}
             R == {ss \in Nat \X Nat : ss[1] < ss[2]}
  <1>1. Len(patch) \in Nat /\ DOMAIN patch = 1 .. Len(patch)
    OBVIOUS
  <1>2. Ends \subseteq S
    BY <1>1 DEF Ends
  <1>3. S \subseteq Nat /\ S # {}
    <2>1. i .. Len(patch) \subseteq Nat
      BY <1>1
    <2>2. S \subseteq i .. Len(patch)
      OBVIOUS
    <2> HIDE DEF S
    <2>3. QED
      BY <1>2, <2>1, <2>2
  <1>4. IsWellFoundedOn(R, Nat)
    BY NatLessThanWellFounded DEF OpToRel
  <1>5. \E x \in S : \A y \in S : ~(<<y, x>> \in R)
    <2> HIDE DEF S, R
    <2>1. QED
      BY <1>3, <1>4, WFMin
  <1>6. PICK x \in S : \A y \in S : ~(y < x)
    BY <1>3, <1>5
  <1>7. /\ x \in i .. Len(patch) /\ patch[x].tag \in tags
        /\ \A k \in i .. x - 1 : patch[k].tag \notin tags
    <2>1. ASSUME NEW k \in i .. x - 1 PROVE patch[k].tag \notin tags
      <3>1. k \in i .. Len(patch) /\ k < x
        BY <1>1, <1>6, <2>1
      <3>2. QED
        BY <1>6, <3>1
    <2>2. QED
      BY <1>6, <2>1
  <1>8. /\ NextWith(i, tags) \in i .. Len(patch)
        /\ patch[NextWith(i, tags)].tag \in tags
        /\ \A k \in i .. NextWith(i, tags) - 1 : patch[k].tag \notin tags
    BY <1>7 DEF NextWith
  <1>9. ASSUME NEW e \in Ends PROVE NextWith(i, tags) <= e
    <2>1. e \in i .. Len(patch) /\ patch[e].tag \in tags
      BY <1>2
    <2>2. ~(e \in i .. NextWith(i, tags) - 1)
      BY <1>8, <2>1
    <2>3. QED
      BY <1>1, <1>8, <2>1, <2>2
  <1>10. QED
    BY <1>8, <1>9

\* A round of parseUpdateFile fails, panics, or finds its section and goes on behind it
\* with the same file.
LEMMA SectionEffect ==
  ASSUME NameInv, Section
  PROVE  \/ Fail
         \/ pc' = "panicked" /\ UNCHANGED <<fileVars, patch, approved, orig, parseVars, applyVars>>
         \/ LET first == IF patch[index].tag = "@@" THEN index + 1 ELSE index
                stop  == NextWith(first, StopTags)
                body  == SubSeq(patch, first, stop - 1)
                eof   == patch[stop].tag = "eof"
                lines == orig[cur.path]
                peek  == PeekNextSection(body)
                m     == FindContext(lines, peek.old, cur.idx, eof)
            IN  /\ index' = IF patch[stop].tag = "eof" THEN stop + 1 ELSE stop
                /\ cur'.path = cur.path /\ cur'.move = cur.move
                /\ cur'.idx = m + Len(peek.old)
                /\ cur'.chunks = cur.chunks \o Placed(peek.chunks, m)
                /\ cur'.sections = Append(cur.sections, [at |-> m, body |-> body])
                /\ cur' = [path |-> cur'.path, move |-> cur'.move, idx |-> cur'.idx,
                           chunks |-> cur'.chunks, sections |-> cur'.sections]
                /\ m # 0 /\ ~(eof /\ Len(peek.old) > Len(lines))
                /\ UNCHANGED <<fileVars, patch, pc, approved, orig, actions, applyVars>>
  <1> DEFINE first == IF patch[index].tag = "@@" THEN index + 1 ELSE index
             stop  == NextWith(first, StopTags)
             body  == SubSeq(patch, first, stop - 1)
             eof   == patch[stop].tag = "eof"
             lines == orig[cur.path]
             peek  == PeekNextSection(body)
             old   == peek.old
             m     == FindContext(lines, old, cur.idx, eof)
             idx   == m + Len(old)
             more  == Placed(peek.chunks, m)
             s     == [at |-> m, body |-> body]
  <1>1. \/ Fail
        \/ pc' = "panicked" /\ UNCHANGED <<fileVars, patch, approved, orig, parseVars, applyVars>>
        \/ /\ cur' = [cur EXCEPT !.idx = idx, !.chunks = @ \o more, !.sections = Append(@, s)]
           /\ index' = IF eof THEN stop + 1 ELSE stop
           /\ m # 0 /\ ~(eof /\ Len(old) > Len(lines))
           /\ UNCHANGED <<fileVars, patch, pc, approved, orig, actions, applyVars>>
    <2> DEFINE bad   == patch[stop].tag \in {"move", "bad"} \/ (body = <<>> /\ ~eof)
               short == eof /\ Len(old) > Len(lines)
    <2>1. CASE bad \/ (~short /\ m = 0) \/ short \/ (~bad /\ ~short /\ ~(m = 0))
      BY Zenon DEF Section
    <2>2. QED
      BY <2>1
  <1> HIDE DEF idx, more, s
  <1>2. ASSUME cur' = [cur EXCEPT !.idx = idx, !.chunks = @ \o more, !.sections = Append(@, s)]
        PROVE  /\ cur'.path = cur.path /\ cur'.move = cur.move /\ cur'.idx = idx
               /\ cur'.chunks = cur.chunks \o more /\ cur'.sections = Append(cur.sections, s)
               /\ cur' = [path |-> cur'.path, move |-> cur'.move, idx |-> cur'.idx,
                          chunks |-> cur'.chunks, sections |-> cur'.sections]
    BY <1>2 DEF NameInv
  <1>3. QED
    BY <1>1, <1>2 DEF idx, more, s

\* Nothing changes the text of the patch, or what the files were.
LEMMA TextKept == ASSUME [Next]_vars PROVE UNCHANGED <<patch, before>>
  BY Zenon DEF Next, vars, Approve, Load, ParseDelete, ParseAdd, ParseUpdate, Section, EndUpdate,
     ParseEnd, ParseUnknown, PatchToCommit, ApplyDelete, ApplyWrite, ApplyWriteFails,
     RemoveSource, ApplyFails, ApplyDone, Fail, Parsed, Wrote, fileVars

\* The parser never looks beyond the text.
LEMMA ParseStep ==
  ASSUME ParseInv, NameInv, [Next]_vars
  PROVE  ParseInv'
  <1>a. UNCHANGED patch /\ Ends' = Ends /\ patch' \in Seq(PatchLines)
    BY TextKept DEF ParseInv, Ends
  <1>b. Len(patch) \in Nat /\ DOMAIN patch = 1 .. Len(patch) /\ (pc \in {"parse", "update"} =>
           index \in Nat \ {0} /\ Ends # {} /\ \A e \in Ends : index <= e /\ e \in Nat)
    BY DEF ParseInv, Ends
  <1>c. pc \in {"parse", "update"} /\ patch[index].tag # "end" => \A e \in Ends : index + 1 <= e
    BY <1>b DEF Ends
  <1>1. CASE pc' \notin {"approve", "load", "parse", "update"}
    BY <1>a, <1>1 DEF ParseInv
  <1>2. CASE UNCHANGED <<pc, index>>
    BY <1>a, <1>2 DEF ParseInv
  <1>3. CASE Approve
    BY <1>a, <1>3 DEF Approve, Fail, parseVars, ParseInv
  <1>4. CASE Load
    <2>1. CASE pc' = "parse"
      <3>1. Named({"end"}) # {} /\ index' = 1
        BY <1>4, <2>1 DEF Load, Fail, parseVars, ParseInv
      <3>2. Ends # {} /\ \A e \in Ends : 1 <= e
        BY <1>b, <3>1 DEF Named, Ends
      <3>3. QED
        BY <1>a, <2>1, <3>1, <3>2 DEF ParseInv
    <2>2. CASE pc' = "failed"
      BY <1>1, <2>2
    <2>3. QED
      BY <1>4, <2>1, <2>2 DEF Load, Fail
  <1>5. CASE ParseDelete
    <2>1. CASE Fail
      BY <1>1, <2>1 DEF Fail
    <2>2. CASE index' = index + 1 /\ pc' = "parse"
      BY <1>a, <1>b, <1>c, <1>5, <2>2 DEF ParseInv, ParseDelete
    <2>3. QED
      BY <1>5, <2>1, <2>2 DEF ParseDelete, Parsed
  <1>6. CASE ParseAdd
    <2>1. CASE Fail
      BY <1>1, <2>1 DEF Fail
    <2>2. CASE index' = NextWith(index + 1, DoneTags) /\ pc' = "parse"
      <3>1. index + 1 \in Nat \ {0} /\ Ends # {} /\ \A e \in Ends : index + 1 <= e
        BY <1>b, <1>c, <1>6 DEF ParseAdd
      <3>2. NextWith(index + 1, DoneTags) \in Nat \ {0}
            /\ \A e \in Ends : NextWith(index + 1, DoneTags) <= e
        <4>1. "end" \in DoneTags
          BY DEF DoneTags
        <4>2. /\ NextWith(index + 1, DoneTags) \in index + 1 .. Len(patch)
              /\ \A e \in Ends : NextWith(index + 1, DoneTags) <= e
          BY <3>1, <4>1, NextMarker DEF ParseInv
        <4>3. QED
          BY <1>b, <3>1, <4>2
      <3>3. QED
        BY <1>a, <2>2, <3>1, <3>2 DEF ParseInv
    <2>3. QED
      BY <1>6, <2>1, <2>2 DEF ParseAdd, Parsed
  <1>7. CASE ParseUpdate
    <2>1. CASE Fail
      BY <1>1, <2>1 DEF Fail
    <2>2. CASE pc' = "update" /\ \/ index' = index + 1
                                 \/ index' = index + 2 /\ patch[index + 1].tag = "move"
      <3>1. pc = "parse" /\ patch[index].tag = "update"
        BY <1>7 DEF ParseUpdate
      <3>2. index \in Nat \ {0} /\ Ends # {} /\ \A e \in Ends : index + 1 <= e /\ e \in Nat
        BY <1>b, <1>c, <3>1
      <3>3. patch[index + 1].tag = "move" => \A e \in Ends : index + 2 <= e
        BY <3>2 DEF Ends
      <3>4. QED
        BY <1>a, <2>2, <3>2, <3>3 DEF ParseInv
    <2>3. QED
      <3> DEFINE path == patch[index].path
                 move == IF patch[index + 1].tag = "move" THEN patch[index + 1].path ELSE ""
      <3>1. Fail \/ (index' = index + (IF move = "" THEN 1 ELSE 2) /\ pc' = "update")
        BY <1>7 DEF ParseUpdate
      <3>2. QED
        BY <2>1, <2>2, <3>1
  <1>8. CASE Section
    <2> DEFINE first == IF patch[index].tag = "@@" THEN index + 1 ELSE index
               stop  == NextWith(first, StopTags)
    <2>1. CASE index' = (IF patch[stop].tag = "eof" THEN stop + 1 ELSE stop) /\ UNCHANGED pc
      <3>1. pc = "update" /\ patch[index].tag # "end"
        BY <1>8 DEF Section, DoneTags
      <3>2. first \in Nat \ {0} /\ Ends # {} /\ \A e \in Ends : first <= e
        BY <1>b, <1>c, <3>1
      <3> HIDE DEF first
      <3>3. stop \in first .. Len(patch) /\ \A e \in Ends : stop <= e
        <4>1. "end" \in StopTags
          BY DEF StopTags, DoneTags
        <4>2. QED
          BY <3>2, <4>1, NextMarker DEF ParseInv
      <3>4. stop \in Nat \ {0}
        BY <1>b, <3>2, <3>3
      <3> HIDE DEF stop
      <3>5. patch[stop].tag = "eof" => \A e \in Ends : stop + 1 <= e
        BY <1>b, <3>3, <3>4 DEF Ends
      <3>6. index' \in Nat \ {0} /\ \A e \in Ends : index' <= e
        BY <2>1, <3>3, <3>4, <3>5
      <3>7. QED
        BY <1>a, <2>1, <3>1, <3>2, <3>6 DEF ParseInv
    <2>2. CASE pc' \in {"failed", "panicked"}
      BY <1>1, <2>2
    <2>3. QED
      BY <1>8, <2>1, <2>2, SectionEffect DEF Fail
  <1>9. CASE EndUpdate
    BY <1>a, <1>9 DEF EndUpdate, Parsed, ParseInv
  <1>10. CASE ParseEnd \/ ParseUnknown \/ PatchToCommit \/ RemoveSource \/ ApplyFails \/ ApplyDone
    BY <1>1, <1>10 DEF ParseEnd, ParseUnknown, PatchToCommit, RemoveSource, ApplyFails,
       ApplyDone, Fail, Wrote
  <1>11. CASE \E p \in todo : ApplyDelete(p) \/ ApplyWrite(p) \/ ApplyWriteFails(p)
    BY <1>1, <1>11 DEF ApplyDelete, ApplyWrite, ApplyWriteFails, Fail, Wrote
  <1>12. CASE UNCHANGED vars
    BY <1>2, <1>12 DEF vars, parseVars
  <1>13. QED
    BY <1>3, <1>4, <1>5, <1>6, <1>7, <1>8, <1>9, <1>10, <1>11, <1>12 DEF Next

-----------------------------------------------------------------------------
(* The names.                                                              *)

\* An action the parser adds is about a file that the text names.
LEMMA ActionAdded ==
  ASSUME NameInv, UNCHANGED <<patch, commit>>, pc' # "update",
         NEW p, Origin(p), NEW a, a.type \in {"add", "delete", "update"},
         a.type = "update" => Destination(a.move), actions' = Put(actions, p, a),
         cur' = cur \/ cur' = NoCur
  PROVE  NameInv'
  <1>1. /\ DOMAIN actions' = DOMAIN actions \cup {p} /\ actions'[p] = a
        /\ \A q \in DOMAIN actions \ {p} : actions'[q] = actions[q]
    BY DEF Put
  <1>2. \A q, m : Origin(q)' = Origin(q) /\ Destination(m)' = Destination(m)
    BY DEF Origin, Destination, Named
  <1>3. Named({"move"})' = Named({"move"})
    BY DEF Named
  <1>4. ASSUME NEW q \in DOMAIN actions'
        PROVE  /\ Origin(q) /\ actions'[q].type \in {"add", "delete", "update"}
               /\ actions'[q].type = "update" => Destination(actions'[q].move)
    <2>1. CASE q = p
      BY <1>1, <2>1
    <2>2. CASE q # p
      <3>1. q \in DOMAIN actions /\ actions'[q] = actions[q]
        BY <1>1, <2>2
      <3>2. QED
        BY <3>1 DEF NameInv
    <2>3. QED
      BY <2>1, <2>2
  <1>5. cur' = [path |-> cur'.path, move |-> cur'.move, idx |-> cur'.idx,
                chunks |-> cur'.chunks, sections |-> cur'.sections]
    BY DEF NameInv, NoCur
  <1>6. QED
    BY <1>2, <1>3, <1>4, <1>5 DEF NameInv

\* The change computed from an action is about the same file.
LEMMA ChangeNames ==
  ASSUME NameInv, NEW p \in DOMAIN actions
  PROVE  LET c == Change(p)
         IN  /\ Origin(p) /\ c.type \in {"add", "delete", "update"}
             /\ IF c.moves THEN c.type = "update" /\ c.target \in Named({"move"})
                ELSE c.target = p
             /\ c.type = "delete" => c.new = Missing
  <1>1. /\ Origin(p) /\ actions[p].type \in {"add", "delete", "update"}
        /\ actions[p].type = "update" => Destination(actions[p].move)
    BY DEF NameInv
  <1> DEFINE a == actions[p]
             u == GetUpdatedFile(orig[p], a.chunks)
  <1> HIDE DEF u
  <1>2. CASE a.type = "delete"
    <2>1. Change(p) = [ok |-> TRUE, type |-> "delete", new |-> Missing, moves |-> FALSE, target |-> p]
      BY <1>2 DEF Change
    <2>2. QED
      BY <1>1, <2>1
  <1>3. CASE a.type = "add"
    <2>1. Change(p) = [ok |-> a.new # Empty, type |-> "add", new |-> a.new,
                       moves |-> FALSE, target |-> p]
      BY <1>3 DEF Change
    <2>2. QED
      BY <1>1, <2>1
  <1>4. CASE a.type = "update"
    <2>1. Change(p) = [ok |-> u.ok, type |-> "update", new |-> Contents(u.new),
                       moves |-> a.move # "", target |-> IF a.move = "" THEN p ELSE a.move]
      BY <1>4 DEF Change, u
    <2> DEFINE n == Contents(u.new)
    <2> HIDE DEF n
    <2>2. CASE a.move = ""
      <3>1. Change(p) = [ok |-> u.ok, type |-> "update", new |-> n, moves |-> FALSE, target |-> p]
        <4>1. (a.move # "") = FALSE
          BY <2>2
        <4>2. QED
          BY <2>1, <2>2, <4>1 DEF n
      <3>2. QED
        BY <1>1, <3>1
    <2>3. CASE a.move # ""
      <3>1. Change(p) = [ok |-> u.ok, type |-> "update", new |-> n, moves |-> TRUE, target |-> a.move]
        <4>1. (a.move # "") = TRUE
          BY <2>3
        <4>2. QED
          BY <2>1, <2>3, <4>1 DEF n
      <3>2. QED
        <4>1. a.move \in Named({"move"})
          BY <1>1, <1>4, <2>3 DEF Destination
        <4>2. /\ Change(p).type = "update" /\ Change(p).moves
              /\ Change(p).target = a.move
          BY <3>1
        <4>3. QED
          BY <1>1, <4>1, <4>2
    <2>4. QED
      BY <2>2, <2>3
  <1>5. QED
    BY <1>1, <1>2, <1>3, <1>4

\* Every change is of a file that the text names.
LEMMA NameStep ==
  ASSUME ParseInv, NameInv, [Next]_vars
  PROVE  NameInv'
  <1>a. UNCHANGED patch
    BY TextKept
  <1>b. /\ \A q, m : Origin(q)' = Origin(q) /\ Destination(m)' = Destination(m)
        /\ Named({"move"})' = Named({"move"})
    BY <1>a DEF Origin, Destination, Named
  <1>c. pc \in {"parse", "update"} => index \in DOMAIN patch
    BY DEF ParseInv, Ends
  <1>d. pc = "parse" /\ patch[index].tag \in FileTags => Origin(patch[index].path)
    BY <1>c DEF Origin, Named
  <1>1. CASE UNCHANGED <<actions, cur, commit>> /\ (pc' = "update" => pc = "update")
    BY <1>b, <1>1 DEF NameInv
  <1>2. CASE ParseDelete
    <2>1. CASE Fail
      BY <1>1, <2>1 DEF Fail, parseVars, applyVars
    <2>2. CASE Parsed(patch[index].path, [type |-> "delete"], index + 1) /\ UNCHANGED cur
      <3>1. Origin(patch[index].path)
        BY <1>2, <1>d DEF ParseDelete, FileTags
      <3>2. /\ actions' = Put(actions, patch[index].path, [type |-> "delete"])
            /\ pc' = "parse" /\ UNCHANGED <<patch, commit, cur>>
        BY <2>2 DEF Parsed, applyVars
      <3>3. QED
        BY <3>1, <3>2, ActionAdded
    <2>3. QED
      BY <1>2, <2>1, <2>2 DEF ParseDelete
  <1>3. CASE ParseAdd
    <2> DEFINE end == NextWith(index + 1, DoneTags)
               new == Contents(LinesOf(SubSeq(patch, index + 1, end - 1)))
    <2>1. CASE Fail
      BY <1>1, <2>1 DEF Fail, parseVars, applyVars
    <2>2. CASE Parsed(patch[index].path, [type |-> "add", new |-> new], end) /\ UNCHANGED cur
      <3>1. Origin(patch[index].path)
        BY <1>3, <1>d DEF ParseAdd, FileTags
      <3> HIDE DEF new
      <3>2. /\ actions' = Put(actions, patch[index].path, [type |-> "add", new |-> new])
            /\ pc' = "parse" /\ UNCHANGED <<patch, commit, cur>>
        BY <2>2 DEF Parsed, applyVars
      <3>3. QED
        BY <3>1, <3>2, ActionAdded
    <2>3. QED
      BY <1>3, <2>1, <2>2 DEF ParseAdd
  <1>4. CASE ParseUpdate
    <2> DEFINE path == patch[index].path
               move == IF patch[index + 1].tag = "move" THEN patch[index + 1].path ELSE ""
    <2>1. CASE Fail
      BY <1>1, <2>1 DEF Fail, parseVars, applyVars
    <2>2. CASE /\ cur' = [NoCur EXCEPT !.path = path, !.move = move]
               /\ UNCHANGED <<actions, commit>>
      <3>1. Origin(path)
        BY <1>4, <1>d DEF ParseUpdate, FileTags
      <3>2. index + 1 \in DOMAIN patch
        <4>1. PICK e \in Ends : index <= e
          BY <1>4 DEF ParseUpdate, ParseInv
        <4>2. /\ index \in Nat \ {0} /\ e \in 1 .. Len(patch) /\ e # index
              /\ DOMAIN patch = 1 .. Len(patch) /\ Len(patch) \in Nat
          <5>1. index \in Nat \ {0} /\ patch \in Seq(PatchLines) /\ patch[index].tag = "update"
            BY <1>4 DEF ParseUpdate, ParseInv
          <5>2. e \in DOMAIN patch /\ patch[e].tag = "end"
            BY DEF Ends
          <5>3. QED
            BY <5>1, <5>2
        <4>3. QED
          BY <4>1, <4>2
      <3>3. Destination(move)
        BY <3>2 DEF Destination, Named
      <3>4. /\ cur'.path = path /\ cur'.move = move
            /\ cur' = [path |-> cur'.path, move |-> cur'.move, idx |-> cur'.idx,
                       chunks |-> cur'.chunks, sections |-> cur'.sections]
        BY <2>2 DEF NoCur
      <3> HIDE DEF path, move
      <3>5. QED
        BY <1>b, <2>2, <3>1, <3>3, <3>4 DEF NameInv
    <2>3. QED
      BY <1>4, <2>1, <2>2 DEF ParseUpdate, applyVars
  <1>5. CASE Section
    <2>1. CASE Fail
      BY <1>1, <2>1 DEF Fail, parseVars, applyVars
    <2>2. CASE pc' = "panicked" /\ UNCHANGED <<parseVars, applyVars>>
      BY <1>1, <2>2 DEF parseVars, applyVars
    <2>3. CASE /\ cur'.path = cur.path /\ cur'.move = cur.move
               /\ cur' = [path |-> cur'.path, move |-> cur'.move, idx |-> cur'.idx,
                          chunks |-> cur'.chunks, sections |-> cur'.sections]
               /\ UNCHANGED <<pc, actions, commit>>
      BY <1>b, <2>3 DEF NameInv
    <2>4. QED
      BY <1>5, <2>1, <2>2, <2>3, SectionEffect DEF applyVars
  <1>6. CASE EndUpdate
    <2> DEFINE a == [type |-> "update", move |-> cur.move, chunks |-> cur.chunks,
                     sections |-> cur.sections]
    <2>1. Origin(cur.path) /\ Destination(cur.move)
      BY <1>6 DEF EndUpdate, NameInv
    <2>2. /\ actions' = Put(actions, cur.path, a)
          /\ pc' = "parse" /\ UNCHANGED <<patch, commit>> /\ cur' = NoCur
      BY <1>6 DEF EndUpdate, Parsed, applyVars
    <2>3. a.type = "update" /\ a.move = cur.move
      OBVIOUS
    <2> HIDE DEF a
    <2>4. QED
      BY <2>1, <2>2, <2>3, ActionAdded
  <1>7. CASE PatchToCommit
    <2>1. CASE Fail
      BY <1>1, <2>1 DEF Fail, parseVars, applyVars
    <2>2. CASE commit' = [p \in DOMAIN actions |-> Change(p)] /\ pc' = "apply"
               /\ UNCHANGED parseVars
      <3>1. DOMAIN commit' = DOMAIN actions /\ \A p \in DOMAIN actions : commit'[p] = Change(p)
        BY <2>2
      <3>2. ASSUME NEW p \in DOMAIN commit'
            PROVE  /\ Origin(p) /\ commit'[p].type \in {"add", "delete", "update"}
                   /\ IF commit'[p].moves
                      THEN commit'[p].type = "update" /\ commit'[p].target \in Named({"move"})
                      ELSE commit'[p].target = p
                   /\ commit'[p].type = "delete" => commit'[p].new = Missing
        BY <3>1, ChangeNames
      <3>3. QED
        BY <1>b, <2>2, <3>2 DEF NameInv, parseVars
    <2>3. QED
      BY <1>7, <2>1, <2>2 DEF PatchToCommit
  <1>8. CASE Approve \/ Load \/ ParseEnd \/ ParseUnknown
    BY <1>1, <1>8 DEF Approve, Load, ParseEnd, ParseUnknown, Fail, parseVars, applyVars
  <1>9. CASE \/ \E p \in todo : ApplyDelete(p) \/ ApplyWrite(p) \/ ApplyWriteFails(p)
             \/ RemoveSource \/ ApplyFails \/ ApplyDone
    <2>1. UNCHANGED <<parseVars, commit>> /\ pc' # "update"
      BY <1>9 DEF ApplyDelete, ApplyWrite, ApplyWriteFails, RemoveSource, ApplyFails,
         ApplyDone, Fail, Wrote, parseVars, applyVars
    <2>2. QED
      BY <1>1, <2>1 DEF parseVars
  <1>10. CASE UNCHANGED vars
    BY <1>1, <1>10 DEF vars, parseVars, applyVars
  <1>11. QED
    BY <1>2, <1>3, <1>4, <1>5, <1>6, <1>7, <1>8, <1>9, <1>10 DEF Next
-----------------------------------------------------------------------------
(* The files.                                                              *)

\* Until the commit is applied, nothing but the parser's own state changes.
Reading == Approve \/ Load \/ ParseDelete \/ ParseAdd \/ ParseUpdate \/ Section
              \/ EndUpdate \/ ParseEnd \/ ParseUnknown

\* The steps before the commit write no file.
LEMMA ReadingFrame ==
  ASSUME NameInv, Reading
  PROVE  /\ UNCHANGED <<files, before, patch, commit, todo, moving>>
         /\ pc \in {"approve", "load", "parse", "update"}
         /\ pc' \in {"load", "parse", "update", "commit", "failed", "panicked"}
         /\ \/ approved' = approved /\ pc # "approve"
            \/ pc' = "failed"
            \/ approved' = CollectPatchPaths /\ CollectPatchPaths \cap Outside = {}
  <1>1. CASE Approve
    BY <1>1 DEF Approve, Fail, fileVars, applyVars
  <1>2. CASE Load
    BY <1>2 DEF Load, Fail, fileVars, applyVars
  <1>3. CASE ParseDelete
    BY <1>3 DEF ParseDelete, Parsed, Fail, fileVars, applyVars
  <1>4. CASE ParseAdd
    BY <1>4 DEF ParseAdd, Parsed, Fail, fileVars, applyVars
  <1>5. CASE ParseUpdate
    BY <1>5 DEF ParseUpdate, Fail, fileVars, applyVars
  <1>6. CASE Section
    <2>1. pc = "update"
      BY <1>6 DEF Section
    <2>2. QED
      BY <1>6, <2>1, SectionEffect DEF Fail, fileVars, applyVars
  <1>7. CASE EndUpdate
    BY <1>7 DEF EndUpdate, Parsed, fileVars, applyVars
  <1>8. CASE ParseEnd \/ ParseUnknown
    BY <1>8 DEF ParseEnd, ParseUnknown, Fail, fileVars, applyVars
  <1>9. QED
    BY <1>1, <1>2, <1>3, <1>4, <1>5, <1>6, <1>7, <1>8 DEF Reading

\* What a step of applyCommit that changes a file does to it.
Writes(q, text) ==
    /\ files' = [files EXCEPT ![q] = text]
    /\ UNCHANGED <<before, patch, approved, commit>>

\* The steps of applyCommit: a failure, a removal, a write in place, a write to the
\* target of a move, a write that fails half way, the removal of what moved, the end.
LEMMA ApplyEffect ==
  ASSUME NameInv, CallInv,
         \/ \E p \in todo : ApplyDelete(p) \/ ApplyWrite(p) \/ ApplyWriteFails(p)
         \/ RemoveSource \/ ApplyFails \/ ApplyDone
  PROVE  \/ /\ pc \in {"apply", "remove"} /\ pc' = "failed"
            /\ UNCHANGED <<files, before, patch, approved, commit, todo, moving>>
         \/ /\ pc = "apply" /\ pc' = "done" /\ todo = {}
            /\ UNCHANGED <<files, before, patch, approved, commit, todo, moving>>
         \/ \E p \in todo :
               /\ pc = "apply" /\ pc' = "apply" /\ todo' = todo \ {p}
               /\ ~commit[p].moves /\ commit[p].target = p /\ Writes(p, commit[p].new)
         \/ \E p \in todo :
               /\ pc = "apply" /\ pc' = "remove" /\ todo' = todo /\ moving' = p
               /\ commit[p].moves /\ Writes(commit[p].target, commit[p].new)
         \/ \E p \in todo :
               /\ pc = "apply" /\ pc' = "failed" /\ todo' = todo
               /\ Writes(commit[p].target, Empty)
         \/ /\ pc = "remove" /\ pc' = "apply" /\ todo' = todo \ {moving}
            /\ moving \in todo /\ Writes(moving, Missing)
  <1> USE DEF fileVars, applyVars, Writes
  <1>1. CASE ApplyFails
    BY <1>1 DEF ApplyFails, Fail
  <1>2. CASE ApplyDone
    BY <1>2 DEF ApplyDone
  <1>3. CASE RemoveSource
    BY <1>3 DEF RemoveSource, Fail, Wrote, CallInv
  <1>4. ASSUME NEW p \in todo, ApplyDelete(p)
        PROVE  \/ /\ pc = "apply" /\ pc' = "failed"
                  /\ UNCHANGED <<files, before, patch, approved, commit, todo, moving>>
               \/ /\ pc = "apply" /\ pc' = "apply" /\ todo' = todo \ {p}
                  /\ ~commit[p].moves /\ commit[p].target = p /\ Writes(p, commit[p].new)
    <2>1. p \in DOMAIN commit /\ commit[p].type = "delete"
      BY <1>4 DEF ApplyDelete, CallInv
    <2>2. ~commit[p].moves /\ commit[p].target = p /\ commit[p].new = Missing
      BY <2>1 DEF NameInv
    <2>3. QED
      BY <1>4, <2>2 DEF ApplyDelete, Applying, Fail, Wrote
  <1>5. ASSUME NEW p \in todo, ApplyWrite(p)
        PROVE  \/ /\ pc = "apply" /\ pc' = "failed"
                  /\ UNCHANGED <<files, before, patch, approved, commit, todo, moving>>
               \/ /\ pc = "apply" /\ pc' = "apply" /\ todo' = todo \ {p}
                  /\ ~commit[p].moves /\ commit[p].target = p /\ Writes(p, commit[p].new)
               \/ /\ pc = "apply" /\ pc' = "remove" /\ todo' = todo /\ moving' = p
                  /\ commit[p].moves /\ Writes(commit[p].target, commit[p].new)
    <2>1. p \in DOMAIN commit
      BY DEF CallInv
    <2>2. ~commit[p].moves => commit[p].target = p
      BY <2>1 DEF NameInv
    <2>3. QED
      BY <1>5, <2>2 DEF ApplyWrite, Applying, Fail, Wrote
  <1>6. ASSUME NEW p \in todo, ApplyWriteFails(p)
        PROVE  /\ pc = "apply" /\ pc' = "failed" /\ todo' = todo
               /\ Writes(commit[p].target, Empty)
    BY <1>6 DEF ApplyWriteFails, Applying, Wrote
  <1>7. QED
    BY <1>1, <1>2, <1>3, <1>4, <1>5, <1>6

\* Every file a change of the commit touches was approved.
LEMMA TargetApproved ==
  ASSUME NameInv, CallInv, NEW p \in DOMAIN commit
  PROVE  {p, commit[p].target} \subseteq CollectPatchPaths
  BY DEF NameInv, Origin, Named, CollectPatchPaths

\* Nothing is written before the patch is understood and approved, and nothing else
\* afterwards.
LEMMA CallStep ==
  ASSUME NameInv, CallInv, [Next]_vars
  PROVE  CallInv'
  <1>a. UNCHANGED <<patch, before>> /\ CollectPatchPaths' = CollectPatchPaths
    BY TextKept DEF CollectPatchPaths, Named
  <1>1. CASE UNCHANGED vars
    BY <1>a, <1>1 DEF vars, fileVars, applyVars, CallInv
  <1>2. CASE Reading
    BY <1>a, <1>2, ReadingFrame DEF CallInv
  <1>3. CASE PatchToCommit
    <2>1. CASE Fail
      BY <1>a, <1>3, <2>1 DEF PatchToCommit, Fail, fileVars, applyVars, CallInv
    <2>2. CASE /\ commit' = [p \in DOMAIN actions |-> Change(p)] /\ todo' = DOMAIN actions
               /\ pc' = "apply" /\ UNCHANGED <<fileVars, approved>>
      <3>1. DOMAIN commit' = DOMAIN actions
        BY <2>2
      <3>2. QED
        BY <1>a, <1>3, <2>2, <3>1 DEF PatchToCommit, fileVars, CallInv
    <2>3. QED
      BY <1>3, <2>1, <2>2 DEF PatchToCommit
  <1>4. CASE \/ \E p \in todo : ApplyDelete(p) \/ ApplyWrite(p) \/ ApplyWriteFails(p)
             \/ RemoveSource \/ ApplyFails \/ ApplyDone
    <2>1. ASSUME NEW q, NEW text, Writes(q, text)
          PROVE  files' = [r \in DOMAIN before' |-> files'[r]]
      BY <1>a, <2>1 DEF Writes, CallInv
    <2>2. files' = [r \in DOMAIN before' |-> files'[r]]
      BY <1>a, <1>4, <2>1, ApplyEffect DEF CallInv
    <2>3. /\ approved' = approved /\ commit' = commit /\ pc \in {"apply", "remove"}
          /\ pc' \in {"apply", "remove", "failed", "done"} /\ todo' \subseteq todo
          /\ pc' = "remove" => moving' \in todo' /\ commit[moving'].moves
      BY <1>4, ApplyEffect DEF Writes
    <2>4. QED
      BY <1>a, <2>2, <2>3 DEF CallInv
  <1>5. QED
    BY <1>1, <1>2, <1>3, <1>4 DEF Next, Reading

\* No step of applyCommit undoes what another one did.
LEMMA ApplyStep ==
  ASSUME NameInv, CallInv, ApplyInv, [Next]_vars
  PROVE  ApplyInv'
  <1>a. UNCHANGED <<patch, before>>
    BY TextKept
  <1>b. UNCHANGED commit => Tidy' = Tidy /\ Targets' = Targets /\ Concerned' = Concerned
    BY DEF Tidy, Targets, Concerned
  <1>c. DOMAIN files = DOMAIN before /\ Concerned \subseteq DOMAIN files
    <2>1. DOMAIN files = DOMAIN before
      BY DEF CallInv
    <2>2. \A p \in DOMAIN commit : {p, commit[p].target} \subseteq DOMAIN files
      BY <2>1, TargetApproved DEF CallInv
    <2>3. QED
      BY <2>1, <2>2 DEF Concerned
  <1>d. todo \subseteq DOMAIN commit
    BY DEF CallInv
  <1>e. Tidy => \A p, q \in DOMAIN commit : commit[p].moves =>
            commit[p].target # q /\ (p # q => commit[p].target # commit[q].target)
    <2> SUFFICES ASSUME Tidy, NEW p \in DOMAIN commit, NEW q \in DOMAIN commit, commit[p].moves
                 PROVE  commit[p].target # q /\ (p # q => commit[p].target # commit[q].target)
      OBVIOUS
    <2>1. commit[p].target \notin DOMAIN commit
      BY DEF Tidy, Targets
    <2>2. CASE commit[q].moves
      BY <2>1, <2>2 DEF Tidy, Targets
    <2>3. CASE ~commit[q].moves
      BY <2>1, <2>3 DEF NameInv
    <2>4. QED
      BY <2>1, <2>2, <2>3
  <1>1. CASE UNCHANGED <<files, commit, todo, moving>> /\
             (pc' = pc \/ (pc \in {"apply", "remove"} /\ pc' = "failed")
                       \/ (pc = "apply" /\ pc' = "done" /\ todo = {}))
    BY <1>a, <1>b, <1>1 DEF ApplyInv, MoveKeepsText, Applied
  <1>2. CASE Reading
    <2>1. UNCHANGED <<files, commit, todo, moving>> /\ pc' \notin {"apply", "remove", "done"}
      BY <1>2, ReadingFrame
    <2>2. QED
      BY <1>a, <1>b, <2>1 DEF ApplyInv, MoveKeepsText, Applied
  <1>3. CASE PatchToCommit
    <2>1. CASE Fail
      <3>1. UNCHANGED <<files, commit, todo, moving>> /\ pc' = "failed"
        BY <2>1 DEF Fail, fileVars, applyVars
      <3>2. QED
        BY <1>a, <1>b, <3>1 DEF ApplyInv, MoveKeepsText, Applied
    <2>2. CASE /\ commit' = [p \in DOMAIN actions |-> Change(p)] /\ todo' = DOMAIN actions
               /\ pc' = "apply" /\ UNCHANGED fileVars
      <3>1. files' = before' /\ DOMAIN commit' = todo' /\ pc' = "apply"
        BY <1>3, <2>2 DEF PatchToCommit, CallInv, fileVars
      <3>2. QED
        BY <3>1 DEF ApplyInv, MoveKeepsText, Targets
    <2>3. QED
      BY <1>3, <2>1, <2>2 DEF PatchToCommit
  <1>4. ASSUME NEW p \in todo, pc = "apply", pc' = "apply", todo' = todo \ {p},
               ~commit[p].moves, commit[p].target = p, Writes(p, commit[p].new)
        PROVE  ApplyInv'
    <2>1. /\ UNCHANGED commit /\ p \in DOMAIN commit /\ p \in Concerned
          /\ \A q \in DOMAIN files : files'[q] = IF q = p THEN commit[p].new ELSE files[q]
          /\ DOMAIN files' = DOMAIN files
      BY <1>4, <1>d DEF Writes, Concerned
    <2>2. ASSUME Tidy
          PROVE  /\ \A q \in todo' : files'[q] = before[q]
                 /\ \A q \in DOMAIN commit \ todo' : Applied(q)'
                 /\ \A q \in DOMAIN files \ Concerned : files'[q] = before[q]
      <3>1. /\ \A q \in todo : files[q] = before[q]
            /\ \A q \in DOMAIN commit \ todo : Applied(q)
            /\ \A q \in DOMAIN files \ Concerned : files[q] = before[q]
        BY <1>4, <2>2 DEF ApplyInv
      <3>2. \A q \in todo' : files'[q] = before[q]
        BY <1>4, <1>c, <1>d, <2>1, <3>1 DEF Concerned
      <3>3. ASSUME NEW q \in DOMAIN commit \ todo' PROVE Applied(q)'
        <4>1. CASE q = p
          BY <1>4, <1>c, <2>1, <4>1 DEF Applied
        <4>2. CASE q # p
          <5>1. Applied(q) /\ {q, commit[q].target} \subseteq DOMAIN files
            BY <1>4, <1>c, <3>1, <4>2 DEF Concerned
          <5>2. commit[q].target # p
            BY <1>e, <2>1, <2>2, <4>2 DEF NameInv
          <5>3. QED
            BY <2>1, <4>2, <5>1, <5>2 DEF Applied
        <4>3. QED
          BY <4>1, <4>2
      <3>4. \A q \in DOMAIN files \ Concerned : files'[q] = before[q]
        BY <2>1, <3>1
      <3>5. QED
        BY <3>2, <3>3, <3>4
    <2>3. MoveKeepsText'
      <3>1. ASSUME Tidy, NEW q \in Targets
            PROVE  files'[q] = before[q] \/ files'[commit[q].target] = commit[q].new
        <4>1. /\ q \in DOMAIN commit /\ commit[q].moves /\ q # p /\ commit[q].target # p
              /\ {q, commit[q].target} \subseteq DOMAIN files
          BY <1>4, <1>c, <1>e, <2>1, <3>1 DEF Targets, Concerned
        <4>2. files[q] = before[q] \/ files[commit[q].target] = commit[q].new
          BY <3>1 DEF ApplyInv, MoveKeepsText
        <4>3. QED
          BY <2>1, <4>1, <4>2
      <3>2. QED
        BY <1>a, <1>b, <2>1, <3>1 DEF MoveKeepsText
    <2>4. QED
      BY <1>4, <1>a, <1>b, <2>1, <2>2, <2>3 DEF ApplyInv
  <1>5. ASSUME NEW p \in todo, pc = "apply", pc' = "remove", todo' = todo, moving' = p,
               commit[p].moves, Writes(commit[p].target, commit[p].new)
        PROVE  ApplyInv'
    <2> DEFINE t == commit[p].target
    <2>1. /\ UNCHANGED commit /\ p \in DOMAIN commit /\ t \in Concerned
          /\ \A q \in DOMAIN files : files'[q] = IF q = t THEN commit[p].new ELSE files[q]
          /\ DOMAIN files' = DOMAIN files
      BY <1>5, <1>d DEF Writes, Concerned
    <2>2. Tidy => /\ \A q \in DOMAIN commit : q # t
                  /\ \A q \in DOMAIN commit \ {p} : commit[q].target # t
      BY <1>5, <1>e, <2>1
    <2> HIDE DEF t
    <2>3. Tidy => /\ \A q \in todo : files'[q] = before[q]
                  /\ \A q \in DOMAIN files \ Concerned : files'[q] = before[q]
      BY <1>5, <1>c, <1>d, <2>1, <2>2 DEF ApplyInv, Concerned
    <2>4. ASSUME Tidy, NEW q \in DOMAIN commit \ todo PROVE Applied(q)'
      <3>1. Applied(q) /\ q # p /\ {q, commit[q].target} \subseteq DOMAIN files
        BY <1>5, <1>c, <2>4 DEF ApplyInv, Concerned
      <3>2. QED
        BY <2>1, <2>2, <2>4, <3>1 DEF Applied
    <2>5. files'[t] = commit[p].new
      BY <1>c, <2>1
    <2>6. MoveKeepsText'
      <3>1. ASSUME Tidy, NEW q \in Targets
            PROVE  files'[q] = before[q] \/ files'[commit[q].target] = commit[q].new
        <4>1. /\ q \in DOMAIN commit /\ {q, commit[q].target} \subseteq DOMAIN files
          BY <1>c DEF Targets, Concerned
        <4>2. files[q] = before[q] \/ files[commit[q].target] = commit[q].new
          BY <3>1 DEF ApplyInv, MoveKeepsText
        <4>3. CASE q = p
          BY <2>5, <4>3 DEF t
        <4>4. CASE q # p
          BY <2>1, <2>2, <3>1, <4>1, <4>2, <4>4
        <4>5. QED
          BY <4>3, <4>4
      <3>2. QED
        BY <1>a, <1>b, <2>1, <3>1 DEF MoveKeepsText
    <2>7. commit'[moving'].target = t /\ commit'[moving'].new = commit[p].new
      BY <1>5, <2>1 DEF t
    <2>8. QED
      BY <1>5, <1>a, <1>b, <2>1, <2>3, <2>4, <2>5, <2>6, <2>7 DEF ApplyInv
  <1>6. ASSUME NEW p \in todo, pc = "apply", pc' = "failed", todo' = todo,
               Writes(commit[p].target, Empty)
        PROVE  ApplyInv'
    <2> DEFINE t == commit[p].target
    <2>1. /\ UNCHANGED commit /\ p \in DOMAIN commit
          /\ \A q \in DOMAIN files : files'[q] = IF q = t THEN Empty ELSE files[q]
      BY <1>6, <1>d DEF Writes
    <2>2. ASSUME Tidy, NEW q \in Targets
          PROVE  files'[q] = before[q] \/ files'[commit[q].target] = commit[q].new
      <3>1. /\ q \in DOMAIN commit /\ commit[q].moves
            /\ {q, commit[q].target} \subseteq DOMAIN files
        BY <1>c DEF Targets, Concerned
      <3>2. files[q] = before[q] \/ files[commit[q].target] = commit[q].new
        BY <2>2 DEF ApplyInv, MoveKeepsText
      <3>3. CASE q = p
        <4>1. files[q] = before[q] /\ q # t
          BY <1>6, <1>e, <2>2, <3>1, <3>3 DEF ApplyInv
        <4>2. QED
          BY <2>1, <3>1, <4>1
      <3>4. CASE q # p
        <4>1. commit[q].target # t
          BY <1>e, <2>1, <2>2, <3>1, <3>4
        <4>2. q # t
          <5>1. CASE commit[p].moves
            BY <1>e, <2>1, <2>2, <3>1, <5>1
          <5>2. CASE ~commit[p].moves
            BY <2>1, <3>4, <5>2 DEF NameInv
          <5>3. QED
            BY <5>1, <5>2
        <4>3. QED
          BY <2>1, <3>1, <3>2, <4>1, <4>2
      <3>5. QED
        BY <3>3, <3>4
    <2>3. QED
      BY <1>6, <1>a, <1>b, <2>1, <2>2 DEF ApplyInv, MoveKeepsText
  <1>7. ASSUME pc = "remove", pc' = "apply", todo' = todo \ {moving}, moving \in todo,
               Writes(moving, Missing)
        PROVE  ApplyInv'
    <2>1. /\ UNCHANGED commit /\ moving \in DOMAIN commit /\ commit[moving].moves
          /\ moving \in Concerned /\ DOMAIN files' = DOMAIN files
          /\ \A q \in DOMAIN files : files'[q] = IF q = moving THEN Missing ELSE files[q]
      BY <1>7, <1>d DEF Writes, Concerned, CallInv
    <2>2. ASSUME Tidy
          PROVE  /\ \A q \in todo : files[q] = before[q]
                 /\ \A q \in DOMAIN commit \ todo : Applied(q)
                 /\ \A q \in DOMAIN files \ Concerned : files[q] = before[q]
                 /\ files[commit[moving].target] = commit[moving].new
      BY <1>7, <2>2 DEF ApplyInv
    <2>3. ASSUME Tidy, NEW q \in DOMAIN commit
          PROVE  {q, commit[q].target} \subseteq DOMAIN files /\ (commit[q].target # moving \/ q = moving)
      <3>1. {q, commit[q].target} \subseteq DOMAIN files
        BY <1>c DEF Concerned
      <3>2. CASE commit[q].moves
        BY <1>e, <2>1, <2>3, <3>1, <3>2
      <3>3. CASE ~commit[q].moves
        BY <3>1, <3>3 DEF NameInv
      <3>4. QED
        BY <3>2, <3>3
    <2>4. ASSUME Tidy, NEW q \in DOMAIN commit \ todo' PROVE Applied(q)'
      <3>1. CASE q = moving
        <4>1. commit[moving].target # moving
          BY <1>e, <2>1, <2>4
        <4>2. QED
          BY <2>1, <2>2, <2>3, <2>4, <3>1, <4>1 DEF Applied
      <3>2. CASE q # moving
        <4>1. Applied(q) /\ commit[q].target # moving
              /\ {q, commit[q].target} \subseteq DOMAIN files
          BY <1>7, <2>2, <2>3, <2>4, <3>2
        <4>2. QED
          BY <2>1, <3>2, <4>1 DEF Applied
      <3>3. QED
        BY <3>1, <3>2
    <2>5. ASSUME Tidy PROVE \A q \in todo' : files'[q] = before[q]
      BY <1>7, <1>d, <2>1, <2>2, <2>3, <2>5
    <2>6. ASSUME Tidy, NEW q \in Targets
          PROVE  files'[q] = before[q] \/ files'[commit[q].target] = commit[q].new
      <3>1. q \in DOMAIN commit /\ commit[q].moves
        BY DEF Targets
      <3>2. CASE q = moving
        <4>1. commit[moving].target # moving
          BY <1>e, <2>1, <2>6
        <4>2. QED
          BY <2>1, <2>2, <2>3, <2>6, <3>1, <3>2, <4>1
      <3>3. CASE q # moving
        <4>1. files[q] = before[q] \/ files[commit[q].target] = commit[q].new
          BY <2>6 DEF ApplyInv, MoveKeepsText
        <4>2. QED
          BY <2>1, <2>3, <2>6, <3>1, <3>3, <4>1
      <3>4. QED
        BY <3>2, <3>3
    <2>7. ASSUME Tidy PROVE \A q \in DOMAIN files \ Concerned : files'[q] = before[q]
      BY <2>1, <2>2, <2>7
    <2>8. MoveKeepsText'
      BY <1>a, <1>b, <2>1, <2>6 DEF MoveKeepsText
    <2>9. QED
      BY <1>7, <1>a, <1>b, <2>1, <2>4, <2>5, <2>7, <2>8 DEF ApplyInv
  <1>8. CASE \/ \E p \in todo : ApplyDelete(p) \/ ApplyWrite(p) \/ ApplyWriteFails(p)
             \/ RemoveSource \/ ApplyFails \/ ApplyDone
    BY <1>1, <1>4, <1>5, <1>6, <1>7, <1>8, ApplyEffect
  <1>9. CASE UNCHANGED vars
    BY <1>1, <1>9 DEF vars, fileVars, applyVars
  <1>10. QED
    BY <1>2, <1>3, <1>8, <1>9 DEF Next, Reading
-----------------------------------------------------------------------------
(* Iteration.  Recursive functions over bounded intervals are determined   *)
(* by their rounds.                                                        *)

\* Bounded induction: a set that has 0 and with every number the next one has all.
LEMMA UpTo ==
  ASSUME NEW N \in Nat, NEW S, 0 \in S, \A n \in 0 .. N - 1 : n \in S => n + 1 \in S
  PROVE  0 .. N \subseteq S
  <1> DEFINE R == {ss \in Nat \X Nat : ss[1] < ss[2]}
             B == {n \in 0 .. N : n \notin S}
  <1>1. SUFFICES ASSUME B # {} PROVE FALSE
    OBVIOUS
  <1>2. IsWellFoundedOn(R, Nat)
    BY NatLessThanWellFounded DEF OpToRel
  <1>2a. B \subseteq Nat
    OBVIOUS
  <1>3. \E x \in B : \A y \in B : ~(<<y, x>> \in R)
    <2> HIDE DEF B, R
    <2>1. QED
      BY <1>1, <1>2a, <1>2, WFMin
  <1>4. PICK x \in B : \A y \in B : ~(y < x)
    BY <1>2a, <1>3
  <1>5. x # 0 /\ x - 1 \in 0 .. N - 1 /\ x - 1 \notin B
    BY <1>4
  <1>6. QED
    BY <1>4, <1>5

\* The runs of n typed steps from a start
Runs(n, V, start, step) ==
    {f \in [0 .. n -> V] : f[0] = start /\ \A k \in 1 .. n : f[k] = step[k][f[k - 1]]}

\* Typed steps can be iterated.
LEMMA Iterate ==
  ASSUME NEW n \in Nat, NEW V, NEW start \in V, NEW step \in [1 .. n -> [V -> V]]
  PROVE  Runs(n, V, start, step) # {}
  <1> DEFINE Good(m, f) == f[0] = start /\ \A k \in 1 .. m : f[k] = step[k][f[k - 1]]
             S == {m \in 0 .. n : \E f \in [0 .. m -> V] : Good(m, f)}
  <1>1. 0 \in S
    <2>1. [k \in 0 .. 0 |-> start] \in [0 .. 0 -> V] /\ Good(0, [k \in 0 .. 0 |-> start])
      OBVIOUS
    <2> HIDE DEF Good
    <2>2. QED
      BY <2>1
  <1>2. ASSUME NEW m \in 0 .. n - 1, m \in S PROVE m + 1 \in S
    <2>1. PICK f \in [0 .. m -> V] : Good(m, f)
      BY <1>2
    <2> DEFINE v == step[m + 1][f[m]]
               g == [k \in 0 .. m + 1 |-> IF k <= m THEN f[k] ELSE v]
    <2>2. m + 1 \in 1 .. n /\ m + 1 \in 0 .. n /\ v \in V
      OBVIOUS
    <2> HIDE DEF v
    <2>3. g \in [0 .. m + 1 -> V] /\ g[m + 1] = v /\ \A k \in 0 .. m : g[k] = f[k]
      BY <2>1, <2>2
    <2> HIDE DEF g
    <2>4. ASSUME NEW k \in 1 .. m + 1 PROVE g[k] = step[k][g[k - 1]]
      <3>1. k - 1 \in 0 .. m /\ g[k - 1] = f[k - 1]
        BY <2>3
      <3>2. CASE k = m + 1
        BY <2>3, <3>1, <3>2 DEF v
      <3>3. CASE k \in 1 .. m
        <4>1. k \in 0 .. m /\ f[k] = step[k][f[k - 1]]
          BY <2>1, <3>3
        <4>2. QED
          BY <2>3, <3>1, <4>1
      <3>4. QED
        BY <3>2, <3>3
    <2>5. g[0] = start
      BY <2>1, <2>3
    <2>6. Good(m + 1, g)
      BY <2>4, <2>5
    <2> HIDE DEF Good
    <2>7. QED
      BY <2>2, <2>3, <2>6
  <1>3. 0 .. n \subseteq S
    <2> HIDE DEF S
    <2>1. QED
      BY <1>1, <1>2, UpTo
  <1>4. n \in 0 .. n
    OBVIOUS
  <1>5. QED
    BY <1>3, <1>4 DEF Runs

\* Two functions agree on 0 .. n.
Agree(n, f, g) == \A k \in 0 .. n : g[k] = f[k]

\* Where a start and its steps lead is determined.
LEMMA Alone ==
  ASSUME NEW n \in Nat, NEW f, NEW g, g[0] = f[0],
         \A k \in 1 .. n : g[k - 1] = f[k - 1] => g[k] = f[k]
  PROVE  Agree(n, f, g)
  <1> DEFINE S == {k \in 0 .. n : g[k] = f[k]}
  <1>1. 0 \in S
    OBVIOUS
  <1>2. ASSUME NEW k \in 0 .. n - 1, k \in S PROVE k + 1 \in S
    <2>1. k + 1 \in 1 .. n /\ k + 1 \in 0 .. n /\ (k + 1) - 1 = k
      OBVIOUS
    <2>2. QED
      BY <1>2, <2>1
  <1>3. 0 .. n \subseteq S
    <2> HIDE DEF S
    <2>1. QED
      BY <1>1, <1>2, UpTo
  <1>4. QED
    BY <1>3 DEF Agree

-----------------------------------------------------------------------------
(* The loops of peekNextSection, getUpdatedFile and the author of a patch. *)

ChunkSet   == [orig : Int, del : Int, ins : Seq(FileLines)]
SectionSet == [at : Int, body : Seq(PatchLines)]

\* What lines may be in a file made of lines, wherever they are looked up
AnyLine(lines) == FileLines \cup {lines[i] : i \in Int}

ReadState          == [old : Seq(FileLines), chunks : Seq(ChunkSet), del : Nat, ins : Seq(FileLines)]
UpdateState(lines) == [ok : BOOLEAN, dest : Seq(AnyLine(lines)), next : Int]
WriteState(lines)  == [next : Int, text : Seq(AnyLine(lines))]

\* A part of a file is made of its lines.
LEMMA PartType ==
  ASSUME NEW lines, NEW i \in Int, NEW j \in Int
  PROVE  /\ SubSeq(lines, i, j) \in Seq(AnyLine(lines))
         /\ Len(SubSeq(lines, i, j)) = IF i <= j THEN j - i + 1 ELSE 0
         /\ \A k \in 1 .. j - i + 1 : SubSeq(lines, i, j)[k] = lines[i + k - 1]
  <1>1. \A k \in i .. j : lines[k] \in AnyLine(lines)
    BY DEF AnyLine
  <1>2. QED
    BY <1>1, SubSeqProperties

\* Two parts of a file that meet
LEMMA Join ==
  ASSUME NEW lines, NEW i \in Int, NEW j \in Int, NEW k \in Int, i <= j + 1, j <= k
  PROVE  SubSeq(lines, i, j) \o SubSeq(lines, j + 1, k) = SubSeq(lines, i, k)
  <1> DEFINE a == SubSeq(lines, i, j)
             b == SubSeq(lines, j + 1, k)
             c == SubSeq(lines, i, k)
             T == AnyLine(lines)
  <1>1. /\ a \in Seq(T) /\ Len(a) = j - i + 1
        /\ \A n \in 1 .. j - i + 1 : a[n] = lines[i + n - 1]
    BY PartType
  <1>2. /\ b \in Seq(T) /\ Len(b) = k - j
        /\ \A n \in 1 .. k - j : b[n] = lines[j + 1 + n - 1]
    BY PartType
  <1>3. /\ c \in Seq(T) /\ Len(c) = k - i + 1
        /\ \A n \in 1 .. k - i + 1 : c[n] = lines[i + n - 1]
    BY PartType
  <1> HIDE DEF a, b, c, T
  <1>4. /\ a \o b \in Seq(T) /\ Len(a \o b) = Len(c)
        /\ \A n \in 1 .. Len(c) : (a \o b)[n] = IF n <= Len(a) THEN a[n] ELSE b[n - Len(a)]
    <2>1. Len(a) + Len(b) = Len(c)
      BY <1>1, <1>2, <1>3
    <2>2. /\ a \o b \in Seq(T) /\ Len(a \o b) = Len(a) + Len(b)
          /\ \A n \in 1 .. Len(a) + Len(b) :
                (a \o b)[n] = IF n <= Len(a) THEN a[n] ELSE b[n - Len(a)]
      BY <1>1, <1>2, ConcatProperties
    <2>3. QED
      BY <2>1, <2>2
  <1>5. ASSUME NEW n \in 1 .. Len(c) PROVE (a \o b)[n] = c[n]
    <2>1. CASE n <= Len(a)
      BY <1>1, <1>3, <1>4, <2>1
    <2>2. CASE ~(n <= Len(a))
      <3>1. n - Len(a) \in 1 .. k - j /\ j + 1 + (n - Len(a)) - 1 = i + n - 1
        BY <1>1, <1>3, <2>2
      <3>2. QED
        BY <1>2, <1>3, <1>4, <2>2, <3>1
    <2>3. QED
      BY <2>1, <2>2
  <1>6. a \o b = c
    BY <1>3, <1>4, <1>5, SeqEqual
  <1>7. QED
    BY <1>6 DEF a, b, c

\* A round of getUpdatedFile
LEMMA AddChunkType ==
  ASSUME NEW lines, NEW u \in UpdateState(lines), NEW c \in ChunkSet
  PROVE  AddChunk(lines, u, c) \in UpdateState(lines)
  <1>1. u.dest \in Seq(AnyLine(lines)) /\ u.next \in Int /\ c.orig - 1 \in Int
        /\ c.orig + c.del \in Int
    BY DEF UpdateState, ChunkSet
  <1>2. c.ins \in Seq(AnyLine(lines))
    BY DEF AnyLine, ChunkSet
  <1>3. SubSeq(lines, u.next, c.orig - 1) \in Seq(AnyLine(lines))
    BY <1>1, PartType
  <1>4. u.dest \o SubSeq(lines, u.next, c.orig - 1) \o c.ins \in Seq(AnyLine(lines))
    BY <1>1, <1>2, <1>3
  <1>5. QED
    BY <1>1, <1>4 DEF UpdateState, AddChunk

\* The loop of getUpdatedFile
LEMMA UpdatedSteps ==
  ASSUME NEW lines, NEW s \in Seq(ChunkSet)
  PROVE  \E f \in [0 .. Len(s) -> UpdateState(lines)] :
            /\ f[0] = Untouched
            /\ \A k \in 1 .. Len(s) : f[k] = AddChunk(lines, f[k - 1], s[k])
            /\ Updated(lines, s) = f[Len(s)]
  <1> DEFINE n == Len(s)
             V == UpdateState(lines)
             step == [k \in 1 .. n |-> [u \in V |-> AddChunk(lines, u, s[k])]]
             Is(to) == to = [k \in 0 .. n |-> IF k = 0 THEN Untouched
                                              ELSE AddChunk(lines, to[k - 1], s[k])]
             g == CHOOSE to : Is(to)
  <1>1. n \in Nat /\ \A k \in 1 .. n : s[k] \in ChunkSet
    OBVIOUS
  <1>2. Untouched \in V
    BY DEF UpdateState, Untouched
  <1>3. step \in [1 .. n -> [V -> V]]
    BY <1>1, AddChunkType
  <1>4. Updated(lines, s) = g[n]
    BY Zenon DEF Updated
  <1> HIDE DEF n, V
  <1>5. PICK f \in [0 .. n -> V] : f[0] = Untouched /\ \A k \in 1 .. n : f[k] = step[k][f[k - 1]]
    <2> HIDE DEF step
    <2>1. QED
      <3>1. Runs(n, V, Untouched, step) # {}
        BY <1>1, <1>2, <1>3, Iterate
      <3>2. QED
        BY <3>1 DEF Runs
  <1>6. ASSUME NEW k \in 1 .. n PROVE f[k] = AddChunk(lines, f[k - 1], s[k])
    <2>1. f[k - 1] \in V
      BY <1>1
    <2>2. QED
      BY <1>5, <2>1
  <1>7. Is(g)
    <2>1. Is(f)
      BY <1>1, <1>5, <1>6
    <2> HIDE DEF Is
    <2>2. QED
      BY <2>1, Zenon
  <1> HIDE DEF g
  <1>8. g[0] = f[0] /\ \A k \in 1 .. n : g[k - 1] = f[k - 1] => g[k] = f[k]
    BY <1>1, <1>5, <1>6, <1>7
  <1>9. Agree(n, f, g)
    BY <1>1, <1>8, Alone
  <1>10. QED
    BY <1>1, <1>4, <1>5, <1>6, <1>9 DEF n, V, Agree

\* The loop of getUpdatedFile, one chunk more
LEMMA UpdatedAppend ==
  ASSUME NEW lines, NEW s \in Seq(ChunkSet), NEW c \in ChunkSet
  PROVE  /\ Updated(lines, s) \in UpdateState(lines)
         /\ Updated(lines, <<>>) = Untouched
         /\ Updated(lines, Append(s, c)) = AddChunk(lines, Updated(lines, s), c)
  <1> DEFINE n == Len(s)
             t == Append(s, c)
  <1>1. n \in Nat
    OBVIOUS
  <1>2. t \in Seq(ChunkSet) /\ Len(t) = n + 1 /\ t[n + 1] = c /\ \A k \in 1 .. n : t[k] = s[k]
    OBVIOUS
  <1> HIDE DEF n, t
  <1>3. PICK f \in [0 .. n -> UpdateState(lines)] :
            /\ f[0] = Untouched
            /\ \A k \in 1 .. n : f[k] = AddChunk(lines, f[k - 1], s[k])
            /\ Updated(lines, s) = f[n]
    BY UpdatedSteps DEF n
  <1>4. PICK g \in [0 .. n + 1 -> UpdateState(lines)] :
            /\ g[0] = Untouched
            /\ \A k \in 1 .. n + 1 : g[k] = AddChunk(lines, g[k - 1], t[k])
            /\ Updated(lines, t) = g[n + 1]
    <2>1. \E g \in [0 .. Len(t) -> UpdateState(lines)] :
            /\ g[0] = Untouched
            /\ \A k \in 1 .. Len(t) : g[k] = AddChunk(lines, g[k - 1], t[k])
            /\ Updated(lines, t) = g[Len(t)]
      BY <1>2, UpdatedSteps
    <2>2. QED
      BY <1>2, <2>1
  <1>5. Agree(n, f, g)
    <2>1. g[0] = f[0]
      BY <1>3, <1>4
    <2>2. \A k \in 1 .. n : g[k - 1] = f[k - 1] => g[k] = f[k]
      BY <1>1, <1>2, <1>3, <1>4
    <2>3. QED
      BY <1>1, <2>1, <2>2, Alone
  <1>6. Updated(lines, <<>>) = Untouched
    <2> DEFINE none == <<>>
    <2>1. none \in Seq(ChunkSet) /\ Len(none) = 0
      OBVIOUS
    <2> HIDE DEF none
    <2>2. Updated(lines, none) = Untouched
      BY <2>1, UpdatedSteps
    <2>3. QED
      BY <2>2 DEF none
  <1>7. n \in 0 .. n /\ n + 1 \in 1 .. n + 1 /\ (n + 1) - 1 = n
    BY <1>1
  <1>8. QED
    BY <1>2, <1>3, <1>4, <1>5, <1>6, <1>7 DEF t, Agree

\* The end of a chunk in peekNextSection
LEMMA CloseChunkType ==
  ASSUME NEW r \in ReadState
  PROVE  /\ CloseChunk(r) \in ReadState /\ CloseChunk(r).old = r.old
         /\ CloseChunk(r).del = 0 /\ CloseChunk(r).ins = <<>>
  <1>1. CASE r.del = 0 /\ r.ins = <<>>
    BY <1>1 DEF CloseChunk
  <1>2. CASE ~(r.del = 0 /\ r.ins = <<>>)
    <2> DEFINE c == [orig |-> Len(r.old) - r.del, del |-> r.del, ins |-> r.ins]
    <2>1. c \in ChunkSet /\ <<>> \in Seq(FileLines) /\ 0 \in Nat
      BY DEF ReadState, ChunkSet
    <2>2. CloseChunk(r) = [r EXCEPT !.chunks = Append(@, c), !.del = 0, !.ins = <<>>]
      BY <1>2 DEF CloseChunk
    <2> HIDE DEF c
    <2>3. Append(r.chunks, c) \in Seq(ChunkSet)
      BY <2>1 DEF ReadState
    <2>4. QED
      BY <2>1, <2>2, <2>3 DEF ReadState
  <1>3. QED
    BY <1>1, <1>2

\* A round of peekNextSection
LEMMA ReadLineType ==
  ASSUME NEW r \in ReadState, NEW t \in PatchLines
  PROVE  ReadLine(r, t) \in ReadState
  <1>1. t.line \in FileLines
    BY DEF PatchLines
  <1>2. Append(r.ins, t.line) \in Seq(FileLines) /\ Append(r.old, t.line) \in Seq(FileLines) /\ r.del + 1 \in Nat
    BY <1>1 DEF ReadState
  <1>3. CASE t.tag = "+"
    BY <1>2, <1>3 DEF ReadLine, ReadState
  <1>4. CASE t.tag = "-"
    BY <1>2, <1>4 DEF ReadLine, ReadState
  <1>5. CASE t.tag \notin {"+", "-"}
    <2>1. ReadLine(r, t) = [CloseChunk(r) EXCEPT !.old = Append(@, t.line)]
      BY <1>5 DEF ReadLine
    <2>2. QED
      BY <1>2, <2>1, CloseChunkType DEF ReadState
  <1>6. QED
    BY <1>3, <1>4, <1>5

\* A line of a section, as its author reads it
LEMMA EditLineType ==
  ASSUME NEW lines, NEW w \in WriteState(lines), NEW t \in PatchLines
  PROVE  EditLine(lines, w, t) \in WriteState(lines)
  <1>1. t.line \in AnyLine(lines) /\ lines[w.next] \in AnyLine(lines) /\ w.next + 1 \in Int
    <2>1. t.line \in FileLines
      BY DEF PatchLines
    <2>2. w.next \in Int
      BY DEF WriteState
    <2>3. QED
      BY <2>1, <2>2 DEF AnyLine
  <1>2. Append(w.text, t.line) \in Seq(AnyLine(lines))
        /\ Append(w.text, lines[w.next]) \in Seq(AnyLine(lines))
    BY <1>1 DEF WriteState
  <1>3. QED
    BY <1>1, <1>2 DEF EditLine, WriteState

\* The loop of peekNextSection
LEMMA ReadSteps ==
  ASSUME NEW s \in Seq(PatchLines)
  PROVE  \E f \in [0 .. Len(s) -> ReadState] :
            /\ f[0] = Unread
            /\ \A k \in 1 .. Len(s) : f[k] = ReadLine(f[k - 1], s[k])
            /\ ReadLines(s) = f[Len(s)]
  <1> DEFINE n == Len(s)
             V == ReadState
             step == [k \in 1 .. n |-> [u \in V |-> ReadLine(u, s[k])]]
             Is(to) == to = [k \in 0 .. n |-> IF k = 0 THEN Unread
                                              ELSE ReadLine(to[k - 1], s[k])]
             g == CHOOSE to : Is(to)
  <1>1. n \in Nat /\ \A k \in 1 .. n : s[k] \in PatchLines
    OBVIOUS
  <1>2. Unread \in V
    BY DEF ReadState, Unread
  <1>3. step \in [1 .. n -> [V -> V]]
    BY <1>1, ReadLineType
  <1>4. ReadLines(s) = g[n]
    BY Zenon DEF ReadLines
  <1> HIDE DEF n, V
  <1>5. PICK f \in [0 .. n -> V] : f[0] = Unread /\ \A k \in 1 .. n : f[k] = step[k][f[k - 1]]
    <2> HIDE DEF step
    <2>1. Runs(n, V, Unread, step) # {}
      BY <1>1, <1>2, <1>3, Iterate
    <2>2. QED
      BY <2>1 DEF Runs
  <1>6. ASSUME NEW k \in 1 .. n PROVE f[k] = ReadLine(f[k - 1], s[k])
    <2>1. f[k - 1] \in V
      BY <1>1
    <2>2. QED
      BY <1>5, <2>1
  <1>7. Is(g)
    <2>1. Is(f)
      BY <1>1, <1>5, <1>6
    <2> HIDE DEF Is
    <2>2. QED
      BY <2>1, Zenon
  <1> HIDE DEF g
  <1>8. g[0] = f[0] /\ \A k \in 1 .. n : g[k - 1] = f[k - 1] => g[k] = f[k]
    BY <1>1, <1>5, <1>6, <1>7
  <1>9. Agree(n, f, g)
    BY <1>1, <1>8, Alone
  <1>10. QED
    BY <1>1, <1>4, <1>5, <1>6, <1>9 DEF n, V, Agree

\* The author's reading of a section, line by line
LEMMA AsWrittenSteps ==
  ASSUME NEW lines, NEW p \in SectionSet
  PROVE  \E f \in [0 .. Len(p.body) -> WriteState(lines)] :
            /\ f[0] = From(p.at)
            /\ \A k \in 1 .. Len(p.body) : f[k] = EditLine(lines, f[k - 1], p.body[k])
            /\ AsWritten(lines, p) = f[Len(p.body)]
  <1> DEFINE n == Len(p.body)
             V == WriteState(lines)
             step == [k \in 1 .. n |-> [u \in V |-> EditLine(lines, u, p.body[k])]]
             Is(to) == to = [k \in 0 .. n |-> IF k = 0 THEN From(p.at)
                                              ELSE EditLine(lines, to[k - 1], p.body[k])]
             g == CHOOSE to : Is(to)
  <1>1. n \in Nat /\ \A k \in 1 .. n : p.body[k] \in PatchLines
    BY DEF SectionSet
  <1>2. From(p.at) \in V
    BY DEF WriteState, From, SectionSet
  <1>3. step \in [1 .. n -> [V -> V]]
    BY <1>1, EditLineType
  <1>4. AsWritten(lines, p) = g[n]
    BY Zenon DEF AsWritten
  <1> HIDE DEF n, V
  <1>5. PICK f \in [0 .. n -> V] : f[0] = From(p.at) /\ \A k \in 1 .. n : f[k] = step[k][f[k - 1]]
    <2> HIDE DEF step
    <2>1. Runs(n, V, From(p.at), step) # {}
      BY <1>1, <1>2, <1>3, Iterate
    <2>2. QED
      BY <2>1 DEF Runs
  <1>6. ASSUME NEW k \in 1 .. n PROVE f[k] = EditLine(lines, f[k - 1], p.body[k])
    <2>1. f[k - 1] \in V
      BY <1>1
    <2>2. QED
      BY <1>5, <2>1
  <1>7. Is(g)
    <2>1. Is(f)
      BY <1>1, <1>5, <1>6
    <2> HIDE DEF Is
    <2>2. QED
      BY <2>1, Zenon
  <1> HIDE DEF g
  <1>8. g[0] = f[0] /\ \A k \in 1 .. n : g[k - 1] = f[k - 1] => g[k] = f[k]
    BY <1>1, <1>5, <1>6, <1>7
  <1>9. Agree(n, f, g)
    BY <1>1, <1>8, Alone
  <1>10. QED
    BY <1>1, <1>4, <1>5, <1>6, <1>9 DEF n, V, Agree

\* A section, as its author reads it
LEMMA WriteSectionType ==
  ASSUME NEW lines, NEW w \in WriteState(lines), NEW p \in SectionSet
  PROVE  WriteSection(lines, w, p) \in WriteState(lines) /\ AsWritten(lines, p) \in WriteState(lines)
  <1>1. AsWritten(lines, p) \in WriteState(lines)
    <2>1. Len(p.body) \in 0 .. Len(p.body)
      BY DEF SectionSet
    <2>2. QED
      BY <2>1, AsWrittenSteps
  <1>2. SubSeq(lines, w.next, p.at - 1) \in Seq(AnyLine(lines))
    <2>1. w.next \in Int /\ p.at - 1 \in Int
      BY DEF WriteState, SectionSet
    <2>2. QED
      BY <2>1, PartType
  <1>3. w.text \o SubSeq(lines, w.next, p.at - 1) \o AsWritten(lines, p).text \in Seq(AnyLine(lines))
    BY <1>1, <1>2 DEF WriteState
  <1>4. QED
    BY <1>1, <1>3 DEF WriteSection, WriteState

\* The sections of an update, one after another
LEMMA WrittenToSteps ==
  ASSUME NEW lines, NEW s \in Seq(SectionSet)
  PROVE  \E f \in [0 .. Len(s) -> WriteState(lines)] :
            /\ f[0] = From(1)
            /\ \A k \in 1 .. Len(s) : f[k] = WriteSection(lines, f[k - 1], s[k])
            /\ WrittenTo(lines, s) = f[Len(s)]
  <1> DEFINE n == Len(s)
             V == WriteState(lines)
             step == [k \in 1 .. n |-> [u \in V |-> WriteSection(lines, u, s[k])]]
             Is(to) == to = [k \in 0 .. n |-> IF k = 0 THEN From(1)
                                              ELSE WriteSection(lines, to[k - 1], s[k])]
             g == CHOOSE to : Is(to)
  <1>1. n \in Nat /\ \A k \in 1 .. n : s[k] \in SectionSet
    OBVIOUS
  <1>2. From(1) \in V
    BY DEF WriteState, From
  <1>3. step \in [1 .. n -> [V -> V]]
    BY <1>1, WriteSectionType
  <1>4. WrittenTo(lines, s) = g[n]
    BY Zenon DEF WrittenTo
  <1> HIDE DEF n, V
  <1>5. PICK f \in [0 .. n -> V] : f[0] = From(1) /\ \A k \in 1 .. n : f[k] = step[k][f[k - 1]]
    <2> HIDE DEF step
    <2>1. Runs(n, V, From(1), step) # {}
      BY <1>1, <1>2, <1>3, Iterate
    <2>2. QED
      BY <2>1 DEF Runs
  <1>6. ASSUME NEW k \in 1 .. n PROVE f[k] = WriteSection(lines, f[k - 1], s[k])
    <2>1. f[k - 1] \in V
      BY <1>1
    <2>2. QED
      BY <1>5, <2>1
  <1>7. Is(g)
    <2>1. Is(f)
      BY <1>1, <1>5, <1>6
    <2> HIDE DEF Is
    <2>2. QED
      BY <2>1, Zenon
  <1> HIDE DEF g
  <1>8. g[0] = f[0] /\ \A k \in 1 .. n : g[k - 1] = f[k - 1] => g[k] = f[k]
    BY <1>1, <1>5, <1>6, <1>7
  <1>9. Agree(n, f, g)
    BY <1>1, <1>8, Alone
  <1>10. QED
    BY <1>1, <1>4, <1>5, <1>6, <1>9 DEF n, V, Agree

\* The sections of an update, one section more
LEMMA WrittenToAppend ==
  ASSUME NEW lines, NEW s \in Seq(SectionSet), NEW c \in SectionSet
  PROVE  /\ WrittenTo(lines, s) \in WriteState(lines)
         /\ WrittenTo(lines, <<>>) = From(1)
         /\ WrittenTo(lines, Append(s, c)) = WriteSection(lines, WrittenTo(lines, s), c)
  <1> DEFINE n == Len(s)
             t == Append(s, c)
  <1>1. n \in Nat
    OBVIOUS
  <1>2. t \in Seq(SectionSet) /\ Len(t) = n + 1 /\ t[n + 1] = c /\ \A k \in 1 .. n : t[k] = s[k]
    OBVIOUS
  <1> HIDE DEF n, t
  <1>3. PICK f \in [0 .. n -> WriteState(lines)] :
            /\ f[0] = From(1)
            /\ \A k \in 1 .. n : f[k] = WriteSection(lines, f[k - 1], s[k])
            /\ WrittenTo(lines, s) = f[n]
    BY WrittenToSteps DEF n
  <1>4. PICK g \in [0 .. n + 1 -> WriteState(lines)] :
            /\ g[0] = From(1)
            /\ \A k \in 1 .. n + 1 : g[k] = WriteSection(lines, g[k - 1], t[k])
            /\ WrittenTo(lines, t) = g[n + 1]
    <2>1. \E g \in [0 .. Len(t) -> WriteState(lines)] :
            /\ g[0] = From(1)
            /\ \A k \in 1 .. Len(t) : g[k] = WriteSection(lines, g[k - 1], t[k])
            /\ WrittenTo(lines, t) = g[Len(t)]
      BY <1>2, WrittenToSteps
    <2>2. QED
      BY <1>2, <2>1
  <1>5. Agree(n, f, g)
    <2>1. g[0] = f[0]
      BY <1>3, <1>4
    <2>2. \A k \in 1 .. n : g[k - 1] = f[k - 1] => g[k] = f[k]
      BY <1>1, <1>2, <1>3, <1>4
    <2>3. QED
      BY <1>1, <2>1, <2>2, Alone
  <1>6. WrittenTo(lines, <<>>) = From(1)
    <2> DEFINE none == <<>>
    <2>1. none \in Seq(SectionSet) /\ Len(none) = 0
      OBVIOUS
    <2> HIDE DEF none
    <2>2. WrittenTo(lines, none) = From(1)
      BY <2>1, WrittenToSteps
    <2>3. QED
      BY <2>2 DEF none
  <1>7. n \in 0 .. n /\ n + 1 \in 1 .. n + 1 /\ (n + 1) - 1 = n
    BY <1>1
  <1>8. QED
    BY <1>2, <1>3, <1>4, <1>5, <1>6, <1>7 DEF t, Agree
-----------------------------------------------------------------------------
(* The chunks of an update make of its file what its sections say.         *)

\* getUpdatedFile has made text of the lines of a file before line at.
Makes(lines, chunks, at, text) ==
    LET u == Updated(lines, chunks)
    IN  u.next <= at /\ u.dest \o SubSeq(lines, u.next, at - 1) = text

\* What is between two chunks is kept.
LEMMA MakesKept ==
  ASSUME NEW lines, NEW chunks \in Seq(ChunkSet), NEW at \in Int, NEW text, NEW to \in Int,
         Makes(lines, chunks, at, text), at <= to
  PROVE  /\ text \in Seq(AnyLine(lines))
         /\ Makes(lines, chunks, to, text \o SubSeq(lines, at, to - 1))
  <1> DEFINE u == Updated(lines, chunks)
             a == SubSeq(lines, u.next, at - 1)
             b == SubSeq(lines, at, to - 1)
             T == AnyLine(lines)
  <1>1. u.dest \in Seq(T) /\ u.next \in Int /\ u.next <= at /\ u.dest \o a = text
    <2>1. \E c : c \in ChunkSet
      <3>1. [orig |-> 1, del |-> 1, ins |-> <<>>] \in ChunkSet
        BY DEF ChunkSet
      <3>2. QED
        BY <3>1
    <2>2. u \in UpdateState(lines)
      BY <2>1, UpdatedAppend
    <2>3. QED
      BY <2>2 DEF Makes, UpdateState
  <1> HIDE DEF u
  <1>2. a \in Seq(T) /\ b \in Seq(T)
    <2>1. at - 1 \in Int /\ to - 1 \in Int
      OBVIOUS
    <2>2. QED
      BY <1>1, <2>1, PartType
  <1>3. a \o b = SubSeq(lines, u.next, to - 1)
    <2> DEFINE j == at - 1
               k == to - 1
    <2>1. j \in Int /\ k \in Int /\ u.next <= j + 1 /\ j <= k /\ j + 1 = at
      BY <1>1
    <2> HIDE DEF j, k
    <2>2. SubSeq(lines, u.next, j) \o SubSeq(lines, j + 1, k) = SubSeq(lines, u.next, k)
      BY <1>1, <2>1, Join
    <2>3. QED
      BY <2>1, <2>2 DEF j, k
  <1>4. text \in Seq(T) /\ text \o b = u.dest \o (a \o b)
    <2> DEFINE d == u.dest
    <2>1. d \in Seq(T) /\ a \in Seq(T) /\ b \in Seq(T) /\ text = d \o a
      BY <1>1, <1>2
    <2> HIDE DEF a, b, d, T
    <2>2. d \o a \in Seq(T) /\ (d \o a) \o b = d \o (a \o b)
      BY <2>1, ConcatAssociative, ConcatProperties
    <2>3. text \in Seq(T) /\ text \o b = d \o (a \o b)
      BY <2>1, <2>2
    <2>4. QED
      BY <2>3 DEF d
  <1>5. u.next <= to
    BY <1>1
  <1>6. QED
    BY <1>3, <1>4, <1>5 DEF Makes, u

\* A chunk drops lines and adds others.
LEMMA MakesChanged ==
  ASSUME NEW lines, NEW chunks \in Seq(ChunkSet), NEW at \in Int, NEW text,
         Makes(lines, chunks, at, text),
         NEW c \in ChunkSet, c.orig = at, c.del \in Nat
  PROVE  Makes(lines, Append(chunks, c), at + c.del, text \o c.ins)
  <1> DEFINE u == Updated(lines, chunks)
             v == Updated(lines, Append(chunks, c))
             to == at + c.del
             T == AnyLine(lines)
  <1>1. u.next <= at /\ u.dest \o SubSeq(lines, u.next, at - 1) = text
    BY DEF Makes
  <1>2. v = AddChunk(lines, u, c)
    BY UpdatedAppend
  <1>3. v.dest = text \o c.ins /\ v.next = to
    <2> HIDE DEF u, v
    <2>1. QED
      BY <1>1, <1>2 DEF AddChunk
  <1>4. text \o c.ins \in Seq(T)
    <2>1. text \in Seq(T)
      BY MakesKept
    <2>2. c.ins \in Seq(T)
      BY DEF ChunkSet, AnyLine
    <2>3. QED
      BY <2>1, <2>2
  <1>5. to \in Int /\ SubSeq(lines, to, to - 1) = <<>>
    <2>1. to \in Int
      BY DEF ChunkSet
    <2> HIDE DEF to
    <2>2. to - 1 \in Int /\ to - 1 < to
      BY <2>1
    <2>3. QED
      BY <2>1, <2>2, SubSeqEmpty
  <1> HIDE DEF v, to
  <1>6. v.dest \o SubSeq(lines, v.next, to - 1) = text \o c.ins /\ v.next <= to
    BY <1>3, <1>4, <1>5, ConcatEmptySeq
  <1>7. Makes(lines, Append(chunks, c), to, text \o c.ins)
    BY <1>6 DEF Makes, v
  <1>8. QED
    BY <1>7 DEF to

\* The chunks of a section are placed one by one.
LEMMA PlacedType ==
  ASSUME NEW s \in Seq(ChunkSet), NEW m \in Int
  PROVE  /\ Placed(s, m) \in Seq(ChunkSet) /\ Placed(<<>>, m) = <<>>
         /\ \A c \in ChunkSet :
               Placed(Append(s, c), m) = Append(Placed(s, m), [orig |-> c.orig + m, del |-> c.del, ins |-> c.ins])
  <1> DEFINE At(c) == [c EXCEPT !.orig = @ + m]
  <1>1. ASSUME NEW c \in ChunkSet
        PROVE  At(c) = [orig |-> c.orig + m, del |-> c.del, ins |-> c.ins] /\ At(c) \in ChunkSet
    <2>1. c = [orig |-> c.orig, del |-> c.del, ins |-> c.ins] /\ c.orig + m \in Int
      BY DEF ChunkSet
    <2>2. At(c) = [orig |-> c.orig + m, del |-> c.del, ins |-> c.ins]
      BY <2>1
    <2>3. QED
      BY <2>1, <2>2 DEF ChunkSet
  <1>2. \A q : Placed(q, m) = [n \in DOMAIN q |-> At(q[n])]
    BY DEF Placed
  <1> HIDE DEF At
  <1>3. ASSUME NEW q \in Seq(ChunkSet) PROVE Placed(q, m) \in Seq(ChunkSet) /\ Len(Placed(q, m)) = Len(q)
                                    /\ \A n \in 1 .. Len(q) : Placed(q, m)[n] = At(q[n])
    <2>1. Len(q) \in Nat /\ DOMAIN q = 1 .. Len(q) /\ \A n \in 1 .. Len(q) : q[n] \in ChunkSet
      OBVIOUS
    <2>2. Placed(q, m) = [n \in 1 .. Len(q) |-> At(q[n])]
      BY <1>2, <2>1
    <2>3. \A n \in 1 .. Len(q) : At(q[n]) \in ChunkSet
      BY <1>1, <2>1
    <2>4. QED
      BY <2>1, <2>2, <2>3
  <1>4. Placed(<<>>, m) = <<>>
    BY <1>2
  <1>5. ASSUME NEW c \in ChunkSet PROVE Placed(Append(s, c), m) = Append(Placed(s, m), At(c))
    <2> DEFINE t == Append(s, c)
               p == Placed(s, m)
               q == Placed(t, m)
               r == Append(p, At(c))
    <2>1. t \in Seq(ChunkSet) /\ Len(t) = Len(s) + 1 /\ t[Len(s) + 1] = c /\ Len(s) \in Nat
          /\ \A n \in 1 .. Len(s) : t[n] = s[n]
      OBVIOUS
    <2>2. p \in Seq(ChunkSet) /\ Len(p) = Len(s) /\ \A n \in 1 .. Len(s) : p[n] = At(s[n])
      BY <1>3
    <2>3. q \in Seq(ChunkSet) /\ Len(q) = Len(t) /\ \A n \in 1 .. Len(t) : q[n] = At(t[n])
      BY <1>3, <2>1
    <2> HIDE DEF t, p, q
    <2>4. r \in Seq(ChunkSet) /\ Len(r) = Len(s) + 1 /\ r[Len(s) + 1] = At(c)
          /\ \A n \in 1 .. Len(s) : r[n] = p[n]
      BY <1>1, <2>1, <2>2
    <2> HIDE DEF r
    <2>5. ASSUME NEW n \in 1 .. Len(q) PROVE q[n] = r[n]
      BY <2>1, <2>2, <2>3, <2>4
    <2>6. q = r
      BY <2>1, <2>3, <2>4, <2>5, SeqEqual
    <2>7. QED
      BY <2>6 DEF p, q, r, t
  <1>6. QED
    BY <1>1, <1>3, <1>4, <1>5

\* Appending commutes with concatenation.
LEMMA AppendConcat ==
  ASSUME NEW T, NEW s \in Seq(T), NEW t \in Seq(T), NEW e \in T
  PROVE  /\ s \o Append(t, e) = Append(s \o t, e) /\ s \o <<>> = s
         /\ s \o t \in Seq(T) /\ Append(t, e) \in Seq(T)
  <1>1. /\ Append(t, e) = t \o <<e>> /\ Append(s \o t, e) = (s \o t) \o <<e>>
        /\ <<e>> \in Seq(T) /\ s \o t \in Seq(T) /\ Append(t, e) \in Seq(T)
    BY AppendIsConcat, ConcatProperties
  <1>2. (s \o t) \o <<e>> = s \o (t \o <<e>>)
    BY <1>1, ConcatAssociative
  <1>3. QED
    BY <1>1, <1>2, ConcatEmptySeq

\* The end of a chunk, as it is read: it is placed where its lines are.
LEMMA CloseMakes ==
  ASSUME NEW lines, NEW chunks \in Seq(ChunkSet), NEW at \in Int, NEW r \in ReadState,
         NEW text \in Seq(AnyLine(lines)),
         Makes(lines, chunks \o Placed(r.chunks, at), at + Len(r.old) - r.del, text)
  PROVE  Makes(lines, chunks \o Placed(CloseChunk(r).chunks, at), at + Len(r.old), text \o r.ins)
  <1>1. Len(r.old) \in Nat /\ r.del \in Nat /\ r.chunks \in Seq(ChunkSet) /\ r.ins \in Seq(FileLines)
    BY DEF ReadState
  <1>2. CASE r.del = 0 /\ r.ins = <<>>
    <2>1. CloseChunk(r) = r /\ text \o r.ins = text /\ at + Len(r.old) - r.del = at + Len(r.old)
      BY <1>1, <1>2, ConcatEmptySeq DEF CloseChunk
    <2>2. QED
      BY <2>1
  <1>3. CASE ~(r.del = 0 /\ r.ins = <<>>)
    <2> DEFINE k == [orig |-> Len(r.old) - r.del, del |-> r.del, ins |-> r.ins]
               K == [orig |-> k.orig + at, del |-> k.del, ins |-> k.ins]
               P == Placed(r.chunks, at)
               C == chunks \o P
               a == at + Len(r.old) - r.del
    <2>1. k \in ChunkSet /\ K \in ChunkSet /\ K.orig = a /\ K.del = r.del /\ K.ins = r.ins
          /\ a \in Int /\ a + r.del = at + Len(r.old)
      <3> DEFINE b == Len(r.old) - r.del
                 d == r.del
                 e == r.ins
      <3>1. b \in Int /\ b + at \in Int /\ b + at = a /\ a + r.del = at + Len(r.old)
            /\ d \in Int /\ e \in Seq(FileLines)
        BY <1>1
      <3>2. k = [orig |-> b, del |-> d, ins |-> e] /\ K = [orig |-> b + at, del |-> d, ins |-> e]
        OBVIOUS
      <3> HIDE DEF b, d, e, k, K
      <3>3. k \in ChunkSet /\ K \in ChunkSet /\ K.orig = b + at /\ K.del = d /\ K.ins = e
        BY <3>1, <3>2 DEF ChunkSet
      <3>4. QED
        BY <3>1, <3>3 DEF d, e
    <2>2. CloseChunk(r).chunks = Append(r.chunks, k)
      BY <1>3 DEF CloseChunk, ReadState
    <2>3. Makes(lines, C, a, text)
      OBVIOUS
    <2>4. Placed(Append(r.chunks, k), at) = Append(P, K) /\ P \in Seq(ChunkSet)
      <3> HIDE DEF k
      <3>1. QED
        BY <1>1, <2>1, PlacedType
    <2> HIDE DEF k, K, P, a
    <2>5. chunks \o Append(P, K) = Append(C, K) /\ C \in Seq(ChunkSet)
      BY <2>1, <2>4, AppendConcat
    <2> HIDE DEF C
    <2>6. Makes(lines, Append(C, K), a + r.del, text \o r.ins)
      BY <1>1, <2>1, <2>3, <2>5, MakesChanged
    <2>7. QED
      BY <2>1, <2>2, <2>4, <2>5, <2>6
  <1>4. QED
    BY <1>2, <1>3

\* While a section is read: what its chunks make, and the open one adds, is what its
\* author wrote so far.
Pending(lines, chunks, at, base, r, w) ==
    /\ w.next = at + Len(r.old)
    /\ \E text \in Seq(AnyLine(lines)) :
          /\ Makes(lines, chunks \o Placed(r.chunks, at), at + Len(r.old) - r.del, text)
          /\ text \o r.ins = base \o w.text

\* A line of a section is read.
LEMMA PendingStep ==
  ASSUME NEW lines, NEW chunks \in Seq(ChunkSet), NEW at \in Int,
         NEW base \in Seq(AnyLine(lines)), NEW r \in ReadState, NEW w \in WriteState(lines),
         Pending(lines, chunks, at, base, r, w), NEW t \in PatchLines
  PROVE  Pending(lines, chunks, at, base, ReadLine(r, t), EditLine(lines, w, t))
  <1> DEFINE s == ReadLine(r, t)
             v == EditLine(lines, w, t)
             T == AnyLine(lines)
  <1>0. r.old \in Seq(FileLines) /\ t.line \in FileLines
    BY DEF ReadState, PatchLines
  <1>1. PICK text \in Seq(T) :
            /\ Makes(lines, chunks \o Placed(r.chunks, at), at + Len(r.old) - r.del, text)
            /\ text \o r.ins = base \o w.text
    BY DEF Pending
  <1>2. /\ w.next = at + Len(r.old) /\ w.next \in Int /\ w.text \in Seq(T)
        /\ Len(r.old) \in Nat /\ r.del \in Nat
        /\ r.chunks \in Seq(ChunkSet) /\ r.ins \in Seq(T) /\ t.line \in T
    <2>1. w.next = at + Len(r.old) /\ w.next \in Int /\ w.text \in Seq(T)
      BY DEF Pending, WriteState
    <2>2. Len(r.old) \in Nat /\ r.del \in Nat /\ r.chunks \in Seq(ChunkSet)
      BY DEF ReadState
    <2>3. r.ins \in Seq(T) /\ t.line \in T
      <3>1. r.ins \in Seq(FileLines) /\ t.line \in FileLines /\ FileLines \subseteq T
        BY DEF ReadState, PatchLines, AnyLine
      <3> HIDE DEF T
      <3>2. QED
        BY <3>1
    <2>4. QED
      BY <2>1, <2>2, <2>3
  <1>3. CASE t.tag = "+"
    <2>1. s.old = r.old /\ s.chunks = r.chunks /\ s.del = r.del /\ s.ins = Append(r.ins, t.line)
      BY <1>3 DEF ReadLine, ReadState
    <2>2. v.next = w.next /\ v.text = Append(w.text, t.line)
      BY <1>3 DEF EditLine
    <2> HIDE DEF s, v, T
    <2>3. text \o s.ins = base \o v.text
      <3> DEFINE e == t.line
                 x == r.ins
                 y == w.text
      <3>0. base \in Seq(T) /\ x \in Seq(T) /\ y \in Seq(T) /\ e \in T /\ text \in Seq(T)
        BY <1>1, <1>2 DEF T
      <3> HIDE DEF e, x, y
      <3>1. text \o Append(x, e) = Append(text \o x, e)
        BY <3>0, AppendConcat
      <3>2. base \o Append(y, e) = Append(base \o y, e)
        BY <3>0, AppendConcat
      <3>3. QED
        BY <1>1, <2>1, <2>2, <3>1, <3>2 DEF e, x, y
    <2>4. Pending(lines, chunks, at, base, s, v)
      BY <1>1, <1>2, <2>1, <2>2, <2>3 DEF Pending, T
    <2>5. QED
      BY <2>4 DEF s, v
  <1>4. CASE t.tag = "-"
    <2>1. /\ s.old = Append(r.old, t.line) /\ s.chunks = r.chunks /\ s.del = r.del + 1
          /\ s.ins = r.ins
      BY <1>4 DEF ReadLine, ReadState
    <2>2. v.next = w.next + 1 /\ v.text = w.text
      BY <1>4 DEF EditLine
    <2>3. Len(Append(r.old, t.line)) = Len(r.old) + 1
      BY <1>0
    <2> HIDE DEF s, v, T
    <2>4. v.next = at + Len(s.old) /\ at + Len(s.old) - s.del = at + Len(r.old) - r.del
      <3> DEFINE o == Len(r.old)
                 d == r.del
      <3>1. Len(s.old) = o + 1 /\ s.del = d + 1 /\ v.next = (at + o) + 1 /\ o \in Nat /\ d \in Nat
        BY <1>2, <2>1, <2>2, <2>3
      <3> HIDE DEF o, d
      <3>2. v.next = at + Len(s.old) /\ at + Len(s.old) - s.del = at + o - d
        BY <3>1
      <3>3. QED
        BY <3>2 DEF o, d
    <2>5. Pending(lines, chunks, at, base, s, v)
      BY <1>1, <2>1, <2>2, <2>4 DEF Pending, T
    <2>6. QED
      BY <2>5 DEF s, v
  <1>5. CASE t.tag \notin {"+", "-"}
    <2> DEFINE c == CloseChunk(r)
               C == chunks \o Placed(c.chunks, at)
               l == lines[w.next]
    <2>1. /\ c \in ReadState /\ c.old = r.old /\ c.del = 0 /\ c.ins = <<>>
      BY CloseChunkType
    <2>2. /\ s.old = Append(c.old, t.line) /\ s.chunks = c.chunks /\ s.del = 0
          /\ s.ins = <<>>
      <3>1. s = [c EXCEPT !.old = Append(@, t.line)]
        BY <1>5 DEF ReadLine
      <3> HIDE DEF c, s
      <3>2. QED
        BY <2>1, <3>1 DEF ReadState
    <2>3. v.next = w.next + 1 /\ v.text = Append(w.text, l)
      BY <1>5 DEF EditLine
    <2>4. Len(Append(r.old, t.line)) = Len(r.old) + 1
      BY <1>0
    <2>5. Makes(lines, C, w.next, base \o w.text) /\ C \in Seq(ChunkSet)
      <3>1. Makes(lines, C, at + Len(r.old), text \o r.ins)
        BY <1>1, CloseMakes
      <3>2. Placed(c.chunks, at) \in Seq(ChunkSet)
        <4>1. c.chunks \in Seq(ChunkSet)
          BY <2>1 DEF ReadState
        <4> HIDE DEF c
        <4>2. QED
          BY <4>1, PlacedType
      <3>3. QED
        BY <1>1, <1>2, <3>1, <3>2
    <2> HIDE DEF s, v, c, T
    <2>6. /\ l \in T /\ SubSeq(lines, w.next, w.next) = <<l>>
      <3>1. l \in T
        BY <1>2 DEF T, AnyLine
      <3> DEFINE m == w.next
                 x == SubSeq(lines, m, m)
      <3>2. m \in Int /\ m - m + 1 = 1 /\ m + 1 - 1 = m /\ m <= m
        BY <1>2
      <3> HIDE DEF m
      <3>3. /\ x \in Seq(T) /\ Len(x) = IF m <= m THEN m - m + 1 ELSE 0
            /\ \A i \in 1 .. m - m + 1 : x[i] = lines[m + i - 1]
        BY <3>2, PartType DEF T
      <3>4. x \in Seq(T) /\ Len(x) = 1 /\ x[1] = lines[m]
        BY <3>2, <3>3
      <3> HIDE DEF x
      <3>5. x = <<x[1]>>
        BY <3>4
      <3>6. QED
        BY <3>1, <3>4, <3>5 DEF x, m
    <2> DEFINE more == base \o v.text
    <2>7. /\ more \in Seq(T) /\ more = (base \o w.text) \o <<l>> /\ more \o <<>> = more
      <3>1. base \in Seq(T)
        BY DEF T
      <3> HIDE DEF l
      <3>2. base \o Append(w.text, l) = Append(base \o w.text, l) /\ base \o w.text \in Seq(T)
        BY <1>2, <2>6, <3>1, AppendConcat
      <3>3. Append(base \o w.text, l) = (base \o w.text) \o <<l>> /\ Append(base \o w.text, l) \in Seq(T)
        BY <2>6, <3>2, AppendIsConcat
      <3>4. QED
        BY <2>3, <3>2, <3>3, ConcatEmptySeq
    <2> HIDE DEF C, l
    <2>8. Makes(lines, C, w.next + 1, more)
      <3> DEFINE to == w.next + 1
      <3>1. to \in Int /\ w.next <= to /\ to - 1 = w.next
        BY <1>2
      <3> HIDE DEF to, more
      <3>2. Makes(lines, C, to, (base \o w.text) \o SubSeq(lines, w.next, to - 1))
        BY <1>2, <2>5, <3>1, MakesKept
      <3>3. QED
        BY <2>6, <2>7, <3>1, <3>2 DEF to
    <2>9. v.next = at + Len(s.old) /\ at + Len(s.old) - s.del = w.next + 1
      BY <1>2, <2>1, <2>2, <2>3, <2>4
    <2>10. Makes(lines, chunks \o Placed(s.chunks, at), at + Len(s.old) - s.del, more)
      BY <2>2, <2>8, <2>9 DEF C
    <2>11. Pending(lines, chunks, at, base, s, v)
      BY <2>2, <2>7, <2>9, <2>10 DEF Pending, T
    <2>12. QED
      BY <2>11 DEF s, v
  <1>6. QED
    BY <1>3, <1>4, <1>5

\* A section and the chunks read from it do the same to the lines of a file.
LEMMA SectionMakes ==
  ASSUME NEW lines, NEW chunks \in Seq(ChunkSet), NEW p \in SectionSet, NEW base,
         Makes(lines, chunks, p.at, base)
  PROVE  LET peek == PeekNextSection(p.body)
             w    == AsWritten(lines, p)
         IN  /\ w.next = p.at + Len(peek.old) /\ w \in WriteState(lines)
             /\ peek.old \in Seq(FileLines) /\ peek.chunks \in Seq(ChunkSet)
             /\ Makes(lines, chunks \o Placed(peek.chunks, p.at), w.next, base \o w.text)
  <1> DEFINE body == p.body
             at == p.at
             n == Len(body)
             T == AnyLine(lines)
             peek == PeekNextSection(body)
             w == AsWritten(lines, p)
  <1>1. at \in Int /\ n \in Nat /\ body \in Seq(PatchLines) /\ \A k \in 1 .. n : body[k] \in PatchLines
    BY DEF SectionSet
  <1>2. base \in Seq(T)
    <2> HIDE DEF at
    <2>1. at <= at
      BY <1>1
    <2>2. QED
      BY <1>1, <2>1, MakesKept DEF at
  <1>3. PICK f \in [0 .. n -> ReadState] :
            /\ f[0] = Unread
            /\ \A k \in 1 .. n : f[k] = ReadLine(f[k - 1], body[k])
            /\ ReadLines(body) = f[n]
    BY <1>1, ReadSteps
  <1>4. PICK g \in [0 .. n -> WriteState(lines)] :
            /\ g[0] = From(at)
            /\ \A k \in 1 .. n : g[k] = EditLine(lines, g[k - 1], body[k])
            /\ w = g[n]
    BY AsWrittenSteps
  <1> HIDE DEF T, w, n, body, at
  <1> DEFINE S == {k \in 0 .. n : Pending(lines, chunks, at, base, f[k], g[k])}
  <1>5. 0 \in S
    <2>1. f[0].old = <<>> /\ f[0].chunks = <<>> /\ f[0].del = 0 /\ f[0].ins = <<>>
      BY <1>3 DEF Unread
    <2>2. g[0].next = at /\ g[0].text = <<>>
      BY <1>4 DEF From
    <2>3. Placed(<<>>, at) = <<>>
      BY <1>1, PlacedType
    <2>4. chunks \o <<>> = chunks /\ base \o <<>> = base
      BY <1>2, ConcatEmptySeq
    <2>5. at + Len(<<>>) = at /\ at + Len(<<>>) - 0 = at
      BY <1>1
    <2>6. Makes(lines, chunks, at, base)
      BY DEF at
    <2>7. Pending(lines, chunks, at, base, f[0], g[0])
      BY <1>2, <2>1, <2>2, <2>3, <2>4, <2>5, <2>6 DEF Pending, T
    <2>8. QED
      BY <1>1, <2>7
  <1>6. ASSUME NEW k \in 0 .. n - 1, k \in S PROVE k + 1 \in S
    <2>1. /\ k \in 0 .. n /\ k + 1 \in 0 .. n /\ k + 1 \in 1 .. n /\ (k + 1) - 1 = k
      BY <1>1
    <2>2. /\ f[k] \in ReadState /\ g[k] \in WriteState(lines) /\ body[k + 1] \in PatchLines
      BY <1>1, <1>3, <1>4, <2>1
    <2>3. /\ f[k + 1] = ReadLine(f[k], body[k + 1]) /\ g[k + 1] = EditLine(lines, g[k], body[k + 1])
      BY <1>3, <1>4, <2>1
    <2>4. Pending(lines, chunks, at, base, f[k], g[k])
      BY <1>6
    <2>5. Pending(lines, chunks, at, base, f[k + 1], g[k + 1])
      BY <1>1, <1>2, <2>2, <2>3, <2>4, PendingStep DEF T
    <2>6. QED
      BY <2>1, <2>5
  <1>7. Pending(lines, chunks, at, base, f[n], g[n])
    <2> HIDE DEF S
    <2>1. 0 .. n \subseteq S
      BY <1>1, <1>5, <1>6, UpTo
    <2>2. QED
      BY <1>1, <2>1 DEF S
  <1> DEFINE r == f[n]
  <1>8. r \in ReadState /\ peek = CloseChunk(r) /\ w \in WriteState(lines)
    BY <1>1, <1>3, <1>4 DEF PeekNextSection
  <1>9. PICK text \in Seq(T) :
            /\ Makes(lines, chunks \o Placed(r.chunks, at), at + Len(r.old) - r.del, text)
            /\ text \o r.ins = base \o w.text
    BY <1>4, <1>7 DEF Pending, T
  <1>10. w.next = at + Len(r.old)
    BY <1>4, <1>7 DEF Pending
  <1> HIDE DEF r, peek
  <1>11. Makes(lines, chunks \o Placed(CloseChunk(r).chunks, at), at + Len(r.old), text \o r.ins)
    BY <1>1, <1>8, <1>9, CloseMakes DEF T
  <1>12. CloseChunk(r) \in ReadState /\ CloseChunk(r).old = r.old
    BY <1>8, CloseChunkType
  <1>13. peek.old = r.old /\ peek.old \in Seq(FileLines) /\ peek.chunks \in Seq(ChunkSet)
    BY <1>8, <1>12 DEF ReadState
  <1>14. Makes(lines, chunks \o Placed(peek.chunks, at), w.next, base \o w.text)
    BY <1>8, <1>9, <1>10, <1>11
  <1>15. QED
    BY <1>8, <1>10, <1>13, <1>14 DEF peek, w, body, at

\* The untouched file
LEMMA NothingMade ==
  ASSUME NEW lines
  PROVE  /\ Makes(lines, <<>>, 1, <<>>)
         /\ \A m \in Int : m >= 1 => \E text : Makes(lines, <<>>, m, text)
  <1> DEFINE none == <<>>
             one == 1
  <1>1. none \in Seq(ChunkSet) /\ one \in Int
    OBVIOUS
  <1>2. Makes(lines, <<>>, 1, <<>>)
    <2>1. \E c : c \in ChunkSet
      <3>1. [orig |-> 1, del |-> 1, ins |-> <<>>] \in ChunkSet
        BY DEF ChunkSet
      <3>2. QED
        BY <3>1
    <2>2. Updated(lines, none) = Untouched
      BY <1>1, <2>1, UpdatedAppend
    <2>3. SubSeq(lines, 1, 1 - 1) = <<>>
      BY SubSeqEmpty
    <2>4. <<>> \o SubSeq(lines, 1, 1 - 1) = <<>>
      BY <2>3
    <2>5. QED
      BY <2>2, <2>4 DEF Makes, Untouched
  <1>3. ASSUME NEW m \in Int, m >= 1 PROVE \E text : Makes(lines, <<>>, m, text)
    <2>1. Makes(lines, none, one, none) /\ one <= m
      BY <1>2, <1>3
    <2> HIDE DEF none, one
    <2>2. Makes(lines, none, m, none \o SubSeq(lines, one, m - 1))
      BY <1>1, <2>1, MakesKept
    <2>3. QED
      BY <2>2 DEF none
  <1>4. QED
    BY <1>2, <1>3

\* Where a section ends
LEMMA SectionEnd ==
  ASSUME NEW lines, NEW p \in SectionSet, p.at >= 1
  PROVE  LET peek == PeekNextSection(p.body)
         IN  /\ AsWritten(lines, p).next = p.at + Len(peek.old)
             /\ peek.old \in Seq(FileLines) /\ peek.chunks \in Seq(ChunkSet)
  <1> DEFINE none == <<>>
  <1>1. none \in Seq(ChunkSet) /\ p.at \in Int
    BY DEF SectionSet
  <1>2. PICK text : Makes(lines, none, p.at, text)
    BY <1>1, NothingMade
  <1> HIDE DEF none
  <1>3. QED
    BY <1>1, <1>2, SectionMakes

\* The chunks found so far make what the sections found so far say.
Understood(lines, chunks, sections) ==
    /\ chunks \in Seq(ChunkSet) /\ sections \in Seq(SectionSet)
    /\ \A n \in 1 .. Len(sections) :
          sections[n].at >= 1 /\ AsWritten(lines, sections[n]).next <= Len(lines) + 1
    /\ Apart(lines, sections) =>
          Makes(lines, chunks, WrittenTo(lines, sections).next, WrittenTo(lines, sections).text)

\* The last section is where the sections end.
LEMMA LastSection ==
  ASSUME NEW lines, NEW s \in Seq(SectionSet)
  PROVE  LET w == WrittenTo(lines, s)
         IN  /\ w \in WriteState(lines)
             /\ w.next = IF s = <<>> THEN 1 ELSE AsWritten(lines, s[Len(s)]).next
             /\ s = <<>> => w.text = <<>>
  <1> DEFINE n == Len(s)
             w == WrittenTo(lines, s)
  <1>1. PICK f \in [0 .. n -> WriteState(lines)] :
            /\ f[0] = From(1)
            /\ \A k \in 1 .. n : f[k] = WriteSection(lines, f[k - 1], s[k])
            /\ w = f[n]
    BY WrittenToSteps
  <1>2. n \in Nat /\ w \in WriteState(lines)
    BY <1>1
  <1>3. CASE s = <<>>
    <2>1. n = 0
      BY <1>3
    <2> HIDE DEF n, w
    <2>2. w = From(1)
      BY <1>1, <2>1
    <2>3. QED
      BY <1>2, <1>3, <2>2 DEF From, w
  <1>4. CASE s # <<>>
    <2>1. n \in 1 .. n
      BY <1>4, EmptySeq
    <2>2. w = WriteSection(lines, f[n - 1], s[n])
      BY <1>1, <2>1
    <2> HIDE DEF w
    <2>3. w.next = AsWritten(lines, s[n]).next
      BY <2>2 DEF WriteSection
    <2>4. QED
      BY <1>2, <1>4, <2>3 DEF w
  <1>5. QED
    BY <1>3, <1>4

\* Nothing is understood of nothing.
LEMMA UnderstoodInit ==
  ASSUME NEW lines
  PROVE  Understood(lines, <<>>, <<>>)
  <1> DEFINE none == <<>>
  <1>1. none \in Seq(SectionSet) /\ none \in Seq(ChunkSet) /\ Len(none) = 0 /\ none = <<>>
    OBVIOUS
  <1> HIDE DEF none
  <1>2. WrittenTo(lines, none).next = 1 /\ WrittenTo(lines, none).text = <<>>
    BY <1>1, LastSection
  <1>3. Makes(lines, none, 1, <<>>)
    BY <1>1, NothingMade
  <1>4. Understood(lines, none, none)
    BY <1>1, <1>2, <1>3 DEF Understood
  <1>5. QED
    BY <1>4 DEF none

\* One section more
LEMMA UnderstoodAppend ==
  ASSUME NEW lines, NEW chunks, NEW sections, Understood(lines, chunks, sections),
         NEW p \in SectionSet, p.at >= 1, AsWritten(lines, p).next <= Len(lines) + 1
  PROVE  Understood(lines, chunks \o Placed(PeekNextSection(p.body).chunks, p.at), Append(sections, p))
  <1> DEFINE peek == PeekNextSection(p.body)
             C == chunks \o Placed(peek.chunks, p.at)
             N == Append(sections, p)
             w == WrittenTo(lines, sections)
             v == WrittenTo(lines, N)
             at == p.at
             n == Len(sections)
  <1>1. /\ chunks \in Seq(ChunkSet) /\ sections \in Seq(SectionSet) /\ n \in Nat /\ at \in Int
    BY DEF Understood, SectionSet
  <1>2. /\ N \in Seq(SectionSet) /\ Len(N) = n + 1 /\ N[n + 1] = p
        /\ \A k \in 1 .. n : N[k] = sections[k]
    BY <1>1
  <1>3. C \in Seq(ChunkSet)
    <2>1. peek.chunks \in Seq(ChunkSet)
      BY SectionEnd
    <2> HIDE DEF peek
    <2>2. Placed(peek.chunks, at) \in Seq(ChunkSet)
      BY <1>1, <2>1, PlacedType
    <2>3. QED
      BY <1>1, <2>2
  <1>4. ASSUME NEW k \in 1 .. Len(N)
        PROVE  N[k].at >= 1 /\ AsWritten(lines, N[k]).next <= Len(lines) + 1
    <2> HIDE DEF N
    <2>1. CASE k = n + 1
      BY <1>2, <2>1
    <2>2. CASE k \in 1 .. n
      BY <1>2, <2>2 DEF Understood
    <2>3. QED
      BY <1>1, <1>2, <2>1, <2>2
  <1>5. ASSUME Apart(lines, N) PROVE Makes(lines, C, v.next, v.text)
    <2> HIDE DEF N
    <2>1. Apart(lines, sections)
      <3>1. ASSUME NEW k \in 1 .. n - 1 PROVE AsWritten(lines, sections[k]).next <= sections[k + 1].at
        <4>1. k \in 1 .. Len(N) - 1 /\ k \in 1 .. n /\ k + 1 \in 1 .. n
          BY <1>1, <1>2
        <4>2. QED
          BY <1>2, <1>5, <4>1 DEF Apart
      <3>2. QED
        BY <3>1 DEF Apart
    <2>2. w.next <= at /\ w \in WriteState(lines)
      <3>1. /\ w \in WriteState(lines)
            /\ w.next = IF sections = <<>> THEN 1 ELSE AsWritten(lines, sections[n]).next
        BY <1>1, LastSection
      <3>2. CASE sections = <<>>
        BY <1>1, <3>1, <3>2
      <3>3. CASE sections # <<>>
        <4>1. n \in 1 .. Len(N) - 1 /\ n \in 1 .. n
          BY <1>1, <1>2, <3>3, EmptySeq
        <4>2. QED
          BY <1>2, <1>5, <3>1, <3>3, <4>1 DEF Apart
      <3>4. QED
        BY <3>2, <3>3
    <2>3. Makes(lines, chunks, w.next, w.text) /\ w.next \in Int
      BY <2>1, <2>2 DEF Understood, WriteState
    <2> DEFINE base == w.text \o SubSeq(lines, w.next, at - 1)
               a == AsWritten(lines, p)
    <2>4. Makes(lines, chunks, at, base)
      <3> HIDE DEF w, at
      <3>1. QED
        BY <1>1, <2>2, <2>3, MakesKept
    <2>5. Makes(lines, C, a.next, base \o a.text)
      <3> HIDE DEF base
      <3>1. QED
        BY <1>1, <2>4, SectionMakes
    <2>6. v = WriteSection(lines, w, p)
      BY <1>1, WrittenToAppend DEF N
    <2> HIDE DEF v, w
    <2>7. v.next = a.next /\ v.text = base \o a.text
      BY <2>6 DEF WriteSection
    <2>8. QED
      BY <2>5, <2>7
  <1>6. Understood(lines, C, N)
    <2> HIDE DEF C, N
    <2>1. QED
      BY <1>2, <1>3, <1>4, <1>5 DEF Understood
  <1>7. QED
    BY <1>6

\* getUpdatedFile makes what the sections say.
LEMMA UpdatedAsWritten ==
  ASSUME NEW lines, Len(lines) \in Nat, NEW chunks, NEW sections,
         Understood(lines, chunks, sections), Apart(lines, sections)
  PROVE  GetUpdatedFile(lines, chunks).new = Rewritten(lines, sections)
  <1> DEFINE w == WrittenTo(lines, sections)
             end == Len(lines) + 1
             n == Len(sections)
  <1>1. /\ chunks \in Seq(ChunkSet) /\ sections \in Seq(SectionSet) /\ end \in Int
        /\ Makes(lines, chunks, w.next, w.text) /\ n \in Nat
    BY DEF Understood
  <1>2. /\ w.next \in Int
        /\ w.next = IF sections = <<>> THEN 1 ELSE AsWritten(lines, sections[n]).next
    BY <1>1, LastSection DEF WriteState
  <1>3. w.next <= end
    <2>1. CASE sections = <<>>
      BY <1>2, <2>1
    <2>2. CASE sections # <<>>
      <3>1. n \in 1 .. n
        BY <1>1, <2>2, EmptySeq
      <3>2. QED
        BY <1>2, <2>2, <3>1 DEF Understood
    <2>3. QED
      BY <2>1, <2>2
  <1> HIDE DEF w, end
  <1>4. Makes(lines, chunks, end, w.text \o SubSeq(lines, w.next, end - 1))
    BY <1>1, <1>2, <1>3, MakesKept
  <1>5. end - 1 = Len(lines)
    BY DEF end
  <1>6. QED
    BY <1>4, <1>5 DEF Makes, GetUpdatedFile, Rewritten, w

-----------------------------------------------------------------------------
(* The search for the lines of a section.                                  *)

\* A set of numbers has a least one.
LEMMA LeastOne == ASSUME NEW S, S \subseteq Nat, S # {} PROVE Min(S) \in S
  <1> DEFINE R == {ss \in Nat \X Nat : ss[1] < ss[2]}
  <1>1. IsWellFoundedOn(R, Nat)
    BY NatLessThanWellFounded DEF OpToRel
  <1>2. \E x \in S : \A y \in S : ~(<<y, x>> \in R)
    <2> HIDE DEF R
    <2>1. QED
      BY <1>1, WFMin
  <1>3. PICK x \in S : \A y \in S : ~(y < x)
    BY <1>2
  <1>4. \A y \in S : x <= y
    BY <1>3
  <1>5. QED
    BY <1>4 DEF Min

\* What findContextCore finds is in the file.
LEMMA CoreFinds ==
  ASSUME NEW lines \in Seq(FileLines), NEW ctx \in Seq(FileLines),
         NEW start \in Nat \ {0}, start <= Len(lines) + 1,
         FindContextCore(lines, ctx, start) # 0
  PROVE  LET m == FindContextCore(lines, ctx, start)
         IN  m \in Nat \ {0} /\ m + Len(ctx) <= Len(lines) + 1
  <1> DEFINE last == Len(lines) - Len(ctx) + 1
             At(level) == {i \in start .. last : MatchesAt(lines, ctx, level, i)}
             levels == {l \in 0 .. 2 : At(l) # {}}
             m == FindContextCore(lines, ctx, start)
  <1>1. Len(lines) \in Nat /\ Len(ctx) \in Nat
    OBVIOUS
  <1>2. m = IF ctx = <<>> THEN start ELSE IF levels = {} THEN 0 ELSE Min(At(Min(levels)))
    BY Zenon DEF FindContextCore
  <1>3. CASE ctx = <<>>
    BY <1>1, <1>2, <1>3
  <1>4. CASE ctx # <<>>
    <2> DEFINE least == Min(levels)
    <2>1. levels # {} /\ levels \subseteq Nat
      BY <1>2, <1>4
    <2>2. least \in levels
      <3> HIDE DEF levels
      <3>1. QED
        BY <2>1, LeastOne
    <2>3. At(least) # {} /\ At(least) \subseteq start .. last
      BY <2>2
    <2>4. m = Min(At(least))
      BY <1>2, <1>4, <2>1
    <2> HIDE DEF m, At
    <2>5. m \in At(least)
      <3>1. start .. last \subseteq Nat
        BY <1>1
      <3> HIDE DEF last
      <3>2. At(least) \subseteq Nat
        BY <2>3, <3>1
      <3>3. QED
        BY <2>3, <2>4, <3>2, LeastOne
    <2>6. m \in start .. last
      BY <2>3, <2>5
    <2>7. QED
      BY <1>1, <2>6 DEF m
  <1>5. QED
    BY <1>3, <1>4

\* What findContext finds is in the file, unless the context is longer than the file
\* at whose end it is sought.
LEMMA ContextFinds ==
  ASSUME NEW lines \in Seq(FileLines), NEW ctx \in Seq(FileLines),
         NEW start \in Nat \ {0}, start <= Len(lines) + 1, NEW eof \in BOOLEAN,
         ~(eof /\ Len(ctx) > Len(lines)), FindContext(lines, ctx, start, eof) # 0
  PROVE  LET m == FindContext(lines, ctx, start, eof)
         IN  m \in Nat \ {0} /\ m + Len(ctx) <= Len(lines) + 1
  <1> DEFINE from == Len(lines) - Len(ctx) + 1
             end  == FindContextCore(lines, ctx, from)
             last == IF eof THEN end ELSE 0
             core == FindContextCore(lines, ctx, start)
             m    == FindContext(lines, ctx, start, eof)
  <1>1. m = IF last > 0 THEN last ELSE core
    BY DEF FindContext
  <1>2. CASE last > 0
    <2>1. eof /\ m = end /\ end # 0
      BY <1>1, <1>2
    <2>2. from \in Nat \ {0} /\ from <= Len(lines) + 1
      BY <2>1
    <2> HIDE DEF from, m
    <2>3. end \in Nat \ {0} /\ end + Len(ctx) <= Len(lines) + 1
      BY <2>1, <2>2, CoreFinds
    <2>4. QED
      BY <2>1, <2>3 DEF m
  <1>3. CASE ~(last > 0)
    <2>1. m = core
      BY <1>1, <1>3
    <2> HIDE DEF m
    <2>2. core \in Nat \ {0} /\ core + Len(ctx) <= Len(lines) + 1
      BY <2>1, CoreFinds DEF m
    <2>3. QED
      BY <2>1, <2>2 DEF m
  <1>4. QED
    BY <1>2, <1>3

-----------------------------------------------------------------------------
(* The texts.                                                              *)

\* The files loaded are those of the call, the chunks of every update parsed, or being
\* parsed, make what its sections say, and so do the changes of the commit.
TextInv ==
    /\ \A p \in DOMAIN before : before[p] \in Seq(FileLines)
    /\ \A p \in DOMAIN orig : p \in DOMAIN before /\ orig[p] = before[p]
    /\ pc \in {"approve", "load"} => actions = None
    /\ pc = "update" =>
          /\ cur.path \in DOMAIN orig
          /\ cur.idx \in 1 .. Len(orig[cur.path]) + 1
          /\ Understood(orig[cur.path], cur.chunks, cur.sections)
    /\ \A p \in DOMAIN actions : actions[p].type = "update" =>
          p \in DOMAIN orig /\ Understood(orig[p], actions[p].chunks, actions[p].sections)
    /\ \A p \in DOMAIN commit : commit[p].type = "update" =>
          /\ p \in DOMAIN actions /\ actions[p].type = "update"
          /\ Apart(before[p], actions[p].sections) =>
                commit[p].new = Contents(Rewritten(before[p], actions[p].sections))

Inv == ParseInv /\ NameInv /\ CallInv /\ ApplyInv /\ TextInv

\* A round of parseUpdateFile leaves an update as its sections say.
LEMMA SectionText ==
  ASSUME ParseInv, NameInv, TextInv, Section
  PROVE  TextInv'
  <1> DEFINE first == IF patch[index].tag = "@@" THEN index + 1 ELSE index
             stop  == NextWith(first, StopTags)
             body  == SubSeq(patch, first, stop - 1)
             eof   == patch[stop].tag = "eof"
             lines == orig[cur.path]
             peek  == PeekNextSection(body)
             m     == FindContext(lines, peek.old, cur.idx, eof)
             p     == [at |-> m, body |-> body]
  <1>1. CASE pc' \in {"failed", "panicked"} /\ UNCHANGED <<before, orig, actions, commit>>
    BY <1>1 DEF TextInv
  <1>2. CASE /\ cur'.path = cur.path /\ cur'.idx = m + Len(peek.old)
             /\ cur'.chunks = cur.chunks \o Placed(peek.chunks, m)
             /\ cur'.sections = Append(cur.sections, p)
             /\ m # 0 /\ ~(eof /\ Len(peek.old) > Len(lines))
             /\ UNCHANGED <<pc, before, orig, actions, commit>>
    <2>1. pc = "update" /\ patch[index].tag # "end"
      BY DEF Section, DoneTags
    <2>2. /\ lines \in Seq(FileLines) /\ cur.idx \in 1 .. Len(lines) + 1
          /\ Understood(lines, cur.chunks, cur.sections) /\ cur.path \in DOMAIN orig
      BY <2>1 DEF TextInv
    <2>3. body \in Seq(PatchLines)
      <3>1. /\ index \in Nat \ {0} /\ Ends # {} /\ \A e \in Ends : index <= e
            /\ patch \in Seq(PatchLines)
        BY <2>1 DEF ParseInv
      <3>2. first \in Nat \ {0} /\ Ends # {} /\ \A e \in Ends : first <= e
        <4>1. \A e \in Ends : index + 1 <= e
          BY <2>1, <3>1 DEF Ends
        <4>2. QED
          BY <3>1, <4>1
      <3> HIDE DEF first
      <3>3. stop \in first .. Len(patch)
        <4>1. "end" \in StopTags
          BY DEF StopTags, DoneTags
        <4>2. QED
          BY <3>1, <3>2, <4>1, NextMarker
      <3> HIDE DEF stop
      <3>4. \A k \in first .. stop - 1 : patch[k] \in PatchLines
        BY <3>1, <3>2, <3>3
      <3>5. QED
        BY <3>2, <3>3, <3>4, SubSeqProperties
    <2> HIDE DEF body
    <2>4. peek.old \in Seq(FileLines)
      <3> DEFINE q == [at |-> 1, body |-> body]
      <3>1. q \in SectionSet /\ q.at >= 1 /\ q.body = body
        BY <2>3 DEF SectionSet
      <3> HIDE DEF q
      <3>2. PeekNextSection(q.body).old \in Seq(FileLines)
        BY <3>1, SectionEnd
      <3>3. QED
        BY <3>1, <3>2
    <2>5. m \in Nat \ {0} /\ m + Len(peek.old) <= Len(lines) + 1
      <3> DEFINE ctx == peek.old
                 start == cur.idx
      <3>1. /\ ctx \in Seq(FileLines) /\ start \in Nat \ {0} /\ start <= Len(lines) + 1
            /\ eof \in BOOLEAN /\ m # 0 /\ ~(eof /\ Len(ctx) > Len(lines))
        BY <1>2, <2>2, <2>4
      <3> HIDE DEF ctx, start, eof, lines
      <3>2. FindContext(lines, ctx, start, eof) # 0
        BY <3>1 DEF ctx, start
      <3>3. /\ FindContext(lines, ctx, start, eof) \in Nat \ {0}
            /\ FindContext(lines, ctx, start, eof) + Len(ctx) <= Len(lines) + 1
        BY <2>2, <3>1, <3>2, ContextFinds
      <3>4. QED
        BY <3>3 DEF ctx, start
    <2> HIDE DEF m, lines
    <2>6. p \in SectionSet /\ p.at = m /\ p.body = body /\ p.at >= 1
      BY <2>3, <2>5 DEF SectionSet
    <2>7. AsWritten(lines, p).next <= Len(lines) + 1
      <3> HIDE DEF p, peek
      <3>1. AsWritten(lines, p).next = p.at + Len(PeekNextSection(p.body).old)
        BY <2>6, SectionEnd
      <3>2. QED
        BY <2>5, <2>6, <3>1 DEF peek
    <2>8. Understood(lines, cur.chunks \o Placed(peek.chunks, m), Append(cur.sections, p))
      <3> HIDE DEF p, peek
      <3>1. Understood(lines, cur.chunks \o Placed(PeekNextSection(p.body).chunks, p.at),
                       Append(cur.sections, p))
        BY <2>2, <2>6, <2>7, UnderstoodAppend
      <3>2. QED
        BY <2>6, <3>1 DEF peek
    <2>9. /\ cur'.path = cur.path /\ cur'.idx = m + Len(peek.old)
          /\ cur'.chunks = cur.chunks \o Placed(peek.chunks, m)
          /\ cur'.sections = Append(cur.sections, p)
      BY <1>2
    <2>10. m + Len(peek.old) \in 1 .. Len(lines) + 1
      BY <2>2, <2>4, <2>5
    <2> HIDE DEF p, peek
    <2>11. /\ cur'.path \in DOMAIN orig' /\ lines = orig'[cur'.path]
           /\ cur'.idx \in 1 .. Len(lines) + 1
           /\ Understood(lines, cur'.chunks, cur'.sections)
      BY <1>2, <2>2, <2>8, <2>9, <2>10 DEF lines
    <2>12. QED
      BY <1>2, <2>1, <2>11 DEF TextInv
  <1>3. \/ pc' \in {"failed", "panicked"} /\ UNCHANGED <<before, orig, actions, commit>>
        \/ /\ cur'.path = cur.path /\ cur'.idx = m + Len(peek.old)
           /\ cur'.chunks = cur.chunks \o Placed(peek.chunks, m)
           /\ cur'.sections = Append(cur.sections, p)
           /\ m # 0 /\ ~(eof /\ Len(peek.old) > Len(lines))
           /\ UNCHANGED <<pc, before, orig, actions, commit>>
    BY SectionEffect DEF Fail, fileVars, parseVars, applyVars
  <1>4. QED
    BY <1>1, <1>2, <1>3

\* The new contents of an update are what its sections say.
LEMMA ChangeText ==
  ASSUME TextInv, NEW p \in DOMAIN actions, Change(p).type = "update",
         actions[p].type \in {"add", "delete", "update"}
  PROVE  /\ actions[p].type = "update"
         /\ Apart(before[p], actions[p].sections) =>
               Change(p).new = Contents(Rewritten(before[p], actions[p].sections))
  <1> DEFINE a == actions[p]
             u == GetUpdatedFile(orig[p], a.chunks)
             c == Contents(u.new)
             moves == a.move # ""
             target == IF a.move = "" THEN p ELSE a.move
  <1> HIDE DEF u, c, moves, target
  <1>1. a.type = "update"
    <2>1. CASE a.type = "delete"
      <3>1. Change(p) = [ok |-> TRUE, type |-> "delete", new |-> Missing, moves |-> FALSE, target |-> p]
        BY <2>1 DEF Change
      <3>2. QED
        BY <3>1
    <2>2. CASE a.type = "add"
      <3>1. Change(p) = [ok |-> a.new # Empty, type |-> "add", new |-> a.new,
                         moves |-> FALSE, target |-> p]
        BY <2>2 DEF Change
      <3>2. QED
        BY <3>1
    <2>3. QED
      BY <2>1, <2>2
  <1>2. Change(p) = [ok |-> u.ok, type |-> "update", new |-> c, moves |-> moves, target |-> target]
    BY <1>1 DEF Change, u, c, moves, target
  <1>3. Change(p).new = c
    BY <1>2
  <1>4. ASSUME Apart(before[p], a.sections)
        PROVE  u.new = Rewritten(before[p], a.sections)
    <2>1. /\ orig[p] = before[p] /\ before[p] \in Seq(FileLines)
          /\ Understood(before[p], a.chunks, a.sections)
      BY <1>1 DEF TextInv
    <2>2. Len(before[p]) \in Nat
      BY <2>1
    <2>3. GetUpdatedFile(before[p], a.chunks).new = Rewritten(before[p], a.sections)
      BY <1>4, <2>1, <2>2, UpdatedAsWritten
    <2>4. QED
      BY <2>1, <2>3 DEF u
  <1>5. QED
    BY <1>1, <1>3, <1>4 DEF c

\* What was understood and computed of the texts stays so.
LEMMA TextStep ==
  ASSUME ParseInv, NameInv, CallInv, TextInv, [Next]_vars
  PROVE  TextInv'
  <1> USE DEF fileVars, parseVars, applyVars
  <1>a. UNCHANGED before
    BY TextKept
  <1>1. CASE UNCHANGED <<orig, actions, commit>> /\ (pc' = "update" => pc = "update" /\ UNCHANGED cur)
                /\ (pc' \in {"approve", "load"} => pc \in {"approve", "load"})
    BY <1>a, <1>1 DEF TextInv
  <1>2. CASE Load
    <2>1. CASE Fail
      BY <1>1, <2>1 DEF Fail
    <2>2. CASE /\ orig' = [p \in Named({"update", "delete"}) |-> files[p]]
               /\ pc' = "parse" /\ UNCHANGED <<parseVars, applyVars>>
      <3>1. \A p \in Named({"update", "delete"}) : p \in DOMAIN before /\ files[p] = before[p]
        BY <1>2 DEF Load, CallInv, CollectPatchPaths, Named, FileTags
      <3>2. \A p \in DOMAIN orig' : p \in DOMAIN before /\ orig'[p] = before[p]
        BY <2>2, <3>1
      <3>3. actions = None /\ commit = None
        BY <1>2 DEF Load, CallInv, TextInv
      <3>4. QED
        BY <1>a, <2>2, <3>2, <3>3 DEF TextInv, None
    <2>3. QED
      BY <1>2, <2>1, <2>2 DEF Load
  <1>3. ASSUME NEW p, NEW a, actions' = Put(actions, p, a), UNCHANGED <<orig, commit>>,
               pc' = "parse", pc \in {"parse", "update"},
               a.type = "update" => p \in DOMAIN orig /\ Understood(orig[p], a.chunks, a.sections)
        PROVE  TextInv'
    <2>1. /\ DOMAIN actions' = DOMAIN actions \cup {p} /\ actions'[p] = a
          /\ \A q \in DOMAIN actions \ {p} : actions'[q] = actions[q]
      BY <1>3 DEF Put
    <2>2. commit = None
      BY <1>3 DEF CallInv
    <2>3. ASSUME NEW q \in DOMAIN actions', actions'[q].type = "update"
          PROVE  q \in DOMAIN orig /\ Understood(orig[q], actions'[q].chunks, actions'[q].sections)
      <3>1. CASE q = p
        BY <1>3, <2>1, <2>3, <3>1
      <3>2. CASE q # p
        <4>1. q \in DOMAIN actions /\ actions'[q] = actions[q]
          BY <2>1, <3>2
        <4>2. QED
          BY <2>3, <4>1 DEF TextInv
      <3>3. QED
        BY <3>1, <3>2
    <2>4. DOMAIN commit' = {}
      BY <1>3, <2>2 DEF None
    <2>5. QED
      BY <1>3, <1>a, <2>3, <2>4 DEF TextInv
  <1>4. CASE ParseDelete
    <2>1. CASE Fail
      BY <1>1, <2>1 DEF Fail
    <2>2. CASE Parsed(patch[index].path, [type |-> "delete"], index + 1)
      <3> DEFINE a == [type |-> "delete"]
      <3>1. a.type # "update"
        OBVIOUS
      <3>2. /\ actions' = Put(actions, patch[index].path, a) /\ UNCHANGED <<orig, commit>>
            /\ pc' = "parse" /\ pc \in {"parse", "update"}
        BY <1>4, <2>2 DEF ParseDelete, Parsed
      <3> HIDE DEF a
      <3>3. QED
        BY <1>3, <3>1, <3>2
    <2>3. QED
      BY <1>4, <2>1, <2>2 DEF ParseDelete
  <1>5. CASE ParseAdd
    <2> DEFINE end == NextWith(index + 1, DoneTags)
               new == Contents(LinesOf(SubSeq(patch, index + 1, end - 1)))
    <2>1. CASE Fail
      BY <1>1, <2>1 DEF Fail
    <2>2. CASE Parsed(patch[index].path, [type |-> "add", new |-> new], end)
      <3> DEFINE a == [type |-> "add", new |-> new]
      <3>1. a.type # "update"
        OBVIOUS
      <3> HIDE DEF a
      <3>2. /\ actions' = Put(actions, patch[index].path, a) /\ UNCHANGED <<orig, commit>>
            /\ pc' = "parse" /\ pc \in {"parse", "update"}
        BY <1>5, <2>2 DEF ParseAdd, Parsed, a
      <3>3. QED
        BY <1>3, <3>1, <3>2
    <2>3. QED
      BY <1>5, <2>1, <2>2 DEF ParseAdd
  <1>6. CASE ParseUpdate
    <2> DEFINE path == patch[index].path
               move == IF patch[index + 1].tag = "move" THEN patch[index + 1].path ELSE ""
    <2>1. CASE Fail
      BY <1>1, <2>1 DEF Fail
    <2>2. CASE /\ path \in DOMAIN orig /\ cur' = [NoCur EXCEPT !.path = path, !.move = move]
               /\ pc' = "update" /\ UNCHANGED <<orig, actions, commit>>
      <3>1. cur'.path = path /\ cur'.idx = 1 /\ cur'.chunks = <<>> /\ cur'.sections = <<>>
        BY <2>2 DEF NoCur
      <3>2. /\ orig'[cur'.path] \in Seq(FileLines) /\ cur'.path \in DOMAIN orig'
        BY <2>2, <3>1 DEF TextInv
      <3>3. cur'.idx \in 1 .. Len(orig'[cur'.path]) + 1
        BY <3>1, <3>2
      <3>4. Understood(orig'[cur'.path], cur'.chunks, cur'.sections)
        BY <3>1, UnderstoodInit
      <3>5. QED
        BY <1>a, <2>2, <3>2, <3>3, <3>4 DEF TextInv
    <2>3. QED
      BY <1>6, <2>1, <2>2 DEF ParseUpdate
  <1>7. CASE Section
    BY <1>7, SectionText
  <1>8. CASE EndUpdate
    <2> DEFINE a == [type |-> "update", move |-> cur.move, chunks |-> cur.chunks,
                     sections |-> cur.sections]
    <2>1. a.chunks = cur.chunks /\ a.sections = cur.sections
      OBVIOUS
    <2> HIDE DEF a
    <2>2. /\ actions' = Put(actions, cur.path, a) /\ UNCHANGED <<orig, commit>>
          /\ pc' = "parse" /\ pc = "update"
      BY <1>8 DEF EndUpdate, Parsed, a
    <2>3. cur.path \in DOMAIN orig /\ Understood(orig[cur.path], a.chunks, a.sections)
      BY <2>1, <2>2 DEF TextInv
    <2>4. QED
      BY <1>3, <2>2, <2>3
  <1>9. CASE PatchToCommit
    <2>1. CASE Fail
      BY <1>1, <2>1 DEF Fail
    <2>2. CASE /\ commit' = [p \in DOMAIN actions |-> Change(p)] /\ pc' = "apply"
               /\ UNCHANGED <<orig, actions>>
      <3>1. DOMAIN commit' = DOMAIN actions /\ \A p \in DOMAIN actions : commit'[p] = Change(p)
        BY <2>2
      <3>2. ASSUME NEW p \in DOMAIN commit', commit'[p].type = "update"
            PROVE  /\ p \in DOMAIN actions /\ actions[p].type = "update"
                   /\ Apart(before[p], actions[p].sections) =>
                         commit'[p].new = Contents(Rewritten(before[p], actions[p].sections))
        <4>1. p \in DOMAIN actions /\ Change(p).type = "update" /\ commit'[p] = Change(p)
          BY <3>1, <3>2
        <4>2. actions[p].type \in {"add", "delete", "update"}
          BY <4>1 DEF NameInv
        <4>3. QED
          BY <4>1, <4>2, ChangeText
      <3>3. QED
        BY <1>a, <2>2, <3>2 DEF TextInv
    <2>3. QED
      BY <1>9, <2>1, <2>2 DEF PatchToCommit
  <1>10. CASE Approve \/ ParseEnd \/ ParseUnknown
    BY <1>1, <1>10 DEF Approve, ParseEnd, ParseUnknown, Fail
  <1>11. CASE \/ \E p \in todo : ApplyDelete(p) \/ ApplyWrite(p) \/ ApplyWriteFails(p)
              \/ RemoveSource \/ ApplyFails \/ ApplyDone
    <2>1. UNCHANGED <<orig, actions, commit>> /\ pc' \notin {"update", "approve", "load"}
      BY <1>11 DEF ApplyDelete, ApplyWrite, ApplyWriteFails, RemoveSource, ApplyFails,
         ApplyDone, Fail, Wrote
    <2>2. QED
      BY <1>1, <2>1
  <1>12. CASE UNCHANGED vars
    BY <1>1, <1>12 DEF vars
  <1>13. QED
    BY <1>2, <1>4, <1>5, <1>6, <1>7, <1>8, <1>9, <1>10, <1>11, <1>12 DEF Next
-----------------------------------------------------------------------------
(* The theorems.                                                           *)

\* The initial states satisfy the invariant.
LEMMA InitInv == Init => Inv
  <1> SUFFICES ASSUME Init PROVE Inv
    OBVIOUS
  <1>1. PICK c \in Calls : patch = c.patch /\ files = c.files /\ before = c.files
    BY DEF Init
  <1>2. /\ patch \in Seq(PatchLines) /\ files = [p \in DOMAIN before |-> files[p]]
        /\ files = before /\ CollectPatchPaths \subseteq DOMAIN before
        /\ \A p \in DOMAIN before : before[p] \in Seq(FileLines)
    BY <1>1, PatchAssumption DEF CollectPatchPaths, Named
  <1>3. /\ pc = "approve" /\ index = 1 /\ todo = {} /\ cur = NoCur
        /\ actions = None /\ commit = None /\ orig = None
        /\ DOMAIN actions = {} /\ DOMAIN commit = {} /\ DOMAIN orig = {}
    BY DEF Init, None
  <1>4. ParseInv
    BY <1>2, <1>3 DEF ParseInv
  <1>5. NameInv
    BY <1>3 DEF NameInv, NoCur
  <1>6. CallInv
    BY <1>2, <1>3 DEF CallInv
  <1>7. ApplyInv
    BY <1>2, <1>3 DEF ApplyInv, MoveKeepsText, Targets
  <1>8. TextInv
    BY <1>2, <1>3 DEF TextInv
  <1>9. QED
    BY <1>4, <1>5, <1>6, <1>7, <1>8 DEF Inv

\* The parser stays in the text, the commit names files of the patch, its new texts are
\* those the patch asks for, and what is applied stays applied.
THEOREM InvCorrect == Spec => []Inv
  <1>1. Inv /\ [Next]_vars => Inv'
    BY ParseStep, NameStep, CallStep, ApplyStep, TextStep DEF Inv
  <1>2. QED
    BY InitInv, <1>1, PTL DEF Spec

\* However the application of a tidy patch ends, whatever the order of its changes
\* and wherever it fails, the text of a file that moves is somewhere.
THEOREM MoveCorrect == Spec => []MoveKeepsText
  <1>1. Inv => MoveKeepsText
    BY DEF Inv, ApplyInv
  <1>2. QED
    BY <1>1, InvCorrect, PTL

\* No file changes that the user was not asked about: the parser finds no path that
\* collectPatchPaths does not.
THEOREM OnlyApprovedCorrect == Spec => OnlyApprovedChange
  <1>1. ASSUME Inv, [Next]_vars
        PROVE  [\A q \in DOMAIN files : files'[q] # files[q] => q \in approved \ Outside]_vars
    <2>1. ASSUME UNCHANGED files
          PROVE  \A q \in DOMAIN files : files'[q] # files[q] => q \in approved \ Outside
      BY <2>1
    <2>2. CASE Reading
      BY <1>1, <2>1, <2>2, ReadingFrame DEF Inv
    <2>3. CASE PatchToCommit
      BY <2>1, <2>3 DEF PatchToCommit, Fail, fileVars
    <2>4. CASE \/ \E p \in todo : ApplyDelete(p) \/ ApplyWrite(p) \/ ApplyWriteFails(p)
               \/ RemoveSource \/ ApplyFails \/ ApplyDone
      <3>1. pc \in {"apply", "remove"} /\ todo \subseteq DOMAIN commit
        BY <1>1, <2>4, ApplyEffect DEF Inv, CallInv
      <3>2. \A p \in DOMAIN commit : {p, commit[p].target} \subseteq approved \ Outside
        BY <1>1, <3>1, TargetApproved DEF Inv, CallInv
      <3>3. ASSUME NEW p \in approved \ Outside, NEW text, Writes(p, text)
            PROVE  \A q \in DOMAIN files : files'[q] # files[q] => q \in approved \ Outside
        BY <3>3 DEF Writes
      <3>4. QED
        BY <1>1, <2>1, <2>4, <3>1, <3>2, <3>3, ApplyEffect DEF Inv
    <2>5. CASE UNCHANGED vars
      BY <2>5
    <2>6. QED
      BY <1>1, <2>2, <2>3, <2>4, <2>5 DEF Next, Reading
  <1>2. QED
    BY <1>1, InvCorrect, PTL DEF Spec, OnlyApprovedChange

\* Once processPatch returns without an error, every file is what the patch says, in
\* whatever order the changes of the map came: what peekNextSection reads from its
\* sections, findContext places in the file and getUpdatedFile computes is what their
\* author wrote.
THEOREM AppliedCorrect == Spec => []AppliedAsWritten
  <1>1. ASSUME Inv, pc = "done", Tidy,
               \A p \in DOMAIN actions :
                  actions[p].type = "update" => Apart(before[p], actions[p].sections),
               NEW q \in DOMAIN files
        PROVE  files[q] = Expected(q)
    <2> DEFINE to == {p \in DOMAIN commit : commit[p].target = q /\ commit[p].type # "delete"}
    <2>1. /\ \A p \in DOMAIN commit : Applied(p)
          /\ q \notin Concerned => files[q] = before[q]
      BY <1>1 DEF Inv, ApplyInv
    <2>2. \A p \in DOMAIN commit : /\ commit[p].type \in {"add", "delete", "update"}
                                   /\ ~commit[p].moves => commit[p].target = p
                                   /\ commit[p].type = "delete" =>
                                         commit[p].new = Missing /\ commit[p].target = p
      BY <1>1 DEF Inv, NameInv
    <2>3. CASE to = {}
      <3>1. Expected(q) = IF q \in DOMAIN commit THEN Missing ELSE before[q]
        BY <2>3 DEF Expected
      <3>2. q \in DOMAIN commit => files[q] = Missing
        BY <2>1, <2>2, <2>3 DEF Applied
      <3>3. q \notin DOMAIN commit => q \notin Concerned
        BY <2>2, <2>3 DEF Concerned
      <3>4. QED
        BY <2>1, <3>1, <3>2, <3>3
    <2>4. CASE to # {}
      <3> DEFINE p == CHOOSE r \in to : TRUE
      <3>1. p \in to
        BY <2>4
      <3>2. files[q] = commit[p].new
        BY <2>1, <3>1 DEF Applied
      <3>3. Expected(q) = IF commit[p].type = "add" THEN commit[p].new
                          ELSE Contents(Rewritten(before[p], actions[p].sections))
        BY <2>4 DEF Expected
      <3> HIDE DEF p
      <3>4. commit[p].type # "add" =>
                commit[p].new = Contents(Rewritten(before[p], actions[p].sections))
        BY <1>1, <2>2, <3>1 DEF Inv, TextInv
      <3>5. QED
        BY <3>2, <3>3, <3>4
    <2>5. QED
      BY <2>3, <2>4
  <1>2. Inv => AppliedAsWritten
    BY <1>1 DEF AppliedAsWritten
  <1>3. QED
    BY <1>2, InvCorrect, PTL
=============================================================================
