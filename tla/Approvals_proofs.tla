-------------------------- MODULE Approvals_proofs ---------------------------
(***************************************************************************)
(* Proofs about Approvals for any requests, processes and tool calls, with *)
(* failing writes and kills.                                               *)
(***************************************************************************)
EXTENDS Approvals, SequenceTheorems, WellFoundedInduction, TLAPS

-----------------------------------------------------------------------------
(* What a lookup may answer, for any store.                                *)

\* The provers do not know that a literal is a STRING.
Names == STRING \cup {"sandbox"}
Paths == Seq(Names)

\* What a request is about is a path.
LEMMA RequestPath ==
  ASSUME NEW r \in Requests
  PROVE  /\ r.kind \in Kinds /\ r.name \in Paths /\ r.name # <<>> /\ r.isDir \in BOOLEAN
         /\ r.kind \in {"fetch", "get", "post"} => Len(r.name) = 1
  BY RequestAssumption, SeqMonotonic DEF Paths, Names

\* A label speaks of this request, whatever it grants.
Suits(id, r) ==
    \/ id.target = "file"       /\ r.kind \in {"read", "write"} /\ ~r.isDir /\ id.domain = r.name
    \/ id.target = "directory"  /\ r.kind \in {"read", "write", "patch"}
                                /\ IsPrefix(id.domain, r.name)
    \/ id.target = "invocation" /\ r.kind = "exec" /\ id.domain = r.name
    \/ id.target = "command"    /\ r.kind = "exec" /\ id.domain[1] = r.name[1]
    \/ id.target = "domain"     /\ r.kind \in {"fetch", "get", "post"} /\ id.domain = r.name

\* A prefix agrees with the path name by name.
LEMMA PrefixMeans ==
  ASSUME NEW s \in Paths, NEW t \in Paths
  PROVE  IsPrefix(s, t) <=> Len(s) <= Len(t) /\ \A i \in 1 .. Len(s) : s[i] = t[i]
  <1>1. SubSeq(s, 1, Len(s)) = s
    BY SubSeqFull DEF Paths
  <1>2. ASSUME Len(s) <= Len(t)
        PROVE  /\ SubSeq(t, 1, Len(s)) \in Paths /\ Len(SubSeq(t, 1, Len(s))) = Len(s)
               /\ \A i \in 1 .. Len(s) : SubSeq(t, 1, Len(s))[i] = t[i]
    <2>1. Len(s) \in Nat /\ Len(t) \in Nat /\ \A i \in 1 .. Len(s) : t[i] \in Names
      BY <1>2, LenProperties, ElementOfSeq DEF Paths
    <2>2. /\ SubSeq(t, 1, Len(s)) \in Seq(Names)
          /\ Len(SubSeq(t, 1, Len(s))) = IF 1 <= Len(s) THEN Len(s) - 1 + 1 ELSE 0
          /\ \A i \in 1 .. Len(s) - 1 + 1 : SubSeq(t, 1, Len(s))[i] = t[1 + i - 1]
      BY <2>1, SubSeqProperties
    <2>3. QED
      BY <2>1, <2>2 DEF Paths
  <1>3. ASSUME Len(s) <= Len(t), \A i \in 1 .. Len(s) : s[i] = t[i]
        PROVE  s = SubSeq(t, 1, Len(s))
    BY <1>2, <1>3, SeqEqual DEF Paths
  <1>4. QED
    BY <1>1, <1>2, <1>3 DEF IsPrefix

\* What contains a directory contains what is in it.
LEMMA PrefixTrans ==
  ASSUME NEW s \in Paths, NEW t \in Paths, NEW u \in Paths, IsPrefix(s, t), IsPrefix(t, u)
  PROVE  IsPrefix(s, u)
  <1>1. Len(s) \in Nat /\ Len(t) \in Nat /\ Len(u) \in Nat
    BY LenProperties DEF Paths
  <1>2. Len(s) <= Len(t) /\ Len(t) <= Len(u)
    BY PrefixMeans
  <1>3. \A i \in 1 .. Len(s) : i \in 1 .. Len(t) /\ s[i] = t[i] /\ t[i] = u[i]
    BY <1>1, <1>2, PrefixMeans
  <1>4. QED
    BY <1>1, <1>2, <1>3, PrefixMeans

\* A path, and the directory it is in, are prefixes of it.
LEMMA PrefixOfPath ==
  ASSUME NEW t \in Paths, t # <<>>
  PROVE  /\ IsPrefix(t, t)
         /\ Front(t) \in Paths /\ IsPrefix(Front(t), t)
  <1>1. Len(t) \in Nat \ {0}
    BY EmptySeq DEF Paths
  <1>2. \A i \in 1 .. Len(t) : t[i] \in Names
    BY ElementOfSeq DEF Paths
  <1>3. /\ Front(t) \in Paths
        /\ \A i \in 1 .. Len(t) - 1 - 1 + 1 : Front(t)[i] = t[1 + i - 1]
    BY <1>1, <1>2, SubSeqProperties DEF Front, Paths
  <1>4. Len(Front(t)) = Len(t) - 1
    <2>1. Len(Front(t)) = IF 1 <= Len(t) - 1 THEN Len(t) - 1 - 1 + 1 ELSE 0
      BY <1>1, <1>2, SubSeqProperties DEF Front
    <2>2. QED
      BY <1>1, <2>1
  <1>5. \A i \in 1 .. Len(Front(t)) : Front(t)[i] = t[i]
    <2> SUFFICES ASSUME NEW i \in 1 .. Len(Front(t))
                 PROVE  Front(t)[i] = t[i]
      OBVIOUS
    <2>1. i \in 1 .. Len(t) - 1 - 1 + 1 /\ 1 + i - 1 = i
      BY <1>1, <1>4
    <2>2. QED
      BY <1>3, <2>1
  <1>6. QED
    BY <1>1, <1>3, <1>4, <1>5, PrefixMeans

\* The two choices, to read or to change, for one object.
Pair(id) == {Choice(id, {"read"}), Choice(id, {"read", "write"})}

\* A file tool offers choices for the file, unless it is a directory, and for the
\* directory it is in.
LEMMA FileOffers ==
  ASSUME NEW r \in Requests, r.kind \in {"read", "write"}
  PROVE  LET own == PolicyID("file", r.name)
             dir == PolicyID("directory", Dirname(r))
         IN  /\ ChoicesOf(r) \in Seq(Pair(own) \cup Pair(dir))
             /\ Range(ChoicesOf(r)) \subseteq Pair(dir) \cup (IF r.isDir THEN {} ELSE Pair(own))
  <1> DEFINE own == PolicyID("file", r.name)
             dir == PolicyID("directory", Dirname(r))
             Both(id) == (IF r.kind = "read" THEN <<Choice(id, {"read"})>> ELSE <<>>)
                             \o <<Choice(id, {"read", "write"})>>
             OfFile == IF r.isDir THEN <<>> ELSE Both(own)
             OfDir  == IF Dirname(r) = <<>> THEN <<>> ELSE Both(dir)
  <1>1. \A id : Both(id) \in Seq(Pair(id))
    <2> SUFFICES ASSUME NEW id
                 PROVE  Both(id) \in Seq(Pair(id))
      OBVIOUS
    <2>1. Choice(id, {"read"}) \in Pair(id) /\ Choice(id, {"read", "write"}) \in Pair(id)
      BY DEF Pair
    <2>2. <<Choice(id, {"read"})>> \in Seq(Pair(id))
      BY <2>1
    <2>3. <<Choice(id, {"read", "write"})>> \in Seq(Pair(id)) /\ <<>> \in Seq(Pair(id))
      BY <2>1
    <2>4. QED
      BY <2>2, <2>3, ConcatProperties
  <1> HIDE DEF Both
  <1>2. /\ OfFile \in Seq(Pair(own)) /\ Range(OfFile) \subseteq Pair(own)
        /\ r.isDir => Range(OfFile) = {}
        /\ OfDir \in Seq(Pair(dir)) /\ Range(OfDir) \subseteq Pair(dir)
    <2>1. OfFile \in Seq(Pair(own)) /\ OfDir \in Seq(Pair(dir))
      BY <1>1, EmptySeq
    <2>2. r.isDir => Range(OfFile) = {}
      BY DEF Range
    <2>3. QED
      BY <2>1, <2>2, RangeOfSeq
  <1>3. ChoicesOf(r) = OfFile \o OfDir
    BY DEF ChoicesOf, FileChoices, Both
  <1> HIDE DEF OfFile, OfDir
  <1>4. /\ OfFile \in Seq(Pair(own) \cup Pair(dir)) /\ OfDir \in Seq(Pair(own) \cup Pair(dir))
    BY <1>2, SeqMonotonic
  <1>5. /\ OfFile \o OfDir \in Seq(Pair(own) \cup Pair(dir))
        /\ Range(OfFile \o OfDir) = Range(OfFile) \cup Range(OfDir)
    BY <1>4, ConcatProperties, RangeConcatenation
  <1>6. QED
    BY <1>2, <1>3, <1>5

\* The choices are a sequence of what they are.
LEMMA ChoicesSeq ==
  ASSUME NEW r \in Requests
  PROVE  ChoicesOf(r) \in Seq(Range(ChoicesOf(r)))
  <1>1. \E S : ChoicesOf(r) \in Seq(S)
    <2>1. CASE r.kind \in {"read", "write"}
      BY <2>1, FileOffers
    <2>2. CASE r.kind = "patch"
      <3> DEFINE one == Choice(PolicyID("directory", r.name), {"read", "write"})
      <3>1. ChoicesOf(r) = <<one>>
        BY <2>2, RequestPath DEF ChoicesOf, PatchChoices
      <3> HIDE DEF one
      <3>2. <<one>> \in Seq({one})
        OBVIOUS
      <3>3. QED
        BY <3>1, <3>2
    <2>3. CASE r.kind = "exec"
      <3>1. ChoicesOf(r) \in Seq({Choice(PolicyID("invocation", r.name), {"exec"}),
                                  Choice(PolicyID("command", <<Head(r.name)>>), {"exec"})})
        BY <2>3 DEF ChoicesOf, CommandChoices
      <3>2. QED
        BY <3>1
    <2>4. CASE r.kind \in {"fetch", "get", "post"}
      <3> DEFINE one == Choice(PolicyID("domain", r.name), {"read", "write"})
      <3>1. ChoicesOf(r) = <<one>>
        BY <2>4 DEF ChoicesOf, WebChoices
      <3> HIDE DEF one
      <3>2. <<one>> \in Seq({one})
        OBVIOUS
      <3>3. QED
        BY <3>1, <3>2
    <2>5. CASE r.kind = "other"
      BY <2>5, EmptySeq DEF ChoicesOf
    <2>6. QED
      BY <2>1, <2>2, <2>3, <2>4, <2>5, RequestPath DEF Kinds
  <1>2. QED
    BY <1>1, SeqOfRange

\* The choices of a request are about the objects of the request.
LEMMA ChoicesSuit ==
  ASSUME NEW r \in Requests, NEW ch \in Range(ChoicesOf(r))
  PROVE  /\ ch = Choice(ch.id, ch.actions) /\ ch.actions \subseteq Actions
         /\ ch.id.domain \in Paths /\ Suits(ch.id, r)
  <1>1. /\ r.kind \in Kinds /\ r.name \in Paths /\ r.name # <<>> /\ r.isDir \in BOOLEAN
    BY RequestPath
  <1>2. CASE r.kind \in {"read", "write"}
    <2> DEFINE own == PolicyID("file", r.name)
               dir == PolicyID("directory", Dirname(r))
    <2>1. ch \in Pair(dir) \/ (ch \in Pair(own) /\ ~r.isDir)
      BY <1>2, FileOffers
    <2>2. Dirname(r) \in Paths /\ IsPrefix(Dirname(r), r.name)
      BY <1>1, PrefixOfPath DEF Dirname
    <2>3. QED
      BY <1>1, <1>2, <2>1, <2>2 DEF Pair, Choice, PolicyID, Actions, Suits
  <1>3. CASE r.kind = "patch"
    <2>1. ch = Choice(PolicyID("directory", r.name), {"read", "write"})
      BY <1>3 DEF ChoicesOf, PatchChoices, Range
    <2>2. QED
      BY <1>1, <1>3, <2>1, PrefixOfPath DEF Choice, PolicyID, Actions, Suits
  <1>4. CASE r.kind = "exec"
    <2>1. ch \in {Choice(PolicyID("invocation", r.name), {"exec"}),
                  Choice(PolicyID("command", <<Head(r.name)>>), {"exec"})}
      BY <1>4 DEF ChoicesOf, CommandChoices, Range
    <2>2. Head(r.name) = r.name[1] /\ <<Head(r.name)>> \in Paths
      BY <1>1, HeadTailProperties DEF Paths
    <2>3. QED
      BY <1>1, <1>4, <2>1, <2>2 DEF Choice, PolicyID, Actions, Suits
  <1>5. CASE r.kind \in {"fetch", "get", "post"}
    <2>1. ch = Choice(PolicyID("domain", r.name), {"read", "write"})
      BY <1>5 DEF ChoicesOf, WebChoices, Range
    <2>2. QED
      BY <1>1, <1>5, <2>1 DEF Choice, PolicyID, Actions, Suits
  <1>6. CASE r.kind = "other"
    BY <1>6 DEF ChoicesOf, Range
  <1>7. QED
    BY <1>1, <1>2, <1>3, <1>4, <1>5, <1>6 DEF Kinds

\* Every policy is about a path, and every choice that is offered can be stored.
LEMMA PolicyPaths ==
  /\ \A id \in PolicyIDs : id.domain \in Paths
  /\ \A r \in Requests : \A ch \in Range(ChoicesOf(r)) : ch.id \in PolicyIDs
  /\ Sandbox \in PolicyIDs
  <1>1. \A r \in Requests : \A ch \in Range(ChoicesOf(r)) : ch.id \in PolicyIDs
    BY DEF PolicyIDs
  <1>2. ASSUME NEW id \in PolicyIDs
        PROVE  id.domain \in Paths
    <2>1. CASE id = Sandbox
      <3>1. "sandbox" \in Names
        BY DEF Names
      <3>2. <<"sandbox">> \in Seq(Names)
        BY <3>1
      <3>3. QED
        BY <2>1, <3>2 DEF Sandbox, PolicyID, Paths
    <2>2. CASE id # Sandbox
      <3>1. PICK r \in Requests : \E ch \in Range(ChoicesOf(r)) : id = ch.id
        BY <2>2 DEF PolicyIDs
      <3>2. QED
        BY <3>1, ChoicesSuit
    <2>3. QED
      BY <2>1, <2>2
  <1>3. QED
    BY <1>1, <1>2 DEF PolicyIDs

\* Of the policies of the directories around a path one is the nearest.
LEMMA Nearest ==
  ASSUME NEW T \in SUBSET PolicyIDs, T # {}, NEW n \in Nat,
         \A a \in T : Len(a.domain) <= n
  PROVE  \E a \in T : \A b \in T : Len(b.domain) <= Len(a.domain)
  <1> DEFINE Gaps == {n - Len(a.domain) : a \in T}
  <1>1. \A a \in T : Len(a.domain) \in Nat
    BY PolicyPaths, LenProperties DEF Paths
  <1>2. Gaps \subseteq Nat /\ Gaps # {}
    BY <1>1
  <1>3. PICK x \in Gaps : \A y \in Gaps : ~(<<y, x>> \in {ss \in Nat \X Nat : ss[1] < ss[2]})
    <2> DEFINE R == {ss \in Nat \X Nat : ss[1] < ss[2]}
    <2>1. IsWellFoundedOn(R, Nat)
      BY NatLessThanWellFounded DEF OpToRel
    <2> HIDE DEF Gaps, R
    <2>2. \E x \in Gaps : \A y \in Gaps : ~(<<y, x>> \in R)
      BY <1>2, <2>1, WFMin
    <2>3. QED
      BY <2>2 DEF R
  <1>4. \A y \in Gaps : x <= y
    <2>1. ASSUME NEW y \in Gaps
          PROVE  x <= y
      <3>1. x \in Nat /\ y \in Nat
        BY <1>2
      <3>2. ~(y < x)
        BY <1>3, <3>1
      <3>3. QED
        BY <3>1, <3>2
    <2>2. QED
      BY <2>1
  <1>5. PICK a \in T : x = n - Len(a.domain)
    OBVIOUS
  <1>6. \A b \in T : n - Len(a.domain) <= n - Len(b.domain)
    BY <1>4, <1>5
  <1>7. QED
    BY <1>1, <1>6

\* The nearest of the stored policies around an object is one of them.
LEMMA CheckFinds ==
  ASSUME NEW d \in Policies, NEW id \in PolicyIDs, Check(d, id) # {}
  PROVE  \E a \in PolicyIDs : /\ Check(d, id) = d[a] /\ d[a] # {}
                              /\ a = id \/ a \in Ancestors(d, id)
  <1>1. CASE d[id] # {}
    BY <1>1 DEF Check
  <1>2. CASE d[id] = {}
    <2> DEFINE T == Ancestors(d, id)
               Best(a) == a \in T /\ \A b \in T : Len(b.domain) <= Len(a.domain)
    <2>1. T # {} /\ T \in SUBSET PolicyIDs
      BY <1>2 DEF Check, Ancestors
    <2>2. Len(id.domain) \in Nat /\ \A a \in T : Len(a.domain) <= Len(id.domain)
      BY PolicyPaths, LenProperties DEF Ancestors, Within, IsPrefix, Paths
    <2>3. \E a : Best(a)
      BY <2>1, <2>2, Nearest
    <2>4. Check(d, id) = d[CHOOSE a \in T : \A b \in T : Len(b.domain) <= Len(a.domain)]
      BY <1>2, <2>1 DEF Check
    <2>5. (CHOOSE a \in T : \A b \in T : Len(b.domain) <= Len(a.domain)) \in T
      BY <2>3
    <2>6. QED
      BY <2>1, <2>4, <2>5 DEF Ancestors
  <1>3. QED
    BY <1>1, <1>2

\* What a lookup allows for one of the choices of a request is allowed by a
\* stored policy whose label covers the request.
LEMMA CheckGrants ==
  ASSUME NEW d \in Policies, NEW r \in Requests, NEW ch \in Range(ChoicesOf(r)),
         RequiredActions(r) # {}, RequiredActions(r) \subseteq Check(d, ch.id)
  PROVE  \E a \in PolicyIDs : d[a] # {} /\ Grants(Choice(a, d[a]), r)
  <1>1. ch.id \in PolicyIDs /\ ch.id.domain \in Paths /\ Suits(ch.id, r)
    BY ChoicesSuit, PolicyPaths
  <1>2. /\ r.name \in Paths /\ r.kind \in Kinds
        /\ r.kind \in {"fetch", "get", "post"} => Len(r.name) = 1
    BY RequestPath
  <1>3. PICK a \in PolicyIDs : /\ Check(d, ch.id) = d[a] /\ d[a] # {}
                               /\ a = ch.id \/ a \in Ancestors(d, ch.id)
    BY <1>1, CheckFinds
  <1>4. Suits(a, r)
    <2>1. CASE a = ch.id
      BY <1>1, <2>1
    <2>2. CASE a \in Ancestors(d, ch.id)
      <3>1. /\ a.target = ch.id.target /\ a.target \in {"directory", "domain"}
            /\ a.domain \in Paths /\ a.domain # <<>> /\ IsPrefix(a.domain, ch.id.domain)
        BY <2>2, PolicyPaths DEF Ancestors, Within
      <3>2. CASE a.target = "directory"
        BY <1>1, <1>2, <3>1, <3>2, PrefixTrans DEF Suits
      <3>3. CASE a.target = "domain"
        <4>1. r.kind \in {"fetch", "get", "post"} /\ ch.id.domain = r.name
          BY <1>1, <3>1, <3>3 DEF Suits
        <4>2. Len(a.domain) \in Nat \ {0} /\ Len(r.name) = 1 /\ Len(r.name) \in Nat
          BY <1>2, <3>1, <4>1, EmptySeq DEF Paths
        <4>3. Len(a.domain) = 1 /\ a.domain[1] = r.name[1]
          <5>1. IsPrefix(a.domain, r.name)
            BY <3>1, <4>1
          <5>2. Len(a.domain) <= Len(r.name)
            BY <1>2, <3>1, <5>1, PrefixMeans
          <5>3. Len(a.domain) = 1
            <6>1. \A n \in Nat \ {0}, m \in Nat : m = 1 /\ n <= m => n = 1
              OBVIOUS
            <6>2. QED
              BY <4>2, <5>2, <6>1
          <5>4. \A i \in 1 .. Len(a.domain) : a.domain[i] = r.name[i]
            BY <1>2, <3>1, <5>1, PrefixMeans
          <5>5. QED
            BY <5>3, <5>4
        <4>4. a.domain = r.name
          BY <1>2, <3>1, <4>2, <4>3, SeqEqual DEF Paths
        <4>5. QED
          BY <3>3, <4>1, <4>4 DEF Suits
      <3>4. QED
        BY <3>1, <3>2, <3>3
    <2>3. QED
      BY <1>3, <2>1, <2>2
  <1>5. RequiredActions(r) \subseteq d[a]
    BY <1>3
  <1>6. QED
    BY <1>3, <1>4, <1>5 DEF Suits, Grants, Choice

-----------------------------------------------------------------------------
(* Nothing is ever allowed that was not granted.                           *)

Steps   == {"idle", "checking", "asking", "saving", "allowed", "stat"} \cup Persisting
ChoiceSet == [id : PolicyIDs, actions : SUBSET Actions]
Ops     == [pc : Steps, req : Requests, left : Seq(ChoiceSet), choice : ChoiceSet,
            covered : BOOLEAN, byUser : BOOLEAN, snap : Policies,
            fd : {"none", "tmp", "file", "gone"}]

TypeInv ==
    /\ up \subseteq Procs
    /\ data \in [Procs -> Policies]
    /\ lock \in [Procs -> Callers \cup {NoCaller}]
    /\ op \in [Agents -> Ops]
    /\ file \in Files /\ tmp \in Files
    /\ agreed \subseteq ChoiceSet /\ saved \subseteq agreed

\* The mutex is held exactly while its caller is in Save.
LockInv == \A p \in Procs, c \in Callers : lock[p] = c <=> op[<<p, c>>].pc \in Persisting

\* A store holds only what was granted.
Granted(d, A) == \A id \in PolicyIDs : d[id] # {} => Choice(id, d[id]) \in A

StoreInv == /\ \A p \in Procs : Granted(data[p], agreed)
            /\ Granted(file.map, agreed) /\ Granted(tmp.map, agreed)

\* What agent a does, when o is the state of it and A the grants that were chosen:
\* it looks only for choices of its own request, saves only a choice of the user,
\* and runs a tool only when the user or a grant allows it.
Sound(a, o, A) ==
    /\ IF a[2] = Setup THEN o.pc \in {"idle", "stat"} \cup Persisting ELSE o.pc # "stat"
    /\ Granted(o.snap, A)
    /\ o.pc \in {"saving"} \cup Persisting => o.choice \in A /\ (a[2] # Setup => o.byUser)
    /\ o.left # <<>> => /\ RequiredActions(o.req) # {}
                        /\ \A i \in 1 .. Len(o.left) : o.left[i] \in Range(ChoicesOf(o.req))
    /\ o.pc = "allowed" => o.byUser \/ \E g \in A : Grants(g, o.req)

OpInv == \A a \in Agents : Sound(a, op[a], agreed)

Inv == TypeInv /\ LockInv /\ StoreInv /\ OpInv

\* The types of the smallest values.
LEMMA SmallTypes ==
  /\ Idle \in Ops /\ NoPolicy \in Policies /\ NoChoice \in ChoiceSet
  /\ Absent \in Files /\ Blank \in Files /\ Torn \in Files
  /\ \A d \in Policies : Whole(d) \in Files /\ Whole(d).map = d
  /\ Absent.map = NoPolicy /\ Blank.map = NoPolicy /\ Torn.map = NoPolicy
  /\ Setup \notin Callers
  <1>1. NoPolicy \in Policies
    BY DEF NoPolicy, Policies
  <1>2. NoChoice \in ChoiceSet
    BY PolicyPaths DEF NoChoice, Choice, ChoiceSet
  <1>3. AnyRequest \in Requests
    BY RequestAssumption DEF AnyRequest
  <1>4. <<>> \in Seq(ChoiceSet)
    BY EmptySeq
  <1>5. Idle \in Ops
    BY <1>1, <1>2, <1>3, <1>4 DEF Idle, Ops, Steps
  <1>6. QED
    BY <1>1, <1>2, <1>5, ApprovalAssumption DEF Absent, Blank, Torn, Whole, Files, Setup

\* What the search goes through, and what the user may choose, can be stored.
LEMMA ChoiceTypes ==
  ASSUME NEW r \in Requests
  PROVE  /\ ChoicesOf(r) \in Seq(ChoiceSet)
         /\ Range(ChoicesOf(r)) \subseteq ChoiceSet
         /\ \A i \in 1 .. Len(ChoicesOf(r)) : ChoicesOf(r)[i] \in Range(ChoicesOf(r))
  <1>1. \A ch \in Range(ChoicesOf(r)) : ch \in ChoiceSet
    BY ChoicesSuit, PolicyPaths DEF ChoiceSet, Choice
  <1>2. ChoicesOf(r) \in Seq(Range(ChoicesOf(r)))
    BY ChoicesSeq
  <1>3. QED
    BY <1>1, <1>2, SeqMonotonic, ElementOfSeq

\* A grant stays one.
LEMMA GrantedMore ==
  ASSUME NEW A, NEW B, A \subseteq B
  PROVE  /\ \A d : Granted(d, A) => Granted(d, B)
         /\ \A a, o : Sound(a, o, A) => Sound(a, o, B)
  <1>1. \A d : Granted(d, A) => Granted(d, B)
    BY DEF Granted
  <1>2. QED
    BY <1>1 DEF Sound

\* One agent goes on.
LEMMA AgentStep ==
  ASSUME op \in [Agents -> Ops], OpInv, agreed \subseteq agreed',
         NEW a \in Agents, NEW o \in Ops, op' = [op EXCEPT ![a] = o], Sound(a, o, agreed')
  PROVE  /\ op' \in [Agents -> Ops] /\ OpInv'
         /\ \A b \in Agents : op'[b] = IF b = a THEN o ELSE op[b]
  <1>1. op' \in [Agents -> Ops] /\ \A b \in Agents : op'[b] = IF b = a THEN o ELSE op[b]
    OBVIOUS
  <1>2. \A b \in Agents : Sound(b, op[b], agreed')
    BY GrantedMore DEF OpInv
  <1>3. QED
    BY <1>1, <1>2 DEF OpInv

\* A step of one agent that touches neither the files nor the stores.
LEMMA QuietStep ==
  ASSUME Inv, NEW a \in Agents, NEW o \in Ops, op' = [op EXCEPT ![a] = o], Sound(a, o, agreed'),
         UNCHANGED <<up, data, lock, file, tmp, saved>>,
         agreed \subseteq agreed', agreed' \subseteq ChoiceSet,
         a[2] = Setup \/ (o.pc \in Persisting <=> op[a].pc \in Persisting)
  PROVE  Inv'
  <1>1. /\ op' \in [Agents -> Ops] /\ OpInv'
        /\ \A b \in Agents : op'[b] = IF b = a THEN o ELSE op[b]
    BY AgentStep DEF Inv, TypeInv
  <1>2. TypeInv'
    BY <1>1 DEF Inv, TypeInv
  <1>3. LockInv'
    <2> SUFFICES ASSUME NEW p \in Procs, NEW c \in Callers
                 PROVE  lock'[p] = c <=> op'[<<p, c>>].pc \in Persisting
      BY DEF LockInv
    <2>1. lock[p] = c <=> op[<<p, c>>].pc \in Persisting
      BY DEF Inv, LockInv
    <2>2. <<p, c>> \in Agents /\ (a[2] = Setup => <<p, c>> # a)
      BY SmallTypes DEF Agents
    <2>3. QED
      BY <1>1, <2>1, <2>2
  <1>4. StoreInv'
    BY GrantedMore DEF Inv, StoreInv
  <1>5. QED
    BY <1>1, <1>2, <1>3, <1>4 DEF Inv

\* What is known of an agent.
LEMMA AgentFacts ==
  ASSUME Inv, NEW a \in Agents
  PROVE  /\ op \in [Agents -> Ops] /\ op[a] \in Ops /\ Sound(a, op[a], agreed)
         /\ op[a].req \in Requests /\ op[a].snap \in Policies /\ op[a].choice \in ChoiceSet
         /\ op[a].left \in Seq(ChoiceSet) /\ op[a].pc \in Steps
         /\ agreed \subseteq ChoiceSet
  BY DEF Inv, TypeInv, OpInv, Ops

\* An idle agent is harmless.
LEMMA IdleSound ==
  ASSUME NEW a \in Agents, NEW A
  PROVE  Sound(a, Idle, A)
  BY DEF Sound, Idle, Granted, NoPolicy, Persisting

\* A tool call asks, is told by the store or the user, and returns.
LEMMA CallStep ==
  ASSUME Inv, NEW p \in Procs, NEW c \in Callers,
         \/ \E r \in Requests : Request(p, c, r)
         \/ CheckChoice(p, c) \/ Ask(p, c) \/ AnswerOnce(p, c) \/ AnswerNo(p, c)
         \/ \E ch \in Range(ChoicesOf(op[<<p, c>>].req)) : AnswerAlways(p, c, ch)
         \/ Return(p, c)
  PROVE  Inv'
  <1> DEFINE a == <<p, c>>
  <1>0. /\ a \in Agents /\ a[2] # Setup /\ a[2] = c
        /\ op \in [Agents -> Ops] /\ op[a] \in Ops /\ Sound(a, op[a], agreed)
        /\ op[a].req \in Requests /\ op[a].snap \in Policies /\ op[a].choice \in ChoiceSet
        /\ op[a].left \in Seq(ChoiceSet) /\ op[a].pc \in Steps
        /\ agreed \subseteq ChoiceSet
    <2>1. a \in Agents /\ a[2] # Setup /\ a[2] = c
      BY SmallTypes DEF Agents
    <2>2. QED
      BY <2>1, AgentFacts
  <1>1. ASSUME NEW r \in Requests, Request(p, c, r)
        PROVE  Inv'
    <2> DEFINE o == [Idle EXCEPT !.pc = "checking", !.req = r,
                             !.left = IF RequiredActions(r) = {} THEN <<>> ELSE ChoicesOf(r),
                             !.covered = \E g \in saved : Grants(g, r)]
    <2>1. op' = [op EXCEPT ![a] = o] /\ op[a].pc = "idle"
      BY <1>1 DEF Request
    <2>2. (IF RequiredActions(r) = {} THEN <<>> ELSE ChoicesOf(r)) \in Seq(ChoiceSet)
      BY ChoiceTypes, EmptySeq
    <2>3. (\E g \in saved : Grants(g, r)) \in BOOLEAN
      OBVIOUS
    <2>4. o \in Ops
      BY <2>2, <2>3, SmallTypes DEF Ops, Steps
    <2>5. /\ o.pc = "checking" /\ o.req = r /\ o.snap = NoPolicy
          /\ o.left = IF RequiredActions(r) = {} THEN <<>> ELSE ChoicesOf(r)
      BY DEF Idle
    <2>6. Sound(a, o, agreed)
      BY <1>0, <2>5, ChoiceTypes DEF Sound, Granted, NoPolicy, Persisting
    <2>7. QED
      BY <1>0, <1>1, <2>1, <2>4, <2>5, <2>6, QuietStep DEF Request, Persisting
  <1>2. CASE CheckChoice(p, c)
    <2> DEFINE r == op[a].req
               h == Head(op[a].left)
    <2>1. /\ op[a].pc = "checking" /\ op[a].left # <<>>
          /\ UNCHANGED <<up, data, lock, file, tmp, agreed, saved>>
      BY <1>2 DEF CheckChoice
    <2>2. /\ RequiredActions(r) # {}
          /\ \A i \in 1 .. Len(op[a].left) : op[a].left[i] \in Range(ChoicesOf(r))
      BY <1>0, <2>1 DEF Sound
    <2>3. /\ Len(op[a].left) \in Nat \ {0} /\ h = op[a].left[1]
          /\ Tail(op[a].left) \in Seq(ChoiceSet) /\ Len(Tail(op[a].left)) = Len(op[a].left) - 1
          /\ \A i \in 1 .. Len(Tail(op[a].left)) : Tail(op[a].left)[i] = op[a].left[i + 1]
      <3>1. Len(op[a].left) \in Nat \ {0}
        BY <1>0, <2>1, EmptySeq
      <3>2. /\ Tail(op[a].left) \in Seq(ChoiceSet) /\ Len(Tail(op[a].left)) = Len(op[a].left) - 1
            /\ \A i \in 1 .. Len(Tail(op[a].left)) : Tail(op[a].left)[i] = op[a].left[i + 1]
        BY <1>0, <2>1, HeadTailProperties
      <3>3. h = op[a].left[1]
        BY <1>0, <2>1
      <3>4. QED
        BY <3>1, <3>2, <3>3
    <2>4. CASE RequiredActions(r) \subseteq Check(data[p], h.id)
      <3> DEFINE o == [op[a] EXCEPT !.pc = "allowed", !.left = <<>>]
      <3>1. op' = [op EXCEPT ![a] = o]
        BY <1>2, <2>4 DEF CheckChoice
      <3>2. o \in Ops /\ o.pc = "allowed"
        BY <1>0, EmptySeq DEF Ops, Steps
      <3>3. \E g \in agreed : Grants(g, r)
        <4>1. h \in Range(ChoicesOf(r))
          BY <2>2, <2>3
        <4>2. data[p] \in Policies /\ Granted(data[p], agreed)
          BY DEF Inv, TypeInv, StoreInv
        <4>3. PICK id \in PolicyIDs : /\ data[p][id] # {}
                                      /\ Grants(Choice(id, data[p][id]), r)
          BY <1>0, <2>2, <2>4, <4>1, <4>2, CheckGrants
        <4>4. QED
          BY <4>2, <4>3 DEF Granted
      <3>4. o.snap = op[a].snap /\ o.req = r /\ o.left = <<>>
        BY <1>0 DEF Ops
      <3>5. Sound(a, o, agreed)
        BY <1>0, <3>2, <3>3, <3>4 DEF Sound, Persisting
      <3>6. QED
        BY <1>0, <2>1, <3>1, <3>2, <3>5, QuietStep DEF Persisting
    <2>5. CASE ~(RequiredActions(r) \subseteq Check(data[p], h.id))
      <3> DEFINE o == [op[a] EXCEPT !.left = Tail(op[a].left)]
      <3>1. op' = [op EXCEPT ![a] = o]
        <4>1. op' = [op EXCEPT ![a] = IF RequiredActions(r) \subseteq Check(data[p], h.id)
                                      THEN [op[a] EXCEPT !.pc = "allowed", !.left = <<>>]
                                      ELSE o]
          BY <1>2 DEF CheckChoice
        <4>2. (IF RequiredActions(r) \subseteq Check(data[p], h.id)
               THEN [op[a] EXCEPT !.pc = "allowed", !.left = <<>>] ELSE o) = o
          BY <2>5
        <4> HIDE DEF o
        <4>3. QED
          BY <4>1, <4>2
      <3>2. o \in Ops /\ o.pc = "checking"
        BY <1>0, <2>1, <2>3 DEF Ops, Steps
      <3>3. o.snap = op[a].snap /\ o.req = r /\ o.left = Tail(op[a].left)
        BY <1>0 DEF Ops
      <3>4. \A i \in 1 .. Len(o.left) : o.left[i] \in Range(ChoicesOf(r))
        <4>1. \A i \in 1 .. Len(Tail(op[a].left)) : i + 1 \in 1 .. Len(op[a].left)
          BY <2>3
        <4>2. QED
          BY <2>2, <2>3, <3>3, <4>1
      <3>5. Sound(a, o, agreed)
        BY <1>0, <2>2, <3>2, <3>3, <3>4 DEF Sound, Persisting
      <3>6. QED
        BY <1>0, <2>1, <3>1, <3>2, <3>5, QuietStep DEF Persisting
    <2>6. QED
      BY <2>4, <2>5
  <1>3. CASE Ask(p, c)
    <2> DEFINE o == IF ByProxy(op[a].req) THEN Idle ELSE [op[a] EXCEPT !.pc = "asking"]
    <2>1. op' = [op EXCEPT ![a] = o] /\ op[a].pc = "checking"
      BY <1>3 DEF Ask
    <2>2. o \in Ops /\ o.pc \in {"idle", "asking"}
      BY <1>0, SmallTypes DEF Ops, Steps, Idle
    <2>3. Sound(a, o, agreed)
      BY <1>0, IdleSound DEF Sound, Ops, Persisting
    <2>4. QED
      BY <1>0, <1>3, <2>1, <2>2, <2>3, QuietStep DEF Ask, Persisting
  <1>4. CASE AnswerOnce(p, c)
    <2> DEFINE o == [op[a] EXCEPT !.pc = "allowed", !.byUser = TRUE]
    <2>1. op' = [op EXCEPT ![a] = o] /\ op[a].pc = "asking"
      BY <1>4 DEF AnswerOnce
    <2>2. o \in Ops /\ o.pc = "allowed"
      BY <1>0 DEF Ops, Steps
    <2>3. Sound(a, o, agreed)
      BY <1>0 DEF Sound, Ops, Persisting
    <2>4. QED
      BY <1>0, <1>4, <2>1, <2>2, <2>3, QuietStep DEF AnswerOnce, Persisting
  <1>5. CASE AnswerNo(p, c) \/ Return(p, c)
    <2>1. op' = [op EXCEPT ![a] = Idle] /\ op[a].pc \in {"asking", "allowed"}
      BY <1>5 DEF AnswerNo, Return
    <2>2. Idle \in Ops /\ Idle.pc = "idle"
      BY SmallTypes DEF Idle
    <2>3. UNCHANGED <<up, data, lock, file, tmp, agreed, saved>>
      BY <1>5 DEF AnswerNo, Return
    <2>4. QED
      BY <1>0, <2>1, <2>2, <2>3, IdleSound, QuietStep DEF Persisting
  <1>6. ASSUME NEW ch \in Range(ChoicesOf(op[<<p, c>>].req)), AnswerAlways(p, c, ch)
        PROVE  Inv'
    <2> DEFINE o == [op[a] EXCEPT !.pc = "saving", !.byUser = TRUE, !.choice = ch]
    <2>1. op' = [op EXCEPT ![a] = o] /\ op[a].pc = "asking"
      BY <1>6 DEF AnswerAlways
    <2>2. ch \in ChoiceSet
      BY <1>0, ChoiceTypes
    <2>3. o \in Ops /\ o.pc = "saving"
      BY <1>0, <2>2 DEF Ops, Steps
    <2>4. agreed' = agreed \cup {ch}
      BY <1>6 DEF AnswerAlways
    <2>5. Sound(a, op[a], agreed')
      BY <1>0, <2>4, GrantedMore
    <2>6. Sound(a, o, agreed')
      BY <1>0, <2>4, <2>5 DEF Sound, Ops, Persisting
    <2>7. QED
      BY <1>0, <1>6, <2>1, <2>2, <2>3, <2>4, <2>6, QuietStep DEF AnswerAlways, Persisting
  <1>7. QED
    BY <1>1, <1>2, <1>3, <1>4, <1>5, <1>6

\* A step of one agent that changes files, and holds on to what it has.
LEMMA FileStep ==
  ASSUME Inv, NEW a \in Agents, NEW o \in Ops, op' = [op EXCEPT ![a] = o], Sound(a, o, agreed),
         UNCHANGED <<up, data, lock, agreed, saved>>,
         file' \in Files, tmp' \in Files, Granted(file'.map, agreed), Granted(tmp'.map, agreed),
         o.pc \in Persisting <=> op[a].pc \in Persisting
  PROVE  Inv'
  <1>1. /\ op' \in [Agents -> Ops] /\ OpInv'
        /\ \A b \in Agents : op'[b] = IF b = a THEN o ELSE op[b]
    BY AgentStep DEF Inv, TypeInv
  <1>2. TypeInv'
    BY <1>1 DEF Inv, TypeInv
  <1>3. LockInv'
    BY <1>1 DEF Inv, LockInv, Agents
  <1>4. StoreInv'
    BY DEF Inv, StoreInv
  <1>5. QED
    BY <1>1, <1>2, <1>3, <1>4 DEF Inv

\* Save puts the choice of the user into the store.
LEMMA SaveStep ==
  ASSUME Inv, NEW p \in Procs, NEW c \in Callers, Save(p, c)
  PROVE  Inv'
  <1> DEFINE a == <<p, c>>
             d == [data[p] EXCEPT ![op[a].choice.id] = op[a].choice.actions]
             o == [op[a] EXCEPT !.pc = "open", !.snap = d]
  <1>0. /\ a \in Agents /\ a[2] # Setup
        /\ op \in [Agents -> Ops] /\ op[a] \in Ops /\ Sound(a, op[a], agreed)
        /\ op[a].choice \in ChoiceSet /\ agreed \subseteq ChoiceSet
    <2>1. a \in Agents /\ a[2] # Setup
      BY SmallTypes DEF Agents
    <2>2. QED
      BY <2>1, AgentFacts
  <1>1. /\ op[a].pc = "saving" /\ lock[p] = NoCaller /\ lock' = [lock EXCEPT ![p] = c]
        /\ UNCHANGED <<up, file, tmp, agreed, saved>>
    BY DEF Save
  <1>2. op[a].choice \in agreed /\ op[a].byUser
    BY <1>0, <1>1 DEF Sound
  <1>3. /\ data \in [Procs -> Policies] /\ data[p] \in Policies
        /\ \A q \in Procs : Granted(data[q], agreed)
        /\ op[a].choice.id \in PolicyIDs /\ op[a].choice.actions \in SUBSET Actions
        /\ op[a].choice = Choice(op[a].choice.id, op[a].choice.actions)
    BY <1>0 DEF Inv, TypeInv, StoreInv, ChoiceSet, Choice
  <1>4. d \in Policies /\ Granted(d, agreed)
    <2>1. d \in Policies
      BY <1>3 DEF Policies
    <2>2. \A id \in PolicyIDs : d[id] = IF id = op[a].choice.id THEN op[a].choice.actions
                                                                ELSE data[p][id]
      BY <1>3 DEF Policies
    <2> HIDE DEF d
    <2>3. QED
      BY <1>2, <1>3, <2>1, <2>2 DEF Granted
  <1>5. data' = [data EXCEPT ![p] = d] /\ data'[p] = d
    BY <1>3 DEF Save
  <1>6. op' = [op EXCEPT ![a] = o]
    <2>1. op' = [op EXCEPT ![a] = [op[a] EXCEPT !.pc = "open", !.snap = data'[p]]]
      BY DEF Save
    <2> HIDE DEF d
    <2>2. QED
      BY <1>5, <2>1
  <1> HIDE DEF d
  <1>7. /\ o \in Ops /\ o.pc = "open" /\ o.snap = d /\ o.choice = op[a].choice
        /\ o.byUser = op[a].byUser /\ o.left = op[a].left /\ o.req = op[a].req
    BY <1>0, <1>4 DEF Ops, Steps, Persisting
  <1>8. Sound(a, o, agreed)
    BY <1>0, <1>1, <1>2, <1>4, <1>7 DEF Sound, Persisting
  <1> HIDE DEF o
  <1>9. /\ op' \in [Agents -> Ops] /\ OpInv'
        /\ \A b \in Agents : op'[b] = IF b = a THEN o ELSE op[b]
    BY <1>0, <1>1, <1>6, <1>7, <1>8, AgentStep DEF Inv
  <1>10. data' \in [Procs -> Policies] /\ \A q \in Procs : data'[q] = IF q = p THEN d ELSE data[q]
    BY <1>3, <1>4, <1>5
  <1>11. TypeInv'
    BY <1>1, <1>9, <1>10 DEF Inv, TypeInv
  <1>12. StoreInv'
    BY <1>1, <1>3, <1>4, <1>10 DEF Inv, StoreInv
  <1>13. LockInv'
    <2> SUFFICES ASSUME NEW q \in Procs, NEW e \in Callers
                 PROVE  lock'[q] = e <=> op'[<<q, e>>].pc \in Persisting
      BY DEF LockInv
    <2>1. /\ lock[q] = e <=> op[<<q, e>>].pc \in Persisting
          /\ lock[p] # e /\ lock \in [Procs -> Callers \cup {NoCaller}]
      BY <1>1, ApprovalAssumption DEF Inv, LockInv, TypeInv
    <2>2. <<q, e>> \in Agents
      BY DEF Agents
    <2>3. CASE q = p /\ e = c
      BY <1>1, <1>7, <1>9, <2>1, <2>2, <2>3 DEF Persisting
    <2>4. CASE q = p /\ e # c
      BY <1>1, <1>9, <2>1, <2>2, <2>4
    <2>5. CASE q # p
      BY <1>1, <1>9, <2>1, <2>2, <2>5
    <2>6. QED
      BY <2>3, <2>4, <2>5
  <1>14. QED
    BY <1>9, <1>11, <1>12, <1>13 DEF Inv

\* persist up to the rename.
LEMMA WriteStep ==
  ASSUME Inv, NEW a \in Agents, PersistOpen(a) \/ PersistWrite(a)
  PROVE  Inv'
  <1>0. /\ op \in [Agents -> Ops] /\ op[a] \in Ops /\ Sound(a, op[a], agreed)
        /\ op[a].snap \in Policies /\ agreed \subseteq ChoiceSet
        /\ file \in Files /\ tmp \in Files
        /\ Granted(file.map, agreed) /\ Granted(tmp.map, agreed)
        /\ Granted(NoPolicy, agreed) /\ Granted(op[a].snap, agreed)
    BY AgentFacts DEF Inv, TypeInv, StoreInv, Sound, Granted, NoPolicy
  <1>1. CASE PersistOpen(a)
    <2> DEFINE o == [op[a] EXCEPT !.pc = "write", !.fd = "tmp"]
    <2>1. /\ op[a].pc = "open" /\ op' = [op EXCEPT ![a] = o] /\ tmp' = Blank
          /\ UNCHANGED <<up, data, lock, file, agreed, saved>>
      BY <1>1 DEF PersistOpen
    <2>2. o \in Ops /\ o.pc = "write"
      BY <1>0 DEF Ops, Steps, Persisting
    <2>3. Sound(a, o, agreed)
      BY <1>0, <2>1 DEF Sound, Ops, Persisting
    <2>4. QED
      BY <1>0, <2>1, <2>2, <2>3, SmallTypes, FileStep DEF Persisting
  <1>2. CASE PersistWrite(a)
    <2> DEFINE o == [op[a] EXCEPT !.pc = "rename"]
    <2>1. /\ op[a].pc = "write" /\ op' = [op EXCEPT ![a] = o]
          /\ UNCHANGED <<up, data, lock, agreed, saved>>
          /\ tmp' = tmp \/ tmp' \in Overwrite(tmp, op[a].snap)
          /\ file' = file \/ file' \in Overwrite(file, op[a].snap)
      BY <1>2 DEF PersistWrite
    <2>2. o \in Ops /\ o.pc = "rename"
      BY <1>0 DEF Ops, Steps, Persisting
    <2>3. Sound(a, o, agreed)
      BY <1>0, <2>1 DEF Sound, Ops, Persisting
    <2>4. \A f : \A g \in Overwrite(f, op[a].snap) : g \in Files /\ Granted(g.map, agreed)
      BY <1>0, SmallTypes DEF Overwrite
    <2>5. QED
      BY <1>0, <2>1, <2>2, <2>3, <2>4, FileStep DEF Persisting
  <1>3. QED
    BY <1>1, <1>2

\* Save returns, whether or not the file was written.
LEMMA ReturnStep ==
  ASSUME Inv, NEW a \in Agents, op[a].pc \in Persisting, NEW fds \in [Agents -> Ops],
         \A b \in Agents : /\ fds[b].pc = op[b].pc /\ fds[b].snap = op[b].snap
                           /\ fds[b].choice = op[b].choice /\ fds[b].byUser = op[b].byUser
                           /\ fds[b].left = op[b].left /\ fds[b].req = op[b].req,
         NEW written \in BOOLEAN, SaveReturns(a, fds, written),
         UNCHANGED <<up, data, agreed>>,
         file' \in Files, tmp' \in Files, Granted(file'.map, agreed), Granted(tmp'.map, agreed)
  PROVE  Inv'
  <1> DEFINE o == IF a[2] = Setup THEN Idle
                  ELSE [fds[a] EXCEPT !.pc = "allowed", !.snap = NoPolicy, !.fd = "none"]
  <1>1. op' = [fds EXCEPT ![a] = o]
    BY DEF SaveReturns
  <1>2. /\ fds[a] \in Ops /\ op[a] \in Ops /\ Sound(a, op[a], agreed)
        /\ Granted(NoPolicy, agreed) /\ op[a].choice \in agreed
        /\ a[2] # Setup => op[a].byUser
    BY AgentFacts DEF Sound, Granted, NoPolicy
  <1>3. o \in Ops /\ o.pc = IF a[2] = Setup THEN "idle" ELSE "allowed"
    BY <1>2, SmallTypes DEF Ops, Steps, Idle
  <1>4. Sound(a, o, agreed)
    <2>1. CASE a[2] = Setup
      BY <2>1, IdleSound
    <2>2. CASE a[2] # Setup
      <3>1. /\ o.pc = "allowed" /\ o.snap = NoPolicy /\ o.byUser = fds[a].byUser
            /\ o.left = fds[a].left /\ o.req = fds[a].req
        BY <1>2, <2>2 DEF Ops
      <3>2. QED
        BY <1>2, <2>2, <3>1 DEF Sound, Persisting
    <2>3. QED
      BY <2>1, <2>2
  <1> HIDE DEF o
  <1>5. op' \in [Agents -> Ops] /\ \A b \in Agents : op'[b] = IF b = a THEN o ELSE fds[b]
    BY <1>1, <1>3
  <1>6. \A b \in Agents : Sound(b, fds[b], agreed)
    BY AgentFacts DEF Sound
  <1>7. OpInv'
    BY <1>4, <1>5, <1>6 DEF OpInv
  <1>8. TypeInv'
    <2>1. lock' \in [Procs -> Callers \cup {NoCaller}]
      BY DEF SaveReturns, Inv, TypeInv
    <2>2. saved' \subseteq agreed'
      BY <1>2 DEF SaveReturns, Inv, TypeInv
    <2>3. QED
      BY <1>5, <2>1, <2>2 DEF Inv, TypeInv
  <1>9. LockInv'
    <2> SUFFICES ASSUME NEW p \in Procs, NEW c \in Callers
                 PROVE  lock'[p] = c <=> op'[<<p, c>>].pc \in Persisting
      BY DEF LockInv
    <2>1. /\ lock[p] = c <=> op[<<p, c>>].pc \in Persisting
          /\ lock \in [Procs -> Callers \cup {NoCaller}]
          /\ <<p, c>> \in Agents
      BY DEF Inv, LockInv, TypeInv, Agents
    <2>2. CASE a[2] = Setup
      <3>1. lock' = lock /\ <<p, c>> # a
        BY <2>2, SmallTypes DEF SaveReturns
      <3>2. QED
        BY <1>5, <2>1, <3>1
    <2>3. CASE a[2] # Setup
      <3>1. PICK q \in Procs, e \in Callers : a = <<q, e>>
        BY <2>3 DEF Agents
      <3>2. lock' = [lock EXCEPT ![q] = NoCaller] /\ lock[q] = e
        BY <2>3, <3>1 DEF SaveReturns, Inv, LockInv
      <3>3. CASE p = q /\ c = e
        BY <1>3, <1>5, <2>1, <2>3, <3>1, <3>2, <3>3, ApprovalAssumption DEF Persisting
      <3>4. CASE p = q /\ c # e
        BY <1>5, <2>1, <3>1, <3>2, <3>4, ApprovalAssumption
      <3>5. CASE p # q
        BY <1>5, <2>1, <3>1, <3>2, <3>5
      <3>6. QED
        BY <3>3, <3>4, <3>5
    <2>4. QED
      BY <2>2, <2>3
  <1>10. StoreInv'
    BY DEF Inv, StoreInv
  <1>11. QED
    BY <1>7, <1>8, <1>9, <1>10 DEF Inv

\* The rename, and every failure.
LEMMA EndStep ==
  ASSUME Inv, NEW a \in Agents, PersistRename(a) \/ PersistFail(a)
  PROVE  Inv'
  <1>0. /\ op \in [Agents -> Ops] /\ file \in Files /\ tmp \in Files
        /\ Granted(file.map, agreed) /\ Granted(tmp.map, agreed)
        /\ Granted(Absent.map, agreed) /\ Granted(Torn.map, agreed)
        /\ UNCHANGED <<up, data, agreed>> /\ op[a].pc \in Persisting
    <2>1. UNCHANGED <<up, data, agreed>> /\ op[a].pc \in Persisting
      BY DEF PersistRename, PersistFail, Persisting
    <2>2. Granted(NoPolicy, agreed)
      BY DEF Granted, NoPolicy
    <2>3. QED
      BY <2>1, <2>2, SmallTypes DEF Inv, TypeInv, StoreInv
  <1>1. CASE PersistFail(a)
    <2>1. /\ SaveReturns(a, op, FALSE)
          /\ tmp' \in {tmp, Torn} /\ file' \in {file, Torn}
      BY <1>1 DEF PersistFail
    <2>2. QED
      BY <1>0, <2>1, SmallTypes, ReturnStep
  <1>2. CASE PersistRename(a) /\ tmp = Absent
    <2>1. SaveReturns(a, op, FALSE) /\ UNCHANGED <<file, tmp>>
      BY <1>2 DEF PersistRename
    <2>2. QED
      BY <1>0, <2>1, ReturnStep
  <1>3. CASE PersistRename(a) /\ tmp # Absent
    <2> DEFINE fds == [b \in Agents |-> [op[b] EXCEPT !.fd =
                         CASE @ = "tmp" -> "file" [] @ = "file" -> "gone" [] OTHER -> @]]
    <2>1. SaveReturns(a, fds, TRUE) /\ file' = tmp /\ tmp' = Absent
      BY <1>3 DEF PersistRename
    <2>2. \A b \in Agents :
            /\ fds[b] \in Ops
            /\ fds[b].pc = op[b].pc /\ fds[b].snap = op[b].snap
            /\ fds[b].choice = op[b].choice /\ fds[b].byUser = op[b].byUser
            /\ fds[b].left = op[b].left /\ fds[b].req = op[b].req
      BY <1>0 DEF Ops
    <2>3. fds \in [Agents -> Ops]
      BY <2>2
    <2> HIDE DEF fds
    <2>4. QED
      BY <1>0, <2>1, <2>2, <2>3, SmallTypes, ReturnStep
  <1>4. QED
    BY <1>1, <1>2, <1>3

\* First-time setup, up to its Save.
LEMMA SetupStep ==
  ASSUME Inv, NEW p \in Procs, SetupStat(p) \/ SetupLoad(p)
  PROVE  Inv'
  <1> DEFINE a == <<p, Setup>>
  <1>0. /\ a \in Agents /\ a[2] = Setup
        /\ op \in [Agents -> Ops] /\ op[a] \in Ops /\ Sound(a, op[a], agreed)
        /\ agreed \subseteq ChoiceSet
    <2>1. a \in Agents /\ a[2] = Setup
      BY DEF Agents
    <2>2. QED
      BY <2>1, AgentFacts
  <1>1. CASE SetupStat(p)
    <2> DEFINE o == [op[a] EXCEPT !.pc = "stat"]
    <2>1. op' = [op EXCEPT ![a] = o] /\ op[a].pc = "idle"
      BY <1>1 DEF SetupStat
    <2>2. o \in Ops /\ o.pc = "stat"
      BY <1>0 DEF Ops, Steps
    <2>3. Sound(a, o, agreed)
      BY <1>0, <2>1 DEF Sound, Ops, Persisting
    <2>4. QED
      BY <1>0, <1>1, <2>1, <2>2, <2>3, QuietStep DEF SetupStat
  <1>2. CASE SetupLoad(p)
    <2> DEFINE ch == Choice(Sandbox, {"read", "write"})
               d  == [file.map EXCEPT ![Sandbox] = ch.actions]
               o  == [op[a] EXCEPT !.pc = "open", !.choice = ch, !.snap = d]
    <2>1. op[a].pc = "stat" /\ UNCHANGED <<up, data, lock, file, tmp, saved>>
      BY <1>2 DEF SetupLoad
    <2>2. CASE op' = [op EXCEPT ![a] = Idle] /\ agreed' = agreed
      BY <1>0, <2>1, <2>2, SmallTypes, IdleSound, QuietStep
    <2>3. CASE op' = [op EXCEPT ![a] = o] /\ agreed' = agreed \cup {ch}
      <3>1. file.map \in Policies /\ Granted(file.map, agreed)
        BY DEF Inv, TypeInv, StoreInv, Files
      <3>2. ch \in ChoiceSet /\ ch.actions = {"read", "write"} /\ ch.actions \in SUBSET Actions
        BY PolicyPaths DEF Choice, ChoiceSet, Actions
      <3>3. /\ d \in Policies
            /\ \A id \in PolicyIDs : d[id] = IF id = Sandbox THEN ch.actions ELSE file.map[id]
        BY <3>1, <3>2 DEF Policies
      <3>4. ch = Choice(Sandbox, ch.actions)
        BY <3>2
      <3> HIDE DEF d, ch
      <3>5. Granted(d, agreed')
        BY <2>3, <3>1, <3>3, <3>4 DEF Granted
      <3>6. o \in Ops /\ o.pc = "open" /\ o.snap = d /\ o.choice = ch
            /\ o.left = op[a].left /\ o.req = op[a].req
        BY <1>0, <3>2, <3>3 DEF Ops, Steps, Persisting
      <3>7. Sound(a, o, agreed')
        BY <1>0, <2>3, <3>5, <3>6 DEF Sound, Persisting
      <3>8. QED
        BY <1>0, <2>1, <2>3, <3>2, <3>6, <3>7, QuietStep
    <2>4. QED
      BY <1>2, <2>2, <2>3 DEF SetupLoad
  <1>3. QED
    BY <1>1, <1>2

\* A process comes up with what approvals.json holds.
LEMMA StartStep ==
  ASSUME Inv, NEW p \in Procs, Start(p)
  PROVE  Inv'
  <1>1. /\ data \in [Procs -> Policies] /\ file.map \in Policies /\ Granted(file.map, agreed)
        /\ \A q \in Procs : Granted(data[q], agreed)
    BY DEF Inv, TypeInv, StoreInv, Files
  <1>2. /\ up' = up \cup {p} /\ data' = [data EXCEPT ![p] = file.map]
        /\ UNCHANGED <<lock, op, file, tmp, agreed, saved>>
    BY DEF Start
  <1>3. /\ data' \in [Procs -> Policies]
        /\ \A q \in Procs : data'[q] = IF q = p THEN file.map ELSE data[q]
    BY <1>1, <1>2
  <1>4. TypeInv'
    BY <1>2, <1>3 DEF Inv, TypeInv
  <1>5. LockInv' /\ OpInv'
    BY <1>2 DEF Inv, LockInv, OpInv
  <1>6. StoreInv'
    BY <1>1, <1>2, <1>3 DEF Inv, StoreInv
  <1>7. QED
    BY <1>4, <1>5, <1>6 DEF Inv

\* A process that is killed leaves the files as they are.
LEMMA KillStep ==
  ASSUME Inv, NEW p \in Procs, Kill(p)
  PROVE  Inv'
  <1>1. /\ data \in [Procs -> Policies] /\ op \in [Agents -> Ops]
        /\ lock \in [Procs -> Callers \cup {NoCaller}]
        /\ \A q \in Procs : Granted(data[q], agreed)
        /\ Granted(NoPolicy, agreed)
    BY DEF Inv, TypeInv, StoreInv, Granted, NoPolicy
  <1>2. /\ up' = up \ {p} /\ data' = [data EXCEPT ![p] = NoPolicy]
        /\ lock' = [lock EXCEPT ![p] = NoCaller]
        /\ op' = [a \in Agents |-> IF a[1] = p THEN Idle ELSE op[a]]
        /\ UNCHANGED <<file, tmp, agreed, saved>>
    BY DEF Kill
  <1>3. /\ data' \in [Procs -> Policies]
        /\ \A q \in Procs : data'[q] = IF q = p THEN NoPolicy ELSE data[q]
        /\ op' \in [Agents -> Ops]
        /\ lock' \in [Procs -> Callers \cup {NoCaller}]
    BY <1>1, <1>2, SmallTypes
  <1>4. TypeInv'
    BY <1>2, <1>3 DEF Inv, TypeInv
  <1>5. LockInv'
    <2> SUFFICES ASSUME NEW q \in Procs, NEW c \in Callers
                 PROVE  lock'[q] = c <=> op'[<<q, c>>].pc \in Persisting
      BY DEF LockInv
    <2>1. <<q, c>> \in Agents /\ c # NoCaller /\ (lock[q] = c <=> op[<<q, c>>].pc \in Persisting)
      BY ApprovalAssumption DEF Agents, Inv, LockInv
    <2>2. CASE q = p
      BY <1>1, <1>2, <2>1, <2>2 DEF Idle, Persisting
    <2>3. CASE q # p
      BY <1>1, <1>2, <2>1, <2>3
    <2>4. QED
      BY <2>2, <2>3
  <1>6. OpInv'
    BY <1>2, IdleSound DEF Inv, OpInv
  <1>7. StoreInv'
    BY <1>1, <1>2, <1>3 DEF Inv, StoreInv
  <1>8. QED
    BY <1>4, <1>5, <1>6, <1>7 DEF Inv

\* Nothing is granted at first.
LEMMA InitInv == Init => Inv
  <1> SUFFICES ASSUME Init
               PROVE  Inv
    OBVIOUS
  <1>1. /\ up = {} /\ data = [p \in Procs |-> NoPolicy] /\ lock = [p \in Procs |-> NoCaller]
        /\ op = [a \in Agents |-> Idle] /\ file = Absent /\ tmp = Absent
        /\ agreed = {} /\ saved = {}
    BY DEF Init
  <1>2. TypeInv
    BY <1>1, SmallTypes DEF TypeInv
  <1>3. LockInv
    BY <1>1, ApprovalAssumption DEF LockInv, Idle, Persisting, Agents
  <1>4. StoreInv
    BY <1>1, SmallTypes DEF StoreInv, Granted, NoPolicy
  <1>5. OpInv
    BY <1>1, IdleSound DEF OpInv
  <1>6. QED
    BY <1>2, <1>3, <1>4, <1>5 DEF Inv

LEMMA InvStep == Inv /\ [Next]_vars => Inv'
  <1> SUFFICES ASSUME Inv, [Next]_vars
               PROVE  Inv'
    OBVIOUS
  <1>1. CASE UNCHANGED vars
    BY <1>1 DEF vars, Inv, TypeInv, LockInv, StoreInv, OpInv
  <1>2. ASSUME NEW p \in Procs, NEW c \in Callers, CallerStep(p, c)
        PROVE  Inv'
    BY <1>2, CallStep, SaveStep DEF CallerStep
  <1>3. ASSUME NEW a \in Agents, Persist(a)
        PROVE  Inv'
    BY <1>3, WriteStep, EndStep DEF Persist
  <1>4. QED
    BY <1>1, <1>2, <1>3, SetupStep, StartStep, KillStep DEF Next

\* The stores, the files and every agent hold only what was granted.
THEOREM InvCorrect == Spec => []Inv
  BY InitInv, InvStep, PTL DEF Spec

\* The types, and the mutex of a store is held exactly by the call in Save.
THEOREM TypeCorrect == Spec => []TypeOK
  <1>1. Inv => TypeOK
    <2> SUFFICES ASSUME Inv
                 PROVE  TypeOK
      OBVIOUS
    <2>1. \A a \in Agents :
            /\ op[a].pc \in Steps /\ op[a].req \in Requests /\ op[a].snap \in Policies
            /\ op[a].fd \in {"none", "tmp", "file", "gone"}
      BY DEF Inv, TypeInv, Ops
    <2>2. QED
      BY <2>1 DEF Inv, TypeInv, LockInv, TypeOK, Steps
  <1>2. QED
    BY <1>1, InvCorrect, PTL

\* No lookup of PolicyStoreApprover, however saves, reloads, kills and failing
\* writes of several processes interleave, allows a call that no grant covers.
THEOREM GrantCorrect == Spec => []AllowedWasGranted
  <1>1. Inv => AllowedWasGranted
    BY DEF Inv, OpInv, Sound, AllowedWasGranted
  <1>2. QED
    BY <1>1, InvCorrect, PTL

-----------------------------------------------------------------------------
(* The file of a process that is alone.                                    *)

\* Setup is over before the process is up; the call that holds the mutex writes
\* a temporary file that nobody else has open.
FileInv ==
    /\ \A p \in Procs : op[<<p, Setup>>].pc # "idle" => p \notin up
    /\ \A p \in Procs, c \in Callers : op[<<p, c>>].pc # "idle" => p \in up
    /\ \A a \in Agents : /\ op[a].pc = "write"  => op[a].fd = "tmp" /\ tmp = Blank
                         /\ op[a].pc = "rename" => tmp = Whole(op[a].snap)
    /\ FileIsWhole


\* Of a process that is alone, one goroutine at a time writes files.
LEMMA OneWriter ==
  ASSUME \A p, q \in Procs : p = q, Inv, FileInv,
         NEW a \in Agents, NEW b \in Agents, op[a].pc \in Persisting, op[b].pc \in Persisting
  PROVE  a = b
  <1>1. PICK p \in Procs, x \in Callers \cup {Setup} : a = <<p, x>>
    BY DEF Agents
  <1>2. PICK q \in Procs, y \in Callers \cup {Setup} : b = <<q, y>>
    BY DEF Agents
  <1>3. p = q /\ Setup \notin Callers
    BY SmallTypes
  <1>4. CASE x \in Callers /\ y \in Callers
    BY <1>1, <1>2, <1>3, <1>4 DEF Inv, LockInv
  <1>5. CASE x = Setup /\ y = Setup
    BY <1>1, <1>2, <1>3, <1>5
  <1>6. CASE \/ x = Setup /\ y \in Callers
             \/ x \in Callers /\ y = Setup
    <2>1. op[<<p, x>>].pc # "idle" /\ op[<<p, y>>].pc # "idle"
      BY <1>1, <1>2, <1>3 DEF Persisting
    <2>2. p \notin up /\ p \in up
      BY <1>6, <2>1 DEF FileInv
    <2>3. QED
      BY <2>2
  <1>7. (x \in Callers \/ x = Setup) /\ (y \in Callers \/ y = Setup)
    OBVIOUS
  <1>8. QED
    BY <1>4, <1>5, <1>6, <1>7

\* A step of one agent, while no other one is about to write or to rename, or
\* that leaves the temporary file.
LEMMA FileGoesOn ==
  ASSUME FileInv, NEW a \in Agents, up' = up,
         \A b \in Agents \ {a} : \/ op'[b] = op[b]
                                 \/ op'[b].pc = op[b].pc /\ op[b].pc \notin {"write", "rename"},
         op'[a].pc # "idle" => IF a[2] = Setup THEN a[1] \notin up ELSE a[1] \in up,
         tmp' = tmp \/ \A b \in Agents \ {a} : op[b].pc \notin {"write", "rename"},
         op'[a].pc = "write" => op'[a].fd = "tmp" /\ tmp' = Blank,
         op'[a].pc = "rename" => tmp' = Whole(op'[a].snap),
         file'.state \in {"absent", "whole"}
  PROVE  FileInv'
  <1>1. \A p \in Procs : op'[<<p, Setup>>].pc # "idle" => p \notin up'
    <2> SUFFICES ASSUME NEW p \in Procs, op'[<<p, Setup>>].pc # "idle"
                 PROVE  p \notin up'
      OBVIOUS
    <2>1. <<p, Setup>> \in Agents
      BY DEF Agents
    <2>2. CASE <<p, Setup>> = a
      BY <2>2
    <2>3. CASE <<p, Setup>> # a
      BY <2>1, <2>3 DEF FileInv
    <2>4. QED
      BY <2>2, <2>3
  <1>2. \A p \in Procs, c \in Callers : op'[<<p, c>>].pc # "idle" => p \in up'
    <2> SUFFICES ASSUME NEW p \in Procs, NEW c \in Callers, op'[<<p, c>>].pc # "idle"
                 PROVE  p \in up'
      OBVIOUS
    <2>1. <<p, c>> \in Agents
      BY DEF Agents
    <2>2. CASE <<p, c>> = a
      BY <2>2, SmallTypes
    <2>3. CASE <<p, c>> # a
      BY <2>1, <2>3 DEF FileInv
    <2>4. QED
      BY <2>2, <2>3
  <1>3. \A b \in Agents : /\ op'[b].pc = "write"  => op'[b].fd = "tmp" /\ tmp' = Blank
                          /\ op'[b].pc = "rename" => tmp' = Whole(op'[b].snap)
    <2> SUFFICES ASSUME NEW b \in Agents, b # a
                 PROVE  /\ op'[b].pc = "write"  => op'[b].fd = "tmp" /\ tmp' = Blank
                        /\ op'[b].pc = "rename" => tmp' = Whole(op'[b].snap)
      OBVIOUS
    <2>1. CASE op'[b] = op[b]
      BY <2>1 DEF FileInv
    <2>2. CASE op'[b].pc = op[b].pc /\ op[b].pc \notin {"write", "rename"}
      BY <2>2
    <2>3. QED
      BY <2>1, <2>2
  <1>4. QED
    BY <1>1, <1>2, <1>3 DEF FileInv, FileIsWhole

\* The calls and setup, but for their writing.
LEMMA FileQuiet ==
  ASSUME SetupRuns # "later", Inv, FileInv, NEW p \in Procs,
         \/ \E c \in Callers : CallerStep(p, c)
         \/ SetupStat(p) \/ SetupLoad(p)
  PROVE  FileInv'
  <1>0. op \in [Agents -> Ops]
    BY DEF Inv, TypeInv
  <1>1. ASSUME NEW c \in Callers, CallerStep(p, c)
        PROVE  FileInv'
    <2> DEFINE a == <<p, c>>
    <2>1. a \in Agents /\ a[1] = p /\ a[2] # Setup
      BY SmallTypes DEF Agents
    <2>2. /\ p \in up /\ UNCHANGED <<up, file, tmp>>
          /\ \A b \in Agents \ {a} : op'[b] = op[b]
          /\ op'[a].pc \notin {"write", "rename"}
      <3>1. ASSUME NEW r \in Requests, Request(p, c, r)
            PROVE  /\ p \in up /\ UNCHANGED <<up, file, tmp>>
                   /\ \A b \in Agents \ {a} : op'[b] = op[b]
                   /\ op'[a].pc \notin {"write", "rename"}
        <4> DEFINE o == [Idle EXCEPT !.pc = "checking", !.req = r,
                             !.left = IF RequiredActions(r) = {} THEN <<>> ELSE ChoicesOf(r),
                             !.covered = \E g \in saved : Grants(g, r)]
        <4>1. p \in up /\ UNCHANGED <<up, file, tmp>> /\ op' = [op EXCEPT ![a] = o]
          BY <3>1 DEF Request
        <4>2. o.pc = "checking"
          BY DEF Idle
        <4> HIDE DEF o
        <4>3. QED
          BY <1>0, <2>1, <4>1, <4>2
      <3>2. op[a].pc # "idle" => p \in up
        BY DEF FileInv
      <3>3. op[a] \in Ops
        BY <1>0, <2>1
      <3>4. CASE CheckChoice(p, c)
        <4>1. /\ op[a].pc = "checking" /\ UNCHANGED <<up, file, tmp>>
              /\ op' = [op EXCEPT ![a] =
                    IF RequiredActions(op[a].req) \subseteq Check(data[p], Head(op[a].left).id)
                    THEN [op[a] EXCEPT !.pc = "allowed", !.left = <<>>]
                    ELSE [op[a] EXCEPT !.left = Tail(op[a].left)]]
          BY <3>4 DEF CheckChoice
        <4>2. (IF RequiredActions(op[a].req) \subseteq Check(data[p], Head(op[a].left).id)
                    THEN [op[a] EXCEPT !.pc = "allowed", !.left = <<>>]
                    ELSE [op[a] EXCEPT !.left = Tail(op[a].left)]).pc \in {"allowed", "checking"}
          BY <3>3, <4>1 DEF Ops
        <4>3. QED
          BY <3>2, <4>1, <4>2
      <3>5. CASE Ask(p, c)
        BY <3>2, <3>3, <3>5 DEF Ask, Ops, Idle
      <3>6. CASE AnswerOnce(p, c)
        BY <3>2, <3>3, <3>6 DEF AnswerOnce, Ops
      <3>7. CASE AnswerNo(p, c) \/ Return(p, c)
        <4>1. op' = [op EXCEPT ![a] = Idle] /\ UNCHANGED <<up, file, tmp>> /\ op[a].pc # "idle"
          BY <3>7 DEF AnswerNo, Return
        <4>2. Idle.pc = "idle"
          BY DEF Idle
        <4>3. QED
          BY <1>0, <2>1, <3>2, <4>1, <4>2
      <3>8. CASE \E ch \in Range(ChoicesOf(op[<<p, c>>].req)) : AnswerAlways(p, c, ch)
        BY <3>2, <3>3, <3>8 DEF AnswerAlways, Ops
      <3>9. CASE Save(p, c)
        BY <3>2, <3>3, <3>9 DEF Save, Ops
      <3>10. QED
        BY <1>1, <3>1, <3>4, <3>5, <3>6, <3>7, <3>8, <3>9 DEF CallerStep
    <2>3. QED
      BY <1>0, <2>1, <2>2, FileGoesOn DEF FileInv, FileIsWhole
  <1>2. CASE SetupStat(p) \/ SetupLoad(p)
    <2> DEFINE a == <<p, Setup>>
    <2>1. a \in Agents /\ a[1] = p /\ a[2] = Setup /\ op[a] \in Ops
      BY <1>0 DEF Agents
    <2>2. /\ p \notin up /\ UNCHANGED <<up, file, tmp>>
          /\ \A b \in Agents \ {a} : op'[b] = op[b]
          /\ op'[a].pc \notin {"write", "rename"}
      <3>1. CASE SetupStat(p)
        BY <2>1, <3>1 DEF SetupStat, Ops
      <3>2. CASE SetupLoad(p)
        <4> DEFINE ch == Choice(Sandbox, {"read", "write"})
                   o  == [op[a] EXCEPT !.pc = "open", !.choice = ch,
                                       !.snap = [file.map EXCEPT ![Sandbox] = ch.actions]]
        <4>1. /\ op[a].pc = "stat" /\ UNCHANGED <<up, file, tmp>>
              /\ op' = [op EXCEPT ![a] = o] \/ op' = [op EXCEPT ![a] = Idle]
          BY <3>2 DEF SetupLoad
        <4>2. o.pc = "open" /\ Idle.pc = "idle" /\ p \notin up
          BY <2>1, <4>1 DEF Ops, Idle, FileInv
        <4> HIDE DEF o
        <4>3. QED
          BY <1>0, <2>1, <4>1, <4>2
      <3>3. QED
        BY <1>2, <3>1, <3>2
    <2>3. QED
      BY <1>0, <2>1, <2>2, FileGoesOn DEF FileInv, FileIsWhole
  <1>3. QED
    BY <1>1, <1>2

\* persist: the goroutine that writes has the temporary file to itself.
LEMMA FilePersist ==
  ASSUME \A p, q \in Procs : p = q, Inv, FileInv, NEW a \in Agents, Persist(a)
  PROVE  FileInv'
  <1>0. /\ op \in [Agents -> Ops] /\ op[a] \in Ops /\ op[a].pc \in Persisting /\ up' = up
        /\ file.state \in {"absent", "whole"}
    BY DEF Inv, TypeInv, Persist, PersistOpen, PersistWrite, PersistRename, PersistFail, Persisting,
           FileInv, FileIsWhole
  <1>1. \A b \in Agents \ {a} : op[b].pc \notin {"write", "rename"}
    BY <1>0, OneWriter DEF Persisting
  <1>2. IF a[2] = Setup THEN a[1] \notin up ELSE a[1] \in up
    <2>1. PICK p \in Procs, x \in Callers \cup {Setup} : a = <<p, x>>
      BY DEF Agents
    <2>2. op[<<p, x>>].pc # "idle"
      BY <1>0, <2>1 DEF Persisting
    <2>3. QED
      BY <2>1, <2>2, SmallTypes DEF FileInv
  <1>3. CASE PersistOpen(a)
    <2>1. /\ op' = [op EXCEPT ![a] = [op[a] EXCEPT !.pc = "write", !.fd = "tmp"]]
          /\ tmp' = Blank /\ file' = file
      BY <1>3 DEF PersistOpen
    <2>2. op'[a].pc = "write" /\ op'[a].fd = "tmp" /\ \A b \in Agents \ {a} : op'[b] = op[b]
      BY <1>0, <2>1 DEF Ops
    <2>3. QED
      BY <1>0, <1>1, <1>2, <2>1, <2>2, FileGoesOn
  <1>4. CASE PersistWrite(a)
    <2>1. op[a].pc = "write" /\ op[a].fd = "tmp" /\ tmp = Blank
      BY <1>4 DEF PersistWrite, FileInv
    <2>2. /\ op' = [op EXCEPT ![a] = [op[a] EXCEPT !.pc = "rename"]]
          /\ tmp' \in Overwrite(tmp, op[a].snap) /\ file' = file
      BY <1>4, <2>1 DEF PersistWrite
    <2>3. tmp' = Whole(op[a].snap)
      BY <2>1, <2>2 DEF Overwrite
    <2>4. /\ op'[a].pc = "rename" /\ op'[a].snap = op[a].snap
          /\ \A b \in Agents \ {a} : op'[b] = op[b]
      BY <1>0, <2>2 DEF Ops
    <2>5. QED
      BY <1>0, <1>1, <1>2, <2>2, <2>3, <2>4, FileGoesOn
  <1>5. ASSUME NEW fds \in [Agents -> Ops], \A b \in Agents : fds[b].pc = op[b].pc,
               NEW written \in BOOLEAN, SaveReturns(a, fds, written),
               file'.state \in {"absent", "whole"}
        PROVE  FileInv'
    <2> DEFINE o == IF a[2] = Setup THEN Idle
                    ELSE [fds[a] EXCEPT !.pc = "allowed", !.snap = NoPolicy, !.fd = "none"]
    <2>1. op' = [fds EXCEPT ![a] = o]
      BY <1>5 DEF SaveReturns
    <2>2. o.pc \in {"idle", "allowed"}
      BY <1>5 DEF Ops, Idle
    <2> HIDE DEF o
    <2>3. op'[a].pc \in {"idle", "allowed"} /\ \A b \in Agents \ {a} : op'[b].pc = op[b].pc
      BY <1>5, <2>1, <2>2
    <2>4. QED
      BY <1>0, <1>1, <1>2, <1>5, <2>3, FileGoesOn
  <1>6. CASE PersistFail(a)
    <2>1. op[a].pc = "write" => op[a].fd = "tmp"
      BY DEF FileInv
    <2>2. SaveReturns(a, op, FALSE) /\ file' = file
      BY <1>6, <2>1 DEF PersistFail
    <2>3. QED
      BY <1>0, <1>5, <2>2
  <1>7. CASE PersistRename(a) /\ tmp = Absent
    <2>1. SaveReturns(a, op, FALSE) /\ file' = file
      BY <1>7 DEF PersistRename
    <2>2. QED
      BY <1>0, <1>5, <2>1
  <1>8. CASE PersistRename(a) /\ tmp # Absent
    <2> DEFINE fds == [b \in Agents |-> [op[b] EXCEPT !.fd =
                         CASE @ = "tmp" -> "file" [] @ = "file" -> "gone" [] OTHER -> @]]
    <2>1. SaveReturns(a, fds, TRUE) /\ file' = tmp /\ op[a].pc = "rename"
      BY <1>8 DEF PersistRename
    <2>2. \A b \in Agents : fds[b] \in Ops /\ fds[b].pc = op[b].pc
      BY <1>0 DEF Ops
    <2>3. fds \in [Agents -> Ops]
      BY <2>2
    <2>4. file'.state = "whole"
      BY <2>1 DEF FileInv, Whole
    <2> HIDE DEF fds
    <2>5. QED
      BY <1>5, <2>1, <2>2, <2>3, <2>4
  <1>9. QED
    BY <1>3, <1>4, <1>6, <1>7, <1>8 DEF Persist

\* It holds as long as the process is the only one.
LEMMA FileInvariant ==
  ASSUME \A p, q \in Procs : p = q, SetupRuns # "later"
  PROVE  Spec => [](Inv /\ FileInv)
  <1>1. Init => FileInv
    <2> SUFFICES ASSUME Init
                 PROVE  FileInv
      OBVIOUS
    <2>1. up = {} /\ op = [a \in Agents |-> Idle] /\ file = Absent
      BY DEF Init
    <2>2. \A a \in Agents : op[a].pc = "idle"
      BY <2>1 DEF Idle
    <2>3. QED
      BY <2>1, <2>2 DEF FileInv, FileIsWhole, Absent, Agents
  <1>2. Inv /\ FileInv /\ [Next]_vars => FileInv'
    <2> SUFFICES ASSUME Inv, FileInv, [Next]_vars
                 PROVE  FileInv'
      OBVIOUS
    <2>1. CASE UNCHANGED vars
      BY <2>1 DEF vars, FileInv, FileIsWhole
    <2>2. ASSUME NEW p \in Procs, Start(p)
          PROVE  FileInv'
      BY <2>2 DEF Start, FileInv, FileIsWhole
    <2>3. ASSUME NEW p \in Procs, Kill(p)
          PROVE  FileInv'
      <3>1. \A a \in Agents : a[1] = p
        BY DEF Agents
      <3>2. op' = [a \in Agents |-> IF a[1] = p THEN Idle ELSE op[a]] /\ file' = file
        BY <2>3 DEF Kill
      <3>3. \A a \in Agents : op'[a].pc = "idle"
        BY <3>1, <3>2 DEF Idle
      <3>4. QED
        BY <3>2, <3>3 DEF FileInv, FileIsWhole, Agents
    <2>4. ASSUME NEW a \in Agents, Persist(a)
          PROVE  FileInv'
      BY <2>4, FilePersist
    <2>5. QED
      BY <2>1, <2>2, <2>3, <2>4, FileQuiet DEF Next
  <1>3. QED
    BY <1>1, <1>2, InvCorrect, PTL DEF Spec

\* approvals.json is replaced atomically, however many calls of the process save
\* their policies at a time, whichever writes fail and wherever it is killed,
\* provided it is the only process and its setup is over before it starts.
THEOREM FileCorrect ==
  ASSUME \A p, q \in Procs : p = q, SetupRuns # "later"
  PROVE  Spec => []FileIsWhole
  <1>1. FileInv => FileIsWhole
    BY DEF FileInv
  <1>2. QED
    BY <1>1, FileInvariant, PTL

-----------------------------------------------------------------------------
(* The grants of a process that is alone and asks about one call at a time.*)

\* What the user can be offered, now and at setup.
Offered == {Choice(Sandbox, {"read", "write"})} \cup UNION {Range(ChoicesOf(r)) : r \in Requests}

\* No directory around an object has a policy, but the one the request offers.
Apart ==
    \A r \in Requests, id \in PolicyIDs :
        id.target = "directory" /\ r.kind \in {"read", "write", "patch"} /\ IsPrefix(id.domain, r.name)
            => \E ch \in Range(ChoicesOf(r)) : ch.id = id

\* For an object of one target the same grants are offered, whoever asks.
LEMMA OfferedShape ==
  ASSUME NEW g \in Offered
  PROVE  /\ g.id \in PolicyIDs
         /\ g.id.target \in {"file", "directory"} => g.actions \in {{"read"}, {"read", "write"}}
         /\ g.id.target = "domain" => g.actions = {"read", "write"}
         /\ g.id.target \in {"invocation", "command"} => g.actions = {"exec"}
         /\ g.id.target \in {"file", "directory", "domain", "invocation", "command"}
  <1>1. CASE g = Choice(Sandbox, {"read", "write"})
    BY <1>1, PolicyPaths DEF Choice, Sandbox, PolicyID
  <1>2. ASSUME NEW r \in Requests, g \in Range(ChoicesOf(r))
        PROVE  /\ g.id \in PolicyIDs
               /\ g.id.target \in {"file", "directory"} => g.actions \in {{"read"}, {"read", "write"}}
               /\ g.id.target = "domain" => g.actions = {"read", "write"}
               /\ g.id.target \in {"invocation", "command"} => g.actions = {"exec"}
               /\ g.id.target \in {"file", "directory", "domain", "invocation", "command"}
    <2>0. g.id \in PolicyIDs /\ r.kind \in Kinds
      BY <1>2, PolicyPaths, RequestPath
    <2>1. CASE r.kind \in {"read", "write"}
      <3>1. g \in Pair(PolicyID("file", r.name)) \cup Pair(PolicyID("directory", Dirname(r)))
        BY <1>2, <2>1, FileOffers
      <3>2. QED
        BY <2>0, <3>1 DEF Pair, Choice, PolicyID
    <2>2. CASE r.kind = "patch"
      BY <1>2, <2>0, <2>2 DEF ChoicesOf, PatchChoices, Range, Choice, PolicyID
    <2>3. CASE r.kind = "exec"
      <3>1. g \in {Choice(PolicyID("invocation", r.name), {"exec"}),
                   Choice(PolicyID("command", <<Head(r.name)>>), {"exec"})}
        BY <1>2, <2>3 DEF ChoicesOf, CommandChoices, Range
      <3>2. QED
        BY <2>0, <3>1 DEF Choice, PolicyID
    <2>4. CASE r.kind \in {"fetch", "get", "post"}
      BY <1>2, <2>0, <2>4 DEF ChoicesOf, WebChoices, Range, Choice, PolicyID
    <2>5. CASE r.kind = "other"
      BY <1>2, <2>5 DEF ChoicesOf, Range
    <2>6. QED
      BY <2>0, <2>1, <2>2, <2>3, <2>4, <2>5 DEF Kinds
  <1>3. QED
    BY <1>1, <1>2 DEF Offered

\* A choice that the user is offered gives at least what is stored for its object:
\* otherwise the lookup had allowed the call.
LEMMA ChoiceWidens ==
  ASSUME NEW d \in Policies, Granted(d, Offered), NEW r \in Requests, NEW ch \in Range(ChoicesOf(r)),
         ~(RequiredActions(r) \subseteq Check(d, ch.id))
  PROVE  d[ch.id] \subseteq ch.actions
  <1>0. ch \in Offered /\ ch.id \in PolicyIDs /\ r.kind \in Kinds
    BY PolicyPaths, RequestPath DEF Offered
  <1>1. CASE d[ch.id] = {}
    BY <1>1
  <1>2. CASE d[ch.id] # {}
    <2> DEFINE g == Choice(ch.id, d[ch.id])
    <2>1. g \in Offered /\ g.id = ch.id /\ g.actions = d[ch.id]
      BY <1>0, <1>2 DEF Granted, Choice
    <2> HIDE DEF g
    <2>2. ~(RequiredActions(r) \subseteq d[ch.id])
      BY <1>2 DEF Check
    <2>3. CASE ch.id.target \in {"file", "directory"}
      <3>1. d[ch.id] \in {{"read"}, {"read", "write"}} /\ ch.actions \in {{"read"}, {"read", "write"}}
        BY <1>0, <2>1, <2>3, OfferedShape
      <3>2. RequiredActions(r) \subseteq {"read", "write"}
        <4>1. Suits(ch.id, r)
          BY ChoicesSuit
        <4>2. r.kind \in {"read", "write", "patch"}
          BY <2>3, <4>1 DEF Suits
        <4>3. QED
          BY <4>2 DEF RequiredActions
      <3>3. QED
        BY <2>2, <3>1, <3>2
    <2>4. CASE ch.id.target \in {"domain", "invocation", "command"}
      BY <1>0, <2>1, <2>4, OfferedShape
    <2>5. QED
      BY <1>0, <2>3, <2>4, OfferedShape
  <1>3. QED
    BY <1>1, <1>2

\* A request offers a choice for every grant that covers it, so that its lookups
\* meet the policy of the grant.
LEMMA GrantIsSought ==
  ASSUME Apart, NEW r \in Requests, NEW g \in Offered, Grants(g, r)
  PROVE  \E ch \in Range(ChoicesOf(r)) : ch.id = g.id
  <1>0. /\ g.id = PolicyID(g.id.target, g.id.domain) /\ g.id \in PolicyIDs
        /\ r.name \in Paths /\ r.kind \in Kinds
        /\ g.id.target = "command" => g.id.domain = <<g.id.domain[1]>>
    <2>1. r.name \in Paths /\ r.kind \in Kinds /\ g.id \in PolicyIDs
      BY RequestPath, OfferedShape
    <2>2. CASE g = Choice(Sandbox, {"read", "write"})
      BY <2>1, <2>2 DEF Choice, Sandbox, PolicyID
    <2>3. ASSUME NEW q \in Requests, g \in Range(ChoicesOf(q))
          PROVE  /\ g.id = PolicyID(g.id.target, g.id.domain)
                 /\ g.id.target = "command" => g.id.domain = <<g.id.domain[1]>>
      <3>1. CASE q.kind \in {"read", "write"}
        <4>1. g \in Pair(PolicyID("file", q.name)) \cup Pair(PolicyID("directory", Dirname(q)))
          BY <2>3, <3>1, FileOffers
        <4>2. QED
          BY <4>1 DEF Pair, Choice, PolicyID
      <3>2. CASE q.kind = "patch"
        BY <2>3, <3>2 DEF ChoicesOf, PatchChoices, Range, Choice, PolicyID
      <3>3. CASE q.kind = "exec"
        <4>1. g \in {Choice(PolicyID("invocation", q.name), {"exec"}),
                     Choice(PolicyID("command", <<Head(q.name)>>), {"exec"})}
          BY <2>3, <3>3 DEF ChoicesOf, CommandChoices, Range
        <4>2. QED
          BY <4>1 DEF Choice, PolicyID
      <3>4. CASE q.kind \in {"fetch", "get", "post"}
        BY <2>3, <3>4 DEF ChoicesOf, WebChoices, Range, Choice, PolicyID
      <3>5. CASE q.kind = "other"
        BY <2>3, <3>5 DEF ChoicesOf, Range
      <3>6. q.kind \in Kinds
        BY RequestPath
      <3>7. QED
        BY <3>1, <3>2, <3>3, <3>4, <3>5, <3>6 DEF Kinds
    <2>4. QED
      BY <2>1, <2>2, <2>3 DEF Offered
  <1>1. CASE g.id.target = "directory"
    <2>1. r.kind \in {"read", "write", "patch"} /\ IsPrefix(g.id.domain, r.name)
      BY <1>1 DEF Grants
    <2>2. QED
      BY <1>0, <1>1, <2>1 DEF Apart
  <1>2. CASE g.id.target = "file"
    <2> DEFINE own  == PolicyID("file", r.name)
               Mine == (IF r.kind = "read" THEN <<Choice(own, {"read"})>> ELSE <<>>)
                           \o <<Choice(own, {"read", "write"})>>
               dir  == PolicyID("directory", Dirname(r))
               Dirs == IF Dirname(r) = <<>> THEN <<>>
                       ELSE (IF r.kind = "read" THEN <<Choice(dir, {"read"})>> ELSE <<>>)
                                \o <<Choice(dir, {"read", "write"})>>
    <2>1. r.kind \in {"read", "write"} /\ ~r.isDir /\ g.id = own
      BY <1>0, <1>2 DEF Grants
    <2>2. ChoicesOf(r) = Mine \o Dirs
      BY <2>1 DEF ChoicesOf, FileChoices
    <2>3. \A id : /\ <<Choice(id, {"read"})>> \in Seq(Pair(id)) /\ <<>> \in Seq(Pair(id))
                  /\ <<Choice(id, {"read", "write"})>> \in Seq(Pair(id))
      BY EmptySeq DEF Pair
    <2>4. Mine \in Seq(Pair(own)) /\ Choice(own, {"read", "write"}) \in Range(Mine)
      <3> DEFINE first == IF r.kind = "read" THEN <<Choice(own, {"read"})>> ELSE <<>>
                 last  == <<Choice(own, {"read", "write"})>>
      <3>1. first \in Seq(Pair(own)) /\ last \in Seq(Pair(own))
        BY <2>3
      <3>2. Choice(own, {"read", "write"}) \in Range(last)
        BY DEF Range
      <3> HIDE DEF first, last
      <3>3. first \o last \in Seq(Pair(own)) /\ Range(first \o last) = Range(first) \cup Range(last)
        BY <3>1, ConcatProperties, RangeConcatenation
      <3>4. Mine = first \o last
        BY DEF first, last
      <3>5. QED
        BY <3>2, <3>3, <3>4
    <2>5. Dirs \in Seq(Pair(dir))
      <3> DEFINE first == IF r.kind = "read" THEN <<Choice(dir, {"read"})>> ELSE <<>>
                 last  == <<Choice(dir, {"read", "write"})>>
      <3>1. first \in Seq(Pair(dir)) /\ last \in Seq(Pair(dir))
        BY <2>3
      <3> HIDE DEF first, last
      <3>2. first \o last \in Seq(Pair(dir))
        BY <3>1, ConcatProperties
      <3>3. Dirs = IF Dirname(r) = <<>> THEN <<>> ELSE first \o last
        BY DEF first, last
      <3>4. QED
        BY <2>3, <3>2, <3>3
    <2> HIDE DEF Mine, Dirs
    <2>6. Mine \in Seq(Pair(own) \cup Pair(dir)) /\ Dirs \in Seq(Pair(own) \cup Pair(dir))
      BY <2>4, <2>5, SeqMonotonic
    <2>7. Range(Mine \o Dirs) = Range(Mine) \cup Range(Dirs)
      BY <2>6, RangeConcatenation
    <2>8. Choice(own, {"read", "write"}).id = own
      BY DEF Choice
    <2>9. QED
      BY <2>1, <2>2, <2>4, <2>7, <2>8
  <1>3. CASE g.id.target \in {"invocation", "command"}
    <2>1. r.kind = "exec" /\ g.id \in {PolicyID("invocation", r.name), PolicyID("command", <<r.name[1]>>)}
      BY <1>0, <1>3 DEF Grants
    <2>2. Head(r.name) = r.name[1]
      BY <1>0, RequestPath, HeadTailProperties DEF Paths
    <2>3. /\ Choice(PolicyID("invocation", r.name), {"exec"}) \in Range(ChoicesOf(r))
          /\ Choice(PolicyID("command", <<r.name[1]>>), {"exec"}) \in Range(ChoicesOf(r))
      BY <2>1, <2>2 DEF ChoicesOf, CommandChoices, Range
    <2>4. QED
      BY <2>1, <2>3 DEF Choice
  <1>4. CASE g.id.target = "domain"
    <2>1. r.kind \in {"fetch", "get", "post"} /\ g.id = PolicyID("domain", r.name)
      BY <1>0, <1>4 DEF Grants
    <2>2. Choice(PolicyID("domain", r.name), {"read", "write"}) \in Range(ChoicesOf(r))
      BY <2>1 DEF ChoicesOf, WebChoices, Range
    <2>3. QED
      BY <2>1, <2>2 DEF Choice
  <1>5. QED
    BY <1>1, <1>2, <1>3, <1>4, OfferedShape

\* A store that keeps a grant answers the lookups of every request it covers.
LEMMA KeptAllows ==
  ASSUME Apart, NEW d \in Policies, NEW r \in Requests, NEW g \in Offered, Grants(g, r),
         g.actions \subseteq d[g.id]
  PROVE  \E ch \in Range(ChoicesOf(r)) : RequiredActions(r) \subseteq Check(d, ch.id)
  <1>1. PICK ch \in Range(ChoicesOf(r)) : ch.id = g.id
    BY GrantIsSought
  <1>2. RequiredActions(r) # {} /\ RequiredActions(r) \subseteq d[ch.id]
    BY <1>1 DEF Grants
  <1>3. Check(d, ch.id) = d[ch.id]
    BY <1>2 DEF Check
  <1>4. QED
    BY <1>2, <1>3

\* A store that gives at least what was granted.
Kept(G, d) == \A g \in G : g.actions \subseteq d[g.id]

\* None of the lookups that call o has made allows it.
Unmet(o, d) == \A ch \in Range(ChoicesOf(o.req)) \ Range(o.left) :
                   ~(RequiredActions(o.req) \subseteq Check(d, ch.id))

\* What agent a is doing, when o is the state of it, d the store of its process and
\* G the grants that were saved: what it writes keeps them all, and what it asks was
\* looked up in vain.
Keeps(a, o, d, G) ==
    /\ o.pc \in Persisting => Kept(G \cup {o.choice}, o.snap) /\ (a[2] # Setup => o.snap = d)
    /\ o.pc \in {"checking", "asking", "saving"} => Unmet(o, d)
    /\ o.pc \in {"asking", "saving"} => o.left = <<>>
    /\ o.pc = "saving" => o.choice \in Range(ChoicesOf(o.req))
    /\ o.pc \in {"checking", "asking"} /\ o.covered => \E g \in G : Grants(g, o.req)

GrantInv ==
    /\ agreed \subseteq Offered
    /\ Kept(saved, file.map)
    /\ \A p \in up : Kept(saved, data[p])
    /\ \A a \in Agents : Keeps(a, op[a], data[a[1]], saved)

\* One process that runs one call at a time, after its setup.
Lone == /\ \A p, q \in Procs : p = q
        /\ \A c, e \in Callers : c = e
        /\ SetupRuns # "later"

\* Then one agent is busy at a time: with o for op and U for up.
LEMMA OneBusy ==
  ASSUME Lone, NEW o, NEW U,
         \A p \in Procs : o[<<p, Setup>>].pc # "idle" => p \notin U,
         \A p \in Procs, c \in Callers : o[<<p, c>>].pc # "idle" => p \in U,
         NEW a \in Agents, NEW b \in Agents, o[a].pc # "idle", o[b].pc # "idle"
  PROVE  a = b
  <1>1. PICK p \in Procs, x \in Callers \cup {Setup} : a = <<p, x>>
    BY DEF Agents
  <1>2. PICK q \in Procs, y \in Callers \cup {Setup} : b = <<q, y>>
    BY DEF Agents
  <1>3. p = q
    BY DEF Lone
  <1>4. CASE x \in Callers /\ y \in Callers
    BY <1>1, <1>2, <1>3, <1>4 DEF Lone
  <1>5. CASE x = Setup /\ y = Setup
    BY <1>1, <1>2, <1>3, <1>5
  <1>6. CASE \/ x = Setup /\ y \in Callers
             \/ x \in Callers /\ y = Setup
    BY <1>1, <1>2, <1>3, <1>6
  <1>7. (x \in Callers \/ x = Setup) /\ (y \in Callers \/ y = Setup)
    OBVIOUS
  <1>8. QED
    BY <1>4, <1>5, <1>6, <1>7

\* A step of the agent that is busy before or after it.
LEMMA GrantGoesOn ==
  ASSUME Lone, FileInv, FileInv', NEW a \in Agents,
         \A b \in Agents \ {a} : op'[b].pc = op[b].pc,
         op[a].pc # "idle" \/ op'[a].pc # "idle",
         agreed' \subseteq Offered, Kept(saved', file'.map), \A p \in up' : Kept(saved', data'[p]),
         Keeps(a, op'[a], data'[a[1]], saved')
  PROVE  GrantInv'
  <1>1. ASSUME NEW b \in Agents, b # a
        PROVE  op'[b].pc = "idle"
    <2>1. CASE op[a].pc # "idle"
      <3>1. op[b].pc = "idle"
        BY <1>1, <2>1, OneBusy DEF FileInv
      <3>2. QED
        BY <1>1, <3>1
    <2>2. CASE op'[a].pc # "idle"
      <3>1. /\ \A p \in Procs : op'[<<p, Setup>>].pc # "idle" => p \notin up'
            /\ \A p \in Procs, c \in Callers : op'[<<p, c>>].pc # "idle" => p \in up'
        BY DEF FileInv
      <3>2. QED
        BY <1>1, <2>2, <3>1, OneBusy
    <2>3. QED
      BY <2>1, <2>2
  <1>2. \A b \in Agents : Keeps(b, op'[b], data'[b[1]], saved')
    BY <1>1 DEF Keeps, Persisting
  <1>3. QED
    BY <1>2 DEF GrantInv

\* A tool call looks up every choice before it asks, and is told or returns.
LEMMA CallKeeps ==
  ASSUME Lone, Inv, FileInv, FileInv', GrantInv, NEW p \in Procs, NEW c \in Callers,
         \/ \E r \in Requests : Request(p, c, r)
         \/ CheckChoice(p, c) \/ Ask(p, c) \/ AnswerOnce(p, c) \/ AnswerNo(p, c)
         \/ \E ch \in Range(ChoicesOf(op[<<p, c>>].req)) : AnswerAlways(p, c, ch)
         \/ Return(p, c)
  PROVE  GrantInv'
  <1> DEFINE a == <<p, c>>
  <1>0. /\ a \in Agents /\ a[1] = p /\ a[2] # Setup
        /\ op \in [Agents -> Ops] /\ op[a] \in Ops /\ op[a].req \in Requests
        /\ op[a].left \in Seq(ChoiceSet)
        /\ Keeps(a, op[a], data[p], saved) /\ agreed \subseteq Offered
    <2>1. a \in Agents /\ a[1] = p /\ a[2] # Setup
      BY SmallTypes DEF Agents
    <2>2. QED
      BY <2>1, AgentFacts DEF GrantInv
  <1>1. UNCHANGED <<up, data, file, saved>>
    BY DEF Request, CheckChoice, Ask, AnswerOnce, AnswerNo, AnswerAlways, Return
  <1>2. ASSUME NEW o, op' = [op EXCEPT ![a] = o], op[a].pc # "idle" \/ o.pc # "idle",
               agreed' \subseteq Offered, Keeps(a, o, data[p], saved)
        PROVE  GrantInv'
    <2>1. op'[a] = o /\ \A b \in Agents \ {a} : op'[b].pc = op[b].pc
      BY <1>0, <1>2
    <2>2. Kept(saved', file'.map) /\ \A q \in up' : Kept(saved', data'[q])
      BY <1>1 DEF GrantInv
    <2>3. Keeps(a, op'[a], data'[a[1]], saved')
      BY <1>0, <1>1, <1>2, <2>1
    <2>4. QED
      BY <1>0, <1>2, <2>1, <2>2, <2>3, GrantGoesOn
  <1>3. ASSUME NEW r \in Requests, Request(p, c, r)
        PROVE  GrantInv'
    <2> DEFINE o == [Idle EXCEPT !.pc = "checking", !.req = r,
                             !.left = IF RequiredActions(r) = {} THEN <<>> ELSE ChoicesOf(r),
                             !.covered = \E g \in saved : Grants(g, r)]
    <2>1. op' = [op EXCEPT ![a] = o] /\ agreed' = agreed
      BY <1>3 DEF Request
    <2>2. /\ o.pc = "checking" /\ o.req = r
          /\ o.left = IF RequiredActions(r) = {} THEN <<>> ELSE ChoicesOf(r)
          /\ o.covered => \E g \in saved : Grants(g, r)
      BY DEF Idle
    <2> HIDE DEF o
    <2>3. RequiredActions(r) = {} => Range(ChoicesOf(r)) = {}
      <3>1. RequiredActions(r) = {} => r.kind = "other"
        BY RequestPath DEF RequiredActions, Kinds
      <3>2. r.kind = "other" => ChoicesOf(r) = <<>>
        BY DEF ChoicesOf
      <3>3. QED
        BY <3>1, <3>2 DEF Range
    <2>4. Unmet(o, data[p])
      BY <2>2, <2>3 DEF Unmet
    <2>5. Keeps(a, o, data[p], saved)
      BY <2>2, <2>4 DEF Keeps, Persisting
    <2>6. QED
      BY <1>0, <1>2, <2>1, <2>2, <2>5
  <1>4. CASE CheckChoice(p, c)
    <2> DEFINE r == op[a].req
               h == Head(op[a].left)
    <2>1. op[a].pc = "checking" /\ op[a].left # <<>> /\ agreed' = agreed
      BY <1>4 DEF CheckChoice
    <2>2. CASE RequiredActions(r) \subseteq Check(data[p], h.id)
      <3> DEFINE o == [op[a] EXCEPT !.pc = "allowed", !.left = <<>>]
      <3>1. op' = [op EXCEPT ![a] = o]
        BY <1>4, <2>2 DEF CheckChoice
      <3>2. o.pc = "allowed"
        BY <1>0 DEF Ops
      <3> HIDE DEF o
      <3>3. Keeps(a, o, data[p], saved)
        BY <3>2 DEF Keeps, Persisting
      <3>4. QED
        BY <1>0, <1>2, <2>1, <3>1, <3>2, <3>3
    <2>3. CASE ~(RequiredActions(r) \subseteq Check(data[p], h.id))
      <3> DEFINE o == [op[a] EXCEPT !.left = Tail(op[a].left)]
      <3>1. op' = [op EXCEPT ![a] = o]
        <4>1. op' = [op EXCEPT ![a] = IF RequiredActions(r) \subseteq Check(data[p], h.id)
                                      THEN [op[a] EXCEPT !.pc = "allowed", !.left = <<>>]
                                      ELSE o]
          BY <1>4 DEF CheckChoice
        <4>2. (IF RequiredActions(r) \subseteq Check(data[p], h.id)
               THEN [op[a] EXCEPT !.pc = "allowed", !.left = <<>>] ELSE o) = o
          BY <2>3
        <4> HIDE DEF o
        <4>3. QED
          BY <4>1, <4>2
      <3>2. o.pc = "checking" /\ o.req = r /\ o.left = Tail(op[a].left) /\ o.covered = op[a].covered
        BY <1>0, <2>1 DEF Ops
      <3> HIDE DEF o
      <3>3. Range(op[a].left) \subseteq {h} \cup Range(Tail(op[a].left))
        <4>1. /\ Len(op[a].left) \in Nat \ {0} /\ DOMAIN op[a].left = 1 .. Len(op[a].left)
              /\ h = op[a].left[1]
          BY <1>0, <2>1, EmptySeq
        <4>2. /\ Tail(op[a].left) \in Seq(ChoiceSet)
              /\ Len(Tail(op[a].left)) = Len(op[a].left) - 1
              /\ \A i \in 1 .. Len(Tail(op[a].left)) : Tail(op[a].left)[i] = op[a].left[i + 1]
          BY <1>0, <2>1, HeadTailProperties
        <4>3. ASSUME NEW i \in 1 .. Len(op[a].left), i # 1
              PROVE  op[a].left[i] \in Range(Tail(op[a].left))
          <5>1. i - 1 \in 1 .. Len(Tail(op[a].left)) /\ (i - 1) + 1 = i
            BY <4>1, <4>2, <4>3
          <5>2. Tail(op[a].left)[i - 1] = op[a].left[i] /\ i - 1 \in DOMAIN Tail(op[a].left)
            BY <4>2, <5>1
          <5>3. QED
            BY <5>2 DEF Range
        <4>4. QED
          BY <4>1, <4>3 DEF Range
      <3>4. Unmet(o, data[p])
        <4>1. Unmet(op[a], data[p])
          BY <1>0, <2>1 DEF Keeps
        <4>2. QED
          BY <2>3, <3>2, <3>3, <4>1 DEF Unmet
      <3>5. Keeps(a, o, data[p], saved)
        BY <1>0, <2>1, <3>2, <3>4 DEF Keeps, Persisting
      <3>6. QED
        BY <1>0, <1>2, <2>1, <3>1, <3>2, <3>5
    <2>4. QED
      BY <2>2, <2>3
  <1>5. CASE Ask(p, c)
    <2> DEFINE o == [op[a] EXCEPT !.pc = "asking"]
    <2>1. /\ op' = [op EXCEPT ![a] = IF ByProxy(op[a].req) THEN Idle ELSE o]
          /\ op[a].pc = "checking" /\ op[a].left = <<>> /\ agreed' = agreed
      BY <1>5 DEF Ask
    <2>2. /\ o.pc = "asking" /\ o.req = op[a].req /\ o.left = op[a].left
          /\ o.covered = op[a].covered /\ Idle.pc = "idle"
      BY <1>0 DEF Ops, Idle
    <2> HIDE DEF o
    <2>3. Keeps(a, Idle, data[p], saved)
      BY <2>2 DEF Keeps, Persisting
    <2>4. Unmet(op[a], data[p]) /\ Unmet(o, data[p])
      BY <1>0, <2>1, <2>2 DEF Keeps, Unmet
    <2>5. o.covered => \E g \in saved : Grants(g, o.req)
      BY <1>0, <2>1, <2>2 DEF Keeps
    <2>6. Keeps(a, o, data[p], saved)
      BY <2>1, <2>2, <2>4, <2>5 DEF Keeps, Persisting
    <2>7. QED
      BY <1>0, <1>2, <2>1, <2>3, <2>6
  <1>6. CASE AnswerOnce(p, c)
    <2> DEFINE o == [op[a] EXCEPT !.pc = "allowed", !.byUser = TRUE]
    <2>1. op' = [op EXCEPT ![a] = o] /\ op[a].pc = "asking" /\ agreed' = agreed
      BY <1>6 DEF AnswerOnce
    <2>2. o.pc = "allowed"
      BY <1>0 DEF Ops
    <2> HIDE DEF o
    <2>3. Keeps(a, o, data[p], saved)
      BY <2>2 DEF Keeps, Persisting
    <2>4. QED
      BY <1>0, <1>2, <2>1, <2>3
  <1>7. CASE AnswerNo(p, c) \/ Return(p, c)
    <2>1. op' = [op EXCEPT ![a] = Idle] /\ op[a].pc # "idle" /\ agreed' = agreed
      BY <1>7 DEF AnswerNo, Return
    <2>2. Keeps(a, Idle, data[p], saved)
      BY DEF Keeps, Idle, Persisting
    <2>3. QED
      BY <1>0, <1>2, <2>1, <2>2
  <1>8. ASSUME NEW ch \in Range(ChoicesOf(op[<<p, c>>].req)), AnswerAlways(p, c, ch)
        PROVE  GrantInv'
    <2> DEFINE o == [op[a] EXCEPT !.pc = "saving", !.byUser = TRUE, !.choice = ch]
    <2>1. op' = [op EXCEPT ![a] = o] /\ op[a].pc = "asking" /\ agreed' = agreed \cup {ch}
      BY <1>8 DEF AnswerAlways
    <2>2. /\ o.pc = "saving" /\ o.req = op[a].req /\ o.left = op[a].left /\ o.choice = ch
      BY <1>0 DEF Ops
    <2> HIDE DEF o
    <2>3. agreed' \subseteq Offered
      BY <1>0, <2>1 DEF Offered
    <2>4. Keeps(a, o, data[p], saved)
      BY <1>0, <2>1, <2>2 DEF Keeps, Unmet, Persisting
    <2>5. QED
      BY <1>2, <2>1, <2>3, <2>4
  <1>9. QED
    BY <1>3, <1>4, <1>5, <1>6, <1>7, <1>8

\* Save replaces a policy by one that gives no less.
LEMMA SaveKeeps ==
  ASSUME Lone, Inv, FileInv, FileInv', GrantInv, NEW p \in Procs, NEW c \in Callers, Save(p, c)
  PROVE  GrantInv'
  <1> DEFINE a  == <<p, c>>
             ch == op[a].choice
             d  == [data[p] EXCEPT ![ch.id] = ch.actions]
             o  == [op[a] EXCEPT !.pc = "open", !.snap = d]
  <1>0. /\ a \in Agents /\ a[1] = p /\ a[2] # Setup
        /\ op \in [Agents -> Ops] /\ op[a] \in Ops /\ op[a].req \in Requests
        /\ ch \in ChoiceSet /\ Keeps(a, op[a], data[p], saved)
        /\ data \in [Procs -> Policies] /\ data[p] \in Policies /\ Granted(data[p], Offered)
    <2>1. a \in Agents /\ a[1] = p /\ a[2] # Setup
      BY SmallTypes DEF Agents
    <2>2. data \in [Procs -> Policies] /\ Granted(data[p], agreed)
      BY DEF Inv, TypeInv, StoreInv
    <2>3. Granted(data[p], Offered)
      BY <2>2, GrantedMore DEF GrantInv
    <2>4. QED
      BY <2>1, <2>2, <2>3, AgentFacts DEF GrantInv
  <1>1. /\ op[a].pc = "saving" /\ UNCHANGED <<up, file, agreed, saved>>
        /\ data' = [data EXCEPT ![p] = d] /\ data'[p] = d
    BY <1>0 DEF Save
  <1>2. op' = [op EXCEPT ![a] = o]
    <2>1. op' = [op EXCEPT ![a] = [op[a] EXCEPT !.pc = "open", !.snap = data'[p]]]
      BY DEF Save
    <2> HIDE DEF d
    <2>2. QED
      BY <1>1, <2>1
  <1>3. ch \in Range(ChoicesOf(op[a].req)) /\ data[p][ch.id] \subseteq ch.actions
    <2>1. ch \in Range(ChoicesOf(op[a].req)) /\ op[a].left = <<>> /\ Unmet(op[a], data[p])
      BY <1>0, <1>1 DEF Keeps
    <2>2. Range(op[a].left) = {}
      BY <2>1 DEF Range
    <2>3. ~(RequiredActions(op[a].req) \subseteq Check(data[p], ch.id))
      BY <2>1, <2>2 DEF Unmet
    <2>4. QED
      BY <1>0, <2>1, <2>3, ChoiceWidens
  <1>4. p \in up
    BY <1>1 DEF FileInv
  <1>5. Kept(saved \cup {ch}, d)
    <2>1. \A id \in PolicyIDs : d[id] = IF id = ch.id THEN ch.actions ELSE data[p][id]
      BY <1>0 DEF Policies
    <2> HIDE DEF d
    <2>2. ch.id \in PolicyIDs /\ \A g \in saved : g.id \in PolicyIDs
      BY <1>0 DEF Inv, TypeInv, ChoiceSet
    <2>3. Kept(saved, data[p])
      BY <1>4 DEF GrantInv
    <2>4. QED
      BY <1>3, <2>1, <2>2, <2>3 DEF Kept
  <1> HIDE DEF d
  <1>6. o.pc = "open" /\ o.snap = d /\ o.choice = ch
    BY <1>0 DEF Ops
  <1> HIDE DEF o
  <1>7. op'[a] = o /\ \A b \in Agents \ {a} : op'[b].pc = op[b].pc
    BY <1>0, <1>2
  <1>8. Keeps(a, op'[a], data'[a[1]], saved')
    BY <1>0, <1>1, <1>5, <1>6, <1>7 DEF Keeps, Persisting
  <1>9. \A q \in up' : Kept(saved', data'[q])
    <2>1. \A q \in up' : q = p
      BY <1>1 DEF Lone, Inv, TypeInv
    <2>2. Kept(saved', data'[p])
      BY <1>1, <1>5 DEF Kept
    <2>3. QED
      BY <2>1, <2>2
  <1>10. Kept(saved', file'.map) /\ agreed' \subseteq Offered
    BY <1>1 DEF GrantInv
  <1>11. QED
    BY <1>0, <1>1, <1>7, <1>8, <1>9, <1>10, GrantGoesOn

\* persist writes what the store holds, and so does setup.
LEMMA PersistKeeps ==
  ASSUME Lone, ~WritesMayFail, Inv, FileInv, FileInv', GrantInv, NEW a \in Agents, Persist(a)
  PROVE  GrantInv'
  <1>0. /\ op \in [Agents -> Ops] /\ op[a] \in Ops /\ op[a].pc \in Persisting
        /\ UNCHANGED <<up, data, agreed>>
        /\ Keeps(a, op[a], data[a[1]], saved)
        /\ Kept(saved \cup {op[a].choice}, op[a].snap)
        /\ a[2] # Setup => op[a].snap = data[a[1]]
    <2>1. op[a].pc \in Persisting /\ UNCHANGED <<up, data, agreed>>
      BY DEF Persist, PersistOpen, PersistWrite, PersistRename, PersistFail, Persisting
    <2>2. Keeps(a, op[a], data[a[1]], saved)
      BY DEF GrantInv
    <2>3. QED
      BY <2>1, <2>2 DEF Keeps, Inv, TypeInv
  <1>1. CASE PersistOpen(a) \/ PersistWrite(a)
    <2>1. /\ file' = file /\ saved' = saved
          /\ \E pc \in {"write", "rename"}, fd \in {"tmp", op[a].fd} :
                op' = [op EXCEPT ![a] = [op[a] EXCEPT !.pc = pc, !.fd = fd]]
      <3>1. CASE PersistOpen(a)
        BY <3>1 DEF PersistOpen
      <3>2. CASE PersistWrite(a)
        <4>1. op[a].fd = "tmp" /\ file' = file /\ saved' = saved
          BY <3>2 DEF PersistWrite, FileInv
        <4>2. op' = [op EXCEPT ![a] = [op[a] EXCEPT !.pc = "rename"]]
          BY <3>2 DEF PersistWrite
        <4>3. [op[a] EXCEPT !.pc = "rename"] = [op[a] EXCEPT !.pc = "rename", !.fd = op[a].fd]
          BY <1>0 DEF Ops
        <4>4. QED
          BY <4>1, <4>2, <4>3
      <3>3. QED
        BY <1>1, <3>1, <3>2
    <2>2. PICK pc \in {"write", "rename"}, fd \in {"tmp", op[a].fd} :
                op' = [op EXCEPT ![a] = [op[a] EXCEPT !.pc = pc, !.fd = fd]]
      BY <2>1
    <2> DEFINE o == [op[a] EXCEPT !.pc = pc, !.fd = fd]
    <2>3. o.pc \in {"write", "rename"} /\ o.snap = op[a].snap /\ o.choice = op[a].choice
      BY <1>0 DEF Ops
    <2> HIDE DEF o
    <2>4. op'[a] = o /\ \A b \in Agents \ {a} : op'[b].pc = op[b].pc
      BY <1>0, <2>2 DEF o
    <2>5. Keeps(a, op'[a], data'[a[1]], saved')
      BY <1>0, <2>1, <2>3, <2>4 DEF Keeps, Persisting
    <2>6. /\ Kept(saved', file'.map) /\ agreed' \subseteq Offered
          /\ \A q \in up' : Kept(saved', data'[q])
      BY <1>0, <2>1 DEF GrantInv
    <2>7. QED
      BY <1>0, <2>4, <2>5, <2>6, GrantGoesOn DEF Persisting
  <1>2. CASE PersistRename(a)
    <2> DEFINE fds == [b \in Agents |-> [op[b] EXCEPT !.fd =
                         CASE @ = "tmp" -> "file" [] @ = "file" -> "gone" [] OTHER -> @]]
               o == IF a[2] = Setup THEN Idle
                    ELSE [fds[a] EXCEPT !.pc = "allowed", !.snap = NoPolicy, !.fd = "none"]
    <2>1. op[a].pc = "rename" /\ tmp = Whole(op[a].snap) /\ tmp # Absent
      BY <1>2 DEF PersistRename, FileInv, Whole, Absent
    <2>2. file'.map = op[a].snap /\ SaveReturns(a, fds, TRUE)
      <3>1. file' = tmp /\ SaveReturns(a, fds, TRUE)
        BY <1>2, <2>1 DEF PersistRename
      <3> HIDE DEF fds
      <3>2. QED
        BY <2>1, <3>1 DEF Whole
    <2>3. \A b \in Agents : fds[b] \in Ops /\ fds[b].pc = op[b].pc
      BY <1>0 DEF Ops
    <2>4. op' = [fds EXCEPT ![a] = o] /\ saved' = saved \cup {op[a].choice}
      BY <2>2 DEF SaveReturns
    <2>5. o.pc \in {"idle", "allowed"}
      BY <2>3 DEF Ops, Idle
    <2>6. fds \in [Agents -> Ops]
      BY <2>3
    <2> HIDE DEF fds, o
    <2>7. op'[a] = o /\ \A b \in Agents \ {a} : op'[b].pc = op[b].pc
      BY <2>3, <2>4, <2>6
    <2>8. Keeps(a, op'[a], data'[a[1]], saved')
      BY <2>5, <2>7 DEF Keeps, Persisting
    <2>9. Kept(saved', file'.map) /\ agreed' \subseteq Offered
      BY <1>0, <2>2, <2>4 DEF GrantInv
    <2>10. \A q \in up' : Kept(saved', data'[q])
      <3> SUFFICES ASSUME NEW q \in up
                   PROVE  Kept(saved', data'[q])
        BY <1>0
      <3>1. PICK p \in Procs, x \in Callers \cup {Setup} : a = <<p, x>>
        BY DEF Agents
      <3>2. q = p
        BY <3>1 DEF Lone, Inv, TypeInv
      <3>3. op[<<p, x>>].pc # "idle"
        BY <1>0, <3>1 DEF Persisting
      <3>4. a[2] # Setup
        BY <3>1, <3>2, <3>3 DEF FileInv
      <3>5. data'[q] = op[a].snap
        BY <1>0, <3>1, <3>2, <3>4
      <3>6. QED
        BY <1>0, <2>4, <3>5
    <2>11. QED
      BY <1>0, <2>7, <2>8, <2>9, <2>10, GrantGoesOn DEF Persisting
  <1>3. QED
    BY <1>1, <1>2 DEF Persist, PersistFail

\* Setup adds the default to what the file holds.
LEMMA SetupKeeps ==
  ASSUME Lone, Inv, FileInv, FileInv', GrantInv, NEW p \in Procs, SetupStat(p) \/ SetupLoad(p)
  PROVE  GrantInv'
  <1> DEFINE a == <<p, Setup>>
  <1>0. /\ a \in Agents /\ a[1] = p /\ a[2] = Setup
        /\ op \in [Agents -> Ops] /\ op[a] \in Ops
        /\ file.map \in Policies /\ agreed \subseteq Offered /\ saved \subseteq agreed
    BY DEF Agents, GrantInv, Inv, TypeInv, Files
  <1>1. UNCHANGED <<up, data, file, saved>>
    BY DEF SetupStat, SetupLoad
  <1>2. ASSUME NEW o, op' = [op EXCEPT ![a] = o], op[a].pc # "idle" \/ o.pc # "idle",
               agreed' \subseteq Offered, Keeps(a, o, data[p], saved)
        PROVE  GrantInv'
    <2>1. op'[a] = o /\ \A b \in Agents \ {a} : op'[b].pc = op[b].pc
      BY <1>0, <1>2
    <2>2. Kept(saved', file'.map) /\ \A q \in up' : Kept(saved', data'[q])
      BY <1>1 DEF GrantInv
    <2>3. Keeps(a, op'[a], data'[a[1]], saved')
      BY <1>0, <1>1, <1>2, <2>1
    <2>4. QED
      BY <1>0, <1>2, <2>1, <2>2, <2>3, GrantGoesOn
  <1>3. CASE SetupStat(p)
    <2> DEFINE o == [op[a] EXCEPT !.pc = "stat"]
    <2>1. op' = [op EXCEPT ![a] = o] /\ agreed' = agreed
      BY <1>3 DEF SetupStat
    <2>2. o.pc = "stat"
      BY <1>0 DEF Ops
    <2> HIDE DEF o
    <2>3. Keeps(a, o, data[p], saved)
      BY <2>2 DEF Keeps, Persisting
    <2>4. QED
      BY <1>0, <1>2, <2>1, <2>2, <2>3
  <1>4. CASE SetupLoad(p)
    <2> DEFINE ch == Choice(Sandbox, {"read", "write"})
               d  == [file.map EXCEPT ![Sandbox] = ch.actions]
               o  == [op[a] EXCEPT !.pc = "open", !.choice = ch, !.snap = d]
    <2>1. /\ op[a].pc = "stat"
          /\ \/ op' = [op EXCEPT ![a] = o] /\ agreed' = agreed \cup {ch}
             \/ op' = [op EXCEPT ![a] = Idle] /\ agreed' = agreed
      BY <1>4 DEF SetupLoad
    <2>2. Keeps(a, Idle, data[p], saved)
      BY DEF Keeps, Idle, Persisting
    <2>3. Kept(saved \cup {ch}, d)
      <3>1. ch.id = Sandbox /\ ch.actions = {"read", "write"} /\ Sandbox.target = "directory"
        BY DEF Choice, Sandbox, PolicyID
      <3>2. \A id \in PolicyIDs : d[id] = IF id = Sandbox THEN ch.actions ELSE file.map[id]
        BY <1>0 DEF Policies
      <3> HIDE DEF ch, d
      <3>3. \A g \in saved : /\ g.id \in PolicyIDs
                             /\ g.id = Sandbox => g.actions \subseteq {"read", "write"}
        BY <1>0, <3>1, OfferedShape
      <3>4. Kept(saved, file.map)
        BY DEF GrantInv
      <3>5. QED
        BY <3>1, <3>2, <3>3, <3>4, PolicyPaths DEF Kept
    <2>4. ch \in Offered
      BY DEF Offered
    <2> HIDE DEF ch, d
    <2>5. o.pc = "open" /\ o.choice = ch /\ o.snap = d
      BY <1>0 DEF Ops
    <2> HIDE DEF o
    <2>6. Keeps(a, o, data[p], saved)
      BY <1>0, <2>3, <2>5 DEF Keeps, Persisting
    <2>7. QED
      BY <1>0, <1>2, <2>1, <2>2, <2>4, <2>6
  <1>5. QED
    BY <1>3, <1>4

LEMMA GrantStep ==
  ASSUME Lone, ~WritesMayFail, Inv, FileInv, FileInv', GrantInv, [Next]_vars
  PROVE  GrantInv'
  <1>1. CASE UNCHANGED vars
    BY <1>1 DEF vars, GrantInv
  <1>2. ASSUME NEW p \in Procs, NEW c \in Callers, CallerStep(p, c)
        PROVE  GrantInv'
    BY <1>2, CallKeeps, SaveKeeps DEF CallerStep
  <1>3. ASSUME NEW p \in Procs, Start(p)
        PROVE  GrantInv'
    <2>1. /\ p \notin up /\ op[<<p, Setup>>].pc = "idle"
          /\ data' = [data EXCEPT ![p] = file.map] /\ data \in [Procs -> Policies]
          /\ UNCHANGED <<op, file, agreed, saved>>
      BY <1>3 DEF Start, Inv, TypeInv
    <2>2. ASSUME NEW a \in Agents
          PROVE  op'[a].pc = "idle"
      <3>1. PICK q \in Procs, x \in Callers \cup {Setup} : a = <<q, x>>
        BY DEF Agents
      <3>2. q = p
        BY DEF Lone
      <3>3. x \in Callers \/ x = Setup
        OBVIOUS
      <3>4. QED
        BY <2>1, <3>1, <3>2, <3>3 DEF FileInv
    <2>3. \A a \in Agents : Keeps(a, op'[a], data'[a[1]], saved')
      BY <2>2 DEF Keeps, Persisting
    <2>4. \A q \in up' : Kept(saved', data'[q])
      <3>1. up' = up \cup {p} /\ \A q \in up' : q = p
        BY <1>3 DEF Start, Lone, Inv, TypeInv
      <3>2. QED
        BY <2>1, <3>1 DEF GrantInv
    <2>5. QED
      BY <2>1, <2>3, <2>4 DEF GrantInv
  <1>4. ASSUME NEW p \in Procs, Kill(p)
        PROVE  GrantInv'
    <2>1. /\ \A q \in Procs : q = p
          /\ up' = up \ {p} /\ up \subseteq Procs
          /\ op' = [a \in Agents |-> IF a[1] = p THEN Idle ELSE op[a]]
          /\ UNCHANGED <<file, agreed, saved>>
      BY <1>4 DEF Kill, Lone, Inv, TypeInv
    <2>2. \A a \in Agents : op'[a] = Idle
      BY <2>1 DEF Agents
    <2>3. \A a \in Agents : Keeps(a, op'[a], data'[a[1]], saved')
      BY <2>2 DEF Keeps, Idle, Persisting
    <2>4. QED
      BY <2>1, <2>3 DEF GrantInv
  <1>5. QED
    BY <1>1, <1>2, <1>3, <1>4, SetupKeeps, PersistKeeps DEF Next

\* The user is not asked again about what he granted for good, if one process runs
\* one call at a time, no write fails, and no directory with a policy contains
\* another one.
THEOREM GrantsCorrect ==
  ASSUME Lone, ~WritesMayFail, Apart
  PROVE  Spec => []GrantsHonoured
  <1>1. Init => GrantInv
    <2> SUFFICES ASSUME Init
                 PROVE  GrantInv
      OBVIOUS
    <2>1. up = {} /\ agreed = {} /\ saved = {} /\ op = [a \in Agents |-> Idle]
      BY DEF Init
    <2>2. \A a \in Agents : Keeps(a, op[a], data[a[1]], saved)
      BY <2>1 DEF Keeps, Idle, Persisting
    <2>3. QED
      BY <2>1, <2>2 DEF GrantInv, Kept
  <1>2. Spec => [](Inv /\ FileInv)
    BY FileInvariant DEF Lone
  <1>3. Inv /\ FileInv /\ FileInv' /\ GrantInv /\ [Next]_vars => GrantInv'
    BY GrantStep
  <1>4. Inv /\ FileInv /\ GrantInv => GrantsHonoured
    <2> SUFFICES ASSUME Inv, FileInv, GrantInv, NEW a \in Agents, op[a].pc = "asking", op[a].covered
                 PROVE  FALSE
      BY DEF GrantsHonoured
    <2>1. PICK p \in Procs, x \in Callers \cup {Setup} : a = <<p, x>>
      BY DEF Agents
    <2>2. /\ op[a].req \in Requests /\ Sound(a, op[a], agreed)
          /\ data \in [Procs -> Policies] /\ saved \subseteq Offered
      BY AgentFacts DEF Inv, TypeInv, GrantInv
    <2>3. x \in Callers
      BY <2>1, <2>2 DEF Sound, Persisting
    <2>4. p \in up
      BY <2>1, <2>3 DEF FileInv
    <2>5. Keeps(a, op[a], data[p], saved) /\ Kept(saved, data[p])
      BY <2>1, <2>4 DEF GrantInv
    <2>6. PICK g \in saved : Grants(g, op[a].req)
      BY <2>5 DEF Keeps
    <2>7. PICK ch \in Range(ChoicesOf(op[a].req)) :
              RequiredActions(op[a].req) \subseteq Check(data[p], ch.id)
      BY <2>2, <2>5, <2>6, KeptAllows DEF Kept
    <2>8. op[a].left = <<>> /\ Unmet(op[a], data[p])
      BY <2>5 DEF Keeps
    <2>9. Range(op[a].left) = {}
      BY <2>8 DEF Range
    <2>10. QED
      BY <2>7, <2>8, <2>9 DEF Unmet
  <1>5. QED
    BY <1>1, <1>2, <1>3, <1>4, PTL DEF Spec
=============================================================================
