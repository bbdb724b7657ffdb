---------------------------- MODULE Editor_proofs ----------------------------
(***************************************************************************)
(* Proofs about Editor, for panes of any size and any texts, as long as    *)
(* the text does not wrap at its words; and about ThreadView, whose input  *)
(* pane is edited the same way: what the user typed is never lost.         *)
(***************************************************************************)
EXTENDS Editor, ThreadView, SequenceTheorems, FiniteSetTheorems, WellFoundedInduction, TLAPS

-----------------------------------------------------------------------------
(* Recursive functions.  The lengths of texts bound every recursion, so what*)
(* a recursive function computes is proved by induction up to a bound.   *)

\* Bounded induction: a set that has 0 and with every number the next one has all.
LEMMA UpTo ==
  ASSUME NEW N \in Nat, NEW S, 0 \in S, \A n \in 0 .. N - 1 : n \in S => n + 1 \in S
  PROVE  0 .. N \subseteq S
  <1> DEFINE R == {ss \in Nat \X Nat : ss[1] < ss[2]}
             B == {n \in 0 .. N : n \notin S}
  <1>1. SUFFICES ASSUME B # {} PROVE FALSE
    OBVIOUS
  <1>2. IsWellFoundedOn(R, Nat)
    BY NatLessThanWellFounded DEF OpToRel
  <1>2a. B \subseteq Nat
    OBVIOUS
  <1>3. \E x \in B : \A y \in B : ~(<<y, x>> \in R)
    <2> HIDE DEF B, R
    <2>1. QED
      BY <1>1, <1>2a, <1>2, WFMin
  <1>4. PICK x \in B : \A y \in B : ~(y < x)
    BY <1>2a, <1>3
  <1>5. x # 0 /\ x - 1 \in 0 .. N - 1 /\ x - 1 \notin B
    BY <1>4
  <1>6. QED
    BY <1>4, <1>5

\* Do two functions agree below k?
Agree(f, g, k) == \A i \in 0 .. k - 1 : f[i] = g[i]

\* A rule that gives every value of a function by the values before it
Rules(n, V) ==
    {rule \in [0 .. n -> [[0 .. n -> V] -> V]] :
        \A k \in 0 .. n : \A f, g \in [0 .. n -> V] : Agree(f, g, k) => rule[k][f] = rule[k][g]}

\* The functions a rule defines
Defined(n, V, rule) == {f \in [0 .. n -> V] : \A k \in 0 .. n : f[k] = rule[k][f]}

\* A function may be defined by recursion.
LEMMA Recursion ==
  ASSUME NEW n \in Nat, NEW V, V # {}, NEW rule \in Rules(n, V)
  PROVE  Defined(n, V, rule) # {}
  <1> DEFINE F == [0 .. n -> V]
             Good(m, f) == \A k \in 0 .. m : f[k] = rule[k][f]
             S == {m \in 0 .. n : \E f \in F : Good(m, f)}
             With(f, m) == [f EXCEPT ![m] = rule[m][f]]
  <1>1. rule \in [0 .. n -> [F -> V]]
        /\ \A k \in 0 .. n : \A f, g \in F : Agree(f, g, k) => rule[k][f] = rule[k][g]
    BY DEF Rules
  <1>2. ASSUME NEW m \in 0 .. n, NEW f \in F, \A k \in 0 .. m - 1 : f[k] = rule[k][f]
        PROVE  m \in S
    <2> DEFINE g == With(f, m)
    <2>1. rule[m][f] \in V
      BY <1>1
    <2>2. g \in F /\ g[m] = rule[m][f] /\ \A i \in 0 .. n : i # m => g[i] = f[i]
      BY <2>1
    <2> HIDE DEF F, g
    <2>3. ASSUME NEW k \in 0 .. m PROVE g[k] = rule[k][g]
      <3>1. k \in 0 .. n /\ Agree(f, g, k)
        BY <2>2 DEF Agree
      <3>2. rule[k][f] = rule[k][g]
        BY <1>1, <2>2, <3>1
      <3>3. CASE k = m
        BY <2>2, <3>2, <3>3
      <3>4. CASE k # m
        <4>1. k \in 0 .. m - 1
          BY <3>4
        <4>2. QED
          BY <1>2, <2>2, <3>1, <3>2, <3>4, <4>1
      <3>5. QED
        BY <3>3, <3>4
    <2>4. QED
      BY <2>2, <2>3
  <1>3. 0 \in S
    <2>1. PICK v \in V : TRUE
      OBVIOUS
    <2>2. [k \in 0 .. n |-> v] \in F /\ 0 \in 0 .. n
      OBVIOUS
    <2> HIDE DEF F, S
    <2>3. QED
      BY <1>2, <2>2
  <1>4. ASSUME NEW m \in 0 .. n - 1, m \in S PROVE m + 1 \in S
    <2>1. PICK f \in F : Good(m, f)
      BY <1>4
    <2>2. m + 1 \in 0 .. n /\ \A k \in 0 .. (m + 1) - 1 : f[k] = rule[k][f]
      BY <2>1
    <2> HIDE DEF F, S
    <2>3. QED
      BY <1>2, <2>2
  <1>5. 0 .. n \subseteq S
    <2> HIDE DEF S
    <2>1. QED
      BY <1>3, <1>4, UpTo
  <1>6. PICK f \in F : Good(n, f)
    BY <1>5
  <1>7. QED
    BY <1>6 DEF Defined

-----------------------------------------------------------------------------
(* Tabs.                                                                 *)

\* The runes of a line; that a blank is a string is nothing the provers know.
RuneSet == STRING \cup Blanks

\* What the prefixes of a sequence of sequences concatenate to
Concatenations(S, ss) ==
    {f \in [1 .. Len(ss) -> Seq(S)] :
        f[1] = ss[1] /\ \A i \in 2 .. Len(ss) : f[i] = f[i - 1] \o ss[i]}

\* FlattenSeq concatenates from the left.
LEMMA Flatten ==
  ASSUME NEW S, NEW ss \in Seq(Seq(S)), ss # <<>>
  PROVE  \E f \in Concatenations(S, ss) : FlattenSeq(ss) = f[Len(ss)]
  <1> DEFINE n == Len(ss) - 1
             V == Seq(S)
             rule == [k \in 0 .. n |-> [f \in [0 .. n -> V] |->
                         IF k = 0 THEN ss[1] ELSE f[k - 1] \o ss[k + 1]]]
             Is(to) == to = [i \in 1 .. Len(ss) |-> IF i = 1 THEN ss[1] ELSE to[i - 1] \o ss[i]]
             g == CHOOSE to : Is(to)
  <1>1. n \in Nat /\ Len(ss) = n + 1 /\ \A i \in 1 .. n + 1 : ss[i] \in V
    BY EmptySeq
  <1>2. FlattenSeq(ss) = g[Len(ss)]
    <2>1. Len(ss) # 0
      BY <1>1
    <2>2. QED
      BY <2>1, Zenon DEF FlattenSeq
  <1> HIDE DEF n
  <1>3. rule \in Rules(n, V)
    <2>1. ASSUME NEW k \in 0 .. n, NEW f \in [0 .. n -> V]
          PROVE  (IF k = 0 THEN ss[1] ELSE f[k - 1] \o ss[k + 1]) \in V
      <3>1. CASE k = 0
        BY <1>1, <3>1
      <3>2. CASE k # 0
        <4>1. k - 1 \in 0 .. n /\ k + 1 \in 1 .. n + 1
          BY <1>1, <3>2
        <4>2. f[k - 1] \in V /\ ss[k + 1] \in V
          BY <1>1, <4>1
        <4> HIDE DEF V
        <4>3. f[k - 1] \o ss[k + 1] \in V
          BY <4>2, ConcatProperties DEF V
        <4>4. QED
          BY <3>2, <4>3
      <3>3. QED
        BY <3>1, <3>2
    <2> HIDE DEF V
    <2>2. rule \in [0 .. n -> [[0 .. n -> V] -> V]]
      BY <2>1
    <2>3. ASSUME NEW k \in 0 .. n, NEW f \in [0 .. n -> V], NEW h \in [0 .. n -> V], Agree(f, h, k)
          PROVE  rule[k][f] = rule[k][h]
      BY <1>1, <2>3 DEF Agree
    <2> HIDE DEF rule
    <2>4. QED
      BY <2>2, <2>3 DEF Rules
  <1>4. PICK h \in [0 .. n -> V] : \A k \in 0 .. n : h[k] = rule[k][h]
    <2>1. <<>> \in V
      OBVIOUS
    <2> HIDE DEF V, rule
    <2>2. QED
      BY <1>1, <1>3, <2>1, Recursion DEF Defined
  <1> DEFINE f == [i \in 1 .. Len(ss) |-> h[i - 1]]
  <1>5. /\ f \in [1 .. Len(ss) -> V] /\ f[1] = ss[1]
        /\ \A i \in 2 .. Len(ss) : f[i] = f[i - 1] \o ss[i]
    <2>1. \A i \in 1 .. Len(ss) : i - 1 \in 0 .. n
      BY <1>1
    <2>2. \A k \in 0 .. n : h[k] = IF k = 0 THEN ss[1] ELSE h[k - 1] \o ss[k + 1]
      BY <1>4
    <2> HIDE DEF V, rule
    <2>3. f \in [1 .. Len(ss) -> V]
      BY <1>4, <2>1
    <2>4. f[1] = ss[1]
      <3>1. 1 \in 1 .. Len(ss) /\ 1 - 1 = 0 /\ 0 \in 0 .. n
        BY <1>1
      <3>2. f[1] = h[0]
        BY <3>1
      <3>3. QED
        BY <2>2, <3>1, <3>2
    <2>5. ASSUME NEW i \in 2 .. Len(ss) PROVE f[i] = f[i - 1] \o ss[i]
      <3>1. i \in 1 .. Len(ss) /\ i - 1 \in 1 .. Len(ss) /\ i - 1 \in 0 .. n
            /\ i - 1 # 0 /\ (i - 1) + 1 = i
        BY <1>1
      <3>2. f[i] = h[i - 1] /\ f[i - 1] = h[(i - 1) - 1]
        BY <3>1
      <3>3. QED
        BY <2>2, <3>1, <3>2
    <2>6. QED
      BY <2>3, <2>4, <2>5
  <1> HIDE DEF f
  <1>6. Is(f)
    <2>1. f = [i \in 1 .. Len(ss) |-> f[i]]
      BY <1>5
    <2>2. \A i \in 1 .. Len(ss) : i = 1 \/ i \in 2 .. Len(ss)
      BY <1>1
    <2>3. QED
      BY <1>5, <2>1, <2>2
  <1>7. Is(g)
    <2> HIDE DEF Is
    <2>1. QED
      BY <1>6, Zenon
  <1> DEFINE B == {i \in 0 .. n : g[i + 1] = f[i + 1]}
  <1> HIDE DEF g
  <1>8. 0 .. n \subseteq B
    <2>1. 0 \in B
      <3>1. 1 \in 1 .. Len(ss)
        BY <1>1
      <3>2. g[1] = ss[1]
        BY <1>7, <3>1
      <3>3. QED
        BY <1>1, <1>5, <3>2
    <2>2. ASSUME NEW i \in 0 .. n - 1, i \in B PROVE i + 1 \in B
      <3>1. i + 2 \in 2 .. Len(ss) /\ i + 2 \in 1 .. Len(ss) /\ i + 2 # 1 /\ (i + 2) - 1 = i + 1
            /\ (i + 1) + 1 = i + 2 /\ i + 1 \in 0 .. n
        BY <1>1
      <3>2. g[i + 2] = g[i + 1] \o ss[i + 2] /\ f[i + 2] = f[i + 1] \o ss[i + 2]
        BY <1>5, <1>7, <3>1
      <3>3. QED
        BY <2>2, <3>1, <3>2
    <2> HIDE DEF B
    <2>3. QED
      BY <1>1, <2>1, <2>2, UpTo
  <1>9. g[Len(ss)] = f[Len(ss)]
    <2>1. n \in B
      BY <1>1, <1>8
    <2>2. QED
      BY <1>1, <2>1
  <1>10. QED
    BY <1>2, <1>5, <1>9 DEF Concatenations

\* The domain of a sequence tells its length.
LEMMA DomainLength ==
  ASSUME NEW S, NEW s \in Seq(S), NEW m \in Nat, DOMAIN s = 1 .. m
  PROVE  Len(s) = m /\ (m # 0 => s # <<>>)
  <1> DEFINE l == Len(s)
  <1>1. l \in Nat /\ 1 .. l = 1 .. m
    BY LenProperties
  <1>1a. s = <<>> => l = 0
    OBVIOUS
  <1> HIDE DEF l
  <1>2. l > 0 => l \in 1 .. l
    BY <1>1
  <1>3. m > 0 => m \in 1 .. m
    OBVIOUS
  <1>4. l > 0 => l <= m
    BY <1>1, <1>2
  <1>5. m > 0 => m <= l
    BY <1>1, <1>3
  <1>6. l = m
    BY <1>1, <1>4, <1>5
  <1>7. QED
    BY <1>1a, <1>6 DEF l

\* A sequence of m blanks
LEMMA BlankLine ==
  ASSUME NEW m \in Nat
  PROVE  [k \in 1 .. m |-> " "] \in Seq(RuneSet) /\ Len([k \in 1 .. m |-> " "]) = m
  <1> DEFINE s == [k \in 1 .. m |-> " "]
  <1>1. s \in [1 .. m -> RuneSet] /\ DOMAIN s = 1 .. m
    BY DEF RuneSet, Blanks
  <1> HIDE DEF s
  <1>2. s \in Seq(RuneSet)
    BY <1>1
  <1>3. Len(s) = m
    BY <1>1, <1>2, DomainLength
  <1>4. QED
    BY <1>2, <1>3 DEF s

\* ExpandTabs puts blanks for tabs: a text becomes no shorter, and one without tabs stays.
LEMMA Expanded ==
  ASSUME NEW runes \in Seq(RuneSet)
  PROVE  /\ ExpandTabs(runes) \in Seq(RuneSet)
         /\ Len(ExpandTabs(runes)) >= Len(runes)
         /\ ~Contains(runes, "\t") => ExpandTabs(runes) = runes
  <1> DEFINE n == Len(runes)
             V == Seq(RuneSet)
             Spaces(s) == [k \in 1 .. TabWidth - (Len(s) % TabWidth) |-> " "]
             Body(s, r) == IF r # "\t" THEN Append(s, r) ELSE s \o Spaces(s)
             rule == [k \in 0 .. n |-> [f \in [0 .. n -> V] |->
                         IF k = 0 THEN <<>> ELSE Body(f[k - 1], runes[k])]]
             Is(to) == to = [i \in 0 .. n |->
                         IF i = 0 THEN <<>>
                         ELSE IF runes[i] # "\t" THEN Append(to[i - 1], runes[i])
                         ELSE to[i - 1] \o [k \in 1 .. TabWidth - (Len(to[i - 1]) % TabWidth) |-> " "]]
             g == CHOOSE to : Is(to)
  <1>1. n \in Nat /\ \A k \in 1 .. n : runes[k] \in RuneSet
    OBVIOUS
  <1>2. ExpandTabs(runes) = IF Contains(runes, "\t") THEN g[n] ELSE runes
    BY Zenon DEF ExpandTabs
  <1>3. ASSUME NEW s \in V, NEW r \in RuneSet
        PROVE  Body(s, r) \in V /\ Len(Body(s, r)) >= Len(s) + 1
    <2>1. CASE r # "\t"
      BY <2>1
    <2>2. CASE r = "\t"
      <3> DEFINE m == TabWidth - (Len(s) % TabWidth)
      <3>1. m \in Nat \ {0}
        <4>1. Len(s) \in Nat /\ TabWidth \in Nat \ {0}
          BY TabAssumption
        <4>2. QED
          BY <4>1
      <3> HIDE DEF m
      <3>2. [k \in 1 .. m |-> " "] \in V /\ Len([k \in 1 .. m |-> " "]) = m
        BY <3>1, BlankLine DEF V
      <3>3. Body(s, r) = s \o [k \in 1 .. m |-> " "]
        BY <2>2 DEF m
      <3>4. /\ s \o [k \in 1 .. m |-> " "] \in V
            /\ Len(s \o [k \in 1 .. m |-> " "]) = Len(s) + m
        BY <3>2, ConcatProperties
      <3>5. Len(s) \in Nat
        OBVIOUS
      <3> DEFINE t == s \o [k \in 1 .. m |-> " "]
      <3> HIDE DEF Body, t
      <3>6. t \in V /\ Len(t) = Len(s) + m /\ Body(s, r) = t
        BY <3>3, <3>4 DEF t
      <3> HIDE DEF V
      <3>7. QED
        BY <3>1, <3>5, <3>6
    <2>3. QED
      BY <2>1, <2>2
  <1> HIDE DEF n, V
  <1>4. rule \in Rules(n, V)
    <2> HIDE DEF Body
    <2>1. ASSUME NEW k \in 0 .. n, NEW f \in [0 .. n -> V]
          PROVE  (IF k = 0 THEN <<>> ELSE Body(f[k - 1], runes[k])) \in V
      <3>1. <<>> \in V
        BY DEF V
      <3>2. CASE k # 0
        <4>1. k - 1 \in 0 .. n /\ k \in 1 .. n
          BY <1>1, <3>2
        <4>2. f[k - 1] \in V /\ runes[k] \in RuneSet
          BY <1>1, <4>1
        <4>3. QED
          BY <1>3, <3>2, <4>2
      <3>3. QED
        BY <3>1, <3>2
    <2>2. rule \in [0 .. n -> [[0 .. n -> V] -> V]]
      BY <2>1
    <2>3. ASSUME NEW k \in 0 .. n, NEW f \in [0 .. n -> V], NEW h \in [0 .. n -> V], Agree(f, h, k)
          PROVE  rule[k][f] = rule[k][h]
      BY <1>1, <2>3 DEF Agree
    <2> HIDE DEF rule
    <2>4. QED
      BY <2>2, <2>3 DEF Rules
  <1>5. PICK h \in [0 .. n -> V] : \A k \in 0 .. n : h[k] = rule[k][h]
    <2>1. <<>> \in V
      BY DEF V
    <2> HIDE DEF rule
    <2>2. QED
      BY <1>1, <1>4, <2>1, Recursion DEF Defined
  <1>6. Is(h)
    <2>1. h = [i \in 0 .. n |-> h[i]]
      BY <1>5
    <2>2. ASSUME NEW i \in 0 .. n
          PROVE  h[i] = IF i = 0 THEN <<>>
                        ELSE IF runes[i] # "\t" THEN Append(h[i - 1], runes[i])
                        ELSE h[i - 1] \o [k \in 1 .. TabWidth - (Len(h[i - 1]) % TabWidth) |-> " "]
      BY <1>5
    <2>3. QED
      BY <2>1, <2>2, Zenon
  <1>7. Is(g)
    <2> HIDE DEF Is
    <2>1. QED
      BY <1>6, Zenon
  <1> HIDE DEF g
  <1>8. g[0] = <<>> /\ \A i \in 1 .. n : g[i] = Body(g[i - 1], runes[i])
    <2>1. 0 \in 0 .. n /\ \A i \in 1 .. n : i \in 0 .. n /\ i # 0
      BY <1>1
    <2>2. \A i \in 0 .. n : g[i] = IF i = 0 THEN <<>>
                         ELSE IF runes[i] # "\t" THEN Append(g[i - 1], runes[i])
                         ELSE g[i - 1] \o [k \in 1 .. TabWidth - (Len(g[i - 1]) % TabWidth) |-> " "]
      BY <1>7
    <2>3. QED
      BY <2>1, <2>2
  <1> DEFINE B == {i \in 0 .. n : g[i] \in V /\ Len(g[i]) >= i}
  <1>9. 0 .. n \subseteq B
    <2>1. 0 \in B
      <3>1. <<>> \in V /\ 0 \in 0 .. n
        BY <1>1 DEF V
      <3>2. Len(<<>>) = 0
        OBVIOUS
      <3> DEFINE z == Len(g[0])
      <3>3. g[0] \in V /\ z = 0
        BY <1>8, <3>1, <3>2
      <3>4. z >= 0
        BY <3>3
      <3>5. QED
        BY <3>1, <3>3, <3>4
    <2>2. ASSUME NEW i \in 0 .. n - 1, i \in B PROVE i + 1 \in B
      <3>1. i + 1 \in 1 .. n /\ i + 1 \in 0 .. n /\ (i + 1) - 1 = i
        BY <1>1
      <3>2. g[i] \in V /\ Len(g[i]) >= i /\ Len(g[i]) \in Nat
        BY <2>2 DEF V
      <3> HIDE DEF Body
      <3>3. g[i + 1] = Body(g[i], runes[i + 1]) /\ runes[i + 1] \in RuneSet
        BY <1>1, <1>8, <3>1
      <3>4. g[i + 1] \in V /\ Len(g[i + 1]) >= Len(g[i]) + 1
        BY <1>3, <3>2, <3>3
      <3>5. Len(g[i + 1]) \in Nat
        BY <3>4 DEF V
      <3>6. QED
        BY <3>1, <3>2, <3>4, <3>5
    <2> HIDE DEF B
    <2>3. QED
      BY <1>1, <2>1, <2>2, UpTo
  <1>10. n \in B
    BY <1>1, <1>9
  <1>11. QED
    BY <1>1, <1>2, <1>10 DEF n, V

-----------------------------------------------------------------------------
(* Rows.  The rows of a text tile it: each goes on where the row before it*)
(* ends, and they show every line from its start to its end.             *)

RowSet == [line : Nat, start : Nat, indent : {0}, len : Nat, continues : BOOLEAN]

\* Row s goes on where row r ends.
Follows(r, s) ==
    IF r.continues THEN r.len > 0 /\ s.line = r.line /\ s.start = r.start + r.len
    ELSE s.line = r.line + 1 /\ s.start = 0

\* A row stays in its line, whose length is ends[line], and reaches its end unless it
\* continues.
Within(r, ends) ==
    /\ r.line \in DOMAIN ends
    /\ r.start + r.len <= ends[r.line]
    /\ ~r.continues => r.start + r.len = ends[r.line]

Chained(rows, ends) ==
    /\ rows \in Seq(RowSet) \ {<<>>}
    /\ \A d \in 1 .. Len(rows) - 1 : Follows(rows[d], rows[d + 1])
    /\ \A d \in 1 .. Len(rows) : Within(rows[d], ends)

\* Rows that show line n from column start on and all lines up to line m
Tiled(rows, n, start, m, ends) ==
    /\ Chained(rows, ends)
    /\ rows[1].line = n /\ rows[1].start = start
    /\ rows[Len(rows)].line = m /\ ~rows[Len(rows)].continues

\* Chain c begins as a and ends as b.
Joined(c, a, b, ends) == /\ Chained(c, ends)
                         /\ c[1] = a[1] /\ c[Len(c)] = b[Len(b)]

\* Two chains that meet are one.
LEMMA ChainJoin ==
  ASSUME NEW ends, NEW a, NEW b, Chained(a, ends), Chained(b, ends), Follows(a[Len(a)], b[1])
  PROVE  Joined(a \o b, a, b, ends)
  <1> DEFINE c == a \o b
             p == Len(a)
             q == Len(b)
  <1>1. /\ a \in Seq(RowSet) /\ b \in Seq(RowSet) /\ p \in Nat \ {0} /\ q \in Nat \ {0}
    BY EmptySeq DEF Chained
  <1>2. /\ c \in Seq(RowSet) /\ Len(c) = p + q
        /\ \A i \in 1 .. p + q : c[i] = IF i <= p THEN a[i] ELSE b[i - p]
    BY <1>1, ConcatProperties
  <1> HIDE DEF c, p, q
  <1>3. \A i \in 1 .. p : c[i] = a[i]
    BY <1>1, <1>2
  <1>4. \A i \in 1 .. q : c[p + i] = b[i]
    <2> TAKE i \in 1 .. q
    <2>1. p + i \in 1 .. p + q /\ ~(p + i <= p) /\ (p + i) - p = i
      BY <1>1
    <2>2. QED
      BY <1>2, <2>1
  <1>5. ASSUME NEW d \in 1 .. (p + q) - 1 PROVE Follows(c[d], c[d + 1])
    <2>1. CASE d < p
      <3>1. d \in 1 .. p - 1 /\ d \in 1 .. p /\ d + 1 \in 1 .. p
        BY <1>1, <2>1
      <3>2. QED
        BY <1>3, <3>1 DEF Chained, p
    <2>2. CASE d = p
      <3>1. p \in 1 .. p /\ 1 \in 1 .. q
        BY <1>1
      <3>2. QED
        BY <1>3, <1>4, <2>2, <3>1 DEF p
    <2>3. CASE d > p
      <3> DEFINE i == d - p
      <3>1. i \in 1 .. q - 1 /\ i \in 1 .. q /\ i + 1 \in 1 .. q /\ d = p + i /\ d + 1 = p + (i + 1)
        BY <1>1, <2>3
      <3> HIDE DEF i
      <3>2. c[d] = b[i] /\ c[d + 1] = b[i + 1]
        BY <1>4, <3>1
      <3>3. QED
        BY <3>1, <3>2 DEF Chained, q
    <2>4. QED
      BY <1>1, <2>1, <2>2, <2>3
  <1>6. ASSUME NEW d \in 1 .. p + q PROVE Within(c[d], ends)
    <2>1. CASE d \in 1 .. p
      BY <1>3, <2>1 DEF Chained, p
    <2>2. CASE d \notin 1 .. p
      <3>1. d - p \in 1 .. q /\ ~(d <= p)
        BY <1>1, <2>2
      <3>2. QED
        BY <1>2, <3>1 DEF Chained, q
    <2>3. QED
      BY <2>1, <2>2
  <1>7. c # <<>>
    <2>1. Len(c) # 0
      BY <1>1, <1>2
    <2>2. QED
      BY <1>2, <2>1, EmptySeq
  <1>8. c[1] = a[1] /\ c[Len(c)] = b[q]
    <2>1. 1 \in 1 .. p /\ q \in 1 .. q
      BY <1>1
    <2>2. QED
      BY <1>2, <1>3, <1>4, <2>1
  <1>9. Chained(c, ends)
    BY <1>2, <1>5, <1>6, <1>7 DEF Chained
  <1>10. Joined(c, a, b, ends)
    BY <1>8, <1>9 DEF Joined, q
  <1>11. QED
    BY <1>10 DEF c

\* A single row
LEMMA ChainOne ==
  ASSUME NEW ends, NEW r \in RowSet, Within(r, ends)
  PROVE  Chained(<<r>>, ends) /\ <<r>>[1] = r /\ Len(<<r>>) = 1
  <1>1. <<r>> \in Seq(RowSet) /\ <<r>> # <<>> /\ Len(<<r>>) = 1 /\ <<r>>[1] = r
    OBVIOUS
  <1> DEFINE rows == <<r>>
  <1> HIDE DEF rows
  <1>2. rows \in Seq(RowSet) /\ rows # <<>> /\ Len(rows) = 1 /\ rows[1] = r
    BY <1>1 DEF rows
  <1>3. Chained(rows, ends)
    <2>1. 1 .. Len(rows) - 1 = {} /\ 1 .. Len(rows) = {1}
      BY <1>2
    <2>2. QED
      BY <1>2, <2>1 DEF Chained
  <1>4. QED
    BY <1>1, <1>3 DEF rows

\* The rows of two parts of a text
LEMMA TileJoin ==
  ASSUME NEW ends, NEW n, NEW start, NEW m \in Nat, NEW k, NEW a, NEW b,
         Tiled(a, n, start, m, ends), Tiled(b, m + 1, 0, k, ends)
  PROVE  Tiled(a \o b, n, start, k, ends)
  <1>1. Chained(a, ends) /\ Chained(b, ends) /\ Follows(a[Len(a)], b[1])
    BY DEF Tiled, Follows
  <1>2. Joined(a \o b, a, b, ends)
    BY <1>1, ChainJoin
  <1>3. QED
    BY <1>2 DEF Tiled, Joined

\* One row more at the start of a line
LEMMA TilePut ==
  ASSUME NEW ends, NEW r \in RowSet, Within(r, ends), r.continues, r.len > 0, NEW k, NEW b,
         Tiled(b, r.line, r.start + r.len, k, ends)
  PROVE  Tiled(<<r>> \o b, r.line, r.start, k, ends)
  <1> DEFINE a == <<r>>
  <1>1. Chained(a, ends) /\ a[1] = r /\ Len(a) = 1
    BY ChainOne
  <1> HIDE DEF a
  <1>2. Chained(b, ends) /\ Follows(a[Len(a)], b[1])
    BY <1>1 DEF Tiled, Follows
  <1>3. Joined(a \o b, a, b, ends)
    BY <1>1, <1>2, ChainJoin
  <1>4. Tiled(a \o b, r.line, r.start, k, ends)
    BY <1>1, <1>3 DEF Tiled, Joined
  <1>5. QED
    BY <1>4 DEF a

\* A line in one row
LEMMA TileOne ==
  ASSUME NEW ends, NEW r \in RowSet, Within(r, ends), ~r.continues
  PROVE  Tiled(<<r>>, r.line, r.start, r.line, ends)
  <1> DEFINE a == <<r>>
  <1>1. Chained(a, ends) /\ a[1] = r /\ Len(a) = 1
    BY ChainOne
  <1> HIDE DEF a
  <1>2. Tiled(a, r.line, r.start, r.line, ends)
    BY <1>1 DEF Tiled
  <1>3. QED
    BY <1>2 DEF a

\* A line that is cut, a column left to the marker, is shown from its first column to
\* its last.
LEMMA CutTiled ==
  ASSUME NEW ends, NEW n \in Nat, n \in DOMAIN ends, ends[n] \in Nat,
         NEW cols \in Nat, cols >= 2
  PROVE  Tiled(CutRows(n, ends[n], cols, cols - 1), n, 0, n, ends)
  <1> DEFINE len == ends[n]
             seg == cols - 1
             V == Seq(RowSet)
             Full(start) == Row(n, start, 0, seg, seg < cols)
             End(start) == Row(n, start, 0, len - start, FALSE)
             rule == [k \in 0 .. len |-> [h \in [0 .. len -> V] |->
                         IF k <= cols THEN <<End(len - k)>>
                         ELSE <<Full(len - k)>> \o h[k - seg]]]
             Is(rows) == rows = [start \in 0 .. len |->
                            IF len - start <= cols
                            THEN <<Row(n, start, 0, len - start, FALSE)>>
                            ELSE <<Row(n, start, 0, seg, seg < cols)>> \o rows[start + seg]]
             g == CHOOSE rows : Is(rows)
  <1>1. CutRows(n, len, cols, seg) = g[0]
    BY Zenon DEF CutRows
  <1>2. len \in Nat /\ seg \in Nat \ {0} /\ seg < cols /\ cols \in Nat
    OBVIOUS
  <1> HIDE DEF len, seg
  <1>3. ASSUME NEW start \in 0 .. len
        PROVE  /\ Full(start) \in RowSet /\ End(start) \in RowSet
               /\ <<Full(start)>> \in V /\ <<End(start)>> \in V
    <2>1. start \in Nat /\ len - start \in Nat /\ (seg < cols) \in BOOLEAN
      BY <1>2
    <2>2. Full(start) \in RowSet /\ End(start) \in RowSet
      BY <1>2, <2>1 DEF RowSet, Row
    <2> HIDE DEF Full, End
    <2>3. QED
      BY <2>2
  <1> HIDE DEF V, Full, End
  <1>4. rule \in Rules(len, V)
    <2>1. ASSUME NEW k \in 0 .. len, NEW h \in [0 .. len -> V]
          PROVE  (IF k <= cols THEN <<End(len - k)>> ELSE <<Full(len - k)>> \o h[k - seg]) \in V
      <3>1. len - k \in 0 .. len
        BY <1>2
      <3>2. CASE ~(k <= cols)
        <4>1. k - seg \in 0 .. len
          BY <1>2, <3>2
        <4>2. <<Full(len - k)>> \in V /\ h[k - seg] \in V
          BY <1>3, <3>1, <4>1
        <4>3. <<Full(len - k)>> \o h[k - seg] \in V
          BY <4>2, ConcatProperties DEF V
        <4>4. QED
          BY <3>2, <4>3
      <3>3. QED
        BY <1>3, <3>1, <3>2
    <2>2. rule \in [0 .. len -> [[0 .. len -> V] -> V]]
      BY <2>1
    <2>3. ASSUME NEW k \in 0 .. len, NEW f \in [0 .. len -> V], NEW h \in [0 .. len -> V],
                 Agree(f, h, k)
          PROVE  rule[k][f] = rule[k][h]
      <3>1. ~(k <= cols) => k - seg \in 0 .. k - 1
        BY <1>2
      <3>2. ~(k <= cols) => f[k - seg] = h[k - seg]
        BY <2>3, <3>1 DEF Agree
      <3>3. QED
        BY <3>2
    <2> HIDE DEF rule
    <2>4. QED
      BY <2>2, <2>3 DEF Rules
  <1>5. PICK h \in [0 .. len -> V] : \A k \in 0 .. len : h[k] = rule[k][h]
    <2>1. <<>> \in V
      BY DEF V
    <2> HIDE DEF rule
    <2>2. QED
      BY <1>2, <1>4, <2>1, Recursion DEF Defined
  <1> DEFINE f == [start \in 0 .. len |-> h[len - start]]
  <1>6. Is(f)
    <2>1. ASSUME NEW start \in 0 .. len
          PROVE  f[start] = IF len - start <= cols THEN <<End(start)>>
                            ELSE <<Full(start)>> \o f[start + seg]
      <3> DEFINE k == len - start
      <3>1. k \in 0 .. len /\ len - k = start
        BY <1>2
      <3>2. h[k] = IF k <= cols THEN <<End(start)>> ELSE <<Full(start)>> \o h[k - seg]
        BY <1>5, <3>1
      <3>3. ~(k <= cols) => start + seg \in 0 .. len /\ len - (start + seg) = k - seg
        BY <1>2
      <3>4. f[start] = h[k]
        OBVIOUS
      <3>5. ~(k <= cols) => f[start + seg] = h[k - seg]
        BY <3>3
      <3> HIDE DEF f
      <3>6. QED
        BY <3>2, <3>4, <3>5
    <2>2. f = [start \in 0 .. len |-> f[start]]
      OBVIOUS
    <2> HIDE DEF f
    <2>3. QED
      BY <2>1, <2>2 DEF Full, End
  <1>7. Is(g)
    <2> HIDE DEF Is, f
    <2>1. QED
      BY <1>6, Zenon
  <1>8. \A start \in 0 .. len : g[start] = IF len - start <= cols THEN <<End(start)>>
                                           ELSE <<Full(start)>> \o g[start + seg]
    <2> HIDE DEF g
    <2>1. QED
      BY <1>7 DEF Full, End
  <1> DEFINE B == {k \in 0 .. len : \A start \in 0 .. len :
                      len - start <= k => Tiled(g[start], n, start, n, ends)}
  <1> HIDE DEF g
  <1>9. ASSUME NEW start \in 0 .. len, len - start <= cols
        PROVE  Tiled(g[start], n, start, n, ends)
    <2>1. End(start) \in RowSet
      BY <1>3
    <2>2. /\ End(start).line = n /\ End(start).start = start /\ ~End(start).continues
          /\ End(start).len = len - start
      BY DEF End, Row
    <2>3. Within(End(start), ends)
      BY <1>2, <2>2 DEF Within, len
    <2>4. Tiled(<<End(start)>>, n, start, n, ends)
      BY <2>1, <2>2, <2>3, TileOne
    <2>5. QED
      BY <1>8, <1>9, <2>4
  <1>10. ASSUME NEW start \in 0 .. len, ~(len - start <= cols),
                Tiled(g[start + seg], n, start + seg, n, ends)
         PROVE  Tiled(g[start], n, start, n, ends)
    <2> DEFINE r == Full(start)
    <2>1. r \in RowSet
      BY <1>3
    <2>2. r.line = n /\ r.start = start /\ r.continues /\ r.len = seg
      <3>1. (seg < cols) = TRUE
        BY <1>2
      <3>2. QED
        BY <3>1 DEF Full, Row
    <2>3. Within(r, ends)
      <3>1. start + seg <= len
        BY <1>2, <1>10
      <3> HIDE DEF r
      <3>2. QED
        BY <2>2, <3>1 DEF Within, len
    <2> HIDE DEF r
    <2>4. r.len > 0
      BY <1>2, <2>2
    <2>5. Tiled(<<r>> \o g[start + seg], r.line, r.start, n, ends)
      BY <1>10, <2>1, <2>2, <2>3, <2>4, TilePut
    <2>6. QED
      BY <1>8, <1>10, <2>2, <2>5 DEF r
  <1>11. 0 .. len \subseteq B
    <2>1. 0 \in B
      BY <1>2, <1>9
    <2>2. ASSUME NEW k \in 0 .. len - 1, k \in B PROVE k + 1 \in B
      <3>1. ASSUME NEW start \in 0 .. len, len - start <= k + 1
            PROVE  Tiled(g[start], n, start, n, ends)
        <4>1. CASE ~(len - start <= cols)
          <5>1. start + seg \in 0 .. len /\ len - (start + seg) <= k
            BY <1>2, <3>1, <4>1
          <5>2. Tiled(g[start + seg], n, start + seg, n, ends)
            BY <2>2, <5>1
          <5>3. QED
            BY <1>10, <4>1, <5>2
        <4>2. QED
          BY <1>9, <4>1
      <3>2. k + 1 \in 0 .. len
        BY <1>2
      <3>3. QED
        BY <3>1, <3>2
    <2> HIDE DEF B
    <2>3. QED
      BY <1>2, <2>1, <2>2, UpTo
  <1>12. Tiled(g[0], n, 0, n, ends)
    <2>1. len \in B /\ 0 \in 0 .. len /\ len - 0 <= len
      BY <1>2, <1>11
    <2>2. QED
      BY <2>1
  <1>13. QED
    BY <1>1, <1>12 DEF len, seg

\* Lines of runes of S that do not wrap at their words, and frames of such lines that
\* have place for a rune and the marker
LineSet(S)  == [runes : Seq(S), wrap : {"inherit", "off", "hard"}]
FrameSet(S) == [lines : Seq(LineSet(S)) \ {<<>>}, line : Nat, col : Nat, scroll : Nat,
                height : Nat \ {0}, width : Nat \ {0, 1}, wrap : {"off", "hard"}]
Frames      == FrameSet(RuneSet)

\* The lengths of the lines, tabs expanded
Ends(f) == [n \in 0 .. LastLine(f) |-> Len(ExpandTabs(Runes(f, n)))]

\* The lines of a frame
LEMMA FrameLines ==
  ASSUME NEW f \in Frames
  PROVE  /\ LastLine(f) \in Nat /\ Len(f.lines) = LastLine(f) + 1
         /\ DOMAIN f.lines = 1 .. Len(f.lines)
         /\ \A n \in 0 .. LastLine(f) :
               /\ n + 1 \in DOMAIN f.lines
               /\ f.lines[n + 1] \in LineSet(RuneSet)
               /\ Runes(f, n) \in Seq(RuneSet) /\ Len(Runes(f, n)) \in Nat
         /\ DOMAIN Ends(f) = 0 .. LastLine(f)
         /\ \A n \in 0 .. LastLine(f) : Ends(f)[n] \in Nat /\ Len(Runes(f, n)) <= Ends(f)[n]
  <1> DEFINE lines == f.lines
  <1>1. lines \in Seq(LineSet(RuneSet)) /\ lines # <<>>
    BY DEF Frames, FrameSet
  <1> HIDE DEF lines
  <1>2. Len(lines) \in Nat /\ Len(lines) # 0 /\ DOMAIN lines = 1 .. Len(lines)
    BY <1>1, EmptySeq
  <1>3. LastLine(f) \in Nat /\ Len(lines) = LastLine(f) + 1
    BY <1>2 DEF LastLine, lines
  <1>4. ASSUME NEW n \in 0 .. LastLine(f)
        PROVE  /\ n + 1 \in DOMAIN lines /\ lines[n + 1] \in LineSet(RuneSet)
               /\ Runes(f, n) \in Seq(RuneSet) /\ Len(Runes(f, n)) \in Nat
    <2>1. n + 1 \in DOMAIN lines /\ lines[n + 1] \in LineSet(RuneSet)
      BY <1>1, <1>2, <1>3
    <2>2. Runes(f, n) = lines[n + 1].runes
      BY DEF Runes, lines
    <2>3. Runes(f, n) \in Seq(RuneSet)
      BY <2>1, <2>2 DEF LineSet
    <2>4. QED
      BY <2>1, <2>3, LenProperties
  <1>5. ASSUME NEW n \in 0 .. LastLine(f)
        PROVE  Ends(f)[n] \in Nat /\ Len(Runes(f, n)) <= Ends(f)[n]
    <2>1. Ends(f)[n] = Len(ExpandTabs(Runes(f, n)))
      BY DEF Ends
    <2>2. ExpandTabs(Runes(f, n)) \in Seq(RuneSet)
          /\ Len(ExpandTabs(Runes(f, n))) >= Len(Runes(f, n))
      BY <1>4, Expanded
    <2>3. Len(ExpandTabs(Runes(f, n))) \in Nat
      BY <2>2, LenProperties
    <2>4. QED
      BY <1>4, <2>1, <2>2, <2>3
  <1>6. DOMAIN Ends(f) = 0 .. LastLine(f)
    BY DEF Ends
  <1>7. QED
    BY <1>2, <1>3, <1>4, <1>5, <1>6 DEF lines

\* The rows of a line show it from its start to its end.
LEMMA LineTiled ==
  ASSUME NEW f \in Frames, NEW n \in 0 .. LastLine(f)
  PROVE  Tiled(LineRows(f, n + 1), n, 0, n, Ends(f))
  <1> DEFINE line == f.lines[n + 1]
             mode == IF line.wrap = "inherit" THEN f.wrap ELSE line.wrap
             len  == Len(ExpandTabs(line.runes))
  <1>1. /\ n \in Nat /\ n + 1 \in DOMAIN f.lines /\ n \in DOMAIN Ends(f) /\ Ends(f)[n] \in Nat
        /\ (n + 1) - 1 = n
    <2>1. LastLine(f) \in Nat /\ n + 1 \in DOMAIN f.lines /\ DOMAIN Ends(f) = 0 .. LastLine(f)
          /\ Ends(f)[n] \in Nat
      BY FrameLines
    <2>2. QED
      BY <2>1
  <1>2. Ends(f)[n] = len
    BY <1>1, FrameLines DEF Ends, Runes
  <1>3. mode # "word"
    <2>1. line \in LineSet(RuneSet)
      BY FrameLines
    <2>2. line.wrap \in {"inherit", "off", "hard"} /\ f.wrap \in {"off", "hard"}
      BY <2>1 DEF Frames, FrameSet, LineSet
    <2> HIDE DEF line
    <2>3. QED
      BY <2>2
  <1>4. f.width \in Nat /\ f.width >= 2 /\ f.width > 1
    BY DEF Frames, FrameSet
  <1>5. LineRows(f, n + 1) = IF mode = "off" THEN OffRows((n + 1) - 1, line.runes)
                             ELSE HardRows((n + 1) - 1, line.runes, f.width)
    BY <1>3 DEF LineRows
  <1>6. CASE mode = "off"
    <2> DEFINE r == Row(n, 0, 0, len, FALSE)
    <2>1. r \in RowSet /\ r.line = n /\ r.start = 0 /\ ~r.continues /\ r.len = len
      BY <1>1, <1>2 DEF Row, RowSet
    <2>2. LineRows(f, n + 1) = <<r>>
      BY <1>1, <1>5, <1>6 DEF OffRows
    <2> HIDE DEF r
    <2>3. Within(r, Ends(f))
      BY <1>1, <1>2, <2>1 DEF Within
    <2>4. Tiled(<<r>>, r.line, r.start, r.line, Ends(f))
      BY <2>1, <2>3, TileOne
    <2>5. QED
      BY <2>1, <2>2, <2>4
  <1>7. CASE mode # "off"
    <2>1. LineRows(f, n + 1) = CutRows(n, len, f.width, f.width - 1)
      BY <1>1, <1>4, <1>5, <1>7 DEF HardRows
    <2> HIDE DEF len
    <2>2. Tiled(CutRows(n, Ends(f)[n], f.width, f.width - 1), n, 0, n, Ends(f))
      BY <1>1, <1>4, CutTiled
    <2>3. QED
      BY <1>2, <2>1, <2>2
  <1>8. QED
    BY <1>6, <1>7

\* The rows of a frame show its lines one after another.
LEMMA RowsTiled ==
  ASSUME NEW f \in Frames
  PROVE  Tiled(BuildDisplayLines(f), 0, 0, LastLine(f), Ends(f))
  <1> DEFINE m == LastLine(f)
             V == Seq(RowSet)
             ss == [n \in DOMAIN f.lines |-> LineRows(f, n)]
  <1>1. m \in Nat /\ DOMAIN f.lines = 1 .. m + 1
    BY FrameLines
  <1>2. ASSUME NEW n \in 1 .. m + 1 PROVE Tiled(ss[n], n - 1, 0, n - 1, Ends(f)) /\ ss[n] \in V
    <2>1. n - 1 \in 0 .. LastLine(f) /\ (n - 1) + 1 = n
      BY <1>1
    <2>2. Tiled(LineRows(f, n), n - 1, 0, n - 1, Ends(f))
      BY <2>1, LineTiled
    <2>3. ss[n] = LineRows(f, n)
      BY <1>1
    <2>4. QED
      BY <2>2, <2>3 DEF Tiled, Chained
  <1>3. DOMAIN ss = 1 .. m + 1
    BY <1>1
  <1>4. BuildDisplayLines(f) = FlattenSeq(ss)
    BY DEF BuildDisplayLines
  <1>4a. ss = [n \in 1 .. m + 1 |-> ss[n]]
    BY <1>1
  <1> HIDE DEF m, V, ss
  <1>5. ss \in Seq(V) /\ Len(ss) = m + 1 /\ ss # <<>>
    <2>1. ss \in [1 .. m + 1 -> V]
      BY <1>2, <1>4a
    <2>2. m + 1 \in Nat
      BY <1>1
    <2>3. ss \in Seq(V)
      BY <2>1, <2>2
    <2>4. QED
      BY <1>1, <1>3, <2>3, DomainLength
  <1>6. PICK g \in Concatenations(RowSet, ss) : FlattenSeq(ss) = g[Len(ss)]
    BY <1>5, Flatten DEF V
  <1>7. g[1] = ss[1] /\ \A i \in 2 .. m + 1 : g[i] = g[i - 1] \o ss[i]
    BY <1>5 DEF Concatenations
  <1> DEFINE B == {i \in 0 .. m : Tiled(g[i + 1], 0, 0, i, Ends(f))}
  <1>8. 0 .. m \subseteq B
    <2>1. 0 \in B
      <3>1. 1 \in 1 .. m + 1 /\ 1 - 1 = 0 /\ 0 + 1 = 1 /\ 0 \in 0 .. m
        BY <1>1
      <3>2. Tiled(g[1], 0, 0, 0, Ends(f))
        BY <1>2, <1>7, <3>1
      <3>3. QED
        BY <3>1, <3>2
    <2>2. ASSUME NEW i \in 0 .. m - 1, i \in B PROVE i + 1 \in B
      <3>1. /\ i \in Nat /\ i + 2 \in 2 .. m + 1 /\ i + 2 \in 1 .. m + 1
            /\ (i + 2) - 1 = i + 1 /\ (i + 1) + 1 = i + 2 /\ i + 1 \in 0 .. m
        BY <1>1
      <3>2. Tiled(g[i + 1], 0, 0, i, Ends(f)) /\ Tiled(ss[i + 2], i + 1, 0, i + 1, Ends(f))
        BY <1>2, <2>2, <3>1
      <3>3. Tiled(g[i + 1] \o ss[i + 2], 0, 0, i + 1, Ends(f))
        BY <3>1, <3>2, TileJoin
      <3>4. QED
        BY <1>7, <3>1, <3>3
    <2> HIDE DEF B
    <2>3. QED
      BY <1>1, <2>1, <2>2, UpTo
  <1>9. Tiled(g[m + 1], 0, 0, m, Ends(f))
    BY <1>1, <1>8
  <1>10. QED
    BY <1>4, <1>5, <1>6, <1>9 DEF m

-----------------------------------------------------------------------------
(* Places of the text and their rows.                                    *)

\* Does row r show column col of line n?
ShownBy(r, n, col) ==
    /\ r.line = n
    /\ col >= r.start
    /\ col < r.start + r.len \/ (~r.continues /\ col = r.start + r.len)

\* The rows that show a position, by their indices in the sequence
LEMMA RowsOfShown ==
  ASSUME NEW rows, Len(rows) \in Nat, NEW n, NEW col, NEW d \in Int
  PROVE  d \in RowsOf(rows, n, col) <=> d + 1 \in 1 .. Len(rows) /\ ShownBy(rows[d + 1], n, col)
  <1>1. d \in 0 .. Len(rows) - 1 <=> d + 1 \in 1 .. Len(rows)
    OBVIOUS
  <1>2. QED
    BY <1>1 DEF RowsOf, ShownBy

\* The rows of a chain
LEMMA ChainRows ==
  ASSUME NEW ends, NEW rows, Chained(rows, ends)
  PROVE  /\ Len(rows) \in Nat \ {0}
         /\ \A d \in 1 .. Len(rows) :
               /\ rows[d] \in RowSet
               /\ rows[d].line \in Nat /\ rows[d].start \in Nat /\ rows[d].len \in Nat
               /\ rows[d].continues \in BOOLEAN /\ rows[d].indent = 0
  <1>1. rows \in Seq(RowSet) /\ rows # <<>>
    BY DEF Chained
  <1>2. Len(rows) \in Nat /\ Len(rows) # 0
    BY <1>1, EmptySeq
  <1>3. \A d \in 1 .. Len(rows) : rows[d] \in RowSet
    BY <1>1
  <1>4. QED
    BY <1>2, <1>3 DEF RowSet

\* A later row shows what comes later.
Later(r, s) ==
    s.line > r.line \/ (s.line = r.line /\ r.continues /\ s.start >= r.start + r.len)

\* Rows show the text in its order.
LEMMA RowsOrdered ==
  ASSUME NEW ends, NEW rows, Chained(rows, ends), NEW d \in 1 .. Len(rows)
  PROVE  \A e \in d + 1 .. Len(rows) : Later(rows[d], rows[e])
  <1> DEFINE k == Len(rows) - d - 1
             B == {i \in 0 .. k : Later(rows[d], rows[d + 1 + i])}
  <1>1. Len(rows) \in Nat \ {0} /\ d \in Nat
    BY ChainRows
  <1>2. CASE k \in Nat
    <2>1. 0 \in B
      <3>1. d \in 1 .. Len(rows) - 1 /\ d + 1 + 0 = d + 1 /\ d + 1 \in 1 .. Len(rows)
        BY <1>1, <1>2
      <3>2. Follows(rows[d], rows[d + 1])
        BY <3>1 DEF Chained
      <3>3. Later(rows[d], rows[d + 1])
        BY <3>1, <3>2, ChainRows DEF Follows, Later
      <3>4. 0 \in 0 .. k
        BY <1>2
      <3>5. QED
        BY <3>1, <3>3, <3>4
    <2>2. ASSUME NEW i \in 0 .. k - 1, i \in B PROVE i + 1 \in B
      <3> DEFINE e == d + 1 + i
      <3>1. /\ e \in 1 .. Len(rows) - 1 /\ e \in 1 .. Len(rows) /\ e + 1 \in 1 .. Len(rows)
            /\ d + 1 + (i + 1) = e + 1 /\ i + 1 \in 0 .. k
        BY <1>1, <1>2
      <3>2. Later(rows[d], rows[e])
        BY <2>2
      <3> HIDE DEF e
      <3>3. Follows(rows[e], rows[e + 1])
        BY <3>1 DEF Chained
      <3> DEFINE r == rows[d]
                 s == rows[e]
                 u == rows[e + 1]
      <3>4. /\ r.line \in Nat /\ r.start \in Nat /\ r.len \in Nat
            /\ s.line \in Nat /\ s.start \in Nat /\ s.len \in Nat
            /\ u.line \in Nat /\ u.start \in Nat
        BY <3>1, ChainRows
      <3> HIDE DEF r, s, u
      <3>4a. Later(r, s) /\ Follows(s, u)
        BY <3>2, <3>3 DEF r, s, u
      <3>4b. Later(r, u)
        BY <3>4, <3>4a DEF Follows, Later
      <3>4c. Later(rows[d], rows[e + 1])
        BY <3>4b DEF r, u
      <3>5. QED
        BY <3>1, <3>4c
    <2>3. 0 .. k \subseteq B
      <3> HIDE DEF B
      <3>1. QED
        BY <1>2, <2>1, <2>2, UpTo
    <2>4. ASSUME NEW e \in d + 1 .. Len(rows) PROVE Later(rows[d], rows[e])
      <3>1. e - d - 1 \in 0 .. k /\ d + 1 + (e - d - 1) = e
        BY <1>1
      <3>2. QED
        BY <2>3, <3>1
    <2>5. QED
      BY <2>4
  <1>3. CASE k \notin Nat
    <2>1. d + 1 .. Len(rows) = {}
      BY <1>1, <1>3
    <2>2. QED
      BY <2>1
  <1>4. QED
    BY <1>2, <1>3

\* An earlier position of a line is in no later row.
LEMMA EarlierRow ==
  ASSUME NEW ends, NEW rows, Chained(rows, ends), NEW n, NEW c \in Int, NEW b \in Int, b <= c,
         NEW d \in RowsOf(rows, n, c), NEW e \in RowsOf(rows, n, b)
  PROVE  e <= d
  <1>1. Len(rows) \in Nat \ {0}
    BY ChainRows
  <1>2. d \in Int /\ e \in Int
    BY <1>1 DEF RowsOf
  <1> DEFINE r == rows[d + 1]
             s == rows[e + 1]
  <1>3. /\ d + 1 \in 1 .. Len(rows) /\ ShownBy(r, n, c)
        /\ e + 1 \in 1 .. Len(rows) /\ ShownBy(s, n, b)
    BY <1>1, <1>2, RowsOfShown
  <1>4. CASE ~(e <= d)
    <2>1. e + 1 \in (d + 1) + 1 .. Len(rows)
      BY <1>2, <1>3, <1>4
    <2>2. Later(r, s)
      BY <1>3, <2>1, RowsOrdered
    <2>3. /\ r.line \in Nat /\ r.start \in Nat /\ r.len \in Nat /\ r.continues \in BOOLEAN
          /\ s.line \in Nat /\ s.start \in Nat /\ s.len \in Nat /\ s.continues \in BOOLEAN
      BY <1>3, ChainRows
    <2> HIDE DEF r, s
    <2>4. FALSE
      BY <1>3, <2>2, <2>3 DEF Later, ShownBy
    <2>5. QED
      BY <2>4
  <1>5. QED
    BY <1>4

\* Every position of the lines is in a row.
LEMMA EveryPlaceShown ==
  ASSUME NEW m \in Nat, NEW ends, \A n \in 0 .. m : ends[n] \in Nat, DOMAIN ends = 0 .. m,
         NEW rows, Tiled(rows, 0, 0, m, ends),
         NEW n \in 0 .. m, NEW col \in 0 .. ends[n]
  PROVE  RowsOf(rows, n, col) # {}
  <1> DEFINE l == Len(rows)
             Passed(r) == n < r.line \/ (n = r.line /\ (~r.continues \/ col < r.start + r.len))
             Found(d) == \E e \in 1 .. d : ShownBy(rows[e], n, col)
             B == {k \in 0 .. l - 1 : Passed(rows[k + 1]) => Found(k + 1)}
  <1>1. /\ l \in Nat \ {0} /\ Chained(rows, ends)
        /\ \A d \in 1 .. l : /\ rows[d].line \in Nat /\ rows[d].start \in Nat /\ rows[d].len \in Nat
                             /\ rows[d].continues \in BOOLEAN
    BY ChainRows DEF Tiled
  <1>2. n \in Nat /\ col \in Nat /\ ends[n] \in Nat /\ col <= ends[n]
    OBVIOUS
  <1>3. \A d \in 1 .. l : Within(rows[d], ends)
    BY <1>1 DEF Chained
  <1>4. ASSUME NEW d \in 1 .. l, Passed(rows[d]), rows[d].line = n => col >= rows[d].start,
               n >= rows[d].line
        PROVE  ShownBy(rows[d], n, col)
    <2> DEFINE r == rows[d]
    <2>1. /\ r.line \in Nat /\ r.start \in Nat /\ r.len \in Nat /\ r.continues \in BOOLEAN
      BY <1>1
    <2>2. r.line = n /\ col >= r.start
      BY <1>2, <1>4, <2>1
    <2>3. ~r.continues => r.start + r.len = ends[n]
      BY <1>3, <2>2 DEF Within
    <2>4. ~r.continues \/ col < r.start + r.len
      BY <1>4, <2>2
    <2> HIDE DEF r
    <2>5. ShownBy(r, n, col)
      BY <1>2, <2>1, <2>2, <2>3, <2>4 DEF ShownBy
    <2>6. QED
      BY <2>5 DEF r
  <1> HIDE DEF l
  <1>5. 0 \in B
    <2>1. 1 \in 1 .. l /\ rows[1].line = 0 /\ rows[1].start = 0 /\ 0 + 1 = 1 /\ 0 \in 0 .. l - 1
      BY <1>1 DEF Tiled
    <2>2. Passed(rows[1]) => ShownBy(rows[1], n, col)
      BY <1>2, <1>4, <2>1
    <2> HIDE DEF Passed
    <2>3. Passed(rows[0 + 1]) => Found(0 + 1)
      BY <2>1, <2>2
    <2>4. QED
      BY <2>1, <2>3
  <1>6. ASSUME NEW k \in 0 .. l - 2, k \in B PROVE k + 1 \in B
    <2> DEFINE d == k + 1
    <2>1. d \in 1 .. l - 1 /\ d \in 1 .. l /\ d + 1 \in 1 .. l /\ k + 1 \in 0 .. l - 1
      BY <1>1
    <2>2. Follows(rows[d], rows[d + 1])
      BY <1>1, <2>1 DEF Chained, l
    <2>3. Passed(rows[d]) => Found(d)
      BY <1>6
    <2>4. Found(d) => Found(d + 1)
      BY <2>1
    <2>5. ASSUME Passed(rows[d + 1]), ~Passed(rows[d]) PROVE Found(d + 1)
      <3> DEFINE r == rows[d]
                 s == rows[d + 1]
      <3>1. /\ r.line \in Nat /\ r.start \in Nat /\ r.len \in Nat /\ r.continues \in BOOLEAN
            /\ s.line \in Nat /\ s.start \in Nat
        BY <1>1, <2>1
      <3>2. ~Passed(r) /\ Follows(r, s)
        BY <2>2, <2>5
      <3> HIDE DEF r, s
      <3>2a. ~(n < r.line) /\ (n = r.line => r.continues /\ col >= r.start + r.len)
        BY <1>2, <3>1, <3>2
      <3>3. n >= s.line /\ (s.line = n => col >= s.start)
        BY <1>2, <3>1, <3>2, <3>2a DEF Follows
      <3>4. ShownBy(s, n, col)
        BY <1>4, <2>1, <2>5, <3>3 DEF s
      <3>5. d + 1 \in 1 .. d + 1
        BY <2>1
      <3>6. QED
        BY <3>4, <3>5 DEF s
    <2> HIDE DEF Passed, Found
    <2>6. Passed(rows[d + 1]) => Found(d + 1)
      BY <2>3, <2>4, <2>5
    <2>7. QED
      BY <2>1, <2>6
  <1>7. 0 .. l - 1 \subseteq B
    <2>1. l - 1 \in Nat /\ (l - 1) - 1 = l - 2
      BY <1>1
    <2> HIDE DEF B
    <2>2. QED
      BY <1>5, <1>6, <2>1, UpTo
  <1>8. Passed(rows[l]) => Found(l)
    <2> HIDE DEF B, Passed, Found
    <2>1. l - 1 \in B /\ (l - 1) + 1 = l
      <3>1. l - 1 \in 0 .. l - 1 /\ (l - 1) + 1 = l
        BY <1>1
      <3>2. QED
        BY <1>7, <3>1
    <2> USE DEF B
    <2>2. QED
      BY <2>1
  <1>9. Passed(rows[l])
    <2>1. rows[l].line = m /\ ~rows[l].continues
      BY DEF Tiled, l
    <2>2. n <= m
      OBVIOUS
    <2>3. QED
      BY <1>2, <2>1, <2>2
  <1>10. PICK e \in 1 .. l : ShownBy(rows[e], n, col)
    BY <1>8, <1>9
  <1>11. e - 1 \in RowsOf(rows, n, col)
    <2>1. e - 1 \in Int /\ (e - 1) + 1 = e
      BY <1>1
    <2>2. QED
      BY <1>1, <1>10, <2>1, RowsOfShown DEF l
  <1>12. QED
    BY <1>11

\* The row of a place, or none
LEMMA OneRow ==
  ASSUME NEW m \in Nat, NEW ends, \A n \in 0 .. m : ends[n] \in Nat, DOMAIN ends = 0 .. m,
         NEW rows, Tiled(rows, 0, 0, m, ends),
         NEW n \in 0 .. m, NEW col \in 0 .. ends[n]
  PROVE  \E d \in 0 .. Len(rows) - 1 :
            /\ RowsOf(rows, n, col) = {d} /\ Min(RowsOf(rows, n, col)) = d
            /\ ShownBy(rows[d + 1], n, col)
  <1> DEFINE S == RowsOf(rows, n, col)
  <1>1. Chained(rows, ends) /\ Len(rows) \in Nat \ {0}
    BY ChainRows DEF Tiled
  <1>2. PICK d \in S : TRUE
    BY EveryPlaceShown
  <1>3. d \in 0 .. Len(rows) - 1 /\ ShownBy(rows[d + 1], n, col)
    BY <1>1, <1>2, RowsOfShown DEF RowsOf
  <1>4. ASSUME NEW e \in S PROVE e = d
    <2>1. col \in Int /\ col <= col
      OBVIOUS
    <2>2. e <= d /\ d <= e
      <3> HIDE DEF S
      <3>1. d \in RowsOf(rows, n, col) /\ e \in RowsOf(rows, n, col)
        BY <1>2, <1>4 DEF S
      <3>2. QED
        BY <1>1, <2>1, <3>1, EarlierRow
    <2>3. e \in 0 .. Len(rows) - 1
      BY <1>4 DEF RowsOf
    <2>4. QED
      BY <1>1, <1>3, <2>2, <2>3
  <1> HIDE DEF S
  <1>5. S = {d}
    BY <1>2, <1>4
  <1>6. Min({d}) = d
    <2>1. d <= d
      BY <1>1, <1>3
    <2>2. QED
      BY <2>1 DEF Min
  <1>7. QED
    BY <1>3, <1>5, <1>6 DEF S

\* Panes that differ in cursor and scroll offset only
Like(g, f) == /\ g.lines = f.lines
              /\ g.height = f.height /\ g.width = f.width /\ g.wrap = f.wrap

\* They have the same rows.
LEMMA LikeRows ==
  ASSUME NEW f, NEW g, Like(g, f)
  PROVE  /\ BuildDisplayLines(g) = BuildDisplayLines(f)
         /\ LastLine(g) = LastLine(f) /\ Ends(g) = Ends(f)
         /\ \A n : Runes(g, n) = Runes(f, n)
  <1>1. \A n : LineRows(g, n) = LineRows(f, n)
    BY DEF LineRows, Like
  <1>2. BuildDisplayLines(g) = BuildDisplayLines(f)
    BY <1>1 DEF BuildDisplayLines, Like
  <1>3. LastLine(g) = LastLine(f) /\ \A n : Runes(g, n) = Runes(f, n)
    BY DEF LastLine, Runes, Like
  <1>4. Ends(g) = Ends(f)
    BY <1>3 DEF Ends
  <1>5. QED
    BY <1>2, <1>3, <1>4

\* Pane g is f with cursor and viewport at a place.
Sited(g, f, S, n, c, s) == /\ g \in FrameSet(S) /\ Like(g, f)
                         /\ g.line = n /\ g.col = c /\ g.scroll = s

\* The cursor put somewhere else
LEMMA AtFrame ==
  ASSUME NEW S, NEW f \in FrameSet(S), NEW n \in Nat, NEW c \in Nat
  PROVE  Sited(At(f, n, c), f, S, n, c, f.scroll)
  BY DEF At, FrameSet, Like, Sited

\* The viewport put somewhere else
LEMMA ScrollFrame ==
  ASSUME NEW S, NEW f \in FrameSet(S), NEW s \in Nat
  PROVE  Sited([f EXCEPT !.scroll = s], f, S, f.line, f.col, s)
  BY DEF FrameSet, Like, Sited

\* What holds of frames of any runes holds of those of some.
LEMMA SubFrames ==
  ASSUME NEW S, S \subseteq RuneSet, NEW f \in FrameSet(S)
  PROVE  f \in Frames
  <1>1. LineSet(S) \subseteq LineSet(RuneSet)
    <2> SUFFICES ASSUME NEW l \in LineSet(S) PROVE l \in LineSet(RuneSet)
      OBVIOUS
    <2>1. l.runes \in Seq(S)
      BY DEF LineSet
    <2>2. l.runes \in Seq(RuneSet)
      BY <2>1
    <2>3. QED
      BY <2>2 DEF LineSet
  <1>2. f.lines \in Seq(LineSet(S)) /\ f.lines # <<>>
    BY DEF FrameSet
  <1>3. f.lines \in Seq(LineSet(RuneSet))
    BY <1>1, <1>2
  <1>4. QED
    BY <1>2, <1>3 DEF Frames, FrameSet

\* A number brought into an interval
LEMMA ClampIn ==
  ASSUME NEW v \in Int, NEW lo \in Int, NEW hi \in Int, lo <= hi
  PROVE  /\ Clamp(v, lo, hi) \in lo .. hi
         /\ v \in lo .. hi => Clamp(v, lo, hi) = v
  BY DEF Clamp

\* Where the cursor counts as being, and its row
NearLine(f) == Clamp(f.line, 0, LastLine(f))
NearCol(f)  == Clamp(f.col, 0, Len(Runes(f, NearLine(f))))

\* The place the cursor counts as being at is one of the text.
LEMMA NearPlace ==
  ASSUME NEW f \in Frames
  PROVE  /\ NearLine(f) \in 0 .. LastLine(f) /\ NearLine(f) \in Nat
         /\ NearCol(f) \in 0 .. Len(Runes(f, NearLine(f))) /\ NearCol(f) \in Nat
         /\ NearCol(f) \in 0 .. Ends(f)[NearLine(f)]
         /\ f.line \in 0 .. LastLine(f) => NearLine(f) = f.line
         /\ f.line \in 0 .. LastLine(f) /\ f.col \in 0 .. Len(Runes(f, f.line)) =>
               NearCol(f) = f.col
  <1> DEFINE n == NearLine(f)
  <1>1. f.line \in Nat /\ f.col \in Nat /\ LastLine(f) \in Nat
    <2>1. LastLine(f) \in Nat
      BY FrameLines
    <2>2. QED
      BY <2>1 DEF Frames, FrameSet
  <1>2. n \in 0 .. LastLine(f) /\ n \in Nat /\ (f.line \in 0 .. LastLine(f) => n = f.line)
    <2> DEFINE v == f.line
               l == LastLine(f)
    <2>1. v \in Int /\ l \in Int /\ 0 <= l
      BY <1>1
    <2>2. n = Clamp(v, 0, l)
      BY DEF NearLine
    <2> HIDE DEF v, l, n
    <2>3. n \in 0 .. l /\ (v \in 0 .. l => n = v)
      BY <2>1, <2>2, ClampIn
    <2>4. QED
      BY <2>1, <2>3 DEF v, l
  <1> HIDE DEF n
  <1>3. /\ Len(Runes(f, n)) \in Nat /\ Ends(f)[n] \in Nat /\ Len(Runes(f, n)) <= Ends(f)[n]
    BY <1>2, FrameLines
  <1>4. NearCol(f) = Clamp(f.col, 0, Len(Runes(f, n)))
    BY DEF NearCol, n
  <1>5. /\ NearCol(f) \in 0 .. Len(Runes(f, n))
        /\ f.col \in 0 .. Len(Runes(f, n)) => NearCol(f) = f.col
    <2> DEFINE v == f.col
               l == Len(Runes(f, n))
    <2>1. v \in Int /\ l \in Int /\ 0 <= l
      BY <1>1, <1>3
    <2> HIDE DEF v, l
    <2>2. Clamp(v, 0, l) \in 0 .. l /\ (v \in 0 .. l => Clamp(v, 0, l) = v)
      BY <2>1, ClampIn
    <2>3. QED
      BY <1>4, <2>2 DEF v, l
  <1>6. QED
    BY <1>1, <1>2, <1>3, <1>5 DEF n

\* The rows of a frame
LEMMA FrameRows ==
  ASSUME NEW f \in Frames
  PROVE  LET rows == BuildDisplayLines(f)
         IN  /\ Tiled(rows, 0, 0, LastLine(f), Ends(f)) /\ Chained(rows, Ends(f))
             /\ rows # <<>> /\ Len(rows) \in Nat \ {0} /\ MaxScroll(f, rows) \in Nat
             /\ MaxScroll(f, rows) <= Len(rows)
             /\ Len(rows) <= MaxScroll(f, rows) + f.height
  <1> DEFINE rows == BuildDisplayLines(f)
  <1>1. Tiled(rows, 0, 0, LastLine(f), Ends(f)) /\ Chained(rows, Ends(f))
    BY RowsTiled DEF Tiled
  <1> HIDE DEF rows
  <1>2. rows # <<>> /\ Len(rows) \in Nat \ {0}
    BY <1>1, ChainRows DEF Chained
  <1>3. f.height \in Nat \ {0}
    BY DEF Frames, FrameSet
  <1>4. MaxScroll(f, rows) \in Nat /\ MaxScroll(f, rows) <= Len(rows)
        /\ Len(rows) <= MaxScroll(f, rows) + f.height
    BY <1>2, <1>3 DEF MaxScroll
  <1>5. QED
    BY <1>1, <1>2, <1>4 DEF rows

\* CursorDisplayPos finds the one row that shows the cursor.
LEMMA CursorFound ==
  ASSUME NEW f \in Frames
  PROVE  LET rows == BuildDisplayLines(f)
             pos  == CursorDisplayPos(f, rows)
             r    == rows[pos.row + 1]
         IN  /\ pos.row \in 0 .. Len(rows) - 1 /\ pos.row + 1 \in 1 .. Len(rows)
             /\ RowsOf(rows, NearLine(f), NearCol(f)) = {pos.row}
             /\ Min(RowsOf(rows, NearLine(f), NearCol(f))) = pos.row
             /\ ShownBy(r, NearLine(f), NearCol(f))
             /\ pos.x = NearCol(f) - r.start /\ pos.x \in 0 .. r.len
  <1> DEFINE rows == BuildDisplayLines(f)
             n    == NearLine(f)
             c    == NearCol(f)
             pos  == CursorDisplayPos(f, rows)
  <1>1. /\ Tiled(rows, 0, 0, LastLine(f), Ends(f)) /\ Chained(rows, Ends(f))
        /\ rows # <<>> /\ Len(rows) \in Nat \ {0}
    BY FrameRows
  <1>2. n \in 0 .. LastLine(f) /\ c \in 0 .. Ends(f)[n] /\ c \in Nat
    BY NearPlace
  <1>3. /\ LastLine(f) \in Nat /\ DOMAIN Ends(f) = 0 .. LastLine(f)
        /\ \A m \in 0 .. LastLine(f) : Ends(f)[m] \in Nat
    BY FrameLines
  <1>4. pos = PosAt(rows, n, c)
    BY <1>1 DEF CursorDisplayPos, NearLine, NearCol
  <1> HIDE DEF rows, n, c, pos
  <1>5. PICK d \in 0 .. Len(rows) - 1 : /\ RowsOf(rows, n, c) = {d}
                                        /\ Min(RowsOf(rows, n, c)) = d
                                        /\ ShownBy(rows[d + 1], n, c)
    BY <1>1, <1>2, <1>3, OneRow
  <1>6. pos = PosIn(rows, d, c)
    BY <1>4, <1>5 DEF PosAt
  <1>7. d + 1 \in 1 .. Len(rows)
    BY <1>1
  <1> DEFINE r == rows[d + 1]
  <1>8. r.start \in Nat /\ r.len \in Nat /\ r.indent = 0
    BY <1>1, <1>7, ChainRows
  <1>9. pos.row = d /\ pos.x = r.indent + c - r.start
    BY <1>6 DEF PosIn
  <1>10. pos.x = c - r.start /\ pos.x \in 0 .. r.len
    <2> HIDE DEF r
    <2>1. ShownBy(r, n, c)
      BY <1>5 DEF r
    <2>2. c >= r.start /\ c <= r.start + r.len
      BY <1>2, <1>8, <2>1 DEF ShownBy
    <2>3. QED
      BY <1>2, <1>8, <1>9, <2>2
  <1>11. QED
    BY <1>5, <1>7, <1>9, <1>10 DEF rows, n, c, pos

\* A row of a frame is part of one of its lines.
LEMMA RowPlace ==
  ASSUME NEW f \in Frames, NEW d \in 1 .. Len(BuildDisplayLines(f))
  PROVE  LET r == BuildDisplayLines(f)[d]
         IN  /\ r.line \in 0 .. LastLine(f) /\ r.line \in Nat
             /\ r.start \in Nat /\ r.len \in Nat /\ r.indent = 0 /\ r.continues \in BOOLEAN
             /\ r.start + r.len <= Ends(f)[r.line]
  <1> DEFINE rows == BuildDisplayLines(f)
             r    == rows[d]
  <1>1. Chained(rows, Ends(f)) /\ DOMAIN Ends(f) = 0 .. LastLine(f)
    BY FrameRows, FrameLines
  <1> HIDE DEF rows
  <1>2. d \in 1 .. Len(rows)
    BY DEF rows
  <1>3. Within(r, Ends(f))
    BY <1>1, <1>2 DEF Chained
  <1>4. /\ r.line \in Nat /\ r.start \in Nat /\ r.len \in Nat /\ r.indent = 0
        /\ r.continues \in BOOLEAN
    BY <1>1, <1>2, ChainRows
  <1> HIDE DEF r
  <1>5. r.line \in 0 .. LastLine(f) /\ r.start + r.len <= Ends(f)[r.line]
    BY <1>1, <1>3 DEF Within
  <1>6. QED
    BY <1>4, <1>5 DEF r, rows

-----------------------------------------------------------------------------
(* Placed frames, and bringing the cursor into view.                     *)

\* The cursor stays in the text; with tabs its column may lie behind the runes of its
\* line, but never behind what the line grows to when it is drawn.
Placed(f, S) == /\ f \in FrameSet(S)
                /\ f.line \in 0 .. LastLine(f)
                /\ f.col <= Ends(f)[f.line]

\* Only the cursor and the viewport of f have moved.
Keeps(g, f, S) == Placed(g, S) /\ Like(g, f)

\* The row of the cursor is in the viewport.
CursorIn(f) == LET d == CursorDisplayPos(f, BuildDisplayLines(f)).row
               IN  f.scroll <= d /\ d < f.scroll + f.height

\* The cursor is in its line.
InLine(f) == f.line \in 0 .. LastLine(f) /\ f.col \in 0 .. Len(Runes(f, f.line))

\* In a text without tabs no line grows when it is drawn.
LEMMA NoTabs ==
  ASSUME NEW S, S \subseteq RuneSet, "\t" \notin S, NEW f \in FrameSet(S), NEW n \in 0 .. LastLine(f)
  PROVE  Ends(f)[n] = Len(Runes(f, n))
  <1>1. f \in Frames
    BY SubFrames
  <1>2. n + 1 \in DOMAIN f.lines /\ Runes(f, n) \in Seq(RuneSet)
    BY <1>1, FrameLines
  <1>3. f.lines \in Seq(LineSet(S))
    BY DEF FrameSet
  <1>4. f.lines[n + 1] \in LineSet(S)
    BY <1>2, <1>3
  <1>5. Runes(f, n) \in Seq(S)
    BY <1>4 DEF LineSet, Runes
  <1> DEFINE s == Runes(f, n)
  <1> HIDE DEF s
  <1>6. ~Contains(s, "\t")
    <2>1. \A i \in 1 .. Len(s) : s[i] \in S
      BY <1>5 DEF s
    <2>2. QED
      BY <2>1 DEF Contains
  <1>7. ExpandTabs(s) = s
    BY <1>2, <1>6, Expanded DEF s
  <1>8. QED
    BY <1>7 DEF Ends, s

\* Placed frames keep the cursor in its line if there are no tabs.
LEMMA PlacedInLine ==
  ASSUME NEW S, S \subseteq RuneSet, "\t" \notin S, NEW f, Placed(f, S)
  PROVE  InLine(f)
  <1>1. f \in FrameSet(S) /\ f.line \in 0 .. LastLine(f) /\ f.col <= Ends(f)[f.line]
    BY DEF Placed
  <1>2. Ends(f)[f.line] = Len(Runes(f, f.line)) /\ Len(Runes(f, f.line)) \in Nat
    BY <1>1, NoTabs, SubFrames, FrameLines
  <1>3. f.col \in Nat
    BY <1>1 DEF FrameSet
  <1>4. QED
    BY <1>1, <1>2, <1>3 DEF InLine

\* EnsureCursorVisible brings the cursor into the text and into the viewport.
LEMMA Ensured ==
  ASSUME NEW S, S \subseteq RuneSet, NEW f \in FrameSet(S)
  PROVE  LET g == EnsureCursorVisible(f)
         IN  /\ Keeps(g, f, S) /\ InLine(g) /\ CursorIn(g)
             /\ g.line = NearLine(f) /\ g.col = NearCol(f)
  <1> DEFINE rows == BuildDisplayLines(f)
             n    == NearLine(f)
             c    == NearCol(f)
             h    == Clamped(f)
             ms   == MaxScroll(h, rows)
             d    == CursorDisplayPos(h, rows).row
             top  == Clamp(h.scroll, 0, ms)
             s    == Clamp(ScrollTo(top, d, h.height), 0, ms)
             g    == [h EXCEPT !.scroll = s]
  <1>1. f \in Frames /\ f.lines # <<>>
    BY SubFrames DEF FrameSet
  <1>2. EnsureCursorVisible(f) = g
    BY <1>1 DEF EnsureCursorVisible, ScrollInto, ScrollToCursor
  <1>3. h = At(f, n, c)
    BY DEF Clamped, NearLine, NearCol
  <1>4. /\ n \in 0 .. LastLine(f) /\ n \in Nat /\ c \in Nat
        /\ c \in 0 .. Len(Runes(f, n))
    BY <1>1, NearPlace
  <1>5. h \in FrameSet(S) /\ Like(h, f) /\ h.line = n /\ h.col = c
    <2> HIDE DEF h, n, c
    <2>1. Sited(h, f, S, n, c, f.scroll)
      BY <1>3, <1>4, AtFrame
    <2>2. QED
      BY <2>1 DEF Sited
  <1> HIDE DEF n, c, h
  <1>6. /\ BuildDisplayLines(h) = rows /\ LastLine(h) = LastLine(f)
        /\ \A m : Runes(h, m) = Runes(f, m)
    BY <1>5, LikeRows
  <1>7. h \in Frames /\ h.height \in Nat \ {0} /\ h.scroll \in Nat
    BY <1>5, SubFrames DEF FrameSet
  <1>8. d \in 0 .. Len(rows) - 1 /\ Len(rows) \in Nat /\ ms \in Nat /\ ms <= Len(rows)
        /\ Len(rows) <= ms + h.height
    <2>1. Len(rows) \in Nat /\ ms \in Nat /\ ms <= Len(rows) /\ Len(rows) <= ms + h.height
      <3> DEFINE own == BuildDisplayLines(h)
      <3>1. /\ Len(own) \in Nat /\ MaxScroll(h, own) \in Nat /\ MaxScroll(h, own) <= Len(own)
            /\ Len(own) <= MaxScroll(h, own) + h.height
        BY <1>7, FrameRows
      <3> HIDE DEF own, rows
      <3>2. own = rows
        BY <1>6 DEF own
      <3>3. QED
        BY <3>1, <3>2
    <2>2. d \in 0 .. Len(rows) - 1
      BY <1>6, <1>7, CursorFound
    <2>3. QED
      BY <2>1, <2>2
  <1> HIDE DEF rows, ms, d
  <1>9. top \in 0 .. ms
    BY <1>7, <1>8 DEF Clamp
  <1> HIDE DEF top
  <1> DEFINE t == ScrollTo(top, d, h.height)
  <1>10. t \in Int /\ t <= d /\ d < t + h.height
    BY <1>7, <1>8, <1>9 DEF ScrollTo
  <1> HIDE DEF t
  <1>11. s = Clamp(t, 0, ms)
    BY DEF t
  <1> HIDE DEF s
  <1>12. s \in Nat /\ s <= d /\ d < s + h.height
    BY <1>7, <1>8, <1>10, <1>11 DEF Clamp
  <1>13. g \in FrameSet(S) /\ Like(g, h) /\ g.line = n /\ g.col = c /\ g.scroll = s
    <2>1. Sited(g, h, S, h.line, h.col, s)
      BY <1>5, <1>12, ScrollFrame
    <2> HIDE DEF g
    <2>2. QED
      BY <1>5, <2>1 DEF Sited
  <1> HIDE DEF g
  <1>14. /\ Like(g, f) /\ g.height = h.height
         /\ LastLine(g) = LastLine(f) /\ \A m : Runes(g, m) = Runes(f, m)
         /\ BuildDisplayLines(g) = rows
    <2>1. Like(g, f) /\ g.height = h.height
      BY <1>5, <1>13 DEF Like
    <2>2. QED
      BY <2>1, LikeRows DEF rows
  <1>15. InLine(g)
    BY <1>4, <1>13, <1>14 DEF InLine
  <1>16. Placed(g, S)
    <2>1. Len(Runes(f, n)) \in Nat /\ Ends(f)[n] \in Nat /\ Len(Runes(f, n)) <= Ends(f)[n]
      BY <1>1, <1>4, FrameLines
    <2>2. c <= Ends(f)[n]
      BY <1>4, <2>1
    <2>3. Ends(g) = Ends(f)
      BY <1>14, LikeRows
    <2>4. QED
      BY <1>4, <1>13, <1>14, <2>2, <2>3 DEF Placed
  <1>17. CursorDisplayPos(g, rows) = CursorDisplayPos(h, rows)
    <2>1. \A m : Runes(g, m) = Runes(h, m)
      BY <1>6, <1>14
    <2>2. g.line = h.line /\ g.col = h.col /\ LastLine(g) = LastLine(h)
      BY <1>5, <1>6, <1>13, <1>14
    <2>3. QED
      BY <2>1, <2>2 DEF CursorDisplayPos
  <1>18. CursorIn(g)
    BY <1>12, <1>13, <1>14, <1>17 DEF CursorIn, d
  <1>19. QED
    BY <1>2, <1>13, <1>14, <1>15, <1>16, <1>18 DEF Keeps, n, c

\* A cursor in its line and in the viewport is drawn where it is.
LEMMA CaretSeen ==
  ASSUME NEW f \in Frames, InLine(f), CursorIn(f)
  PROVE  CaretTrue(f)
  <1> DEFINE rows == BuildDisplayLines(f)
             d    == CursorDisplayPos(f, rows).row
  <1>1. /\ d \in 0 .. Len(rows) - 1
        /\ RowsOf(rows, NearLine(f), NearCol(f)) = {d}
        /\ Min(RowsOf(rows, NearLine(f), NearCol(f))) = d
    BY CursorFound
  <1>2. NearLine(f) = f.line /\ NearCol(f) = f.col
    BY NearPlace DEF InLine
  <1>3. Len(rows) \in Nat \ {0}
    BY FrameRows
  <1>4. f.height \in Nat \ {0} /\ f.scroll \in Nat
    BY DEF Frames, FrameSet
  <1>5. f.scroll <= d /\ d < f.scroll + f.height
    BY DEF CursorIn
  <1> HIDE DEF rows, d
  <1>6. CaretRow(f, rows) = Clamp(d - Clamp(f.scroll, 0, Len(rows)), 0, f.height - 1)
    BY <1>1, <1>2 DEF CaretRow
  <1>7. Clamp(f.scroll, 0, Len(rows)) = f.scroll
    BY <1>1, <1>3, <1>4, <1>5 DEF Clamp
  <1>8. CaretRow(f, rows) = d - f.scroll
    BY <1>1, <1>3, <1>4, <1>5, <1>6, <1>7 DEF Clamp
  <1>9. d = f.scroll + CaretRow(f, rows)
    BY <1>1, <1>3, <1>4, <1>8
  <1>10. QED
    BY <1>9 DEF CaretTrue, rows, d

-----------------------------------------------------------------------------
(* Keys that move the cursor.                                            *)

\* A frame that only moved twice
LEMMA KeepsTwice ==
  ASSUME NEW S, NEW f, NEW g, NEW h, Keeps(g, f, S), Keeps(h, g, S)
  PROVE  Keeps(h, f, S)
  BY DEF Keeps, Like

\* A frame with its cursor at a place of its text, however its viewport is
LEMMA SitedKeeps ==
  ASSUME NEW S, NEW f, NEW g, NEW n, NEW c, NEW s, Sited(g, f, S, n, c, s),
         n \in 0 .. LastLine(f), c <= Ends(f)[n]
  PROVE  Keeps(g, f, S)
  <1>1. g \in FrameSet(S) /\ Like(g, f) /\ g.line = n /\ g.col = c
    BY DEF Sited
  <1>2. LastLine(g) = LastLine(f) /\ Ends(g) = Ends(f)
    BY <1>1, LikeRows
  <1>3. QED
    BY <1>1, <1>2 DEF Keeps, Placed

\* Only the viewport moves.
LEMMA ScrollKeeps ==
  ASSUME NEW S, NEW f, Placed(f, S), NEW s \in Nat
  PROVE  /\ Keeps([f EXCEPT !.scroll = s], f, S)
         /\ Sited([f EXCEPT !.scroll = s], f, S, f.line, f.col, s)
  <1>1. f \in FrameSet(S) /\ f.line \in 0 .. LastLine(f) /\ f.col <= Ends(f)[f.line]
    BY DEF Placed
  <1>2. Sited([f EXCEPT !.scroll = s], f, S, f.line, f.col, s)
    BY <1>1, ScrollFrame
  <1>3. QED
    BY <1>1, <1>2, SitedKeeps

\* The place a row of the window and a column in it stand for
LEMMA RowCursor ==
  ASSUME NEW S, S \subseteq RuneSet, NEW f \in FrameSet(S), NEW i \in Int, NEW x \in Int
  PROVE  LET rows == BuildDisplayLines(f)
             g    == DisplayIndexToCursor(f, rows, i, x)
             r    == rows[Clamp(i, 0, Len(rows) - 1) + 1]
         IN  /\ Keeps(g, f, S)
             /\ g.line = r.line /\ g.col = r.start + Clamp(x, 0, r.len) /\ g.scroll = f.scroll
  <1> DEFINE rows == BuildDisplayLines(f)
             g    == DisplayIndexToCursor(f, rows, i, x)
             d    == Clamp(i, 0, Len(rows) - 1) + 1
             r    == rows[d]
             c    == r.start + Clamp(x, 0, r.len)
  <1>1. f \in Frames
    BY SubFrames
  <1>2. rows # <<>> /\ Len(rows) \in Nat \ {0}
    BY <1>1, FrameRows
  <1>3. d \in 1 .. Len(rows)
    <2> HIDE DEF rows
    <2>1. QED
      BY <1>2 DEF Clamp
  <1> HIDE DEF d
  <1>4. /\ r.line \in 0 .. LastLine(f) /\ r.line \in Nat
        /\ r.start \in Nat /\ r.len \in Nat /\ r.indent = 0
        /\ r.start + r.len <= Ends(f)[r.line]
    BY <1>1, <1>3, RowPlace
  <1>5. g = At(f, r.line, r.start + Clamp(x - r.indent, 0, r.len))
    BY <1>2 DEF DisplayIndexToCursor, d
  <1> HIDE DEF rows, r
  <1>6. g = At(f, r.line, c)
    <2>1. x - r.indent = x
      BY <1>4
    <2>2. QED
      BY <1>5, <2>1
  <1>7. c \in Nat /\ c <= r.start + r.len
    BY <1>4 DEF Clamp
  <1> HIDE DEF c, g
  <1>8. Sited(g, f, S, r.line, c, f.scroll)
    BY <1>4, <1>6, <1>7, AtFrame
  <1>9. c <= Ends(f)[r.line]
    <2>1. Ends(f)[r.line] \in Nat
      BY <1>1, <1>4, FrameLines
    <2>2. QED
      BY <1>4, <1>7, <2>1
  <1>10. Keeps(g, f, S)
    BY <1>4, <1>8, <1>9, SitedKeeps
  <1>11. QED
    BY <1>8, <1>10 DEF rows, g, r, c, d, Sited

\* The smaller and the greater of two numbers
LEMMA MinTwo ==
  ASSUME NEW a \in Int, NEW b \in Int
  PROVE  Min({a, b}) = IF a <= b THEN a ELSE b
  BY DEF Min

\* Moving by count rows
LEMMA AwayKeeps ==
  ASSUME NEW S, S \subseteq RuneSet, NEW f, Placed(f, S), NEW count \in Int
  PROVE  LET rows == BuildDisplayLines(f)
             g    == RowsAway(f, rows, CursorDisplayPos(f, rows), count)
         IN  Keeps(g, f, S) /\ g.scroll = f.scroll
  <1> DEFINE rows == BuildDisplayLines(f)
             pos  == CursorDisplayPos(f, rows)
  <1>1. f \in FrameSet(S) /\ f \in Frames
    BY SubFrames DEF Placed
  <1>2. pos.row \in Int /\ pos.x \in Int
    <2>1. Len(rows) \in Nat /\ pos.row \in 0 .. Len(rows) - 1 /\ pos.row + 1 \in 1 .. Len(rows)
          /\ pos.x \in 0 .. rows[pos.row + 1].len
      BY <1>1, CursorFound, FrameRows
    <2>2. rows[pos.row + 1].len \in Nat
      BY <1>1, <2>1, RowPlace
    <2>3. QED
      BY <2>1, <2>2
  <1> HIDE DEF pos
  <1>3. pos.row + count \in Int
    BY <1>2
  <1>4. RowsAway(f, rows, pos, count) = DisplayIndexToCursor(f, rows, pos.row + count, pos.x)
    BY DEF RowsAway
  <1>5. /\ Keeps(DisplayIndexToCursor(f, rows, pos.row + count, pos.x), f, S)
        /\ DisplayIndexToCursor(f, rows, pos.row + count, pos.x).scroll = f.scroll
    BY <1>1, <1>2, <1>3, RowCursor
  <1>6. QED
    BY <1>4, <1>5 DEF pos

\* One row up or down
LEMMA StepKeeps ==
  ASSUME NEW S, S \subseteq RuneSet, NEW f, Placed(f, S), NEW step \in Int
  PROVE  Keeps(InRows(f, BuildDisplayLines(f), step), f, S)
  <1>1. Keeps(f, f, S)
    BY DEF Keeps, Like
  <1>2. Keeps(RowsAway(f, BuildDisplayLines(f), CursorDisplayPos(f, BuildDisplayLines(f)), step), f, S)
    BY AwayKeeps
  <1>3. QED
    BY <1>1, <1>2 DEF InRows, RowStep

\* Left and right
LEMMA SidesKeep ==
  ASSUME NEW S, S \subseteq RuneSet, NEW f, Placed(f, S)
  PROVE  /\ Keeps(MoveCursorLeft(f), f, S) /\ Keeps(MoveCursorRight(f), f, S)
  <1>1. /\ f \in FrameSet(S) /\ f \in Frames /\ f.line \in 0 .. LastLine(f)
        /\ f.line \in Nat /\ f.col \in Nat /\ LastLine(f) \in Nat
        /\ f.col <= Ends(f)[f.line]
        /\ \A n \in 0 .. LastLine(f) : /\ Len(Runes(f, n)) \in Nat /\ Ends(f)[n] \in Nat
                                       /\ Len(Runes(f, n)) <= Ends(f)[n]
    <2>1. f \in Frames
      BY SubFrames DEF Placed
    <2>2. /\ LastLine(f) \in Nat
          /\ \A n \in 0 .. LastLine(f) : /\ Len(Runes(f, n)) \in Nat /\ Ends(f)[n] \in Nat
                                         /\ Len(Runes(f, n)) <= Ends(f)[n]
      BY <2>1, FrameLines
    <2>3. QED
      BY <2>1, <2>2 DEF Placed, FrameSet
  <1>2. ASSUME NEW n \in 0 .. LastLine(f), NEW c \in Nat, c <= Ends(f)[n]
        PROVE  Keeps(At(f, n, c), f, S)
    <2>1. n \in Nat
      BY <1>1
    <2>2. Sited(At(f, n, c), f, S, n, c, f.scroll)
      BY <1>1, <2>1, AtFrame
    <2>3. QED
      BY <1>2, <2>2, SitedKeeps
  <1>3. Keeps(f, f, S)
    BY DEF Keeps, Like
  <1>4. Keeps(MoveCursorLeft(f), f, S)
    <2>1. CASE f.col > 0
      <3>1. f.col - 1 \in Nat /\ f.col - 1 <= Ends(f)[f.line]
        BY <1>1, <2>1
      <3>2. Keeps(At(f, f.line, f.col - 1), f, S)
        BY <1>1, <1>2, <3>1
      <3>3. QED
        BY <2>1, <3>2 DEF MoveCursorLeft
    <2>2. CASE ~(f.col > 0) /\ f.line > 0
      <3> DEFINE n == f.line - 1
                 c == Len(Runes(f, n))
      <3>1. n \in 0 .. LastLine(f)
        BY <1>1, <2>2
      <3> HIDE DEF n
      <3>2. c \in Nat /\ c <= Ends(f)[n]
        BY <1>1, <3>1
      <3>3. Keeps(At(f, n, c), f, S)
        BY <1>2, <3>1, <3>2
      <3>4. QED
        BY <2>2, <3>3 DEF MoveCursorLeft, n
    <2>3. CASE ~(f.col > 0) /\ ~(f.line > 0)
      BY <1>3, <2>3 DEF MoveCursorLeft
    <2>4. QED
      BY <2>1, <2>2, <2>3
  <1>5. Keeps(MoveCursorRight(f), f, S)
    <2>1. CASE f.col < Len(Runes(f, f.line))
      <3>1. f.col + 1 \in Nat /\ f.col + 1 <= Ends(f)[f.line]
        BY <1>1, <2>1
      <3>2. Keeps(At(f, f.line, f.col + 1), f, S)
        BY <1>1, <1>2, <3>1
      <3>3. QED
        BY <1>1, <2>1, <3>2 DEF MoveCursorRight
    <2>2. CASE ~(f.col < Len(Runes(f, f.line))) /\ f.line < LastLine(f)
      <3> DEFINE n == f.line + 1
      <3>1. n \in 0 .. LastLine(f) /\ 0 \in Nat
        BY <1>1, <2>2
      <3> HIDE DEF n
      <3>2. 0 <= Ends(f)[n]
        BY <1>1, <3>1
      <3>3. Keeps(At(f, n, 0), f, S)
        BY <1>2, <3>1, <3>2
      <3>4. QED
        BY <1>1, <2>2, <3>3 DEF MoveCursorRight, n
    <2>3. CASE ~(f.col < Len(Runes(f, f.line))) /\ ~(f.line < LastLine(f))
      BY <1>1, <1>3, <2>3 DEF MoveCursorRight
    <2>4. QED
      BY <2>1, <2>2, <2>3
  <1>6. QED
    BY <1>4, <1>5

\* Home and end
LEMMA EndsKeep ==
  ASSUME NEW S, S \subseteq RuneSet, NEW f \in FrameSet(S)
  PROVE  LET ms == MaxScroll(f, BuildDisplayLines(f))
             n  == LastLine(f)
         IN  /\ Keeps(MoveHome(f), f, S) /\ Sited(MoveHome(f), f, S, 0, 0, 0)
             /\ Keeps(MoveEnd(f), f, S) /\ Sited(MoveEnd(f), f, S, n, Len(Runes(f, n)), ms)
             /\ InLine(MoveEnd(f)) /\ InLine(MoveHome(f))
  <1> DEFINE ms == MaxScroll(f, BuildDisplayLines(f))
             n  == LastLine(f)
             l  == Len(Runes(f, n))
  <1>1. f \in Frames /\ f.lines # <<>>
    BY SubFrames DEF FrameSet
  <1>2. ms \in Nat
    BY <1>1, FrameRows
  <1>3. n \in Nat /\ n \in 0 .. n /\ 0 \in 0 .. n /\ l \in Nat /\ Len(Runes(f, 0)) \in Nat
    <2>1. n \in Nat /\ \A m \in 0 .. n : Len(Runes(f, m)) \in Nat
      BY <1>1, FrameLines
    <2> HIDE DEF n
    <2>2. n \in 0 .. n /\ 0 \in 0 .. n
      BY <2>1
    <2>3. QED
      BY <2>1, <2>2
  <1>4. MoveEnd(f) = [At(f, n, l) EXCEPT !.scroll = ms]
    BY <1>1 DEF MoveEnd
  <1> HIDE DEF ms, n, l
  <1>5. Sited(MoveEnd(f), f, S, n, l, ms)
    <2> DEFINE g == At(f, n, l)
    <2>1. Sited(g, f, S, n, l, f.scroll)
      BY <1>3, AtFrame
    <2> HIDE DEF g
    <2>2. Sited([g EXCEPT !.scroll = ms], g, S, g.line, g.col, ms)
      BY <1>2, <2>1, ScrollFrame DEF Sited
    <2> DEFINE h == [g EXCEPT !.scroll = ms]
    <2>3. MoveEnd(f) = h
      BY <1>4 DEF g
    <2> HIDE DEF h
    <2>4. QED
      BY <2>1, <2>2, <2>3 DEF Sited, Like, h
  <1>6. Sited(MoveHome(f), f, S, 0, 0, 0)
    BY DEF MoveHome, Nowhere, Sited, FrameSet, Like
  <1>7. l <= Ends(f)[n] /\ 0 <= Ends(f)[0] /\ 0 <= Len(Runes(f, 0))
    <2>1. \A m \in 0 .. n : Ends(f)[m] \in Nat /\ Len(Runes(f, m)) <= Ends(f)[m]
      BY <1>1, FrameLines DEF n
    <2>2. QED
      BY <1>3, <2>1 DEF l
  <1>8. Keeps(MoveEnd(f), f, S)
    BY <1>3, <1>5, <1>7, SitedKeeps DEF n
  <1>9. Keeps(MoveHome(f), f, S)
    BY <1>3, <1>6, <1>7, SitedKeeps DEF n
  <1>10. InLine(MoveEnd(f))
    <2> DEFINE g == MoveEnd(f)
    <2> HIDE DEF g
    <2>1. g.line = n /\ g.col = l /\ Like(g, f)
      BY <1>5 DEF Sited, g
    <2>2. LastLine(g) = n /\ Len(Runes(g, n)) = l
      BY <2>1, LikeRows DEF n, l
    <2>3. l \in 0 .. l
      BY <1>3
    <2>4. InLine(g)
      BY <1>3, <2>1, <2>2, <2>3 DEF InLine
    <2>5. QED
      BY <2>4 DEF g
  <1>11. InLine(MoveHome(f))
    <2> DEFINE g == MoveHome(f)
    <2> HIDE DEF g
    <2>1. g.line = 0 /\ g.col = 0 /\ Like(g, f)
      BY <1>6 DEF Sited, g
    <2>2. LastLine(g) = n /\ Len(Runes(g, 0)) = Len(Runes(f, 0))
      BY <2>1, LikeRows DEF n
    <2>3. InLine(g)
      BY <1>3, <1>7, <2>1, <2>2 DEF InLine
    <2>4. QED
      BY <2>3 DEF g
  <1>12. QED
    BY <1>5, <1>6, <1>8, <1>9, <1>10, <1>11 DEF n, l, ms

\* A page up or down
LEMMA PagesKeep ==
  ASSUME NEW S, S \subseteq RuneSet, NEW f, Placed(f, S)
  PROVE  Keeps(ScrollPageUp(f), f, S) /\ Keeps(ScrollPageDown(f), f, S)
  <1> DEFINE rows == BuildDisplayLines(f)
             pos  == CursorDisplayPos(f, rows)
             ms   == MaxScroll(f, rows)
             u    == RowsAway(f, rows, pos, -f.height)
             d    == RowsAway(f, rows, pos, f.height)
             us   == IF f.scroll < f.height THEN 0 ELSE f.scroll - f.height
             ds   == Min({f.scroll + f.height, ms})
  <1>1. f \in FrameSet(S) /\ f \in Frames /\ f.lines # <<>> /\ f.height \in Int
        /\ f.height \in Nat /\ f.scroll \in Nat
    <2>1. f \in FrameSet(S)
      BY DEF Placed
    <2>2. QED
      BY <2>1, SubFrames DEF FrameSet
  <1>2. ms \in Nat
    BY <1>1, FrameRows
  <1>3. -f.height \in Int
    BY <1>1
  <1>4. Keeps(u, f, S) /\ u.scroll = f.scroll /\ Keeps(d, f, S) /\ d.scroll = f.scroll
    BY <1>1, <1>3, AwayKeeps
  <1>5. /\ ScrollPageUp(f) = [u EXCEPT !.scroll = IF @ < f.height THEN 0 ELSE @ - f.height]
        /\ ScrollPageDown(f) = [d EXCEPT !.scroll = Min({@ + f.height, ms})]
    BY <1>1 DEF ScrollPageUp, ScrollPageDown, PageUpIn, PageDownIn
  <1> HIDE DEF u, d, ms
  <1>6. /\ ScrollPageUp(f) = [u EXCEPT !.scroll = us]
        /\ ScrollPageDown(f) = [d EXCEPT !.scroll = ds]
    BY <1>4, <1>5
  <1>7. us \in Nat
    BY <1>1
  <1>8. ds \in Nat
    BY <1>1, <1>2, MinTwo
  <1> HIDE DEF us, ds
  <1>9. Keeps([u EXCEPT !.scroll = us], u, S) /\ Keeps([d EXCEPT !.scroll = ds], d, S)
    BY <1>4, <1>7, <1>8, ScrollKeeps DEF Keeps
  <1>10. QED
    BY <1>4, <1>6, <1>9, KeepsTwice

\* Bringing the cursor into view is a move, and shows the caret where the cursor is.
LEMMA ShownKeeps ==
  ASSUME NEW S, S \subseteq RuneSet, NEW f, NEW g, Keeps(g, f, S)
  PROVE  Keeps(EnsureCursorVisible(g), f, S) /\ CaretTrue(EnsureCursorVisible(g))
  <1> DEFINE h == EnsureCursorVisible(g)
  <1>1. g \in FrameSet(S)
    BY DEF Keeps, Placed
  <1>2. Keeps(h, g, S) /\ InLine(h) /\ CursorIn(h)
    BY <1>1, Ensured
  <1> HIDE DEF h
  <1>3. Keeps(h, f, S)
    BY <1>2, KeepsTwice
  <1>4. h \in Frames
    BY <1>2, SubFrames DEF Keeps, Placed
  <1>5. QED
    BY <1>2, <1>3, <1>4, CaretSeen DEF h

\* Up and down, as the keys do them
LEMMA RowKeys ==
  ASSUME NEW S, S \subseteq RuneSet, NEW f, Placed(f, S)
  PROVE  Keeps(MoveCursorUp(f), f, S) /\ Keeps(MoveCursorDown(f), f, S)
  <1>1. -1 \in Int /\ 1 \in Int
    OBVIOUS
  <1>2. /\ Keeps(InRows(f, BuildDisplayLines(f), -1), f, S)
        /\ Keeps(InRows(f, BuildDisplayLines(f), 1), f, S)
    BY <1>1, StepKeeps
  <1>3. QED
    BY <1>2 DEF MoveCursorUp, MoveCursorDown

\* The keys only move cursor and viewport.
LEMMA MovedKeeps ==
  ASSUME NEW S, S \subseteq RuneSet, NEW f, Placed(f, S), NEW key \in Keys, NEW b
  PROVE  Keeps(Moved(key, f, b), f, S)
  <1> DEFINE u == MoveCursorUp(f)
             d == MoveCursorDown(f)
             pu == ScrollPageUp(f)
             pd == ScrollPageDown(f)
  <1>1. Keeps(u, f, S) /\ Keeps(d, f, S)
    BY RowKeys
  <1>2. Keeps(pu, f, S) /\ Keeps(pd, f, S)
    BY PagesKeep
  <1>3. Keeps(MoveCursorLeft(f), f, S) /\ Keeps(MoveCursorRight(f), f, S)
    BY SidesKeep
  <1>4. Keeps(MoveHome(f), f, S) /\ Keeps(MoveEnd(f), f, S)
    BY EndsKeep DEF Placed
  <1> HIDE DEF u, d, pu, pd
  <1>5. /\ Keeps(EnsureCursorVisible(u), f, S) /\ Keeps(EnsureCursorVisible(d), f, S)
        /\ Keeps(EnsureCursorVisible(pu), f, S) /\ Keeps(EnsureCursorVisible(pd), f, S)
    BY <1>1, <1>2, ShownKeeps
  <1>6. key \in {"left", "right", "up", "down", "pgup", "pgdn", "home", "end"}
    BY DEF Keys
  <1>7. Moved(key, f, b) \in {MoveCursorLeft(f), MoveCursorRight(f), MoveHome(f), MoveEnd(f),
                              EnsureCursorVisible(u), EnsureCursorVisible(d),
                              EnsureCursorVisible(pu), EnsureCursorVisible(pd), pu, pd}
    BY <1>6 DEF Moved, u, d, pu, pd
  <1>8. QED
    BY <1>2, <1>3, <1>4, <1>5, <1>7

-----------------------------------------------------------------------------
(* Sequences of runes and lines, cut and put together                      *)

\* A sequence cut at a place, and put together again
LEMMA CutAt ==
  ASSUME NEW T, NEW s \in Seq(T), NEW c \in 0 .. Len(s)
  PROVE  /\ SubSeq(s, 1, c) \in Seq(T) /\ Len(SubSeq(s, 1, c)) = c
         /\ SubSeq(s, c + 1, Len(s)) \in Seq(T) /\ Len(SubSeq(s, c + 1, Len(s))) = Len(s) - c
         /\ SubSeq(s, 1, c) \o SubSeq(s, c + 1, Len(s)) = s
  <1> DEFINE a == SubSeq(s, 1, c)
             b == SubSeq(s, c + 1, Len(s))
  <1>1. Len(s) \in Nat /\ c \in Nat /\ c <= Len(s)
    BY LenProperties
  <1>2. a \in Seq(T) /\ Len(a) = c /\ \A i \in 1 .. c : a[i] = s[i]
    BY <1>1, SubSeqProperties
  <1>3. b \in Seq(T) /\ Len(b) = Len(s) - c /\ \A i \in 1 .. Len(s) - c : b[i] = s[c + i]
    BY <1>1, SubSeqProperties
  <1> HIDE DEF a, b
  <1> DEFINE t == a \o b
  <1>4. /\ t \in Seq(T) /\ Len(t) = Len(a) + Len(b)
        /\ \A i \in 1 .. Len(a) + Len(b) :
              t[i] = IF i <= Len(a) THEN a[i] ELSE b[i - Len(a)]
    BY <1>2, <1>3, ConcatProperties
  <1> HIDE DEF t
  <1>5. ASSUME NEW i \in 1 .. Len(s) PROVE t[i] = s[i]
    <2>0. i \in 1 .. Len(a) + Len(b)
      BY <1>1, <1>2, <1>3
    <2>1. CASE i <= c
      BY <1>1, <1>2, <1>4, <2>0, <2>1
    <2>2. CASE ~(i <= c)
      <3>1. i - c \in 1 .. Len(s) - c /\ c + (i - c) = i
        BY <1>1, <2>2
      <3>2. t[i] = b[i - c]
        BY <1>2, <1>4, <2>0, <2>2
      <3>3. QED
        BY <1>3, <3>1, <3>2
    <2>3. QED
      BY <2>1, <2>2
  <1>6. t = s
    <2>1. Len(t) = Len(s)
      BY <1>1, <1>2, <1>3, <1>4
    <2>2. \A i \in 1 .. Len(t) : t[i] = s[i]
      BY <1>5, <2>1
    <2>3. QED
      BY <1>4, <2>1, <2>2, SeqEqual
  <1>7. QED
    BY <1>2, <1>3, <1>6 DEF a, b, t

\* Is s the sequence a with b after it?
Concats(s, a, b) == s = a \o b

\* The sequence s of two parts can be cut into them.
Halves(s, a, b, T) == /\ s \in Seq(T) /\ Len(s) = Len(a) + Len(b)
                      /\ SubSeq(s, 1, Len(a)) = a
                      /\ SubSeq(s, Len(a) + 1, Len(s)) = b

\* Two sequences put together, and cut again
LEMMA CutBack ==
  ASSUME NEW T, NEW a \in Seq(T), NEW b \in Seq(T), NEW s, Concats(s, a, b)
  PROVE  Halves(s, a, b, T)
  <1>1. Len(a) \in Nat /\ Len(b) \in Nat
    BY LenProperties
  <1>2. /\ s \in Seq(T) /\ Len(s) = Len(a) + Len(b)
        /\ \A i \in 1 .. Len(a) : s[i] = a[i]
        /\ \A i \in 1 .. Len(b) : s[Len(a) + i] = b[i]
    BY <1>1, ConcatProperties DEF Concats
  <1>3. Len(a) \in 0 .. Len(s)
    BY <1>1, <1>2
  <1> DEFINE p == SubSeq(s, 1, Len(a))
             q == SubSeq(s, Len(a) + 1, Len(s))
  <1>4. p \in Seq(T) /\ Len(p) = Len(a) /\ \A i \in 1 .. Len(a) : p[i] = a[i]
    <2>1. p \in Seq(T) /\ Len(p) = Len(a)
      BY <1>2, <1>3, CutAt
    <2>2. \A i \in 1 .. Len(a) : p[i] = s[i]
      BY <1>1, <1>2, SubSeqProperties
    <2>3. QED
      BY <1>2, <2>1, <2>2
  <1>5. q \in Seq(T) /\ Len(q) = Len(b) /\ \A i \in 1 .. Len(b) : q[i] = b[i]
    <2>1. q \in Seq(T) /\ Len(q) = Len(b)
      <3>1. q \in Seq(T) /\ Len(q) = Len(s) - Len(a)
        BY <1>2, <1>3, CutAt
      <3>2. QED
        BY <1>1, <1>2, <3>1
    <2>2. \A i \in 1 .. Len(b) : q[i] = s[Len(a) + i]
      BY <1>1, <1>2, SubSeqProperties
    <2>3. QED
      BY <1>2, <2>1, <2>2
  <1> HIDE DEF p, q
  <1>6. p = a /\ q = b
    BY <1>4, <1>5, SeqEqual
  <1>7. QED
    BY <1>2, <1>6 DEF Halves, p, q

\* The sequence s of two parts and an element between them can be cut into them.
Parted(s, a, b, T) == /\ s \in Seq(T) /\ Len(s) = Len(a) + Len(b) + 1
                      /\ Front(SubSeq(s, 1, Len(a) + 1)) = a
                      /\ SubSeq(s, Len(a) + 2, Len(s)) = b
                      /\ SubSeq(s, 1, Len(a)) = a
                      /\ Tail(SubSeq(s, Len(a) + 1, Len(s))) = b

\* One element between two sequences, and taken out again
LEMMA Between ==
  ASSUME NEW T, NEW a \in Seq(T), NEW b \in Seq(T), NEW r \in T
  PROVE  Parted(a \o <<r>> \o b, a, b, T)
  <1> DEFINE o == <<r>>
             ao == a \o o
             ob == o \o b
             s  == ao \o b
  <1>1. o \in Seq(T) /\ Len(o) = 1 /\ Len(a) \in Nat /\ Len(b) \in Nat
    BY LenProperties
  <1> HIDE DEF o
  <1>2a. Concats(ao, a, o) /\ Concats(ob, o, b) /\ Concats(s, ao, b)
    BY DEF Concats
  <1>3. Concats(s, a, ob)
    BY <1>1, ConcatAssociative DEF Concats
  <1> HIDE DEF ao, ob, s
  <1>2. /\ ao \in Seq(T) /\ Len(ao) = Len(a) + 1 /\ SubSeq(ao, 1, Len(a)) = a
        /\ ob \in Seq(T) /\ Len(ob) = Len(b) + 1 /\ SubSeq(ob, 2, Len(ob)) = b
    <2>0. Halves(ao, a, o, T) /\ Halves(ob, o, b, T)
      BY <1>1, <1>2a, CutBack
    <2>1. ao \in Seq(T) /\ Len(ao) = Len(a) + Len(o) /\ SubSeq(ao, 1, Len(a)) = a
      BY <2>0 DEF Halves
    <2>2. /\ ob \in Seq(T) /\ Len(ob) = Len(o) + Len(b)
          /\ SubSeq(ob, Len(o) + 1, Len(ob)) = b
      BY <2>0 DEF Halves
    <2>3. Len(o) + 1 = 2 /\ Len(o) + Len(b) = Len(b) + 1
      BY <1>1
    <2>4. SubSeq(ob, 2, Len(ob)) = b
      BY <2>2, <2>3
    <2>5. QED
      BY <1>1, <2>1, <2>2, <2>3, <2>4
  <1>4. /\ s \in Seq(T) /\ Len(s) = Len(ao) + Len(b) /\ SubSeq(s, 1, Len(ao)) = ao
        /\ SubSeq(s, Len(ao) + 1, Len(s)) = b
    <2>1. Halves(s, ao, b, T)
      BY <1>2, <1>2a, CutBack
    <2>2. QED
      BY <2>1 DEF Halves
  <1>5. SubSeq(s, 1, Len(a)) = a /\ SubSeq(s, Len(a) + 1, Len(s)) = ob
    <2>1. Halves(s, a, ob, T)
      BY <1>2, <1>3, CutBack
    <2>2. QED
      BY <2>1 DEF Halves
  <1>6. SubSeq(s, 1, Len(a) + 1) = ao /\ SubSeq(s, Len(a) + 2, Len(s)) = b
        /\ Len(s) = Len(a) + Len(b) + 1
    <2>1. Len(ao) + 1 = Len(a) + 2
      BY <1>1, <1>2
    <2>2. SubSeq(s, Len(a) + 2, Len(s)) = b
      BY <1>4, <2>1
    <2>3. QED
      BY <1>1, <1>2, <1>4, <2>2
  <1>7. Front(ao) = a
    <2>1. Len(ao) - 1 = Len(a)
      BY <1>1, <1>2
    <2>2. QED
      BY <1>2, <2>1 DEF Front
  <1>8. Tail(ob) = b
    <2>1. ob # <<>>
      BY <1>1, <1>2
    <2>2. Tail(ob) = SubSeq(ob, 2, Len(ob))
      BY <1>2, <2>1, TailIsSubSeq
    <2>3. QED
      BY <1>2, <2>2
  <1>9. s = a \o <<r>> \o b
    BY DEF s, ao, o
  <1>10. Parted(s, a, b, T)
    BY <1>4, <1>5, <1>6, <1>7, <1>8 DEF Parted
  <1>11. QED
    BY <1>9, <1>10

-----------------------------------------------------------------------------
(* Edits.                                                                *)

\* The place an edit takes the cursor to be at is in its line.
LEMMA InsideFrame ==
  ASSUME NEW S, S \subseteq RuneSet, NEW f \in FrameSet(S)
  PROVE  LET g == Inside(f)
         IN  /\ g \in FrameSet(S) /\ Like(g, f) /\ InLine(g)
             /\ InLine(f) => g = f
  <1> DEFINE n == IF f.line \in 0 .. LastLine(f) THEN f.line ELSE LastLine(f)
             l == Len(Runes(f, n))
             c == Clamp(f.col, 0, l)
             g == At(f, n, c)
  <1>1. f \in Frames /\ f.line \in Nat /\ f.col \in Nat
    BY SubFrames DEF FrameSet
  <1>2. n \in 0 .. LastLine(f) /\ n \in Nat
    <2>1. LastLine(f) \in Nat
      BY <1>1, FrameLines
    <2>2. QED
      BY <1>1, <2>1
  <1>3. l \in Nat
    BY <1>1, <1>2, FrameLines
  <1>4. c \in 0 .. l /\ c \in Nat /\ (f.col \in 0 .. l => c = f.col)
    <2> DEFINE v == f.col
    <2>1. v \in Int /\ l \in Int /\ 0 <= l /\ c = Clamp(v, 0, l)
      BY <1>1, <1>3
    <2> HIDE DEF l, v, c
    <2>2. c \in 0 .. l /\ (v \in 0 .. l => c = v)
      BY <2>1, ClampIn
    <2>3. QED
      BY <1>3, <2>2 DEF v
  <1>5. Inside(f) = g
    BY DEF Inside
  <1>6. InLine(f) => n = f.line /\ c = f.col
    BY <1>4 DEF InLine
  <1> HIDE DEF n, l, c
  <1>7. Sited(g, f, S, n, c, f.scroll)
    BY <1>2, <1>4, AtFrame
  <1>8. InLine(g)
    <2> HIDE DEF g
    <2>1. g.line = n /\ g.col = c /\ Like(g, f)
      BY <1>7 DEF Sited
    <2>2. LastLine(g) = LastLine(f) /\ Runes(g, n) = Runes(f, n)
      BY <2>1, LikeRows
    <2>3. QED
      BY <1>2, <1>4, <2>1, <2>2 DEF InLine, l
  <1>9. n = f.line /\ c = f.col => g = f
    BY DEF At, FrameSet
  <1>10. QED
    BY <1>5, <1>6, <1>7, <1>8, <1>9 DEF Sited

\* Line n of frame g was given the runes s, and nothing else of it changed.
Written(h, g, S, n, s) ==
    /\ h \in FrameSet(S) /\ h.line = g.line /\ h.col = g.col /\ LastLine(h) = LastLine(g)
    /\ Runes(h, n) = s
    /\ \A k \in 0 .. LastLine(g) : k # n => Runes(h, k) = Runes(g, k)

\* Writing a line
LEMMA LineWritten ==
  ASSUME NEW S, S \subseteq RuneSet, NEW g \in FrameSet(S), NEW n \in 0 .. LastLine(g),
         NEW s \in Seq(S)
  PROVE  Written(SetRunes(g, n, s), g, S, n, s)
  <1> DEFINE h == SetRunes(g, n, s)
             i == n + 1
             lines == g.lines
             e == [lines[i] EXCEPT !.runes = s]
             ls == [lines EXCEPT ![i] = e]
  <1>1. lines \in Seq(LineSet(S)) /\ lines # <<>> /\ g \in Frames
    BY SubFrames DEF FrameSet
  <1>2. i \in 1 .. Len(lines) /\ LastLine(g) \in Nat /\ Len(lines) = LastLine(g) + 1
    <2>1. i \in DOMAIN lines /\ DOMAIN lines = 1 .. Len(lines) /\ LastLine(g) \in Nat
          /\ Len(lines) = LastLine(g) + 1
      BY <1>1, FrameLines
    <2>2. QED
      BY <2>1
  <1>3. e \in LineSet(S) /\ e.runes = s
    <2> HIDE DEF lines, i
    <2>1. lines[i] \in LineSet(S)
      BY <1>1, <1>2
    <2>2. QED
      BY <2>1 DEF LineSet
  <1>4. h = [g EXCEPT !.lines = ls]
    BY DEF SetRunes
  <1> HIDE DEF e, lines
  <1>5. /\ ls \in Seq(LineSet(S)) /\ Len(ls) = Len(lines) /\ ls[i] = e
        /\ \A j \in 1 .. Len(lines) : j # i => ls[j] = lines[j]
    BY <1>1, <1>2, <1>3, ExceptSeq
  <1> HIDE DEF ls
  <1>6. ls # <<>>
    BY <1>2, <1>5, EmptySeq
  <1>7. h \in FrameSet(S) /\ h.line = g.line /\ h.col = g.col /\ h.lines = ls
    BY <1>4, <1>5, <1>6 DEF FrameSet
  <1> HIDE DEF h
  <1>8. LastLine(h) = LastLine(g)
    BY <1>5, <1>7 DEF LastLine, lines
  <1>9. Runes(h, n) = s
    BY <1>3, <1>5, <1>7 DEF Runes
  <1>10. ASSUME NEW k \in 0 .. LastLine(g), k # n PROVE Runes(h, k) = Runes(g, k)
    <2>1. k + 1 \in 1 .. Len(lines) /\ k + 1 # i
      BY <1>2, <1>10
    <2>2. ls[k + 1] = lines[k + 1]
      BY <1>5, <2>1
    <2>3. QED
      BY <1>7, <2>2 DEF Runes, lines
  <1>11. Written(h, g, S, n, s)
    BY <1>7, <1>8, <1>9, <1>10 DEF Written
  <1>12. QED
    BY <1>11 DEF h

\* The lines from number n to number m of frame g were replaced by those of new.
Spliced(h, g, S, n, m, new) ==
    LET by == Len(new) - (m - n + 1)
    IN  /\ h \in FrameSet(S) /\ h.line = g.line /\ h.col = g.col
        /\ LastLine(h) = LastLine(g) + by
        /\ \A k \in 0 .. n - 1 : Runes(h, k) = Runes(g, k)
        /\ \A k \in 1 .. Len(new) : Runes(h, n + k - 1) = new[k].runes
        /\ \A k \in m + 1 .. LastLine(g) : Runes(h, k + by) = Runes(g, k)

\* Splicing lines
LEMMA LinesSpliced ==
  ASSUME NEW S, S \subseteq RuneSet, NEW g \in FrameSet(S), NEW n \in 0 .. LastLine(g),
         NEW m \in n .. LastLine(g), NEW new \in Seq(LineSet(S)), new # <<>>
  PROVE  Spliced(Splice(g, n, m, new), g, S, n, m, new)
  <1> DEFINE h == Splice(g, n, m, new)
             L == LineSet(S)
             lines == g.lines
             a == SubSeq(lines, 1, n)
             b == SubSeq(lines, m + 2, Len(lines))
             an == a \o new
             ls == an \o b
             by == Len(new) - (m - n + 1)
             last == LastLine(g)
  <1>1. lines \in Seq(L) /\ g \in Frames
    BY SubFrames DEF FrameSet
  <1>2. last \in Nat /\ Len(lines) = last + 1 /\ n \in Nat /\ m \in Nat /\ n <= m /\ m <= last
        /\ Len(new) \in Nat \ {0}
    <2>1. last \in Nat /\ Len(lines) = last + 1
      BY <1>1, FrameLines
    <2>2. Len(new) \in Nat \ {0}
      BY EmptySeq
    <2> HIDE DEF last, lines
    <2>3. QED
      BY <2>1, <2>2 DEF last
  <1>3. h = [g EXCEPT !.lines = ls]
    BY DEF Splice
  <1> HIDE DEF lines, last, L
  <1>4. \A i \in 1 .. Len(lines) : lines[i] \in L
    BY <1>1
  <1>5. a \in Seq(L) /\ Len(a) = n /\ \A i \in 1 .. n : a[i] = lines[i]
    BY <1>2, <1>4, SubSeqProperties
  <1>6. b \in Seq(L) /\ Len(b) = last - m /\ \A i \in 1 .. last - m : b[i] = lines[m + 1 + i]
    <2>1. b \in Seq(L) /\ \A i \in 1 .. Len(lines) - (m + 2) + 1 : b[i] = lines[m + 2 + i - 1]
      BY <1>2, <1>4, SubSeqProperties
    <2>2. Len(b) = IF m + 2 <= Len(lines) THEN Len(lines) - (m + 2) + 1 ELSE 0
      BY <1>2, <1>4, SubSeqProperties
    <2>3. Len(b) = last - m
      BY <1>2, <2>2
    <2>4. ASSUME NEW i \in 1 .. last - m PROVE b[i] = lines[m + 1 + i]
      <3>1. i \in 1 .. Len(lines) - (m + 2) + 1 /\ m + 2 + i - 1 = m + 1 + i
        BY <1>2
      <3>2. QED
        BY <2>1, <3>1
    <2>5. QED
      BY <2>1, <2>3, <2>4
  <1>7. new \in Seq(L)
    BY DEF L
  <1> HIDE DEF a, b
  <1>8. /\ an \in Seq(L) /\ Len(an) = n + Len(new)
        /\ \A i \in 1 .. n : an[i] = lines[i]
        /\ \A i \in 1 .. Len(new) : an[n + i] = new[i]
    <2>1. /\ an \in Seq(L) /\ Len(an) = Len(a) + Len(new)
          /\ \A i \in 1 .. Len(a) + Len(new) : an[i] = IF i <= Len(a) THEN a[i] ELSE new[i - Len(a)]
      BY <1>5, <1>7, ConcatProperties
    <2> HIDE DEF an
    <2>2. ASSUME NEW i \in 1 .. n PROVE an[i] = lines[i]
      <3>1. i \in 1 .. Len(a) + Len(new) /\ i <= Len(a)
        BY <1>2, <1>5
      <3>2. QED
        BY <1>5, <2>1, <3>1
    <2>3. ASSUME NEW i \in 1 .. Len(new) PROVE an[n + i] = new[i]
      <3>1. n + i \in 1 .. Len(a) + Len(new) /\ ~(n + i <= Len(a)) /\ (n + i) - Len(a) = i
        BY <1>2, <1>5
      <3>2. QED
        BY <2>1, <3>1
    <2>4. QED
      BY <1>5, <2>1, <2>2, <2>3
  <1> HIDE DEF an
  <1>9. /\ ls \in Seq(L) /\ Len(ls) = Len(lines) + by
        /\ \A i \in 1 .. n : ls[i] = lines[i]
        /\ \A i \in 1 .. Len(new) : ls[n + i] = new[i]
        /\ \A i \in m + 2 .. Len(lines) : ls[i + by] = lines[i]
    <2>1. /\ ls \in Seq(L) /\ Len(ls) = Len(an) + Len(b)
          /\ \A i \in 1 .. Len(an) + Len(b) : ls[i] = IF i <= Len(an) THEN an[i] ELSE b[i - Len(an)]
      <3>1. an \in Seq(L) /\ b \in Seq(L)
        BY <1>6, <1>8
      <3>2. QED
        BY <3>1, ConcatProperties
    <2> HIDE DEF ls
    <2>2. Len(ls) = Len(lines) + by
      BY <1>2, <1>6, <1>8, <2>1
    <2>3. ASSUME NEW i \in 1 .. n PROVE ls[i] = lines[i]
      <3>1. i \in 1 .. Len(an) + Len(b) /\ i <= Len(an)
        BY <1>2, <1>6, <1>8
      <3>2. QED
        BY <1>8, <2>1, <3>1
    <2>4. ASSUME NEW i \in 1 .. Len(new) PROVE ls[n + i] = new[i]
      <3>1. n + i \in 1 .. Len(an) + Len(b) /\ n + i <= Len(an)
        BY <1>2, <1>6, <1>8
      <3>2. QED
        BY <1>8, <2>1, <3>1
    <2>5. ASSUME NEW i \in m + 2 .. Len(lines) PROVE ls[i + by] = lines[i]
      <3>1. /\ i + by \in 1 .. Len(an) + Len(b) /\ ~(i + by <= Len(an))
            /\ (i + by) - Len(an) = i - (m + 1) /\ i - (m + 1) \in 1 .. last - m
            /\ m + 1 + (i - (m + 1)) = i
        BY <1>2, <1>6, <1>8
      <3>2. ls[i + by] = b[i - (m + 1)]
        BY <2>1, <3>1
      <3>3. QED
        BY <1>6, <3>1, <3>2
    <2>6. QED
      BY <2>1, <2>2, <2>3, <2>4, <2>5
  <1> HIDE DEF ls
  <1>10. ls # <<>>
    BY <1>2, <1>9, EmptySeq
  <1>11. h \in FrameSet(S) /\ h.line = g.line /\ h.col = g.col /\ h.lines = ls
    BY <1>3, <1>9, <1>10 DEF FrameSet, L
  <1> HIDE DEF h
  <1>12. LastLine(h) = last + by
    <2>1. LastLine(h) = Len(ls) - 1
      BY <1>11 DEF LastLine
    <2>2. by \in Int
      BY <1>2
    <2> HIDE DEF by
    <2>3. QED
      BY <1>2, <1>9, <2>1, <2>2
  <1>13. ASSUME NEW k \in 0 .. n - 1 PROVE Runes(h, k) = Runes(g, k)
    <2>1. k + 1 \in 1 .. n
      BY <1>2
    <2>2. QED
      BY <1>9, <1>11, <2>1 DEF Runes, lines
  <1>14. ASSUME NEW k \in 1 .. Len(new) PROVE Runes(h, n + k - 1) = new[k].runes
    <2>1. (n + k - 1) + 1 = n + k
      BY <1>2
    <2>2. QED
      BY <1>9, <1>11, <2>1 DEF Runes
  <1>15. ASSUME NEW k \in m + 1 .. last PROVE Runes(h, k + by) = Runes(g, k)
    <2>1. k + 1 \in m + 2 .. Len(lines) /\ (k + by) + 1 = (k + 1) + by
      BY <1>2
    <2>2. ls[(k + by) + 1] = lines[k + 1]
      BY <1>9, <2>1
    <2>3. QED
      BY <1>11, <2>2 DEF Runes, lines
  <1>16. Spliced(h, g, S, n, m, new)
    BY <1>11, <1>12, <1>13, <1>14, <1>15 DEF Spliced, last
  <1>17. QED
    BY <1>16 DEF h

\* The runes of a line of a frame are of the frame's.
LEMMA RunesIn ==
  ASSUME NEW S, S \subseteq RuneSet, NEW f \in FrameSet(S), NEW n \in 0 .. LastLine(f)
  PROVE  Runes(f, n) \in Seq(S) /\ Len(Runes(f, n)) \in Nat
  <1>1. f \in Frames
    BY SubFrames
  <1>2. n + 1 \in DOMAIN f.lines
    BY <1>1, FrameLines
  <1>3. f.lines \in Seq(LineSet(S))
    BY DEF FrameSet
  <1>4. f.lines[n + 1] \in LineSet(S)
    BY <1>2, <1>3
  <1>5. Runes(f, n) \in Seq(S)
    BY <1>4 DEF LineSet, Runes
  <1>6. QED
    BY <1>5, LenProperties

\* A line made by an edit
LEMMA LineIn ==
  ASSUME NEW S, NEW s \in Seq(S)
  PROVE  /\ Line(s) \in LineSet(S) /\ Line(s).runes = s
         /\ <<Line(s)>> \in Seq(LineSet(S)) /\ <<Line(s)>> # <<>> /\ Len(<<Line(s)>>) = 1
         /\ <<Line(s)>>[1].runes = s
  BY DEF Line, LineSet

\* What is before the cursor and what is after it make the line.
LEMMA LineHalves ==
  ASSUME NEW S, S \subseteq RuneSet, NEW g \in FrameSet(S), InLine(g)
  PROVE  /\ Before(g) \in Seq(S) /\ Len(Before(g)) = g.col
         /\ After(g) \in Seq(S) /\ Len(After(g)) = Len(Runes(g, g.line)) - g.col
         /\ Before(g) \o After(g) = Runes(g, g.line)
         /\ g.line \in 0 .. LastLine(g) /\ g.line \in Nat /\ g.col \in Nat
         /\ Len(Runes(g, g.line)) \in Nat /\ g.col <= Len(Runes(g, g.line))
  <1> DEFINE s == Runes(g, g.line)
             c == g.col
  <1>1. g.line \in 0 .. LastLine(g) /\ c \in 0 .. Len(s)
    BY DEF InLine
  <1>2. s \in Seq(S) /\ Len(s) \in Nat
    BY <1>1, RunesIn
  <1>3. g.line \in Nat /\ c \in Nat
    BY DEF FrameSet
  <1> HIDE DEF s, c
  <1>4. /\ SubSeq(s, 1, c) \in Seq(S) /\ Len(SubSeq(s, 1, c)) = c
        /\ SubSeq(s, c + 1, Len(s)) \in Seq(S) /\ Len(SubSeq(s, c + 1, Len(s))) = Len(s) - c
        /\ SubSeq(s, 1, c) \o SubSeq(s, c + 1, Len(s)) = s
    BY <1>1, <1>2, CutAt
  <1>5. Before(g) = SubSeq(s, 1, c) /\ After(g) = SubSeq(s, c + 1, Len(s))
    BY DEF Before, After, s, c
  <1>6. c <= Len(s)
    BY <1>1, <1>2
  <1>7. QED
    BY <1>1, <1>2, <1>3, <1>4, <1>5, <1>6 DEF s, c

\* Line n of g was given the runes s, and the cursor is in it at column c.
Wrote(h, g, S, n, s, c) ==
    /\ h \in FrameSet(S) /\ h.line = n /\ h.col = c /\ LastLine(h) = LastLine(g)
    /\ Runes(h, n) = s
    /\ \A k \in 0 .. LastLine(g) : k # n => Runes(h, k) = Runes(g, k)

\* Writing a line with the cursor in it
LEMMA WriteAt ==
  ASSUME NEW S, S \subseteq RuneSet, NEW g \in FrameSet(S), NEW n \in 0 .. LastLine(g),
         NEW s \in Seq(S), NEW c \in Nat
  PROVE  Wrote(At(SetRunes(g, n, s), n, c), g, S, n, s, c)
  <1> DEFINE h == SetRunes(g, n, s)
             p == At(h, n, c)
  <1>1. Written(h, g, S, n, s)
    BY LineWritten
  <1>2. n \in Nat
    BY SubFrames, FrameLines
  <1> HIDE DEF h
  <1>3. Sited(p, h, S, n, c, h.scroll)
    BY <1>1, <1>2, AtFrame DEF Written
  <1> HIDE DEF p
  <1>4. Like(p, h) /\ p \in FrameSet(S) /\ p.line = n /\ p.col = c
    BY <1>3 DEF Sited
  <1>5. LastLine(p) = LastLine(h) /\ \A k : Runes(p, k) = Runes(h, k)
    BY <1>4, LikeRows
  <1>6. Wrote(p, g, S, n, s, c)
    BY <1>1, <1>4, <1>5 DEF Written, Wrote
  <1>7. QED
    BY <1>6 DEF p, h

\* Line n of g was broken into the lines a and b, and the cursor is at the start of b.
Broke(h, g, S, n, a, b) ==
    /\ h \in FrameSet(S) /\ h.line = n + 1 /\ h.col = 0 /\ LastLine(h) = LastLine(g) + 1
    /\ Runes(h, n) = a /\ Runes(h, n + 1) = b
    /\ \A k \in 0 .. n - 1 : Runes(h, k) = Runes(g, k)
    /\ \A k \in n + 1 .. LastLine(g) : Runes(h, k + 1) = Runes(g, k)

\* Breaking a line
LEMMA BreakAt ==
  ASSUME NEW S, S \subseteq RuneSet, NEW g \in FrameSet(S), NEW n \in 0 .. LastLine(g),
         NEW a \in Seq(S), NEW b \in Seq(S)
  PROVE  Broke(At(Splice(g, n, n, <<Line(a), Line(b)>>), n + 1, 0), g, S, n, a, b)
  <1> DEFINE new == <<Line(a), Line(b)>>
             h == Splice(g, n, n, new)
             p == At(h, n + 1, 0)
  <1>1. Line(a) \in LineSet(S) /\ Line(b) \in LineSet(S) /\ Line(a).runes = a /\ Line(b).runes = b
    BY LineIn
  <1>2. new \in Seq(LineSet(S)) /\ new # <<>> /\ Len(new) = 2 /\ new[1].runes = a /\ new[2].runes = b
    BY <1>1
  <1>3. n \in Nat /\ LastLine(g) \in Nat /\ n <= LastLine(g) /\ n \in n .. LastLine(g)
    <2>1. LastLine(g) \in Nat
      BY SubFrames, FrameLines
    <2>2. QED
      BY <2>1
  <1> HIDE DEF new
  <1>4. Spliced(h, g, S, n, n, new)
    BY <1>2, <1>3, LinesSpliced
  <1> HIDE DEF h
  <1>5. Len(new) - (n - n + 1) = 1
    BY <1>2, <1>3
  <1>6. /\ h \in FrameSet(S) /\ LastLine(h) = LastLine(g) + 1
        /\ \A k \in 0 .. n - 1 : Runes(h, k) = Runes(g, k)
        /\ \A k \in 1 .. 2 : Runes(h, n + k - 1) = new[k].runes
        /\ \A k \in n + 1 .. LastLine(g) : Runes(h, k + 1) = Runes(g, k)
    BY <1>2, <1>4, <1>5 DEF Spliced
  <1>7. Runes(h, n) = a /\ Runes(h, n + 1) = b
    <2>1. n + 1 - 1 = n /\ n + 2 - 1 = n + 1 /\ 1 \in 1 .. 2 /\ 2 \in 1 .. 2
      BY <1>3
    <2>2. Runes(h, n + 1 - 1) = new[1].runes /\ Runes(h, n + 2 - 1) = new[2].runes
      BY <1>6, <2>1
    <2>3. QED
      BY <1>2, <2>1, <2>2
  <1>8. Sited(p, h, S, n + 1, 0, h.scroll)
    BY <1>3, <1>6, AtFrame
  <1> HIDE DEF p
  <1>9. Like(p, h) /\ p \in FrameSet(S) /\ p.line = n + 1 /\ p.col = 0
    BY <1>8 DEF Sited
  <1>10. LastLine(p) = LastLine(h) /\ \A k : Runes(p, k) = Runes(h, k)
    BY <1>9, LikeRows
  <1>11. Broke(p, g, S, n, a, b)
    BY <1>6, <1>7, <1>9, <1>10 DEF Broke
  <1>12. QED
    BY <1>11 DEF p, h, new

\* Line n of g and the next one became one line of runes s.
OneLine(h, g, S, n, s) ==
    /\ h \in FrameSet(S) /\ h.line = g.line /\ h.col = g.col /\ LastLine(h) = LastLine(g) - 1
    /\ Runes(h, n) = s
    /\ \A k \in 0 .. n - 1 : Runes(h, k) = Runes(g, k)
    /\ \A k \in n + 2 .. LastLine(g) : Runes(h, k - 1) = Runes(g, k)

\* Joining two lines
LEMMA JoinAt ==
  ASSUME NEW S, S \subseteq RuneSet, NEW g \in FrameSet(S), NEW n \in 0 .. LastLine(g) - 1,
         NEW s \in Seq(S)
  PROVE  OneLine(Splice(g, n, n + 1, <<Line(s)>>), g, S, n, s)
  <1> DEFINE new == <<Line(s)>>
             m == n + 1
             h == Splice(g, n, m, new)
  <1>1. new \in Seq(LineSet(S)) /\ new # <<>> /\ Len(new) = 1 /\ new[1].runes = s
    BY LineIn
  <1>2. n \in Nat /\ LastLine(g) \in Nat /\ n \in 0 .. LastLine(g) /\ m \in n .. LastLine(g)
    <2>1. LastLine(g) \in Nat
      BY SubFrames, FrameLines
    <2>2. QED
      BY <2>1
  <1>3. m + 1 = n + 2 /\ Len(new) - (m - n + 1) = -1
    BY <1>1, <1>2
  <1> HIDE DEF new, m
  <1>4. Spliced(h, g, S, n, m, new)
    BY <1>1, <1>2, LinesSpliced
  <1> HIDE DEF h
  <1>5. /\ h \in FrameSet(S) /\ h.line = g.line /\ h.col = g.col /\ LastLine(h) = LastLine(g) + (-1)
        /\ \A k \in 0 .. n - 1 : Runes(h, k) = Runes(g, k)
        /\ \A k \in 1 .. 1 : Runes(h, n + k - 1) = new[k].runes
        /\ \A k \in n + 2 .. LastLine(g) : Runes(h, k + (-1)) = Runes(g, k)
    BY <1>1, <1>3, <1>4 DEF Spliced
  <1>6. Runes(h, n) = s
    <2>1. n + 1 - 1 = n /\ 1 \in 1 .. 1
      BY <1>2
    <2>2. Runes(h, n + 1 - 1) = new[1].runes
      BY <1>5, <2>1
    <2>3. QED
      BY <1>1, <2>1, <2>2
  <1>7. LastLine(g) + (-1) = LastLine(g) - 1 /\ \A k \in n + 2 .. LastLine(g) : k + (-1) = k - 1
    BY <1>2
  <1>8. OneLine(h, g, S, n, s)
    BY <1>5, <1>6, <1>7 DEF OneLine
  <1>9. QED
    BY <1>8 DEF h, m, new

\* A frame with runes put into it is a frame.
LEMMA InsertFrame ==
  ASSUME NEW S, S \subseteq RuneSet, NEW f \in FrameSet(S), NEW rs \in Seq(S)
  PROVE  LET g == Inside(f)
         IN  Wrote(InsertRunes(f, rs), g, S, g.line, Before(g) \o rs \o After(g), g.col + Len(rs))
  <1> DEFINE g == Inside(f)
             s == Before(g) \o rs \o After(g)
             c == g.col + Len(rs)
  <1>1. g \in FrameSet(S) /\ InLine(g)
    BY InsideFrame
  <1>2. InsertRunes(f, rs) = At(SetRunes(g, g.line, s), g.line, c)
    BY DEF InsertRunes
  <1> HIDE DEF g
  <1>3. /\ Before(g) \in Seq(S) /\ After(g) \in Seq(S) /\ g.line \in 0 .. LastLine(g)
        /\ g.col \in Nat /\ Len(rs) \in Nat
    BY <1>1, LineHalves, LenProperties
  <1>4. s \in Seq(S)
    <2> DEFINE a == Before(g)
               b == After(g)
    <2> HIDE DEF a, b
    <2>1. a \in Seq(S) /\ b \in Seq(S)
      BY <1>3 DEF a, b
    <2>2. a \o rs \o b \in Seq(S)
      BY <2>1
    <2>3. QED
      BY <2>2 DEF a, b
  <1>5. c \in Nat
    BY <1>3
  <1> HIDE DEF s, c
  <1>6. Wrote(At(SetRunes(g, g.line, s), g.line, c), g, S, g.line, s, c)
    BY <1>1, <1>3, <1>4, <1>5, WriteAt
  <1>7. QED
    BY <1>2, <1>6 DEF g, s, c

\* A frame with a line broken is a frame.
LEMMA NewlineFrame ==
  ASSUME NEW S, S \subseteq RuneSet, NEW f \in FrameSet(S)
  PROVE  LET g == Inside(f)
         IN  Broke(InsertNewline(f), g, S, g.line, Before(g), After(g))
  <1> DEFINE g == Inside(f)
  <1>1. g \in FrameSet(S) /\ InLine(g)
    BY InsideFrame
  <1>2. InsertNewline(f) = At(Splice(g, g.line, g.line, <<Line(Before(g)), Line(After(g))>>),
                              g.line + 1, 0)
    BY DEF InsertNewline
  <1> HIDE DEF g
  <1>3. Before(g) \in Seq(S) /\ After(g) \in Seq(S) /\ g.line \in 0 .. LastLine(g)
    BY <1>1, LineHalves
  <1>4. Broke(At(Splice(g, g.line, g.line, <<Line(Before(g)), Line(After(g))>>), g.line + 1, 0),
              g, S, g.line, Before(g), After(g))
    BY <1>1, <1>3, BreakAt
  <1>5. QED
    BY <1>2, <1>4 DEF g

\* Erasing the rune before the cursor of a frame
LEMMA EraseBefore ==
  ASSUME NEW S, S \subseteq RuneSet, NEW g \in FrameSet(S), InLine(g), g.col > 0
  PROVE  Wrote(At(SetRunes(g, g.line, Front(Before(g)) \o After(g)), g.line, g.col - 1), g, S,
               g.line, Front(Before(g)) \o After(g), g.col - 1)
  <1> DEFINE a == Before(g)
             b == After(g)
             fa == Front(a)
             s == fa \o b
             c == g.col - 1
  <1>1. /\ a \in Seq(S) /\ b \in Seq(S) /\ g.line \in 0 .. LastLine(g) /\ g.col \in Nat
        /\ Len(a) = g.col
    BY LineHalves
  <1>2. c \in Nat
    BY <1>1
  <1> HIDE DEF a, b
  <1>3. fa \in Seq(S)
    <2>1. 1 \in Int /\ Len(a) - 1 \in Int /\ \A i \in 1 .. Len(a) - 1 : a[i] \in S
      BY <1>1
    <2>2. SubSeq(a, 1, Len(a) - 1) \in Seq(S)
      BY <2>1, SubSeqProperties
    <2>3. QED
      BY <2>2 DEF Front
  <1> HIDE DEF fa
  <1>4. s \in Seq(S)
    BY <1>1, <1>3
  <1> HIDE DEF s, c
  <1>5. Wrote(At(SetRunes(g, g.line, s), g.line, c), g, S, g.line, s, c)
    BY <1>1, <1>2, <1>4, WriteAt
  <1>6. QED
    BY <1>5 DEF s, c, fa, a, b

\* Joining a line to the one before it, with the cursor where they meet
LEMMA JoinBefore ==
  ASSUME NEW S, S \subseteq RuneSet, NEW f \in FrameSet(S), f.line \in 0 .. LastLine(f), f.line > 0
  PROVE  LET n == f.line - 1
             s == Runes(f, n) \o Runes(f, f.line)
             c == Len(Runes(f, n))
         IN  \E h : /\ OneLine(h, f, S, n, s)
                    /\ Sited(At(Splice(f, n, f.line, <<Line(s)>>), n, c), h, S, n, c, h.scroll)
  <1> DEFINE n == f.line - 1
             p == Runes(f, n)
             q == Runes(f, f.line)
             s == p \o q
             c == Len(p)
             h == Splice(f, n, f.line, <<Line(s)>>)
  <1>1. LastLine(f) \in Nat /\ f.line \in Nat
    BY SubFrames, FrameLines DEF FrameSet
  <1>2. n \in Nat /\ n \in 0 .. LastLine(f) - 1 /\ n \in 0 .. LastLine(f) /\ n + 1 = f.line
    BY <1>1
  <1> HIDE DEF n
  <1>3. p \in Seq(S) /\ q \in Seq(S) /\ c \in Nat
    BY <1>2, RunesIn
  <1> HIDE DEF p, q
  <1>4. s \in Seq(S)
    BY <1>3
  <1> HIDE DEF s, c
  <1>5. OneLine(Splice(f, n, n + 1, <<Line(s)>>), f, S, n, s)
    BY <1>2, <1>4, JoinAt
  <1>6. OneLine(h, f, S, n, s)
    BY <1>2, <1>5
  <1> HIDE DEF h
  <1>7. Sited(At(h, n, c), h, S, n, c, h.scroll)
    BY <1>2, <1>3, <1>6, AtFrame DEF OneLine
  <1>8. QED
    BY <1>6, <1>7 DEF h, c, s, p, q, n

\* No line grows from nothing when it is drawn.
LEMMA EmptyEnd ==
  ASSUME NEW f \in Frames, NEW n \in 0 .. LastLine(f), Len(Runes(f, n)) = 0
  PROVE  Ends(f)[n] = 0
  <1> DEFINE s == Runes(f, n)
  <1>1. s \in Seq(RuneSet)
    BY FrameLines
  <1> HIDE DEF s
  <1>2. Len(s) = 0
    BY DEF s
  <1>3. ~Contains(s, "\t")
    BY <1>2 DEF Contains
  <1>4. ExpandTabs(s) = s
    BY <1>1, <1>3, Expanded
  <1>5. QED
    BY <1>2, <1>4 DEF Ends, s

\* A frame with something erased is a frame.
LEMMA BackspaceFrame ==
  ASSUME NEW S, S \subseteq RuneSet, NEW f, Placed(f, S)
  PROVE  Backspace(f) \in FrameSet(S)
  <1> DEFINE l == Len(Runes(f, f.line))
             c == Clamp(f.col, 0, l)
             g == At(f, f.line, c)
             n == f.line - 1
             s == Runes(f, n) \o Runes(f, f.line)
  <1>1. /\ f \in FrameSet(S) /\ f \in Frames /\ f.line \in 0 .. LastLine(f) /\ f.line \in Nat
        /\ f.col \in Nat /\ f.col <= Ends(f)[f.line]
    BY SubFrames DEF Placed, FrameSet
  <1>2. CASE f.line = 0 /\ f.col = 0
    BY <1>1, <1>2 DEF Backspace
  <1>3. CASE f.col > 0
    <2>1. Backspace(f) = At(SetRunes(g, g.line, Front(Before(g)) \o After(g)), g.line, g.col - 1)
      BY <1>1, <1>3 DEF Backspace
    <2>2. l \in Nat
      BY <1>1, FrameLines
    <2>3. l # 0
      BY <1>1, <1>3, EmptyEnd
    <2>4. c \in 1 .. l /\ c \in Nat /\ c > 0
      <3> HIDE DEF l
      <3>1. QED
        BY <1>1, <1>3, <2>2, <2>3 DEF Clamp
    <2> HIDE DEF c
    <2>5. Sited(g, f, S, f.line, c, f.scroll)
      BY <1>1, <2>4, AtFrame
    <2> HIDE DEF g
    <2>6. g \in FrameSet(S) /\ Like(g, f) /\ g.line = f.line /\ g.col = c
      BY <2>5 DEF Sited
    <2>7. LastLine(g) = LastLine(f) /\ Len(Runes(g, g.line)) = l
      BY <2>6, LikeRows
    <2>8. InLine(g) /\ g.col > 0
      <3>1. c \in 0 .. l
        BY <2>2, <2>4
      <3>2. QED
        BY <1>1, <2>4, <2>6, <2>7, <3>1 DEF InLine
    <2>9. Wrote(At(SetRunes(g, g.line, Front(Before(g)) \o After(g)), g.line, g.col - 1), g, S,
                g.line, Front(Before(g)) \o After(g), g.col - 1)
      BY <2>6, <2>8, EraseBefore
    <2>10. QED
      BY <2>1, <2>9 DEF Wrote
  <1>4. CASE ~(f.col > 0) /\ ~(f.line = 0 /\ f.col = 0)
    <2>1. f.line > 0
      BY <1>1, <1>4
    <2>2. Backspace(f) = At(Splice(f, n, f.line, <<Line(s)>>), n, Len(Runes(f, n)))
      BY <1>1, <1>4 DEF Backspace
    <2>3. \E h : Sited(At(Splice(f, n, f.line, <<Line(s)>>), n, Len(Runes(f, n))), h, S, n,
                       Len(Runes(f, n)), h.scroll)
      BY <1>1, <2>1, JoinBefore
    <2>4. QED
      BY <2>2, <2>3 DEF Sited
  <1>5. QED
    BY <1>2, <1>3, <1>4

\* Erasing forwards, where there is something to erase in the line
LEMMA EraseAfter ==
  ASSUME NEW S, S \subseteq RuneSet, NEW g \in FrameSet(S), InLine(g),
         g.col < Len(Runes(g, g.line))
  PROVE  Written(SetRunes(g, g.line, Before(g) \o Tail(After(g))), g, S, g.line,
                 Before(g) \o Tail(After(g)))
  <1> DEFINE a == Before(g)
             b == After(g)
             tb == Tail(b)
             s == a \o tb
  <1>1. /\ a \in Seq(S) /\ b \in Seq(S) /\ g.line \in 0 .. LastLine(g) /\ g.col \in Nat
        /\ Len(b) = Len(Runes(g, g.line)) - g.col /\ Len(Runes(g, g.line)) \in Nat
    BY LineHalves
  <1> HIDE DEF a, b
  <1>2. b # <<>>
    BY <1>1, EmptySeq
  <1>3. tb \in Seq(S)
    BY <1>1, <1>2, HeadTailProperties
  <1> HIDE DEF tb
  <1>4. s \in Seq(S)
    BY <1>1, <1>3
  <1> HIDE DEF s
  <1>5. Written(SetRunes(g, g.line, s), g, S, g.line, s)
    BY <1>1, <1>4, LineWritten
  <1>6. QED
    BY <1>5 DEF s, tb, a, b

\* A frame with something erased forwards is a frame.
LEMMA DeleteFrame ==
  ASSUME NEW S, S \subseteq RuneSet, NEW f \in FrameSet(S)
  PROVE  DeleteForward(f) \in FrameSet(S)
  <1> DEFINE g == Inside(f)
             n == g.line
             s == Runes(g, n) \o Runes(g, n + 1)
  <1>1. g \in FrameSet(S) /\ InLine(g) /\ f.lines # <<>>
    BY InsideFrame DEF FrameSet
  <1>2. DeleteForward(f) = IF g.col < Len(Runes(g, n)) THEN SetRunes(g, n, Before(g) \o Tail(After(g)))
                           ELSE IF n = LastLine(g) THEN g
                           ELSE Splice(g, n, n + 1, <<Line(s)>>)
    BY <1>1 DEF DeleteForward
  <1> HIDE DEF g
  <1>3. n \in Nat /\ n \in 0 .. LastLine(g) /\ LastLine(g) \in Nat
    <2>1. LastLine(g) \in Nat
      BY <1>1, SubFrames, FrameLines
    <2>2. QED
      BY <1>1, <2>1 DEF InLine
  <1>4. CASE g.col < Len(Runes(g, n))
    BY <1>1, <1>2, <1>4, EraseAfter DEF Written
  <1>5. CASE ~(g.col < Len(Runes(g, n))) /\ n = LastLine(g)
    BY <1>1, <1>2, <1>5
  <1>6. CASE ~(g.col < Len(Runes(g, n))) /\ n # LastLine(g)
    <2>1. n \in 0 .. LastLine(g) - 1 /\ n + 1 \in 0 .. LastLine(g)
      BY <1>3, <1>6
    <2>2. Runes(g, n) \in Seq(S) /\ Runes(g, n + 1) \in Seq(S)
      BY <1>1, <1>3, <2>1, RunesIn
    <2>3. s \in Seq(S)
      <3> DEFINE p == Runes(g, n)
                 q == Runes(g, n + 1)
      <3> HIDE DEF p, q
      <3>1. p \in Seq(S) /\ q \in Seq(S)
        BY <2>2 DEF p, q
      <3>2. p \o q \in Seq(S)
        BY <3>1
      <3>3. QED
        BY <3>2 DEF p, q
    <2> HIDE DEF s, n
    <2>4. OneLine(Splice(g, n, n + 1, <<Line(s)>>), g, S, n, s)
      BY <1>1, <2>1, <2>3, JoinAt
    <2>5. DeleteForward(f) = Splice(g, n, n + 1, <<Line(s)>>)
      BY <1>2, <1>6
    <2>6. QED
      BY <2>4, <2>5 DEF OneLine
  <1>7. QED
    BY <1>4, <1>5, <1>6

-----------------------------------------------------------------------------
(* The inductive invariant.                                              *)

\* The pane does not wrap its text at the words.
Unbroken == /\ HasInput \/ WrapMode # "word"
            /\ \A lines \in Texts : \A i \in DOMAIN lines : lines[i].wrap # "word"

\* Every size of the pane has place for a rune and the marker.
Wide == \A size \in Sizes : size[2] > 1

\* No tab is ever in the pane.
Tabless == /\ "\t" \notin Typed
           /\ \A lines \in Texts : \A i \in DOMAIN lines : ~Contains(lines[i].runes, "\t")

\* The runes that come into the pane
PaneRunes == IF Tabless THEN RuneSet \ {"\t"} ELSE RuneSet

\* The inductive invariant: the cursor is at a place of a text of the pane.
EditorInv == Placed(frame, PaneRunes)

\* Blanks are runes of the pane, and so is what is typed.
LEMMA PaneTyped ==
  PaneRunes \subseteq RuneSet /\ " " \in PaneRunes /\ Typed \subseteq PaneRunes
  <1>1. " " # "\t" /\ " " \in RuneSet
    BY DEF RuneSet, Blanks
  <1>2. Typed \subseteq RuneSet
    BY EditorAssumption DEF RuneSet
  <1>3. QED
    BY <1>1, <1>2 DEF PaneRunes, Tabless

\* The texts a refresh puts into the pane are made of them.
LEMMA PaneTexts ==
  ASSUME Unbroken, NEW lines \in Texts
  PROVE  lines \in Seq(LineSet(PaneRunes)) \ {<<>>}
  <1>1. lines \in Seq(TextLine) /\ lines # <<>>
    BY EditorAssumption
  <1>2. ASSUME NEW i \in 1 .. Len(lines) PROVE lines[i] \in LineSet(PaneRunes)
    <2> DEFINE l == lines[i]
               s == l.runes
    <2>1. l \in TextLine /\ i \in DOMAIN lines
      BY <1>1
    <2>2. l.wrap # "word"
      BY <2>1 DEF Unbroken
    <2>3. l = [runes |-> l.runes, wrap |-> l.wrap] /\ s \in Seq(STRING)
          /\ l.wrap \in WrapModes \cup {"inherit"}
      <3> HIDE DEF l
      <3>1. QED
        BY <2>1 DEF TextLine
    <2>4. l.wrap \in {"inherit", "off", "hard"}
      BY <2>2, <2>3 DEF WrapModes
    <2>5. Tabless => ~Contains(s, "\t")
      BY <2>1 DEF Tabless
    <2> HIDE DEF l, s
    <2>6. \A k \in 1 .. Len(s) : s[k] \in PaneRunes
      <3>1. \A k \in 1 .. Len(s) : s[k] \in RuneSet
        BY <2>3 DEF RuneSet
      <3>2. Tabless => \A k \in 1 .. Len(s) : s[k] # "\t"
        BY <2>5 DEF Contains
      <3>3. QED
        BY <3>1, <3>2 DEF PaneRunes
    <2>7. s \in Seq(PaneRunes)
      <3>1. Len(s) \in Nat /\ s \in [1 .. Len(s) -> STRING]
        BY <2>3, LenProperties
      <3>2. s \in [1 .. Len(s) -> PaneRunes]
        BY <2>6, <3>1
      <3>3. QED
        BY <3>1, <3>2
    <2>8. l \in LineSet(PaneRunes)
      BY <2>3, <2>4, <2>7 DEF LineSet, s
    <2>9. QED
      BY <2>8 DEF l
  <1>3. lines \in Seq(LineSet(PaneRunes))
    <2>1. Len(lines) \in Nat /\ lines \in [1 .. Len(lines) -> TextLine]
      BY <1>1, LenProperties
    <2>2. lines \in [1 .. Len(lines) -> LineSet(PaneRunes)]
      BY <1>2, <2>1
    <2>3. QED
      BY <2>1, <2>2
  <1>4. QED
    BY <1>1, <1>3

\* A frame with new lines is a frame.
LEMMA LinesFrame ==
  ASSUME NEW S, NEW f \in FrameSet(S), NEW lines \in Seq(LineSet(S)) \ {<<>>}
  PROVE  [f EXCEPT !.lines = lines] \in FrameSet(S)
  BY DEF FrameSet

\* The frame of a new pane
LEMMA NewFrame ==
  ASSUME NEW S, NEW h \in Nat \ {0}, NEW w \in Nat \ {0, 1}, NEW mode \in {"off", "hard"},
         NEW lines \in Seq(LineSet(S)) \ {<<>>}
  PROVE  /\ [Frame(h, w, mode) EXCEPT !.lines = lines] \in FrameSet(S)
         /\ [Nowhere(Frame(h, w, mode)) EXCEPT !.lines = lines] \in FrameSet(S)
         /\ Nowhere(Frame(h, w, mode)).line = 0 /\ Nowhere(Frame(h, w, mode)).col = 0
  BY DEF FrameSet, Frame, Nowhere

\* An empty line is a text.
LEMMA EmptyText ==
  ASSUME NEW S
  PROVE  <<Line(<<>>)>> \in Seq(LineSet(S)) \ {<<>>}
  <1>1. <<>> \in Seq(S)
    OBVIOUS
  <1>2. QED
    BY <1>1, LineIn

\* A frame whose cursor is at its start is placed.
LEMMA StartPlaced ==
  ASSUME NEW S, S \subseteq RuneSet, NEW f \in FrameSet(S), f.line = 0, f.col = 0
  PROVE  Placed(f, S)
  <1>1. LastLine(f) \in Nat /\ 0 \in 0 .. LastLine(f) /\ Ends(f)[0] \in Nat
    <2>1. f \in Frames
      BY SubFrames
    <2>2. LastLine(f) \in Nat
      BY <2>1, FrameLines
    <2>3. 0 \in 0 .. LastLine(f)
      BY <2>2
    <2>4. QED
      BY <2>1, <2>2, <2>3, FrameLines
  <1>2. QED
    BY <1>1 DEF Placed

\* A refresh puts the cursor at a place of the new text.
LEMMA RefreshPlaced ==
  ASSUME NEW S, S \subseteq RuneSet, NEW f, NEW lines, [f EXCEPT !.lines = lines] \in FrameSet(S)
  PROVE  Placed(SetLines(f, lines), S) /\ CaretTrue(SetLines(f, lines))
  <1> DEFINE g == [f EXCEPT !.lines = lines]
             h == EnsureCursorVisible(g)
  <1>1. SetLines(f, lines) = h
    BY DEF SetLines
  <1> HIDE DEF g
  <1>2. Keeps(h, g, S) /\ InLine(h) /\ CursorIn(h)
    BY Ensured DEF g
  <1> HIDE DEF h
  <1>3. h \in Frames
    BY <1>2, SubFrames DEF Keeps, Placed
  <1>4. QED
    BY <1>1, <1>2, <1>3, CaretSeen DEF Keeps

\* The pane starts with its cursor at a place of its text.
LEMMA InitPlaced ==
  ASSUME Unbroken, Wide, Init
  PROVE  EditorInv
  <1> DEFINE S == PaneRunes
  <1>1. S \subseteq RuneSet
    BY PaneTyped
  <1>2. PICK size \in Sizes, lines \in Texts :
            frame = IF HasInput THEN ResetInput(Frame(size[1], size[2], "hard"))
                    ELSE MoveEnd(SetLines(Frame(size[1], size[2], WrapMode), lines))
    BY DEF Init
  <1> DEFINE h == size[1]
             w == size[2]
  <1>3. h \in Nat \ {0} /\ w \in Nat \ {0, 1}
    <2>1. size \in (Nat \ {0}) \X (Nat \ {0})
      BY EditorAssumption
    <2>2. size[2] > 1
      BY DEF Wide
    <2>3. QED
      BY <2>1, <2>2
  <1>4. lines \in Seq(LineSet(S)) \ {<<>>}
    BY PaneTexts
  <1> HIDE DEF S, h, w
  <1>5. CASE HasInput
    <2> DEFINE new == <<Line(<<>>)>>
               g == Frame(h, w, "hard")
               p == [Nowhere(g) EXCEPT !.lines = new]
    <2>1. new \in Seq(LineSet(S)) \ {<<>>}
      BY EmptyText
    <2>2. frame = p
      BY <1>2, <1>5 DEF ResetInput, h, w
    <2> HIDE DEF new
    <2>3. p \in FrameSet(S)
      BY <1>3, <2>1, NewFrame
    <2>4. p.line = 0 /\ p.col = 0
      BY DEF Nowhere, Frame
    <2> HIDE DEF p
    <2>5. QED
      BY <1>1, <2>2, <2>3, <2>4, StartPlaced DEF EditorInv, S
  <1>6. CASE ~HasInput
    <2> DEFINE g == Frame(h, w, WrapMode)
               p == SetLines(g, lines)
    <2>1. WrapMode \in {"off", "hard"}
      BY <1>6, EditorAssumption DEF Unbroken, WrapModes
    <2>2. [g EXCEPT !.lines = lines] \in FrameSet(S)
      BY <1>3, <1>4, <2>1, NewFrame
    <2>3. frame = MoveEnd(p)
      BY <1>2, <1>6 DEF h, w
    <2> HIDE DEF g
    <2>4. Placed(p, S)
      BY <1>1, <2>2, RefreshPlaced
    <2> HIDE DEF p
    <2>5. Keeps(MoveEnd(p), p, S)
      BY <1>1, <2>4, EndsKeep DEF Placed
    <2>6. QED
      BY <2>3, <2>5 DEF Keeps, EditorInv, S
  <1>7. QED
    BY <1>5, <1>6

\* Blanks for a tab
LEMMA TabRunes ==
  ASSUME NEW S, " " \in S, NEW m \in Nat
  PROVE  [i \in 1 .. m |-> " "] \in Seq(S)
  <1> DEFINE s == [i \in 1 .. m |-> " "]
  <1>1. s \in [1 .. m -> S] /\ DOMAIN s = 1 .. m
    OBVIOUS
  <1> HIDE DEF s
  <1>2. s \in Seq(S)
    BY <1>1, SeqDef
  <1>3. QED
    BY <1>2 DEF s

\* Every edit gives a frame.
LEMMA EditFrames ==
  ASSUME NEW f, Placed(f, PaneRunes)
  PROVE  /\ \A r \in Typed : InsertRune(f, r) \in FrameSet(PaneRunes)
         /\ InsertTab(f) \in FrameSet(PaneRunes) /\ InsertNewline(f) \in FrameSet(PaneRunes)
         /\ Backspace(f) \in FrameSet(PaneRunes) /\ DeleteForward(f) \in FrameSet(PaneRunes)
  <1> DEFINE S == PaneRunes
  <1>1. S \subseteq RuneSet /\ " " \in S /\ Typed \subseteq S
    BY PaneTyped
  <1> HIDE DEF S
  <1>2. f \in FrameSet(S) /\ Placed(f, S)
    BY DEF Placed, S
  <1>3. ASSUME NEW rs \in Seq(S) PROVE InsertRunes(f, rs) \in FrameSet(S)
    BY <1>1, <1>2, <1>3, InsertFrame DEF Wrote
  <1>4. ASSUME NEW r \in Typed PROVE InsertRune(f, r) \in FrameSet(S)
    <2>1. r \in S
      BY <1>1
    <2>2. <<r>> \in Seq(S)
      BY <2>1
    <2>3. QED
      BY <1>3, <2>2 DEF InsertRune
  <1>5. InsertTab(f) \in FrameSet(S)
    BY <1>1, <1>3, TabRunes, TabAssumption DEF InsertTab
  <1>6. InsertNewline(f) \in FrameSet(S)
    BY <1>1, <1>2, NewlineFrame DEF Broke
  <1>7. Backspace(f) \in FrameSet(S) /\ DeleteForward(f) \in FrameSet(S)
    BY <1>1, <1>2, BackspaceFrame, DeleteFrame
  <1>8. QED
    BY <1>4, <1>5, <1>6, <1>7 DEF S

\* A frame in whose text the cursor is sought shows it.
LEMMA EnsuredPlaced ==
  ASSUME NEW f \in FrameSet(PaneRunes)
  PROVE  Placed(EnsureCursorVisible(f), PaneRunes) /\ CaretTrue(EnsureCursorVisible(f))
  <1> DEFINE S == PaneRunes
             h == EnsureCursorVisible(f)
  <1>1. S \subseteq RuneSet
    BY PaneTyped
  <1>2. Keeps(h, f, S) /\ InLine(h) /\ CursorIn(h)
    BY <1>1, Ensured
  <1> HIDE DEF h, S
  <1>3. h \in Frames
    BY <1>1, <1>2, SubFrames DEF Keeps, Placed
  <1>4. QED
    BY <1>2, <1>3, CaretSeen DEF Keeps, h, S

\* Every step keeps the cursor at a place of the text.
LEMMA StepPlaced ==
  ASSUME Unbroken, EditorInv, [Next]_frame
  PROVE  EditorInv'
  <1> DEFINE S == PaneRunes
  <1>1. S \subseteq RuneSet /\ Placed(frame, S) /\ frame \in FrameSet(S)
    BY PaneTyped DEF EditorInv, Placed
  <1>2. S' = S
    BY DEF PaneRunes, Tabless, RuneSet
  <1>3. SUFFICES Placed(frame', S)
    BY <1>2 DEF EditorInv, Placed, FrameSet, LineSet, LastLine, Ends, Runes
  <1>4. ASSUME NEW k \in Keys, Move(k) PROVE Placed(frame', S)
    <2>1. Keeps(Moved(k, frame, ~HasInput), frame, S)
      BY <1>1, MovedKeeps
    <2>2. QED
      BY <1>4, <2>1 DEF Move, Keeps
  <1>5. ASSUME NEW f \in FrameSet(S), Edit(f) PROVE Placed(frame', S)
    BY <1>5, EnsuredPlaced DEF Edit
  <1>6. CASE Type
    <2>1. /\ \A r \in Typed : InsertRune(frame, r) \in FrameSet(S)
          /\ InsertTab(frame) \in FrameSet(S) /\ InsertNewline(frame) \in FrameSet(S)
      BY <1>1, EditFrames
    <2>2. QED
      BY <1>5, <1>6, <2>1 DEF Type
  <1>7. CASE Erase
    <2>1. Backspace(frame) \in FrameSet(S) /\ DeleteForward(frame) \in FrameSet(S)
      BY <1>1, EditFrames
    <2>2. QED
      BY <1>5, <1>7, <2>1 DEF Erase
  <1>8. CASE Replace
    <2>1. PICK lines \in Texts : frame' = SetLines(frame, lines)
      BY <1>8 DEF Replace
    <2>2. lines \in Seq(LineSet(S)) \ {<<>>}
      BY PaneTexts
    <2>3. [frame EXCEPT !.lines = lines] \in FrameSet(S)
      BY <1>1, <2>2, LinesFrame
    <2>4. QED
      BY <1>1, <2>1, <2>3, RefreshPlaced
  <1>9. CASE Reset
    <2> DEFINE new == <<Line(<<>>)>>
               p == [Nowhere(frame) EXCEPT !.lines = new]
    <2>1. new \in Seq(LineSet(S)) \ {<<>>}
      BY EmptyText
    <2>2. frame' = p
      BY <1>9 DEF Reset, ResetInput
    <2> HIDE DEF new
    <2>3. p \in FrameSet(S) /\ p.line = 0 /\ p.col = 0
      BY <1>1, <2>1 DEF FrameSet, Nowhere
    <2> HIDE DEF p
    <2>4. QED
      BY <1>1, <2>2, <2>3, StartPlaced
  <1>10. CASE UNCHANGED frame
    BY <1>1, <1>10
  <1>11. QED
    BY <1>4, <1>6, <1>7, <1>8, <1>9, <1>10 DEF Next

\* The cursor is always at a place of a text of the pane.
LEMMA EditorInvariant ==
  ASSUME Unbroken, Wide
  PROVE  Spec => []EditorInv
  <1>1. Init => EditorInv
    BY InitPlaced
  <1>2. EditorInv /\ [Next]_frame => EditorInv'
    BY StepPlaced
  <1>3. QED
    BY <1>1, <1>2, PTL DEF Spec

-----------------------------------------------------------------------------
(* Every column has a row, and the thumb of the scrollbar.               *)

\* The pane's frame is one of those the lemmas are about.
LEMMA PaneFrame ==
  ASSUME EditorInv
  PROVE  frame \in Frames /\ frame \in FrameSet(PaneRunes) /\ Placed(frame, PaneRunes)
  <1>1. PaneRunes \subseteq RuneSet
    BY PaneTyped
  <1>2. QED
    BY <1>1, SubFrames DEF EditorInv, Placed

\* One row shows each place.
LEMMA ColumnShown ==
  ASSUME EditorInv
  PROVE  EveryColumnHasARow
  <1> DEFINE f == frame
             rows == BuildDisplayLines(f)
  <1>1. f \in Frames
    BY PaneFrame
  <1> HIDE DEF f
  <1>2. Tiled(rows, 0, 0, LastLine(f), Ends(f))
    BY <1>1, FrameRows
  <1>3. /\ LastLine(f) \in Nat /\ DOMAIN Ends(f) = 0 .. LastLine(f)
        /\ \A m \in 0 .. LastLine(f) : /\ Ends(f)[m] \in Nat /\ Len(Runes(f, m)) \in Nat
                                       /\ Len(Runes(f, m)) <= Ends(f)[m]
    BY <1>1, FrameLines
  <1> HIDE DEF rows
  <1>4. ASSUME NEW n \in 0 .. LastLine(f), NEW col \in 0 .. Len(Runes(f, n))
        PROVE  Cardinality(RowsOf(rows, n, col)) = 1
    <2>1. col \in 0 .. Ends(f)[n]
      BY <1>3
    <2>2. PICK d \in 0 .. Len(rows) - 1 : /\ RowsOf(rows, n, col) = {d}
                                          /\ Min(RowsOf(rows, n, col)) = d
                                          /\ ShownBy(rows[d + 1], n, col)
      BY <1>2, <1>3, <2>1, OneRow
    <2>3. Cardinality({d}) = 1
      BY Zenon, FS_Singleton
    <2>4. QED
      BY <2>2, <2>3
  <1>5. QED
    BY <1>4 DEF EveryColumnHasARow, Rows, rows, f

\* A quotient is not more than what its dividend is at most a multiple of.
LEMMA QuotientIn ==
  ASSUME NEW a \in Nat, NEW r \in Nat \ {0}, NEW k \in Nat, a <= k * r
  PROVE  a \div r \in 0 .. k
  <1> DEFINE q == a \div r
             m == a % r
  <1>1. q \in Int /\ m \in 0 .. r - 1 /\ a = r * q + m
    BY SMT
  <1> HIDE DEF q, m
  <1>2. q >= 0
    <2> SUFFICES ASSUME q <= -1 PROVE FALSE
      BY <1>1
    <2>1. r * q <= r * (-1)
      BY <1>1
    <2>2. QED
      BY <1>1, <2>1
  <1>3. q <= k
    <2> SUFFICES ASSUME q >= k + 1 PROVE FALSE
      BY <1>1
    <2>1. r * q >= r * (k + 1)
      BY <1>1
    <2>2. r * (k + 1) = k * r + r
      OBVIOUS
    <2>3. QED
      BY <1>1, <2>1, <2>2
  <1>4. QED
    BY <1>1, <1>2, <1>3 DEF q

\* A quotient of a multiple
LEMMA QuotientOf ==
  ASSUME NEW r \in Nat \ {0}, NEW k \in Nat
  PROVE  (r * k) \div r = k /\ (0 * k) \div r = 0
  <1>1. r * k \in Nat /\ 0 * k = 0
    OBVIOUS
  <1> DEFINE a == r * k
             q == a \div r
             m == a % r
  <1>2. q \in Int /\ m \in 0 .. r - 1 /\ a = r * q + m
    BY <1>1, SMT
  <1>3. a = r * k
    OBVIOUS
  <1> HIDE DEF q, m, a
  <1>4. q = k
    <2>1. CASE q <= k - 1
      <3>1. r * q <= r * (k - 1)
        BY <1>2, <2>1
      <3>2. r * (k - 1) = r * k - r
        OBVIOUS
      <3>3. QED
        BY <1>2, <1>3, <3>1, <3>2
    <2>2. CASE q >= k + 1
      <3>1. r * q >= r * (k + 1)
        BY <1>2, <2>2
      <3>2. r * (k + 1) = r * k + r
        OBVIOUS
      <3>3. QED
        BY <1>2, <1>3, <3>1, <3>2
    <2>3. QED
      BY <1>2, <2>1, <2>2
  <1>5. QED
    BY <1>1, <1>4 DEF q, a

\* A quotient of less than a multiple
LEMMA QuotientBelow ==
  ASSUME NEW r \in Nat \ {0}, NEW k \in Nat, NEW a \in Nat, a < r * k
  PROVE  a \div r # k
  <1> DEFINE q == a \div r
             m == a % r
  <1>1. q \in Int /\ m \in 0 .. r - 1 /\ a = r * q + m
    BY SMT
  <1> HIDE DEF q, m
  <1>2. q # k
    BY <1>1
  <1>3. QED
    BY <1>2 DEF q

\* Where the thumb of a scrollbar is: it is first at the top, last, where the track has
\* rows to move in, exactly at the end, and at the end of a track of one row outside it.
LEMMA ThumbPlace ==
  ASSUME NEW total \in Nat, NEW height \in Nat \ {0}, NEW offset \in Nat, total > height
  PROVE  LET sb    == ComputeScrollbar(total, height, offset)
             first == IF sb.arrows THEN 1 ELSE 0
             last  == height - (IF sb.arrows THEN 2 ELSE 1)
         IN  /\ offset = 0 => sb.thumb = first
             /\ first < last => (sb.thumb = last <=> offset >= total - height)
             /\ ThumbRows(sb, height) = {} <=> (first = last /\ offset >= total - height)
  <1> DEFINE range  == Max({total - height, 1})
             arrows == height >= 3
             k      == IF arrows THEN height - 3 ELSE height - 1
             steps  == Max({k, 1})
             off    == Clamp(offset, 0, range)
             pos    == (off * steps) \div range
             first  == IF arrows THEN 1 ELSE 0
             last   == height - (IF arrows THEN 2 ELSE 1)
             sb     == ComputeScrollbar(total, height, offset)
  <1>1. \A a, b \in Int : Max({a, b}) = IF a >= b THEN a ELSE b
    BY DEF Max
  <1>2. range = total - height /\ range \in Nat \ {0}
    <2>1. total - height \in Int /\ total - height >= 1
      OBVIOUS
    <2>2. QED
      BY <1>1, <2>1
  <1>3. k \in Nat /\ last = first + k /\ first \in {0, 1}
    OBVIOUS
  <1>4. sb.thumb = first + pos /\ sb.arrows = arrows
    <2>1. sb.thumb = (IF arrows THEN 1 + pos ELSE pos) /\ sb.arrows = arrows
      BY DEF ComputeScrollbar
    <2> HIDE DEF pos, sb
    <2>2. pos \in Int => (IF arrows THEN 1 + pos ELSE pos) = first + pos
      BY DEF first
    <2>3. pos \in Int
      <3>1. off \in Int /\ steps \in Int
        BY <1>1, <1>2, <1>3 DEF Clamp
      <3>2. off * steps \in Int
        BY <3>1
      <3> HIDE DEF off, steps
      <3>3. QED
        BY <1>2, <3>2 DEF pos
    <2>4. QED
      BY <2>1, <2>2, <2>3
  <1> HIDE DEF k
  <1>5. steps = (IF k >= 1 THEN k ELSE 1) /\ steps \in Nat \ {0}
    BY <1>1, <1>3
  <1> HIDE DEF range, steps, sb
  <1>6. /\ off \in 0 .. range
        /\ offset = 0 => off = 0
        /\ off = range <=> offset >= total - height
    BY <1>2 DEF Clamp
  <1> HIDE DEF off
  <1>7. pos \in 0 .. steps
    <2> DEFINE a == off * steps
    <2>1. a \in Nat /\ a <= steps * range
      BY <1>2, <1>5, <1>6
    <2> HIDE DEF a
    <2>2. a \div range \in 0 .. steps
      BY <1>2, <1>5, <2>1, QuotientIn
    <2>3. QED
      BY <2>2 DEF a
  <1>8. off = 0 => pos = 0
    BY <1>2, <1>5, QuotientOf
  <1>9. pos = steps <=> off = range
    <2>1. CASE off = range
      BY <1>2, <1>5, <2>1, QuotientOf
    <2>2. CASE off # range
      <3> DEFINE a == off * steps
      <3>1. a \in Nat /\ a < range * steps
        BY <1>2, <1>5, <1>6, <2>2
      <3> HIDE DEF a
      <3>2. a \div range # steps
        BY <1>2, <1>5, <3>1, QuotientBelow
      <3>3. QED
        BY <2>2, <3>2 DEF a
    <2>3. QED
      BY <2>1, <2>2
  <1> HIDE DEF pos, first, last
  <1>10. /\ offset = 0 => sb.thumb = first
         /\ first < last => (sb.thumb = last <=> offset >= total - height)
    BY <1>3, <1>4, <1>5, <1>6, <1>7, <1>8, <1>9
  <1>11. sb.thumb \in first .. last <=> ~(first = last /\ offset >= total - height)
    BY <1>3, <1>4, <1>5, <1>6, <1>7, <1>9
  <1>12. ThumbRows(sb, height) = {sb.thumb} \cap (first .. last)
    BY <1>4 DEF ThumbRows, first, last
  <1>13. QED
    BY <1>4, <1>10, <1>11, <1>12 DEF sb, first, last

\* The scrollbar of the pane
LEMMA ThumbSeen ==
  ASSUME EditorInv
  PROVE  ThumbShown
  <1> DEFINE f == frame
             rows == BuildDisplayLines(f)
             total == Len(rows)
             height == f.height
             offset == f.scroll
             sb == ComputeScrollbar(total, height, offset)
             first == IF sb.arrows THEN 1 ELSE 0
             last == height - (IF sb.arrows THEN 2 ELSE 1)
             end == offset >= MaxScroll(f, rows)
  <1>1. f \in Frames
    BY PaneFrame
  <1> HIDE DEF f
  <1>2. total \in Nat /\ height \in Nat \ {0} /\ offset \in Nat
    <2>1. total \in Nat
      BY <1>1, FrameRows
    <2>2. QED
      BY <1>1, <2>1 DEF Frames, FrameSet
  <1>3. sb.bar = (total > height)
    BY DEF ComputeScrollbar
  <1>4. total > height => MaxScroll(f, rows) = total - height
    BY <1>2 DEF MaxScroll
  <1> HIDE DEF rows, total, height, offset
  <1>5. ASSUME sb.bar
        PROVE  /\ offset = 0 => sb.thumb = first
               /\ first < last => (sb.thumb = last <=> end)
               /\ ThumbRows(sb, height) = {} <=> (first = last /\ end)
    <2>1. total > height
      BY <1>3, <1>5
    <2>2. /\ offset = 0 => sb.thumb = first
          /\ first < last => (sb.thumb = last <=> offset >= total - height)
          /\ ThumbRows(sb, height) = {} <=> (first = last /\ offset >= total - height)
      BY <1>2, <2>1, ThumbPlace
    <2>3. end <=> offset >= total - height
      BY <1>4, <2>1
    <2>4. QED
      BY <2>2, <2>3
  <1>6. QED
    BY <1>5 DEF ThumbShown, Rows, rows, total, height, offset, f, first, last, end

-----------------------------------------------------------------------------
(* The up key, twice.                                                    *)

\* The row of the cursor, and the column in the window
RowAt(f) == CursorDisplayPos(f, BuildDisplayLines(f)).row
XAt(f)   == CursorDisplayPos(f, BuildDisplayLines(f)).x

\* The up key
Up(f) == EnsureCursorVisible(MoveCursorUp(f))

\* What a frame says of its cursor
LEMMA CursorSaid ==
  ASSUME NEW f \in Frames
  PROVE  LET rows == BuildDisplayLines(f)
         IN  /\ RowAt(f) \in 0 .. Len(rows) - 1 /\ RowAt(f) + 1 \in 1 .. Len(rows) /\ RowAt(f) \in Nat
             /\ RowsOf(rows, NearLine(f), NearCol(f)) = {RowAt(f)}
             /\ ShownBy(rows[RowAt(f) + 1], NearLine(f), NearCol(f))
             /\ XAt(f) = NearCol(f) - rows[RowAt(f) + 1].start
             /\ XAt(f) \in Nat /\ Len(rows) \in Nat \ {0}
             /\ InLine(f) => NearLine(f) = f.line /\ NearCol(f) = f.col
  <1> DEFINE rows == BuildDisplayLines(f)
             pos == CursorDisplayPos(f, rows)
  <1>1. /\ pos.row \in 0 .. Len(rows) - 1 /\ pos.row + 1 \in 1 .. Len(rows)
        /\ RowsOf(rows, NearLine(f), NearCol(f)) = {pos.row}
        /\ ShownBy(rows[pos.row + 1], NearLine(f), NearCol(f))
        /\ pos.x = NearCol(f) - rows[pos.row + 1].start
        /\ pos.x \in 0 .. rows[pos.row + 1].len
    BY CursorFound
  <1>2. Len(rows) \in Nat \ {0}
    BY FrameRows
  <1>3. rows[pos.row + 1].len \in Nat
    BY <1>1, RowPlace
  <1>4. RowAt(f) = pos.row /\ XAt(f) = pos.x
    BY DEF RowAt, XAt
  <1>5. InLine(f) => NearLine(f) = f.line /\ NearCol(f) = f.col
    BY NearPlace DEF InLine
  <1> HIDE DEF rows, pos
  <1>6. pos.row \in Nat /\ pos.x \in Nat
    BY <1>1, <1>2, <1>3
  <1>7. QED
    BY <1>1, <1>2, <1>4, <1>5, <1>6 DEF rows

\* A row that continues shows its first column, and a row shows its end unless it continues.
LEMMA RowShows ==
  ASSUME NEW f \in Frames, NEW d \in 1 .. Len(BuildDisplayLines(f)) - 1,
         NEW c \in Nat
  PROVE  LET rows == BuildDisplayLines(f)
             r == rows[d]
         IN  /\ r.continues => r.len > 0
             /\ r.start <= c /\ c <= r.start + r.len /\ (r.continues => c < r.start + r.len) =>
                   d - 1 \in RowsOf(rows, r.line, c)
  <1> DEFINE rows == BuildDisplayLines(f)
             r == rows[d]
  <1>1. Chained(rows, Ends(f)) /\ Len(rows) \in Nat
    BY FrameRows
  <1>2. d \in Nat /\ d \in 1 .. Len(rows)
    BY <1>1
  <1>3. r.start \in Nat /\ r.len \in Nat
    BY <1>2, RowPlace
  <1>4. d \in 1 .. Len(rows) - 1
    OBVIOUS
  <1> HIDE DEF rows
  <1>5. Follows(rows[d], rows[d + 1])
    BY <1>1, <1>4 DEF Chained
  <1>6. r.continues => r.len > 0
    BY <1>5 DEF Follows
  <1>7. ASSUME r.start <= c, c <= r.start + r.len, r.continues => c < r.start + r.len
        PROVE  d - 1 \in RowsOf(rows, r.line, c)
    <2>1. d - 1 \in Int /\ (d - 1) + 1 = d
      BY <1>2
    <2>2. ShownBy(r, r.line, c)
      <3>1. c >= r.start
        BY <1>3, <1>7
      <3>2. c < r.start + r.len \/ (~r.continues /\ c = r.start + r.len)
        BY <1>3, <1>7
      <3>3. QED
        BY <3>1, <3>2 DEF ShownBy
    <2>3. ShownBy(rows[(d - 1) + 1], r.line, c)
      BY <2>1, <2>2
    <2>4. (d - 1) + 1 \in 1 .. Len(rows)
      BY <1>2, <2>1
    <2> HIDE DEF r
    <2>5. QED
      BY <1>1, <2>1, <2>3, <2>4, RowsOfShown
  <1>8. QED
    BY <1>6, <1>7 DEF rows

\* Where the up key takes the cursor
LEMMA UpPlace ==
  ASSUME NEW S, S \subseteq RuneSet, NEW f \in FrameSet(S), RowAt(f) > 0
  PROVE  LET rows == BuildDisplayLines(f)
             r == rows[RowAt(f)]
             c == r.start + Clamp(XAt(f), 0, r.len)
             h == Up(f)
         IN  /\ Keeps(h, f, S) /\ InLine(h) /\ h.line = r.line /\ h.col <= c /\ h.col \in Nat
  <1> DEFINE rows == BuildDisplayLines(f)
             d == RowAt(f)
             x == XAt(f)
             i == d - 1
             g == DisplayIndexToCursor(f, rows, i, x)
             r == rows[Clamp(i, 0, Len(rows) - 1) + 1]
             h == EnsureCursorVisible(g)
  <1>1. f \in Frames
    BY SubFrames
  <1>2. d \in 0 .. Len(rows) - 1 /\ x \in Nat /\ Len(rows) \in Nat \ {0}
    BY <1>1, CursorSaid
  <1>3. d + -1 = i /\ i \in 0 .. Len(rows) - 1 /\ i \in Int /\ x \in Int /\ i + 1 = d
        /\ Clamp(i, 0, Len(rows) - 1) = i
    <2>1. d + -1 = i /\ i \in 0 .. Len(rows) - 1 /\ i \in Int /\ x \in Int /\ i + 1 = d
      BY <1>2
    <2> HIDE DEF rows, i
    <2>2. Len(rows) - 1 \in Int /\ 0 <= Len(rows) - 1
      BY <1>2
    <2> DEFINE l == Len(rows) - 1
    <2> HIDE DEF l
    <2>3. i \in Int /\ l \in Int /\ 0 <= l /\ i \in 0 .. l
      BY <2>1, <2>2 DEF l
    <2>4. Clamp(i, 0, l) = i
      BY <2>3, ClampIn
    <2>5. QED
      BY <2>1, <2>4 DEF l
  <1>4. MoveCursorUp(f) = g
    BY <1>3 DEF MoveCursorUp, InRows, RowStep, RowsAway, RowAt, XAt
  <1>5. Keeps(g, f, S) /\ g.line = r.line /\ g.col = r.start + Clamp(x, 0, r.len)
    BY <1>3, RowCursor
  <1> HIDE DEF g
  <1>6. g \in FrameSet(S) /\ g \in Frames /\ g.line \in 0 .. LastLine(g) /\ g.col \in Nat
    <2>1. g \in FrameSet(S) /\ g.line \in 0 .. LastLine(g)
      BY <1>5 DEF Keeps, Placed
    <2>2. QED
      BY <2>1, SubFrames DEF FrameSet
  <1>7. Keeps(h, g, S) /\ InLine(h) /\ h.line = NearLine(g) /\ h.col = NearCol(g)
    BY <1>6, Ensured
  <1>8. Keeps(h, f, S)
    BY <1>5, <1>7, KeepsTwice
  <1>9. NearLine(g) = g.line
    BY <1>6, NearPlace
  <1>10. NearCol(g) <= g.col /\ NearCol(g) \in Nat
    <2>1. Len(Runes(g, NearLine(g))) \in Nat
      BY <1>6, NearPlace, RunesIn
    <2>2. QED
      BY <1>6, <2>1 DEF NearCol, Clamp
  <1>11. r = rows[d]
    BY <1>3
  <1> HIDE DEF r, h, rows, d, x
  <1>12. h.line = rows[d].line /\ h.col <= rows[d].start + Clamp(x, 0, rows[d].len)
    BY <1>5, <1>7, <1>9, <1>10, <1>11
  <1>13. h.col \in Nat
    BY <1>7, <1>10
  <1>14. h = Up(f)
    BY <1>4 DEF h, Up
  <1>15. QED
    BY <1>7, <1>8, <1>12, <1>13, <1>14 DEF rows, d, x

\* The up key takes the cursor to a higher row, or to the start of its row; from there
\* to a higher row.
LEMMA UpRow ==
  ASSUME NEW S, S \subseteq RuneSet, NEW f \in FrameSet(S), RowAt(f) > 0
  PROVE  /\ RowAt(Up(f)) < RowAt(f) \/ (RowAt(Up(f)) = RowAt(f) /\ XAt(Up(f)) = 0)
         /\ XAt(f) = 0 => RowAt(Up(f)) < RowAt(f)
  <1> DEFINE rows == BuildDisplayLines(f)
             d == RowAt(f)
             x == XAt(f)
             r == rows[d]
             c == r.start + Clamp(x, 0, r.len)
             h == Up(f)
             e == RowAt(h)
             b == h.col
             n == r.line
  <1>1. f \in Frames
    BY SubFrames
  <1>2. d \in 0 .. Len(rows) - 1 /\ x \in Nat /\ Len(rows) \in Nat \ {0}
    BY <1>1, CursorSaid
  <1>3. d \in 1 .. Len(rows) - 1 /\ d \in 1 .. Len(rows) /\ d + 1 \in 1 .. Len(rows)
    BY <1>2
  <1>4. Keeps(h, f, S) /\ InLine(h) /\ h.line = n /\ b <= c /\ b \in Nat
    BY UpPlace
  <1> HIDE DEF h
  <1>5. h \in Frames /\ BuildDisplayLines(h) = rows
    <2>1. h \in FrameSet(S) /\ Like(h, f)
      BY <1>4 DEF Keeps, Placed
    <2>2. QED
      BY <2>1, SubFrames, LikeRows
  <1>6. /\ e \in 0 .. Len(rows) - 1 /\ e + 1 \in 1 .. Len(rows) /\ e \in Nat
        /\ RowsOf(rows, n, b) = {e} /\ ShownBy(rows[e + 1], n, b)
        /\ XAt(h) = b - rows[e + 1].start
    <2>1. NearLine(h) = n /\ NearCol(h) = b
      BY <1>4, <1>5, CursorSaid
    <2>2. /\ e \in 0 .. Len(rows) - 1 /\ e + 1 \in 1 .. Len(rows) /\ e \in Nat
          /\ RowsOf(rows, NearLine(h), NearCol(h)) = {e}
          /\ ShownBy(rows[e + 1], NearLine(h), NearCol(h))
          /\ XAt(h) = NearCol(h) - rows[e + 1].start
      <3> HIDE DEF rows, n, b
      <3>1. QED
        BY <1>5, CursorSaid
    <2>3. QED
      BY <2>1, <2>2
  <1>7. Chained(rows, Ends(f))
    BY <1>1, FrameRows
  <1>8. /\ r.line \in Nat /\ r.start \in Nat /\ r.len \in Nat /\ r.continues \in BOOLEAN
    BY <1>1, <1>3, RowPlace
  <1>9. \A k \in Nat : /\ r.continues => r.len > 0
                       /\ r.start <= k /\ k <= r.start + r.len
                          /\ (r.continues => k < r.start + r.len) => d - 1 \in RowsOf(rows, n, k)
    BY <1>1, <1>3, RowShows
  <1>10. c \in Nat /\ r.start <= c /\ c <= r.start + r.len /\ (x = 0 => c = r.start)
    <2> HIDE DEF r, x
    <2>1. QED
      BY <1>2, <1>8 DEF Clamp
  <1>11. ASSUME NEW k \in Nat, b <= k, d - 1 \in RowsOf(rows, n, k)
         PROVE  e <= d - 1
    <2>1. e \in RowsOf(rows, n, b)
      BY <1>6
    <2>2. b \in Int /\ k \in Int
      BY <1>4
    <2> HIDE DEF rows, d, e, b, n
    <2>3. QED
      BY <1>7, <1>11, <2>1, <2>2, EarlierRow
  <1>12. Follows(r, rows[d + 1])
    BY <1>3, <1>7 DEF Chained
  <1> DEFINE s == rows[d + 1]
             u == rows[e + 1]
  <1>13. /\ s.line \in Nat /\ s.start \in Nat /\ s.len \in Nat /\ s.continues \in BOOLEAN
         /\ u.line \in Nat /\ u.start \in Nat /\ u.len \in Nat
    BY <1>1, <1>3, <1>6, RowPlace
  <1>14. ASSUME r.continues, c = r.start + r.len, b = c, e > d PROVE FALSE
    <2>1. d + 1 \in 1 .. Len(rows) - 1 /\ e + 1 \in (d + 1) + 1 .. Len(rows)
      BY <1>2, <1>3, <1>6, <1>14
    <2>2. Later(s, u)
      <3> HIDE DEF rows, d, e
      <3>1. QED
        BY <1>3, <1>7, <2>1, RowsOrdered
    <2>3. s.continues => s.len > 0
      <3>1. Follows(rows[d + 1], rows[(d + 1) + 1])
        BY <1>7, <2>1 DEF Chained
      <3>2. QED
        BY <3>1 DEF Follows
    <2>4. s.line = n /\ s.start = c
      BY <1>12, <1>14 DEF Follows
    <2>5. u.line = n /\ b >= u.start
      BY <1>6 DEF ShownBy
    <2> HIDE DEF s, u, n, b, c
    <2>6. QED
      BY <1>4, <1>10, <1>13, <1>14, <2>2, <2>3, <2>4, <2>5 DEF Later
  <1> HIDE DEF r, s, u
  <1>15. (r.continues => c < r.start + r.len) => e <= d - 1
    BY <1>4, <1>9, <1>10, <1>11
  <1>16. x = 0 => e <= d - 1
    BY <1>8, <1>9, <1>10, <1>15
  <1>17. ASSUME r.continues, ~(c < r.start + r.len)
         PROVE  e <= d - 1 \/ (e = d /\ XAt(h) = 0)
    <2>1. c = r.start + r.len /\ r.len > 0
      BY <1>8, <1>9, <1>10, <1>17
    <2>2. CASE b < c
      <3>1. c - 1 \in Nat /\ b <= c - 1 /\ r.start <= c - 1 /\ c - 1 < r.start + r.len
            /\ c - 1 <= r.start + r.len
        BY <1>4, <1>8, <1>10, <2>1, <2>2
      <3>2. d - 1 \in RowsOf(rows, n, c - 1)
        BY <1>9, <3>1
      <3>3. QED
        BY <1>11, <3>1, <3>2
    <2>3. CASE ~(b < c)
      <3>1. b = c
        BY <1>4, <1>10, <2>3
      <3>2. ~(e > d)
        BY <1>14, <1>17, <2>1, <3>1
      <3>3. CASE e = d
        <4>1. u = s /\ s.start = c
          BY <1>12, <1>17, <2>1, <3>3 DEF Follows, s, u
        <4>2. XAt(h) = b - u.start
          BY <1>6 DEF u
        <4>3. QED
          BY <1>10, <3>1, <3>3, <4>1, <4>2
      <3>4. CASE e # d
        BY <1>2, <1>6, <3>2, <3>4
      <3>5. QED
        BY <3>3, <3>4
    <2>4. QED
      BY <2>2, <2>3
  <1>18. e <= d - 1 \/ (e = d /\ XAt(h) = 0)
    BY <1>15, <1>17
  <1>19. \A k, j \in Nat : k <= j - 1 => k < j
    OBVIOUS
  <1>20. e \in Nat /\ d \in Nat
    BY <1>2, <1>6
  <1>21. QED
    BY <1>16, <1>18, <1>19, <1>20 DEF h

\* Bringing the cursor into view leaves it in its row.
LEMMA EnsuredRow ==
  ASSUME NEW S, S \subseteq RuneSet, NEW f \in FrameSet(S)
  PROVE  RowAt(EnsureCursorVisible(f)) = RowAt(f)
  <1> DEFINE g == EnsureCursorVisible(f)
             rows == BuildDisplayLines(f)
             n == NearLine(f)
             c == NearCol(f)
  <1>1. Keeps(g, f, S) /\ InLine(g) /\ g.line = n /\ g.col = c
    BY Ensured
  <1> HIDE DEF g
  <1>2. f \in Frames /\ g \in Frames /\ BuildDisplayLines(g) = rows
    <2>1. g \in FrameSet(S) /\ Like(g, f)
      BY <1>1 DEF Keeps, Placed
    <2>2. QED
      BY <2>1, SubFrames, LikeRows
  <1>3. RowsOf(rows, n, c) = {RowAt(f)}
    BY <1>2, CursorSaid
  <1>4. RowsOf(rows, n, c) = {RowAt(g)}
    <2>1. NearLine(g) = n /\ NearCol(g) = c
      BY <1>1, <1>2, CursorSaid
    <2>2. RowsOf(BuildDisplayLines(g), NearLine(g), NearCol(g)) = {RowAt(g)}
      BY <1>2, CursorSaid
    <2>3. QED
      BY <1>2, <2>1, <2>2
  <1>5. RowAt(g) = RowAt(f)
    BY <1>3, <1>4
  <1>6. QED
    BY <1>5 DEF g

\* The up key does not leave the top.
LEMMA UpTop ==
  ASSUME NEW S, S \subseteq RuneSet, NEW f \in FrameSet(S), RowAt(f) = 0
  PROVE  RowAt(Up(f)) = 0 /\ Keeps(Up(f), f, S)
  <1>1. MoveCursorUp(f) = f
    BY DEF MoveCursorUp, InRows, RowStep, RowAt
  <1>2. Up(f) = EnsureCursorVisible(f)
    BY <1>1 DEF Up
  <1>3. QED
    BY <1>2, EnsuredRow, Ensured

\* Two presses of the up key
LEMMA UpTwice ==
  ASSUME EditorInv
  PROVE  UpReachesTheTop
  <1> DEFINE f == frame
             S == PaneRunes
             g == Up(f)
             h == Up(g)
  <1>1. S \subseteq RuneSet /\ f \in FrameSet(S) /\ f \in Frames
    BY PaneTyped, PaneFrame
  <1>2. Moved("up", Moved("up", f, TRUE), TRUE) = h
    BY DEF Moved, Up
  <1> HIDE DEF f, S, g, h
  <1>3. SUFFICES ASSUME RowAt(f) > 0
                 PROVE  CursorDisplayPos(h, BuildDisplayLines(f)).row < RowAt(f)
    BY <1>2 DEF UpReachesTheTop, CursorRow, Rows, RowAt, f
  <1>4. Keeps(g, f, S)
    BY <1>1, <1>3, UpPlace DEF g
  <1>5. g \in FrameSet(S) /\ g \in Frames
    BY <1>1, <1>4, SubFrames DEF Keeps, Placed
  <1>6. RowAt(f) \in Nat /\ RowAt(g) \in Nat
    BY <1>1, <1>5, CursorSaid
  <1>7. RowAt(g) < RowAt(f) \/ (RowAt(g) = RowAt(f) /\ XAt(g) = 0)
    BY <1>1, <1>3, UpRow DEF g
  <1>8. CASE RowAt(g) > 0
    <2>1. Keeps(h, g, S)
      BY <1>1, <1>5, <1>8, UpPlace DEF h
    <2>2. RowAt(h) < RowAt(g) \/ RowAt(h) = RowAt(g)
      BY <1>1, <1>5, <1>8, UpRow DEF h
    <2>3. XAt(g) = 0 => RowAt(h) < RowAt(g)
      BY <1>1, <1>5, <1>8, UpRow DEF h
    <2>4. h \in Frames
      BY <1>1, <2>1, SubFrames DEF Keeps, Placed
    <2>5. RowAt(h) \in Nat
      BY <2>4, CursorSaid
    <2>6. RowAt(h) < RowAt(f)
      BY <1>6, <1>7, <2>2, <2>3, <2>5
    <2>7. BuildDisplayLines(h) = BuildDisplayLines(f)
      BY <1>4, <2>1, KeepsTwice, LikeRows DEF Keeps
    <2>8. QED
      BY <2>6, <2>7 DEF RowAt
  <1>9. CASE ~(RowAt(g) > 0)
    <2>1. RowAt(g) = 0
      BY <1>6, <1>9
    <2>2. RowAt(h) = 0 /\ Keeps(h, g, S)
      BY <1>1, <1>5, <2>1, UpTop DEF h
    <2>3. BuildDisplayLines(h) = BuildDisplayLines(f)
      BY <1>4, <2>2, KeepsTwice, LikeRows DEF Keeps
    <2>4. QED
      BY <1>3, <2>2, <2>3 DEF RowAt
  <1>10. QED
    BY <1>8, <1>9

\* The home key shows the start of the text.
LEMMA HomeSeen ==
  ASSUME NEW S, S \subseteq RuneSet, NEW f \in FrameSet(S)
  PROVE  CaretTrue(MoveHome(f))
  <1> DEFINE g == MoveHome(f)
             rows == BuildDisplayLines(g)
             r == rows[1]
  <1>1. Sited(g, f, S, 0, 0, 0) /\ InLine(g)
    BY EndsKeep
  <1> HIDE DEF g
  <1>2. g \in Frames /\ g.line = 0 /\ g.col = 0 /\ g.scroll = 0
    BY <1>1, SubFrames DEF Sited
  <1>3. Tiled(rows, 0, 0, LastLine(g), Ends(g)) /\ Len(rows) \in Nat \ {0}
    BY <1>2, FrameRows
  <1>4. 1 \in 1 .. Len(rows)
    BY <1>3
  <1>5. r.len \in Nat /\ r.line = 0 /\ r.start = 0 /\ r.continues \in BOOLEAN
    BY <1>2, <1>3, <1>4, RowPlace DEF Tiled
  <1>6. r.continues => r.len > 0
    <2>1. CASE Len(rows) = 1
      BY <1>3, <2>1 DEF Tiled
    <2>2. CASE Len(rows) # 1
      <3>1. 1 \in 1 .. Len(rows) - 1 /\ 0 \in Nat
        BY <1>3, <2>2
      <3>2. QED
        BY <1>2, <3>1, RowShows
    <2>3. QED
      BY <2>1, <2>2
  <1>7. 0 \in RowsOf(rows, 0, 0)
    <2>1. ShownBy(r, 0, 0)
      BY <1>5, <1>6 DEF ShownBy
    <2> HIDE DEF rows
    <2>2. Len(rows) \in Nat /\ 0 \in Int /\ 0 + 1 = 1
      BY <1>3
    <2>3. ShownBy(rows[0 + 1], 0, 0) /\ 0 + 1 \in 1 .. Len(rows)
      BY <1>4, <2>1, <2>2
    <2>4. QED
      BY <2>2, <2>3, RowsOfShown
  <1>8. RowsOf(rows, 0, 0) = {RowAt(g)}
    BY <1>1, <1>2, CursorSaid
  <1>9. RowAt(g) = 0
    BY <1>7, <1>8
  <1>10. g.height \in Nat \ {0}
    BY <1>2 DEF Frames, FrameSet
  <1>11. CursorIn(g)
    BY <1>2, <1>9, <1>10 DEF CursorIn, RowAt
  <1>12. CaretTrue(g)
    BY <1>1, <1>2, <1>11, CaretSeen
  <1>13. QED
    BY <1>12 DEF g

\* The end key shows the end of a text without tabs.
LEMMA EndSeen ==
  ASSUME NEW S, S \subseteq RuneSet, "\t" \notin S, NEW f \in FrameSet(S)
  PROVE  CaretTrue(MoveEnd(f))
  <1> DEFINE g == MoveEnd(f)
             rows == BuildDisplayLines(g)
             l == Len(rows)
             r == rows[l]
             n == LastLine(g)
             c == Len(Runes(g, n))
             ms == MaxScroll(g, rows)
  <1>1. /\ Sited(g, f, S, LastLine(f), Len(Runes(f, LastLine(f))), MaxScroll(f, BuildDisplayLines(f)))
        /\ InLine(g)
    BY EndsKeep
  <1> HIDE DEF g
  <1>2. g \in FrameSet(S) /\ g \in Frames /\ Like(g, f)
    BY <1>1, SubFrames DEF Sited
  <1>3. g.line = n /\ g.col = c /\ g.scroll = ms
    <2>1. LastLine(g) = LastLine(f) /\ Runes(g, LastLine(f)) = Runes(f, LastLine(f))
          /\ BuildDisplayLines(g) = BuildDisplayLines(f) /\ g.height = f.height
      BY <1>2, LikeRows DEF Like
    <2>2. MaxScroll(g, rows) = MaxScroll(f, BuildDisplayLines(f))
      BY <2>1 DEF MaxScroll
    <2>3. QED
      BY <1>1, <2>1, <2>2 DEF Sited
  <1>4. /\ Tiled(rows, 0, 0, n, Ends(g)) /\ l \in Nat \ {0} /\ ms \in Nat /\ ms <= l
        /\ l <= ms + g.height
    BY <1>2, FrameRows
  <1>5. l \in 1 .. l
    BY <1>4
  <1>6. r.len \in Nat /\ r.start \in Nat /\ r.line = n /\ ~r.continues
    BY <1>2, <1>4, <1>5, RowPlace DEF Tiled
  <1>7. n \in 0 .. n /\ n \in Nat
    <2>1. n \in Nat
      BY <1>2, FrameLines
    <2>2. QED
      BY <2>1
  <1>8. Ends(g)[n] = c /\ c \in Nat
    BY <1>2, <1>7, NoTabs, RunesIn
  <1> HIDE DEF n
  <1>9. r.start + r.len = c
    <2>1. Within(r, Ends(g))
      BY <1>4, <1>5 DEF Tiled, Chained
    <2>2. QED
      BY <1>6, <1>8, <2>1 DEF Within
  <1>10. l - 1 \in RowsOf(rows, n, c)
    <2>1. ShownBy(r, n, c)
      BY <1>6, <1>8, <1>9 DEF ShownBy
    <2> HIDE DEF rows
    <2>2. Len(rows) \in Nat /\ l - 1 \in Int /\ (l - 1) + 1 = l
      BY <1>4
    <2>3. ShownBy(rows[(l - 1) + 1], n, c) /\ (l - 1) + 1 \in 1 .. Len(rows)
      BY <1>5, <2>1, <2>2
    <2> HIDE DEF r, c, l
    <2>4. QED
      BY <2>2, <2>3, RowsOfShown
  <1>11. RowsOf(rows, n, c) = {RowAt(g)}
    <2>1. RowsOf(rows, NearLine(g), NearCol(g)) = {RowAt(g)}
          /\ NearLine(g) = g.line /\ NearCol(g) = g.col
      BY <1>1, <1>2, CursorSaid
    <2>2. QED
      BY <1>3, <2>1
  <1>12. RowAt(g) = l - 1
    BY <1>10, <1>11
  <1>13. g.height \in Nat \ {0}
    BY <1>2 DEF Frames, FrameSet
  <1> HIDE DEF l, ms
  <1>14. g.scroll <= RowAt(g) /\ RowAt(g) < g.scroll + g.height
    <2>1. ms = 0 \/ ms = l - g.height
      <3>1. ms = IF l < g.height THEN 0 ELSE l - g.height
        BY DEF MaxScroll, ms, l
      <3>2. QED
        BY <3>1
    <2>2. QED
      BY <1>3, <1>4, <1>12, <1>13, <2>1
  <1>15. CursorIn(g)
    BY <1>14 DEF CursorIn, RowAt
  <1>16. CaretTrue(g)
    BY <1>1, <1>2, <1>15, CaretSeen
  <1>17. QED
    BY <1>16 DEF g

\* The caret is drawn where the cursor is.
LEMMA CursorSeen ==
  ASSUME Unbroken, Tabless, EditorInv
  PROVE  KeysShowTheCursor
  <1> DEFINE f == frame
             S == PaneRunes
             b == ~HasInput
  <1>1. S \subseteq RuneSet /\ f \in FrameSet(S) /\ Placed(f, S)
    BY PaneTyped, PaneFrame
  <1>2. "\t" \notin S
    BY DEF PaneRunes
  <1>3. ASSUME NEW lines \in Texts PROVE CaretTrue(SetLines(f, lines))
    <2>1. lines \in Seq(LineSet(S)) \ {<<>>}
      BY PaneTexts
    <2> HIDE DEF S, f
    <2>2. [f EXCEPT !.lines = lines] \in FrameSet(S)
      BY <1>1, <2>1, LinesFrame
    <2>3. QED
      BY <1>1, <2>2, RefreshPlaced
  <1>4. ASSUME NEW g \in {InsertNewline(f), InsertTab(f), Backspace(f), DeleteForward(f)}
        PROVE  CaretTrue(EnsureCursorVisible(g))
    <2>1. g \in FrameSet(S)
      BY <1>1, EditFrames
    <2>2. QED
      BY <2>1, EnsuredPlaced
  <1>5. ASSUME NEW k \in Keys \ Unensured PROVE CaretTrue(Moved(k, f, b))
    <2> HIDE DEF S, f
    <2>1. /\ k \in {"up", "down", "pgup", "pgdn", "home", "end"}
          /\ k \in {"pgup", "pgdn"} => b
      <3>1. k \in {"left", "right", "up", "down", "pgup", "pgdn", "home", "end"}
            /\ k \notin {"left", "right"} /\ (HasInput => k \notin {"pgup", "pgdn"})
        BY DEF Keys, Unensured
      <3>2. QED
        BY <3>1, EditorAssumption
    <2>2. /\ Keeps(MoveCursorUp(f), f, S) /\ Keeps(MoveCursorDown(f), f, S)
          /\ Keeps(ScrollPageUp(f), f, S) /\ Keeps(ScrollPageDown(f), f, S)
      BY <1>1, RowKeys, PagesKeep
    <2>3. /\ CaretTrue(EnsureCursorVisible(MoveCursorUp(f)))
          /\ CaretTrue(EnsureCursorVisible(MoveCursorDown(f)))
          /\ CaretTrue(EnsureCursorVisible(ScrollPageUp(f)))
          /\ CaretTrue(EnsureCursorVisible(ScrollPageDown(f)))
      BY <1>1, <2>2, ShownKeeps
    <2>4. CaretTrue(MoveHome(f)) /\ CaretTrue(MoveEnd(f))
      BY <1>1, <1>2, HomeSeen, EndSeen
    <2>5. Moved(k, f, b) \in {EnsureCursorVisible(MoveCursorUp(f)), EnsureCursorVisible(MoveCursorDown(f)),
                              EnsureCursorVisible(ScrollPageUp(f)), EnsureCursorVisible(ScrollPageDown(f)),
                              MoveHome(f), MoveEnd(f)}
      BY <2>1 DEF Moved
    <2>6. QED
      BY <2>3, <2>4, <2>5
  <1>6. QED
    BY <1>3, <1>4, <1>5 DEF KeysShowTheCursor, f, b

-----------------------------------------------------------------------------
(* Erasing undoes typing.                                                *)

\* Is the text the same, line by line, and the cursor where it was?
Undone(h, f) == /\ LastLine(h) = LastLine(f) /\ h.line = f.line /\ h.col = f.col
                /\ \A k \in 0 .. LastLine(f) : Runes(h, k) = Runes(f, k)

\* The text is what its lines are.
LEMMA SameString ==
  ASSUME NEW h \in Frames, NEW f \in Frames, Undone(h, f)
  PROVE  InputString(h) = InputString(f)
  <1>1. DOMAIN h.lines = DOMAIN f.lines
    BY FrameLines DEF Undone
  <1>2. ASSUME NEW n \in DOMAIN f.lines PROVE h.lines[n].runes = f.lines[n].runes
    <2>1. n - 1 \in 0 .. LastLine(f) /\ (n - 1) + 1 = n
      <3>1. DOMAIN f.lines = 1 .. Len(f.lines) /\ Len(f.lines) = LastLine(f) + 1
            /\ LastLine(f) \in Nat
        BY FrameLines
      <3>2. QED
        BY <3>1
    <2>2. Runes(h, n - 1) = Runes(f, n - 1)
      BY <2>1 DEF Undone
    <2>3. QED
      BY <2>1, <2>2 DEF Runes
  <1>3. [n \in DOMAIN h.lines |-> IF n = 1 THEN h.lines[n].runes ELSE <<"\n">> \o h.lines[n].runes]
        = [n \in DOMAIN f.lines |-> IF n = 1 THEN f.lines[n].runes ELSE <<"\n">> \o f.lines[n].runes]
    BY <1>1, <1>2
  <1>4. QED
    BY <1>3 DEF InputString

\* A rune inserted at the cursor
LEMMA RuneTyped ==
  ASSUME NEW S, S \subseteq RuneSet, NEW f \in FrameSet(S), InLine(f), NEW r \in S
  PROVE  LET s == Before(f) \o <<r>> \o After(f)
         IN  /\ Wrote(InsertRune(f, r), f, S, f.line, s, f.col + 1)
             /\ Front(SubSeq(s, 1, f.col + 1)) = Before(f)
             /\ SubSeq(s, f.col + 2, Len(s)) = After(f)
             /\ SubSeq(s, 1, f.col) = Before(f)
             /\ Tail(SubSeq(s, f.col + 1, Len(s))) = After(f)
             /\ Len(s) \in Nat /\ f.col + 1 \in 0 .. Len(s) /\ f.col \in 0 .. Len(s) /\ f.col < Len(s)
  <1> DEFINE a == Before(f)
             b == After(f)
             s == a \o <<r>> \o b
             c == f.col
  <1>1. /\ a \in Seq(S) /\ b \in Seq(S) /\ Len(a) = c /\ c \in Nat
    BY LineHalves
  <1>2. Len(b) \in Nat
    BY <1>1, LenProperties
  <1>3. <<r>> \in Seq(S) /\ Len(<<r>>) = 1
    OBVIOUS
  <1>4. Inside(f) = f
    BY InsideFrame
  <1>5. Wrote(InsertRune(f, r), f, S, f.line, s, c + 1)
    <2> DEFINE rs == <<r>>
               g == Inside(f)
    <2>1. rs \in Seq(S) /\ Len(rs) = 1
      BY <1>3
    <2> HIDE DEF rs
    <2>2. Wrote(InsertRunes(f, rs), g, S, g.line, Before(g) \o rs \o After(g), g.col + Len(rs))
      BY <2>1, InsertFrame
    <2>3. Wrote(InsertRunes(f, rs), f, S, f.line, a \o rs \o b, c + 1)
      BY <1>4, <2>1, <2>2
    <2>4. QED
      BY <2>3 DEF InsertRune, rs
  <1> HIDE DEF a, b, c
  <1>6. /\ s \in Seq(S) /\ Len(s) = Len(a) + Len(b) + 1
        /\ Front(SubSeq(s, 1, Len(a) + 1)) = a /\ SubSeq(s, Len(a) + 2, Len(s)) = b
        /\ SubSeq(s, 1, Len(a)) = a /\ Tail(SubSeq(s, Len(a) + 1, Len(s))) = b
    <2>1. Parted(a \o <<r>> \o b, a, b, S)
      BY <1>1, Between
    <2> HIDE DEF s
    <2>2. Parted(s, a, b, S)
      BY <2>1 DEF s
    <2>3. QED
      BY <2>2 DEF Parted
  <1> HIDE DEF s
  <1>7. /\ Front(SubSeq(s, 1, c + 1)) = a /\ SubSeq(s, c + 2, Len(s)) = b
        /\ SubSeq(s, 1, c) = a /\ Tail(SubSeq(s, c + 1, Len(s))) = b
    BY <1>1, <1>6
  <1>8. Len(s) \in Nat /\ c + 1 \in 0 .. Len(s) /\ c \in 0 .. Len(s) /\ c < Len(s)
    BY <1>1, <1>2, <1>6
  <1>9. QED
    BY <1>5, <1>7, <1>8 DEF a, b, c, s

\* The cursor put where it is
LEMMA AtSame ==
  ASSUME NEW S, NEW f \in FrameSet(S)
  PROVE  At(f, f.line, f.col) = f
  BY DEF At, FrameSet

\* Erasing a rune after it was typed
LEMMA RuneErased ==
  ASSUME NEW S, S \subseteq RuneSet, NEW f \in FrameSet(S), InLine(f), NEW r \in S
  PROVE  LET h == Backspace(InsertRune(f, r))
         IN  h \in FrameSet(S) /\ Undone(h, f)
  <1> DEFINE g == InsertRune(f, r)
             a == Before(f)
             b == After(f)
             s == a \o <<r>> \o b
             c == f.col
             n == f.line
             h == Backspace(g)
             e == Front(Before(g)) \o After(g)
  <1>1. /\ Wrote(g, f, S, n, s, c + 1)
        /\ Front(SubSeq(s, 1, c + 1)) = a /\ SubSeq(s, c + 2, Len(s)) = b
        /\ Len(s) \in Nat /\ c + 1 \in 0 .. Len(s)
    BY RuneTyped
  <1>2. a \o b = Runes(f, n) /\ n \in 0 .. LastLine(f) /\ n \in Nat /\ c \in Nat
    BY LineHalves
  <1> HIDE DEF g, a, b, s, c, n
  <1>3. /\ g \in FrameSet(S) /\ g.line = n /\ g.col = c + 1 /\ LastLine(g) = LastLine(f)
        /\ Runes(g, n) = s
        /\ \A k \in 0 .. LastLine(f) : k # n => Runes(g, k) = Runes(f, k)
    BY <1>1 DEF Wrote
  <1>4. InLine(g) /\ g.col > 0
    BY <1>1, <1>2, <1>3 DEF InLine
  <1>5. Before(g) = SubSeq(s, 1, c + 1) /\ After(g) = SubSeq(s, c + 2, Len(s))
    <2>1. g.col + 1 = c + 2
      BY <1>2, <1>3
    <2>2. QED
      BY <1>3, <2>1 DEF Before, After
  <1>6. e = Runes(f, n)
    BY <1>1, <1>2, <1>5
  <1>7. h = At(SetRunes(g, g.line, e), g.line, g.col - 1)
    <2> DEFINE v == c + 1
               l == Len(s)
               p == At(g, g.line, Clamp(g.col, 0, Len(Runes(g, g.line))))
    <2>1. Clamp(v, 0, l) = v
      <3>1. v \in Int /\ l \in Int /\ 0 <= l /\ v \in 0 .. l
        BY <1>1, <1>2
      <3> HIDE DEF v, l
      <3>2. QED
        BY <3>1, ClampIn
    <2>2. p = g
      BY <1>3, <2>1, AtSame
    <2>3. ~(g.line = 0 /\ g.col = 0)
      BY <1>2, <1>3
    <2>4. h = At(SetRunes(p, p.line, Front(Before(p)) \o After(p)), p.line, p.col - 1)
      <3> HIDE DEF e
      <3>1. QED
        BY <1>4, <2>3 DEF Backspace
    <2> HIDE DEF p
    <2>5. QED
      BY <2>2, <2>4
  <1>8. Wrote(h, g, S, g.line, e, g.col - 1)
    BY <1>3, <1>4, <1>7, EraseBefore
  <1> HIDE DEF h, e
  <1>9. g.col - 1 = c
    BY <1>2, <1>3
  <1>10. h \in FrameSet(S) /\ h.line = n /\ h.col = c /\ LastLine(h) = LastLine(f)
         /\ Runes(h, n) = Runes(f, n)
         /\ \A k \in 0 .. LastLine(f) : k # n => Runes(h, k) = Runes(f, k)
    BY <1>3, <1>6, <1>8, <1>9 DEF Wrote
  <1>11. Undone(h, f)
    BY <1>10 DEF Undone, n, c
  <1>12. QED
    BY <1>10, <1>11 DEF h, g

\* Erasing it from its left
LEMMA RuneDeleted ==
  ASSUME NEW S, S \subseteq RuneSet, NEW f \in FrameSet(S), InLine(f), NEW r \in S
  PROVE  LET h == DeleteForward(MoveCursorLeft(InsertRune(f, r)))
         IN  h \in FrameSet(S) /\ Undone(h, f)
  <1> DEFINE g == InsertRune(f, r)
             a == Before(f)
             b == After(f)
             s == a \o <<r>> \o b
             c == f.col
             n == f.line
             p == MoveCursorLeft(g)
             h == DeleteForward(p)
             e == Before(p) \o Tail(After(p))
  <1>1. /\ Wrote(g, f, S, n, s, c + 1)
        /\ SubSeq(s, 1, c) = a /\ Tail(SubSeq(s, c + 1, Len(s))) = b
        /\ Len(s) \in Nat /\ c \in 0 .. Len(s) /\ c < Len(s)
    BY RuneTyped
  <1>2. a \o b = Runes(f, n) /\ n \in 0 .. LastLine(f) /\ n \in Nat /\ c \in Nat
    BY LineHalves
  <1> HIDE DEF g, a, b, s, c, n
  <1>3. /\ g \in FrameSet(S) /\ g.line = n /\ g.col = c + 1 /\ LastLine(g) = LastLine(f)
        /\ Runes(g, n) = s
        /\ \A k \in 0 .. LastLine(f) : k # n => Runes(g, k) = Runes(f, k)
    BY <1>1 DEF Wrote
  <1>4. p = At(g, n, c)
    <2>1. g.col > 0 /\ g.col - 1 = c
      BY <1>2, <1>3
    <2>2. QED
      BY <1>3, <2>1 DEF MoveCursorLeft
  <1>5. Sited(p, g, S, n, c, g.scroll)
    BY <1>2, <1>3, <1>4, AtFrame
  <1> HIDE DEF p
  <1>6. p \in FrameSet(S) /\ Like(p, g) /\ p.line = n /\ p.col = c
    BY <1>5 DEF Sited
  <1>7. LastLine(p) = LastLine(f) /\ Runes(p, n) = s
        /\ \A k \in 0 .. LastLine(f) : k # n => Runes(p, k) = Runes(f, k)
    BY <1>3, <1>6, LikeRows
  <1>8. InLine(p) /\ p.col < Len(Runes(p, p.line))
    BY <1>1, <1>2, <1>6, <1>7 DEF InLine
  <1>9. Before(p) = SubSeq(s, 1, c) /\ After(p) = SubSeq(s, c + 1, Len(s))
    BY <1>6, <1>7 DEF Before, After
  <1>10. e = Runes(f, n)
    BY <1>1, <1>2, <1>9
  <1>11. h = SetRunes(p, p.line, e)
    <2>1. Inside(p) = p /\ p.lines # <<>>
      BY <1>6, <1>8, InsideFrame DEF FrameSet
    <2>2. QED
      BY <1>8, <2>1 DEF DeleteForward
  <1>12. Written(h, p, S, p.line, e)
    BY <1>6, <1>8, <1>11, EraseAfter
  <1> HIDE DEF h, e
  <1>13. h \in FrameSet(S) /\ h.line = n /\ h.col = c /\ LastLine(h) = LastLine(f)
         /\ Runes(h, n) = Runes(f, n)
         /\ \A k \in 0 .. LastLine(f) : k # n => Runes(h, k) = Runes(f, k)
    BY <1>6, <1>7, <1>10, <1>12 DEF Written
  <1>14. Undone(h, f)
    BY <1>13 DEF Undone, n, c
  <1>15. QED
    BY <1>13, <1>14 DEF h, p, g

\* A line broken in two, and joined again
LEMMA BrokeJoined ==
  ASSUME NEW S, S \subseteq RuneSet, NEW f \in FrameSet(S), InLine(f), NEW g, NEW h, NEW p, NEW s,
         Broke(g, f, S, f.line, Before(f), After(f)), Like(p, g),
         Concats(s, Runes(p, f.line), Runes(p, f.line + 1)), OneLine(h, p, S, f.line, s)
  PROVE  /\ LastLine(h) = LastLine(f)
         /\ \A k \in 0 .. LastLine(f) : Runes(h, k) = Runes(f, k)
  <1> DEFINE n == f.line
             m == LastLine(f)
  <1>1. Before(f) \o After(f) = Runes(f, n) /\ n \in 0 .. m /\ n \in Nat
    BY LineHalves
  <1>2. m \in Nat
    BY SubFrames, FrameLines
  <1>3. /\ LastLine(p) = m + 1 /\ Runes(p, n) = Before(f) /\ Runes(p, n + 1) = After(f)
        /\ \A k \in 0 .. n - 1 : Runes(p, k) = Runes(f, k)
        /\ \A k \in n + 1 .. m : Runes(p, k + 1) = Runes(f, k)
    BY LikeRows DEF Broke
  <1> HIDE DEF n, m
  <1>4. /\ LastLine(h) = LastLine(p) - 1 /\ Runes(h, n) = Runes(f, n)
        /\ \A k \in 0 .. n - 1 : Runes(h, k) = Runes(p, k)
        /\ \A k \in n + 2 .. LastLine(p) : Runes(h, k - 1) = Runes(p, k)
    BY <1>1, <1>3 DEF OneLine, Concats, n
  <1>5. LastLine(h) = m
    BY <1>2, <1>3, <1>4
  <1>6. ASSUME NEW k \in 0 .. m PROVE Runes(h, k) = Runes(f, k)
    <2>1. CASE k < n
      <3>1. k \in 0 .. n - 1
        BY <1>1, <1>2, <2>1
      <3>2. QED
        BY <1>3, <1>4, <3>1
    <2>2. CASE k = n
      BY <1>4, <2>2
    <2>3. CASE k > n
      <3>1. k \in n + 1 .. m /\ k + 1 \in n + 2 .. LastLine(p) /\ (k + 1) - 1 = k
        BY <1>1, <1>2, <1>3, <2>3
      <3>2. Runes(p, k + 1) = Runes(f, k)
        BY <1>3, <3>1
      <3>3. Runes(h, (k + 1) - 1) = Runes(p, k + 1)
        BY <1>4, <3>1
      <3>4. QED
        BY <3>1, <3>2, <3>3
    <2>4. QED
      BY <1>1, <2>1, <2>2, <2>3
  <1>7. QED
    BY <1>5, <1>6 DEF m

\* Erasing a line break after it was typed
LEMMA BreakErased ==
  ASSUME NEW S, S \subseteq RuneSet, NEW f \in FrameSet(S), InLine(f)
  PROVE  LET h == Backspace(InsertNewline(f))
         IN  h \in FrameSet(S) /\ Undone(h, f)
  <1> DEFINE g == InsertNewline(f)
             n == f.line
             c == f.col
             s == Runes(g, n) \o Runes(g, n + 1)
             h == Backspace(g)
  <1>1. Broke(g, f, S, n, Before(f), After(f))
    BY InsideFrame, NewlineFrame
  <1>2. /\ n \in 0 .. LastLine(f) /\ n \in Nat /\ c \in Nat /\ Len(Before(f)) = c
        /\ LastLine(f) \in Nat
    BY LineHalves, SubFrames, FrameLines
  <1> HIDE DEF g, n, c
  <1>3. /\ g \in FrameSet(S) /\ g.line = n + 1 /\ g.col = 0 /\ LastLine(g) = LastLine(f) + 1
        /\ Runes(g, n) = Before(f)
    BY <1>1 DEF Broke
  <1>4. /\ g.line \in 0 .. LastLine(g) /\ g.line > 0 /\ g.line - 1 = n /\ ~(g.line = 0 /\ g.col = 0)
        /\ ~(g.col > 0) /\ Len(Runes(g, n)) = c
    BY <1>2, <1>3
  <1>5. PICK p : /\ OneLine(p, g, S, g.line - 1, Runes(g, g.line - 1) \o Runes(g, g.line))
                 /\ Sited(At(Splice(g, g.line - 1, g.line,
                                    <<Line(Runes(g, g.line - 1) \o Runes(g, g.line))>>),
                             g.line - 1, Len(Runes(g, g.line - 1))), p, S, g.line - 1,
                          Len(Runes(g, g.line - 1)), p.scroll)
    BY <1>3, <1>4, JoinBefore
  <1>6. h = At(Splice(g, n, n + 1, <<Line(s)>>), n, c)
    BY <1>3, <1>4 DEF Backspace
  <1>6a. Concats(s, Runes(g, n), Runes(g, n + 1))
    BY DEF Concats
  <1>7. OneLine(p, g, S, n, s) /\ Sited(h, p, S, n, c, p.scroll)
    BY <1>3, <1>4, <1>5, <1>6
  <1> HIDE DEF s, h
  <1>8. h \in FrameSet(S) /\ Like(h, p) /\ h.line = n /\ h.col = c
    BY <1>7 DEF Sited
  <1>9. LastLine(p) = LastLine(f) /\ \A k \in 0 .. LastLine(f) : Runes(p, k) = Runes(f, k)
    <2>1. Like(g, g)
      BY DEF Like
    <2>2. QED
      BY <1>1, <1>6a, <1>7, <2>1, BrokeJoined DEF n
  <1>10. LastLine(h) = LastLine(p) /\ \A k : Runes(h, k) = Runes(p, k)
    BY <1>8, LikeRows
  <1>11. Undone(h, f)
    BY <1>8, <1>9, <1>10 DEF Undone, n, c
  <1>12. QED
    BY <1>8, <1>11 DEF h, g

\* Erasing it from its left
LEMMA BreakDeleted ==
  ASSUME NEW S, S \subseteq RuneSet, NEW f \in FrameSet(S), InLine(f)
  PROVE  LET h == DeleteForward(MoveCursorLeft(InsertNewline(f)))
         IN  h \in FrameSet(S) /\ Undone(h, f)
  <1> DEFINE g == InsertNewline(f)
             n == f.line
             c == f.col
             p == MoveCursorLeft(g)
             s == Runes(p, n) \o Runes(p, n + 1)
             h == DeleteForward(p)
  <1>1. Broke(g, f, S, n, Before(f), After(f))
    BY InsideFrame, NewlineFrame
  <1>2. /\ n \in 0 .. LastLine(f) /\ n \in Nat /\ c \in Nat /\ Len(Before(f)) = c
        /\ LastLine(f) \in Nat
    BY LineHalves, SubFrames, FrameLines
  <1> HIDE DEF g, n, c
  <1>3. /\ g \in FrameSet(S) /\ g.line = n + 1 /\ g.col = 0 /\ LastLine(g) = LastLine(f) + 1
        /\ Runes(g, n) = Before(f)
    BY <1>1 DEF Broke
  <1>4. p = At(g, n, c)
    <2>1. g.line - 1 = n /\ ~(g.col > 0) /\ g.line > 0 /\ Len(Runes(g, n)) = c
      BY <1>2, <1>3
    <2>2. QED
      BY <2>1 DEF MoveCursorLeft
  <1>5. Sited(p, g, S, n, c, g.scroll)
    BY <1>2, <1>3, <1>4, AtFrame
  <1> HIDE DEF p
  <1>6. p \in FrameSet(S) /\ Like(p, g) /\ p.line = n /\ p.col = c
    BY <1>5 DEF Sited
  <1>7. LastLine(p) = LastLine(f) + 1 /\ Runes(p, n) = Before(f)
    BY <1>3, <1>6, LikeRows
  <1>8. InLine(p) /\ n \in 0 .. LastLine(p) - 1
    BY <1>2, <1>6, <1>7 DEF InLine
  <1>9. h = Splice(p, n, n + 1, <<Line(s)>>)
    <2>1. Inside(p) = p /\ p.lines # <<>>
      BY <1>6, <1>8, InsideFrame DEF FrameSet
    <2>2. ~(p.col < Len(Runes(p, p.line))) /\ p.line # LastLine(p)
      BY <1>2, <1>6, <1>7
    <2>3. QED
      BY <1>6, <2>1, <2>2 DEF DeleteForward
  <1>10. s \in Seq(S)
    <2>1. n + 1 \in 0 .. LastLine(p) /\ n \in 0 .. LastLine(p)
      BY <1>2, <1>7
    <2> DEFINE u == Runes(p, n)
               v == Runes(p, n + 1)
    <2>2. u \in Seq(S) /\ v \in Seq(S)
      BY <1>6, <2>1, RunesIn
    <2> HIDE DEF u, v
    <2>3. u \o v \in Seq(S)
      BY <2>2
    <2>4. QED
      BY <2>3 DEF u, v
  <1>10a. Concats(s, Runes(p, n), Runes(p, n + 1))
    BY DEF Concats
  <1> HIDE DEF s
  <1>11. OneLine(h, p, S, n, s)
    BY <1>6, <1>8, <1>9, <1>10, JoinAt
  <1> HIDE DEF h
  <1>12. LastLine(h) = LastLine(f) /\ \A k \in 0 .. LastLine(f) : Runes(h, k) = Runes(f, k)
    <2>1. Like(p, g) /\ Concats(s, Runes(p, f.line), Runes(p, f.line + 1))
          /\ OneLine(h, p, S, f.line, s) /\ Broke(g, f, S, f.line, Before(f), After(f))
      BY <1>1, <1>6, <1>10a, <1>11 DEF n
    <2>2. QED
      BY <2>1, BrokeJoined
  <1>13. h \in FrameSet(S) /\ h.line = n /\ h.col = c
    BY <1>6, <1>11 DEF OneLine
  <1>14. Undone(h, f)
    BY <1>12, <1>13 DEF Undone, n, c
  <1>15. QED
    BY <1>13, <1>14 DEF h, p, g

\* Erasing undoes typing.
LEMMA TypingUndone ==
  ASSUME Tabless, EditorInv
  PROVE  ErasingUndoesTyping
  <1> DEFINE f == frame
             S == PaneRunes
             Same(h) == InputString(h) = InputString(f) /\ h.line = f.line /\ h.col = f.col
  <1>1. S \subseteq RuneSet /\ f \in FrameSet(S) /\ f \in Frames /\ Placed(f, S) /\ Typed \subseteq S
    BY PaneTyped, PaneFrame
  <1>2. "\t" \notin S
    BY DEF PaneRunes
  <1> HIDE DEF f, S
  <1>3. InLine(f)
    BY <1>1, <1>2, PlacedInLine
  <1>4. ASSUME NEW h \in FrameSet(S), Undone(h, f) PROVE Same(h)
    <2>1. h \in Frames
      BY <1>1, SubFrames
    <2>2. InputString(h) = InputString(f)
      BY <1>1, <1>4, <2>1, SameString
    <2>3. QED
      BY <1>4, <2>2 DEF Undone
  <1> HIDE DEF Same
  <1>5. Same(Backspace(InsertNewline(f))) /\ Same(DeleteForward(MoveCursorLeft(InsertNewline(f))))
    BY <1>1, <1>3, <1>4, BreakErased, BreakDeleted
  <1>6. ASSUME NEW r \in Typed
        PROVE  /\ Same(Backspace(InsertRune(f, r)))
               /\ Same(DeleteForward(MoveCursorLeft(InsertRune(f, r))))
    <2>1. r \in S
      BY <1>1
    <2>2. QED
      BY <1>1, <1>3, <1>4, <2>1, RuneErased, RuneDeleted
  <1>7. ASSUME NEW g \in {InsertNewline(f)} \cup {InsertRune(f, r) : r \in Typed}
        PROVE  Same(Backspace(g)) /\ Same(DeleteForward(MoveCursorLeft(g)))
    BY <1>5, <1>6
  <1>8. QED
    BY <1>7 DEF ErasingUndoesTyping, Same, f
-----------------------------------------------------------------------------
(* The theorems.  Unbroken, Wide and Tabless are their hypotheses: no text*)
(* wraps at its words, a pane is at least two columns wide, and, where it*)
(* is said, no text holds a tab.                                         *)

\* Every place of a text is shown in exactly one of the rows buildDisplayLines makes.
THEOREM ColumnsCorrect ==
  ASSUME Unbroken, Wide
  PROVE  Spec => []EveryColumnHasARow
  <1>1. Spec => []EditorInv
    BY EditorInvariant
  <1>2. EditorInv => EveryColumnHasARow
    BY ColumnShown
  <1>3. QED
    BY <1>1, <1>2, PTL

\* The thumb of the scrollbar is in the first free row when the viewport is at the top and
\* in the last exactly when it is at the end; in a track of one row, that of a pane of one
\* or three rows, it is drawn everywhere but at the end (ComputeScrollbar).
THEOREM ThumbCorrect ==
  ASSUME Unbroken, Wide
  PROVE  Spec => []ThumbShown
  <1>1. Spec => []EditorInv
    BY EditorInvariant
  <1>2. EditorInv => ThumbShown
    BY ThumbSeen
  <1>3. QED
    BY <1>1, <1>2, PTL

\* Two presses of the up key bring the cursor to a higher row, in texts whose lines wrap
\* hard or not at all (MoveCursorUp).
THEOREM UpCorrect ==
  ASSUME Unbroken, Wide
  PROVE  Spec => []UpReachesTheTop
  <1>1. Spec => []EditorInv
    BY EditorInvariant
  <1>2. EditorInv => UpReachesTheTop
    BY UpTwice
  <1>3. QED
    BY <1>1, <1>2, PTL

\* After every key that ensures that the cursor is visible, every edit and every refresh
\* the caret of a text without tabs is drawn in the row of the cursor
\* (EnsureCursorVisible, Render).
THEOREM CursorCorrect ==
  ASSUME Unbroken, Wide, Tabless
  PROVE  Spec => []KeysShowTheCursor
  <1>1. Spec => []EditorInv
    BY EditorInvariant
  <1>2. EditorInv => KeysShowTheCursor
    BY CursorSeen
  <1>3. QED
    BY <1>1, <1>2, PTL

\* In a text without tabs Backspace, and DeleteForward after a move to the left, undo an
\* insertion of a rune or of a line break at any place.
THEOREM TypingCorrect ==
  ASSUME Unbroken, Wide, Tabless
  PROVE  Spec => []ErasingUndoesTyping
  <1>1. Spec => []EditorInv
    BY EditorInvariant
  <1>2. EditorInv => ErasingUndoesTyping
    BY TypingUndone
  <1>3. QED
    BY <1>1, <1>2, PTL

-----------------------------------------------------------------------------
(* The text of a frame.                                                  *)

\* The runes of a text that may have several lines
TextRunes == RuneSet \cup {"\n"}

\* The lines of a frame, each but the first with the line break before it
Pieces(f) == [n \in DOMAIN f.lines |-> IF n = 1 THEN f.lines[n].runes
                                       ELSE <<"\n">> \o f.lines[n].runes]

\* The text of a frame is what its pieces make.
LEMMA PiecesOf ==
  ASSUME NEW f \in Frames
  PROVE  /\ InputString(f) = FlattenSeq(Pieces(f))
         /\ Pieces(f) \in Seq(Seq(TextRunes)) /\ Len(Pieces(f)) = LastLine(f) + 1
         /\ LastLine(f) \in Nat /\ Pieces(f)[1] = Runes(f, 0)
         /\ \A k \in 1 .. LastLine(f) : Pieces(f)[k + 1] = <<"\n">> \o Runes(f, k)
  <1> DEFINE ps == Pieces(f)
             m  == LastLine(f)
  <1>1. DOMAIN f.lines = 1 .. m + 1 /\ m \in Nat
    BY FrameLines
  <1>2. \A k \in 0 .. m : Runes(f, k) \in Seq(TextRunes) /\ f.lines[k + 1].runes = Runes(f, k)
    <2>1. ASSUME NEW k \in 0 .. m PROVE Runes(f, k) \in Seq(TextRunes)
      <3>1. Runes(f, k) \in Seq(RuneSet)
        BY FrameLines
      <3>2. QED
        BY <3>1 DEF TextRunes
    <2>2. QED
      BY <2>1 DEF Runes
  <1> HIDE DEF m
  <1>3. ASSUME NEW n \in 1 .. m + 1
        PROVE  ps[n] = IF n = 1 THEN Runes(f, 0) ELSE <<"\n">> \o Runes(f, n - 1)
    <2>1. n - 1 \in 0 .. m /\ (n - 1) + 1 = n
      BY <1>1
    <2>2. f.lines[n].runes = Runes(f, n - 1)
      BY <1>2, <2>1
    <2>3. QED
      BY <1>1, <2>2 DEF Pieces
  <1>4. ASSUME NEW n \in 1 .. m + 1 PROVE ps[n] \in Seq(TextRunes)
    <2>1. n - 1 \in 0 .. m /\ 0 \in 0 .. m
      BY <1>1
    <2>2. <<"\n">> \in Seq(TextRunes)
      BY DEF TextRunes
    <2>3. Runes(f, 0) \in Seq(TextRunes) /\ <<"\n">> \o Runes(f, n - 1) \in Seq(TextRunes)
      BY <1>2, <2>1, <2>2, ConcatProperties
    <2>4. QED
      BY <1>3, <2>3
  <1>5. ps \in [1 .. m + 1 -> Seq(TextRunes)]
    BY <1>1, <1>4 DEF Pieces
  <1> HIDE DEF ps
  <1>6. ps \in Seq(Seq(TextRunes)) /\ Len(ps) = m + 1
    BY <1>1, <1>5
  <1>7. ps[1] = Runes(f, 0) /\ \A k \in 1 .. m : ps[k + 1] = <<"\n">> \o Runes(f, k)
    <2>1. 1 \in 1 .. m + 1
      BY <1>1
    <2>2. ASSUME NEW k \in 1 .. m PROVE ps[k + 1] = <<"\n">> \o Runes(f, k)
      <3>1. k + 1 \in 1 .. m + 1 /\ k + 1 # 1 /\ (k + 1) - 1 = k
        BY <1>1
      <3>2. QED
        BY <1>3, <3>1
    <2>3. QED
      BY <1>3, <2>1, <2>2
  <1>8. InputString(f) = FlattenSeq(ps)
    BY DEF InputString, Pieces, ps
  <1>9. QED
    BY <1>1, <1>6, <1>7, <1>8 DEF m, ps

\* Sequences that begin alike concatenate alike.
LEMMA SamePrefixes ==
  ASSUME NEW S, NEW ss \in Seq(Seq(S)), NEW tt \in Seq(Seq(S)),
         NEW m \in Nat \ {0}, m <= Len(ss), m <= Len(tt), \A k \in 1 .. m : ss[k] = tt[k],
         NEW a \in Concatenations(S, ss), NEW b \in Concatenations(S, tt)
  PROVE  a[m] = b[m]
  <1> DEFINE B == {k \in 0 .. m - 1 : a[k + 1] = b[k + 1]}
  <1>1. m - 1 \in Nat /\ Len(ss) \in Nat /\ Len(tt) \in Nat
    OBVIOUS
  <1>2. 0 \in B
    BY <1>1 DEF Concatenations
  <1>3. ASSUME NEW k \in 0 .. (m - 1) - 1, k \in B PROVE k + 1 \in B
    <2>1. k + 2 \in 2 .. Len(ss) /\ k + 2 \in 2 .. Len(tt) /\ k + 2 \in 1 .. m
          /\ k + 1 \in 0 .. m - 1 /\ (k + 2) - 1 = k + 1 /\ (k + 1) + 1 = k + 2
      BY <1>1
    <2>2. a[k + 2] = a[k + 1] \o ss[k + 2] /\ b[k + 2] = b[k + 1] \o tt[k + 2]
      BY <2>1 DEF Concatenations
    <2>3. a[k + 2] = b[k + 2]
      BY <1>3, <2>1, <2>2
    <2>4. QED
      BY <2>1, <2>3
  <1> HIDE DEF B
  <1> DEFINE N == m - 1
  <1>4. N \in B
    <2>1. N \in Nat /\ N \in 0 .. N
      BY <1>1
    <2>2. \A k \in 0 .. N - 1 : k \in B => k + 1 \in B
      BY <1>3
    <2> HIDE DEF N
    <2>3. 0 .. N \subseteq B
      BY <1>2, <2>1, <2>2, UpTo
    <2>4. QED
      BY <2>1, <2>3
  <1>5. QED
    BY <1>1, <1>4 DEF B, N

\* One piece more at the end
LEMMA FlattenMore ==
  ASSUME NEW S, NEW ss \in Seq(Seq(S)), ss # <<>>, NEW tt \in Seq(Seq(S)),
         Len(tt) = Len(ss) + 1, \A k \in 1 .. Len(ss) : tt[k] = ss[k]
  PROVE  FlattenSeq(tt) = FlattenSeq(ss) \o tt[Len(ss) + 1]
  <1> DEFINE m == Len(ss)
  <1>1. m \in Nat \ {0} /\ tt # <<>>
    BY EmptySeq
  <1>2. PICK a \in Concatenations(S, ss) : FlattenSeq(ss) = a[m]
    BY Flatten
  <1>3. PICK b \in Concatenations(S, tt) : FlattenSeq(tt) = b[m + 1]
    BY <1>1, Flatten
  <1>4. a[m] = b[m]
    <2>1. m <= Len(ss) /\ m <= Len(tt) /\ \A k \in 1 .. m : ss[k] = tt[k]
      BY <1>1
    <2> HIDE DEF m
    <2>2. QED
      BY <1>1, <2>1, SamePrefixes
  <1>5. b[m + 1] = b[m] \o tt[m + 1]
    <2>1. m + 1 \in 2 .. Len(tt) /\ (m + 1) - 1 = m
      BY <1>1
    <2>2. QED
      BY <2>1 DEF Concatenations
  <1>6. QED
    BY <1>2, <1>3, <1>4, <1>5

\* The last of the m pieces tt is that of ss and s, the others are the same.
Longer(tt, ss, m, s) == /\ Len(tt) = m /\ Len(ss) = m /\ \A k \in 1 .. m - 1 : ss[k] = tt[k]
                        /\ tt[m] = ss[m] \o s

\* A longer piece at the end
LEMMA FlattenLonger ==
  ASSUME NEW S, NEW ss \in Seq(Seq(S)), NEW tt \in Seq(Seq(S)), NEW m \in Nat \ {0},
         NEW s \in Seq(S), Longer(tt, ss, m, s)
  PROVE  FlattenSeq(tt) = FlattenSeq(ss) \o s
  <1>1. ss # <<>> /\ tt # <<>>
    BY EmptySeq DEF Longer
  <1>2. PICK a \in Concatenations(S, ss) : FlattenSeq(ss) = a[m]
    BY <1>1, Flatten DEF Longer
  <1>3. PICK b \in Concatenations(S, tt) : FlattenSeq(tt) = b[m]
    BY <1>1, Flatten DEF Longer
  <1>4. CASE m = 1
    BY <1>2, <1>3, <1>4 DEF Concatenations, Longer
  <1>5. CASE m # 1
    <2> DEFINE l == m - 1
               p == a[l]
               q == ss[m]
    <2>1. l \in Nat \ {0} /\ l <= Len(ss) /\ l <= Len(tt) /\ \A k \in 1 .. l : ss[k] = tt[k]
      BY <1>5 DEF Longer
    <2>2. a[l] = b[l]
      <3> HIDE DEF l
      <3>1. QED
        BY <2>1, SamePrefixes, Zenon
    <2>3. m \in 2 .. Len(ss) /\ m \in 2 .. Len(tt) /\ l \in 1 .. Len(ss) /\ m \in 1 .. Len(ss)
      BY <1>5 DEF Longer
    <2>4. a[m] = p \o q /\ b[m] = p \o tt[m]
      BY <2>2, <2>3 DEF Concatenations
    <2>5. p \in Seq(S)
      BY <2>3 DEF Concatenations
    <2>6. q \in Seq(S)
      BY <2>3
    <2> HIDE DEF p
    <2>7. tt[m] = q \o s
      BY DEF Longer
    <2> HIDE DEF q
    <2>8. (p \o q) \o s = p \o (q \o s)
      BY <2>5, <2>6, ConcatAssociative
    <2>9. QED
      BY <1>2, <1>3, <2>4, <2>7, <2>8
  <1>6. QED
    BY <1>4, <1>5

\* The pane holds text, and its cursor is at the end.
AtEnd(f, text) == /\ f \in Frames
                  /\ f.line = LastLine(f) /\ f.col = Len(Runes(f, f.line))
                  /\ InputString(f) = text

\* At the end of a pane nothing is after the cursor.
LEMMA EndHalves ==
  ASSUME NEW f, NEW text, AtEnd(f, text)
  PROVE  /\ f \in FrameSet(RuneSet) /\ InLine(f) /\ LastLine(f) \in Nat
         /\ Runes(f, LastLine(f)) \in Seq(RuneSet) /\ Len(Runes(f, LastLine(f))) \in Nat
         /\ After(f) = <<>> /\ Before(f) = Runes(f, LastLine(f)) /\ Inside(f) = f
  <1> DEFINE m == LastLine(f)
             s == Runes(f, m)
  <1>1. f \in Frames /\ f \in FrameSet(RuneSet) /\ f.line = m /\ f.col = Len(s)
    BY DEF AtEnd, Frames
  <1>2. m \in Nat
    BY <1>1, FrameLines
  <1>3. s \in Seq(RuneSet) /\ Len(s) \in Nat
    <2>1. m \in 0 .. m
      BY <1>2
    <2>2. QED
      BY <1>1, <2>1, FrameLines
  <1> HIDE DEF m, s
  <1>4. InLine(f)
    BY <1>1, <1>2, <1>3 DEF InLine, m, s
  <1>5. /\ Before(f) \in Seq(RuneSet) /\ After(f) \in Seq(RuneSet) /\ Len(After(f)) = Len(s) - f.col
        /\ Before(f) \o After(f) = s
    BY <1>1, <1>4, LineHalves DEF s
  <1>6. After(f) = <<>>
    <2>1. Len(After(f)) = 0
      BY <1>1, <1>3, <1>5
    <2>2. QED
      BY <1>5, <2>1, EmptySeq
  <1>7. Before(f) = s
    <2> DEFINE a == Before(f)
    <2> HIDE DEF a
    <2>1. a \in Seq(RuneSet) /\ a \o <<>> = s
      BY <1>5, <1>6 DEF a
    <2>2. a \o <<>> = a
      BY <2>1
    <2>3. QED
      BY <2>1, <2>2 DEF a
  <1>8. Inside(f) = f
    BY <1>1, <1>4, InsideFrame
  <1>9. QED
    BY <1>1, <1>2, <1>3, <1>4, <1>6, <1>7, <1>8 DEF m, s

\* A piece with a line break before it grows like its line.
LEMMA PieceGrows ==
  ASSUME NEW s \in Seq(TextRunes), NEW r \in TextRunes
  PROVE  <<"\n">> \o (s \o <<r>>) = (<<"\n">> \o s) \o <<r>>
  <1> DEFINE b == <<"\n">>
             e == <<r>>
  <1>1. b \in Seq(TextRunes) /\ e \in Seq(TextRunes)
    BY DEF TextRunes
  <1> HIDE DEF b, e
  <1>2. b \o (s \o e) = (b \o s) \o e
    BY <1>1, ConcatAssociative
  <1>3. QED
    BY <1>2 DEF b, e

\* A rune typed at the end of a text
LEMMA RuneAtEnd ==
  ASSUME NEW f, NEW text, AtEnd(f, text), NEW r \in RuneSet
  PROVE  AtEnd(InsertRune(f, r), text \o <<r>>)
  <1> DEFINE h  == InsertRune(f, r)
             m  == LastLine(f)
             s  == Runes(f, m)
             e  == <<r>>
             ss == Pieces(f)
             tt == Pieces(h)
  <1>1. /\ f \in FrameSet(RuneSet) /\ InLine(f) /\ m \in Nat /\ s \in Seq(RuneSet)
        /\ Len(s) \in Nat /\ After(f) = <<>> /\ Before(f) = s
        /\ f.line = m /\ f.col = Len(s) /\ InputString(f) = text /\ f \in Frames
    BY EndHalves DEF AtEnd
  <1>2. s \o e \o <<>> = s \o e /\ e \in Seq(RuneSet) /\ Len(s \o e) = Len(s) + 1
        /\ e \in Seq(TextRunes) /\ s \in Seq(TextRunes) /\ r \in TextRunes
    <2> HIDE DEF s
    <2>1. e \in Seq(RuneSet) /\ e \in Seq(TextRunes) /\ r \in TextRunes
      BY DEF TextRunes
    <2>2. s \in Seq(TextRunes)
      BY <1>1 DEF TextRunes
    <2>3. Len(s \o e) = Len(s) + 1
      BY <1>1, <2>1
    <2>4. s \o e \o <<>> = s \o e
      BY <1>1, <2>1
    <2>5. QED
      BY <2>1, <2>2, <2>3, <2>4
  <1>3. Wrote(h, f, RuneSet, m, s \o e, Len(s) + 1)
    <2>1. Wrote(h, f, RuneSet, f.line, Before(f) \o <<r>> \o After(f), f.col + 1)
      BY <1>1, RuneTyped
    <2> HIDE DEF h, s, m
    <2>2. QED
      BY <1>1, <1>2, <2>1
  <1> HIDE DEF h, m, s, e
  <1>4. /\ h \in Frames /\ h.line = m /\ h.col = Len(s) + 1 /\ LastLine(h) = m
        /\ Runes(h, m) = s \o e
        /\ \A k \in 0 .. m : k # m => Runes(h, k) = Runes(f, k)
    BY <1>3 DEF Wrote, Frames, m
  <1>5. /\ ss \in Seq(Seq(TextRunes)) /\ Len(ss) = m + 1 /\ ss[1] = Runes(f, 0)
        /\ \A k \in 1 .. m : ss[k + 1] = <<"\n">> \o Runes(f, k)
        /\ text = FlattenSeq(ss)
    BY <1>1, PiecesOf DEF m
  <1>6. /\ tt \in Seq(Seq(TextRunes)) /\ Len(tt) = m + 1 /\ tt[1] = Runes(h, 0)
        /\ \A k \in 1 .. m : tt[k + 1] = <<"\n">> \o Runes(h, k)
        /\ InputString(h) = FlattenSeq(tt)
    BY <1>4, PiecesOf
  <1> HIDE DEF ss, tt
  <1>7. \A k \in 1 .. m : ss[k] = tt[k]
    <2>1. ASSUME NEW k \in 1 .. m PROVE ss[k] = tt[k]
      <3>1. CASE k = 1
        <4>1. 0 \in 0 .. m /\ 0 # m
          BY <1>1
        <4>2. QED
          BY <1>4, <1>5, <1>6, <3>1, <4>1
      <3>2. CASE k # 1
        <4>1. k - 1 \in 1 .. m /\ k - 1 \in 0 .. m /\ k - 1 # m /\ (k - 1) + 1 = k
          BY <1>1, <3>2
        <4>2. Runes(h, k - 1) = Runes(f, k - 1)
          BY <1>4, <4>1
        <4>3. ss[(k - 1) + 1] = <<"\n">> \o Runes(f, k - 1)
              /\ tt[(k - 1) + 1] = <<"\n">> \o Runes(h, k - 1)
          BY <1>5, <1>6, <4>1
        <4>4. QED
          BY <4>1, <4>2, <4>3
      <3>3. QED
        BY <3>1, <3>2
    <2>2. QED
      BY <2>1
  <1>8. tt[m + 1] = ss[m + 1] \o e
    <2>1. CASE m = 0
      <3>1. m + 1 = 1 /\ Runes(f, 0) = s
        BY <2>1 DEF s
      <3>2. tt[1] = s \o e
        BY <1>4, <1>6, <2>1
      <3>3. QED
        BY <1>5, <3>1, <3>2
    <2>2. CASE m # 0
      <3>1. m \in 1 .. m
        BY <1>1, <2>2
      <3>2. ss[m + 1] = <<"\n">> \o s /\ tt[m + 1] = <<"\n">> \o (s \o e)
        BY <1>4, <1>5, <1>6, <3>1 DEF s
      <3>3. <<"\n">> \o (s \o e) = (<<"\n">> \o s) \o e
        BY <1>2, PieceGrows DEF e
      <3>4. QED
        BY <3>2, <3>3
    <2>3. QED
      BY <2>1, <2>2
  <1>9. Longer(tt, ss, m + 1, e)
    <2>1. (m + 1) - 1 = m
      BY <1>1
    <2>2. QED
      BY <1>5, <1>6, <1>7, <1>8, <2>1 DEF Longer
  <1>10. FlattenSeq(tt) = FlattenSeq(ss) \o e
    <2> DEFINE l == m + 1
    <2>1. l \in Nat \ {0} /\ Longer(tt, ss, l, e)
      BY <1>1, <1>9
    <2> HIDE DEF l
    <2>2. QED
      BY <1>2, <1>5, <1>6, <2>1, FlattenLonger, Zenon
  <1>11. AtEnd(h, text \o e)
    BY <1>2, <1>4, <1>5, <1>6, <1>10 DEF AtEnd
  <1>12. QED
    BY <1>11 DEF h, e

\* A line break typed at the end of a text
LEMMA BreakAtEnd ==
  ASSUME NEW f, NEW text, AtEnd(f, text)
  PROVE  AtEnd(InsertNewline(f), text \o <<"\n">>)
  <1> DEFINE h  == InsertNewline(f)
             m  == LastLine(f)
             s  == Runes(f, m)
             ss == Pieces(f)
             tt == Pieces(h)
  <1>1. /\ f \in FrameSet(RuneSet) /\ InLine(f) /\ m \in Nat /\ s \in Seq(RuneSet)
        /\ Len(s) \in Nat /\ After(f) = <<>> /\ Before(f) = s /\ Inside(f) = f
        /\ f.line = m /\ f.col = Len(s) /\ InputString(f) = text /\ f \in Frames
    BY EndHalves DEF AtEnd
  <1>2. Broke(h, f, RuneSet, m, s, <<>>)
    <2> DEFINE g == Inside(f)
    <2>1. Broke(h, g, RuneSet, g.line, Before(g), After(g))
      BY <1>1, NewlineFrame
    <2> HIDE DEF h, s, m
    <2>2. QED
      BY <1>1, <2>1
  <1> HIDE DEF h, m, s
  <1>3. /\ h \in Frames /\ h.line = m + 1 /\ h.col = 0 /\ LastLine(h) = m + 1
        /\ Runes(h, m) = s /\ Runes(h, m + 1) = <<>>
        /\ \A k \in 0 .. m - 1 : Runes(h, k) = Runes(f, k)
    BY <1>2 DEF Broke, Frames, m
  <1>4. \A k \in 0 .. m : Runes(h, k) = Runes(f, k)
    <2>1. ASSUME NEW k \in 0 .. m PROVE Runes(h, k) = Runes(f, k)
      <3>1. k = m \/ k \in 0 .. m - 1
        BY <1>1
      <3>2. QED
        BY <1>3, <3>1 DEF s
    <2>2. QED
      BY <2>1
  <1>5. /\ ss \in Seq(Seq(TextRunes)) /\ Len(ss) = m + 1 /\ ss[1] = Runes(f, 0)
        /\ \A k \in 1 .. m : ss[k + 1] = <<"\n">> \o Runes(f, k)
        /\ text = FlattenSeq(ss)
    BY <1>1, PiecesOf DEF m
  <1>6. /\ tt \in Seq(Seq(TextRunes)) /\ Len(tt) = (m + 1) + 1 /\ tt[1] = Runes(h, 0)
        /\ \A k \in 1 .. m + 1 : tt[k + 1] = <<"\n">> \o Runes(h, k)
        /\ InputString(h) = FlattenSeq(tt)
    BY <1>3, PiecesOf
  <1> HIDE DEF ss, tt
  <1>7. \A k \in 1 .. Len(ss) : tt[k] = ss[k]
    <2>1. ASSUME NEW k \in 1 .. m + 1 PROVE tt[k] = ss[k]
      <3>1. CASE k = 1
        <4>1. 0 \in 0 .. m
          BY <1>1
        <4>2. QED
          BY <1>4, <1>5, <1>6, <3>1, <4>1
      <3>2. CASE k # 1
        <4>1. k - 1 \in 1 .. m /\ k - 1 \in 0 .. m /\ k - 1 \in 1 .. m + 1 /\ (k - 1) + 1 = k
          BY <1>1, <3>2
        <4>2. Runes(h, k - 1) = Runes(f, k - 1)
          BY <1>4, <4>1
        <4>3. ss[(k - 1) + 1] = <<"\n">> \o Runes(f, k - 1)
              /\ tt[(k - 1) + 1] = <<"\n">> \o Runes(h, k - 1)
          BY <1>5, <1>6, <4>1
        <4>4. QED
          BY <4>1, <4>2, <4>3
      <3>3. QED
        BY <3>1, <3>2
    <2>2. QED
      BY <1>5, <2>1
  <1>8. tt[Len(ss) + 1] = <<"\n">>
    <2>1. m + 1 \in 1 .. m + 1 /\ Len(ss) + 1 = (m + 1) + 1
      BY <1>1, <1>5
    <2>2. tt[(m + 1) + 1] = <<"\n">> \o Runes(h, m + 1)
      BY <1>6, <2>1
    <2>3. <<"\n">> \o <<>> = <<"\n">>
      <3>1. <<"\n">> \in Seq(TextRunes)
        BY DEF TextRunes
      <3>2. QED
        BY <3>1, ConcatEmptySeq
    <2>4. QED
      BY <1>3, <2>1, <2>2, <2>3
  <1>9. FlattenSeq(tt) = FlattenSeq(ss) \o <<"\n">>
    <2>1. ss # <<>> /\ Len(tt) = Len(ss) + 1
      BY <1>1, <1>5, <1>6
    <2>2. FlattenSeq(tt) = FlattenSeq(ss) \o tt[Len(ss) + 1]
      BY <1>5, <1>6, <1>7, <2>1, FlattenMore
    <2>3. QED
      BY <1>8, <2>2
  <1>10. AtEnd(h, text \o <<"\n">>)
    <2>1. h.col = Len(Runes(h, m + 1))
      BY <1>3
    <2>2. QED
      BY <1>3, <1>5, <1>6, <1>9, <2>1 DEF AtEnd
  <1>11. QED
    BY <1>10 DEF h

-----------------------------------------------------------------------------
(* A text put back into an empty pane.                                   *)

\* n steps from V to V, and where they lead from a
Steps(n, V) == [1 .. n -> [V -> V]]
Iterations(n, V, a, step) ==
    {h \in [0 .. n -> V] : h[0] = a /\ \A k \in 1 .. n : h[k] = step[k][h[k - 1]]}

\* A function may be defined by iteration.
LEMMA Iterated ==
  ASSUME NEW n \in Nat, NEW V, NEW a \in V, NEW step \in Steps(n, V)
  PROVE  Iterations(n, V, a, step) # {}
  <1> DEFINE rule == [k \in 0 .. n |-> [f \in [0 .. n -> V] |->
                         IF k = 0 THEN a ELSE step[k][f[k - 1]]]]
  <1> USE DEF Steps
  <1>1. rule \in Rules(n, V)
    <2>1. ASSUME NEW k \in 0 .. n, NEW f \in [0 .. n -> V]
          PROVE  (IF k = 0 THEN a ELSE step[k][f[k - 1]]) \in V
      <3>1. CASE k = 0
        BY <3>1
      <3>2. CASE k # 0
        <4>1. k - 1 \in 0 .. n /\ k \in 1 .. n
          BY <3>2
        <4>2. f[k - 1] \in V /\ step[k] \in [V -> V]
          BY <4>1
        <4>3. QED
          BY <3>2, <4>2
      <3>3. QED
        BY <3>1, <3>2
    <2>2. rule \in [0 .. n -> [[0 .. n -> V] -> V]]
      BY <2>1
    <2>3. ASSUME NEW k \in 0 .. n, NEW f \in [0 .. n -> V], NEW h \in [0 .. n -> V], Agree(f, h, k)
          PROVE  rule[k][f] = rule[k][h]
      BY <2>3 DEF Agree
    <2> HIDE DEF rule
    <2>4. QED
      BY <2>2, <2>3 DEF Rules
  <1>2. PICK h \in [0 .. n -> V] : \A k \in 0 .. n : h[k] = rule[k][h]
    <2>1. V # {}
      OBVIOUS
    <2> HIDE DEF rule
    <2>2. QED
      BY <1>1, <2>1, Recursion DEF Defined
  <1>3. h[0] = a /\ \A k \in 1 .. n : h[k] = step[k][h[k - 1]]
    BY <1>2
  <1>4. QED
    BY <1>3 DEF Iterations

\* A pane with one empty line
LEMMA OneEmptyLine ==
  ASSUME NEW h \in Frames, h.lines = <<Line(<<>>)>>
  PROVE  InputString(h) = <<>> /\ LastLine(h) = 0 /\ Runes(h, 0) = <<>>
  <1> DEFINE ls == <<Line(<<>>)>>
             ps == Pieces(h)
  <1>1. Len(ls) = 1 /\ ls[1].runes = <<>>
    BY DEF Line
  <1>2. h.lines = ls
    OBVIOUS
  <1> HIDE DEF ls
  <1>3. LastLine(h) = 0 /\ Runes(h, 0) = <<>>
    BY <1>1, <1>2 DEF LastLine, Runes
  <1>4. /\ ps \in Seq(Seq(TextRunes)) /\ Len(ps) = 0 + 1 /\ ps[1] = Runes(h, 0)
        /\ InputString(h) = FlattenSeq(ps)
    BY <1>3, PiecesOf
  <1> HIDE DEF ps
  <1>5. FlattenSeq(ps) = <<>>
    <2>1. ps # <<>> /\ Len(ps) = 1
      BY <1>4
    <2>2. PICK a \in Concatenations(TextRunes, ps) : FlattenSeq(ps) = a[Len(ps)]
      BY <1>4, <2>1, Flatten
    <2>3. QED
      BY <1>3, <1>4, <2>1, <2>2 DEF Concatenations
  <1>6. QED
    BY <1>3, <1>4, <1>5

\* ResetInput
LEMMA EmptyAtEnd ==
  ASSUME NEW f \in Frames
  PROVE  AtEnd(ResetInput(f), <<>>) /\ Placed(ResetInput(f), RuneSet)
  <1> DEFINE h  == ResetInput(f)
             ls == <<Line(<<>>)>>
  <1>1. ls \in Seq(LineSet(RuneSet)) \ {<<>>}
    BY EmptyText
  <1>2. h = [Nowhere(f) EXCEPT !.lines = ls]
    BY DEF ResetInput
  <1> HIDE DEF ls, h
  <1>3. h \in Frames /\ h.lines = ls /\ h.line = 0 /\ h.col = 0
    BY <1>1, <1>2 DEF Frames, FrameSet, Nowhere
  <1>4. InputString(h) = <<>> /\ LastLine(h) = 0 /\ Runes(h, 0) = <<>>
    BY <1>3, OneEmptyLine DEF ls
  <1>5. Placed(h, RuneSet)
    BY <1>3, StartPlaced DEF Frames
  <1>6. QED
    BY <1>3, <1>4, <1>5 DEF AtEnd, h

\* One rune of a text put at its end
PutRune(f, r) == IF r = "\n" THEN InsertNewline(f) ELSE InsertRune(f, r)

\* It makes a frame, which holds the longer text.
LEMMA PutAtEnd ==
  ASSUME NEW f \in Frames, NEW r \in TextRunes
  PROVE  /\ PutRune(f, r) \in Frames
         /\ \A text : AtEnd(f, text) => AtEnd(PutRune(f, r), text \o <<r>>)
  <1>1. f \in FrameSet(RuneSet)
    BY DEF Frames
  <1>2. CASE r = "\n"
    <2>1. InsertNewline(f) \in Frames
      BY <1>1, NewlineFrame DEF Broke, Frames
    <2>2. QED
      BY <1>2, <2>1, BreakAtEnd DEF PutRune
  <1>3. CASE r # "\n"
    <2>1. r \in RuneSet
      BY <1>3 DEF TextRunes
    <2>2. <<r>> \in Seq(RuneSet)
      BY <2>1
    <2>3. InsertRune(f, r) \in Frames
      BY <1>1, <2>2, InsertFrame DEF Wrote, Frames, InsertRune
    <2>4. QED
      BY <1>3, <2>1, <2>3, RuneAtEnd DEF PutRune
  <1>4. QED
    BY <1>2, <1>3

\* One rune more of a text
LEMMA NextPrefix ==
  ASSUME NEW S, NEW text \in Seq(S), NEW i \in 0 .. Len(text) - 1
  PROVE  SubSeq(text, 1, i + 1) = SubSeq(text, 1, i) \o <<text[i + 1]>>
  OBVIOUS

\* The whole text
LEMMA WholePrefix ==
  ASSUME NEW S, NEW text \in Seq(S)
  PROVE  SubSeq(text, 1, 0) = <<>> /\ SubSeq(text, 1, Len(text)) = text
  OBVIOUS

\* restoreInputFrameContent puts the text back, and then moves the cursor.
LEMMA PutBack ==
  ASSUME NEW f \in Frames, NEW text \in Seq(TextRunes), NEW line, NEW col
  PROVE  \E g : AtEnd(g, text) /\ RestoredInput(f, text, line, col) = RestoreCursor(g, line, col)
  <1> DEFINE n == Len(text)
             Is(to) == to = [i \in 0 .. n |->
                              IF i = 0 THEN ResetInput(f)
                              ELSE IF text[i] = "\n" THEN InsertNewline(to[i - 1])
                              ELSE InsertRune(to[i - 1], text[i])]
             put == CHOOSE to : Is(to)
             a == ResetInput(f)
             step == [k \in 1 .. n |-> [g \in Frames |-> PutRune(g, text[k])]]
  <1>1. n \in Nat /\ \A k \in 1 .. n : text[k] \in TextRunes
    OBVIOUS
  <1>2. RestoredInput(f, text, line, col) = RestoreCursor(put[n], line, col)
    BY Zenon DEF RestoredInput
  <1>3. AtEnd(a, <<>>) /\ a \in Frames
    BY EmptyAtEnd DEF AtEnd
  <1>4. PICK h \in [0 .. n -> Frames] : h[0] = a /\ \A k \in 1 .. n : h[k] = step[k][h[k - 1]]
    <2>1. step \in [1 .. n -> [Frames -> Frames]]
      BY <1>1, PutAtEnd
    <2> HIDE DEF step, a, n
    <2>2. step \in Steps(n, Frames)
      BY <2>1 DEF Steps
    <2>3. Iterations(n, Frames, a, step) # {}
      BY <1>1, <1>3, <2>2, Iterated
    <2>4. QED
      BY <2>3 DEF Iterations
  <1>5. ASSUME NEW i \in 1 .. n PROVE h[i] = PutRune(h[i - 1], text[i])
    <2>1. i - 1 \in 0 .. n
      BY <1>1
    <2>2. h[i - 1] \in Frames /\ h[i] = step[i][h[i - 1]]
      BY <1>4, <2>1
    <2>3. QED
      BY <2>2
  <1> HIDE DEF step, a, n
  <1>6. Is(h)
    <2>1. h = [i \in 0 .. n |-> h[i]]
      BY <1>4
    <2>2. ASSUME NEW i \in 0 .. n
          PROVE h[i] = IF i = 0 THEN ResetInput(f)
                              ELSE IF text[i] = "\n" THEN InsertNewline(h[i - 1])
                              ELSE InsertRune(h[i - 1], text[i])
      <3>1. i = 0 \/ i \in 1 .. n
        BY <1>1
      <3>2. QED
        BY <1>4, <1>5, <3>1 DEF a, PutRune
    <2>3. QED
      BY <2>1, <2>2
  <1>7. Is(put)
    <2> HIDE DEF Is
    <2>1. QED
      BY <1>6, Zenon
  <1> HIDE DEF put
  <1>8. put[0] = a /\ \A i \in 1 .. n : put[i] = PutRune(put[i - 1], text[i])
    <2>1. 0 \in 0 .. n
      BY <1>1
    <2>2. put[0] = a
      BY <1>7, <2>1 DEF a
    <2>3. ASSUME NEW i \in 1 .. n PROVE put[i] = PutRune(put[i - 1], text[i])
      <3>1. i \in 0 .. n /\ i # 0
        BY <1>1
      <3>2. QED
        BY <1>7, <3>1 DEF PutRune
    <2>4. QED
      BY <2>2, <2>3
  <1> DEFINE B == {i \in 0 .. n : AtEnd(put[i], SubSeq(text, 1, i))}
  <1>9. 0 \in B
    <2>1. SubSeq(text, 1, 0) = <<>>
      BY WholePrefix
    <2>2. AtEnd(put[0], SubSeq(text, 1, 0))
      BY <1>3, <1>8, <2>1
    <2>3. 0 \in 0 .. n
      BY <1>1
    <2>4. QED
      BY <2>2, <2>3
  <1>10. ASSUME NEW i \in 0 .. n - 1, i \in B PROVE i + 1 \in B
    <2>1. i + 1 \in 1 .. n /\ i + 1 \in 0 .. n /\ (i + 1) - 1 = i
      BY <1>1
    <2>2. AtEnd(put[i], SubSeq(text, 1, i)) /\ put[i] \in Frames
      BY <1>10 DEF AtEnd
    <2>3. put[i + 1] = PutRune(put[i], text[i + 1]) /\ text[i + 1] \in TextRunes
      BY <1>1, <1>8, <2>1
    <2>4. SubSeq(text, 1, i + 1) = SubSeq(text, 1, i) \o <<text[i + 1]>>
      <3>1. i \in 0 .. Len(text) - 1
        BY DEF n
      <3>2. QED
        BY <3>1, NextPrefix
    <2>5. AtEnd(put[i + 1], SubSeq(text, 1, i + 1))
      BY <2>2, <2>3, <2>4, PutAtEnd
    <2>6. QED
      BY <2>1, <2>5
  <1> HIDE DEF B
  <1>11. n \in B
    <2>1. 0 .. n \subseteq B
      BY <1>1, <1>9, <1>10, UpTo
    <2>2. QED
      BY <1>1, <2>1
  <1>12. AtEnd(put[n], text)
    BY <1>11, WholePrefix DEF B, n
  <1>13. QED
    BY <1>2, <1>12

\* Going right any number of times
LEMMA WalkRight ==
  ASSUME NEW S, S \subseteq RuneSet, NEW f, Placed(f, S), NEW n \in Nat
  PROVE  Keeps(Times(MoveCursorRight, n, f), f, S)
  <1> DEFINE V == {g \in FrameSet(S) : Keeps(g, f, S)}
             Is(to) == to = [i \in 0 .. n |-> IF i = 0 THEN f ELSE MoveCursorRight(to[i - 1])]
             after == CHOOSE to : Is(to)
             step == [k \in 1 .. n |-> [g \in V |-> MoveCursorRight(g)]]
  <1>1. Times(MoveCursorRight, n, f) = after[n]
    BY Zenon DEF Times
  <1>2. f \in V
    BY DEF Keeps, Like, Placed
  <1>3. ASSUME NEW g \in V PROVE MoveCursorRight(g) \in V
    <2>1. Keeps(g, f, S) /\ Placed(g, S)
      BY DEF Keeps
    <2>2. Keeps(MoveCursorRight(g), g, S)
      BY <2>1, RowKeys, SidesKeep
    <2>3. Keeps(MoveCursorRight(g), f, S)
      BY <2>1, <2>2, KeepsTwice
    <2>4. QED
      BY <2>3 DEF Keeps, Placed
  <1> HIDE DEF V
  <1>4. PICK h \in [0 .. n -> V] : h[0] = f /\ \A k \in 1 .. n : h[k] = step[k][h[k - 1]]
    <2>1. step \in Steps(n, V)
      BY <1>3 DEF Steps
    <2> HIDE DEF step
    <2>2. Iterations(n, V, f, step) # {}
      BY <1>2, <2>1, Iterated
    <2>3. QED
      BY <2>2 DEF Iterations
  <1>5. ASSUME NEW i \in 1 .. n PROVE h[i] = MoveCursorRight(h[i - 1])
    <2>1. i - 1 \in 0 .. n
      OBVIOUS
    <2>2. h[i - 1] \in V /\ h[i] = step[i][h[i - 1]]
      BY <1>4, <2>1
    <2>3. QED
      BY <2>2
  <1> HIDE DEF step
  <1>6. Is(h)
    <2>1. h = [i \in 0 .. n |-> h[i]]
      BY <1>4
    <2>2. ASSUME NEW i \in 0 .. n PROVE h[i] = IF i = 0 THEN f ELSE MoveCursorRight(h[i - 1])
      <3>1. i = 0 \/ i \in 1 .. n
        OBVIOUS
      <3>2. QED
        BY <1>4, <1>5, <3>1
    <2>3. QED
      BY <2>1, <2>2
  <1>7. Is(after)
    <2> HIDE DEF Is
    <2>1. QED
      BY <1>6, Zenon
  <1> HIDE DEF after
  <1> DEFINE B == {i \in 0 .. n : after[i] \in V}
  <1>8. 0 \in B
    <2>1. 0 \in 0 .. n
      OBVIOUS
    <2>2. after[0] = f
      BY <1>7, <2>1
    <2>3. QED
      BY <1>2, <2>1, <2>2
  <1>9. ASSUME NEW i \in 0 .. n - 1, i \in B PROVE i + 1 \in B
    <2>1. i + 1 \in 0 .. n /\ i + 1 # 0 /\ (i + 1) - 1 = i
      OBVIOUS
    <2>2. after[i + 1] = MoveCursorRight(after[i])
      BY <1>7, <2>1
    <2>3. QED
      BY <1>3, <1>9, <2>1, <2>2
  <1> HIDE DEF B
  <1>10. n \in B
    <2>1. 0 .. n \subseteq B
      BY <1>8, <1>9, UpTo
    <2>2. QED
      BY <2>1
  <1>11. QED
    BY <1>1, <1>10 DEF B, V

\* Going down any number of rows
LEMMA WalkDown ==
  ASSUME NEW S, S \subseteq RuneSet, NEW f, Placed(f, S), NEW n \in Nat
  PROVE  Keeps(Times(MoveCursorDown, n, f), f, S)
  <1> DEFINE V == {g \in FrameSet(S) : Keeps(g, f, S)}
             Is(to) == to = [i \in 0 .. n |-> IF i = 0 THEN f ELSE MoveCursorDown(to[i - 1])]
             after == CHOOSE to : Is(to)
             step == [k \in 1 .. n |-> [g \in V |-> MoveCursorDown(g)]]
  <1>1. Times(MoveCursorDown, n, f) = after[n]
    BY Zenon DEF Times
  <1>2. f \in V
    BY DEF Keeps, Like, Placed
  <1>3. ASSUME NEW g \in V PROVE MoveCursorDown(g) \in V
    <2>1. Keeps(g, f, S) /\ Placed(g, S)
      BY DEF Keeps
    <2>2. Keeps(MoveCursorDown(g), g, S)
      BY <2>1, RowKeys, SidesKeep
    <2>3. Keeps(MoveCursorDown(g), f, S)
      BY <2>1, <2>2, KeepsTwice
    <2>4. QED
      BY <2>3 DEF Keeps, Placed
  <1> HIDE DEF V
  <1>4. PICK h \in [0 .. n -> V] : h[0] = f /\ \A k \in 1 .. n : h[k] = step[k][h[k - 1]]
    <2>1. step \in Steps(n, V)
      BY <1>3 DEF Steps
    <2> HIDE DEF step
    <2>2. Iterations(n, V, f, step) # {}
      BY <1>2, <2>1, Iterated
    <2>3. QED
      BY <2>2 DEF Iterations
  <1>5. ASSUME NEW i \in 1 .. n PROVE h[i] = MoveCursorDown(h[i - 1])
    <2>1. i - 1 \in 0 .. n
      OBVIOUS
    <2>2. h[i - 1] \in V /\ h[i] = step[i][h[i - 1]]
      BY <1>4, <2>1
    <2>3. QED
      BY <2>2
  <1> HIDE DEF step
  <1>6. Is(h)
    <2>1. h = [i \in 0 .. n |-> h[i]]
      BY <1>4
    <2>2. ASSUME NEW i \in 0 .. n PROVE h[i] = IF i = 0 THEN f ELSE MoveCursorDown(h[i - 1])
      <3>1. i = 0 \/ i \in 1 .. n
        OBVIOUS
      <3>2. QED
        BY <1>4, <1>5, <3>1
    <2>3. QED
      BY <2>1, <2>2
  <1>7. Is(after)
    <2> HIDE DEF Is
    <2>1. QED
      BY <1>6, Zenon
  <1> HIDE DEF after
  <1> DEFINE B == {i \in 0 .. n : after[i] \in V}
  <1>8. 0 \in B
    <2>1. 0 \in 0 .. n
      OBVIOUS
    <2>2. after[0] = f
      BY <1>7, <2>1
    <2>3. QED
      BY <1>2, <2>1, <2>2
  <1>9. ASSUME NEW i \in 0 .. n - 1, i \in B PROVE i + 1 \in B
    <2>1. i + 1 \in 0 .. n /\ i + 1 # 0 /\ (i + 1) - 1 = i
      OBVIOUS
    <2>2. after[i + 1] = MoveCursorDown(after[i])
      BY <1>7, <2>1
    <2>3. QED
      BY <1>3, <1>9, <2>1, <2>2
  <1> HIDE DEF B
  <1>10. n \in B
    <2>1. 0 .. n \subseteq B
      BY <1>8, <1>9, UpTo
    <2>2. QED
      BY <2>1
  <1>11. QED
    BY <1>1, <1>10 DEF B, V

\* restoreInputFrameContent and setHistoryFrameFromBlocks bring the cursor back to a place
\* of the text.
LEMMA RestoreKeeps ==
  ASSUME NEW S, S \subseteq RuneSet, NEW f \in FrameSet(S), NEW line \in Nat, NEW col \in Nat
  PROVE  Keeps(RestoreCursor(f, line, col), f, S)
  <1> DEFINE a == MoveHome(f)
             b == Times(MoveCursorDown, line, a)
             c == Times(MoveCursorRight, col, b)
             d == EnsureCursorVisible(c)
  <1>1. RestoreCursor(f, line, col) = d
    BY DEF RestoreCursor
  <1>2. Keeps(a, f, S)
    BY EndsKeep
  <1> HIDE DEF a
  <1>3. Keeps(b, a, S)
    BY <1>2, WalkDown DEF Keeps
  <1> HIDE DEF b
  <1>4. Keeps(c, b, S)
    BY <1>3, WalkRight DEF Keeps
  <1> HIDE DEF c
  <1>5. Keeps(c, f, S)
    BY <1>2, <1>3, <1>4, KeepsTwice
  <1>6. Keeps(d, f, S)
    BY <1>5, ShownKeeps
  <1>7. QED
    BY <1>1, <1>6

\* The text of a frame depends on its lines alone.
LEMMA LikeText ==
  ASSUME NEW f, NEW g, Like(g, f)
  PROVE  InputString(g) = InputString(f)
  BY DEF InputString, Like

\* A restored pane holds the text it was given, with the cursor in it
\* (restoreInputFrameContent).
LEMMA Restored ==
  ASSUME NEW f \in Frames, NEW text \in Seq(TextRunes), NEW line \in Nat, NEW col \in Nat
  PROVE  /\ Placed(RestoredInput(f, text, line, col), RuneSet)
         /\ InputString(RestoredInput(f, text, line, col)) = text
  <1>1. PICK g : AtEnd(g, text) /\ RestoredInput(f, text, line, col) = RestoreCursor(g, line, col)
    BY PutBack
  <1> DEFINE h == RestoreCursor(g, line, col)
  <1>2. g \in FrameSet(RuneSet) /\ InputString(g) = text
    BY <1>1 DEF AtEnd, Frames
  <1>3. Keeps(h, g, RuneSet)
    BY <1>2, RestoreKeeps
  <1> HIDE DEF h
  <1>4. Placed(h, RuneSet) /\ InputString(h) = text
    BY <1>2, <1>3, LikeText DEF Keeps
  <1>5. QED
    BY <1>1, <1>4 DEF h

-----------------------------------------------------------------------------
(* The lines of a text.                                                  *)

\* The text of a frame is made of runes and line breaks.
LEMMA TextOf ==
  ASSUME NEW f \in Frames
  PROVE  InputString(f) \in Seq(TextRunes)
  <1> DEFINE ps == Pieces(f)
  <1>1. /\ InputString(f) = FlattenSeq(ps) /\ ps \in Seq(Seq(TextRunes))
        /\ Len(ps) = LastLine(f) + 1 /\ LastLine(f) \in Nat
    BY PiecesOf
  <1> HIDE DEF ps
  <1>2. ps # <<>> /\ Len(ps) \in 1 .. Len(ps)
    BY <1>1
  <1>3. PICK a \in Concatenations(TextRunes, ps) : FlattenSeq(ps) = a[Len(ps)]
    BY <1>1, <1>2, Flatten
  <1>4. QED
    BY <1>1, <1>2, <1>3 DEF Concatenations

\* One rune more for the lines of a text
Taken(parts, r) == IF r = "\n" THEN Append(parts, <<>>)
                   ELSE Append(Front(parts), Append(Last(parts), r))

\* It makes lines.
LEMMA TakenLines ==
  ASSUME NEW S, NEW parts \in Seq(Seq(S)) \ {<<>>}, NEW r \in S
  PROVE  Taken(parts, r) \in Seq(Seq(S)) \ {<<>>}
  <1>1. Len(parts) \in Nat \ {0}
    BY EmptySeq
  <1>2. Append(parts, <<>>) \in Seq(Seq(S)) \ {<<>>}
    <2> DEFINE e == <<>>
    <2>1. e \in Seq(S)
      OBVIOUS
    <2> HIDE DEF e
    <2>2. Append(parts, e) \in Seq(Seq(S)) /\ Len(Append(parts, e)) = Len(parts) + 1
      BY <2>1
    <2>3. Append(parts, e) # <<>>
      BY <1>1, <2>2
    <2>4. QED
      BY <2>2, <2>3 DEF e
  <1>3. Append(Front(parts), Append(Last(parts), r)) \in Seq(Seq(S)) \ {<<>>}
    <2> DEFINE a == Front(parts)
               b == Append(Last(parts), r)
    <2>1. a \in Seq(Seq(S))
      <3>1. a = SubSeq(parts, 1, Len(parts) - 1)
        BY DEF Front
      <3>2. QED
        BY <1>1, <3>1
    <2>2. b \in Seq(S)
      <3> DEFINE l == Last(parts)
      <3>1. l \in Seq(S)
        <4>1. Len(parts) \in 1 .. Len(parts)
          BY <1>1
        <4>2. QED
          BY <4>1 DEF Last
      <3> HIDE DEF l
      <3>2. Append(l, r) \in Seq(S)
        BY <3>1
      <3>3. QED
        BY <3>2 DEF l
    <2> HIDE DEF a, b
    <2>3. Append(a, b) \in Seq(Seq(S)) /\ Len(Append(a, b)) = Len(a) + 1 /\ Len(a) \in Nat
      BY <2>1, <2>2
    <2>4. Append(a, b) # <<>>
      <3> DEFINE c == Append(a, b)
      <3>1. Len(c) = Len(a) + 1 /\ Len(a) \in Nat
        BY <2>3
      <3> HIDE DEF c
      <3>2. c # <<>>
        BY <3>1
      <3>3. QED
        BY <3>2 DEF c
    <2>5. QED
      BY <2>3, <2>4 DEF a, b
  <1>4. QED
    BY <1>2, <1>3 DEF Taken

\* The lines of a text: one at least
LEMMA SplitIn ==
  ASSUME NEW S, NEW text \in Seq(S)
  PROVE  SplitLines(text) \in Seq(Seq(S)) \ {<<>>}
  <1> DEFINE n == Len(text)
             V == Seq(Seq(S)) \ {<<>>}
             Is(to) == to = [i \in 0 .. n |->
                              IF i = 0 THEN << <<>> >>
                              ELSE IF text[i] = "\n" THEN Append(to[i - 1], <<>>)
                              ELSE Append(Front(to[i - 1]), Append(Last(to[i - 1]), text[i]))]
             split == CHOOSE to : Is(to)
             a == << <<>> >>
             step == [k \in 1 .. n |-> [g \in V |-> Taken(g, text[k])]]
  <1>1. n \in Nat /\ \A k \in 1 .. n : text[k] \in S
    OBVIOUS
  <1>2. SplitLines(text) = split[n]
    BY Zenon DEF SplitLines
  <1>3. a \in V
    <2>1. <<>> \in Seq(S)
      OBVIOUS
    <2>2. QED
      BY <2>1
  <1>4. ASSUME NEW g \in V, NEW k \in 1 .. n PROVE Taken(g, text[k]) \in V
    BY <1>1, TakenLines
  <1> HIDE DEF V, n
  <1>5. PICK h \in [0 .. n -> V] : h[0] = a /\ \A k \in 1 .. n : h[k] = step[k][h[k - 1]]
    <2>1. step \in Steps(n, V)
      BY <1>4 DEF Steps
    <2> HIDE DEF step, a
    <2>2. Iterations(n, V, a, step) # {}
      BY <1>1, <1>3, <2>1, Iterated
    <2>3. QED
      BY <2>2 DEF Iterations
  <1>6. ASSUME NEW i \in 1 .. n PROVE h[i] = Taken(h[i - 1], text[i])
    <2>1. i - 1 \in 0 .. n
      BY <1>1
    <2>2. h[i - 1] \in V /\ h[i] = step[i][h[i - 1]]
      BY <1>5, <2>1
    <2>3. QED
      BY <2>2
  <1> HIDE DEF step
  <1>7. Is(h)
    <2>1. h = [i \in 0 .. n |-> h[i]]
      BY <1>5
    <2>2. ASSUME NEW i \in 0 .. n
          PROVE h[i] = IF i = 0 THEN << <<>> >>
                       ELSE IF text[i] = "\n" THEN Append(h[i - 1], <<>>)
                       ELSE Append(Front(h[i - 1]), Append(Last(h[i - 1]), text[i]))
      <3>1. i = 0 \/ i \in 1 .. n
        BY <1>1
      <3>2. QED
        BY <1>5, <1>6, <3>1, Zenon DEF Taken
    <2>3. QED
      BY <2>1, <2>2, Zenon
  <1>8. Is(split)
    <2> HIDE DEF Is
    <2>1. QED
      BY <1>7, Zenon
  <1> HIDE DEF split
  <1>9. split[0] = a /\ \A i \in 1 .. n : split[i] = Taken(split[i - 1], text[i])
    <2>1. 0 \in 0 .. n
      BY <1>1
    <2>2. split[0] = a
      BY <1>8, <2>1
    <2>3. ASSUME NEW i \in 1 .. n PROVE split[i] = Taken(split[i - 1], text[i])
      <3>1. i \in 0 .. n /\ i # 0
        BY <1>1
      <3>2. QED
        BY <1>8, <3>1 DEF Taken
    <2>4. QED
      BY <2>2, <2>3
  <1> HIDE DEF a
  <1> DEFINE B == {i \in 0 .. n : split[i] \in V}
  <1>10. 0 \in B
    BY <1>1, <1>3, <1>9
  <1>11. ASSUME NEW i \in 0 .. n - 1, i \in B PROVE i + 1 \in B
    <2>1. i + 1 \in 1 .. n /\ i + 1 \in 0 .. n /\ (i + 1) - 1 = i
      BY <1>1
    <2>2. split[i + 1] = Taken(split[i], text[i + 1])
      BY <1>9, <2>1
    <2>3. QED
      BY <1>4, <1>11, <2>1, <2>2
  <1> HIDE DEF B
  <1>12. n \in B
    <2>1. 0 .. n \subseteq B
      BY <1>1, <1>10, <1>11, UpTo
    <2>2. QED
      BY <1>1, <2>1
  <1>13. QED
    BY <1>2, <1>12 DEF B, V

\* A text makes lines for a pane.
LEMMA TextLinesIn ==
  ASSUME NEW S, NEW text \in Seq(S)
  PROVE  TextLines(text) \in Seq(LineSet(S)) \ {<<>>}
  <1> DEFINE parts == SplitLines(text)
             ls == [n \in DOMAIN parts |-> Line(parts[n])]
  <1>1. parts \in Seq(Seq(S)) \ {<<>>}
    BY SplitIn
  <1>2. TextLines(text) = ls
    BY DEF TextLines
  <1> HIDE DEF parts
  <1>3. DOMAIN parts = 1 .. Len(parts) /\ Len(parts) \in Nat \ {0}
        /\ \A n \in 1 .. Len(parts) : parts[n] \in Seq(S)
    BY <1>1, EmptySeq
  <1>4. \A n \in 1 .. Len(parts) : Line(parts[n]) \in LineSet(S)
    BY <1>3, LineIn
  <1>5. ls \in [1 .. Len(parts) -> LineSet(S)]
    BY <1>3, <1>4
  <1> HIDE DEF ls
  <1>6. ls \in Seq(LineSet(S)) /\ Len(ls) = Len(parts)
    BY <1>3, <1>5
  <1>7. ls # <<>>
    BY <1>3, <1>6
  <1>8. QED
    BY <1>2, <1>6, <1>7

\* A refresh puts the cursor at a place of the new text (setHistoryFrameFromBlocks).
LEMMA RefreshKeeps ==
  ASSUME NEW f, Placed(f, RuneSet), NEW lines \in Seq(LineSet(RuneSet)) \ {<<>>}, NEW follow
  PROVE  Placed(Refresh(f, lines, follow), RuneSet)
  <1> DEFINE S == RuneSet
             g == SetLines(f, lines)
  <1>1. f \in FrameSet(S) /\ f.line \in Nat /\ f.col \in Nat
    BY DEF Placed, FrameSet
  <1>2. Placed(g, S)
    <2>1. [f EXCEPT !.lines = lines] \in FrameSet(S)
      BY <1>1, LinesFrame
    <2>2. QED
      BY <2>1, RefreshPlaced
  <1> HIDE DEF g
  <1>3. Keeps(MoveEnd(g), g, S) /\ Keeps(RestoreCursor(g, f.line, f.col), g, S)
    <2>1. g \in FrameSet(S)
      BY <1>2 DEF Placed
    <2>2. QED
      BY <1>1, <2>1, EndsKeep, RestoreKeeps
  <1>4. QED
    BY <1>3 DEF Refresh, Keeps, g

-----------------------------------------------------------------------------
(* The thread view: the text the user has typed and not sent.            *)

\* ShowReasoningInInput changes only while no run is under way.
Steady == PrefChanges = "idle"

\* A pane is at least two columns wide.
WideView == \A w \in Widths : w > 1

\* The fields of a run, of tvUI.running and of the draft
RunShape(r) ==
    /\ r = [phase |-> r.phase, prompt |-> r.prompt, content |-> r.content, reasoning |-> r.reasoning]
    /\ r.reasoning \in 0 .. Len(Reasonings)

RunningShape(r) ==
    /\ r = [on |-> r.on, followHistory |-> r.followHistory, followReasoning |-> r.followReasoning,
            content |-> r.content, reasoning |-> r.reasoning]
    /\ r.on \in BOOLEAN

Drafts == [text : Seq(TextRunes), line : Nat, col : Nat]

ViewShape ==
    /\ width \in Widths /\ at \in {"menu", "view"}
    /\ RunShape(run) /\ RunningShape(running)
    /\ Placed(input, RuneSet) /\ draft \in Drafts

\* Where the text of the user is: in the input pane or, over the menu, in the draft;
\* nowhere while the pane shows the reasoning of a run.
TextSafe ==
    /\ at = "view" /\ isArchived => ~running.on
    /\ ShowsReasoning => mine = <<>>
    /\ at = "view" /\ ~isArchived /\ ~ShowsReasoning /\ ~wiped => InputString(input) = mine
    /\ at = "menu" /\ ~ShowsReasoning /\ ~wiped => draft.text = mine

DraftInv == ViewShape /\ TextSafe

\* A new input pane is empty (ensureInputFrameHasLine).
LEMMA NewInput ==
  ASSUME WideView, NEW w \in Widths
  PROVE  /\ InputFrame(w) \in Frames /\ Placed(InputFrame(w), RuneSet)
         /\ InputString(InputFrame(w)) = <<>>
  <1> DEFINE h  == InputFrame(w)
             ls == <<Line(<<>>)>>
             e  == Frame(Height, w, "hard")
  <1>1. ls \in Seq(LineSet(RuneSet)) \ {<<>>}
    BY EmptyText
  <1>2. h = [Nowhere(e) EXCEPT !.lines = ls]
    BY DEF InputFrame, ResetInput
  <1>3. Height \in Nat \ {0} /\ w \in Nat \ {0, 1}
    BY ViewAssumption DEF WideView
  <1> HIDE DEF ls, h
  <1>4. h \in FrameSet(RuneSet) /\ h.lines = ls /\ h.line = 0 /\ h.col = 0
    <2>1. [Nowhere(e) EXCEPT !.lines = ls] \in FrameSet(RuneSet)
      BY <1>1, <1>3, NewFrame
    <2>2. h.lines = ls /\ h.line = 0 /\ h.col = 0
      BY <1>2 DEF Nowhere, Frame
    <2>3. QED
      BY <1>2, <2>1, <2>2
  <1>5. Placed(h, RuneSet)
    BY <1>4, StartPlaced
  <1>6. InputString(h) = <<>>
    BY <1>4, OneEmptyLine DEF Frames, ls
  <1>7. QED
    BY <1>4, <1>5, <1>6 DEF Frames, h

\* EnsureCursorVisible keeps the text.
LEMMA EnsuredText ==
  ASSUME NEW f \in FrameSet(RuneSet)
  PROVE  /\ Placed(EnsureCursorVisible(f), RuneSet)
         /\ InputString(EnsureCursorVisible(f)) = InputString(f)
  <1> DEFINE h == EnsureCursorVisible(f)
  <1>1. Keeps(h, f, RuneSet)
    BY Ensured
  <1> HIDE DEF h
  <1>2. Placed(h, RuneSet) /\ InputString(h) = InputString(f)
    BY <1>1, LikeText DEF Keeps
  <1>3. QED
    BY <1>2 DEF h

\* The keys that move the cursor keep the text.
LEMMA MovedText ==
  ASSUME NEW f, Placed(f, RuneSet), NEW key \in Keys, NEW b
  PROVE  Placed(Moved(key, f, b), RuneSet) /\ InputString(Moved(key, f, b)) = InputString(f)
  <1> DEFINE h == Moved(key, f, b)
  <1>1. Keeps(h, f, RuneSet)
    BY MovedKeeps
  <1> HIDE DEF h
  <1>2. Placed(h, RuneSet) /\ InputString(h) = InputString(f)
    BY <1>1, LikeText DEF Keeps
  <1>3. QED
    BY <1>2 DEF h

\* Every edit of the input pane makes a frame.
LEMMA ViewEdits ==
  ASSUME NEW f, Placed(f, RuneSet)
  PROVE  /\ \A r \in UserRunes : InsertRune(f, r) \in FrameSet(RuneSet)
         /\ InsertTab(f) \in FrameSet(RuneSet) /\ InsertNewline(f) \in FrameSet(RuneSet)
         /\ Backspace(f) \in FrameSet(RuneSet) /\ DeleteForward(f) \in FrameSet(RuneSet)
  <1> DEFINE S == RuneSet
  <1>1. UserRunes \subseteq S /\ " " \in S
    BY ViewAssumption DEF RuneSet, Blanks
  <1> HIDE DEF S
  <1>2. f \in FrameSet(S) /\ Placed(f, S) /\ S \subseteq RuneSet
    BY DEF Placed, S
  <1>3. ASSUME NEW rs \in Seq(S) PROVE InsertRunes(f, rs) \in FrameSet(S)
    BY <1>2, <1>3, InsertFrame DEF Wrote
  <1>4. ASSUME NEW r \in UserRunes PROVE InsertRune(f, r) \in FrameSet(S)
    <2>1. r \in S
      BY <1>1
    <2>2. <<r>> \in Seq(S)
      BY <2>1
    <2>3. QED
      BY <1>3, <2>2 DEF InsertRune
  <1>5. InsertTab(f) \in FrameSet(S)
    BY <1>1, <1>3, TabRunes, TabAssumption DEF InsertTab
  <1>6. InsertNewline(f) \in FrameSet(S)
    BY <1>2, NewlineFrame DEF Broke
  <1>7. Backspace(f) \in FrameSet(S) /\ DeleteForward(f) \in FrameSet(S)
    BY <1>2, BackspaceFrame, DeleteFrame
  <1>8. QED
    BY <1>4, <1>5, <1>6, <1>7 DEF S

\* The reasoning of a run makes lines for the pane.
LEMMA ReasoningIn ==
  ASSUME NEW r, r.reasoning \in 0 .. Len(Reasonings)
  PROVE  ReasoningLines(r) \in Seq(LineSet(RuneSet)) \ {<<>>}
  <1> DEFINE n == r.reasoning
             text == IF n = 0 THEN <<>> ELSE Reasonings[n]
  <1>1. text \in Seq(RuneSet)
    <2>1. CASE n = 0
      BY <2>1
    <2>2. CASE n # 0
      <3>1. n \in 1 .. Len(Reasonings)
        BY <2>2, ViewAssumption
      <3>2. Reasonings[n] \in Seq(STRING)
        BY <3>1, ViewAssumption
      <3>3. Reasonings[n] \in Seq(RuneSet)
        BY <3>2 DEF RuneSet
      <3>4. QED
        BY <2>2, <3>3
    <2>3. QED
      BY <2>1, <2>2
  <1>2. ReasoningLines(r) = TextLines(text)
    BY DEF ReasoningLines
  <1> HIDE DEF text
  <1>3. QED
    BY <1>1, <1>2, TextLinesIn

\* A record of the fields of tvUI.running
LEMMA RunningOf ==
  ASSUME NEW a \in BOOLEAN, NEW b, NEW c, NEW d, NEW e
  PROVE  LET r == [on |-> a, followHistory |-> b, followReasoning |-> c,
                   content |-> d, reasoning |-> e]
         IN  RunningShape(r) /\ r.on = a
  BY DEF RunningShape

\* The state of a run in the view, changed field by field
LEMMA RunningFields ==
  ASSUME NEW r, RunningShape(r), NEW v
  PROVE  /\ RunningShape([r EXCEPT !.content = v]) /\ [r EXCEPT !.content = v].on = r.on
         /\ RunningShape([r EXCEPT !.reasoning = v]) /\ [r EXCEPT !.reasoning = v].on = r.on
         /\ RunningShape([r EXCEPT !.followHistory = v]) /\ [r EXCEPT !.followHistory = v].on = r.on
         /\ RunningShape([r EXCEPT !.followReasoning = v])
         /\ [r EXCEPT !.followReasoning = v].on = r.on
  <1> DEFINE a == r.on
             b == r.followHistory
             c == r.followReasoning
             d == r.content
             e == r.reasoning
             R(A, B, C, D, E) == [on |-> A, followHistory |-> B, followReasoning |-> C,
                                  content |-> D, reasoning |-> E]
  <1>1. r = R(a, b, c, d, e) /\ a \in BOOLEAN
    BY DEF RunningShape
  <1>2. r.on = a
    OBVIOUS
  <1> HIDE DEF a, b, c, d, e
  <1>3. /\ [r EXCEPT !.content = v] = R(a, b, c, v, e)
        /\ [r EXCEPT !.reasoning = v] = R(a, b, c, d, v)
        /\ [r EXCEPT !.followHistory = v] = R(a, v, c, d, e)
        /\ [r EXCEPT !.followReasoning = v] = R(a, b, v, d, e)
    BY <1>1
  <1>4. \A B, C, D, E : RunningShape(R(a, B, C, D, E)) /\ R(a, B, C, D, E).on = a
    BY <1>1, RunningOf
  <1> HIDE DEF R
  <1>5. QED
    BY <1>2, <1>3, <1>4

\* Its two constants
LEMMA RunningConstants ==
  /\ RunningShape(NotRunning) /\ NotRunning.on = FALSE
  /\ RunningShape(Started) /\ Started.on = TRUE
  BY DEF RunningShape, NotRunning, Started

\* A record of the fields of a run
LEMMA RunOf ==
  ASSUME NEW a, NEW b, NEW c, NEW d \in 0 .. Len(Reasonings)
  PROVE  RunShape([phase |-> a, prompt |-> b, content |-> c, reasoning |-> d])
  BY DEF RunShape

\* Any of its fields changed
LEMMA RunFields ==
  ASSUME NEW r, RunShape(r), NEW v, NEW u \in 0 .. Len(Reasonings)
  PROVE  /\ RunShape([r EXCEPT !.phase = v]) /\ RunShape([r EXCEPT !.content = v])
         /\ RunShape([r EXCEPT !.reasoning = u])
  <1> DEFINE a == r.phase
             b == r.prompt
             c == r.content
             d == r.reasoning
             R(A, B, C, D) == [phase |-> A, prompt |-> B, content |-> C, reasoning |-> D]
  <1>1. r = R(a, b, c, d) /\ d \in 0 .. Len(Reasonings)
    BY DEF RunShape
  <1> HIDE DEF a, b, c, d
  <1>2. /\ [r EXCEPT !.phase = v] = R(v, b, c, d) /\ [r EXCEPT !.content = v] = R(a, b, v, d)
        /\ [r EXCEPT !.reasoning = u] = R(a, b, c, u)
    BY <1>1
  <1>3. \A A, B, C : \A D \in 0 .. Len(Reasonings) : RunShape(R(A, B, C, D))
    BY RunOf
  <1> HIDE DEF R
  <1>4. QED
    BY <1>1, <1>2, <1>3

\* A run that was not started, and one that was
LEMMA RunStarts ==
  /\ RunShape(NoRun)
  /\ \A p : RunShape([NoRun EXCEPT !.phase = "active", !.prompt = p])
  <1>1. 0 \in 0 .. Len(Reasonings)
    BY ViewAssumption
  <1>2. RunShape(NoRun)
    <2>1. RunShape([phase |-> "none", prompt |-> <<>>, content |-> 0, reasoning |-> 0])
      BY <1>1, RunOf
    <2>2. QED
      BY <2>1 DEF NoRun
  <1>3. ASSUME NEW p PROVE RunShape([NoRun EXCEPT !.phase = "active", !.prompt = p])
    <2>1. [NoRun EXCEPT !.phase = "active", !.prompt = p]
            = [phase |-> "active", prompt |-> p, content |-> 0, reasoning |-> 0]
      <3> DEFINE m == [NoRun EXCEPT !.phase = "active"]
      <3>1. m = [phase |-> "active", prompt |-> <<>>, content |-> 0, reasoning |-> 0]
        BY DEF NoRun
      <3>2. [NoRun EXCEPT !.phase = "active", !.prompt = p] = [m EXCEPT !.prompt = p]
        OBVIOUS
      <3> HIDE DEF m
      <3>3. QED
        BY <3>1, <3>2
    <2>2. QED
      BY <1>1, <2>1, RunOf
  <1>4. QED
    BY <1>2, <1>3

\* Captured is a draft (captureInputDraft).
LEMMA CapturedIn ==
  ASSUME Placed(input, RuneSet)
  PROVE  /\ Captured \in Drafts /\ Captured.text = InputString(input)
         /\ Captured.text \in Seq(TextRunes) /\ Captured.line \in Nat /\ Captured.col \in Nat
  <1>1. input \in Frames /\ input.line \in Nat /\ input.col \in Nat
    BY DEF Placed, Frames, FrameSet
  <1>2. InputString(input) \in Seq(TextRunes)
    BY <1>1, TextOf
  <1> DEFINE text == InputString(input)
  <1> HIDE DEF text
  <1>3. Captured = [text |-> text, line |-> input.line, col |-> input.col]
    BY DEF Captured, text
  <1>4. QED
    BY <1>1, <1>2, <1>3 DEF Drafts, text

\* The draft that is not there
LEMMA NoDraftIn == NoDraft \in Drafts /\ NoDraft.text = <<>>
  <1>1. <<>> \in Seq(TextRunes)
    OBVIOUS
  <1>2. QED
    BY <1>1 DEF NoDraft, Drafts

\* Nothing is typed yet.
LEMMA InitSafe ==
  ASSUME WideView, ViewInit
  PROVE  DraftInv
  <1>1. width \in Widths /\ at = "menu" /\ run = NoRun /\ running = NotRunning
        /\ input = InputFrame(width) /\ draft = NoDraft /\ mine = <<>>
    BY DEF ViewInit
  <1>2. Placed(input, RuneSet)
    BY <1>1, NewInput
  <1>3. ViewShape
    BY <1>1, <1>2, NoDraftIn, RunningConstants, RunStarts DEF ViewShape
  <1>4. TextSafe
    BY <1>1, NoDraftIn, RunningConstants DEF TextSafe, ShowsReasoning
  <1>5. QED
    BY <1>3, <1>4 DEF DraftInv

\* Opening the view puts the draft into its pane.
LEMMA OpenSafe ==
  ASSUME WideView, DraftInv, Open
  PROVE  DraftInv'
  <1> DEFINE r == IF isArchived' THEN NotRunning ELSE running
             v == IF r.on THEN run.content ELSE r.content
             w == InputFrame(width)
  <1>1. /\ at = "menu" /\ at' = "view" /\ width' = width /\ pref' = pref /\ mine' = mine /\ wiped' = wiped
        /\ running' = [r EXCEPT !.content = v]
        /\ run' = IF running.on /\ ~r.on THEN NoRun ELSE run
        /\ input' = IF isArchived' THEN w
                    ELSE RestoredInput(w, draft.text, draft.line, draft.col)
        /\ draft' = IF isArchived' THEN draft ELSE NoDraft
    BY DEF Open
  <1>2. ViewShape /\ TextSafe
    BY DEF DraftInv
  <1>3. RunningShape(r)
    BY <1>2, RunningConstants DEF ViewShape
  <1> HIDE DEF v, w
  <1>4. RunningShape(running') /\ running'.on = r.on
    <2> HIDE DEF r
    <2>1. RunningShape([r EXCEPT !.content = v]) /\ [r EXCEPT !.content = v].on = r.on
      BY <1>3, RunningFields
    <2>2. QED
      BY <1>1, <2>1
  <1>5. w \in Frames /\ Placed(w, RuneSet)
    BY <1>2, NewInput DEF ViewShape, w
  <1>6. draft.text \in Seq(TextRunes) /\ draft.line \in Nat /\ draft.col \in Nat
    BY <1>2 DEF ViewShape, Drafts
  <1>7. /\ Placed(RestoredInput(w, draft.text, draft.line, draft.col), RuneSet)
        /\ InputString(RestoredInput(w, draft.text, draft.line, draft.col)) = draft.text
    BY <1>5, <1>6, Restored
  <1>8. Placed(input', RuneSet) /\ (~isArchived' => InputString(input') = draft.text)
    BY <1>1, <1>5, <1>7
  <1>9. RunShape(run') /\ draft' \in Drafts
    BY <1>1, <1>2, NoDraftIn, RunStarts DEF ViewShape
  <1>10. ViewShape'
    BY <1>1, <1>2, <1>4, <1>8, <1>9 DEF ViewShape
  <1>11. TextSafe'
    <2>1. CASE isArchived'
      <3>1. running'.on = FALSE
        BY <1>4, <2>1, RunningConstants
      <3>2. QED
        BY <1>1, <2>1, <3>1 DEF TextSafe, ShowsReasoning
    <2>2. CASE ~isArchived'
      <3>1. running'.on = running.on
        BY <1>4, <2>2
      <3>2. ShowsReasoning' = ShowsReasoning
        BY <1>1, <3>1 DEF ShowsReasoning
      <3>3. QED
        BY <1>1, <1>2, <1>8, <2>2, <3>2 DEF TextSafe
    <2>3. QED
      BY <2>1, <2>2
  <1>12. QED
    BY <1>10, <1>11 DEF DraftInv

\* Leaving the view captures its text.
LEMMA CloseSafe ==
  ASSUME WideView, DraftInv, Close
  PROVE  DraftInv'
  <1>1. /\ at = "view" /\ at' = "menu" /\ draft' = Captured
        /\ mine' = mine
        /\ input' = InputFrame(width)
        /\ width' = width /\ pref' = pref /\ run' = run
        /\ isArchived' = isArchived /\ running' = running
    BY DEF Close, threadVars
  <1>2. ViewShape /\ TextSafe
    BY DEF DraftInv
  <1>3. draft' \in Drafts /\ draft'.text = InputString(input)
    BY <1>1, <1>2, CapturedIn DEF ViewShape
  <1>4. Placed(input', RuneSet)
    BY <1>1, <1>2, NewInput DEF ViewShape
  <1>5. ViewShape'
    BY <1>1, <1>2, <1>3, <1>4 DEF ViewShape
  <1>6. ShowsReasoning' = ShowsReasoning
    BY <1>1 DEF ShowsReasoning
  <1>7. isArchived => ~ShowsReasoning
    BY <1>1, <1>2 DEF TextSafe, ShowsReasoning
  <1>8. /\ isArchived /\ ~wiped' => InputString(input) = mine
        /\ ~isArchived /\ ~wiped' => ~wiped
    <2>1. wiped' = IF isArchived THEN InputString(input) # mine ELSE wiped
      BY DEF Close
    <2>2. QED
      BY <2>1
  <1>9. TextSafe'
    BY <1>1, <1>2, <1>3, <1>6, <1>7, <1>8 DEF TextSafe
  <1>10. QED
    BY <1>5, <1>9 DEF DraftInv

\* A new size keeps the text (handleThreadViewResize).
LEMMA ResizeSafe ==
  ASSUME WideView, DraftInv, Resize
  PROVE  DraftInv'
  <1> DEFINE v == IF running.on THEN run.content ELSE running.content
             w == InputFrame(width')
  <1>1. /\ at = "view" /\ width' \in Widths
        /\ input' = RestoredInput(w, Captured.text, Captured.line, Captured.col)
        /\ running' = [running EXCEPT !.content = v]
        /\ at' = at /\ pref' = pref /\ run' = run
        /\ isArchived' = isArchived /\ draft' = draft /\ mine' = mine /\ wiped' = wiped
    BY DEF Resize, threadVars
  <1>2. ViewShape /\ TextSafe
    BY DEF DraftInv
  <1> HIDE DEF v, w
  <1>3. RunningShape(running') /\ running'.on = running.on
    BY <1>1, <1>2, RunningFields DEF ViewShape
  <1>4. w \in Frames
    BY <1>1, NewInput DEF w
  <1>5. /\ Captured.text = InputString(input) /\ Captured.text \in Seq(TextRunes)
        /\ Captured.line \in Nat /\ Captured.col \in Nat
    BY <1>2, CapturedIn DEF ViewShape
  <1>6. Placed(input', RuneSet) /\ InputString(input') = InputString(input)
    BY <1>1, <1>4, <1>5, Restored
  <1>7. ViewShape'
    BY <1>1, <1>2, <1>3, <1>6 DEF ViewShape
  <1>8. ShowsReasoning' = ShowsReasoning
    BY <1>1, <1>3 DEF ShowsReasoning
  <1>9. TextSafe'
    BY <1>1, <1>2, <1>3, <1>6, <1>8 DEF TextSafe
  <1>10. QED
    BY <1>7, <1>9 DEF DraftInv

\* Nothing of what the invariant is about has changed but the run and the thread.
LEMMA SameView ==
  ASSUME DraftInv, at' = at, width' = width, RunShape(run'), UNCHANGED viewVars,
         pref' = pref \/ ~running.on
  PROVE  DraftInv'
  <1>1. ViewShape /\ TextSafe
    BY DEF DraftInv
  <1>2. isArchived' = isArchived /\ input' = input /\ running' = running /\ draft' = draft
        /\ mine' = mine /\ wiped' = wiped
    BY DEF viewVars
  <1>3. ViewShape'
    BY <1>1, <1>2 DEF ViewShape
  <1>4. ShowsReasoning' = ShowsReasoning
    BY <1>1, <1>2 DEF ShowsReasoning, ViewShape, RunningShape
  <1>5. TextSafe'
    BY <1>1, <1>2, <1>4 DEF TextSafe
  <1>6. QED
    BY <1>3, <1>5 DEF DraftInv

\* What happens in the menu, and the worker of a run
LEMMA AroundSafe ==
  ASSUME Steady, DraftInv, MoveThread \/ SetPref \/ SwitchPane \/ Stream \/ Finish
  PROVE  DraftInv'
  <1>1. RunShape(run)
    BY DEF DraftInv, ViewShape
  <1>2. CASE MoveThread
    <2>1. at' = at /\ width' = width /\ run' = run /\ UNCHANGED viewVars /\ pref' = pref
      BY <1>2 DEF MoveThread
    <2>2. QED
      BY <1>1, <2>1, SameView
  <1>3. CASE SetPref
    <2>1. at' = at /\ width' = width /\ run' = run /\ UNCHANGED viewVars /\ ~running.on
      BY <1>3 DEF SetPref, threadVars, Steady
    <2>2. QED
      BY <1>1, <2>1, SameView
  <1>4. CASE SwitchPane
    <2>1. /\ at' = at /\ width' = width /\ run' = run /\ pref' = pref /\ isArchived' = isArchived
          /\ input' = input /\ running' = running /\ draft' = draft /\ mine' = mine /\ wiped' = wiped
      BY <1>4 DEF SwitchPane, threadVars
    <2>2. ViewShape'
      BY <2>1 DEF DraftInv, ViewShape
    <2>3. ShowsReasoning' = ShowsReasoning
      BY <2>1 DEF ShowsReasoning
    <2>4. TextSafe'
      BY <2>1, <2>3 DEF DraftInv, TextSafe
    <2>5. QED
      BY <2>2, <2>4 DEF DraftInv
  <1>5. CASE Stream
    <2>1. at' = at /\ width' = width /\ UNCHANGED viewVars /\ pref' = pref
      BY <1>5 DEF Stream
    <2>2. RunShape(run')
      <3>1. CASE run' = [run EXCEPT !.content = run.content + 1]
        <4> DEFINE v == run.content + 1
        <4> HIDE DEF v
        <4>1. 0 \in 0 .. Len(Reasonings)
          BY ViewAssumption
        <4>2. RunShape([run EXCEPT !.content = v])
          BY <1>1, <4>1, RunFields
        <4>3. QED
          BY <3>1, <4>2 DEF v
      <3>2. CASE run.reasoning < Len(Reasonings)
                 /\ run' = [run EXCEPT !.reasoning = run.reasoning + 1]
        <4> DEFINE u == run.reasoning + 1
        <4>1. u \in 0 .. Len(Reasonings)
          BY <1>1, <3>2, ViewAssumption DEF RunShape
        <4> HIDE DEF u
        <4>2. RunShape([run EXCEPT !.reasoning = u])
          BY <1>1, <4>1, RunFields
        <4>3. QED
          BY <3>2, <4>2 DEF u
      <3>3. QED
        BY <1>5, <3>1, <3>2 DEF Stream
    <2>3. QED
      BY <2>1, <2>2, SameView
  <1>6. CASE Finish
    <2>1. at' = at /\ width' = width /\ UNCHANGED viewVars /\ pref' = pref
      BY <1>6 DEF Finish
    <2>2. RunShape(run')
      <3>1. 0 \in 0 .. Len(Reasonings)
        BY ViewAssumption
      <3>2. RunShape([run EXCEPT !.phase = "ok"]) /\ RunShape([run EXCEPT !.phase = "failed"])
        BY <1>1, <3>1, RunFields
      <3>3. QED
        BY <1>6, <3>2 DEF Finish
    <2>3. QED
      BY <2>1, <2>2, SameView
  <1>7. QED
    BY <1>2, <1>3, <1>4, <1>5, <1>6

\* Moving the cursor
LEMMA NavigateSafe ==
  ASSUME DraftInv, NEW key \in Keys, Navigate(key)
  PROVE  DraftInv'
  <1>1. ViewShape /\ TextSafe
    BY DEF DraftInv
  <1>2. /\ at' = at /\ width' = width /\ pref' = pref /\ run' = run
        /\ isArchived' = isArchived /\ draft' = draft /\ mine' = mine /\ wiped' = wiped
    BY DEF Navigate, threadVars
  <1>3. /\ Placed(input', RuneSet) /\ InputString(input') = InputString(input)
    <2>1. input' = input \/ input' = Moved(key, input, FALSE)
      BY DEF Navigate
    <2>2. QED
      BY <1>1, <2>1, MovedText DEF ViewShape
  <1>4. RunningShape(running') /\ running'.on = running.on
    <2> DEFINE v == running.on /\ key = "end"
    <2>1. \/ running' = [running EXCEPT !.followHistory = v]
          \/ running' = [running EXCEPT !.followReasoning = v]
      BY DEF Navigate
    <2> HIDE DEF v
    <2>2. RunningShape(running)
      BY <1>1 DEF ViewShape
    <2>3. /\ RunningShape([running EXCEPT !.followHistory = v])
          /\ [running EXCEPT !.followHistory = v].on = running.on
          /\ RunningShape([running EXCEPT !.followReasoning = v])
          /\ [running EXCEPT !.followReasoning = v].on = running.on
      BY <2>2, RunningFields
    <2>4. QED
      BY <2>1, <2>3
  <1>5. ViewShape'
    BY <1>1, <1>2, <1>3, <1>4 DEF ViewShape
  <1>6. ShowsReasoning' = ShowsReasoning
    BY <1>2, <1>4 DEF ShowsReasoning
  <1>7. TextSafe'
    BY <1>1, <1>2, <1>3, <1>4, <1>6 DEF TextSafe
  <1>8. QED
    BY <1>5, <1>7 DEF DraftInv

\* An edit
LEMMA EditSafe ==
  ASSUME DraftInv, NEW f \in FrameSet(RuneSet), EditInput(f)
  PROVE  DraftInv'
  <1>1. ViewShape /\ TextSafe
    BY DEF DraftInv
  <1>2. /\ at = "view" /\ input' = EnsureCursorVisible(f)
        /\ \/ (isArchived \/ ShowsReasoning) /\ mine' = mine /\ wiped' = wiped
           \/ ~(isArchived \/ ShowsReasoning) /\ mine' = InputString(f) /\ wiped' = FALSE
        /\ at' = at /\ width' = width /\ pref' = pref /\ run' = run /\ running' = running
        /\ isArchived' = isArchived /\ draft' = draft
    BY DEF EditInput, threadVars
  <1>3. Placed(input', RuneSet) /\ InputString(input') = InputString(f)
    BY <1>2, EnsuredText
  <1>4. ViewShape'
    BY <1>1, <1>2, <1>3 DEF ViewShape
  <1>5. ShowsReasoning' = ShowsReasoning
    BY <1>2 DEF ShowsReasoning
  <1>6. TextSafe'
    BY <1>1, <1>2, <1>3, <1>5 DEF TextSafe
  <1>7. QED
    BY <1>4, <1>6 DEF DraftInv

\* Typing and erasing
LEMMA KeysSafe ==
  ASSUME DraftInv, TypeInput \/ EraseInput
  PROVE  DraftInv'
  <1>1. Placed(input, RuneSet)
    BY DEF DraftInv, ViewShape
  <1>2. /\ \A r \in UserRunes : InsertRune(input, r) \in FrameSet(RuneSet)
        /\ InsertTab(input) \in FrameSet(RuneSet) /\ InsertNewline(input) \in FrameSet(RuneSet)
        /\ Backspace(input) \in FrameSet(RuneSet) /\ DeleteForward(input) \in FrameSet(RuneSet)
    BY <1>1, ViewEdits
  <1>3. PICK f \in FrameSet(RuneSet) : EditInput(f)
    BY <1>2 DEF TypeInput, EraseInput
  <1>4. QED
    BY <1>3, EditSafe

\* A prompt is sent: what the user typed is not his draft any more.
LEMMA SendSafe ==
  ASSUME DraftInv, Send
  PROVE  DraftInv'
  <1> DEFINE p == TrimSpace(InputString(input))
  <1>1. ViewShape /\ TextSafe
    BY DEF DraftInv
  <1>2. /\ at = "view" /\ ~isArchived /\ run' = [NoRun EXCEPT !.phase = "active", !.prompt = p]
        /\ running' = Started /\ draft' = NoDraft /\ mine' = <<>> /\ wiped' = FALSE
        /\ input' = IF pref THEN Refresh(input, ReasoningLines(run'), TRUE)
                    ELSE EnsureCursorVisible(ResetInput(input))
        /\ at' = at /\ width' = width /\ pref' = pref /\ isArchived' = isArchived
    BY DEF Send
  <1> HIDE DEF p
  <1>3. RunShape(run')
    BY <1>2, RunStarts
  <1>4. Placed(input', RuneSet) /\ (~pref => InputString(input') = <<>>)
    <2>1. Placed(input, RuneSet) /\ input \in Frames
      BY <1>1 DEF ViewShape, Placed, Frames
    <2>2. ReasoningLines(run') \in Seq(LineSet(RuneSet)) \ {<<>>}
      BY <1>3, ReasoningIn DEF RunShape
    <2>3. Placed(Refresh(input, ReasoningLines(run'), TRUE), RuneSet)
      BY <2>1, <2>2, RefreshKeeps
    <2>4. ResetInput(input) \in FrameSet(RuneSet) /\ InputString(ResetInput(input)) = <<>>
      BY <2>1, EmptyAtEnd DEF AtEnd, Frames
    <2>5. QED
      BY <1>2, <2>3, <2>4, EnsuredText
  <1>5. ViewShape'
    BY <1>1, <1>2, <1>3, <1>4, NoDraftIn, RunningConstants DEF ViewShape
  <1>6. TextSafe'
    BY <1>1, <1>2, <1>4 DEF TextSafe, ShowsReasoning, Started
  <1>7. QED
    BY <1>5, <1>6 DEF DraftInv

\* The input pane after the first part of processAsyncChat
LEMMA TickedKeeps ==
  ASSUME ViewShape
  PROVE  Placed(TickedInput, RuneSet) /\ (~pref => TickedInput = input)
  <1>1. ReasoningLines(run) \in Seq(LineSet(RuneSet)) \ {<<>>}
    BY ReasoningIn DEF ViewShape, RunShape
  <1>2. Placed(Refresh(input, ReasoningLines(run), running.followReasoning), RuneSet)
    BY <1>1, RefreshKeeps DEF ViewShape
  <1>3. QED
    BY <1>2 DEF TickedInput, ViewShape

\* New reasoning and content
LEMMA TickSafe ==
  ASSUME DraftInv, Tick
  PROVE  DraftInv'
  <1> DEFINE u == IF pref THEN run.reasoning ELSE running.reasoning
  <1>1. ViewShape /\ TextSafe
    BY DEF DraftInv
  <1>2. /\ at = "view" /\ running.on /\ input' = TickedInput
        /\ running' = [running EXCEPT !.content = run.content, !.reasoning = u]
        /\ at' = at /\ width' = width /\ pref' = pref /\ run' = run
        /\ isArchived' = isArchived /\ draft' = draft /\ mine' = mine /\ wiped' = wiped
    BY DEF Tick, threadVars
  <1> HIDE DEF u
  <1>3. RunningShape(running') /\ running'.on = running.on
    <2> DEFINE v == run.content
               r == [running EXCEPT !.content = v]
    <2>1. RunningShape(running) /\ running' = [r EXCEPT !.reasoning = u]
      BY <1>1, <1>2 DEF ViewShape
    <2> HIDE DEF v
    <2>2. RunningShape(r) /\ r.on = running.on
      BY <2>1, RunningFields
    <2> HIDE DEF r
    <2>3. RunningShape([r EXCEPT !.reasoning = u]) /\ [r EXCEPT !.reasoning = u].on = r.on
      BY <2>2, RunningFields
    <2>4. QED
      BY <2>1, <2>2, <2>3
  <1>4. Placed(input', RuneSet) /\ (~pref => input' = input)
    BY <1>1, <1>2, TickedKeeps
  <1>5. ViewShape'
    BY <1>1, <1>2, <1>3, <1>4 DEF ViewShape
  <1>6. ShowsReasoning' = ShowsReasoning /\ (ShowsReasoning <=> pref)
    BY <1>2, <1>3 DEF ShowsReasoning
  <1>7. TextSafe'
    BY <1>1, <1>2, <1>3, <1>4, <1>6 DEF TextSafe
  <1>8. QED
    BY <1>5, <1>7 DEF DraftInv

\* The end of a run gives the pane back to the user.
LEMMA ResultSafe ==
  ASSUME DraftInv, Result
  PROVE  DraftInv'
  <1>1. ViewShape /\ TextSafe
    BY DEF DraftInv
  <1> DEFINE f == IF pref THEN ResetInput(TickedInput) ELSE TickedInput
  <1>2. /\ at = "view" /\ running.on /\ input' = EnsureCursorVisible(f)
        /\ running' = NotRunning /\ run' = NoRun
        /\ at' = at /\ width' = width /\ pref' = pref
        /\ isArchived' = isArchived /\ draft' = draft /\ mine' = mine /\ wiped' = wiped
    BY DEF Result
  <1>3. f \in FrameSet(RuneSet) /\ InputString(f) = (IF pref THEN <<>> ELSE InputString(input))
    <2>1. /\ TickedInput \in Frames /\ TickedInput \in FrameSet(RuneSet)
          /\ ~pref => TickedInput = input
      BY <1>1, TickedKeeps DEF Placed, Frames
    <2>2. ResetInput(TickedInput) \in FrameSet(RuneSet)
          /\ InputString(ResetInput(TickedInput)) = <<>>
      BY <2>1, EmptyAtEnd DEF AtEnd, Frames
    <2>3. QED
      BY <2>1, <2>2
  <1> HIDE DEF f
  <1>4. Placed(input', RuneSet) /\ InputString(input') = (IF pref THEN <<>> ELSE InputString(input))
    BY <1>2, <1>3, EnsuredText
  <1>5. ViewShape'
    BY <1>1, <1>2, <1>4, RunningConstants, RunStarts DEF ViewShape
  <1>6. ShowsReasoning' = FALSE /\ (ShowsReasoning <=> pref) /\ ~isArchived
    BY <1>1, <1>2, RunningConstants DEF ShowsReasoning, TextSafe
  <1>7. ~wiped => InputString(input') = mine
    BY <1>1, <1>2, <1>4, <1>6 DEF TextSafe
  <1>8. TextSafe'
    BY <1>2, <1>6, <1>7, RunningConstants DEF TextSafe
  <1>9. QED
    BY <1>5, <1>8 DEF DraftInv

\* A retry
LEMMA RetrySafe ==
  ASSUME DraftInv, Retry
  PROVE  DraftInv'
  <1> DEFINE p == run.prompt
  <1>1. ViewShape /\ TextSafe
    BY DEF DraftInv
  <1>2. /\ at = "view" /\ running.on /\ running' = Started
        /\ run' = [NoRun EXCEPT !.phase = "active", !.prompt = p]
        /\ input' = IF pref THEN Refresh(TickedInput, ReasoningLines(run'), TRUE) ELSE TickedInput
        /\ at' = at /\ width' = width /\ pref' = pref
        /\ isArchived' = isArchived /\ draft' = draft /\ mine' = mine /\ wiped' = wiped
    BY DEF Retry
  <1> HIDE DEF p
  <1>3. RunShape(run')
    BY <1>2, RunStarts
  <1>4. Placed(input', RuneSet) /\ (~pref => input' = input)
    <2>1. Placed(TickedInput, RuneSet) /\ (~pref => TickedInput = input)
      BY <1>1, TickedKeeps
    <2>2. ReasoningLines(run') \in Seq(LineSet(RuneSet)) \ {<<>>}
      BY <1>3, ReasoningIn DEF RunShape
    <2>3. Placed(Refresh(TickedInput, ReasoningLines(run'), TRUE), RuneSet)
      BY <2>1, <2>2, RefreshKeeps
    <2>4. QED
      BY <1>2, <2>1, <2>3
  <1>5. ViewShape'
    BY <1>1, <1>2, <1>3, <1>4, RunningConstants DEF ViewShape
  <1>6. (ShowsReasoning' <=> pref) /\ (ShowsReasoning <=> pref) /\ ~isArchived
    BY <1>1, <1>2, RunningConstants DEF ShowsReasoning, TextSafe
  <1>7. TextSafe'
    BY <1>1, <1>2, <1>4, <1>6 DEF TextSafe
  <1>8. QED
    BY <1>5, <1>7 DEF DraftInv

\* Every step keeps the text of the user where it should be.
LEMMA ViewSafe ==
  ASSUME Steady, WideView, DraftInv, [ViewNext]_vars
  PROVE  DraftInv'
  <1>1. CASE Open
    BY <1>1, OpenSafe
  <1>2. CASE Close
    BY <1>2, CloseSafe
  <1>3. CASE Resize
    BY <1>3, ResizeSafe
  <1>4. CASE MoveThread \/ SetPref \/ SwitchPane \/ Stream \/ Finish
    BY <1>4, AroundSafe
  <1>5. ASSUME NEW k \in Keys, Navigate(k) PROVE DraftInv'
    BY <1>5, NavigateSafe
  <1>6. CASE TypeInput \/ EraseInput
    BY <1>6, KeysSafe
  <1>7. CASE Send
    BY <1>7, SendSafe
  <1>8. CASE Tick
    BY <1>8, TickSafe
  <1>9. CASE Result
    BY <1>9, ResultSafe
  <1>10. CASE Retry
    BY <1>10, RetrySafe
  <1>11. CASE UNCHANGED vars
    <2>1. RunShape(run)
      BY DEF DraftInv, ViewShape
    <2>2. at' = at /\ width' = width /\ run' = run /\ UNCHANGED viewVars /\ pref' = pref
      BY <1>11 DEF vars, threadVars
    <2>3. QED
      BY <2>1, <2>2, SameView
  <1>12. QED
    BY <1>1, <1>2, <1>3, <1>4, <1>5, <1>6, <1>7, <1>8, <1>9, <1>10, <1>11 DEF ViewNext

\* What the user typed and did not send is in the input pane whenever the thread is idle:
\* no detour over the menu, no resize and no run loses it or mixes the model's reasoning
\* into it (captureInputDraft, restoreInputFrameContent), unless the view of the archived
\* thread, when it was left, replaced the draft by what its own pane held.
THEOREM DraftCorrect ==
  ASSUME Steady, WideView
  PROVE  ViewSpec => []DraftKept
  <1>1. ViewInit => DraftInv
    BY InitSafe
  <1>2. DraftInv /\ [ViewNext]_vars => DraftInv'
    BY ViewSafe
  <1>3. DraftInv => DraftKept
    BY DEF DraftInv, TextSafe, ShowsReasoning, DraftKept
  <1>4. QED
    BY <1>1, <1>2, <1>3, PTL DEF ViewSpec
=============================================================================
