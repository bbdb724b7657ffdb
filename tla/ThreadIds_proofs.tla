--------------------------- MODULE ThreadIds_proofs ---------------------------
(***************************************************************************)
(* Proofs about ThreadIds for any number of processes, any set of          *)
(* modification times and any MaxNum: until thread_group_set.json is       *)
(* missing for the first time, and as long as processes do not overlap.    *)
(***************************************************************************)
EXTENDS ThreadIds, SequenceTheorems, TLAPS

Loaded == {"ready", "bumping", "bumpRead", "naming"}
Drawn  == {"naming", "renaming"}

\* What a process knows, the part of IdInv about one process.
Known(p) ==
    /\ ver[p].num <= num[p]
    /\ ver[p].num <= file.num
    /\ pc[p] \notin {"creating", "recreating", "bumpCreate", "legacyCreate"}
    /\ pc[p] \in {"scanning", "renaming"} => num[p] = ver[p].num
    /\ pc[p] \in {"raising", "rereading"} =>
          \A id \in threadDirs : id <= maxId[p] \/ id <= file.num
    /\ pc[p] = "raising" => num[p] = maxId[p]
    /\ pc[p] \in Loaded => \A id \in threadDirs : id <= file.num
    /\ pc[p] \in Drawn => num[p] \in 1 .. file.num

\* The inductive invariant: a process never knows more of the file than is in
\* it (ver <= file) nor less than its own version (ver <= num), a process that
\* finished loading has made the file cover every thread directory, and no id
\* beyond the file's number was given out.
IdInv ==
    /\ TypeOK
    /\ file # NoFile
    /\ \A p \in Procs : Known(p)
    /\ \A i \in DOMAIN issued : issued[i] <= file.num
    /\ IdsOrdered
    /\ DirsFree

\* Contents and versions as the proofs use them.
LEMMA ContentsFacts ==
  /\ NoFile.num = -1
  /\ \A f \in Contents : f.num \in Nums /\ f # NoFile
  /\ \A n \in Nums, m \in Mtimes :
        /\ [num |-> n, mtime |-> m] \in Contents
        /\ [num |-> n, mtime |-> m].num = n
  <1> USE IdAssumption DEF Contents, NoFile, Nums
  <1>1. NoFile.num = -1
    OBVIOUS
  <1>2. ASSUME NEW f \in Contents PROVE f.num \in Nums
    OBVIOUS
  <1>3. ASSUME NEW f \in Contents PROVE f # NoFile
    <2>1. f.num # NoFile.num
      BY <1>1, <1>2
    <2>2. QED
      BY <2>1
  <1>4. ASSUME NEW n \in Nums, NEW m \in Mtimes
        PROVE  /\ [num |-> n, mtime |-> m] \in Contents
               /\ [num |-> n, mtime |-> m].num = n
    OBVIOUS
  <1>5. QED
    BY <1>1, <1>2, <1>3, <1>4

\* The numbers compared below are integers.
LEMMA NumsAreIntegers ==
  ASSUME TypeOK
  PROVE  /\ file.num \in Int
         /\ \A p \in Procs : ver[p].num \in Int /\ num[p] \in Nat /\ maxId[p] \in Nat
         /\ \A id \in threadDirs : id \in Nat
  BY ContentsFacts, IdAssumption DEF TypeOK, Nums

\* What a write of the file leaves behind.
LEMMA Wrote ==
  ASSUME TypeOK, NEW p \in Procs, num'[p] \in Nums, WriteFile(p)
  PROVE  /\ file' \in Contents /\ file'.num = num'[p]
         /\ ver' = [ver EXCEPT ![p] = file']
         /\ ver' \in [Procs -> Contents \cup {NoFile}]
  <1>1. PICK m \in Mtimes : /\ file' = [num |-> num'[p], mtime |-> m]
                            /\ ver' = [ver EXCEPT ![p] = file']
    BY DEF WriteFile
  <1>2. file' \in Contents /\ file'.num = num'[p]
    BY <1>1, ContentsFacts
  <1>3. QED
    BY <1>1, <1>2 DEF TypeOK

\* A file that only moves forward under process p, whose own knowledge is
\* right afterwards, leaves what every other process knows right.
LEMMA OthersKnow ==
  ASSUME IdInv, NEW p \in Procs, NEW q \in Procs \ {p},
         file.num <= file'.num, file'.num \in Int, threadDirs' = threadDirs,
         num'[q] = num[q], ver'[q] = ver[q], maxId'[q] = maxId[q], pc'[q] = pc[q]
  PROVE  Known(q)'
  <1>1. /\ file.num \in Int /\ ver[q].num \in Int /\ num[q] \in Int /\ maxId[q] \in Int
        /\ \A id \in threadDirs : id \in Int
    BY NumsAreIntegers DEF IdInv
  <1>2. Known(q)
    BY DEF IdInv
  <1>3. QED
    BY <1>1, <1>2 DEF Known, Loaded

\* The initial states satisfy the invariant.
LEMMA InitIdInv == ASSUME ~missed, Init PROVE IdInv
  <1> USE IdAssumption DEF Init
  <1>1. TypeOK
    BY DEF TypeOK, Steps, Nums
  <1>2. file \in Contents /\ file # NoFile
    BY ContentsFacts
  <1>3. \A p \in Procs : Known(p)
    <2>1. file.num \in Nat
      BY <1>2, ContentsFacts DEF Nums
    <2>2. ASSUME NEW p \in Procs PROVE Known(p)
      <3>1. num[p] = 0 /\ ver[p].num = -1 /\ pc[p] = "down"
        BY ContentsFacts
      <3>2. QED
        BY <2>1, <3>1 DEF Known, Loaded, Drawn
    <2>3. QED
      BY <2>2
  <1>4. IdsOrdered /\ DirsFree
    BY DEF IdsOrdered, DirsFree
  <1>5. QED
    BY <1>1, <1>2, <1>3, <1>4 DEF IdInv

\* Ids are positive before they become the name of a directory.
TypeInv == TypeOK /\ \A p \in Procs : pc[p] \in Drawn => num[p] \in 1 .. MaxNum

\* A step of one process preserves the types, also when the file is missing.
LEMMA StepTypes ==
  ASSUME TypeInv, NEW p \in Procs, Step(p)
  PROVE  TypeOK' /\ (pc'[p] \in Drawn => num'[p] \in 1 .. MaxNum)
  <1>a. TypeOK /\ (pc[p] \in Drawn => num[p] \in 1 .. MaxNum)
    BY DEF TypeInv
  <1>b. file # NoFile => file \in Contents /\ file.num \in Nums
    BY <1>a, ContentsFacts DEF TypeOK
  <1>c. 1 .. MaxNum \subseteq Nums /\ \A n \in Nums : n < MaxNum => n + 1 \in Nums /\ n + 1 \in 1 .. MaxNum
    BY IdAssumption DEF Nums
  <1> USE <1>a DEF TypeOK, Steps, Goto, Drawn
  <1>1. CASE Load(p)
    BY <1>1 DEF Load
  <1>2. CASE LoadRead(p)
    BY <1>2, <1>b DEF LoadRead, Adopt, Missing
  <1>3. CASE LoadCreate(p)
    BY <1>3, Wrote DEF LoadCreate
  <1>4. CASE Reconcile(p)
    BY <1>4, <1>c DEF Reconcile
  <1>5. CASE Raise(p)
    <2>1. num'[p] \in Nums
      BY <1>5 DEF Raise
    <2>2. CASE WriteFile(p)
      BY <1>5, <2>1, <2>2, Wrote DEF Raise
    <2>3. QED
      BY <1>5, <2>2 DEF Raise
  <1>6. CASE RaiseRead(p)
    BY <1>6, <1>b DEF RaiseRead, Missing
  <1>7. CASE RaiseCreate(p)
    BY <1>7, Wrote DEF RaiseCreate
  <1>8. CASE NewThread(p)
    BY <1>8 DEF NewThread
  <1>9. CASE Bump(p) \/ LegacyBump(p)
    <2>1. num'[p] = num[p] + 1 /\ num'[p] \in Nums /\ num'[p] \in 1 .. MaxNum
      BY <1>9, <1>c DEF Bump, LegacyBump, Draw
    <2>2. num' \in [Procs -> Nums]
      BY <1>9, <2>1 DEF Bump, LegacyBump, Draw
    <2>3. CASE WriteFile(p)
      <3>1. issued' \in Seq(1 .. MaxNum)
        <4>1. Append(issued, num'[p]) \in Seq(1 .. MaxNum)
          BY <2>1
        <4>2. QED
          BY <1>9, <4>1 DEF Bump, LegacyBump, Draw
      <3>2. /\ file' \in Contents /\ ver' \in [Procs -> Contents \cup {NoFile}]
        BY <2>1, <2>3, Wrote
      <3>3. pc' \in [Procs -> Steps] /\ UNCHANGED <<threadDirs, maxId>>
        BY <1>9 DEF Bump, LegacyBump, Draw
      <3>4. QED
        BY <2>1, <2>2, <3>1, <3>2, <3>3
    <2>4. QED
      BY <1>9, <2>1, <2>2, <2>3 DEF Bump, LegacyBump, Draw
  <1>10. CASE BumpRead(p) \/ LegacyRead(p)
    BY <1>10, <1>b DEF BumpRead, LegacyRead, DrawRead, Adopt, Missing
  <1>11. CASE BumpCreate(p) \/ LegacyCreate(p)
    BY <1>11, Wrote DEF BumpCreate, LegacyCreate, DrawCreate
  <1>12. CASE SaveThread(p)
    BY <1>12 DEF SaveThread
  <1>13. CASE LoadFail(p)
    BY <1>13 DEF LoadFail
  <1>14. CASE RaiseFail(p)
    BY <1>14, ContentsFacts DEF RaiseFail
  <1>15. CASE BumpFail(p)
    <2>1. file' \in Contents
      BY <1>15, <1>c, ContentsFacts DEF BumpFail
    <2>2. 0 \in Nums
      BY IdAssumption DEF Nums
    <2>3. QED
      BY <1>15, <2>1, <2>2 DEF BumpFail, Reset
  <1>16. CASE Exit(p)
    BY <1>16, IdAssumption DEF Exit, Reset, Nums
  <1>17. CASE Legacy(p)
    BY <1>17 DEF Legacy
  <1>18. CASE Rename(p)
    BY <1>18 DEF Rename
  <1>19. CASE LegacyFail(p)
    <2>1. num'[p] = num[p] + 1 /\ num'[p] \in Nums /\ num' \in [Procs -> Nums]
      BY <1>19, <1>c DEF LegacyFail
    <2>2. file' \in Contents \cup {NoFile}
      BY <1>19, <2>1, ContentsFacts DEF LegacyFail
    <2>3. QED
      BY <1>19, <2>1, <2>2 DEF LegacyFail
  <1>20. QED
    BY <1>1, <1>2, <1>3, <1>4, <1>5, <1>6, <1>7, <1>8, <1>9, <1>10, <1>11,
       <1>12, <1>13, <1>14, <1>15, <1>16, <1>17, <1>18, <1>19 DEF Step

\* A step of one process tells the others nothing.
LEMMA Frame ==
  ASSUME TypeInv, NEW p \in Procs, Step(p)
  PROVE  \A q \in Procs \ {p} : /\ num'[q] = num[q] /\ ver'[q] = ver[q]
                                 /\ maxId'[q] = maxId[q] /\ pc'[q] = pc[q]
  BY DEF TypeInv, TypeOK, Step, Load, LoadRead, LoadCreate, Reconcile, Raise,
     RaiseRead, RaiseCreate, NewThread, Bump, BumpRead, BumpCreate, SaveThread,
     LoadFail, RaiseFail, BumpFail, Exit, Reset, Goto, WriteFile, Adopt, Draw,
     DrawRead, DrawCreate, Legacy, LegacyBump, LegacyRead, LegacyCreate, Rename, LegacyFail

\* The types hold in every state, whatever happens to the file.
LEMMA TypeInvariant == Spec => []TypeInv
  <1>1. Init => TypeInv
    BY IdAssumption DEF Init, TypeInv, TypeOK, Steps, Nums, Drawn
  <1>2. TypeInv /\ [Next]_vars => TypeInv'
    <2>1. ASSUME TypeInv, UNCHANGED vars \/ Vanish PROVE TypeInv'
      BY <2>1 DEF TypeInv, TypeOK, vars, Vanish
    <2>2. ASSUME TypeInv, NEW p \in Procs, Step(p) PROVE TypeInv'
      <3>1. \A q \in Procs \ {p} : num'[q] = num[q] /\ pc'[q] = pc[q]
        BY <2>2, Frame
      <3>2. QED
        BY <2>2, <3>1, StepTypes DEF TypeInv
    <2>3. QED
      BY <2>1, <2>2 DEF Next
  <1>3. QED
    BY <1>1, <1>2, PTL DEF Spec

\* While the file is there, a process that names a thread drew a positive id.
LEMMA KnownTypes == ASSUME IdInv PROVE TypeInv
  <1>1. file \in Contents /\ file.num \in Nums
    BY ContentsFacts DEF IdInv, TypeOK
  <1>2. ASSUME NEW p \in Procs, pc[p] \in Drawn PROVE num[p] \in 1 .. MaxNum
    BY <1>1, <1>2, IdAssumption DEF IdInv, Known, Nums
  <1>3. QED
    BY <1>2 DEF IdInv, TypeInv

\* A step moves the file forward or leaves it alone, and tells other processes
\* nothing: the compare-and-swap only succeeds for a process whose number is at
\* least the file's.
LEMMA StepForward ==
  ASSUME IdInv, NEW p \in Procs, Step(p)
  PROVE  /\ file' \in Contents /\ file'.num \in Nat /\ file.num <= file'.num
         /\ \A q \in Procs \ {p} : /\ num'[q] = num[q] /\ ver'[q] = ver[q]
                                   /\ maxId'[q] = maxId[q] /\ pc'[q] = pc[q]
  <1>a. TypeOK /\ file \in Contents /\ file.num \in Nat /\ Known(p) /\ num[p] \in Nat
    BY ContentsFacts, NumsAreIntegers DEF IdInv, TypeOK, Nums
  <1>b. CASMatches(p) => file.num <= num[p]
    BY <1>a DEF CASMatches, Known
  <1>c. TypeOK'
    BY KnownTypes, StepTypes
  <1>1. \A q \in Procs \ {p} : /\ num'[q] = num[q] /\ ver'[q] = ver[q]
                              /\ maxId'[q] = maxId[q] /\ pc'[q] = pc[q]
    BY KnownTypes, Frame
  <1>2. file' = file \/ (file' \in Contents /\ file.num <= file'.num)
    <2>1. CASE Raise(p) /\ file' # file
      <3>1. num'[p] = num[p] /\ num'[p] \in Nums
        BY <1>a, <2>1 DEF Raise, TypeOK
      <3>2. CASMatches(p) /\ WriteFile(p)
        BY <2>1 DEF Raise
      <3>3. QED
        BY <1>a, <1>b, <3>1, <3>2, Wrote
    <2>2. CASE (Bump(p) \/ LegacyBump(p)) /\ file' # file
      <3>1. num'[p] = num[p] + 1 /\ num'[p] \in Nums
        BY <1>a, <1>c, <2>2 DEF Bump, LegacyBump, Draw, TypeOK
      <3>2. CASMatches(p) /\ WriteFile(p)
        BY <2>2 DEF Bump, LegacyBump, Draw
      <3>3. file' \in Contents /\ file'.num = num[p] + 1
        BY <1>a, <3>1, <3>2, Wrote
      <3>4. QED
        BY <1>a, <1>b, <3>2, <3>3
    <2>3. CASE RaiseFail(p)
      <3>1. PICK m \in Mtimes : file' = [num |-> num[p], mtime |-> m]
        BY <2>3 DEF RaiseFail
      <3>2. file' \in Contents /\ file'.num = num[p]
        BY <1>a, <3>1, ContentsFacts DEF TypeOK
      <3>3. QED
        BY <1>b, <2>3, <3>2 DEF RaiseFail
    <2>4. CASE BumpFail(p)
      <3>1. PICK m \in Mtimes : file' = [num |-> num[p] + 1, mtime |-> m]
        BY <2>4 DEF BumpFail
      <3>2. num[p] + 1 \in Nums
        BY <1>a, <2>4, IdAssumption DEF BumpFail, Nums
      <3>3. file' \in Contents /\ file'.num = num[p] + 1
        BY <3>1, <3>2, ContentsFacts
      <3>4. QED
        BY <1>a, <1>b, <2>4, <3>3 DEF BumpFail
    <2>5. ~LoadCreate(p) /\ ~RaiseCreate(p) /\ ~BumpCreate(p) /\ ~LegacyCreate(p)
      BY <1>a DEF Known, LoadCreate, RaiseCreate, BumpCreate, LegacyCreate, DrawCreate
    <2>7. CASE LegacyFail(p) /\ file' # file
      <3>1. num'[p] = num[p] + 1 /\ num'[p] \in Nums
        BY <1>a, <1>c, <2>7 DEF LegacyFail, TypeOK
      <3>2. PICK m \in Mtimes : file' = [num |-> num'[p], mtime |-> m]
        BY <2>7 DEF LegacyFail
      <3>3. file' \in Contents /\ file'.num = num[p] + 1
        BY <3>1, <3>2, ContentsFacts
      <3>4. QED
        BY <1>a, <1>b, <2>7, <3>3 DEF LegacyFail
    <2>6. QED
      BY <2>1, <2>2, <2>3, <2>4, <2>5, <2>7 DEF Step, Load, LoadRead, Reconcile,
         RaiseRead, NewThread, BumpRead, DrawRead, SaveThread, LoadFail, Exit,
         Legacy, LegacyRead, Rename
  <1>3. file' \in Contents /\ file.num <= file'.num
    BY <1>a, <1>2
  <1>4. QED
    BY <1>1, <1>3, ContentsFacts, IdAssumption DEF Nums

\* After a step of process p, what p knows is right.
LEMMA StepKnown ==
  ASSUME IdInv, NEW p \in Procs, Step(p)
  PROVE  Known(p)'
  <1>a. /\ TypeOK /\ file \in Contents /\ Known(p) /\ file # NoFile
        /\ num[p] \in Nat /\ maxId[p] \in Nat /\ ver[p].num \in Int /\ file.num \in Nat
        /\ threadDirs \subseteq Nat
    BY ContentsFacts, NumsAreIntegers DEF IdInv, TypeOK, Nums
  <1>b. /\ file' \in Contents /\ file'.num \in Nat /\ file.num <= file'.num
    BY StepForward
  <1>c. NoFile.num = -1
    BY ContentsFacts
  <1> USE <1>a, <1>b, <1>c DEF Known, Loaded, Drawn, Goto, TypeOK
  <1>1. CASE Load(p)
    BY <1>1 DEF Load
  <1>2. CASE LoadRead(p)
    BY <1>2 DEF LoadRead, Adopt, Missing
  <1>3. CASE LoadCreate(p)
    BY <1>3 DEF LoadCreate
  <1>4. CASE Reconcile(p)
    <2>1. PICK m \in threadDirs \cup {num[p]} :
             /\ \A id \in threadDirs \cup {num[p]} : id <= m
             /\ maxId' = [maxId EXCEPT ![p] = m]
             /\ num' = [num EXCEPT ![p] = m]
             /\ Goto(p, IF m <= num[p] THEN "ready" ELSE "raising")
      BY <1>4 DEF Reconcile
    <2>2. UNCHANGED <<file, threadDirs, ver>> /\ m \in Nat /\ num[p] <= m
          /\ num[p] = ver[p].num
      BY <1>4, <2>1 DEF Reconcile
    <2>3. num'[p] = m /\ maxId'[p] = m
          /\ pc'[p] = IF m <= num[p] THEN "ready" ELSE "raising"
      BY <2>1
    <2>4. m <= num[p] => \A id \in threadDirs : id <= file.num
      BY <2>1, <2>2
    <2>5. \A id \in threadDirs : id <= m
      BY <2>1
    <2>6. QED
      BY <2>2, <2>3, <2>4, <2>5
  <1>5. CASE Raise(p)
    <2>0. num' = num /\ threadDirs' = threadDirs /\ maxId' = maxId /\ num[p] \in Nums
          /\ num[p] = maxId[p] /\ \A id \in threadDirs : id <= maxId[p] \/ id <= file.num
      BY <1>5 DEF Raise
    <2>1. CASE CASMatches(p) /\ WriteFile(p) /\ Goto(p, "ready")
      <3>1. file'.num = num[p] /\ ver'[p] = file'
        BY <2>0, <2>1, Wrote
      <3>2. pc'[p] = "ready"
        BY <2>1
      <3>3. ASSUME NEW id \in threadDirs PROVE id <= file'.num
        <4>1. id \in Nat /\ (id <= maxId[p] \/ id <= file.num)
          BY <2>0
        <4>2. maxId[p] = file'.num
          BY <2>0, <3>1
        <4>3. QED
          BY <4>1, <4>2
      <3>4. QED
        BY <2>0, <3>1, <3>2, <3>3
    <2>2. CASE ~CASMatches(p) /\ Goto(p, "rereading") /\ UNCHANGED <<file, ver>>
      <3>1. pc'[p] = "rereading"
        BY <2>2
      <3>2. QED
        BY <2>0, <2>2, <3>1
    <2>3. QED
      BY <1>5, <2>1, <2>2 DEF Raise
  <1>6. CASE RaiseRead(p)
    <2>1. CASE file.num >= maxId[p]
      BY <1>6, <2>1 DEF RaiseRead, Missing
    <2>2. CASE ~(file.num >= maxId[p])
      BY <1>6, <2>2 DEF RaiseRead, Missing
    <2>3. QED
      BY <2>1, <2>2
  <1>7. CASE RaiseCreate(p)
    BY <1>7 DEF RaiseCreate
  <1>8. CASE NewThread(p)
    BY <1>8 DEF NewThread
  <1>9. CASE Bump(p)
    <2>0. /\ num'[p] = num[p] + 1 /\ num'[p] \in Nums /\ threadDirs' = threadDirs
          /\ maxId' = maxId /\ \A id \in threadDirs : id <= file.num
      BY <1>9, IdAssumption DEF Bump, Draw, Nums
    <2>1. CASE CASMatches(p) /\ WriteFile(p) /\ Goto(p, "naming")
      <3>1. file'.num = num[p] + 1 /\ ver'[p] = file'
        BY <2>0, <2>1, Wrote
      <3>2. pc'[p] = "naming"
        BY <2>1
      <3>3. ASSUME NEW id \in threadDirs PROVE id <= file'.num
        <4>1. id \in Nat /\ id <= file.num
          BY <2>0
        <4>2. QED
          BY <4>1
      <3>4. QED
        BY <2>0, <3>1, <3>2, <3>3
    <2>2. CASE Goto(p, "bumpRead") /\ UNCHANGED <<file, ver>>
      <3>1. pc'[p] = "bumpRead"
        BY <2>2
      <3>2. QED
        BY <2>0, <2>2, <3>1
    <2>3. QED
      BY <1>9, <2>1, <2>2 DEF Bump, Draw
  <1>17. CASE LegacyBump(p)
    <2>0. /\ num'[p] = num[p] + 1 /\ num'[p] \in Nums /\ maxId' = maxId
      BY <1>17, IdAssumption DEF LegacyBump, Draw, Nums
    <2>1. CASE CASMatches(p) /\ WriteFile(p) /\ Goto(p, "renaming")
      <3>1. file'.num = num[p] + 1 /\ ver'[p] = file'
        BY <2>0, <2>1, Wrote
      <3>2. pc'[p] = "renaming"
        BY <2>1
      <3>3. QED
        BY <2>0, <3>1, <3>2
    <2>2. CASE Goto(p, "legacyRead") /\ UNCHANGED <<file, ver>>
      <3>1. pc'[p] = "legacyRead"
        BY <2>2
      <3>2. QED
        BY <2>0, <2>2, <3>1
    <2>3. QED
      BY <1>17, <2>1, <2>2 DEF LegacyBump, Draw
  <1>10. CASE BumpRead(p) \/ LegacyRead(p)
    BY <1>10 DEF BumpRead, LegacyRead, DrawRead, Adopt, Missing
  <1>11. CASE BumpCreate(p) \/ LegacyCreate(p)
    BY <1>11 DEF BumpCreate, LegacyCreate, DrawCreate
  <1>12. CASE SaveThread(p)
    BY <1>12 DEF SaveThread
  <1>13. CASE LoadFail(p)
    BY <1>13 DEF LoadFail
  <1>14. CASE RaiseFail(p)
    BY <1>14 DEF RaiseFail
  <1>15. CASE BumpFail(p)
    BY <1>15 DEF BumpFail, Reset
  <1>16. CASE Exit(p)
    BY <1>16 DEF Exit, Reset
  <1>18. CASE Legacy(p)
    BY <1>18 DEF Legacy
  <1>19. CASE Rename(p)
    BY <1>19 DEF Rename
  <1>20. CASE LegacyFail(p)
    BY <1>20 DEF LegacyFail
  <1>21. QED
    BY <1>1, <1>2, <1>3, <1>4, <1>5, <1>6, <1>7, <1>8, <1>9, <1>10, <1>11,
       <1>12, <1>13, <1>14, <1>15, <1>16, <1>17, <1>18, <1>19, <1>20 DEF Step

\* A step changes the history of ids only by adding the number it moved the
\* file to.
LEMMA StepIssued ==
  ASSUME IdInv, NEW p \in Procs, Step(p)
  PROVE  \/ issued' = issued
         \/ /\ issued' = Append(issued, num'[p]) /\ num'[p] = file'.num
            /\ file.num < file'.num /\ pc'[p] \in Drawn /\ threadDirs' = threadDirs
  <1>a. TypeOK /\ Known(p) /\ num[p] \in Nat /\ file.num \in Int
    BY NumsAreIntegers DEF IdInv
  <1>1. CASE (Bump(p) \/ LegacyBump(p)) /\ issued' # issued
    <2>1. num'[p] = num[p] + 1 /\ num'[p] \in Nums
      BY <1>a, <1>1, IdAssumption DEF Bump, LegacyBump, Draw, TypeOK, Nums
    <2>2. /\ CASMatches(p) /\ WriteFile(p) /\ (Goto(p, "naming") \/ Goto(p, "renaming"))
          /\ issued' = Append(issued, num'[p]) /\ threadDirs' = threadDirs
      BY <1>1 DEF Bump, LegacyBump, Draw
    <2>3. file'.num = num'[p]
      BY <1>a, <2>1, <2>2, Wrote
    <2>4. file.num <= num[p]
      BY <1>a, <2>2 DEF CASMatches, Known
    <2>5. pc'[p] \in Drawn
      BY <1>a, <2>2 DEF Goto, TypeOK, Drawn
    <2>6. QED
      BY <1>a, <2>1, <2>2, <2>3, <2>4, <2>5
  <1>2. QED
    BY <1>1 DEF Step, Load, LoadRead, LoadCreate, Reconcile, Raise, RaiseRead,
       RaiseCreate, NewThread, BumpRead, BumpCreate, SaveThread, LoadFail,
       RaiseFail, BumpFail, Exit, DrawRead, DrawCreate, Legacy, LegacyRead,
       LegacyCreate, Rename, LegacyFail

\* The ids stay bounded by the file and increasing.
LEMMA StepIncrease ==
  ASSUME IdInv, NEW p \in Procs, Step(p)
  PROVE  /\ \A i \in DOMAIN issued' : issued'[i] <= file'.num
         /\ IdsOrdered'
  <1>a. /\ issued \in Seq(1 .. MaxNum) /\ file.num \in Int /\ file'.num \in Nat
        /\ file.num <= file'.num
    BY StepForward, NumsAreIntegers DEF IdInv, TypeOK
  <1>b. \A i \in DOMAIN issued : issued[i] \in Nat /\ issued[i] <= file.num
    <2>1. \A i \in 1 .. Len(issued) : issued[i] \in 1 .. MaxNum
      BY <1>a, ElementOfSeq
    <2>2. DOMAIN issued = 1 .. Len(issued)
      BY <1>a
    <2>3. QED
      BY <2>1, <2>2, IdAssumption DEF IdInv
  <1>c. IdsOrdered
    BY DEF IdInv
  <1>1. CASE issued' = issued
    BY <1>a, <1>b, <1>c, <1>1 DEF IdsOrdered
  <1>2. CASE /\ issued' = Append(issued, num'[p]) /\ num'[p] = file'.num
             /\ file.num < file'.num
    <2>1. /\ DOMAIN issued = 1 .. Len(issued) /\ Len(issued) \in Nat
          /\ DOMAIN issued' = 1 .. Len(issued) + 1
          /\ \A i \in 1 .. Len(issued) : issued'[i] = issued[i]
          /\ issued'[Len(issued) + 1] = file'.num
      BY <1>a, <1>2
    <2>2. \A i \in 1 .. Len(issued) : issued'[i] \in Nat /\ issued'[i] < file'.num
      BY <1>a, <1>b, <1>2, <2>1
    <2>3. \A i \in DOMAIN issued' : issued'[i] <= file'.num
      <3>1. \A i \in DOMAIN issued' : i \in 1 .. Len(issued) \/ i = Len(issued) + 1
        BY <2>1
      <3>2. QED
        BY <1>a, <2>1, <2>2, <3>1
    <2>4. ASSUME NEW i \in DOMAIN issued', NEW j \in DOMAIN issued', i < j
          PROVE  issued'[i] < issued'[j]
      <3>1. i \in 1 .. Len(issued)
        BY <2>1, <2>4
      <3>2. CASE j \in 1 .. Len(issued)
        BY <1>c, <2>1, <2>4, <3>1, <3>2 DEF IdsOrdered
      <3>3. CASE j = Len(issued) + 1
        BY <2>1, <2>2, <3>1, <3>3
      <3>4. QED
        BY <2>1, <3>2, <3>3
    <2>5. QED
      BY <2>3, <2>4 DEF IdsOrdered
  <1>3. QED
    BY <1>1, <1>2, StepIssued

\* A new thread's directory stays free until the thread is saved.
LEMMA StepFree ==
  ASSUME IdInv, NEW p \in Procs, Step(p)
  PROVE  DirsFree'
  <1>a. /\ DirsFree /\ TypeOK /\ file.num \in Int /\ file'.num \in Int
        /\ \A id \in threadDirs : id \in Nat
        /\ \A q \in Procs : num[q] \in Nat /\ Known(q)
    BY StepForward, NumsAreIntegers DEF IdInv
  <1>b. \A q \in Procs \ {p} : num'[q] = num[q] /\ pc'[q] = pc[q]
    BY StepForward
  <1>1. CASE pc'[p] \notin Drawn /\ threadDirs' = threadDirs
    BY <1>a, <1>b, <1>1 DEF DirsFree, Drawn
  <1>2. CASE SaveThread(p)
    <2>1. /\ pc[p] = "naming" /\ pc'[p] = "ready" /\ num' = num
          /\ threadDirs' = threadDirs \cup {num[p]}
      BY <1>a, <1>2 DEF SaveThread, Goto, TypeOK
    <2>2. ASSUME NEW q \in Procs, pc'[q] \in Drawn
          PROVE  q # p /\ pc[q] = pc'[q] /\ num'[q] = num[q]
      BY <1>b, <2>1, <2>2 DEF Drawn
    <2>3. QED
      BY <1>a, <2>1, <2>2 DEF DirsFree, Drawn
  <1>3. CASE Bump(p) /\ pc'[p] = "naming"
    <2>1. /\ num'[p] = file'.num /\ file.num < file'.num /\ threadDirs' = threadDirs
      <3>1. CASMatches(p) /\ issued' = Append(issued, num'[p])
        BY <1>a, <1>3 DEF Bump, Draw, Goto, TypeOK
      <3>2. issued' # issued
        BY <1>a, <3>1 DEF TypeOK
      <3>3. QED
        BY <3>2, StepIssued
    <2>2. \A id \in threadDirs : id <= file.num
      BY <1>a, <1>3 DEF Bump, Draw, Known, Loaded
    <2>3. \A q \in Procs \ {p} : pc[q] \in Drawn => num[q] <= file.num
      BY <1>a DEF Known
    <2>4. num'[p] \notin threadDirs'
      BY <1>a, <2>1, <2>2
    <2>5. \A q \in Procs \ {p} : pc'[q] \in Drawn => num'[q] # num'[p]
      BY <1>a, <1>b, <2>1, <2>3
    <2>6. \A q \in Procs \ {p} : pc'[q] = "naming" => num'[q] \notin threadDirs'
      BY <1>a, <1>b, <2>1 DEF DirsFree
    <2>7. QED
      BY <1>a, <1>b, <2>4, <2>5, <2>6 DEF DirsFree, Drawn
  <1>4. CASE LegacyBump(p) /\ pc'[p] = "renaming"
    <2>1. /\ num'[p] = file'.num /\ file.num < file'.num /\ threadDirs' = threadDirs
      <3>1. CASMatches(p) /\ issued' = Append(issued, num'[p])
        BY <1>a, <1>4 DEF LegacyBump, Draw, Goto, TypeOK
      <3>2. issued' # issued
        BY <1>a, <3>1 DEF TypeOK
      <3>3. QED
        BY <3>2, StepIssued
    <2>2. \A q \in Procs \ {p} : pc'[q] = "naming" => num'[q] # num'[p]
      BY <1>a, <1>b, <2>1 DEF Known, Drawn
    <2>3. QED
      BY <1>a, <1>b, <1>4, <2>1, <2>2 DEF DirsFree
  <1>5. CASE Rename(p)
    <2>1. /\ pc[p] = "renaming" /\ pc'[p] \in {"down", "scanning"} /\ num' = num
          /\ threadDirs' = threadDirs \cup {num[p]}
      BY <1>a, <1>5 DEF Rename, Goto, TypeOK
    <2>2. ASSUME NEW q \in Procs, pc'[q] \in Drawn
          PROVE  q # p /\ pc[q] = pc'[q] /\ num'[q] = num[q]
      BY <1>b, <2>1, <2>2 DEF Drawn
    <2>3. \A q \in Procs : pc'[q] = "naming" => num[q] # num[p]
      BY <2>1, <2>2 DEF DirsFree, Drawn, IdInv
    <2>4. QED
      BY <1>a, <2>1, <2>2, <2>3 DEF DirsFree, Drawn
  <1>6. Step(p) => \/ pc'[p] \notin Drawn /\ threadDirs' = threadDirs
                   \/ SaveThread(p)
                   \/ Bump(p) /\ pc'[p] = "naming"
                   \/ LegacyBump(p) /\ pc'[p] = "renaming"
                   \/ Rename(p)
    BY <1>a DEF TypeOK, Step, Load, LoadRead, LoadCreate, Reconcile, Raise,
       RaiseRead, RaiseCreate, NewThread, Bump, BumpRead, BumpCreate, LoadFail,
       RaiseFail, BumpFail, Exit, Reset, Goto, Draw, DrawRead, DrawCreate, Legacy,
       LegacyBump, LegacyRead, LegacyCreate, LegacyFail, Drawn
  <1>7. QED
    BY <1>1, <1>2, <1>3, <1>4, <1>5, <1>6

\* The invariant is inductive until the file is missing.
LEMMA StepIdInv ==
  ASSUME ~missed', IdInv, [Next]_vars
  PROVE  IdInv'
  <1>1. CASE UNCHANGED vars
    BY <1>1 DEF vars, IdInv, TypeOK, Known, IdsOrdered, DirsFree
  <1>2. ASSUME NEW p \in Procs, Step(p) PROVE IdInv'
    <2>1. file' # NoFile
      BY <1>2, StepForward, ContentsFacts
    <2>2. ASSUME NEW q \in Procs \ {p} PROVE Known(q)'
      <3>1. /\ file.num <= file'.num /\ file'.num \in Int /\ num'[q] = num[q]
            /\ ver'[q] = ver[q] /\ maxId'[q] = maxId[q] /\ pc'[q] = pc[q]
        BY <1>2, StepForward
      <3>2. CASE threadDirs' = threadDirs
        BY <3>1, <3>2, OthersKnow
      <3>3. CASE SaveThread(p)
        <4>1. /\ threadDirs' = threadDirs \cup {num[p]} /\ file' = file
              /\ num[p] <= file.num
          BY <3>3 DEF SaveThread, IdInv, Known, Drawn
        <4>2. Known(q)
          BY DEF IdInv
        <4>3. QED
          BY <3>1, <4>1, <4>2 DEF Known, Loaded
      <3>6. CASE Rename(p)
        <4>1. /\ threadDirs' = threadDirs \cup {num[p]} /\ file' = file
              /\ num[p] <= file.num
          BY <3>6 DEF Rename, IdInv, Known, Drawn
        <4>2. Known(q)
          BY DEF IdInv
        <4>3. QED
          BY <3>1, <4>1, <4>2 DEF Known, Loaded
      <3>4. Step(p) => threadDirs' = threadDirs \/ SaveThread(p) \/ Rename(p)
        BY DEF Step, Load, LoadRead, LoadCreate, Reconcile, Raise, RaiseRead,
           RaiseCreate, NewThread, Bump, BumpRead, BumpCreate, LoadFail,
           RaiseFail, BumpFail, Exit, Draw, DrawRead, DrawCreate, Legacy,
           LegacyBump, LegacyRead, LegacyCreate, LegacyFail
      <3>5. QED
        BY <1>2, <3>2, <3>3, <3>4, <3>6
    <2>3. \A q \in Procs : Known(q)'
      BY <1>2, <2>2, StepKnown
    <2>4. QED
      BY <1>2, <2>1, <2>3, KnownTypes, StepTypes, StepIncrease, StepFree DEF IdInv
  <1>3. QED
    BY <1>1, <1>2 DEF Next, Vanish

\* Once missing, thread_group_set.json counts as missing for ever.
LEMMA MissedStays == ASSUME [Next]_vars PROVE missed => missed'
  BY DEF Next, vars, Vanish, Step, Load, LoadRead, LoadCreate, Reconcile, Raise,
     RaiseRead, RaiseCreate, NewThread, Bump, BumpRead, BumpCreate, SaveThread,
     LoadFail, RaiseFail, BumpFail, Exit, Reset, Goto, Draw, DrawRead, DrawCreate,
     Legacy, LegacyBump, LegacyRead, LegacyCreate, Rename, LegacyFail

\* The inductive invariant holds until the file is missing.
LEMMA UntilMissed == Spec => [](~missed => IdInv)
  <1>1. Init => (~missed => IdInv)
    BY InitIdInv
  <1>2. (~missed => IdInv) /\ [Next]_vars => (~missed => IdInv)'
    BY MissedStays, StepIdInv
  <1>3. QED
    BY <1>1, <1>2, PTL DEF Spec

\* The ids newThreadId returns increase, across processes and restarts, as its
\* comment promises, for as long as thread_group_set.json is not missing.
THEOREM IdsIncreaseCorrect == Spec => []IdsIncrease
  <1>1. (~missed => IdInv) => IdsIncrease
    BY DEF IdInv, IdsIncrease
  <1>2. QED
    BY <1>1, UntilMissed, PTL

\* No interleaving of loads and allocations moves thread_group_set.json back.
THEOREM FileForwardCorrect == Spec => FileNeverGoesBack
  <1>1. ASSUME ~missed => IdInv, [Next]_vars
        PROVE  [~missed' => file'.num >= file.num]_vars
    <2>1. ASSUME NEW p \in Procs, Step(p), ~missed' PROVE file'.num >= file.num
      <3>1. IdInv
        BY <1>1, <2>1, MissedStays
      <3>2. QED
        BY <2>1, <3>1, StepForward, NumsAreIntegers DEF IdInv
    <2>2. QED
      BY <1>1, <2>1 DEF Next, Vanish
  <1>2. QED
    BY <1>1, UntilMissed, PTL DEF Spec, FileNeverGoesBack
-----------------------------------------------------------------------------
(* One process at a time, with the file missing at will.                   *)

\* Its number bounds the thread directories, not the file's; a file that is
\* there is the one it last read or wrote.
AloneKnows(p) ==
    /\ pc[p] \in {"creating", "rereading", "recreating", "bumpRead", "bumpCreate"} =>
          file = NoFile
    /\ pc[p] \in {"scanning", "raising", "ready", "bumping", "naming", "renaming"} =>
          file \in {NoFile, ver[p]}
    /\ pc[p] \in {"raising", "rereading", "recreating", "ready", "bumping",
                  "bumpRead", "bumpCreate"} =>
          \A id \in threadDirs : id <= num[p]
    /\ pc[p] = "naming" => \A id \in threadDirs : id < num[p]

AloneInv == \A p \in Procs : Up(p) => AloneKnows(p) /\ \A q \in Procs \ {p} : ~Up(q)

\* What a lone process knows stays right under its own steps.
LEMMA AloneStep ==
  ASSUME TypeInv, NEW p \in Procs, Up(p) => AloneKnows(p), Step(p)
  PROVE  Up(p)' => AloneKnows(p)'
  <1>a. /\ TypeOK /\ num[p] \in Nat /\ threadDirs \subseteq Nat
        /\ (Up(p) => AloneKnows(p))
    BY NumsAreIntegers DEF TypeInv
  <1> USE <1>a DEF Up, AloneKnows, Goto, TypeOK
  <1>1. CASE Load(p) \/ LoadFail(p) \/ RaiseFail(p) \/ BumpFail(p) \/ Exit(p)
             \/ LegacyFail(p)
    BY <1>1 DEF Load, LoadFail, RaiseFail, BumpFail, Exit, Reset, LegacyFail
  <1>2. CASE LoadRead(p)
    BY <1>2 DEF LoadRead, Adopt, Missing
  <1>3. CASE LoadCreate(p)
    BY <1>3 DEF LoadCreate, WriteFile
  <1>4. CASE Reconcile(p)
    <2>1. PICK m \in threadDirs \cup {num[p]} :
             /\ \A id \in threadDirs \cup {num[p]} : id <= m
             /\ num' = [num EXCEPT ![p] = m]
             /\ Goto(p, IF m <= num[p] THEN "ready" ELSE "raising")
      BY <1>4 DEF Reconcile
    <2>2. pc[p] = "scanning" /\ UNCHANGED <<file, threadDirs, ver>>
      BY <1>4 DEF Reconcile
    <2>3. num'[p] = m /\ pc'[p] \in {"ready", "raising"}
      BY <2>1
    <2>4. QED
      BY <2>1, <2>2, <2>3
  <1>5. CASE Raise(p)
    BY <1>5 DEF Raise, CASMatches, WriteFile
  <1>6. CASE RaiseRead(p)
    BY <1>6 DEF RaiseRead, Missing
  <1>7. CASE RaiseCreate(p)
    BY <1>7 DEF RaiseCreate, WriteFile
  <1>8. CASE NewThread(p)
    BY <1>8 DEF NewThread
  <1>9. CASE Bump(p)
    <2>1. /\ pc[p] = "bumping" /\ num'[p] = num[p] + 1 /\ threadDirs' = threadDirs
          /\ \A id \in threadDirs : id < num'[p] /\ id <= num'[p]
      BY <1>9 DEF Bump, Draw
    <2>2. CASE WriteFile(p) /\ Goto(p, "naming")
      BY <2>1, <2>2 DEF WriteFile
    <2>3. CASE ~CASMatches(p) /\ Goto(p, "bumpRead") /\ UNCHANGED file
      BY <2>1, <2>3 DEF CASMatches
    <2>4. QED
      BY <1>9, <2>2, <2>3 DEF Bump, Draw
  <1>10. CASE BumpRead(p)
    BY <1>10 DEF BumpRead, DrawRead, Adopt, Missing
  <1>11. CASE BumpCreate(p)
    BY <1>11 DEF BumpCreate, DrawCreate, WriteFile
  <1>12. CASE SaveThread(p)
    <2>1. /\ pc[p] = "naming" /\ pc'[p] = "ready" /\ UNCHANGED <<file, num, ver>>
          /\ threadDirs' = threadDirs \cup {num[p]}
      BY <1>12 DEF SaveThread
    <2>2. QED
      BY <2>1
  <1>13. CASE Legacy(p) \/ LegacyRead(p) \/ LegacyCreate(p)
    BY <1>13 DEF Legacy, LegacyRead, LegacyCreate, DrawRead, DrawCreate
  <1>14. CASE LegacyBump(p)
    BY <1>14 DEF LegacyBump, Draw, WriteFile
  <1>15. CASE Rename(p)
    BY <1>15 DEF Rename
  <1>16. QED
    BY <1>1, <1>2, <1>3, <1>4, <1>5, <1>6, <1>7, <1>8, <1>9, <1>10, <1>11,
       <1>12, <1>13, <1>14, <1>15 DEF Step

\* While no two processes were ever up at once, the one that is knows enough,
\* though thread_group_set.json may vanish at any time.
LEMMA WhileAlone == Spec => [](~shared => AloneInv)
  <1>1. Init => AloneInv
    BY DEF Init, AloneInv, Up
  <1>2. ASSUME TypeInv, ~shared => AloneInv, [Next]_vars, ~shared'
        PROVE  AloneInv'
    <2>1. CASE UNCHANGED vars
      BY <1>2, <2>1 DEF vars, AloneInv, AloneKnows, Up
    <2>2. CASE Vanish
      BY <1>2, <2>2 DEF Vanish, AloneInv, AloneKnows, Up
    <2>3. ASSUME NEW p \in Procs, Step(p) PROVE AloneInv'
      <3>1. ~shared /\ (pc'[p] # "down" => \A q \in Procs \ {p} : ~Up(q))
        BY <1>2, <2>3 DEF TypeInv, TypeOK, Step, Load, LoadRead, LoadCreate,
           Reconcile, Raise, RaiseRead, RaiseCreate, NewThread, Bump, BumpRead,
           BumpCreate, SaveThread, LoadFail, RaiseFail, BumpFail, Exit, Reset, Goto,
           Draw, DrawRead, DrawCreate, Legacy, LegacyBump, LegacyRead, LegacyCreate,
           Rename, LegacyFail
      <3>2. \A q \in Procs \ {p} : ver'[q] = ver[q] /\ num'[q] = num[q] /\ pc'[q] = pc[q]
        BY <1>2, <2>3, Frame
      <3>3. Up(p)' => AloneKnows(p)'
        BY <1>2, <2>3, <3>1, AloneStep DEF AloneInv
      <3>4. CASE Up(p) \/ Up(p)'
        <4>1. \A q \in Procs \ {p} : ~Up(q)'
          BY <1>2, <3>1, <3>2, <3>4 DEF AloneInv, Up
        <4>2. QED
          BY <3>3, <4>1 DEF AloneInv
      <3>5. CASE ~Up(p) /\ ~Up(p)'
        <4>1. UNCHANGED <<file, threadDirs>>
          BY <1>2, <2>3, <3>5 DEF TypeInv, TypeOK, Up, Step, Load, LoadRead,
             LoadCreate, Reconcile, Raise, RaiseRead, RaiseCreate, NewThread, Bump,
             BumpRead, BumpCreate, SaveThread, LoadFail, RaiseFail, BumpFail, Exit, Goto,
             Draw, DrawRead, DrawCreate, Legacy, LegacyBump, LegacyRead, LegacyCreate,
             Rename, LegacyFail
        <4>2. ASSUME NEW q \in Procs \ {p}, Up(q)'
              PROVE  AloneKnows(q)' /\ \A o \in Procs \ {q} : ~Up(o)'
          <5>1. AloneKnows(q) /\ \A o \in Procs \ {q} : ~Up(o)
            BY <1>2, <3>1, <3>2, <4>2 DEF AloneInv, Up
          <5>2. AloneKnows(q)'
            BY <3>2, <4>1, <5>1 DEF AloneKnows
          <5>3. \A o \in Procs \ {q} : ~Up(o)'
            BY <3>2, <3>5, <5>1 DEF Up
          <5>4. QED
            BY <5>2, <5>3
        <4>3. QED
          BY <3>5, <4>2 DEF AloneInv
      <3>6. QED
        BY <3>4, <3>5
    <2>4. QED
      BY <1>2, <2>1, <2>2, <2>3 DEF Next
  <1>3. QED
    BY <1>1, <1>2, TypeInvariant, PTL DEF Spec

\* NewThread never saves a thread over another one, whatever the thread
\* directories were when the processes started: neither while
\* thread_group_set.json is there, however many processes run, nor while
\* processes never overlap, however often it is missing.
THEOREM NewDirIsFreeCorrect == Spec => []NewDirIsFree
  <1>1. TypeInv /\ (~missed => IdInv) /\ (~shared => AloneInv) => NewDirIsFree
    <2>1. ASSUME TypeInv, AloneInv PROVE DirsFree
      <3>1. \A p \in Procs : num[p] \in Nat
        BY <2>1, NumsAreIntegers DEF TypeInv
      <3>2. QED
        BY <2>1, <3>1 DEF AloneInv, AloneKnows, DirsFree, Up
    <2>2. QED
      BY <2>1 DEF IdInv, NewDirIsFree
  <1>2. QED
    BY <1>1, UntilMissed, TypeInvariant, WhileAlone, PTL

\* Every variable keeps its type, and a thread that is named has a positive id.
THEOREM TypeCorrect == Spec => []TypeOK
  <1>1. TypeInv => TypeOK
    BY DEF TypeInv
  <1>2. QED
    BY <1>1, TypeInvariant, PTL
=============================================================================
