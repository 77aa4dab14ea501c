--------------------------- MODULE FilesZone_proofs ---------------------------
(***************************************************************************)
(* For any number of folders and files, whatever the bounds on the path and *)
(* the queue: the types, that nothing is ever hidden, that the grid settles, *)
(* and that the loop of move_folder visits what Above says.                 *)
(*                                                                         *)
(* The folder lemmas are about a function p from folders to parents, before  *)
(* and after one of its values changes.                                     *)
(***************************************************************************)
EXTENDS FilesZone, FiniteSetTheorems, SequenceTheorems, TLAPS

FoldersOf(p) == {f \in FolderIds : p[f] # None}
ParentMaps == [FolderIds -> FolderIds \union {Root, None}]

\* S holds what is listed at the root and in each folder of S.
Shows(p, S) ==
  /\ \A g \in FolderIds : p[g] = Root => g \in S
  /\ \A f \in S : \A g \in FolderIds : p[g] = f => g \in S

Grounded(p) == \A S \in SUBSET FoldersOf(p) : Shows(p, S) => S = FoldersOf(p)

AboveIn(p, d) ==
  {f \in FoldersOf(p) : \A S \in SUBSET FoldersOf(p) :
     d \in S /\ (\A g \in S : p[g] \in FoldersOf(p) => p[g] \in S) => f \in S}

\* A new row shows where it was put, and hides nothing.
LEMMA CreateGrounds ==
  ASSUME NEW p \in ParentMaps, Grounded(p),
         NEW id \in FolderIds \ FoldersOf(p), NEW d \in FoldersOf(p) \union {Root}
  PROVE  Grounded([p EXCEPT ![id] = d])
<1> DEFINE q == [p EXCEPT ![id] = d]
<1>1. FoldersOf(q) = FoldersOf(p) \union {id}
  BY IdsAssumption DEF FoldersOf, ParentMaps
<1> SUFFICES ASSUME NEW S \in SUBSET FoldersOf(q), Shows(q, S)
             PROVE  S = FoldersOf(q)
  BY DEF Grounded
<1>2. Shows(p, S \ {id})
  <2>1. ASSUME NEW g \in FolderIds, p[g] = Root PROVE g \in S \ {id}
    BY <2>1, IdsAssumption DEF Shows, FoldersOf, ParentMaps
  <2>2. ASSUME NEW f \in S \ {id}, NEW g \in FolderIds, p[g] = f PROVE g \in S \ {id}
    BY <2>2, IdsAssumption DEF Shows, FoldersOf, ParentMaps
  <2> QED BY <2>1, <2>2 DEF Shows
<1>3. S \ {id} = FoldersOf(p)
  BY <1>1, <1>2 DEF Grounded
<1>4. id \in S
  BY <1>3 DEF Shows, FoldersOf, ParentMaps
<1> QED BY <1>1, <1>3, <1>4

\* An empty folder can go.
LEMMA DeleteGrounds ==
  ASSUME NEW p \in ParentMaps, Grounded(p), NEW id \in FoldersOf(p),
         \A g \in FolderIds : p[g] # id
  PROVE  Grounded([p EXCEPT ![id] = None])
<1> DEFINE q == [p EXCEPT ![id] = None]
<1>1. FoldersOf(q) = FoldersOf(p) \ {id}
  BY DEF FoldersOf, ParentMaps
<1> SUFFICES ASSUME NEW S \in SUBSET FoldersOf(q), Shows(q, S)
             PROVE  S = FoldersOf(q)
  BY DEF Grounded
<1>2. Shows(p, S \union {id})
  BY DEF Shows, FoldersOf, ParentMaps
<1>3. S \union {id} = FoldersOf(p)
  BY <1>1, <1>2 DEF Grounded
<1> QED BY <1>1, <1>3

\* The folders that the cursor visits: the first one, and with each its parent.
LEMMA AboveGoesUp ==
  ASSUME NEW p \in ParentMaps, NEW d \in FoldersOf(p)
  PROVE  /\ d \in AboveIn(p, d)
         /\ \A g \in AboveIn(p, d) : p[g] \in FoldersOf(p) => p[g] \in AboveIn(p, d)
<1>1. d \in AboveIn(p, d)
  BY DEF AboveIn
<1>2. ASSUME NEW g \in AboveIn(p, d), p[g] \in FoldersOf(p)
      PROVE  p[g] \in AboveIn(p, d)
  BY <1>2 DEF AboveIn
<1> QED BY <1>1, <1>2

\* A folder that the cursor has not met on the way up from d may go into d.
\* Were anything hidden afterwards, then d itself, and with it all that is
\* above d, and that was out of sight before.
LEMMA MoveGrounds ==
  ASSUME NEW p \in ParentMaps, Grounded(p), NEW id \in FoldersOf(p),
         NEW d \in FoldersOf(p) \union {Root}, d # Root => id \notin AboveIn(p, d)
  PROVE  Grounded([p EXCEPT ![id] = d])
<1> DEFINE q == [p EXCEPT ![id] = d]
           F == FoldersOf(p)
<1>1. FoldersOf(q) = F
  BY IdsAssumption DEF FoldersOf, ParentMaps
<1> SUFFICES ASSUME NEW S \in SUBSET F, Shows(q, S)
             PROVE  S = F
  BY <1>1 DEF Grounded
<1>2. CASE id \in S
  <2>1. Shows(p, S)
    BY <1>2 DEF Shows, FoldersOf, ParentMaps
  <2> QED BY <2>1 DEF Grounded
<1>3. CASE id \notin S
  <2> DEFINE A == AboveIn(p, d)
             T == F \ (A \ S)
  <2>1. d \in F \ S
    BY <1>3 DEF Shows, FoldersOf, ParentMaps
  <2>2. d \in A /\ id \notin A /\ \A g \in A : p[g] \in F => p[g] \in A
    BY <2>1, AboveGoesUp, IdsAssumption DEF FoldersOf
  <2> HIDE DEF A
  <2>3. ASSUME NEW g \in FolderIds, p[g] = Root PROVE g \in T
    <3>1. g \in F
      BY <2>3, IdsAssumption DEF FoldersOf
    <3>2. g # id => g \in S
      BY <2>3 DEF Shows, ParentMaps
    <3> QED BY <3>1, <3>2, <2>2
  <2>4. ASSUME NEW f \in T, NEW g \in FolderIds, p[g] = f PROVE g \in T
    <3>1. g \in F
      BY <2>4, IdsAssumption DEF FoldersOf
    <3>2. g # id /\ f \in S => g \in S
      BY <2>4 DEF Shows, ParentMaps
    <3>3. g \in A => f \in A
      BY <2>2, <2>4
    <3> QED BY <3>1, <3>2, <3>3, <2>2
  <2>5. Shows(p, T)
    <3> HIDE DEF T
    <3> QED BY <2>3, <2>4 DEF Shows
  <2>6. T = F
    BY <2>5 DEF Grounded
  <2> QED BY <2>1, <2>2, <2>6
<1> QED BY <1>2, <1>3

-----------------------------------------------------------------------------
(* The loop of move_folder, step by step *)

\* A set of numbers has a least one: what proofs by induction start from.
LEMMA Least ==
  ASSUME NEW T \in SUBSET Nat, T # {}
  PROVE  \E m \in T : \A k \in T : m <= k
<1>1. \E m \in T : \A k \in T : <<k, m>> \notin OpToRel(<, Nat)
  BY NatLessThanWellFounded, WFMin, Zenon
<1>2. PICK m \in T : \A k \in T : ~ (k < m)
  BY <1>1, Zenon DEF OpToRel
<1> QED
  BY <1>2

\* Where the cursor is after n steps from d.
StepUp(p, x) == IF x \in FoldersOf(p) THEN p[x] ELSE Root
Climbs(p, d, n, c) == c = [i \in 0..n |-> IF i = 0 THEN d ELSE StepUp(p, c[i - 1])]

\* The loop can be run for any number of steps.
LEMMA ClimbExists ==
  ASSUME NEW p \in ParentMaps, NEW d, NEW n \in Nat
  PROVE  \E c : Climbs(p, d, n, c)
<1> DEFINE T == {m \in Nat : ~ \E c : Climbs(p, d, m, c)}
<1> SUFFICES ASSUME T # {} PROVE FALSE
  OBVIOUS
<1>1. PICK m \in T : \A k \in T : m <= k
  <2> HIDE DEF T
  <2>1. T \subseteq Nat
    BY DEF T
  <2> QED
    BY <2>1, Least
<1>2. CASE m = 0
  <2> DEFINE c == [i \in 0..0 |-> d]
  <2>1. c = [i \in 0..0 |-> IF i = 0 THEN d ELSE StepUp(p, c[i - 1])]
    OBVIOUS
  <2>2. Climbs(p, d, 0, c)
    BY <2>1 DEF Climbs
  <2> QED
    BY <1>2, <2>2
<1>3. CASE m # 0
  <2>1. m - 1 \in Nat /\ m - 1 \notin T
    BY <1>1, <1>3
  <2>2. PICK b : Climbs(p, d, m - 1, b)
    BY <2>1
  <2> DEFINE c == [i \in 0..m |-> IF i = m THEN StepUp(p, b[m - 1]) ELSE b[i]]
  <2>3. /\ b = [i \in 0..m-1 |-> IF i = 0 THEN d ELSE StepUp(p, b[i - 1])]
    BY <2>2 DEF Climbs
  <2>4. \A i \in 0..m : c[i] = IF i = 0 THEN d ELSE StepUp(p, c[i - 1])
    <3> TAKE i \in 0..m
    <3>1. CASE i = m
      BY <1>3, <2>1, <3>1
    <3>2. CASE i # m
      <4>1. i \in 0..m-1 /\ (i # 0 => i - 1 \in 0..m-1 /\ i - 1 # m)
        BY <3>2
      <4>2. b[i] = IF i = 0 THEN d ELSE StepUp(p, b[i - 1])
        BY <2>3, <4>1
      <4> QED
        BY <3>2, <4>1, <4>2
    <3> QED
      BY <3>1, <3>2
  <2>5. c = [i \in 0..m |-> IF i = 0 THEN d ELSE StepUp(p, c[i - 1])]
    <3>1. c = [i \in 0..m |-> c[i]]
      OBVIOUS
    <3> HIDE DEF c
    <3> QED
      BY <2>4, <3>1
  <2>6. Climbs(p, d, m, c)
    BY <2>5 DEF Climbs
  <2> QED
    BY <2>6
<1> QED
  BY <1>2, <1>3

\* Where a climb is, in terms of where it was one step before.
LEMMA ClimbStep ==
  ASSUME NEW p \in ParentMaps, NEW d \in FoldersOf(p), NEW n \in Nat, NEW c, Climbs(p, d, n, c),
         \A f \in FoldersOf(p) : p[f] \in FoldersOf(p) \union {Root}
  PROVE  /\ c \in [0..n -> FoldersOf(p) \union {Root}]
         /\ c[0] = d
         /\ \A i \in 1..n : c[i] = StepUp(p, c[i - 1])
<1>1. DOMAIN c = 0..n /\ c = [i \in 0..n |-> c[i]]
  BY DEF Climbs
<1>2. c[0] = d /\ \A i \in 1..n : c[i] = StepUp(p, c[i - 1])
  <2>1. c[0] = d
    BY DEF Climbs
  <2>2. ASSUME NEW i \in 1..n PROVE c[i] = StepUp(p, c[i - 1])
    <3>1. i \in 0..n /\ i # 0
      OBVIOUS
    <3> QED
      BY <3>1 DEF Climbs
  <2> QED
    BY <2>1, <2>2
<1>3. \A x : StepUp(p, x) \in FoldersOf(p) \union {Root}
  BY DEF StepUp
<1>4. \A i \in 0..n : c[i] \in FoldersOf(p) \union {Root}
  BY <1>2, <1>3
<1> QED
  BY <1>1, <1>2, <1>4

\* A climb that has got to the root stays there.
LEMMA ClimbStays ==
  ASSUME NEW p \in ParentMaps, NEW n \in Nat, NEW c,
         \A i \in 1..n : c[i] = StepUp(p, c[i - 1]),
         NEW m \in 0..n, c[m] = Root
  PROVE  \A k \in m..n : c[k] = Root
<1> DEFINE T == {k \in m..n : c[k] # Root}
<1> SUFFICES ASSUME T # {} PROVE FALSE
  OBVIOUS
<1>1. PICK k \in T : \A j \in T : k <= j
  <2>1. T \subseteq Nat
    OBVIOUS
  <2> HIDE DEF T
  <2> QED
    BY <2>1, Least
<1>2. k # m /\ k - 1 \in m..n /\ k - 1 \notin T /\ k \in 1..n
  BY <1>1
<1>3. c[k - 1] = Root
  BY <1>2
<1>4. Root \notin FoldersOf(p)
  BY IdsAssumption DEF FoldersOf
<1> QED
  BY <1>2, <1>3, <1>4 DEF StepUp

\* Whoever climbs as often as there are folders has got to the root: otherwise
\* a folder was met twice, and none of those in between can be shown.
LEMMA ClimbEnds ==
  ASSUME NEW p \in ParentMaps, Grounded(p), NEW d \in FoldersOf(p), NEW c,
         \A f \in FoldersOf(p) : p[f] \in FoldersOf(p) \union {Root},
         Climbs(p, d, Cardinality(FolderIds), c)
  PROVE  c[Cardinality(FolderIds)] = Root
<1> DEFINE N == Cardinality(FolderIds)
           F == FoldersOf(p)
<1>1. N \in Nat
  BY FS_CardinalityType, FoldersAssumption
<1>2. F \subseteq FolderIds /\ Root \notin F
  BY IdsAssumption DEF FoldersOf
<1> HIDE DEF N
<1>3. /\ c \in [0..N -> F \union {Root}] /\ c[0] = d
      /\ \A i \in 1..N : c[i] = StepUp(p, c[i - 1])
  BY <1>1, ClimbStep DEF N
<1> SUFFICES ASSUME c[N] # Root PROVE FALSE
  BY DEF N
<1>4. \A i \in 0..N : c[i] \in F
  <2> SUFFICES ASSUME NEW i \in 0..N, c[i] = Root PROVE FALSE
    BY <1>3
  <2>1. N \in i..N
    BY <1>1
  <2> QED
    BY <1>1, <1>3, <2>1, ClimbStays
<1>5. \E i, j \in 0..N : i < j /\ c[i] = c[j]
  <2>1. IsFiniteSet(0..N) /\ Cardinality(0..N) = N + 1
    BY <1>1, FS_Interval
  <2>2. c \in [0..N -> FolderIds]
    BY <1>2, <1>3, <1>4
  <2>3. IsFiniteSet(FolderIds) /\ Cardinality(FolderIds) < Cardinality(0..N)
    BY <1>1, <2>1, FoldersAssumption DEF N
  <2>4. PICK i, j \in 0..N : i # j /\ c[i] = c[j]
    <3> DEFINE D == 0..N
    <3>1. IsFiniteSet(D) /\ IsFiniteSet(FolderIds) /\ Cardinality(FolderIds) < Cardinality(D)
          /\ c \in [D -> FolderIds]
      BY <2>1, <2>2, <2>3
    <3> HIDE DEF D
    <3>2. \E x, y \in D : x # y /\ c[x] = c[y]
      BY <3>1, FS_PigeonHole, SMT
    <3> QED
      BY <3>2 DEF D
  <2>5. CASE i < j
    BY <2>4, <2>5
  <2>6. CASE j < i
    BY <2>4, <2>6
  <2> QED
    BY <1>1, <2>4, <2>5, <2>6
<1>6. PICK i \in 0..N, j \in 0..N : i < j /\ c[i] = c[j]
  BY <1>5
<1> DEFINE T == {c[k] : k \in i..j}
<1>7. ASSUME NEW g \in T PROVE g \in F /\ p[g] \in T
  <2>1. PICK k \in i..j : g = c[k]
    OBVIOUS
  <2>2. k \in 0..N /\ g \in F
    BY <1>1, <1>4, <2>1
  <2>3. CASE k = j
    <3>1. i + 1 \in i..j /\ i + 1 \in 1..N /\ (i + 1) - 1 = i
      BY <1>1, <1>6
    <3>2. c[i + 1] = p[c[i]]
      BY <1>3, <1>4, <3>1 DEF StepUp
    <3> QED
      BY <1>6, <2>1, <2>2, <2>3, <3>1, <3>2
  <2>4. CASE k # j
    <3>1. k + 1 \in i..j /\ k + 1 \in 1..N /\ (k + 1) - 1 = k
      BY <1>1, <2>1, <2>4
    <3>2. c[k + 1] = p[c[k]]
      BY <1>3, <1>4, <2>2, <3>1 DEF StepUp
    <3> QED
      BY <2>1, <2>2, <3>1, <3>2
  <2> QED
    BY <2>3, <2>4
<1>8. c[i] \in T
  BY <1>6
<1> HIDE DEF T
<1>9. Shows(p, F \ T)
  <2>1. ASSUME NEW g \in FolderIds, p[g] = Root PROVE g \in F \ T
    BY <1>2, <1>7, <2>1, IdsAssumption DEF FoldersOf
  <2>2. ASSUME NEW f \in F \ T, NEW g \in FolderIds, p[g] = f PROVE g \in F \ T
    BY <1>7, <2>2, IdsAssumption DEF FoldersOf
  <2> QED
    BY <2>1, <2>2 DEF Shows
<1>10. F \ T = F
  BY <1>9 DEF Grounded
<1> QED
  BY <1>7, <1>8, <1>10

\* So a climb visits the folders above, and the root.
LEMMA ClimbVisits ==
  ASSUME NEW p \in ParentMaps, Grounded(p), NEW d \in FoldersOf(p), NEW c,
         \A f \in FoldersOf(p) : p[f] \in FoldersOf(p) \union {Root},
         Climbs(p, d, Cardinality(FolderIds), c)
  PROVE  {c[i] : i \in 0..Cardinality(FolderIds)} = AboveIn(p, d) \union {Root}
<1> DEFINE N == Cardinality(FolderIds)
           F == FoldersOf(p)
           W == {c[i] : i \in 0..N}
<1>1. N \in Nat
  BY FS_CardinalityType, FoldersAssumption
<1>2. c[N] = Root
  BY ClimbEnds
<1>3. Root \notin F
  BY IdsAssumption DEF FoldersOf
<1>4. /\ c \in [0..N -> F \union {Root}] /\ c[0] = d
      /\ \A i \in 1..N : c[i] = StepUp(p, c[i - 1])
  BY <1>1, ClimbStep
<1> HIDE DEF N
<1>5. ASSUME NEW S \in SUBSET F, d \in S, \A g \in S : p[g] \in F => p[g] \in S, NEW i \in 0..N, c[i] \in F
      PROVE  c[i] \in S
  <2> DEFINE T == {k \in 0..N : c[k] \in F \ S}
  <2> SUFFICES ASSUME T # {} PROVE FALSE
    BY <1>5
  <2>1. PICK k \in T : \A j \in T : k <= j
    <3>1. T \subseteq Nat
      OBVIOUS
    <3> HIDE DEF T
    <3> QED
      BY <3>1, Least
  <2>2. k # 0 /\ k - 1 \in 0..N /\ k - 1 \notin T /\ k \in 1..N
    <3>1. k \in 0..N /\ c[k] \notin S
      BY <2>1
    <3>2. k # 0
      BY <1>4, <1>5, <3>1
    <3>3. k - 1 \in 0..N /\ k \in 1..N /\ ~ (k <= k - 1)
      BY <1>1, <3>1, <3>2
    <3>4. k - 1 \notin T
      <4> HIDE DEF T
      <4> QED
        BY <2>1, <3>3
    <3> QED
      BY <3>2, <3>3, <3>4
  <2>3. c[k] = StepUp(p, c[k - 1]) /\ c[k] \in F \ S
    BY <1>4, <2>2
  <2>4. c[k - 1] \in F /\ c[k] = p[c[k - 1]]
    BY <1>3, <2>3 DEF StepUp
  <2> QED
    BY <1>5, <2>2, <2>3, <2>4
<1>6. W \ {Root} \subseteq AboveIn(p, d)
  BY <1>4, <1>5 DEF AboveIn
<1>7. Root \in W
  BY <1>1, <1>2 DEF N
<1>8. d \in W \intersect F
  BY <1>1, <1>4
<1>9. ASSUME NEW g \in W \intersect F, p[g] \in F PROVE p[g] \in W \intersect F
  <2>1. PICK i \in 0..N : g = c[i]
    BY <1>9
  <2>2. i # N
    BY <1>2, <1>3, <1>9, <2>1 DEF N
  <2>3. i + 1 \in 1..N /\ i + 1 \in 0..N /\ (i + 1) - 1 = i
    BY <1>1, <2>2
  <2>4. c[i + 1] = p[g]
    BY <1>4, <1>9, <2>1, <2>3 DEF StepUp
  <2> QED
    BY <1>9, <2>3, <2>4
<1>10. AboveIn(p, d) \subseteq W \intersect F
  <2> HIDE DEF W
  <2> QED
    BY <1>8, <1>9 DEF AboveIn
<1> QED
  BY <1>6, <1>7, <1>10 DEF N

-----------------------------------------------------------------------------
(* The inductive invariant *)

\* The id of a folder that is still to be created belongs to it alone.
NewIds ==
  /\ Folders \subseteq used
  /\ \A i \in 1..Len(queue) : queue[i].op = "createFolder" =>
       /\ queue[i].id \in (FolderIds \intersect used) \ Folders
       /\ \A j \in 1..Len(queue) :
            queue[j].op = "createFolder" /\ queue[j].id = queue[i].id => i = j

\* A list is asked for a folder or the root; one that will be out of date is
\* followed by one that will not.
Coming(i) == i \in 1..Len(queue) /\ queue[i].op = "list" /\ queue[i].to = Current(path)
ListsFollow ==
  \A i \in 1..Len(queue) : queue[i].op = "list" =>
    /\ queue[i].to # None
    /\ queue[i].to # Current(path) => \E j \in 1..Len(queue) : j > i /\ Coming(j)

UpToDate ==
  /\ grid.at = Current(path)
  /\ grid.folders = Listed(Current(path))
  /\ grid.files = FilesIn(Current(path))
  /\ grid.crumbs = Len(path)

\* What the grid does not show yet will be drawn, or a command has failed.
Settling ==
  \/ erred
  \/ UpToDate
  \/ \E i \in 1..Len(queue) : queue[i].op # "list" \/ Coming(i)

IInv == TypeOK /\ NewIds /\ ListsFollow /\ NothingHidden /\ Settling

\* NothingHidden says that the parents are grounded.
LEMMA HiddenMeans ==
  ASSUME TypeOK
  PROVE  /\ parent \in ParentMaps /\ FoldersOf(parent) = Folders
         /\ NothingHidden <=>
              /\ \A f \in Folders : Exists(parent[f])
              /\ \A x \in Files : Exists(folderOf[x])
              /\ Grounded(parent)
<1>1. parent \in ParentMaps /\ FoldersOf(parent) = Folders
  BY DEF TypeOK, ParentMaps, FoldersOf, Folders
<1>2. \A S \in SUBSET Folders :
        Shows(parent, S) <=> Listed(Root) \subseteq S /\ \A f \in S : Listed(f) \subseteq S
  BY DEF Shows, Listed
<1> QED BY <1>1, <1>2 DEF NothingHidden, Grounded

LEMMA CurrentType ==
  ASSUME NEW p \in Seq(FolderIds)
  PROVE  Current(p) \in FolderIds \union {Root}
BY DEF Current

-----------------------------------------------------------------------------
(* The commands of files.rs keep the rows sound *)

\* What a command leaves behind, if the rows and its id were sound before.
LEMMA RowsStaySound ==
  ASSUME TypeOK, NewIds, NothingHidden, NEW c, First(c), Applies(c)
  PROVE  /\ parent' \in [FolderIds -> FolderIds \union {Root, None}]
         /\ folderOf' \in [FileIds -> FolderIds \union {Root, None}]
         /\ c.op # "list"
         /\ Folders' \subseteq Folders \union (IF c.op = "createFolder" THEN {c.id} ELSE {})
         /\ \A f \in Folders' : parent'[f] = Root \/ parent'[f] \in Folders'
         /\ \A x \in Files' : folderOf'[x] = Root \/ folderOf'[x] \in Folders'
         /\ Grounded(parent')
<1> USE HiddenMeans
<1>1. c \in Commands
  BY HeadTailProperties DEF TypeOK, First
<1>2. c.to # None => c.to \in FolderIds \union {Root}
  BY <1>1 DEF Commands
<1>3. /\ \A f \in Folders : parent[f] = Root \/ parent[f] \in Folders
      /\ \A x \in Files : folderOf[x] = Root \/ folderOf[x] \in Folders
      /\ Grounded(parent)
  BY DEF Exists
<1>4. None \notin Folders /\ None # Root
  BY IdsAssumption DEF Folders
<1>5. CASE CreateFolder(c)
  <2>1. c.to \in Folders \union {Root}
    BY <1>5 DEF CreateFolder, Exists
  <2>2. c.id \in FolderIds \ Folders
    <3>1. c = queue[1] /\ 1 \in 1..Len(queue)
      BY HeadTailProperties DEF First, TypeOK
    <3> QED BY <3>1, <1>5 DEF NewIds, CreateFolder
  <2>3. Folders' = Folders \union {c.id}
    BY <1>5, <2>1, <2>2, <1>4 DEF CreateFolder, Folders, TypeOK
  <2>4. Grounded(parent')
    BY <1>3, <1>5, <2>1, <2>2, CreateGrounds DEF CreateFolder
  <2>5. parent' \in [FolderIds -> FolderIds \union {Root, None}] /\ folderOf' = folderOf
    BY <1>2, <1>4, <1>5, <2>1 DEF CreateFolder, TypeOK
  <2>6. \A f \in Folders' : parent'[f] = Root \/ parent'[f] \in Folders'
    BY <1>3, <1>5, <2>1, <2>2, <2>3 DEF CreateFolder, TypeOK
  <2>7. \A x \in Files' : folderOf'[x] = Root \/ folderOf'[x] \in Folders'
    BY <1>3, <2>3, <2>5 DEF Files
  <2>8. c.op = "createFolder"
    BY <1>5 DEF CreateFolder
  <2> QED BY <2>3, <2>4, <2>5, <2>6, <2>7, <2>8 DEF TypeOK
<1>6. CASE MoveFolder(c)
  <2>1. c.id \in Folders /\ c.to \in Folders \union {Root}
    BY <1>6 DEF MoveFolder, MayMoveFolder, Exists
  <2>2. Folders' = Folders
    BY <1>4, <1>6, <2>1 DEF MoveFolder, Folders, TypeOK
  <2>3. AboveIn(parent, c.to) = Above(c.to)
    BY DEF AboveIn, Above
  <2>4. Grounded(parent')
    BY <1>3, <1>6, <2>1, <2>3, MoveGrounds DEF MoveFolder, MayMoveFolder, Folders
  <2> QED BY <1>3, <1>4, <1>6, <2>1, <2>2, <2>4 DEF MoveFolder, TypeOK, Files, Folders
<1>7. CASE DeleteFolder(c)
  <2>1. c.id \in Folders /\ (\A g \in FolderIds : parent[g] # c.id)
        /\ \A x \in FileIds : folderOf[x] # c.id
    BY <1>7 DEF DeleteFolder, MayDeleteFolder, Listed, FilesIn
  <2>2. Folders' = Folders \ {c.id}
    BY <1>7 DEF DeleteFolder, Folders, TypeOK
  <2>3. Grounded(parent')
    BY <1>3, <1>7, <2>1, DeleteGrounds DEF DeleteFolder
  <2> QED BY <1>3, <1>4, <1>7, <2>1, <2>2, <2>3 DEF DeleteFolder, TypeOK, Files, Folders
<1>8. CASE AddFile(c)
  BY <1>3, <1>4, <1>8 DEF AddFile, Exists, Files, Folders, TypeOK
<1>9. CASE MoveFile(c)
  BY <1>3, <1>4, <1>9 DEF MoveFile, Exists, Files, Folders, TypeOK
<1>10. CASE DeleteFile(c)
  BY <1>3, <1>4, <1>10 DEF DeleteFile, Exists, Files, Folders, TypeOK
<1> QED BY <1>5, <1>6, <1>7, <1>8, <1>9, <1>10 DEF Applies

-----------------------------------------------------------------------------
(* Every step, by what it does to the queue *)

\* What a person does: another path, a new row's command, or another command.
Walks(p) == p \in Seq(FolderIds) /\ GoTo(p)
AsksFolder(f) ==
  f \in FolderIds \ used /\ used' = used \union {f} /\ Ask(Command("createFolder", f, Current(path)))
AsksElse(c) ==
  /\ c \in Commands /\ c.op \notin {"list", "createFolder"}
  /\ used \subseteq used' /\ used' \subseteq used \union FileIds
  /\ Ask(c)

LEMMA ActsShape ==
  ASSUME TypeOK, Acts
  PROVE  (\E p \in Seq(FolderIds) : Walks(p)) \/ (\E f \in FolderIds : AsksFolder(f))
         \/ (\E c \in Commands : AsksElse(c))
<1>0. path \in Seq(FolderIds) /\ grid.folders \subseteq FolderIds
  BY DEF TypeOK
<1>1. ASSUME NEW f \in grid.folders, OpenFolder(f) PROVE \E p \in Seq(FolderIds) : Walks(p)
  <2>1. Append(path, f) \in Seq(FolderIds)
    BY <1>0
  <2> QED BY <1>1, <2>1 DEF OpenFolder, Walks
<1>2. ASSUME GoUp PROVE \E p \in Seq(FolderIds) : Walks(p)
  <2> DEFINE p == IF path = <<>> THEN <<>> ELSE SubSeq(path, 1, Len(path) - 1)
  <2>1. p \in Seq(FolderIds)
    <3>1. CASE path = <<>>
      BY <3>1
    <3>2. CASE path # <<>>
      BY <1>0, <3>2
    <3> QED BY <3>1, <3>2
  <2>2. GoTo(p)
    BY <1>2 DEF GoUp
  <2> QED BY <2>1, <2>2 DEF Walks
<1>3. ASSUME NEW n \in 0..MaxPath, ClickCrumb(n) PROVE \E p \in Seq(FolderIds) : Walks(p)
  <2>1. n \in Nat /\ (n < Len(path) => SubSeq(path, 1, n) \in Seq(FolderIds))
    BY <1>0
  <2> QED BY <1>0, <1>3, <2>1 DEF ClickCrumb, Walks
<1>4. ASSUME ShowZoneView PROVE \E p \in Seq(FolderIds) : Walks(p)
  <2>1. <<>> \in Seq(FolderIds)
    OBVIOUS
  <2> QED BY <1>4, <2>1 DEF ShowZoneView, Walks
<1>5. ASSUME NEW op \in Ops \ {"list", "createFolder"}, NEW id \in FolderIds \union FileIds,
             AskDelete(op, id)
      PROVE  \E c \in Commands : AsksElse(c)
  <2>1. Command(op, id, None) \in Commands /\ Command(op, id, None).op = op
    BY DEF Command, Commands
  <2> QED BY <1>5, <2>1 DEF AskDelete, AsksElse
<1>6. ASSUME NEW op \in Ops \ {"list", "createFolder"}, NEW id \in FolderIds \union FileIds,
             DropOnUp(op, id)
      PROVE  \E c \in Commands : AsksElse(c)
  <2>1. UpTarget(path) \in FolderIds \union {Root}
    BY <1>0 DEF UpTarget
  <2>2. Command(op, id, UpTarget(path)) \in Commands /\ Command(op, id, UpTarget(path)).op = op
    BY <2>1 DEF Command, Commands
  <2> QED BY <1>6, <2>2 DEF DropOnUp, AsksElse
<1>7. ASSUME NEW op \in Ops \ {"list", "createFolder"}, NEW id \in FolderIds \union FileIds,
             NEW f \in FolderIds, DropOnFolder(op, id, f)
      PROVE  \E c \in Commands : AsksElse(c)
  <2> DEFINE c == [Command(op, id, f) EXCEPT !.again = TRUE]
  <2>1. c \in Commands /\ c.op = op
    BY DEF Command, Commands
  <2> QED BY <1>7, <2>1 DEF DropOnFolder, AsksElse
<1>8. ASSUME NEW f \in FolderIds, AskNew("createFolder", f)
      PROVE  \E g \in FolderIds : AsksFolder(g)
  BY <1>8 DEF AskNew, AsksFolder
<1>9. ASSUME NEW x \in FileIds, AskNew("addFile", x)
      PROVE  \E c \in Commands : AsksElse(c)
  <2> DEFINE c == Command("addFile", x, Current(path))
  <2>1. c \in Commands /\ c.op = "addFile"
    BY <1>0, CurrentType DEF Command, Commands, Ops
  <2> QED BY <1>9, <2>1 DEF AskNew, AsksElse
<1>10. {"deleteFolder", "deleteFile", "moveFolder", "moveFile"} \subseteq Ops \ {"list", "createFolder"}
  BY DEF Ops
<1> QED BY <1>0, <1>1, <1>2, <1>3, <1>4, <1>5, <1>6, <1>7, <1>8, <1>9, <1>10 DEF Acts

\* The three ways in which the queue changes.
LEMMA Appended ==
  ASSUME NEW q \in Seq(Commands), NEW c \in Commands
  PROVE  /\ Append(q, c) \in Seq(Commands)
         /\ Len(Append(q, c)) = Len(q) + 1
         /\ \A i \in 1..Len(q) : Append(q, c)[i] = q[i]
         /\ Append(q, c)[Len(q) + 1] = c
OBVIOUS

LEMMA Served ==
  ASSUME NEW q \in Seq(Commands), q # <<>>
  PROVE  /\ Head(q) = q[1] /\ q[1] \in Commands /\ Len(q) \in Nat \ {0}
         /\ Tail(q) \in Seq(Commands)
         /\ Len(Tail(q)) = Len(q) - 1
         /\ \A i \in 1..Len(Tail(q)) : Tail(q)[i] = q[i + 1]
OBVIOUS

LEMMA ListType ==
  ASSUME NEW d \in FolderIds \union {Root}
  PROVE  List(d) \in Commands /\ List(d).op = "list" /\ List(d).to = d
BY DEF List, Command, Commands, Ops

-----------------------------------------------------------------------------
(* A person's steps keep the invariant *)

LEMMA WalksKeep ==
  ASSUME IInv, NEW p, Walks(p)
  PROVE  IInv'
<1> DEFINE c == List(Current(p))
<1>0. /\ p \in Seq(FolderIds) /\ path' = p /\ queue' = Append(queue, c)
      /\ UNCHANGED <<parent, folderOf, used, grid, seen, erred>>
      /\ queue \in Seq(Commands) /\ Len(queue) \in Nat
  BY DEF Walks, GoTo, Send, rows, IInv, TypeOK
<1>1. c \in Commands /\ c.op = "list" /\ c.to = Current(p) /\ c.to \in FolderIds \union {Root}
  BY <1>0, CurrentType, ListType
<1> HIDE DEF c
<1>2. /\ queue' \in Seq(Commands) /\ Len(queue') = Len(queue) + 1
      /\ \A i \in 1..Len(queue) : queue'[i] = queue[i]
      /\ queue'[Len(queue) + 1] = c
  BY <1>0, <1>1, Appended
<1>3. TypeOK'
  BY <1>0, <1>2 DEF TypeOK, IInv
<1>4. Folders' = Folders /\ Files' = Files /\ NothingHidden'
  <2>1. Folders' = Folders /\ Files' = Files
    BY <1>0 DEF Folders, Files
  <2> QED BY <1>0, <2>1 DEF IInv, NothingHidden, Exists, Listed
<1>5. NewIds'
  <2>1. \A i \in 1..Len(queue') : queue'[i].op = "createFolder" =>
          i \in 1..Len(queue) /\ queue'[i] = queue[i]
    BY <1>0, <1>1, <1>2
  <2> QED BY <1>0, <1>4, <2>1 DEF IInv, NewIds
<1>6. PICK k \in 1..Len(queue') : k = Len(queue) + 1 /\ Coming(k)'
  BY <1>0, <1>1, <1>2 DEF Coming
<1>7. ListsFollow'
  <2>1. ASSUME NEW i \in 1..Len(queue'), queue'[i].op = "list" PROVE queue'[i].to # None
    BY <1>0, <1>1, <1>2, <2>1, IdsAssumption DEF IInv, ListsFollow
  <2>2. ASSUME NEW i \in 1..Len(queue'), queue'[i].op = "list", queue'[i].to # Current(p)
        PROVE  k > i
    BY <1>0, <1>1, <1>2, <1>6, <2>2
  <2> QED BY <1>0, <1>6, <2>1, <2>2 DEF ListsFollow
<1>8. Settling'
  BY <1>6 DEF Settling
<1> QED BY <1>3, <1>4, <1>5, <1>7, <1>8 DEF IInv

\* Any command but a list, appended to the queue.
LEMMA AskKeeps ==
  ASSUME IInv, NEW c \in Commands, c.op # "list", Ask(c),
         used \subseteq used', used' \subseteq used \union FolderIds \union FileIds,
         c.op = "createFolder" => c.id \in (FolderIds \intersect used') \ used
  PROVE  IInv'
<1>0. /\ queue' = Append(queue, c)
      /\ UNCHANGED <<parent, folderOf, path, grid, seen, erred>>
      /\ queue \in Seq(Commands) /\ Len(queue) \in Nat
  BY DEF Ask, Send, rows, view, IInv, TypeOK
<1>2. /\ queue' \in Seq(Commands) /\ Len(queue') = Len(queue) + 1
      /\ \A i \in 1..Len(queue) : queue'[i] = queue[i]
      /\ queue'[Len(queue) + 1] = c
  BY <1>0, Appended
<1>3. TypeOK'
  BY <1>0, <1>2 DEF TypeOK, IInv
<1>4. Folders' = Folders /\ Files' = Files /\ NothingHidden'
  <2>1. Folders' = Folders /\ Files' = Files
    BY <1>0 DEF Folders, Files
  <2> QED BY <1>0, <2>1 DEF IInv, NothingHidden, Exists, Listed
<1>5. NewIds'
  <2>1. \A i \in 1..Len(queue') : \/ i \in 1..Len(queue) /\ queue'[i] = queue[i]
                                  \/ i = Len(queue) + 1 /\ queue'[i] = c
    BY <1>0, <1>2
  <2>2. ASSUME NEW i \in 1..Len(queue'), queue'[i].op = "createFolder"
        PROVE  queue'[i].id \in (FolderIds \intersect used') \ Folders
    BY <2>1, <2>2 DEF IInv, NewIds
  <2>3. ASSUME NEW i \in 1..Len(queue'), NEW j \in 1..Len(queue'),
               queue'[i].op = "createFolder", queue'[j].op = "createFolder",
               queue'[j].id = queue'[i].id
        PROVE  i = j
    BY <2>1, <2>3 DEF IInv, NewIds
  <2>4. Folders \subseteq used'
    BY DEF IInv, NewIds
  <2> QED BY <1>4, <2>2, <2>3, <2>4 DEF NewIds
<1>6. \A i \in 1..Len(queue) : Coming(i) => Coming(i)'
  BY <1>0, <1>2 DEF Coming
<1>7. ListsFollow'
  <2> SUFFICES ASSUME NEW i \in 1..Len(queue'), queue'[i].op = "list"
               PROVE  /\ queue'[i].to # None
                      /\ queue'[i].to # Current(path) =>
                           \E j \in 1..Len(queue') : j > i /\ Coming(j)'
    BY <1>0 DEF ListsFollow
  <2>1. i \in 1..Len(queue) /\ queue'[i] = queue[i]
    BY <1>0, <1>2
  <2>2. 1..Len(queue) \subseteq 1..Len(queue')
    BY <1>0, <1>2
  <2> QED BY <1>6, <2>1, <2>2 DEF IInv, ListsFollow
<1>8. Settling'
  <2>1. Len(queue) + 1 \in 1..Len(queue') /\ queue'[Len(queue) + 1].op # "list"
    BY <1>0, <1>2
  <2> QED BY <2>1 DEF Settling
<1> QED BY <1>3, <1>4, <1>5, <1>7, <1>8 DEF IInv

LEMMA ActsKeep ==
  ASSUME IInv, Acts
  PROVE  IInv'
<1>1. ASSUME NEW p, Walks(p) PROVE IInv'
  BY <1>1, WalksKeep
<1>2. ASSUME NEW f \in FolderIds, AsksFolder(f) PROVE IInv'
  <2> DEFINE c == Command("createFolder", f, Current(path))
  <2>1. c \in Commands /\ c.op = "createFolder" /\ c.id = f
    BY CurrentType DEF Command, Commands, Ops, IInv, TypeOK
  <2>2. Ask(c) /\ used' = used \union {f} /\ f \notin used
    BY <1>2 DEF AsksFolder
  <2> HIDE DEF c
  <2> QED BY <2>1, <2>2, AskKeeps
<1>3. ASSUME NEW c \in Commands, AsksElse(c) PROVE IInv'
  <2>1. /\ c.op # "list" /\ c.op # "createFolder" /\ Ask(c)
        /\ used \subseteq used' /\ used' \subseteq used \union FolderIds \union FileIds
    BY <1>3 DEF AsksElse
  <2> QED BY <2>1, AskKeeps
<1> QED BY <1>1, <1>2, <1>3, ActsShape DEF IInv

-----------------------------------------------------------------------------
(* The main thread's steps keep the invariant *)

\* What is left of the queue, with or without the list that follows.
Shifted ==
  queue # <<>> /\ (Refresh \/ queue' = Tail(queue))

LEMMA ShiftedQueue ==
  ASSUME TypeOK, Shifted
  PROVE  /\ queue' \in Seq(Commands) /\ Len(queue) \in Nat \ {0} /\ Len(queue') \in Nat
         /\ queue[1] \in Commands /\ Head(queue) = queue[1]
         /\ Len(queue') >= Len(queue) - 1
         /\ \A i \in 1..(Len(queue) - 1) : queue'[i] = queue[i + 1]
         /\ Refresh => /\ Len(queue') = Len(queue)
                       /\ queue'[Len(queue)].op = "list"
                       /\ queue'[Len(queue)].to = Current(path)
         /\ ~Refresh => Len(queue') = Len(queue) - 1
<1> DEFINE t == Tail(queue)
           c == List(Current(path))
<1>1. /\ queue \in Seq(Commands) /\ Head(queue) = queue[1] /\ queue[1] \in Commands
      /\ Len(queue) \in Nat \ {0} /\ t \in Seq(Commands) /\ Len(t) = Len(queue) - 1
      /\ \A i \in 1..(Len(queue) - 1) : t[i] = queue[i + 1]
  BY Served DEF TypeOK, Shifted
<1>2. c \in Commands /\ c.op = "list" /\ c.to = Current(path)
  BY CurrentType, ListType DEF TypeOK
<1>3. Refresh => queue' = Append(t, c)
  BY DEF Refresh
<1>4. ~Refresh => queue' = t
  BY DEF Shifted
<1> HIDE DEF t, c
<1>5. CASE Refresh
  <2>1. /\ queue' \in Seq(Commands) /\ Len(queue') = Len(t) + 1
        /\ \A i \in 1..Len(t) : queue'[i] = t[i]
        /\ queue'[Len(t) + 1] = c
    BY <1>1, <1>2, <1>3, <1>5, Appended
  <2>2. Len(t) + 1 = Len(queue)
    BY <1>1
  <2> QED BY <1>1, <1>2, <1>5, <2>1, <2>2
<1>6. CASE ~Refresh
  BY <1>1, <1>4, <1>6
<1> QED BY <1>5, <1>6

LEMMA ShiftKeepsNewIds ==
  ASSUME TypeOK, NewIds, Shifted, UNCHANGED used,
         Folders' \subseteq Folders \union
           (IF queue[1].op = "createFolder" THEN {queue[1].id} ELSE {})
  PROVE  NewIds'
<1>1. \A i \in 1..Len(queue') : queue'[i].op = "createFolder" =>
        i + 1 \in 1..Len(queue) /\ queue'[i] = queue[i + 1] /\ i + 1 # 1
  BY ShiftedQueue
<1>2. 1 \in 1..Len(queue)
  BY ShiftedQueue
<1>3. Folders' \subseteq used'
  BY <1>2 DEF NewIds
<1>4. ASSUME NEW i \in 1..Len(queue'), queue'[i].op = "createFolder"
      PROVE  queue'[i].id \in (FolderIds \intersect used') \ Folders'
  BY <1>1, <1>2, <1>4 DEF NewIds
<1>5. ASSUME NEW i \in 1..Len(queue'), NEW j \in 1..Len(queue'),
             queue'[i].op = "createFolder", queue'[j].op = "createFolder",
             queue'[j].id = queue'[i].id
      PROVE  i = j
  <2>1. i + 1 = j + 1
    BY <1>1, <1>5 DEF NewIds
  <2> QED BY <2>1
<1> QED BY <1>3, <1>4, <1>5 DEF NewIds

LEMMA ShiftKeepsComing ==
  ASSUME TypeOK, Shifted, UNCHANGED path, NEW i \in 1..Len(queue), i > 1, Coming(i)
  PROVE  i - 1 \in 1..Len(queue') /\ Coming(i - 1)'
<1>1. i - 1 \in 1..(Len(queue) - 1) /\ i - 1 \in 1..Len(queue') /\ (i - 1) + 1 = i
  BY ShiftedQueue
<1>2. queue'[i - 1] = queue[i]
  BY <1>1, ShiftedQueue
<1> QED BY <1>1, <1>2 DEF Coming

LEMMA RefreshComes ==
  ASSUME TypeOK, Shifted, Refresh, UNCHANGED path
  PROVE  \E k \in 1..Len(queue') : k = Len(queue') /\ Coming(k)'
BY ShiftedQueue DEF Coming

LEMMA ShiftKeepsLists ==
  ASSUME TypeOK, ListsFollow, Shifted, UNCHANGED path
  PROVE  ListsFollow'
<1> SUFFICES ASSUME NEW i \in 1..Len(queue'), queue'[i].op = "list"
             PROVE  /\ queue'[i].to # None
                    /\ queue'[i].to # Current(path) =>
                         \E j \in 1..Len(queue') : j > i /\ Coming(j)'
  BY DEF ListsFollow
<1>1. CASE i \in 1..(Len(queue) - 1)
  <2>1. i + 1 \in 1..Len(queue) /\ queue'[i] = queue[i + 1]
    BY <1>1, ShiftedQueue
  <2>2. ASSUME queue'[i].to # Current(path)
        PROVE  \E j \in 1..Len(queue') : j > i /\ Coming(j)'
    <3>1. PICK j \in 1..Len(queue) : j > i + 1 /\ Coming(j)
      BY <2>1, <2>2 DEF ListsFollow
    <3>2. PICK h \in 1..Len(queue') : h = j - 1 /\ Coming(h)'
      BY <3>1, ShiftKeepsComing
    <3>3. h > i
      BY <3>1, <3>2
    <3> QED BY <3>2, <3>3
  <2> QED BY <2>1, <2>2 DEF ListsFollow
<1>2. CASE i \notin 1..(Len(queue) - 1)
  <2>1. Refresh /\ queue'[i].to = Current(path)
    BY <1>2, ShiftedQueue
  <2> QED BY <2>1, CurrentType, IdsAssumption DEF TypeOK
<1> QED BY <1>1, <1>2

\* What refused commands, and lists, do to the rows.
LEMMA SameRows ==
  ASSUME UNCHANGED rows
  PROVE  /\ Folders' = Folders /\ Files' = Files
         /\ NothingHidden => NothingHidden'
         /\ \A d : Listed(d)' = Listed(d) /\ FilesIn(d)' = FilesIn(d)
<1>1. parent' = parent /\ folderOf' = folderOf
  BY DEF rows
<1>2. Folders' = Folders /\ Files' = Files
  BY <1>1 DEF Folders, Files
<1> QED BY <1>1, <1>2 DEF NothingHidden, Exists, Listed, FilesIn

\* The rows and the queue after a command was applied, or refused.
LEMMA AnswersKeep ==
  ASSUME IInv, NEW c, First(c), Applies(c) \/ Refuses(c),
         Refresh \/ queue' = Tail(queue), UNCHANGED <<used, view>>, erred' \in BOOLEAN
  PROVE  TypeOK' /\ NewIds' /\ ListsFollow' /\ NothingHidden'
<1>1. TypeOK /\ NewIds /\ ListsFollow /\ NothingHidden /\ Shifted /\ c = queue[1]
      /\ used' = used /\ path' = path /\ grid' = grid /\ seen' = seen
  <2>1. Shifted
    BY DEF First, Shifted
  <2> QED BY <2>1, ShiftedQueue DEF IInv, First, view
<1>2. ListsFollow'
  BY <1>1, ShiftKeepsLists
<1>3. /\ parent' \in [FolderIds -> FolderIds \union {Root, None}]
      /\ folderOf' \in [FileIds -> FolderIds \union {Root, None}]
      /\ Folders' \subseteq Folders \union (IF c.op = "createFolder" THEN {c.id} ELSE {})
      /\ NothingHidden'
  <2>1. CASE Applies(c)
    <3>1. TypeOK'
      BY <1>1, <2>1, RowsStaySound, ShiftedQueue DEF TypeOK
    <3>2. (\A f \in Folders : Exists(parent[f]))' /\ (\A x \in Files : Exists(folderOf[x]))'
      BY <1>1, <2>1, RowsStaySound DEF Exists
    <3>3. Grounded(parent')
      BY <1>1, <2>1, RowsStaySound
    <3>4. NothingHidden'
      <4>1. FoldersOf(parent') = Folders'
        BY DEF FoldersOf, Folders
      <4>2. ASSUME NEW S \in SUBSET Folders', Listed(Root)' \subseteq S,
                   \A f \in S : Listed(f)' \subseteq S
            PROVE  S = Folders'
        <5>1. Shows(parent', S)
          BY <4>2 DEF Shows, Listed
        <5> QED BY <3>3, <4>1, <5>1 DEF Grounded
      <4> QED BY <3>2, <4>2 DEF NothingHidden
    <3> QED BY <1>1, <2>1, <3>4, RowsStaySound
  <2>2. CASE Refuses(c)
    <3>1. UNCHANGED rows
      BY <2>2 DEF Refuses
    <3> QED BY <1>1, <3>1, SameRows DEF TypeOK, rows
  <2> QED BY <2>1, <2>2
<1>4. TypeOK'
  BY <1>1, <1>3, ShiftedQueue DEF TypeOK
<1>5. NewIds'
  BY <1>1, <1>3, ShiftKeepsNewIds
<1> QED BY <1>2, <1>3, <1>4, <1>5

LEMMA ServeKeeps ==
  ASSUME IInv, NEW c, Serve(c)
  PROVE  IInv'
<1>1. /\ First(c) /\ Applies(c) /\ Refresh /\ UNCHANGED <<used, view>> /\ path' = path
      /\ erred' \in BOOLEAN /\ TypeOK /\ Shifted
  BY DEF Serve, view, IInv, TypeOK, First, Shifted
<1>2. TypeOK' /\ NewIds' /\ ListsFollow' /\ NothingHidden'
  BY <1>1, AnswersKeep
<1>3. Settling'
  BY <1>1, RefreshComes DEF Settling
<1> QED BY <1>2, <1>3 DEF IInv

LEMMA FailsKeeps ==
  ASSUME IInv, NEW c, Fails(c)
  PROVE  IInv'
<1>1. /\ First(c) /\ (Applies(c) \/ Refuses(c)) /\ (Refresh \/ queue' = Tail(queue))
      /\ UNCHANGED <<used, view>> /\ erred' = TRUE
  BY DEF Fails
<1>2. TypeOK' /\ NewIds' /\ ListsFollow' /\ NothingHidden'
  BY <1>1, AnswersKeep
<1> QED BY <1>1, <1>2 DEF IInv, Settling

LEMMA DrawKeeps ==
  ASSUME IInv, NEW c, Draw(c)
  PROVE  IInv'
<1>1. /\ TypeOK /\ NewIds /\ ListsFollow /\ NothingHidden
      /\ Shifted /\ UNCHANGED rows /\ used' = used /\ path' = path /\ erred' = FALSE
  BY DEF IInv, Draw, First, Shifted
<1>2. c = queue[1] /\ c.op = "list" /\ 1 \in 1..Len(queue)
  BY <1>1, ShiftedQueue DEF Draw, First
<1>3. c.to \in FolderIds \union {Root} /\ c.to # None
  BY <1>1, <1>2, ShiftedQueue DEF ListsFollow, Commands
<1>4. /\ Folders' = Folders /\ NothingHidden'
      /\ Listed(c.to)' = Listed(c.to) /\ FilesIn(c.to)' = FilesIn(c.to)
  BY <1>1, SameRows
<1>5. grid' = [at |-> c.to, folders |-> Listed(c.to), files |-> FilesIn(c.to), crumbs |-> Len(path)]
  BY DEF Draw
<1>6. TypeOK'
  <2>1. Listed(c.to) \subseteq FolderIds /\ FilesIn(c.to) \subseteq FileIds /\ Len(path) \in Nat
    BY <1>1 DEF Listed, FilesIn, TypeOK
  <2>2. grid' \in [at : FolderIds \union {Root}, folders : SUBSET FolderIds,
                   files : SUBSET FileIds, crumbs : Nat]
    BY <1>3, <1>5, <2>1
  <2>3. queue' \in Seq(Commands)
    BY <1>1, ShiftedQueue
  <2>4. seen' \subseteq FolderIds \union FileIds
    BY <1>1, <2>1 DEF Draw, TypeOK
  <2> QED BY <1>1, <2>2, <2>3, <2>4 DEF TypeOK, rows
<1>7. NewIds' /\ ListsFollow'
  BY <1>1, <1>4, ShiftKeepsNewIds, ShiftKeepsLists
<1>8. Settling'
  <2>1. CASE c.to = Current(path)
    <3>1. UpToDate'
      BY <1>1, <1>4, <1>5, <2>1 DEF UpToDate, Listed, FilesIn, rows
    <3> QED BY <3>1 DEF Settling
  <2>2. CASE c.to # Current(path)
    <3>1. PICK j \in 1..Len(queue) : j > 1 /\ Coming(j)
      BY <1>1, <1>2, <2>2 DEF ListsFollow
    <3>2. PICK h \in 1..Len(queue') : h = j - 1 /\ Coming(h)'
      BY <1>1, <3>1, ShiftKeepsComing
    <3> QED BY <3>2 DEF Settling
  <2> QED BY <2>1, <2>2
<1> QED BY <1>4, <1>6, <1>7, <1>8 DEF IInv

-----------------------------------------------------------------------------
(* Theorems *)

LEMMA InitHolds == Init => IInv
<1> SUFFICES ASSUME Init PROVE IInv
  OBVIOUS
<1>1. List(Root) \in Commands /\ List(Root).op = "list" /\ List(Root).to = Root
  BY ListType
<1>2. queue = <<List(Root)>> /\ queue \in Seq(Commands) /\ Len(queue) = 1 /\ queue[1] = List(Root)
  BY <1>1 DEF Init
<1>3. Current(path) = Root /\ path \in Seq(FolderIds)
  BY DEF Init, Current
<1>4. Folders = {} /\ Files = {} /\ Listed(Root) = {}
  BY IdsAssumption DEF Init, Folders, Files, Listed
<1>5. TypeOK
  BY <1>2, <1>3 DEF Init, TypeOK
<1>6. NewIds /\ ListsFollow
  BY <1>1, <1>2, <1>3, <1>4, IdsAssumption DEF NewIds, ListsFollow
<1>7. NothingHidden
  BY <1>4 DEF NothingHidden
<1>8. Settling
  BY <1>1, <1>2, <1>3 DEF Settling, Coming
<1> QED BY <1>5, <1>6, <1>7, <1>8 DEF IInv

LEMMA NextKeeps == IInv /\ [Next]_vars => IInv'
<1> SUFFICES ASSUME IInv, [Next]_vars PROVE IInv'
  OBVIOUS
<1>1. CASE Acts
  BY <1>1, ActsKeep
<1>2. CASE \E c \in Commands : Serve(c) \/ Fails(c) \/ Draw(c)
  BY <1>2, ServeKeeps, FailsKeeps, DrawKeeps
<1>3. CASE UNCHANGED vars
  BY <1>3 DEF vars, view, rows, IInv, TypeOK, NewIds, ListsFollow, Coming, NothingHidden,
     Settling, UpToDate, Folders, Files, Listed, FilesIn, Exists
<1> QED BY <1>1, <1>2, <1>3 DEF Next

\* The inductive invariant holds for any folders, files and bounds.
THEOREM InvariantHolds == Spec => []IInv
BY InitHolds, NextKeeps, PTL DEF Spec

\* The state of FilesZone has its types.
THEOREM TypeCorrect == Spec => []TypeOK
<1>1. IInv => TypeOK
  BY DEF IInv
<1> QED BY <1>1, InvariantHolds, PTL

\* No sequence of the commands of files.rs, wanted or not, makes a cycle of
\* folders or leaves a row without its folder: everything can be seen from the
\* root.  This is what move_folder and delete_folder check for.
THEOREM NothingEverHidden == Spec => []NothingHidden
<1>1. IInv => NothingHidden
  BY DEF IInv
<1> QED BY <1>1, InvariantHolds, PTL

\* With no command under way, and none failed, the grid of app.js shows the
\* folder that the breadcrumb names, as it is in the zone.
THEOREM GridIsRight == Spec => []GridSettles
<1>1. IInv => GridSettles
  <2> SUFFICES ASSUME IInv, queue = <<>> PROVE erred \/ UpToDate
    BY DEF GridSettles, UpToDate
  <2>1. Len(queue) = 0
    OBVIOUS
  <2> QED BY <2>1 DEF IInv, Settling
<1> QED BY <1>1, InvariantHolds, PTL

\* The loop of move_folder, run from any folder there is, visits the folders
\* above it and ends at the root: it never runs for ever, and it misses no
\* folder that the target is in.  The model's guard looks at Above instead.
THEOREM WalkIsAlwaysAbove == Spec => []WalkIsAbove
<1>1. IInv => WalkIsAbove
  <2> SUFFICES ASSUME IInv, NEW d \in Folders PROVE Walk(d) = Above(d) \union {Root}
    BY DEF WalkIsAbove
  <2> DEFINE N == Cardinality(FolderIds)
  <2>1. /\ parent \in ParentMaps /\ FoldersOf(parent) = Folders /\ Grounded(parent)
        /\ \A f \in Folders : parent[f] \in Folders \union {Root}
        /\ AboveIn(parent, d) = Above(d)
    BY HiddenMeans DEF IInv, Exists, AboveIn, Above
  <2>2. N \in Nat
    BY FoldersAssumption, FS_CardinalityType
  <2>3. PICK b : Climbs(parent, d, N, b)
    BY <2>1, <2>2, ClimbExists
  <2> DEFINE c == CHOOSE e : e = [n \in 0..N |->
                    IF n = 0 THEN d ELSE IF e[n - 1] \in Folders THEN parent[e[n - 1]] ELSE Root]
  <2>4. Walk(d) = {c[n] : n \in 0..N}
    BY DEF Walk
  <2>5. b = [n \in 0..N |-> IF n = 0 THEN d ELSE IF b[n - 1] \in Folders THEN parent[b[n - 1]] ELSE Root]
    BY <2>1, <2>3 DEF Climbs, StepUp
  <2>6. c = [n \in 0..N |-> IF n = 0 THEN d ELSE IF c[n - 1] \in Folders THEN parent[c[n - 1]] ELSE Root]
    BY <2>5
  <2> HIDE DEF c
  <2>7. Climbs(parent, d, N, c)
    BY <2>1, <2>6 DEF Climbs, StepUp
  <2> QED
    BY <2>1, <2>4, <2>7, ClimbVisits
<1> QED BY <1>1, InvariantHolds, PTL

=============================================================================
