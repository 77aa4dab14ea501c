--------------------------- MODULE ShellFile_proofs ---------------------------
(***************************************************************************)
(* Proofs about ShellFile.  For any number of programs: the types.  For any *)
(* number of programs that take turns, and so for one alone, whatever they  *)
(* do and wherever they die: an interrupted create or change of password    *)
(* never costs a Shell, a finished backup opens, and the files implement    *)
(* the store of atomic operations that ShellStore describes.                *)
(***************************************************************************)
EXTENDS ShellFile, TLAPS

-----------------------------------------------------------------------------
(* Types *)

(* set_slot replaces one slot of a sidecar and nothing else. *)
LEMMA WithSlotFields ==
  ASSUME NEW m \in Sidecar, NEW slot \in Slots, NEW password \in Passwords
  PROVE  /\ WithSlot(m, slot, password) \in Sidecar
         /\ WithSlot(m, slot, password).key = m.key
         /\ WithSlot(m, slot, password).slots = [m.slots EXCEPT ![slot] = password]
<1>1. None \notin Passwords
  BY NoneAssumption
<1>2. m.slots \in [Slots -> Passwords \union {None}] /\ m.slots["primary"] # None
  BY DEF Sidecar, SlotMaps
<1>3. [m.slots EXCEPT ![slot] = password] \in SlotMaps
  BY <1>1, <1>2 DEF SlotMaps, Slots
<1> QED
  BY <1>3 DEF WithSlot, Sidecar

(* An operation that goes on keeps its directories and its sidecar. *)
LEMMA GoTyped ==
  ASSUME TypeOK, NEW i \in Procs, NEW op \in Ops, Go(i, op), ~At(i, "idle"),
         op \in CreateOps \union ChangeOps => app[i].new \in Sidecar,
         op \in BackupOps => app[i].dest \in Dirs
  PROVE  AppTyped'
<1>1. app[i] \in AppState /\ app[i].dir \in Dirs
  BY DEF TypeOK, AppTyped
<1>2. app'[i] = [app[i] EXCEPT !.op = op] /\ \A j \in Procs : j # i => app'[j] = app[j]
  BY DEF TypeOK, AppTyped, Go
<1>3. app' \in [Procs -> AppState]
  BY <1>1 DEF Go, AppState, TypeOK, AppTyped
<1>4. /\ app'[i].dir \in Dirs /\ app'[i].op = op
      /\ app'[i].new = app[i].new /\ app'[i].dest = app[i].dest
  BY <1>1, <1>2 DEF AppState
<1> QED
  BY <1>2, <1>3, <1>4 DEF TypeOK, AppTyped, At

LEMMA DoneTyped ==
  ASSUME TypeOK, NEW i \in Procs, Done(i)
  PROVE  AppTyped'
<1>1. app'[i] = Idle /\ Idle \in AppState /\ Idle.op = "idle"
  BY DEF TypeOK, AppTyped, Done, Idle, AppState, Ops
<1>2. \A j \in Procs : j # i => app'[j] = app[j]
  BY DEF TypeOK, AppTyped, Done
<1> QED
  BY <1>1, <1>2 DEF TypeOK, AppTyped, Done, At, CreateOps, ChangeOps, BackupOps

LEMMA StartTyped ==
  ASSUME TypeOK, NEW i \in Procs, NEW a \in AppState, app' = [app EXCEPT ![i] = a],
         a.op # "idle" => a.dir \in Dirs,
         a.op \in CreateOps \union ChangeOps => a.new \in Sidecar,
         a.op \in BackupOps => a.dest \in Dirs
  PROVE  AppTyped'
<1>1. app'[i] = a /\ \A j \in Procs : j # i => app'[j] = app[j]
  BY DEF TypeOK, AppTyped
<1> QED
  BY <1>1 DEF TypeOK, AppTyped, At

(* Every step keeps the types. *)
LEMMA TypeInductive ==
  ASSUME TypeOK, [Next]_vars
  PROVE  TypeOK'
<1>1. ASSUME UNCHANGED vars PROVE TypeOK'
  BY <1>1 DEF TypeOK, AppTyped, At, vars, files
<1> SUFFICES ASSUME NEW i \in Procs, Start(i) \/ Continue(i) \/ Fails(i) \/ Crash(i)
             PROVE  TypeOK'
  BY <1>1 DEF Next
<1>2. /\ db \in [Dirs -> Database \union {None, Zero, Torn}]
      /\ meta \in [Dirs -> Sidecar \union {None, Torn}]
      /\ open \in [Procs -> [key : DataKeys, dir : Dirs] \union {None}]
      /\ targets \subseteq Dirs
      /\ AppTyped
  BY DEF TypeOK
<1>3. /\ app[i] \in AppState
      /\ ~At(i, "idle") => app[i].dir \in Dirs
      /\ app[i].op \in CreateOps \union ChangeOps => app[i].new \in Sidecar
      /\ app[i].op \in BackupOps => app[i].dest \in Dirs
  BY <1>2 DEF AppTyped
<1>4. ASSUME NEW d \in Dirs, NEW k \in DataKeys, NEW s \in Chosen, StartCreate(i, d, k, s)
      PROVE  TypeOK'
  <2> DEFINE a == Writing("create", d, [key |-> k, slots |-> s])
  <2>1. a \in AppState /\ a.op = "create" /\ a.dir \in Dirs /\ a.new \in Sidecar
    BY DEF Writing, AppState, Ops, CreateOps, Chosen, Sidecar
  <2>2. app' = [app EXCEPT ![i] = a] /\ UNCHANGED <<files, open, targets>>
    BY <1>4 DEF StartCreate
  <2> HIDE DEF a
  <2>3. AppTyped'
    BY <2>1, <2>2, StartTyped DEF BackupOps
  <2> QED
    BY <1>2, <2>2, <2>3 DEF TypeOK, files
<1>5. ASSUME NEW d \in Dirs, NEW password \in Passwords, OpenShell(i, d, password)
      PROVE  TypeOK'
  <2>1. meta[d].key \in DataKeys
    BY <1>5 DEF OpenShell, CanOpen, Sidecar
  <2>2. [key |-> meta[d].key, data |-> 0] \in Database
    BY <2>1, MaxDataAssumption DEF Database
  <2>3. [key |-> meta[d].key, dir |-> d] \in [key : DataKeys, dir : Dirs]
    BY <2>1
  <2>4. db' \in [Dirs -> Database \union {None, Zero, Torn}]
    BY <1>2, <1>5, <2>2 DEF OpenShell
  <2>5. open' \in [Procs -> [key : DataKeys, dir : Dirs] \union {None}]
    BY <1>2, <1>5, <2>3 DEF OpenShell
  <2> QED
    BY <1>2, <1>5, <2>4, <2>5 DEF OpenShell, TypeOK, AppTyped, At
<1>6. ASSUME Edit(i) PROVE TypeOK'
  <2> DEFINE file == db[open[i].dir]
  <2>1. file \in Database /\ file.data < MaxData /\ UNCHANGED <<meta, open, app, targets>>
        /\ db' = [db EXCEPT ![open[i].dir].data = @ + 1]
    BY <1>6 DEF Edit
  <2>2. [file EXCEPT !.data = @ + 1] \in Database
    BY <2>1, MaxDataAssumption DEF Database
  <2>3. db' = [db EXCEPT ![open[i].dir] = [file EXCEPT !.data = @ + 1]]
    BY <2>1
  <2>4. db' \in [Dirs -> Database \union {None, Zero, Torn}]
    BY <1>2, <2>2, <2>3
  <2> QED
    BY <1>2, <2>1, <2>4 DEF TypeOK, AppTyped, At
<1>7. ASSUME LockShell(i) PROVE TypeOK'
  BY <1>2, <1>7 DEF LockShell, files, TypeOK, AppTyped, At
<1>8. ASSUME NEW d \in Dirs, NEW known \in Passwords, NEW password \in Passwords,
             NEW slot \in Slots, StartChange(i, d, known, slot, password)
      PROVE  TypeOK'
  <2> DEFINE a == Writing("change", d, WithSlot(meta[d], slot, password))
  <2>1. meta[d] \in Sidecar /\ app' = [app EXCEPT ![i] = a] /\ UNCHANGED <<files, open, targets>>
    BY <1>8 DEF StartChange
  <2>2. WithSlot(meta[d], slot, password) \in Sidecar
    BY <2>1, WithSlotFields
  <2>3. a \in AppState /\ a.op = "change" /\ a.dir \in Dirs /\ a.new \in Sidecar
    BY <2>2 DEF Writing, AppState, Ops, ChangeOps
  <2> HIDE DEF a
  <2>4. AppTyped'
    BY <2>1, <2>3, StartTyped DEF BackupOps
  <2> QED
    BY <1>2, <2>1, <2>4 DEF TypeOK, files
<1>9. ASSUME NEW e \in Dirs, StartBackup(i, e) PROVE TypeOK'
  <2> DEFINE a == [dir |-> open[i].dir, op |-> "truncDb", dest |-> e, new |-> None]
  <2>1. open[i] # None /\ app' = [app EXCEPT ![i] = a] /\ UNCHANGED <<files, open, targets>>
    BY <1>9 DEF StartBackup
  <2>2. open[i].dir \in Dirs
    BY <1>2, <2>1
  <2>3. a \in AppState /\ a.op = "truncDb" /\ a.dir \in Dirs /\ a.dest \in Dirs
    BY <2>2 DEF AppState, Ops, BackupOps
  <2> HIDE DEF a
  <2>4. AppTyped'
    BY <2>1, <2>3, StartTyped DEF CreateOps, ChangeOps
  <2> QED
    BY <1>2, <2>1, <2>4 DEF TypeOK, files
<1>10. ASSUME WriteTmp(i) PROVE TypeOK'
  <2>1. AppTyped'
    BY <1>3, <1>10, GoTyped DEF WriteTmp, At, Ops, CreateOps, ChangeOps, BackupOps
  <2> QED
    BY <1>2, <1>10, <2>1 DEF WriteTmp, TypeOK, files
<1>11. ASSUME RenameTmp(i) PROVE TypeOK'
  <2>1. AppTyped'
    BY <1>3, <1>11, GoTyped, DoneTyped DEF RenameTmp, At, Ops, CreateOps, ChangeOps, BackupOps
  <2>2. app[i].new \in Sidecar
    BY <1>3, <1>11 DEF RenameTmp, CreateOps, ChangeOps
  <2> QED
    BY <1>2, <1>11, <2>1, <2>2 DEF RenameTmp, TypeOK
<1>12. ASSUME CreateDb(i) PROVE TypeOK'
  <2>1. AppTyped'
    BY <1>3, <1>12, GoTyped DEF CreateDb, At, Ops, CreateOps, ChangeOps, BackupOps
  <2> QED
    BY <1>2, <1>12, <2>1 DEF CreateDb, TypeOK
<1>13. ASSUME CreateSchema(i) PROVE TypeOK'
  <2>1. AppTyped'
    BY <1>13, DoneTyped DEF CreateSchema
  <2>2. app[i].new \in Sidecar /\ app[i].dir \in Dirs
    BY <1>3, <1>13 DEF CreateSchema, At, CreateOps
  <2>3. app[i].new.key \in DataKeys
    BY <2>2 DEF Sidecar
  <2>4. [key |-> app[i].new.key, data |-> 0] \in Database
    BY <2>3, MaxDataAssumption DEF Database
  <2> QED
    BY <1>2, <1>13, <2>1, <2>2, <2>3, <2>4 DEF CreateSchema, TypeOK
<1>14. ASSUME TruncateDb(i) PROVE TypeOK'
  <2>1. AppTyped'
    BY <1>3, <1>14, GoTyped DEF TruncateDb, At, Ops, CreateOps, ChangeOps, BackupOps
  <2>2. app[i].dest \in Dirs
    BY <1>3, <1>14 DEF TruncateDb, At, BackupOps
  <2> QED
    BY <1>2, <1>14, <2>1, <2>2 DEF TruncateDb, TypeOK
<1>15. ASSUME FillDb(i) PROVE TypeOK'
  <2>1. AppTyped'
    BY <1>3, <1>15, GoTyped DEF FillDb, At, Ops, CreateOps, ChangeOps, BackupOps
  <2>2. app[i].dir \in Dirs
    BY <1>3, <1>15 DEF FillDb, At
  <2> QED
    BY <1>2, <1>15, <2>1, <2>2 DEF FillDb, TypeOK
<1>16. ASSUME TruncateMeta(i) PROVE TypeOK'
  <2>1. AppTyped'
    BY <1>3, <1>16, GoTyped DEF TruncateMeta, At, Ops, CreateOps, ChangeOps, BackupOps
  <2> QED
    BY <1>2, <1>16, <2>1 DEF TruncateMeta, TypeOK
<1>17. ASSUME FillMeta(i) PROVE TypeOK'
  <2>1. AppTyped'
    BY <1>17, DoneTyped DEF FillMeta
  <2>2. app[i].dir \in Dirs
    BY <1>3, <1>17 DEF FillMeta, At
  <2> QED
    BY <1>2, <1>17, <2>1, <2>2 DEF FillMeta, TypeOK
<1>18. ASSUME Fails(i) PROVE TypeOK'
  BY <1>2, <1>18, DoneTyped DEF Fails, TypeOK, files
<1>19. ASSUME Crash(i) PROVE TypeOK'
  BY <1>2, <1>19, DoneTyped DEF Crash, TypeOK, files
<1> QED
  BY <1>4, <1>5, <1>6, <1>7, <1>8, <1>9, <1>10, <1>11, <1>12, <1>13, <1>14, <1>15, <1>16,
     <1>17, <1>18, <1>19 DEF Start, Continue

LEMMA TypeInit ==
  ASSUME Init PROVE TypeOK
BY DEF Init, TypeOK, AppTyped, At, Idle, AppState, Ops, CreateOps, ChangeOps, BackupOps

(* Every value stays of its type, however many instances run: what a step of *)
(* create or change_password writes is a sidecar, what it reads is a file.   *)
THEOREM TypeCorrect == Spec => []TypeOK
<1>1. Init => TypeOK
  BY TypeInit
<1>2. TypeOK /\ [Next]_vars => TypeOK'
  BY TypeInductive
<1> QED
  BY <1>1, <1>2, PTL DEF Spec

-----------------------------------------------------------------------------
(* Programs that take turns *)

TurnsInv == TypeOK /\ Restartable /\ OperationKeepsItsGround

Step(i) == Start(i) \/ Continue(i) \/ Fails(i) \/ Crash(i)

(* What a step makes of the operation the instance is inside. *)
LEMMA GoFields ==
  ASSUME TypeOK, NEW i \in Procs, NEW op, Go(i, op)
  PROVE  /\ app'[i].op = op /\ app'[i].dir = app[i].dir
         /\ app'[i].dest = app[i].dest /\ app'[i].new = app[i].new
<1>1. app[i] \in AppState /\ app'[i] = [app[i] EXCEPT !.op = op]
  BY DEF TypeOK, AppTyped, Go
<1> QED
  BY <1>1 DEF AppState

LEMMA DoneFields ==
  ASSUME TypeOK, NEW i \in Procs, Done(i)
  PROVE  app'[i] = Idle /\ app'[i].op = "idle"
BY DEF TypeOK, AppTyped, Done, Idle

(* What a step needs of the files so that it makes no Shell useless: less    *)
(* than the step relies on, and not that nobody else changes them.          *)
FilesFit(i) == LET a == app[i] IN
  /\ a.op \in {"create", "created", "createDb"} => db[a.dir] = None
  /\ a.op \in {"createDb", "schema"} => meta[a.dir] = a.new
  /\ a.op = "schema" => db[a.dir] = Zero
  /\ a.op \in ChangeOps /\ a.dir \notin targets =>
       meta[a.dir] \in Sidecar /\ meta[a.dir].key = a.new.key
  /\ a.op \in BackupOps \ {"truncDb"} => a.dest \in targets

LEMMA GroundFits ==
  ASSUME NEW i \in Procs, TypeOK, Ground(i)
  PROVE  FilesFit(i)
<1>1. ASSUME app[i].op \in ChangeOps
      PROVE  meta[app[i].dir] \in Sidecar /\ meta[app[i].dir].key = app[i].new.key
  <2>1. PICK slot \in Slots, password \in Passwords :
          app[i].new = WithSlot(meta[app[i].dir], slot, password)
    BY <1>1 DEF Ground
  <2>2. meta[app[i].dir] \in Sidecar
    BY <1>1 DEF Ground
  <2>3. WithSlot(meta[app[i].dir], slot, password).key = meta[app[i].dir].key
    BY <2>2, WithSlotFields
  <2> QED
    BY <2>1, <2>2, <2>3
<1> QED
  BY <1>1 DEF Ground, FilesFit

(* No step takes a Shell that opens away or gives it another data key, but  *)
(* one of a backup into its directory.                                      *)
LEMMA ShellSurvives ==
  ASSUME NEW i \in Procs, TypeOK, FilesFit(i), Step(i), NEW d \in Dirs, d \notin targets', Opens(d)
  PROVE  Opens(d)' /\ meta'[d].key = meta[d].key
<1> USE DEF ChangeOps, BackupOps, CreateOps
<1>1. /\ db \in [Dirs -> Database \union {None, Zero, Torn}]
      /\ meta \in [Dirs -> Sidecar \union {None, Torn}]
      /\ ~At(i, "idle") => app[i].dir \in Dirs
      /\ app[i].op \in BackupOps => app[i].dest \in Dirs
  BY DEF TypeOK, AppTyped
<1>2. meta[d] \in Sidecar /\ db[d] \in Database /\ db[d].key = meta[d].key
  BY DEF Opens
<1>3. db[d] # None /\ db[d] # Zero
  BY <1>2, FilesAssumption
<1>4. ASSUME db'[d] = db[d], meta'[d] = meta[d] PROVE Opens(d)' /\ meta'[d].key = meta[d].key
  BY <1>2, <1>4 DEF Opens
<1>5. ASSUME UNCHANGED files PROVE Opens(d)' /\ meta'[d].key = meta[d].key
  BY <1>4, <1>5 DEF files
<1>6. CASE Start(i)
  <2>1. ASSUME NEW e \in Dirs, NEW password \in Passwords, OpenShell(i, e, password)
        PROVE  Opens(d)' /\ meta'[d].key = meta[d].key
    <3>1. db'[d] = db[d] /\ meta' = meta
      BY <1>1, <1>3, <2>1 DEF OpenShell
    <3> QED
      BY <1>4, <3>1
  <2>2. ASSUME Edit(i) PROVE Opens(d)' /\ meta'[d].key = meta[d].key
    <3>1. PICK e \in Dirs : /\ db[e] \in Database /\ db[e].data < MaxData
                            /\ db' = [db EXCEPT ![e] = [db[e] EXCEPT !.data = @ + 1]]
                            /\ meta' = meta
      BY <2>2 DEF Edit, TypeOK
    <3>2. CASE e = d
      <4>1. db'[d] = [db[d] EXCEPT !.data = @ + 1]
        BY <1>1, <3>1, <3>2
      <4>2. db'[d] \in Database /\ db'[d].key = db[d].key
        BY <3>1, <3>2, <4>1, MaxDataAssumption DEF Database
      <4> QED
        BY <1>2, <3>1, <4>2 DEF Opens
    <3>3. CASE e # d
      BY <1>1, <1>4, <3>1, <3>3
    <3> QED
      BY <3>2, <3>3
  <2>3. CASE UNCHANGED files
    BY <1>5, <2>3
  <2> QED
    BY <1>6, <2>1, <2>2, <2>3 DEF Start, StartCreate, LockShell, StartChange, StartBackup
<1>7. ASSUME RenameTmp(i) PROVE Opens(d)' /\ meta'[d].key = meta[d].key
  <2>1. app[i].dir \in Dirs /\ db' = db /\ meta' = [meta EXCEPT ![app[i].dir] = app[i].new]
    BY <1>1, <1>7 DEF RenameTmp, At
  <2>2. CASE app[i].dir # d
    BY <1>1, <1>4, <2>1, <2>2
  <2>3. CASE app[i].dir = d
    <3>1. At(i, "changed")
      BY <1>3, <1>7, <2>3 DEF RenameTmp, At, FilesFit
    <3>2. d \notin targets /\ app[i].new \in Sidecar
      BY <1>7, <3>1 DEF RenameTmp, At, TypeOK, AppTyped
    <3>3. app[i].new.key = meta[d].key
      BY <2>3, <3>1, <3>2 DEF FilesFit, At
    <3>4. meta'[d] = app[i].new
      BY <1>1, <2>1, <2>3
    <3> QED
      BY <1>2, <2>1, <3>2, <3>3, <3>4 DEF Opens
  <2> QED
    BY <2>2, <2>3
<1>8. ASSUME CreateDb(i) \/ CreateSchema(i) PROVE Opens(d)' /\ meta'[d].key = meta[d].key
  <2>1. db'[d] = db[d] /\ meta' = meta
    BY <1>1, <1>3, <1>8 DEF CreateDb, CreateSchema, At
  <2> QED
    BY <1>4, <2>1
<1>9. ASSUME TruncateDb(i) \/ FillDb(i) \/ TruncateMeta(i) \/ FillMeta(i)
      PROVE  Opens(d)' /\ meta'[d].key = meta[d].key
  <2>1. app[i].dest \in targets'
    BY <1>9 DEF TruncateDb, FillDb, TruncateMeta, FillMeta, At, FilesFit
  <2>2. db'[d] = db[d] /\ meta'[d] = meta[d]
    BY <1>1, <1>9, <2>1 DEF TruncateDb, FillDb, TruncateMeta, FillMeta, At
  <2> QED
    BY <1>4, <2>2
<1>10. CASE WriteTmp(i) \/ Fails(i) \/ Crash(i)
  BY <1>5, <1>10 DEF WriteTmp, Fails, Crash
<1> QED
  BY <1>6, <1>7, <1>8, <1>9, <1>10 DEF Step, Continue

(* A step leaves behind files that a crash does not make useless.           *)
LEMMA RestartableStep ==
  ASSUME NEW i \in Procs, TypeOK, Restartable, FilesFit(i), Step(i)
  PROVE  Restartable'
<1> USE DEF ChangeOps, BackupOps, CreateOps
<1>1. /\ db \in [Dirs -> Database \union {None, Zero, Torn}]
      /\ meta \in [Dirs -> Sidecar \union {None, Torn}]
      /\ ~At(i, "idle") => app[i].dir \in Dirs
      /\ app[i].op \in CreateOps \union ChangeOps => app[i].new \in Sidecar
      /\ app[i].op \in BackupOps => app[i].dest \in Dirs
  BY DEF TypeOK, AppTyped
<1>2. SUFFICES ASSUME NEW d \in Dirs, d \notin targets', db'[d] # None
               PROVE  CanOpen(d)'
  BY DEF Restartable, CanOpen, Opens
<1>3. d \notin targets
  BY <1>2 DEF Step, Start, Continue, StartCreate, OpenShell, Edit, LockShell, StartChange,
     StartBackup, WriteTmp, RenameTmp, CreateDb, CreateSchema, TruncateDb, FillDb,
     TruncateMeta, FillMeta, Fails, Crash
<1>4. None # Zero /\ {None, Zero} \intersect Database = {}
  BY FilesAssumption
<1>5. ASSUME TruncateDb(i) \/ FillDb(i) \/ TruncateMeta(i) \/ FillMeta(i)
      PROVE  db'[d] = db[d] /\ meta'[d] = meta[d]
  <2>1. app[i].dest \in targets'
    BY <1>5 DEF TruncateDb, FillDb, TruncateMeta, FillMeta, At, FilesFit
  <2> QED
    BY <1>1, <1>2, <1>5, <2>1 DEF TruncateDb, FillDb, TruncateMeta, FillMeta, At
<1>6. ASSUME Edit(i) PROVE meta' = meta /\ (db[d] \notin Database => db'[d] = db[d])
  <2>1. PICK e \in Dirs : db[e] \in Database
                          /\ db' = [db EXCEPT ![e] = [db[e] EXCEPT !.data = @ + 1]]
    BY <1>6 DEF Edit, TypeOK
  <2> QED
    BY <1>1, <1>6, <2>1 DEF Edit
<1>7. CASE Opens(d)
  BY <1>2, <1>7, ShellSurvives DEF CanOpen, Opens
<1>8. CASE db[d] = None
  <2>1. CreateDb(i) /\ app[i].dir = d
    <3>1. ASSUME NEW e \in Dirs, NEW password \in Passwords, OpenShell(i, e, password)
          PROVE  FALSE
      BY <1>1, <1>2, <1>4, <1>8, <3>1 DEF OpenShell
    <3>2. ~CreateSchema(i)
      BY <1>1, <1>2, <1>4, <1>8 DEF CreateSchema, At
    <3> QED
      BY <1>1, <1>2, <1>4, <1>5, <1>6, <1>8, <3>1, <3>2 DEF Step, Start, Continue, StartCreate,
         LockShell, StartChange, StartBackup, WriteTmp, RenameTmp, CreateDb, At, Fails, Crash, files
  <2>2. meta'[d] \in Sidecar /\ db'[d] = Zero
    BY <1>1, <2>1 DEF CreateDb, At, FilesFit
  <2> QED
    BY <2>2 DEF CanOpen
<1>9. CASE db[d] = Zero /\ meta[d] \in Sidecar
  <2>1. ASSUME NEW m \in Sidecar, meta[d] = m, meta' = meta,
               db'[d] = [key |-> m.key, data |-> 0]
        PROVE  CanOpen(d)'
    <3>1. [key |-> m.key, data |-> 0] \in Database
      BY MaxDataAssumption DEF Database, Sidecar
    <3>2. db'[d] \in Database /\ db'[d].key = m.key /\ meta'[d] = m
      BY <2>1, <3>1
    <3> QED
      BY <3>2 DEF CanOpen, Opens
  <2>2. ASSUME db'[d] = db[d], meta'[d] \in Sidecar PROVE CanOpen(d)'
    BY <1>9, <2>2 DEF CanOpen
  <2>3. ASSUME NEW e \in Dirs, NEW password \in Passwords, OpenShell(i, e, password)
        PROVE  CanOpen(d)'
    <3>1. CASE e = d
      <4>1. db'[d] = [key |-> meta[d].key, data |-> 0] /\ meta' = meta
        BY <1>1, <1>9, <2>3, <3>1 DEF OpenShell
      <4> QED
        BY <1>9, <2>1, <4>1
    <3>2. CASE e # d
      BY <1>1, <1>9, <2>2, <2>3, <3>2 DEF OpenShell
    <3> QED
      BY <3>1, <3>2
  <2>4. ASSUME CreateSchema(i) PROVE CanOpen(d)'
    <3>1. CASE app[i].dir = d
      <4>1. meta[d] = app[i].new /\ meta' = meta /\ db'[d] = [key |-> app[i].new.key, data |-> 0]
        BY <1>1, <2>4, <3>1 DEF CreateSchema, At, FilesFit
      <4> QED
        BY <1>9, <2>1, <4>1
    <3>2. CASE app[i].dir # d
      BY <1>1, <1>9, <2>2, <2>4, <3>2 DEF CreateSchema, At
    <3> QED
      BY <3>1, <3>2
  <2>5. ASSUME RenameTmp(i) PROVE CanOpen(d)'
    <3>1. app[i].new \in Sidecar /\ db' = db /\ meta' = [meta EXCEPT ![app[i].dir] = app[i].new]
      BY <1>1, <2>5 DEF RenameTmp
    <3> QED
      BY <1>1, <1>9, <2>2, <3>1
  <2>6. ASSUME CreateDb(i) PROVE CanOpen(d)'
    BY <1>1, <1>4, <1>9, <2>2, <2>6 DEF CreateDb, At
  <2>7. ASSUME UNCHANGED files PROVE CanOpen(d)'
    BY <1>9, <2>2, <2>7 DEF files
  <2> QED
    BY <1>4, <1>5, <1>6, <1>9, <2>2, <2>3, <2>4, <2>5, <2>6, <2>7 DEF Step, Start, Continue,
       StartCreate, LockShell, StartChange, StartBackup, WriteTmp, Fails, Crash
<1> QED
  BY <1>3, <1>7, <1>8, <1>9 DEF Restartable, CanOpen

(* Every step of a program leaves its next one what that relies on.         *)
LEMMA OwnStep ==
  ASSUME NEW i \in Procs, TypeOK, Ground(i), Step(i)
  PROVE  Ground(i)'
<1> USE DEF ChangeOps, BackupOps, CreateOps
<1>1. /\ DOMAIN app = Procs
      /\ db \in [Dirs -> Database \union {None, Zero, Torn}]
      /\ meta \in [Dirs -> Sidecar \union {None, Torn}]
      /\ ~At(i, "idle") => app[i].dir \in Dirs
      /\ app[i].op \in BackupOps => app[i].dest \in Dirs
  BY DEF TypeOK, AppTyped
<1>2. ASSUME app'[i].op = "idle" PROVE Ground(i)'
  BY <1>2 DEF Ground
<1>3. ASSUME Done(i) PROVE Ground(i)'
  BY <1>2, <1>3, DoneFields
<1>4. ASSUME NEW d \in Dirs, NEW k \in DataKeys, NEW s \in Chosen, StartCreate(i, d, k, s)
      PROVE  Ground(i)'
  <2> DEFINE a == Writing("create", d, [key |-> k, slots |-> s])
  <2>1. app'[i] = a /\ UNCHANGED <<files, targets>> /\ db[d] = None /\ Fresh(k)
    BY <1>1, <1>4 DEF StartCreate
  <2>2. a.op = "create" /\ a.dir = d /\ a.new.key = k
    BY DEF Writing
  <2> HIDE DEF a
  <2> QED
    BY <2>1, <2>2 DEF Ground, Fresh, files
<1>5. ASSUME app' = app, At(i, "idle") PROVE Ground(i)'
  BY <1>2, <1>5 DEF At
<1>6. ASSUME NEW d \in Dirs, NEW known \in Passwords, NEW password \in Passwords,
             NEW slot \in Slots, StartChange(i, d, known, slot, password)
      PROVE  Ground(i)'
  <2> DEFINE a == Writing("change", d, WithSlot(meta[d], slot, password))
  <2>1. app'[i] = a /\ UNCHANGED <<files, targets>> /\ meta[d] \in Sidecar
    BY <1>1, <1>6 DEF StartChange
  <2>2. a.op = "change" /\ a.dir = d /\ a.new = WithSlot(meta[d], slot, password)
    BY DEF Writing
  <2> HIDE DEF a
  <2>3. a.new = WithSlot(meta'[d], slot, password)
    BY <2>1, <2>2 DEF files
  <2> QED
    BY <2>1, <2>2, <2>3 DEF Ground, files
<1>7. ASSUME NEW e \in Dirs, StartBackup(i, e) PROVE Ground(i)'
  <2>1. app'[i].op = "truncDb"
    BY <1>1, <1>7 DEF StartBackup
  <2> QED
    BY <2>1 DEF Ground
<1>8. ASSUME WriteTmp(i) PROVE Ground(i)'
  <2>1. PICK op \in {"created", "changed"} :
          /\ Go(i, op)
          /\ op = "created" <=> app[i].op = "create"
          /\ op = "changed" <=> app[i].op = "change"
    BY <1>8 DEF WriteTmp, At
  <2>2. UNCHANGED <<files, targets>>
    BY <1>8 DEF WriteTmp
  <2>3. /\ app'[i].op = op /\ app'[i].dir = app[i].dir
        /\ app'[i].dest = app[i].dest /\ app'[i].new = app[i].new
    BY <2>1, GoFields
  <2>4. CASE op = "created"
    BY <2>1, <2>2, <2>3, <2>4 DEF Ground, files
  <2>5. CASE op = "changed"
    <3>1. meta[app[i].dir] \in Sidecar
      BY <2>1, <2>5 DEF Ground
    <3>2. PICK slot \in Slots, password \in Passwords :
            app[i].new = WithSlot(meta[app[i].dir], slot, password)
      BY <2>1, <2>5 DEF Ground
    <3>3. meta' = meta
      BY <2>2 DEF files
    <3> QED
      BY <2>2, <2>3, <2>5, <3>1, <3>2, <3>3 DEF Ground, WithSlot
  <2> QED
    BY <2>1, <2>4, <2>5
<1>9. ASSUME RenameTmp(i) PROVE Ground(i)'
  <2>1. CASE At(i, "created")
    <3>1. meta'[app[i].dir] = app[i].new /\ db' = db /\ Go(i, "createDb")
      BY <1>1, <1>9, <2>1 DEF RenameTmp, At
    <3> QED
      BY <2>1, <3>1, GoFields DEF Ground, At
  <2>2. CASE ~At(i, "created")
    BY <1>3, <1>9, <2>2 DEF RenameTmp
  <2> QED
    BY <2>1, <2>2
<1>10. ASSUME CreateDb(i) PROVE Ground(i)'
  <2>1. /\ meta[app[i].dir] = app[i].new /\ meta' = meta
        /\ db'[app[i].dir] = Zero /\ Go(i, "schema")
    BY <1>1, <1>10 DEF CreateDb, At, Ground
  <2> QED
    BY <2>1, GoFields DEF Ground
<1>11. ASSUME TruncateDb(i) PROVE Ground(i)'
  <2>1. app[i].dest \in targets' /\ Go(i, "fillDb")
    BY <1>11 DEF TruncateDb
  <2> QED
    BY <2>1, GoFields DEF Ground
<1>12. ASSUME FillDb(i) PROVE Ground(i)'
  <2>1. /\ app[i].dest \in targets' /\ Go(i, "truncMeta")
        /\ db'[app[i].dest] = db'[app[i].dir]
    BY <1>1, <1>12 DEF FillDb, At, Ground
  <2> QED
    BY <2>1, GoFields DEF Ground
<1>13. ASSUME TruncateMeta(i) PROVE Ground(i)'
  <2>1. /\ app[i].dest \in targets' /\ Go(i, "fillMeta")
        /\ db' = db /\ db[app[i].dest] = db[app[i].dir] /\ meta'[app[i].dest] = Torn
    BY <1>1, <1>13 DEF TruncateMeta, At, Ground
  <2> QED
    BY <2>1, GoFields DEF Ground
<1> QED
  BY <1>3, <1>4, <1>5, <1>6, <1>7, <1>8, <1>9, <1>10, <1>11, <1>12, <1>13 DEF Step, Start,
     Continue, OpenShell, Edit, LockShell, CreateSchema, FillMeta, Fails, Crash

(* What a step of one program leaves alone of another.                      *)
LEMMA OthersStay ==
  ASSUME NEW i \in Procs, NEW j \in Procs, j # i, TypeOK, Step(i)
  PROVE  app'[j] = app[j] /\ targets \subseteq targets'
<1> USE DEF Step, Start, Continue, StartCreate, OpenShell, Edit, LockShell, StartChange,
      StartBackup, WriteTmp, RenameTmp, CreateDb, CreateSchema, TruncateDb, FillDb,
      TruncateMeta, FillMeta, Fails, Crash, Go, Done
<1>1. \/ app' = app
      \/ \E a : app' = [app EXCEPT ![i] = a]
      \/ \E op : app' = [app EXCEPT ![i].op = op]
  OBVIOUS
<1>2. targets' = targets \/ targets' = targets \union {app[i].dest}
  OBVIOUS
<1> QED
  BY <1>1, <1>2 DEF TypeOK, AppTyped

(* A step taken in turn leaves the others what they rely on.                *)
LEMMA OthersKeepTheirGround ==
  ASSUME NEW i \in Procs, NEW j \in Procs, j # i, TypeOK, Step(i), TakesTurns(i), Ground(j)
  PROVE  Ground(j)'
<1>1. app'[j] = app[j] /\ targets \subseteq targets'
  BY OthersStay
<1>2. CASE At(j, "idle")
  BY <1>1, <1>2 DEF At, Ground, ChangeOps, BackupOps
<1>3. CASE ~At(j, "idle")
  <2> DEFINE a == app[j]
  <2>1. a.dir \in Dirs /\ (a.op \in BackupOps => a.dest \in Dirs)
    BY <1>3 DEF TypeOK, AppTyped
  <2>2. None \notin Dirs
    BY NoneAssumption
  <2>3. db'[a.dir] = db[a.dir] /\ meta'[a.dir] = meta[a.dir]
    BY <1>3, <2>1, <2>2 DEF TakesTurns, Inside
  <2>4. a.op \in BackupOps => db'[a.dest] = db[a.dest] /\ meta'[a.dest] = meta[a.dest]
    BY <1>3, <2>1, <2>2 DEF TakesTurns, Inside
  <2>5. ASSUME a.op \in ChangeOps
        PROVE  /\ meta'[a.dir] \in Sidecar
               /\ \E slot \in Slots, password \in Passwords :
                    a.new = WithSlot(meta'[a.dir], slot, password)
    BY <2>3, <2>5 DEF Ground
  <2> QED
    BY <1>1, <2>3, <2>4, <2>5 DEF Ground, BackupOps
<1> QED
  BY <1>2, <1>3

LEMMA TurnsStep ==
  ASSUME TurnsInv, [TurnsNext]_vars
  PROVE  TurnsInv'
<1>1. ASSUME UNCHANGED vars PROVE TurnsInv'
  <2>1. TypeOK'
    BY <1>1, TypeInductive DEF TurnsInv
  <2>2. UNCHANGED <<db, meta, app, targets>>
    BY <1>1 DEF vars, files
  <2>3. Restartable'
    BY <2>2 DEF TurnsInv, Restartable, CanOpen, Opens
  <2>4. OperationKeepsItsGround'
    BY <2>2 DEF TurnsInv, OperationKeepsItsGround, Ground
  <2> QED
    BY <2>1, <2>3, <2>4 DEF TurnsInv
<1>2. SUFFICES ASSUME NEW i \in Procs, Step(i), TakesTurns(i)
               PROVE  TurnsInv'
  BY <1>1 DEF TurnsNext, Step
<1>3. TypeOK /\ Restartable /\ \A j \in Procs : Ground(j)
  BY DEF TurnsInv, OperationKeepsItsGround
<1>4. TypeOK'
  BY <1>2, <1>3, TypeInductive DEF Step, Next
<1>5. Restartable' /\ Ground(i)'
  BY <1>2, <1>3, OwnStep, GroundFits, RestartableStep
<1>6. \A j \in Procs : j # i => Ground(j)'
  BY <1>2, <1>3, OthersKeepTheirGround
<1> QED
  BY <1>4, <1>5, <1>6 DEF TurnsInv, OperationKeepsItsGround

LEMMA TurnsInit ==
  ASSUME Init PROVE TurnsInv
<1>1. TypeOK
  BY TypeInit
<1>2. Restartable
  BY DEF Init, Restartable
<1>3. OperationKeepsItsGround
  BY DEF Init, Idle, OperationKeepsItsGround, Ground, ChangeOps, BackupOps
<1> QED
  BY <1>1, <1>2, <1>3 DEF TurnsInv

(* An interrupted create or change of password never costs a Shell: a crash *)
(* leaves a file that the primary password opens, or none.                  *)
THEOREM CrashesCostNoShell == TurnsSpec => []Restartable
<1>1. Init => TurnsInv
  BY TurnsInit
<1>2. TurnsInv /\ [TurnsNext]_vars => TurnsInv'
  BY TurnsStep
<1>3. TurnsInv => Restartable
  BY DEF TurnsInv
<1> QED
  BY <1>1, <1>2, <1>3, PTL DEF TurnsSpec

(* What an operation found when it started still holds when it goes on.     *)
THEOREM OperationsKeepTheirGround == TurnsSpec => []OperationKeepsItsGround
<1>1. Init => TurnsInv
  BY TurnsInit
<1>2. TurnsInv /\ [TurnsNext]_vars => TurnsInv'
  BY TurnsStep
<1>3. TurnsInv => OperationKeepsItsGround
  BY DEF TurnsInv
<1> QED
  BY <1>1, <1>2, <1>3, PTL DEF TurnsSpec

-----------------------------------------------------------------------------
(* The refinement *)

(* A Shell depends on the two files in its directory only. *)
LEMMA SameShells ==
  ASSUME UNCHANGED files
  PROVE  Shells' = Shells
BY DEF files, Shells, Opens

LEMMA OneShellChanges ==
  ASSUME NEW d \in Dirs, \A e \in Dirs : e # d => db'[e] = db[e] /\ meta'[e] = meta[e]
  PROVE  Shells' = [Shells EXCEPT ![d] = Shells'[d]]
<1>1. \A e \in Dirs : e # d => Shells'[e] = Shells[e]
  BY DEF Shells, Opens
<1> QED
  BY <1>1 DEF Shells

LEMMA ShellsTyped ==
  ASSUME TypeOK', NEW d \in Dirs
  PROVE  Shells'[d] \in Store!Shell \union {None}
<1>1. CASE ~Opens(d)'
  BY <1>1 DEF Shells
<1>2. CASE Opens(d)'
  <2>1. meta'[d] \in Sidecar /\ db'[d] \in Database
    BY <1>2 DEF Opens
  <2>2. meta'[d].slots \in Store!SlotMaps /\ db'[d].data \in 0..MaxData
    BY <2>1 DEF Sidecar, Database, SlotMaps, Slots, Store!SlotMaps, Store!Slots
  <2> QED
    BY <1>2, <2>2 DEF Shells, Store!Shell
<1> QED
  BY <1>1, <1>2

(* A Shell is not None. *)
LEMMA NoneIsNoShell ==
  ASSUME NEW m \in Sidecar, NEW n \in 0..MaxData
  PROVE  [slots |-> m.slots, data |-> n] # None
BY ShellAssumption DEF Sidecar

LEMMA StoreInit ==
  ASSUME Init PROVE Store!Init
<1>1. None \notin Sidecar
  BY NoneAssumption
<1> QED
  BY <1>1 DEF Init, Store!Init, Shells, Opens

(* Every step of a program is one step of the store, or none. *)
LEMMA StoreStep ==
  ASSUME NEW i \in Procs, TypeOK, Ground(i), Step(i)
  PROVE  Store!Next \/ UNCHANGED Store!vars
<1> USE DEF ChangeOps, BackupOps, CreateOps
<1>1. TypeOK /\ Ground(i) /\ TypeOK'
  BY TypeInductive DEF Step, Next
<1>2. ASSUME UNCHANGED <<files, targets>> PROVE UNCHANGED Store!vars
  BY <1>2, SameShells DEF Store!vars, files
<1>5. /\ ~At(i, "idle") => app[i].dir \in Dirs
      /\ app[i].op \in CreateOps \union ChangeOps => app[i].new \in Sidecar
      /\ app[i].op \in BackupOps => app[i].dest \in Dirs
  BY <1>1 DEF TypeOK, AppTyped
<1>6. /\ db \in [Dirs -> Database \union {None, Zero, Torn}]
      /\ meta \in [Dirs -> Sidecar \union {None, Torn}]
  BY <1>1 DEF TypeOK
<1>7. {None, Zero} \intersect Database = {} /\ None # Zero
  BY FilesAssumption
<1>8. ASSUME NEW d \in Dirs, meta[d] \in Sidecar, db[d] = Zero,
             db' = [db EXCEPT ![d] = [key |-> meta[d].key, data |-> 0]],
             UNCHANGED <<meta, targets>>
      PROVE  Store!Next
  <2>1. db'[d] = [key |-> meta[d].key, data |-> 0] /\ \A e \in Dirs : e # d => db'[e] = db[e]
    BY <1>6, <1>8
  <2>2. db'[d] \in Database /\ meta[d].slots \in Store!SlotMaps
    BY <1>8, <2>1, MaxDataAssumption DEF Database, Sidecar, SlotMaps, Slots, Store!SlotMaps, Store!Slots
  <2>3. Shells'[d] = [slots |-> meta[d].slots, data |-> 0] /\ Shells[d] = None
    BY <1>7, <1>8, <2>1, <2>2 DEF Shells, Opens
  <2>4. Store!Create(d, meta[d].slots)
    BY <1>8, <2>1, <2>3, OneShellChanges DEF Store!Create
  <2> QED
    BY <2>2, <2>4 DEF Store!Next
<1>9. ASSUME NEW d \in Dirs, \A e \in Dirs : e # d => db'[e] = db[e] /\ meta'[e] = meta[e],
             targets' = targets \union {d}
      PROVE  Store!Next
  <2>1. Store!BackUpInto(d)
    BY <1>1, <1>9, OneShellChanges, ShellsTyped DEF Store!BackUpInto
  <2> QED
    BY <2>1 DEF Store!Next
<1>10. ASSUME NEW d \in Dirs, NEW k \in DataKeys, NEW s \in Chosen, StartCreate(i, d, k, s)
       PROVE  UNCHANGED Store!vars
  BY <1>2, <1>10 DEF StartCreate
<1>11. ASSUME NEW d \in Dirs, NEW password \in Passwords, OpenShell(i, d, password)
       PROVE  Store!Next \/ UNCHANGED Store!vars
  <2>1. CASE db[d] = Zero
    BY <1>8, <1>11, <2>1 DEF OpenShell, CanOpen
  <2>2. CASE db[d] # Zero
    <3>1. db' = db
      BY <1>6, <1>11, <2>2 DEF OpenShell
    <3> QED
      BY <1>2, <1>11, <3>1 DEF OpenShell, files
  <2> QED
    BY <2>1, <2>2
<1>12. ASSUME Edit(i) PROVE Store!Next \/ UNCHANGED Store!vars
  <2>1. PICK d \in Dirs : /\ db[d] \in Database /\ db[d].data < MaxData
                          /\ db' = [db EXCEPT ![d] = [db[d] EXCEPT !.data = @ + 1]]
    BY <1>1, <1>12 DEF Edit, TypeOK
  <2>2. UNCHANGED <<meta, targets>>
    BY <1>12 DEF Edit
  <2>3. db'[d] = [db[d] EXCEPT !.data = @ + 1] /\ \A e \in Dirs : e # d => db'[e] = db[e]
    BY <1>6, <2>1
  <2>4. db'[d] \in Database /\ db'[d].key = db[d].key /\ db'[d].data = db[d].data + 1
    BY <2>1, <2>3, MaxDataAssumption DEF Database
  <2>5. CASE Opens(d)
    <3>1. Shells[d] = [slots |-> meta[d].slots, data |-> db[d].data]
      BY <2>5 DEF Shells
    <3>2. Shells'[d] = [slots |-> meta[d].slots, data |-> db[d].data + 1]
      BY <2>2, <2>4, <2>5 DEF Shells, Opens
    <3>3. Shells' = [Shells EXCEPT ![d].data = @ + 1]
      BY <2>2, <2>3, <3>1, <3>2, OneShellChanges
    <3>4. Shells[d] # None
      BY <2>1, <2>5, <3>1, NoneIsNoShell DEF Opens, Database
    <3>5. Store!Edit(d)
      BY <2>1, <2>2, <3>1, <3>3, <3>4 DEF Store!Edit
    <3> QED
      BY <3>5 DEF Store!Next
  <2>6. CASE ~Opens(d)
    <3>1. Shells'[d] = Shells[d]
      BY <2>1, <2>2, <2>4, <2>6 DEF Shells, Opens
    <3>2. Shells' = Shells
      BY <2>2, <2>3, <3>1, OneShellChanges DEF Shells
    <3> QED
      BY <2>2, <3>2 DEF Store!vars
  <2> QED
    BY <2>5, <2>6
<1>13. ASSUME LockShell(i) PROVE UNCHANGED Store!vars
  BY <1>2, <1>13 DEF LockShell
<1>14. ASSUME NEW d \in Dirs, NEW known \in Passwords, NEW password \in Passwords,
              NEW slot \in Slots, StartChange(i, d, known, slot, password)
       PROVE  UNCHANGED Store!vars
  BY <1>2, <1>14 DEF StartChange
<1>15. ASSUME NEW e \in Dirs, StartBackup(i, e) PROVE UNCHANGED Store!vars
  BY <1>2, <1>15 DEF StartBackup
<1>16. ASSUME WriteTmp(i) PROVE UNCHANGED Store!vars
  BY <1>2, <1>16 DEF WriteTmp
<1>17. ASSUME RenameTmp(i) PROVE Store!Next \/ UNCHANGED Store!vars
  <2>0. PICK d \in Dirs : d = app[i].dir
    BY <1>5, <1>17 DEF RenameTmp, At
  <2>1. /\ app[i].new \in Sidecar
        /\ meta'[d] = app[i].new /\ \A e \in Dirs : e # d => meta'[e] = meta[e]
        /\ UNCHANGED <<db, targets>>
    BY <1>5, <1>6, <1>17, <2>0 DEF RenameTmp, At
  <2>2. ASSUME ~Opens(d), ~Opens(d)' PROVE UNCHANGED Store!vars
    <3>1. Shells'[d] = Shells[d]
      BY <2>1, <2>2 DEF Shells
    <3>2. Shells' = Shells
      BY <2>1, <3>1, OneShellChanges DEF Shells
    <3> QED
      BY <2>1, <3>2 DEF Store!vars
  <2>3. CASE At(i, "created")
    BY <1>1, <1>7, <2>0, <2>1, <2>2, <2>3 DEF Ground, At, Opens
  <2>4. CASE At(i, "changed")
    <3>1. meta[d] \in Sidecar
      BY <1>1, <2>0, <2>4 DEF Ground, At
    <3>2. PICK slot \in Slots, password \in Passwords :
            app[i].new = WithSlot(meta[d], slot, password)
      BY <1>1, <2>0, <2>4 DEF Ground, At
    <3>3. /\ meta'[d].key = meta[d].key
          /\ meta'[d].slots = [meta[d].slots EXCEPT ![slot] = password]
      BY <2>1, <3>1, <3>2, WithSlotFields
    <3>4. CASE Opens(d)
      <4>1. /\ Shells[d] = [slots |-> meta[d].slots, data |-> db[d].data]
            /\ Shells'[d] = [slots |-> meta'[d].slots, data |-> db[d].data]
        BY <2>1, <3>3, <3>4 DEF Shells, Opens
      <4>2. Shells' = [Shells EXCEPT ![d].slots[slot] = password]
        BY <2>1, <3>3, <4>1, OneShellChanges
      <4>3. Shells[d] # None
        BY <3>1, <3>4, <4>1, NoneIsNoShell DEF Opens, Database
      <4>4. slot \in Store!Slots
        BY DEF Slots, Store!Slots
      <4>5. Store!ChangePassword(d, slot, password)
        BY <2>1, <4>2, <4>3 DEF Store!ChangePassword
      <4> QED
        BY <2>1, <4>4, <4>5 DEF Store!Next
    <3>5. CASE ~Opens(d)
      BY <2>1, <2>2, <3>1, <3>3, <3>5 DEF Opens
    <3> QED
      BY <3>4, <3>5
  <2> QED
    BY <1>17, <2>3, <2>4 DEF RenameTmp, At
<1>18. ASSUME CreateDb(i) PROVE UNCHANGED Store!vars
  <2> DEFINE d == app[i].dir
  <2>1. /\ d \in Dirs /\ db[d] = None /\ db'[d] = Zero
        /\ \A e \in Dirs : e # d => db'[e] = db[e]
        /\ UNCHANGED <<meta, targets>>
    BY <1>5, <1>6, <1>18 DEF CreateDb, At
  <2>2. Shells'[d] = Shells[d]
    BY <1>7, <2>1 DEF Shells, Opens
  <2>3. Shells' = Shells
    BY <2>1, <2>2, OneShellChanges DEF Shells
  <2> QED
    BY <2>1, <2>3 DEF Store!vars
<1>19. ASSUME CreateSchema(i) PROVE Store!Next
  <2>1. app[i].dir \in Dirs /\ meta[app[i].dir] = app[i].new /\ app[i].new \in Sidecar
    BY <1>1, <1>5, <1>19 DEF CreateSchema, At, Ground
  <2> QED
    BY <1>8, <1>19, <2>1 DEF CreateSchema
<1>20. ASSUME TruncateDb(i) PROVE Store!Next
  <2>1. app[i].dest \in Dirs /\ meta' = meta /\ targets' = targets \union {app[i].dest}
        /\ \A e \in Dirs : e # app[i].dest => db'[e] = db[e]
    BY <1>5, <1>6, <1>20 DEF TruncateDb, At
  <2> QED
    BY <1>9, <2>1
<1>21. ASSUME FillDb(i) PROVE Store!Next
  <2>1. app[i].dest \in Dirs /\ app[i].dest \in targets /\ UNCHANGED <<meta, targets>>
        /\ \A e \in Dirs : e # app[i].dest => db'[e] = db[e]
    BY <1>1, <1>5, <1>6, <1>21 DEF FillDb, At, Ground
  <2>2. targets' = targets \union {app[i].dest}
    BY <2>1
  <2> QED
    BY <1>9, <2>1, <2>2
<1>22. ASSUME TruncateMeta(i) \/ FillMeta(i) PROVE Store!Next
  <2>1. app[i].dest \in Dirs /\ app[i].dest \in targets /\ UNCHANGED <<db, targets>>
        /\ \A e \in Dirs : e # app[i].dest => meta'[e] = meta[e]
    BY <1>1, <1>5, <1>6, <1>22 DEF TruncateMeta, FillMeta, At, Ground
  <2>2. targets' = targets \union {app[i].dest}
    BY <2>1
  <2> QED
    BY <1>9, <2>1, <2>2
<1>23. ASSUME Fails(i) \/ Crash(i) PROVE UNCHANGED Store!vars
  BY <1>2, <1>23 DEF Fails, Crash
<1> QED
  BY <1>10, <1>11, <1>12, <1>13, <1>14, <1>15, <1>16, <1>17, <1>18, <1>19, <1>20,
     <1>21, <1>22, <1>23 DEF Step, Start, Continue

(* The files implement a store whose operations are atomic, whoever works   *)
(* on them, as long as the programs take turns.                             *)
THEOREM ImplementsStore == TurnsSpec => StoreSpec
<1>1. Init => TurnsInv /\ Store!Init
  BY TurnsInit, StoreInit
<1>2. TurnsInv /\ [TurnsNext]_vars => TurnsInv'
  BY TurnsStep
<1>3. ASSUME TurnsInv, [TurnsNext]_vars PROVE [Store!Next]_(Store!vars)
  <2>1. ASSUME UNCHANGED vars PROVE UNCHANGED Store!vars
    BY <2>1, SameShells DEF Store!vars, vars, files
  <2>2. ASSUME NEW i \in Procs, Step(i) PROVE Store!Next \/ UNCHANGED Store!vars
    BY <1>3, <2>2, StoreStep DEF TurnsInv, OperationKeepsItsGround
  <2> QED
    BY <1>3, <2>1, <2>2 DEF TurnsNext, Step
<1> QED
  BY <1>1, <1>2, <1>3, PTL DEF TurnsSpec, StoreSpec, Store!Spec

-----------------------------------------------------------------------------
(* Backups and passwords *)

LEMMA BackupStep ==
  ASSUME NEW i \in Procs, TurnsInv, FillMeta(i),
         app[i].dest # app[i].dir, Opens(app[i].dir)
  PROVE  Shells'[app[i].dest] = Shells[app[i].dir]
<1> USE DEF BackupOps
<1>1. TypeOK /\ Ground(i)
  BY DEF TurnsInv, OperationKeepsItsGround
<1>2. PICK d \in Dirs, e \in Dirs : d = app[i].dir /\ e = app[i].dest
  BY <1>1 DEF TypeOK, AppTyped, FillMeta, At
<1>3. db[e] = db[d] /\ UNCHANGED db /\ meta' = [meta EXCEPT ![e] = meta[d]]
  BY <1>1, <1>2 DEF FillMeta, At, Ground
<1>4. meta'[e] = meta[d]
  BY <1>1, <1>2, <1>3 DEF TypeOK
<1>5. Opens(d) /\ Opens(e)'
  BY <1>2, <1>3, <1>4 DEF Opens
<1> QED
  BY <1>2, <1>3, <1>4, <1>5 DEF Shells

(* A finished backup opens, with the passwords and the zones of the Shell.  *)
THEOREM BackupsOpen == TurnsSpec => FinishedBackupOpens
<1>1. Init => TurnsInv
  BY TurnsInit
<1>2. TurnsInv /\ [TurnsNext]_vars => TurnsInv'
  BY TurnsStep
<1>3. TurnsInv /\ [TurnsNext]_vars => [BackupOpens]_vars
  BY BackupStep DEF BackupOpens
<1> QED
  BY <1>1, <1>2, <1>3, PTL DEF TurnsSpec, FinishedBackupOpens

LEMMA OtherSlotStep ==
  ASSUME NEW i \in Procs, TypeOK, Ground(i), Step(i), NEW d \in Dirs,
         meta[d] \in Sidecar, meta'[d] \in Sidecar, meta'[d].key = meta[d].key
  PROVE  \E slot \in Slots : meta'[d].slots[slot] = meta[d].slots[slot]
<1> USE DEF ChangeOps, BackupOps, CreateOps
<1>1. TypeOK /\ Ground(i)
  OBVIOUS
<1>2. CASE meta'[d] = meta[d]
  BY <1>2 DEF Slots
<1>3. CASE meta'[d] # meta[d]
  <2>1. RenameTmp(i) \/ TruncateMeta(i) \/ FillMeta(i)
    BY <1>3 DEF Step, Start, Continue, files, StartCreate, OpenShell, Edit, LockShell,
       StartChange, StartBackup, WriteTmp, CreateDb, CreateSchema, TruncateDb, FillDb, Fails, Crash
  <2>2. CASE RenameTmp(i)
    <3>1. d = app[i].dir /\ meta'[d] = app[i].new
      BY <1>1, <1>3, <2>2 DEF RenameTmp, TypeOK
    <3>2. app[i].op = "changed"
      BY <1>1, <2>2, <3>1 DEF RenameTmp, Ground
    <3>3. PICK slot \in Slots, password \in Passwords :
            app[i].new = WithSlot(meta[d], slot, password)
      BY <1>1, <3>1, <3>2 DEF Ground
    <3>4. meta'[d].slots = [meta[d].slots EXCEPT ![slot] = password]
      BY <3>1, <3>3, WithSlotFields
    <3>5. PICK other \in Slots : other # slot
      BY DEF Slots
    <3> QED
      BY <3>4, <3>5 DEF Sidecar, SlotMaps
  <2>3. CASE TruncateMeta(i)
    BY <1>1, <1>3, <2>3, FilesAssumption DEF TruncateMeta, TypeOK
  <2>4. CASE FillMeta(i)
    BY <1>1, <1>3, <2>4, FilesAssumption DEF FillMeta, At, Ground, TypeOK
  <2> QED
    BY <2>1, <2>2, <2>3, <2>4
<1> QED
  BY <1>2, <1>3

(* A change of one password leaves the other one, wherever it dies.         *)
THEOREM OtherPasswordStays == TurnsSpec => ChangeKeepsOtherSlot
<1>1. Init => TurnsInv
  BY TurnsInit
<1>2. TurnsInv /\ [TurnsNext]_vars => TurnsInv'
  BY TurnsStep
<1>3. TurnsInv /\ [TurnsNext]_vars =>
        [\A d \in Dirs :
           meta[d] \in Sidecar /\ meta'[d] \in Sidecar /\ meta'[d].key = meta[d].key =>
             \E slot \in Slots : meta'[d].slots[slot] = meta[d].slots[slot]]_vars
  BY OtherSlotStep DEF TurnsInv, OperationKeepsItsGround, TurnsNext, Step
<1> QED
  BY <1>1, <1>2, <1>3, PTL DEF TurnsSpec, ChangeKeepsOtherSlot

-----------------------------------------------------------------------------
(* A Shell in use *)

\* The Shell that a program has open stays, under the same data key, unless a
\* backup is written over it.
OpenShellStays(i) ==
  open[i] # None /\ open[i].dir \notin targets =>
    Opens(open[i].dir) /\ meta[open[i].dir].key = open[i].key

BacksUpWhatIsOpen(i) ==
  app[i].op \in BackupOps => open[i] # None /\ app[i].dir = open[i].dir

\* A backup into another directory keeps its source.
SourceStays(i) ==
  app[i].op \in BackupOps /\ app[i].dest # app[i].dir /\ app[i].dir \notin targets =>
    Opens(app[i].dir)

UseInv == \A i \in Procs : OpenShellStays(i) /\ BacksUpWhatIsOpen(i)

(* What a program opens or has just created can be opened.                  *)
LEMMA OpenedOpens ==
  ASSUME NEW i \in Procs, TypeOK, Ground(i), Step(i), open'[i] # open[i], open'[i] # None
  PROVE  /\ open'[i].dir \in Dirs
         /\ Opens(open[i].dir)' /\ meta'[open'[i].dir].key = open'[i].key
<1> USE DEF ChangeOps, BackupOps, CreateOps
<1>1. /\ db \in [Dirs -> Database \union {None, Zero, Torn}]
      /\ ~At(i, "idle") => app[i].dir \in Dirs
      /\ app[i].op \in CreateOps => app[i].new \in Sidecar
      /\ DOMAIN open = Procs
  BY DEF TypeOK, AppTyped
<1>2. ASSUME NEW d \in Dirs, NEW m \in Sidecar, meta[d] = m, meta' = meta,
             \/ db' = [db EXCEPT ![d] = [key |-> m.key, data |-> 0]]
             \/ Opens(d) /\ db'[d] = db[d],
             open'[i] = [key |-> m.key, dir |-> d]
      PROVE  /\ open'[i].dir \in Dirs
             /\ Opens(open[i].dir)' /\ meta'[open'[i].dir].key = open'[i].key
  <2>1. [key |-> m.key, data |-> 0] \in Database
    BY MaxDataAssumption DEF Database, Sidecar
  <2>2. db'[d] \in Database /\ db'[d].key = m.key
    <3>1. CASE db' = [db EXCEPT ![d] = [key |-> m.key, data |-> 0]]
      <4>1. db'[d] = [key |-> m.key, data |-> 0]
        BY <1>1, <3>1
      <4> QED
        BY <2>1, <4>1
    <3>2. CASE Opens(d) /\ db'[d] = db[d]
      BY <1>2, <3>2 DEF Opens
    <3> QED
      BY <1>2, <3>1, <3>2
  <2>3. meta'[d] = m
    BY <1>2
  <2>4. open'[i].dir = d /\ open'[i].key = m.key
    BY <1>2
  <2> QED
    BY <2>2, <2>3, <2>4 DEF Opens
<1>3. \/ \E d \in Dirs, password \in Passwords : OpenShell(i, d, password)
      \/ CreateSchema(i)
  BY <1>1 DEF Step, Start, Continue, StartCreate, Edit, LockShell, StartChange, StartBackup,
     WriteTmp, RenameTmp, CreateDb, TruncateDb, FillDb, TruncateMeta, FillMeta, Fails, Crash
<1>4. CASE CreateSchema(i)
  <2>1. /\ app[i].dir \in Dirs /\ app[i].new \in Sidecar /\ meta[app[i].dir] = app[i].new
        /\ meta' = meta /\ open'[i] = [key |-> app[i].new.key, dir |-> app[i].dir]
        /\ db' = [db EXCEPT ![app[i].dir] = [key |-> app[i].new.key, data |-> 0]]
    BY <1>1, <1>4 DEF CreateSchema, At, Ground
  <2> QED
    BY <1>2, <2>1
<1>5. ASSUME NEW d \in Dirs, NEW password \in Passwords, OpenShell(i, d, password)
      PROVE  /\ open'[i].dir \in Dirs
             /\ Opens(open[i].dir)' /\ meta'[open'[i].dir].key = open'[i].key
  <2>1. /\ meta[d] \in Sidecar /\ meta' = meta /\ (db[d] = Zero \/ Opens(d))
        /\ open'[i] = [key |-> meta[d].key, dir |-> d]
        /\ db' = [db EXCEPT ![d] = IF @ = Zero THEN [key |-> meta[d].key, data |-> 0] ELSE @]
    BY <1>1, <1>5 DEF OpenShell, CanOpen
  <2>2. CASE db[d] = Zero
    <3>1. db' = [db EXCEPT ![d] = [key |-> meta[d].key, data |-> 0]]
      BY <2>1, <2>2
    <3> QED
      BY <1>2, <2>1, <3>1
  <2>3. CASE db[d] # Zero
    <3>1. Opens(d) /\ db'[d] = db[d]
      BY <1>1, <2>1, <2>3
    <3> QED
      BY <1>2, <2>1, <3>1
  <2> QED
    BY <2>2, <2>3
<1> QED
  BY <1>3, <1>4, <1>5

(* Another program's step leaves open what this one has open.               *)
LEMMA OthersOpenStays ==
  ASSUME NEW i \in Procs, NEW j \in Procs, j # i, TypeOK, Step(i)
  PROVE  open'[j] = open[j]
<1>1. \/ open' = open \/ \E o : open' = [open EXCEPT ![i] = o]
  BY DEF Step, Start, Continue, StartCreate, OpenShell, Edit, LockShell, StartChange,
     StartBackup, WriteTmp, RenameTmp, CreateDb, CreateSchema, TruncateDb, FillDb,
     TruncateMeta, FillMeta, Fails, Crash
<1> QED
  BY <1>1 DEF TypeOK

LEMMA UseStep ==
  ASSUME TurnsInv, UseInv, [TurnsNext]_vars
  PROVE  UseInv'
<1> USE DEF ChangeOps, BackupOps, CreateOps
<1>1. ASSUME UNCHANGED vars PROVE UseInv'
  <2>1. UNCHANGED <<db, meta, open, app, targets>>
    BY <1>1 DEF vars, files
  <2> QED
    BY <2>1 DEF UseInv, OpenShellStays, BacksUpWhatIsOpen, Opens
<1>2. SUFFICES ASSUME NEW i \in Procs, Step(i), NEW j \in Procs
               PROVE  OpenShellStays(j)' /\ BacksUpWhatIsOpen(j)'
  BY <1>1 DEF TurnsNext, Step, UseInv
<1>3. TypeOK /\ Ground(i) /\ OpenShellStays(j) /\ BacksUpWhatIsOpen(j)
  BY DEF TurnsInv, OperationKeepsItsGround, UseInv
<1>4. targets \subseteq targets'
  BY <1>2 DEF Step, Start, Continue, StartCreate, OpenShell, Edit, LockShell, StartChange,
     StartBackup, WriteTmp, RenameTmp, CreateDb, CreateSchema, TruncateDb, FillDb,
     TruncateMeta, FillMeta, Fails, Crash
<1>5. OpenShellStays(j)'
  <2>1. SUFFICES ASSUME open'[j] # None, open'[j].dir \notin targets'
                 PROVE  Opens(open[j].dir)' /\ meta'[open'[j].dir].key = open'[j].key
    BY DEF OpenShellStays, Opens
  <2>2. CASE open'[j] = open[j]
    <3>1. PICK d \in Dirs : d = open[j].dir
      BY <1>3, <2>1, <2>2 DEF TypeOK
    <3>2. d \notin targets' /\ Opens(d) /\ meta[d].key = open[j].key
      BY <1>3, <1>4, <2>1, <2>2, <3>1 DEF OpenShellStays
    <3>3. Opens(d)' /\ meta'[d].key = meta[d].key
      BY <1>2, <1>3, <3>2, GroundFits, ShellSurvives
    <3> QED
      BY <2>2, <3>1, <3>2, <3>3 DEF Opens
  <2>3. CASE open'[j] # open[j]
    <3>1. j = i
      BY <1>2, <1>3, <2>3, OthersOpenStays
    <3> QED
      BY <1>2, <1>3, <2>1, <2>3, <3>1, OpenedOpens DEF Opens
  <2> QED
    BY <2>2, <2>3
<1>6. BacksUpWhatIsOpen(j)'
  <2>1. CASE j # i
    BY <1>2, <1>3, <2>1, OthersStay, OthersOpenStays DEF BacksUpWhatIsOpen
  <2>2. DOMAIN app = Procs /\ BacksUpWhatIsOpen(i)
    BY <1>3 DEF TypeOK, AppTyped, UseInv
  <2>3. ASSUME app'[i].op \notin BackupOps PROVE BacksUpWhatIsOpen(i)'
    BY <2>3 DEF BacksUpWhatIsOpen
  <2>4. ASSUME Done(i) PROVE BacksUpWhatIsOpen(i)'
    BY <1>3, <2>3, <2>4, DoneFields
  <2>5. ASSUME NEW op \in Ops \ BackupOps, Go(i, op) PROVE BacksUpWhatIsOpen(i)'
    BY <1>3, <2>3, <2>5, GoFields
  <2>6. ASSUME Start(i) PROVE BacksUpWhatIsOpen(i)'
    <3>1. ASSUME NEW op \in {"create", "change"}, NEW d \in Dirs, NEW n,
                 app' = [app EXCEPT ![i] = Writing(op, d, n)]
          PROVE  BacksUpWhatIsOpen(i)'
      BY <2>2, <2>3, <3>1 DEF Writing
    <3>2. ASSUME NEW e \in Dirs, StartBackup(i, e) PROVE BacksUpWhatIsOpen(i)'
      BY <2>2, <3>2 DEF StartBackup, BacksUpWhatIsOpen
    <3>3. ASSUME app' = app, At(i, "idle") PROVE BacksUpWhatIsOpen(i)'
      BY <2>3, <3>3 DEF At
    <3> QED
      BY <2>6, <3>1, <3>2, <3>3 DEF Start, StartCreate, OpenShell, Edit, LockShell, StartChange
  <2>7. ASSUME TruncateDb(i) \/ FillDb(i) \/ TruncateMeta(i) PROVE BacksUpWhatIsOpen(i)'
    <3>1. app'[i].dir = app[i].dir /\ open' = open /\ app[i].op \in BackupOps
      BY <1>3, <2>7, GoFields DEF TruncateDb, FillDb, TruncateMeta, At
    <3> QED
      BY <2>2, <3>1 DEF BacksUpWhatIsOpen
  <2>8. ASSUME \/ WriteTmp(i) \/ RenameTmp(i) \/ CreateDb(i) \/ CreateSchema(i)
               \/ FillMeta(i) \/ Fails(i) \/ Crash(i)
        PROVE  BacksUpWhatIsOpen(i)'
    BY <2>4, <2>5, <2>8 DEF WriteTmp, RenameTmp, CreateDb, CreateSchema, FillMeta, Fails, Crash,
       Ops
  <2> QED
    BY <1>2, <2>1, <2>6, <2>7, <2>8 DEF Step, Continue
<1> QED
  BY <1>5, <1>6

(* A Shell that a program has open is never lost: until a backup is written *)
(* over it, its files stay a pair that opens, under the data key that the   *)
(* program holds, through edits, changes of password, crashes and backups   *)
(* elsewhere.                                                               *)
THEOREM OpenShellsStay == TurnsSpec => [](\A i \in Procs : OpenShellStays(i))
<1>1. Init => TurnsInv /\ UseInv
  <2>1. ASSUME Init PROVE UseInv
    BY <2>1 DEF Init, Idle, UseInv, OpenShellStays, BacksUpWhatIsOpen, BackupOps
  <2> QED
    BY <2>1, TurnsInit
<1>2. TurnsInv /\ UseInv /\ [TurnsNext]_vars => TurnsInv' /\ UseInv'
  BY TurnsStep, UseStep
<1>3. UseInv => \A i \in Procs : OpenShellStays(i)
  BY DEF UseInv
<1> QED
  BY <1>1, <1>2, <1>3, PTL DEF TurnsSpec

(* Only a backup onto itself costs a Shell: one into any other directory    *)
(* keeps its source, at every step and if it fails at any.                  *)
THEOREM BackupsElsewhereKeepSource == TurnsSpec => [](\A i \in Procs : SourceStays(i))
<1>1. Init => TurnsInv /\ UseInv
  <2>1. ASSUME Init PROVE UseInv
    BY <2>1 DEF Init, Idle, UseInv, OpenShellStays, BacksUpWhatIsOpen, BackupOps
  <2> QED
    BY <2>1, TurnsInit
<1>2. TurnsInv /\ UseInv /\ [TurnsNext]_vars => TurnsInv' /\ UseInv'
  BY TurnsStep, UseStep
<1>3. UseInv => \A i \in Procs : SourceStays(i)
  BY DEF UseInv, OpenShellStays, BacksUpWhatIsOpen, SourceStays
<1> QED
  BY <1>1, <1>2, <1>3, PTL DEF TurnsSpec

-----------------------------------------------------------------------------
(* Programs that do not take turns *)

CreatesIn(i, d) == app[i].op \in CreateOps /\ app[i].dir = d

\* Only a create has its directory to itself: none enters or changes a
\* directory that another creates a Shell in, and none creates one in a
\* directory that another's operation is inside.  All else is as it comes.
CreatesAlone(i) ==
  \A j \in Procs \ {i} : \A d \in Dirs :
    /\ CreatesIn(j, d) => d \notin Inside(i)' /\ db'[d] = db[d] /\ meta'[d] = meta[d]
    /\ d \in Inside(j) => ~CreatesIn(i, d)'

AloneNext == \E i \in Procs : Step(i) /\ CreatesAlone(i)

AloneSpec == Init /\ [][AloneNext]_vars

FitInv == TypeOK /\ Restartable /\ \A i \in Procs : FilesFit(i)

\* A Shell that opens goes on doing so, under the same data key.
ShellsSurvive ==
  [][\A d \in Dirs : d \notin targets' /\ Opens(d) => Opens(d)' /\ meta'[d].key = meta[d].key]_vars

LEMMA OwnFits ==
  ASSUME NEW i \in Procs, TypeOK, FilesFit(i), Step(i)
  PROVE  FilesFit(i)'
<1> USE DEF ChangeOps, BackupOps, CreateOps
<1>1. /\ DOMAIN app = Procs
      /\ db \in [Dirs -> Database \union {None, Zero, Torn}]
      /\ meta \in [Dirs -> Sidecar \union {None, Torn}]
      /\ ~At(i, "idle") => app[i].dir \in Dirs
      /\ app[i].op \in CreateOps \union ChangeOps => app[i].new \in Sidecar
  BY DEF TypeOK, AppTyped
<1>2. ASSUME app'[i].op = "idle" PROVE FilesFit(i)'
  BY <1>2 DEF FilesFit
<1>3. ASSUME Done(i) PROVE FilesFit(i)'
  BY <1>2, <1>3, DoneFields
<1>4. ASSUME NEW d \in Dirs, NEW k \in DataKeys, NEW s \in Chosen, StartCreate(i, d, k, s)
      PROVE  FilesFit(i)'
  <2> DEFINE a == Writing("create", d, [key |-> k, slots |-> s])
  <2>1. app'[i] = a /\ UNCHANGED <<files, targets>> /\ db[d] = None
    BY <1>1, <1>4 DEF StartCreate
  <2>2. a.op = "create" /\ a.dir = d
    BY DEF Writing
  <2> HIDE DEF a
  <2> QED
    BY <2>1, <2>2 DEF FilesFit, files
<1>5. ASSUME app' = app, At(i, "idle") PROVE FilesFit(i)'
  BY <1>2, <1>5 DEF At
<1>6. ASSUME NEW d \in Dirs, NEW known \in Passwords, NEW password \in Passwords,
             NEW slot \in Slots, StartChange(i, d, known, slot, password)
      PROVE  FilesFit(i)'
  <2> DEFINE a == Writing("change", d, WithSlot(meta[d], slot, password))
  <2>1. app'[i] = a /\ UNCHANGED <<files, targets>> /\ meta[d] \in Sidecar
    BY <1>1, <1>6 DEF StartChange
  <2>2. a.op = "change" /\ a.dir = d /\ a.new = WithSlot(meta[d], slot, password)
    BY DEF Writing
  <2>3. WithSlot(meta[d], slot, password).key = meta[d].key
    BY <2>1, WithSlotFields
  <2> HIDE DEF a
  <2> QED
    BY <2>1, <2>2, <2>3 DEF FilesFit, files
<1>7. ASSUME NEW e \in Dirs, StartBackup(i, e) PROVE FilesFit(i)'
  <2>1. app'[i].op = "truncDb"
    BY <1>1, <1>7 DEF StartBackup
  <2> QED
    BY <2>1 DEF FilesFit
<1>8. ASSUME WriteTmp(i) PROVE FilesFit(i)'
  <2>1. PICK op \in {"created", "changed"} :
          /\ Go(i, op)
          /\ op = "created" <=> app[i].op = "create"
          /\ op = "changed" <=> app[i].op = "change"
    BY <1>8 DEF WriteTmp, At
  <2>2. UNCHANGED <<files, targets>>
    BY <1>8 DEF WriteTmp
  <2>3. /\ app'[i].op = op /\ app'[i].dir = app[i].dir
        /\ app'[i].dest = app[i].dest /\ app'[i].new = app[i].new
    BY <2>1, GoFields
  <2> QED
    BY <2>1, <2>2, <2>3 DEF FilesFit, files
<1>9. ASSUME RenameTmp(i) PROVE FilesFit(i)'
  <2>1. CASE At(i, "created")
    <3>1. meta'[app[i].dir] = app[i].new /\ db' = db /\ Go(i, "createDb")
      BY <1>1, <1>9, <2>1 DEF RenameTmp, At
    <3> QED
      BY <2>1, <3>1, GoFields DEF FilesFit, At
  <2>2. CASE ~At(i, "created")
    BY <1>3, <1>9, <2>2 DEF RenameTmp
  <2> QED
    BY <2>1, <2>2
<1>10. ASSUME CreateDb(i) PROVE FilesFit(i)'
  <2>1. /\ meta[app[i].dir] = app[i].new /\ meta' = meta
        /\ db'[app[i].dir] = Zero /\ Go(i, "schema")
    BY <1>1, <1>10 DEF CreateDb, At, FilesFit
  <2> QED
    BY <2>1, GoFields DEF FilesFit
<1>11. ASSUME TruncateDb(i) \/ FillDb(i) \/ TruncateMeta(i) PROVE FilesFit(i)'
  <2>1. PICK op \in {"fillDb", "truncMeta", "fillMeta"} : Go(i, op) /\ app[i].dest \in targets'
    BY <1>11 DEF TruncateDb, FillDb, TruncateMeta, At, FilesFit
  <2> QED
    BY <2>1, GoFields DEF FilesFit
<1> QED
  BY <1>3, <1>4, <1>5, <1>6, <1>7, <1>8, <1>9, <1>10, <1>11 DEF Step, Start,
     Continue, OpenShell, Edit, LockShell, CreateSchema, FillMeta, Fails, Crash

LEMMA OthersFit ==
  ASSUME NEW i \in Procs, NEW j \in Procs, j # i, TypeOK, Step(i), CreatesAlone(i),
         FilesFit(i), FilesFit(j)
  PROVE  FilesFit(j)'
<1> DEFINE d == app[j].dir
<1>1. app'[j] = app[j] /\ targets \subseteq targets'
  BY OthersStay
<1>2. /\ db \in [Dirs -> Database \union {None, Zero, Torn}]
      /\ meta \in [Dirs -> Sidecar \union {None, Torn}]
      /\ app[i].op \in BackupOps => app[i].dest \in Dirs
      /\ ~At(i, "idle") => app[i].dir \in Dirs
      /\ app[i].op \in ChangeOps => app[i].new \in Sidecar
      /\ ~At(j, "idle") => d \in Dirs
  BY DEF TypeOK, AppTyped
<1>3. None \notin Dirs
  BY NoneAssumption
<1>4. CASE app[j].op \in CreateOps
  <2>1. d \in Dirs /\ db'[d] = db[d] /\ meta'[d] = meta[d]
    BY <1>2, <1>4 DEF CreatesAlone, CreatesIn, At, CreateOps
  <2> QED
    BY <1>1, <1>4, <2>1 DEF FilesFit, CreateOps, ChangeOps, BackupOps
<1>5. CASE app[j].op \in ChangeOps
  <2>1. d \in Dirs /\ d \in Inside(j)
    BY <1>2, <1>3, <1>5 DEF At, ChangeOps, Inside
  <2>2. SUFFICES ASSUME d \notin targets'
                 PROVE  meta'[d] \in Sidecar /\ meta'[d].key = app[j].new.key
    BY <1>1, <1>5 DEF FilesFit, CreateOps, ChangeOps, BackupOps
  <2>3. meta[d] \in Sidecar /\ meta[d].key = app[j].new.key
    BY <1>1, <1>5, <2>2 DEF FilesFit
  <2>4. SUFFICES ASSUME meta'[d] # meta[d]
                 PROVE  meta'[d] \in Sidecar /\ meta'[d].key = app[j].new.key
    BY <2>3
  <2>5. ~(TruncateMeta(i) \/ FillMeta(i))
    BY <1>1, <1>2, <2>1, <2>2, <2>4 DEF TruncateMeta, FillMeta, At, FilesFit, BackupOps
  <2>6. RenameTmp(i)
    BY <2>4, <2>5 DEF Step, Start, Continue, files, StartCreate, OpenShell, Edit, LockShell,
       StartChange, StartBackup, WriteTmp, CreateDb, CreateSchema, TruncateDb, FillDb, Fails, Crash
  <2>7. app[i].dir = d /\ meta'[d] = app[i].new
    BY <1>2, <2>1, <2>4, <2>6 DEF RenameTmp, At
  <2>8. CASE At(i, "created")
    <3>1. PICK c \in Dirs : c = d
      BY <2>1
    <3>2. app'[i].op = "createDb" /\ app'[i].dir = c
      BY <2>6, <2>7, <2>8, <3>1, GoFields DEF RenameTmp
    <3>3. CreatesIn(i, c)'
      BY <3>2 DEF CreatesIn, CreateOps
    <3> QED
      BY <2>1, <3>1, <3>3 DEF CreatesAlone
  <2>9. CASE At(i, "changed")
    BY <1>1, <1>2, <2>2, <2>3, <2>7, <2>9 DEF FilesFit, At, ChangeOps
  <2> QED
    BY <2>6, <2>8, <2>9 DEF RenameTmp, At
<1>6. CASE app[j].op \notin CreateOps \union ChangeOps
  BY <1>1, <1>6 DEF FilesFit, CreateOps, ChangeOps
<1> QED
  BY <1>4, <1>5, <1>6

LEMMA FitStep ==
  ASSUME FitInv, [AloneNext]_vars
  PROVE  FitInv'
<1>1. ASSUME UNCHANGED vars PROVE FitInv'
  <2>1. TypeOK'
    BY <1>1, TypeInductive DEF FitInv
  <2>2. UNCHANGED <<db, meta, app, targets>>
    BY <1>1 DEF vars, files
  <2> QED
    BY <2>1, <2>2 DEF FitInv, Restartable, CanOpen, Opens, FilesFit
<1>2. SUFFICES ASSUME NEW i \in Procs, Step(i), CreatesAlone(i)
               PROVE  FitInv'
  BY <1>1 DEF AloneNext
<1>3. TypeOK'
  BY <1>2, TypeInductive DEF FitInv, Step, Next
<1>4. Restartable'
  BY <1>2, RestartableStep DEF FitInv
<1>5. FilesFit(i)'
  BY <1>2, OwnFits DEF FitInv
<1>6. \A j \in Procs : j # i => FilesFit(j)'
  BY <1>2, OthersFit DEF FitInv
<1> QED
  BY <1>3, <1>4, <1>5, <1>6 DEF FitInv

LEMMA FitInit ==
  ASSUME Init PROVE FitInv
<1>1. TypeOK /\ Restartable
  BY TurnsInit DEF TurnsInv
<1>2. \A i \in Procs : FilesFit(i)
  BY DEF Init, Idle, FilesFit, ChangeOps, BackupOps
<1> QED
  BY <1>1, <1>2 DEF FitInv

(* Two programs may change passwords, edit and back up the same Shell at     *)
(* once, and die at any step of it: no Shell is lost, as long as only one    *)
(* program at a time creates a Shell in a directory.                        *)
THEOREM OnlyCreatesNeedTurns == AloneSpec => []Restartable
<1>1. FitInv => Restartable
  BY DEF FitInv
<1> QED
  BY <1>1, FitInit, FitStep, PTL DEF AloneSpec

(* And each Shell keeps its data key: of two changes of password at once one *)
(* may be undone, but what the passwords unwrap is never another key.       *)
THEOREM DataKeysStay == AloneSpec => ShellsSurvive
<1>1. FitInv /\ [AloneNext]_vars =>
        [\A d \in Dirs : d \notin targets' /\ Opens(d) =>
                           Opens(d)' /\ meta'[d].key = meta[d].key]_vars
  BY ShellSurvives DEF FitInv, AloneNext
<1> QED
  BY <1>1, FitInit, FitStep, PTL DEF AloneSpec, ShellsSurvive

(* Programs that take turns are a special case.                             *)
THEOREM TurnsLeaveCreatesAlone == TurnsSpec => AloneSpec
<1>1. ASSUME TypeOK, TypeOK', NEW i \in Procs, TakesTurns(i) PROVE CreatesAlone(i)
  <2>1. None \notin Dirs
    BY NoneAssumption
  <2>2. SUFFICES ASSUME NEW j \in Procs \ {i}, NEW d \in Dirs
                 PROVE  /\ CreatesIn(j, d) =>
                             d \notin Inside(i)' /\ db'[d] = db[d] /\ meta'[d] = meta[d]
                        /\ d \in Inside(j) => ~CreatesIn(i, d)'
    BY DEF CreatesAlone
  <2>3. CreatesIn(j, d) => d \in Inside(j)
    BY <2>1 DEF CreatesIn, CreateOps, Inside, At
  <2>4. CreatesIn(i, d)' => d \in Inside(i)'
    BY <2>1 DEF CreatesIn, CreateOps, Inside, At
  <2> QED
    BY <1>1, <2>3, <2>4 DEF TakesTurns
<1>2. TypeOK /\ TypeOK' /\ [TurnsNext]_vars => [AloneNext]_vars
  BY <1>1 DEF TurnsNext, AloneNext, Step
<1>3. TurnsInv => TypeOK
  BY DEF TurnsInv
<1> QED
  BY <1>2, <1>3, TurnsInit, TurnsStep, PTL DEF TurnsSpec, AloneSpec

-----------------------------------------------------------------------------
(* One program *)

(* A program that is alone takes turns with nobody: everything above holds  *)
(* of it, whatever it does and wherever it dies.                            *)
THEOREM OneProgramTakesTurns ==
  ASSUME NEW i, Procs = {i} PROVE Spec => TurnsSpec
<1>1. [Next]_vars => [TurnsNext]_vars
  BY DEF Next, TurnsNext, TakesTurns
<1> QED
  BY <1>1, PTL DEF Spec, TurnsSpec

=============================================================================
