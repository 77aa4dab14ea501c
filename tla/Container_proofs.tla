--------------------------- MODULE Container_proofs ---------------------------
(***************************************************************************)
(* Proofs about Container, for any number of paths, passwords, salts and    *)
(* changes of rows: wherever create, an export, a backup or the program     *)
(* dies, no container is stranded and none loses its password; finished     *)
(* exports and backups open; and the files implement ContainerStore.        *)
(***************************************************************************)
EXTENDS Container, TLAPS

-----------------------------------------------------------------------------
(* Types *)

LEMMA FilledTyped ==
  ASSUME TypeOK, NEW d \in Dirs, NEW w \in Passwords, NEW s \in Salts, Fill(d, w, s)
  PROVE  /\ db' \in [Dirs -> Database \union {None, Zero, Torn}]
         /\ db'[d] = [data |-> 0, password |-> w, salt |-> s]
         /\ db'[d] \in Database
         /\ \A e \in Dirs : e # d => db'[e] = db[e]
<1>1. [data |-> 0, password |-> w, salt |-> s] \in Database
  BY MaxDataAssumption DEF Database
<1> QED
  BY <1>1 DEF Fill, TypeOK

LEMMA PromiseTyped ==
  ASSUME TypeOK, NEW d \in Dirs, NEW w \in Passwords, Promise(d, w)
  PROVE  /\ promised' \in [Dirs -> Passwords \union {None}]
         /\ promised'[d] = IF promised[d] = None THEN w ELSE promised[d]
         /\ \A e \in Dirs : e # d => promised'[e] = promised[e]
BY DEF Promise, TypeOK

(* An operation that goes on keeps what it works on. *)
LEMMA GoKeeps ==
  ASSUME TypeOK, NEW step \in Makes \union Backups, Go(step)
  PROVE  /\ app' \in App /\ app'.at = step
         /\ app'.dir = app.dir /\ app'.new = app.new /\ app'.export = app.export
BY DEF TypeOK, Go, App

LEMMA DoneIdle ==
  ASSUME Done
  PROVE  app' = Idle /\ Idle \in App /\ Idle.at = "idle" /\ Idle.at \notin Makes \union Backups
BY DEF Done, Idle, App, Makes, Backups

LEMMA TypeInit == Init => TypeOK
<1> SUFFICES ASSUME Init PROVE TypeOK
  OBVIOUS
<1>1. Idle \in App /\ Idle.at = "idle"
  BY DEF Idle, App
<1>2. zone \in Zone
  BY MaxDataAssumption DEF Init, Seal, Zone
<1> QED
  BY <1>1, <1>2 DEF Init, TypeOK, Makes, Backups

LEMMA TypeStep == TypeOK /\ Ground /\ [Next]_vars => TypeOK'
<1> SUFFICES ASSUME TypeOK, Ground, [Next]_vars PROVE TypeOK'
  OBVIOUS
<1> USE DEF TypeOK
<1>1. CASE UNCHANGED vars
  BY <1>1 DEF vars
<1>2. ASSUME NEW d \in Dirs, NEW export \in BOOLEAN, NEW w \in Passwords, NEW n \in 0..MaxData,
             NEW s \in Salts, Start(d, export, w, n, s)
      PROVE  TypeOK'
  <2>1. [data |-> n, password |-> w, salt |-> s] \in Database
    BY DEF Database
  <2>2. /\ app' \in App /\ app'.at = "salt" /\ app'.dir = d
        /\ app'.new = [data |-> n, password |-> w, salt |-> s]
    BY <1>2, <2>1 DEF Start, App, Makes
  <2> QED
    BY <1>2, <2>1, <2>2 DEF Start, files, history, Makes, Backups
<1>3. ASSUME NEW d \in Dirs, NEW w \in Passwords, NEW s \in Salts, StartCreate(d, w, s) PROVE TypeOK'
  <2>1. 0 \in 0..MaxData
    BY MaxDataAssumption
  <2> QED
    BY <1>2, <1>3, <2>1 DEF StartCreate
<1>4. ASSUME NEW d \in Dirs, NEW w \in Passwords, NEW s \in Salts, StartExport(d, w, s) PROVE TypeOK'
  BY <1>2, <1>4 DEF StartExport, Zone
<1>5. CASE WriteTmp
  BY <1>5, GoKeeps DEF WriteTmp, files, history, Makes, Backups
<1>6. CASE RenameTmp
  <2>1. app.new.salt \in Salts
    BY <1>6 DEF RenameTmp, Makes, Database
  <2> QED
    BY <1>6, <2>1, GoKeeps DEF RenameTmp, history, Makes, Backups
<1>7. CASE CreateDb
  BY <1>7, GoKeeps DEF CreateDb, history, Makes, Backups
<1>8. CASE CreateSchema
  <2>1. app.dir \in Dirs /\ app.new \in Database
    BY <1>8 DEF CreateSchema, Makes
  <2>2. app.new.password \in Passwords /\ app.new.salt \in Salts
    BY <2>1 DEF Database
  <2>3. db' \in [Dirs -> Database \union {None, Zero, Torn}]
    BY <1>8, <2>1, <2>2, FilledTyped DEF CreateSchema
  <2>4. CASE app.export
    <3>1. app' \in App /\ app'.at = "rows" /\ app'.dir = app.dir /\ app'.new = app.new
      BY <1>8, <2>4, GoKeeps DEF CreateSchema, Makes
    <3>2. UNCHANGED <<meta, zone, open, targets, promised>>
      BY <1>8, <2>4 DEF CreateSchema
    <3> QED
      BY <2>1, <2>3, <3>1, <3>2 DEF Makes, Backups
  <2>5. CASE ~app.export
    BY <1>8, <2>1, <2>2, <2>3, <2>5, DoneIdle, PromiseTyped DEF CreateSchema, Handle
  <2> QED
    BY <2>4, <2>5
<1>9. CASE CopyRows
  <2>1. app.dir \in Dirs /\ app.new \in Database /\ db[app.dir] = [app.new EXCEPT !.data = 0]
    BY <1>9 DEF CopyRows, Makes, Ground
  <2>2. [db[app.dir] EXCEPT !.data = app.new.data] \in Database
    BY <2>1 DEF Database
  <2>3. db' \in [Dirs -> Database \union {None, Zero, Torn}]
    BY <1>9, <2>1, <2>2 DEF CopyRows
  <2> QED
    BY <1>9, <2>1, <2>3, GoKeeps DEF CopyRows, history, Makes, Backups
<1>10. CASE Detach
  <2>1. app.dir \in Dirs /\ app.new.password \in Passwords
    BY <1>10 DEF Detach, Makes, Database
  <2> QED
    BY <1>10, <2>1, DoneIdle, PromiseTyped DEF Detach, files
<1>11. ASSUME NEW d \in Dirs, NEW w \in Passwords, OpenContainer(d, w) PROVE TypeOK'
  <2>1. meta[d] \in Salts
    BY <1>11 DEF OpenContainer, Loads
  <2>2. db' \in [Dirs -> Database \union {None, Zero, Torn}]
    BY <1>11, <2>1, FilledTyped DEF OpenContainer
  <2>3. open' \in Handle /\ app' = Idle /\ Idle \in App /\ Idle.at = "idle"
    BY <1>11, <2>1 DEF OpenContainer, Handle, Idle, App
  <2>4. promised' \in [Dirs -> Passwords \union {None}]
    BY <1>11, PromiseTyped DEF OpenContainer
  <2> QED
    BY <1>11, <2>2, <2>3, <2>4 DEF OpenContainer, Makes, Backups
<1>12. CASE Edit
  <2>1. open \in Handle /\ open.dir \in Dirs
    BY <1>12 DEF Edit, Handle
  <2>2. /\ db[open.dir] \in Database /\ db[open.dir].data < MaxData
        /\ db' = [db EXCEPT ![open.dir].data = @ + 1]
    BY <1>12 DEF Edit
  <2>3. [db[open.dir] EXCEPT !.data = @ + 1] \in Database
    BY <2>2, MaxDataAssumption DEF Database
  <2>4. db' \in [Dirs -> Database \union {None, Zero, Torn}]
    BY <2>1, <2>2, <2>3
  <2> QED
    BY <1>12, <2>4 DEF Edit, history
<1>13. CASE Close
  <2>1. app' = app /\ app.at = "idle" /\ open' = None
    BY <1>13 DEF Close, Idle
  <2> QED
    BY <1>13, <2>1 DEF Close, files, history, Makes, Backups
<1>14. CASE SaveZone
  <2>1. zone' \in Zone
    BY <1>14, MaxDataAssumption DEF SaveZone, Seal, Zone
  <2> QED
    BY <1>14, <2>1 DEF SaveZone, files, history
<1>15. ASSUME NEW known \in Passwords, NEW w \in Passwords, ChangeZonePassword(known, w) PROVE TypeOK'
  <2>1. zone' \in Zone
    BY <1>15 DEF ChangeZonePassword, Seal, Zone
  <2> QED
    BY <1>15, <2>1 DEF ChangeZonePassword, files, history
<1>16. ASSUME NEW e \in Dirs, StartBackup(e) PROVE TypeOK'
  <2>1. app' \in App /\ app'.at = "truncDb" /\ app'.dir = e
    BY <1>16 DEF StartBackup, App, Backups
  <2> QED
    BY <1>16, <2>1 DEF StartBackup, files, history, Makes, Backups
<1>17. CASE TruncateDb
  <2>1. open \in Handle /\ Source \in Dirs /\ app.dir \in Dirs
    BY <1>17 DEF TruncateDb, Backups, Source, Handle
  <2>2. db' \in [Dirs -> Database \union {None, Zero, Torn}]
    BY <1>17, <2>1 DEF TruncateDb
  <2> QED
    BY <1>17, <2>1, <2>2, GoKeeps DEF TruncateDb, Makes, Backups
<1>18. CASE FillDb
  <2>1. open \in Handle /\ Source \in Dirs /\ app.dir \in Dirs
    BY <1>18 DEF FillDb, Backups, Source, Handle
  <2>2. db' \in [Dirs -> Database \union {None, Zero, Torn}]
    BY <1>18, <2>1 DEF FillDb
  <2> QED
    BY <1>18, <2>1, <2>2, GoKeeps DEF FillDb, history, Makes, Backups
<1>19. CASE TruncateMeta
  <2>1. open \in Handle /\ app.dir \in Dirs
    BY <1>19 DEF TruncateMeta, Backups
  <2>2. meta' \in [Dirs -> Salts \union {None, Torn}]
    BY <1>19, <2>1 DEF TruncateMeta
  <2> QED
    BY <1>19, <2>1, <2>2, GoKeeps DEF TruncateMeta, history, Makes, Backups
<1>20. CASE FillMeta
  <2>1. open \in Handle /\ Source \in Dirs /\ app.dir \in Dirs
    BY <1>20 DEF FillMeta, Backups, Source, Handle
  <2>2. meta' \in [Dirs -> Salts \union {None, Torn}]
    BY <1>20, <2>1 DEF FillMeta
  <2> QED
    BY <1>20, <2>1, <2>2, DoneIdle DEF FillMeta, history
<1>21. CASE Fails
  BY <1>21, DoneIdle DEF Fails, files, history
<1>22. CASE Crash
  BY <1>22, DoneIdle DEF Crash, files, history
<1> QED
  BY <1>1, <1>3, <1>4, <1>5, <1>6, <1>7, <1>8, <1>9, <1>10, <1>11, <1>12, <1>13, <1>14, <1>15,
     <1>16, <1>17, <1>18, <1>19, <1>20, <1>21, <1>22 DEF Next, User, Continue

-----------------------------------------------------------------------------
(* The inductive invariant *)

LEMMA Names ==
  ASSUME TypeOK
  PROVE  /\ None # Zero /\ None # Torn /\ Zero # Torn
         /\ None \notin Database \union Salts \union Passwords \union Dirs \union Handle
         /\ Zero \notin Database \union Salts /\ Torn \notin Database \union Salts
BY FilesAssumption

LEMMA InvariantInit == Init => IInv
<1> SUFFICES ASSUME Init PROVE IInv
  OBVIOUS
<1>1. TypeOK
  BY TypeInit
<1>2. Idle.at = "idle" /\ app = Idle
  BY DEF Init, Idle
<1>3. Ground
  BY <1>2 DEF Ground, Makes, Backups
<1>4. NeverStranded /\ PromiseKept
  BY DEF Init, NeverStranded, PromiseKept
<1> QED
  BY <1>1, <1>3, <1>4 DEF IInv

(* A path without a database has never been promised anything. *)
LEMMA NothingPromised ==
  ASSUME IInv, NEW d \in Dirs, db[d] = None
  PROVE  promised[d] = None \/ d \in targets
BY Names DEF IInv, PromiseKept, Opens

LEMMA GroundStep == IInv /\ [Next]_vars => Ground'
<1> SUFFICES ASSUME IInv, [Next]_vars PROVE Ground'
  OBVIOUS
<1>0. TypeOK /\ Ground
  BY DEF IInv
<1>1. ASSUME app' = Idle PROVE Ground'
  BY <1>1 DEF Ground, Idle, Makes, Backups
<1>2. CASE UNCHANGED vars
  BY <1>0, <1>2 DEF vars, Ground, Source
<1>3. ASSUME NEW d \in Dirs, NEW export \in BOOLEAN, NEW w \in Passwords, NEW n \in 0..MaxData,
             NEW s \in Salts, Start(d, export, w, n, s), export => zone = Seal(n, w)
      PROVE  Ground'
  <2>1. /\ app'.at = "salt" /\ app'.dir = d /\ app'.export = export
        /\ app'.new.data = n /\ app'.new.password = w
    BY <1>3 DEF Start
  <2>2. promised[d] = None \/ d \in targets
    BY <1>3, NothingPromised DEF Start
  <2>3. app'.export => zone' = Seal(app'.new.data, app'.new.password)
    BY <1>3, <2>1 DEF Start
  <2> QED
    BY <1>3, <2>1, <2>2, <2>3 DEF Start, files, history, Ground, Backups
<1>4. ASSUME NEW d \in Dirs, NEW w \in Passwords, NEW s \in Salts,
             StartCreate(d, w, s) \/ StartExport(d, w, s)
      PROVE  Ground'
  <2>1. 0 \in 0..MaxData
    BY MaxDataAssumption
  <2>2. CASE StartCreate(d, w, s)
    BY <1>3, <2>1, <2>2 DEF StartCreate
  <2>3. CASE StartExport(d, w, s)
    <3>1. zone.data \in 0..MaxData /\ zone = Seal(zone.data, w)
      BY <1>0, <2>3 DEF StartExport, Decrypts, TypeOK, Zone, Seal
    <3> QED
      BY <1>3, <2>3, <3>1 DEF StartExport
  <2> QED
    BY <1>4, <2>2, <2>3
<1>5. ASSUME WriteTmp PROVE Ground'
  <2>1. app'.at = "tmp" /\ app'.dir = app.dir /\ app'.new = app.new /\ app'.export = app.export
    BY <1>0, <1>5, GoKeeps DEF WriteTmp, Makes
  <2> QED
    BY <1>0, <1>5, <2>1 DEF WriteTmp, files, history, Ground, Makes, Backups
<1>6. ASSUME RenameTmp PROVE Ground'
  <2>1. app'.at = "sidecar" /\ app'.dir = app.dir /\ app'.new = app.new /\ app'.export = app.export
    BY <1>0, <1>6, GoKeeps DEF RenameTmp, Makes
  <2>2. meta'[app.dir] = app.new.salt
    BY <1>0, <1>6 DEF RenameTmp, TypeOK, Makes
  <2> QED
    BY <1>0, <1>6, <2>1, <2>2 DEF RenameTmp, history, Ground, Makes, Backups
<1>7. ASSUME CreateDb PROVE Ground'
  <2>1. app'.at = "empty" /\ app'.dir = app.dir /\ app'.new = app.new /\ app'.export = app.export
    BY <1>0, <1>7, GoKeeps DEF CreateDb, Makes
  <2>2. db'[app.dir] = Zero
    BY <1>0, <1>7 DEF CreateDb, Ground, TypeOK, Makes
  <2> QED
    BY <1>0, <1>7, <2>1, <2>2 DEF CreateDb, history, Ground, Makes, Backups
<1>8. ASSUME CreateSchema PROVE Ground'
  <2>1. CASE app.export
    <3>1. app'.at = "rows" /\ app'.dir = app.dir /\ app'.new = app.new /\ app'.export = app.export
      BY <1>0, <1>8, <2>1, GoKeeps DEF CreateSchema, Makes
    <3>2. app.dir \in Dirs /\ app.new \in Database
      BY <1>0, <1>8 DEF CreateSchema, TypeOK, Makes
    <3>3. db'[app.dir] = [data |-> 0, password |-> app.new.password, salt |-> app.new.salt]
      BY <1>0, <1>8, <3>2 DEF CreateSchema, Fill, TypeOK
    <3>4. db'[app.dir] = [app.new EXCEPT !.data = 0]
      BY <3>2, <3>3 DEF Database
    <3> QED
      BY <1>0, <1>8, <2>1, <3>1, <3>4 DEF CreateSchema, Ground, Makes, Backups
  <2>2. CASE ~app.export
    BY <1>1, <1>8, <2>2 DEF CreateSchema, Done
  <2> QED
    BY <2>1, <2>2
<1>9. ASSUME CopyRows PROVE Ground'
  <2>1. app'.at = "detach" /\ app'.dir = app.dir /\ app'.new = app.new /\ app'.export = app.export
    BY <1>0, <1>9, GoKeeps DEF CopyRows, Makes
  <2>2. app.dir \in Dirs /\ app.new \in Database /\ db[app.dir] = [app.new EXCEPT !.data = 0]
    BY <1>0, <1>9 DEF CopyRows, TypeOK, Makes, Ground
  <2>3. db'[app.dir] = [[app.new EXCEPT !.data = 0] EXCEPT !.data = app.new.data]
    BY <1>0, <1>9, <2>2 DEF CopyRows, TypeOK
  <2>4. db'[app.dir] = app.new /\ [app.new EXCEPT !.data = @] = app.new
    BY <2>2, <2>3 DEF Database
  <2> QED
    BY <1>0, <1>9, <2>1, <2>4 DEF CopyRows, history, Ground, Makes, Backups
<1>10. ASSUME Detach PROVE Ground'
  BY <1>1, <1>10 DEF Detach, Done
<1>11. ASSUME NEW d \in Dirs, NEW w \in Passwords, OpenContainer(d, w) PROVE Ground'
  BY <1>1, <1>11 DEF OpenContainer
<1>12. ASSUME Edit \/ Close \/ SaveZone PROVE Ground'
  BY <1>1, <1>12 DEF Edit, Close, SaveZone
<1>13. ASSUME NEW known \in Passwords, NEW w \in Passwords, ChangeZonePassword(known, w) PROVE Ground'
  BY <1>1, <1>13 DEF ChangeZonePassword
<1>14. ASSUME NEW e \in Dirs, StartBackup(e) PROVE Ground'
  <2>1. app'.at = "truncDb"
    BY <1>14 DEF StartBackup
  <2> QED
    BY <2>1 DEF Ground, Makes, Backups
<1>15. ASSUME TruncateDb PROVE Ground'
  <2>1. app'.at = "fillDb" /\ app'.dir = app.dir
    BY <1>0, <1>15, GoKeeps DEF TruncateDb, Backups
  <2> QED
    BY <1>15, <2>1 DEF TruncateDb, Ground, Makes, Backups
<1>16. ASSUME FillDb PROVE Ground'
  <2>1. app'.at = "truncMeta" /\ app'.dir = app.dir
    BY <1>0, <1>16, GoKeeps DEF FillDb, Backups
  <2>2. app.dir \in Dirs /\ Source \in Dirs /\ app.dir \in targets
    BY <1>0, <1>16 DEF FillDb, TypeOK, Backups, Source, Handle, Ground
  <2>3. db'[app.dir] = db'[Source] /\ Source' = Source
    BY <1>0, <1>16, <2>2 DEF FillDb, TypeOK, Source
  <2> QED
    BY <1>16, <2>1, <2>2, <2>3 DEF FillDb, history, Ground, Makes, Backups
<1>17. ASSUME TruncateMeta PROVE Ground'
  <2>1. app'.at = "fillMeta" /\ app'.dir = app.dir
    BY <1>0, <1>17, GoKeeps DEF TruncateMeta, Backups
  <2> QED
    BY <1>0, <1>17, <2>1 DEF TruncateMeta, history, Ground, Makes, Backups, Source
<1>18. ASSUME FillMeta \/ Fails \/ Crash PROVE Ground'
  BY <1>1, <1>18 DEF FillMeta, Fails, Crash, Done
<1> QED
  BY <1>2, <1>4, <1>5, <1>6, <1>7, <1>8, <1>9, <1>10, <1>11, <1>12, <1>13, <1>14, <1>15, <1>16,
     <1>17, <1>18 DEF Next, User, Continue

(* A step that changes one path at most is safe when that path is. *)
LEMMA OnePathSafe ==
  ASSUME NeverStranded, PromiseKept, NEW d \in Dirs, targets \subseteq targets',
         \A e \in Dirs : e # d => db'[e] = db[e] /\ meta'[e] = meta[e] /\ promised'[e] = promised[e],
         d \in targets' \/
           /\ db'[d] # None => Loads(d)' /\ (db'[d] = Zero \/ Opens(d)')
           /\ promised'[d] # None => Opens(d)' /\ db'[d].password = promised'[d]
  PROVE  (NeverStranded /\ PromiseKept)'
BY DEF NeverStranded, PromiseKept, Loads, Opens

LEMMA SafeStep == IInv /\ [Next]_vars => (NeverStranded /\ PromiseKept)'
<1> SUFFICES ASSUME IInv, [Next]_vars PROVE (NeverStranded /\ PromiseKept)'
  OBVIOUS
<1>0. TypeOK /\ Ground /\ NeverStranded /\ PromiseKept
  BY DEF IInv
<1>1. ASSUME UNCHANGED <<db, meta, targets, promised>> PROVE (NeverStranded /\ PromiseKept)'
  BY <1>0, <1>1 DEF NeverStranded, PromiseKept, Loads, Opens
<1>2. CASE UNCHANGED vars
  BY <1>1, <1>2 DEF vars
<1>3. ASSUME NEW d \in Dirs, NEW w \in Passwords, NEW s \in Salts,
             StartCreate(d, w, s) \/ StartExport(d, w, s)
      PROVE  (NeverStranded /\ PromiseKept)'
  BY <1>1, <1>3 DEF StartCreate, StartExport, Start, files, history
<1>4. ASSUME NEW d \in Dirs, d = app.dir, RenameTmp PROVE (NeverStranded /\ PromiseKept)'
  <2>1. db[d] = None /\ (promised[d] = None \/ d \in targets)
    BY <1>0, <1>4, NothingPromised DEF RenameTmp, Ground
  <2> QED
    BY <1>0, <1>4, <2>1, OnePathSafe DEF RenameTmp, history, TypeOK
<1>5. ASSUME NEW d \in Dirs, d = app.dir, CreateDb PROVE (NeverStranded /\ PromiseKept)'
  <2>1. db'[d] = Zero /\ meta'[d] = app.new.salt /\ app.new.salt \in Salts
    BY <1>0, <1>5 DEF CreateDb, Ground, TypeOK, Makes, Database
  <2>2. promised[d] = None \/ d \in targets
    BY <1>0, <1>5 DEF CreateDb, Ground, Makes
  <2> QED
    BY <1>0, <1>5, <2>1, <2>2, OnePathSafe DEF CreateDb, history, TypeOK, Loads
<1>6. ASSUME NEW d \in Dirs, NEW w \in Passwords, NEW s \in Salts, meta[d] = s, Fill(d, w, s),
             UNCHANGED <<meta, targets>>, promised[d] = None \/ d \in targets,
             UNCHANGED promised \/ Promise(d, w)
      PROVE  (NeverStranded /\ PromiseKept)'
  <2>1. /\ db'[d] = [data |-> 0, password |-> w, salt |-> s] /\ db'[d] \in Database
        /\ \A e \in Dirs : e # d => db'[e] = db[e]
    BY <1>0, <1>6, FilledTyped
  <2>2. Loads(d)' /\ Opens(d)'
    BY <1>6, <2>1 DEF Loads, Opens
  <2>3. /\ \A e \in Dirs : e # d => promised'[e] = promised[e]
        /\ promised[d] = None => promised'[d] \in {None, w}
    BY <1>0, <1>6, PromiseTyped
  <2> QED
    BY <1>0, <1>6, <2>1, <2>2, <2>3, OnePathSafe
<1>7. ASSUME CreateSchema PROVE (NeverStranded /\ PromiseKept)'
  <2>1. app.dir \in Dirs /\ app.new.password \in Passwords /\ app.new.salt \in Salts
    BY <1>0, <1>7 DEF CreateSchema, TypeOK, Makes, Database
  <2>2. meta[app.dir] = app.new.salt /\ (promised[app.dir] = None \/ app.dir \in targets)
    BY <1>0, <1>7 DEF CreateSchema, Ground, Makes
  <2> QED
    BY <1>6, <1>7, <2>1, <2>2 DEF CreateSchema
<1>8. ASSUME NEW d \in Dirs, NEW b \in Database, db[d] \in Database,
             b.password = db[d].password, b.salt = db[d].salt, db' = [db EXCEPT ![d] = b],
             UNCHANGED <<meta, targets, promised>>
      PROVE  (NeverStranded /\ PromiseKept)'
  <2>1. db'[d] = b /\ \A e \in Dirs : e # d => db'[e] = db[e]
    BY <1>0, <1>8 DEF TypeOK
  <2>2. Opens(d)' <=> Opens(d)
    BY <1>8, <2>1 DEF Opens
  <2> QED
    BY <1>0, <1>8, <2>1, <2>2, Names DEF NeverStranded, PromiseKept, Loads, Opens
<1>9. ASSUME CopyRows PROVE (NeverStranded /\ PromiseKept)'
  <2>1. /\ app.dir \in Dirs /\ app.new \in Database
        /\ db[app.dir] = [app.new EXCEPT !.data = 0] /\ db[app.dir] \in Database
    BY <1>0, <1>9, MaxDataAssumption DEF CopyRows, TypeOK, Makes, Ground, Database
  <2> DEFINE b == [db[app.dir] EXCEPT !.data = app.new.data]
  <2>2. b \in Database /\ b.password = db[app.dir].password /\ b.salt = db[app.dir].salt
    BY <2>1 DEF Database
  <2> QED
    BY <1>8, <1>9, <2>1, <2>2 DEF CopyRows, history
<1>10. ASSUME Edit PROVE (NeverStranded /\ PromiseKept)'
  <2>1. open.dir \in Dirs /\ db[open.dir] \in Database /\ db[open.dir].data < MaxData
    BY <1>0, <1>10 DEF Edit, TypeOK, Handle
  <2> DEFINE b == [db[open.dir] EXCEPT !.data = @ + 1]
  <2>2. b \in Database /\ b.password = db[open.dir].password /\ b.salt = db[open.dir].salt
    BY <2>1, MaxDataAssumption DEF Database
  <2> QED
    BY <1>8, <1>10, <2>1, <2>2 DEF Edit, history
<1>11. ASSUME NEW d \in Dirs, NEW w \in Passwords, Promise(d, w), Opens(d), db[d].password = w,
              UNCHANGED <<db, meta, targets>>
       PROVE  (NeverStranded /\ PromiseKept)'
  <2>1. /\ \A e \in Dirs : e # d => promised'[e] = promised[e]
        /\ promised'[d] = IF promised[d] = None THEN w ELSE promised[d]
    BY <1>0, <1>11, PromiseTyped
  <2> QED
    BY <1>0, <1>11, <2>1 DEF NeverStranded, PromiseKept, Loads, Opens
<1>12. ASSUME Detach PROVE (NeverStranded /\ PromiseKept)'
  <2>1. /\ app.dir \in Dirs /\ app.new \in Database /\ db[app.dir] = app.new
        /\ meta[app.dir] = app.new.salt /\ app.new.password \in Passwords
    BY <1>0, <1>12 DEF Detach, TypeOK, Makes, Ground, Database
  <2> QED
    BY <1>11, <1>12, <2>1 DEF Detach, files, Opens
<1>13. ASSUME NEW d \in Dirs, NEW w \in Passwords, OpenContainer(d, w)
       PROVE  (NeverStranded /\ PromiseKept)'
  <2>1. CASE db[d] = Zero
    <3>1. promised[d] = None \/ d \in targets
      BY <1>0, <2>1, Names DEF PromiseKept, Opens
    <3>2. meta[d] \in Salts /\ Fill(d, w, meta[d])
      BY <1>0, <1>13, <2>1, Names DEF OpenContainer, Loads, Opens
    <3> QED
      BY <1>6, <1>13, <3>1, <3>2 DEF OpenContainer
  <2>2. CASE db[d] # Zero
    BY <1>11, <1>13, <2>2 DEF OpenContainer
  <2> QED
    BY <2>1, <2>2
<1>14. ASSUME NEW d \in Dirs, d = app.dir, TruncateDb PROVE (NeverStranded /\ PromiseKept)'
  BY <1>0, <1>14, OnePathSafe DEF TruncateDb, TypeOK
<1>15. ASSUME NEW d \in Dirs, d = app.dir, FillDb \/ TruncateMeta \/ FillMeta
       PROVE  (NeverStranded /\ PromiseKept)'
  <2>1. d \in targets
    BY <1>0, <1>15 DEF Ground, FillDb, TruncateMeta, FillMeta, Backups
  <2> QED
    BY <1>0, <1>15, <2>1, OnePathSafe DEF FillDb, TruncateMeta, FillMeta, history, TypeOK
<1>16. ASSUME NEW known \in Passwords, NEW w \in Passwords, ChangeZonePassword(known, w)
       PROVE  (NeverStranded /\ PromiseKept)'
  BY <1>1, <1>16 DEF ChangeZonePassword, files, history
<1>17. ASSUME NEW e \in Dirs, StartBackup(e) PROVE (NeverStranded /\ PromiseKept)'
  BY <1>1, <1>17 DEF StartBackup, files, history
<1>18. ASSUME WriteTmp \/ Close \/ SaveZone \/ Fails \/ Crash PROVE (NeverStranded /\ PromiseKept)'
  BY <1>1, <1>18 DEF WriteTmp, Close, SaveZone, Fails, Crash, files, history
<1>19. RenameTmp \/ CreateDb \/ TruncateDb \/ FillDb \/ TruncateMeta \/ FillMeta => app.dir \in Dirs
  BY <1>0 DEF TypeOK, RenameTmp, CreateDb, TruncateDb, FillDb, TruncateMeta, FillMeta
<1> QED
  BY <1>2, <1>3, <1>4, <1>5, <1>7, <1>9, <1>10, <1>12, <1>13, <1>14, <1>15, <1>16, <1>17, <1>18,
     <1>19 DEF Next, User, Continue

LEMMA InvariantStep == IInv /\ [Next]_vars => IInv'
BY TypeStep, GroundStep, SafeStep DEF IInv

(* The inductive invariant holds, for any number of paths, passwords and salts. *)
THEOREM InvariantHolds == Spec => []IInv
<1>1. Init => IInv
  BY InvariantInit
<1>2. IInv /\ [Next]_vars => IInv'
  BY InvariantStep
<1> QED
  BY <1>1, <1>2, PTL DEF Spec

(* The types. *)
THEOREM TypeCorrect == Spec => []TypeOK
<1>1. IInv => TypeOK
  BY DEF IInv
<1> QED
  BY <1>1, InvariantHolds, PTL

(* Wherever create or an export dies, what is left opens or can be made again. *)
THEOREM NothingIsStranded == Spec => []NeverStranded
<1>1. IInv => NeverStranded
  BY DEF IInv
<1> QED
  BY <1>1, InvariantHolds, PTL

(* A container that was reported keeps its password for ever. *)
THEOREM PromisesAreKept == Spec => []PromiseKept
<1>1. IInv => PromiseKept
  BY DEF IInv
<1> QED
  BY <1>1, InvariantHolds, PTL

-----------------------------------------------------------------------------
(* Exports and backups *)

(* What a step does to what opens at one path. *)
LEMMA BoxOpens ==
  ASSUME NEW d \in Dirs
  PROVE  /\ Boxes[d] = IF Opens(d) THEN [data |-> db[d].data, password |-> db[d].password] ELSE None
         /\ Boxes'[d] = IF Opens(d)' THEN [data |-> db'[d].data, password |-> db'[d].password] ELSE None
BY DEF Boxes

LEMMA ExportStep == IInv /\ [Next]_vars => [ExportOpens]_vars
<1> SUFFICES ASSUME IInv, Detach PROVE Boxes'[app.dir] = zone
  BY DEF ExportOpens
<1>1. /\ app.dir \in Dirs /\ app.new \in Database /\ db[app.dir] = app.new
      /\ meta[app.dir] = app.new.salt /\ zone = Seal(app.new.data, app.new.password)
  BY DEF IInv, Detach, TypeOK, Makes, Ground, Database
<1>2. UNCHANGED <<db, meta>>
  BY DEF Detach, files
<1> QED
  BY <1>1, <1>2, BoxOpens DEF Opens, Seal

LEMMA BackupStep == IInv /\ [Next]_vars => [BackupOpens]_vars
<1> SUFFICES ASSUME IInv, FillMeta, app.dir # Source, Opens(Source)
             PROVE  Boxes'[app.dir] = Boxes[Source]
  BY DEF BackupOpens
<1>1. app.dir \in Dirs /\ Source \in Dirs /\ db[app.dir] = db[Source]
  BY DEF IInv, FillMeta, TypeOK, Backups, Ground, Source, Handle
<1>2. db' = db /\ meta'[app.dir] = meta[Source]
  BY <1>1 DEF IInv, FillMeta, TypeOK
<1> QED
  BY <1>1, <1>2, BoxOpens DEF Opens

(* A finished export holds what the zone was saved with, and opens with its password; *)
(* a finished backup holds the container's rows, and opens with the container's.      *)
THEOREM CopiesOpen == Spec => FinishedCopiesOpen
BY InvariantHolds, ExportStep, BackupStep, PTL DEF Spec, FinishedCopiesOpen

-----------------------------------------------------------------------------
(* The files implement the store *)

LEMMA BoxesTyped ==
  ASSUME TypeOK
  PROVE  /\ \A d \in Dirs : Boxes[d] \in Store!Box \union {None}
         /\ \A d \in Dirs : Opens(d) => Boxes[d] # None
<1>1. ASSUME NEW d \in Dirs, Opens(d) PROVE Boxes[d] \in Store!Box /\ Boxes[d] # None
  <2>1. Boxes[d] = [data |-> db[d].data, password |-> db[d].password] /\ db[d] \in Database
    BY <1>1, BoxOpens DEF Opens
  <2>2. Boxes[d] \in Store!Box /\ Store!Box = Zone
    BY <2>1 DEF Database, Store!Box, Zone
  <2> QED
    BY <2>2, FilesAssumption
<1> QED
  BY <1>1, BoxOpens

LEMMA NextBoxTyped ==
  ASSUME TypeOK', NEW d \in Dirs
  PROVE  Boxes'[d] \in Store!Box \union {None}
<1>1. CASE Opens(d)'
  <2>1. Boxes'[d] = [data |-> db'[d].data, password |-> db'[d].password] /\ db'[d] \in Database
    BY <1>1, BoxOpens DEF Opens
  <2> QED
    BY <2>1 DEF Database, Store!Box
<1> QED
  BY <1>1, BoxOpens

(* A change at one path is a change of one box. *)
LEMMA OneBoxChanges ==
  ASSUME NEW d \in Dirs, \A e \in Dirs : e # d => db'[e] = db[e] /\ meta'[e] = meta[e]
  PROVE  Boxes' = [Boxes EXCEPT ![d] = Boxes'[d]]
<1>1. \A e \in Dirs : e # d => Boxes'[e] = Boxes[e]
  BY BoxOpens DEF Opens
<1> QED
  BY <1>1 DEF Boxes

LEMMA StoreInit == Init => Store!Init
<1> SUFFICES ASSUME Init PROVE Store!Init
  OBVIOUS
<1>1. \A d \in Dirs : ~Opens(d)
  BY FilesAssumption DEF Init, Opens
<1> QED
  BY <1>1 DEF Init, Store!Init, Boxes

LEMMA StoreStep == IInv /\ IInv' /\ [Next]_vars => [Store!Next]_(Store!vars)
<1> SUFFICES ASSUME IInv, IInv', [Next]_vars PROVE [Store!Next]_(Store!vars)
  OBVIOUS
<1>0. TypeOK /\ Ground /\ TypeOK'
  BY DEF IInv
<1>1. ASSUME UNCHANGED <<db, meta, targets>> PROVE UNCHANGED Store!vars
  BY <1>1 DEF Store!vars, Boxes, Opens
<1>2. ASSUME NEW d \in Dirs, \A e \in Dirs : e # d => db'[e] = db[e] /\ meta'[e] = meta[e],
             ~Opens(d), ~Opens(d)', UNCHANGED targets
      PROVE  UNCHANGED Store!vars
  <2>1. Boxes'[d] = Boxes[d]
    BY <1>2, BoxOpens
  <2>2. Boxes' = Boxes
    BY <1>2, <2>1, OneBoxChanges DEF Boxes
  <2> QED
    BY <1>2, <2>2 DEF Store!vars
<1>3. ASSUME NEW d \in Dirs, NEW w \in Passwords, NEW s \in Salts, meta[d] = s, db[d] = Zero,
             Fill(d, w, s), UNCHANGED <<meta, targets>>
      PROVE  Store!Next
  <2>1. /\ db'[d] = [data |-> 0, password |-> w, salt |-> s] /\ db'[d] \in Database
        /\ \A e \in Dirs : e # d => db'[e] = db[e]
    BY <1>0, <1>3, FilledTyped
  <2>2. Boxes[d] = None /\ Boxes'[d] = [data |-> 0, password |-> w]
    <3>1. ~Opens(d)
      BY <1>0, <1>3, Names DEF Opens
    <3>2. Opens(d)' /\ db'[d].data = 0 /\ db'[d].password = w
      BY <1>3, <2>1 DEF Opens
    <3> QED
      BY <3>1, <3>2, BoxOpens
  <2>3. Store!Create(d, w)
    BY <1>3, <2>1, <2>2, OneBoxChanges DEF Store!Create
  <2> QED
    BY <2>3 DEF Store!Next
<1>4. ASSUME NEW d \in Dirs, \A e \in Dirs : e # d => db'[e] = db[e] /\ meta'[e] = meta[e],
             targets' = targets \union {d}
      PROVE  Store!Next
  <2>1. Boxes'[d] \in Store!Box \union {None}
    BY <1>0, NextBoxTyped
  <2>2. Store!BackUpInto(d)
    BY <1>4, <2>1, OneBoxChanges DEF Store!BackUpInto
  <2> QED
    BY <2>2 DEF Store!Next
<1>5. ASSUME NEW d \in Dirs, NEW n \in 0..MaxData, db[d] \in Database,
             db' = [db EXCEPT ![d].data = n], UNCHANGED <<meta, targets>>,
             n = db[d].data + 1 \/ db[d].data = 0
      PROVE  [Store!Next]_(Store!vars)
  <2>1. /\ db'[d] = [db[d] EXCEPT !.data = n]
        /\ \A e \in Dirs : e # d => db'[e] = db[e] /\ meta'[e] = meta[e]
    BY <1>0, <1>5 DEF TypeOK
  <2>2. /\ db'[d] \in Database /\ db'[d].data = n
        /\ db'[d].password = db[d].password /\ db'[d].salt = db[d].salt
    BY <1>5, <2>1 DEF Database
  <2>3. CASE ~Opens(d)
    BY <1>2, <1>5, <2>1, <2>2, <2>3 DEF Opens
  <2>4. CASE Opens(d)
    <3>1. /\ Boxes[d] = [data |-> db[d].data, password |-> db[d].password]
          /\ Boxes'[d] = [data |-> n, password |-> db[d].password]
      BY <1>5, <2>2, <2>4, BoxOpens DEF Opens
    <3>2. Boxes' = [Boxes EXCEPT ![d].data = n] /\ Boxes[d].data = db[d].data
      BY <2>1, <3>1, OneBoxChanges
    <3>3. Boxes[d] # None
      BY <1>0, <2>4, BoxesTyped
    <3>4. CASE db[d].data = 0
      <4>1. Store!Receive(d, n)
        BY <1>5, <3>2, <3>3, <3>4 DEF Store!Receive
      <4> QED
        BY <4>1 DEF Store!Next
    <3>5. CASE n = db[d].data + 1
      <4>1. db[d].data < MaxData
        BY <1>5, <3>5, MaxDataAssumption DEF Database
      <4>2. Store!Edit(d)
        BY <1>5, <3>2, <3>3, <3>5, <4>1 DEF Store!Edit
      <4> QED
        BY <4>2 DEF Store!Next
    <3> QED
      BY <1>5, <3>4, <3>5
  <2> QED
    BY <2>3, <2>4
<1>6. CASE UNCHANGED vars
  BY <1>1, <1>6 DEF vars
<1>7. ASSUME NEW d \in Dirs, NEW w \in Passwords, NEW s \in Salts,
             StartCreate(d, w, s) \/ StartExport(d, w, s)
      PROVE  UNCHANGED Store!vars
  BY <1>1, <1>7 DEF StartCreate, StartExport, Start, files, history
<1>8. ASSUME NEW d \in Dirs, d = app.dir, RenameTmp \/ CreateDb PROVE UNCHANGED Store!vars
  <2>1. db[d] = None /\ db'[d] \in {None, Zero}
    BY <1>0, <1>8 DEF RenameTmp, CreateDb, Ground, TypeOK
  <2>2. ~Opens(d) /\ ~Opens(d)'
    BY <1>0, <2>1, Names DEF Opens
  <2> QED
    BY <1>0, <1>2, <1>8, <2>2 DEF RenameTmp, CreateDb, history, TypeOK
<1>9. ASSUME CreateSchema PROVE Store!Next
  <2>1. app.dir \in Dirs /\ app.new.password \in Passwords /\ app.new.salt \in Salts
    BY <1>0, <1>9 DEF CreateSchema, TypeOK, Makes, Database
  <2>2. meta[app.dir] = app.new.salt
    BY <1>0, <1>9 DEF CreateSchema, Ground
  <2> QED
    BY <1>3, <1>9, <2>1, <2>2 DEF CreateSchema
<1>10. ASSUME CopyRows PROVE [Store!Next]_(Store!vars)
  <2>1. app.dir \in Dirs /\ app.new \in Database /\ db[app.dir] = [app.new EXCEPT !.data = 0]
    BY <1>0, <1>10 DEF CopyRows, TypeOK, Makes, Ground
  <2>2. db[app.dir] \in Database /\ db[app.dir].data = 0 /\ app.new.data \in 0..MaxData
    BY <2>1, MaxDataAssumption DEF Database
  <2> QED
    BY <1>5, <1>10, <2>1, <2>2 DEF CopyRows, history
<1>11. ASSUME Edit PROVE [Store!Next]_(Store!vars)
  <2>1. open.dir \in Dirs /\ db[open.dir] \in Database /\ db[open.dir].data < MaxData
    BY <1>0, <1>11 DEF Edit, TypeOK, Handle
  <2>2. db[open.dir].data + 1 \in 0..MaxData
    BY <2>1, MaxDataAssumption DEF Database
  <2> QED
    BY <1>5, <1>11, <2>1, <2>2 DEF Edit, history
<1>12. ASSUME NEW d \in Dirs, NEW w \in Passwords, OpenContainer(d, w)
       PROVE  [Store!Next]_(Store!vars)
  <2>1. CASE db[d] = Zero
    <3>1. meta[d] \in Salts /\ Fill(d, w, meta[d])
      BY <1>0, <1>12, <2>1, Names DEF OpenContainer, Loads, Opens
    <3> QED
      BY <1>3, <1>12, <2>1, <3>1 DEF OpenContainer
  <2>2. CASE db[d] # Zero
    BY <1>1, <1>12, <2>2 DEF OpenContainer
  <2> QED
    BY <2>1, <2>2
<1>13. ASSUME NEW d \in Dirs, d = app.dir, TruncateDb PROVE Store!Next
  BY <1>0, <1>4, <1>13 DEF TruncateDb, TypeOK
<1>14. ASSUME NEW d \in Dirs, d = app.dir, FillDb \/ TruncateMeta \/ FillMeta PROVE Store!Next
  <2>1. targets' = targets \union {d}
    BY <1>0, <1>14 DEF Ground, FillDb, TruncateMeta, FillMeta, Backups, history
  <2> QED
    BY <1>0, <1>4, <1>14, <2>1 DEF FillDb, TruncateMeta, FillMeta, TypeOK
<1>15. ASSUME NEW known \in Passwords, NEW w \in Passwords, ChangeZonePassword(known, w)
       PROVE  UNCHANGED Store!vars
  BY <1>1, <1>15 DEF ChangeZonePassword, files, history
<1>16. ASSUME NEW e \in Dirs, StartBackup(e) PROVE UNCHANGED Store!vars
  BY <1>1, <1>16 DEF StartBackup, files, history
<1>17. ASSUME WriteTmp \/ Close \/ SaveZone \/ Detach \/ Fails \/ Crash PROVE UNCHANGED Store!vars
  BY <1>1, <1>17 DEF WriteTmp, Close, SaveZone, Detach, Fails, Crash, files, history
<1>18. RenameTmp \/ CreateDb \/ TruncateDb \/ FillDb \/ TruncateMeta \/ FillMeta => app.dir \in Dirs
  BY <1>0 DEF TypeOK, RenameTmp, CreateDb, TruncateDb, FillDb, TruncateMeta, FillMeta
<1> QED
  BY <1>6, <1>7, <1>8, <1>9, <1>10, <1>11, <1>12, <1>13, <1>14, <1>15, <1>16, <1>17, <1>18
     DEF Next, User, Continue

(* The files implement a store whose operations are atomic. *)
THEOREM ImplementsStore == Spec => StoreSpec
<1>1. Init => IInv /\ Store!Init
  BY InvariantInit, StoreInit
<1>2. IInv /\ [Next]_vars => IInv'
  BY InvariantStep
<1>3. IInv /\ IInv' /\ [Next]_vars => [Store!Next]_(Store!vars)
  BY StoreStep
<1> QED
  BY <1>1, <1>2, <1>3, PTL DEF Spec, StoreSpec, Store!Spec

=============================================================================
