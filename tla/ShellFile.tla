------------------------------- MODULE ShellFile -------------------------------
(***************************************************************************)
(* A Shell on disk: the SQLCipher database and the sidecar that wraps its   *)
(* random data key under one or two passwords (shell.rs, keyslots.rs), both *)
(* written by operations of several steps that the process may not survive: *)
(* create, open, change_password, save_zone and export_backup, over         *)
(* atomic_write of lib.rs and the containers of container.rs.               *)
(*                                                                         *)
(* One action is one change of a file that a crash may leave behind.        *)
(*                                                                         *)
(* Abstractions.  A Shell file has one name, so a path is its directory.    *)
(* A slot holds the password that unwraps it; salts and wrapped bytes are   *)
(* left out.  The zones of a Shell are a count of the edits made to them.   *)
(* A temporary file has its process's name and is read by nobody, so it is  *)
(* only a step of its writer.  A command that fails without a change of     *)
(* state (wrong password, missing file) is a stuttering step.               *)
(***************************************************************************)
EXTENDS Naturals

CONSTANTS
  Procs,      (* running instances of the program                           *)
  Dirs,       (* directories that may hold a Shell file                     *)
  Passwords,  (* passwords a user may choose                                *)
  DataKeys,   (* data keys, one for every Shell ever created                *)
  MaxData,    (* bound: how often the zones of one Shell are edited         *)
  Zero, Torn, (* a file of no bytes, which SQLite takes for a new database, *)
              (* and one cut off: what a reader finds in the middle of a    *)
              (* write, or where a writer died                              *)
  None        (* Rust's Option::None                                        *)

Slots == {"primary", "recovery"}
SlotMaps == {s \in [Slots -> Passwords \union {None}] : s["primary"] # None}
Sidecar == [key : DataKeys, slots : SlotMaps]
Database == [key : DataKeys, data : 0..MaxData]

ASSUME MaxDataAssumption == MaxData \in Nat
ASSUME NoneAssumption ==
  None \notin Passwords \union Dirs \union Sidecar \union [key : DataKeys, dir : Dirs]
ASSUME ShellAssumption ==
  None \notin [slots : SlotMaps, data : 0..MaxData]
ASSUME FilesAssumption ==
  /\ Zero # Torn
  /\ {None, Zero, Torn} \intersect (Sidecar \union Database) = {}
  /\ None \notin {Zero, Torn}

VARIABLES
  db,       (* db[d]: the database file in directory d                      *)
  meta,     (* meta[d]: the sidecar next to it                              *)
  open,     (* open[i]: the Shell that instance i has open, or None         *)
  app,      (* app[i]: the operation that instance i is inside              *)
  targets   (* history: the directories that a backup has been written into *)

files == <<db, meta>>
vars  == <<db, meta, open, app, targets>>

CreateOps == {"create", "created", "createDb", "schema"}
ChangeOps == {"change", "changed"}
BackupOps == {"truncDb", "fillDb", "truncMeta", "fillMeta"}
Ops == {"idle"} \union CreateOps \union ChangeOps \union BackupOps

Idle == [dir |-> None, op |-> "idle", dest |-> None, new |-> None]
Writing(op, d, new) == [dir |-> d, op |-> op, dest |-> None, new |-> new]

Init ==
  /\ db = [d \in Dirs |-> None]
  /\ meta = [d \in Dirs |-> None]
  /\ open = [i \in Procs |-> None]
  /\ app = [i \in Procs |-> Idle]
  /\ targets = {}

-----------------------------------------------------------------------------
(* Helpers *)

\* The data key in this sidecar is the one the database is encrypted with.
Opens(d) == meta[d] \in Sidecar /\ db[d] \in Database /\ db[d].key = meta[d].key

\* Shell::open gets in, given the primary password: a database without content
\* passes the check of its key.
CanOpen(d) == meta[d] \in Sidecar /\ (db[d] = Zero \/ Opens(d))

\* A random data key is one that nothing has used.
Fresh(k) ==
  /\ \A d \in Dirs : /\ meta[d] \in Sidecar => meta[d].key # k
                     /\ db[d] \in Database => db[d].key # k
  /\ \A i \in Procs : /\ app[i].new # None => app[i].new.key # k
                      /\ open[i] # None => open[i].key # k

At(i, op) == app[i].op = op
Go(i, op) == app' = [app EXCEPT ![i].op = op]
Done(i) == app' = [app EXCEPT ![i] = Idle]

\* Mutant: the sidecar is written anew with this slot only.
MutWithSlot(m, slot, password) ==
  [m EXCEPT !.slots = [s \in Slots |-> IF s = slot THEN password ELSE None]]

\* set_slot replaces the record of one slot and keeps the other.
WithSlot(m, slot, password) == [m EXCEPT !.slots[slot] = password]

-----------------------------------------------------------------------------
(* Shell::create *)

\* Mutant: nobody looks whether there is a database already.
MutStartCreate(i, d, k, s) ==
  /\ At(i, "idle")
  /\ Fresh(k)
  /\ app' = [app EXCEPT ![i] = Writing("create", d, [key |-> k, slots |-> s])]
  /\ UNCHANGED <<files, open, targets>>

\* Another Shell may be open still: it stays so until the new one replaces it.
StartCreate(i, d, k, s) ==
  /\ At(i, "idle")
  /\ db[d] = None
  /\ Fresh(k)
  /\ app' = [app EXCEPT ![i] = Writing("create", d, [key |-> k, slots |-> s])]
  /\ UNCHANGED <<files, open, targets>>

\* Mutant: the sidecar is written in place.
MutWriteTmp(i) ==
  /\ app[i].op \in {"create", "change"}
  /\ meta' = [meta EXCEPT ![app[i].dir] = Torn]
  /\ Go(i, IF At(i, "create") THEN "created" ELSE "changed")
  /\ UNCHANGED <<db, open, targets>>

\* atomic_write, first half: all of the new sidecar is in a temporary file.
WriteTmp(i) ==
  /\ app[i].op \in {"create", "change"}
  /\ Go(i, IF At(i, "create") THEN "created" ELSE "changed")
  /\ UNCHANGED <<files, open, targets>>

\* atomic_write, second half: the rename.
RenameTmp(i) ==
  /\ app[i].op \in {"created", "changed"}
  /\ meta' = [meta EXCEPT ![app[i].dir] = app[i].new]
  /\ IF At(i, "created") THEN Go(i, "createDb") ELSE Done(i)
  /\ UNCHANGED <<db, open, targets>>

\* create_with_key looks once more whether the file exists; SQLite creates it
\* without content.
CreateDb(i) ==
  /\ At(i, "createDb")
  /\ db[app[i].dir] = None
  /\ db' = [db EXCEPT ![app[i].dir] = Zero]
  /\ Go(i, "schema")
  /\ UNCHANGED <<meta, open, targets>>

\* The schema is one transaction.
CreateSchema(i) ==
  /\ At(i, "schema")
  /\ db[app[i].dir] = Zero
  /\ db' = [db EXCEPT ![app[i].dir] = [key |-> app[i].new.key, data |-> 0]]
  /\ open' = [open EXCEPT ![i] = [key |-> app[i].new.key, dir |-> app[i].dir]]
  /\ Done(i)
  /\ UNCHANGED <<meta, targets>>

-----------------------------------------------------------------------------
(* Shell::open, the commands on an open Shell, and locking it *)

\* Only the primary password opens.  A database without content gets its
\* schema now.
OpenShell(i, d, password) ==
  /\ At(i, "idle")
  /\ CanOpen(d)
  /\ meta[d].slots["primary"] = password
  /\ db' = [db EXCEPT ![d] = IF @ = Zero THEN [key |-> meta[d].key, data |-> 0] ELSE @]
  /\ open' = [open EXCEPT ![i] = [key |-> meta[d].key, dir |-> d]]
  /\ UNCHANGED <<meta, app, targets>>

\* create_zone, save_zone and the like: one transaction, which SQLCipher
\* refuses when the pages are not encrypted with the connection's key.
Edit(i) ==
  /\ At(i, "idle")
  /\ open[i] # None
  /\ LET file == db[open[i].dir]
     IN  /\ file \in Database
         /\ file.key = open[i].key
         /\ file.data < MaxData
         /\ db' = [db EXCEPT ![open[i].dir].data = @ + 1]
  /\ UNCHANGED <<meta, open, app, targets>>

LockShell(i) ==
  /\ At(i, "idle")
  /\ open[i] # None
  /\ open' = [open EXCEPT ![i] = None]
  /\ UNCHANGED <<files, app, targets>>

-----------------------------------------------------------------------------
(* Shell::change_password works on the sidecar alone, of any Shell file *)

StartChange(i, d, known, slot, password) ==
  /\ At(i, "idle")
  /\ meta[d] \in Sidecar
  /\ \E s \in Slots : meta[d].slots[s] = known
  /\ password # known
  /\ app' = [app EXCEPT ![i] = Writing("change", d, WithSlot(meta[d], slot, password))]
  /\ UNCHANGED <<files, open, targets>>

-----------------------------------------------------------------------------
(* Shell::export_backup copies both files over whatever is there *)

\* Mutant: a destination that has a database file already keeps it.
MutStartBackup(i, e) ==
  /\ At(i, "idle")
  /\ open[i] # None
  /\ app' = [app EXCEPT ![i] = [dir |-> open[i].dir, dest |-> e, new |-> None,
                                op |-> IF db[e] = None THEN "truncDb" ELSE "truncMeta"]]
  /\ UNCHANGED <<files, open, targets>>

StartBackup(i, e) ==
  /\ At(i, "idle")
  /\ open[i] # None
  /\ app' = [app EXCEPT ![i] = [dir |-> open[i].dir, op |-> "truncDb", dest |-> e, new |-> None]]
  /\ UNCHANGED <<files, open, targets>>

\* fs::copy opens the source, and the destination with truncation; where the
\* two are one file, nothing is left to copy.
TruncateDb(i) ==
  /\ At(i, "truncDb")
  /\ db[app[i].dir] # None
  /\ \E rest \in IF app[i].dest = app[i].dir THEN {Zero} ELSE {Zero, Torn} :
       db' = [db EXCEPT ![app[i].dest] = rest]
  /\ targets' = targets \union {app[i].dest}
  /\ Go(i, "fillDb")
  /\ UNCHANGED <<meta, open>>

\* The checkpoint has put all edits into the database file itself.
FillDb(i) ==
  /\ At(i, "fillDb")
  /\ db' = [db EXCEPT ![app[i].dest] = db[app[i].dir]]
  /\ Go(i, "truncMeta")
  /\ UNCHANGED <<meta, open, targets>>

TruncateMeta(i) ==
  /\ At(i, "truncMeta")
  /\ meta[app[i].dir] # None
  /\ meta' = [meta EXCEPT ![app[i].dest] = Torn]
  /\ Go(i, "fillMeta")
  /\ UNCHANGED <<db, open, targets>>

FillMeta(i) ==
  /\ At(i, "fillMeta")
  /\ meta' = [meta EXCEPT ![app[i].dest] = meta[app[i].dir]]
  /\ Done(i)
  /\ UNCHANGED <<db, open, targets>>

-----------------------------------------------------------------------------
\* An I/O error ends an operation where it is: a full disk, a file that has
\* come into being, a system that refuses to copy a file onto itself.
Fails(i) ==
  /\ ~At(i, "idle")
  /\ Done(i)
  /\ UNCHANGED <<files, open, targets>>

\* The process dies; another one is started in its place.
Crash(i) ==
  /\ open' = [open EXCEPT ![i] = None]
  /\ Done(i)
  /\ UNCHANGED <<files, targets>>

\* The frontend asks for a recovery password that differs from the primary.
Chosen == {s \in SlotMaps : s["recovery"] # s["primary"]}

Start(i) ==
  \/ \E d \in Dirs, k \in DataKeys, s \in Chosen : StartCreate(i, d, k, s)
  \/ \E d \in Dirs, password \in Passwords : OpenShell(i, d, password)
  \/ Edit(i)
  \/ LockShell(i)
  \/ \E d \in Dirs, known, password \in Passwords, slot \in Slots :
       StartChange(i, d, known, slot, password)
  \/ \E e \in Dirs : StartBackup(i, e)

Continue(i) ==
  \/ WriteTmp(i) \/ RenameTmp(i) \/ CreateDb(i) \/ CreateSchema(i)
  \/ TruncateDb(i) \/ FillDb(i) \/ TruncateMeta(i) \/ FillMeta(i)

Next == \E i \in Procs : Start(i) \/ Continue(i) \/ Fails(i) \/ Crash(i)

Spec == Init /\ [][Next]_vars

\* Nothing keeps two programs off one Shell file.  They take turns when none
\* enters or changes a directory that another's operation is inside; then each
\* has the files as if it were alone.
Inside(i) == IF At(i, "idle") THEN {} ELSE {app[i].dir, app[i].dest} \ {None}

TakesTurns(i) ==
  \A j \in Procs \ {i} : \A d \in Inside(j) :
    d \notin Inside(i)' /\ db'[d] = db[d] /\ meta'[d] = meta[d]

TurnsNext == \E i \in Procs : (Start(i) \/ Continue(i) \/ Fails(i) \/ Crash(i)) /\ TakesTurns(i)

TurnsSpec == Init /\ [][TurnsNext]_vars

-----------------------------------------------------------------------------
(* Properties *)

AppState ==
  [dir : Dirs \union {None}, op : Ops, dest : Dirs \union {None}, new : Sidecar \union {None}]

AppTyped ==
  /\ app \in [Procs -> AppState]
  /\ \A i \in Procs :
       /\ ~At(i, "idle") => app[i].dir \in Dirs
       /\ app[i].op \in CreateOps \union ChangeOps => app[i].new \in Sidecar
       /\ app[i].op \in BackupOps => app[i].dest \in Dirs

TypeOK ==
  /\ db \in [Dirs -> Database \union {None, Zero, Torn}]
  /\ meta \in [Dirs -> Sidecar \union {None, Torn}]
  /\ open \in [Procs -> [key : DataKeys, dir : Dirs] \union {None}]
  /\ targets \subseteq Dirs
  /\ AppTyped

\* An interrupted create or change of password never costs a Shell: where no
\* backup was written, a database file is one that its sidecar's passwords
\* open, or one still without content that opening them heals; and where there
\* is no database file, create starts over.
Restartable ==
  \A d \in Dirs \ targets : db[d] # None => CanOpen(d)

\* What an operation may rely on between its steps, as long as nobody else
\* writes the files.
Ground(i) == LET a == app[i] IN
  /\ a.op \in {"create", "created", "createDb"} => db[a.dir] = None
  /\ a.op \in {"create", "created"} /\ meta[a.dir] \in Sidecar => meta[a.dir].key # a.new.key
  /\ a.op \in {"createDb", "schema"} => meta[a.dir] = a.new
  /\ a.op = "schema" => db[a.dir] = Zero
  /\ a.op \in ChangeOps =>
       /\ meta[a.dir] \in Sidecar
       /\ \E slot \in Slots, password \in Passwords :
            a.new = WithSlot(meta[a.dir], slot, password)
  /\ a.op \in BackupOps \ {"truncDb"} => a.dest \in targets
  /\ a.op \in {"truncMeta", "fillMeta"} => db[a.dest] = db[a.dir]
  /\ a.op = "fillMeta" => meta[a.dest] = Torn

OperationKeepsItsGround == \A i \in Procs : Ground(i)

\* The Shells that can be opened, as the abstract specification has them.
Shells ==
  [d \in Dirs |-> IF Opens(d) THEN [slots |-> meta[d].slots, data |-> db[d].data] ELSE None]
Store == INSTANCE ShellStore WITH shells <- Shells

\* The files implement a store whose operations are atomic.
StoreSpec == Store!Spec

\* A backup that is finished opens with the Shell's passwords and holds the
\* zones the Shell holds at that moment: no edit and no change of a password
\* gets in between the copies of the two files.
BackupOpens ==
  \A i \in Procs : FillMeta(i) /\ app[i].dest # app[i].dir /\ Opens(app[i].dir) =>
                     Shells'[app[i].dest] = Shells[app[i].dir]
FinishedBackupOpens == [][BackupOpens]_vars

\* A change of one password leaves the other slot as it is, also when it dies
\* half-way and is tried again.
ChangeKeepsOtherSlot ==
  [][\A d \in Dirs :
       meta[d] \in Sidecar /\ meta'[d] \in Sidecar /\ meta'[d].key = meta[d].key =>
         \E slot \in Slots : meta'[d].slots[slot] = meta[d].slots[slot]]_vars

-----------------------------------------------------------------------------
(* What the comments say, and the code does not keep *)

\* "Back up the whole Shell": a Shell that is being backed up, and is no other
\* backup's target, stays one that opens.
BackupKeepsSource ==
  \A i \in Procs :
    app[i].op \in BackupOps /\ app[i].dir \notin targets \ {app[i].dest} =>
      Opens(app[i].dir)

=============================================================================
