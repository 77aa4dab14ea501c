------------------------------- MODULE Container -------------------------------
(***************************************************************************)
(* Containers with a password of their own: a SQLCipher file keyed by what  *)
(* Argon2id derives from the password and the salt in the sidecar next to   *)
(* it (container.rs, meta.rs).  create, open and export_backup are the same *)
(* for every kind of zone (store.rs, seeds.rs, ledger.rs, files.rs); the    *)
(* Shell makes such files by its standalone export of a zone.               *)
(*                                                                         *)
(* One action is one change of a file that a crash may leave behind.        *)
(*                                                                         *)
(* Abstractions.  A container has one name, so a path is its directory.     *)
(* One program, with one container open at a time.  The rows of a zone are  *)
(* a count of the changes made to them, and in one table.  Keys are pairs   *)
(* of a password and a salt.  A temporary file is only a step of its        *)
(* writer.  An operation that is refused (AlreadyExists, NotFound,          *)
(* InvalidMeta, InvalidPassword) changes nothing and is no step.            *)
(***************************************************************************)
EXTENDS Naturals

CONSTANTS
  Dirs,       (* paths at which a container may be                          *)
  Passwords,  (* passwords a user may choose                                *)
  Salts,      (* salts, one for every container ever made                   *)
  MaxData,    (* bound: how often the rows of one zone change               *)
  Zero, Torn, (* a file of no bytes, which SQLite takes for a new database, *)
              (* and one cut off                                            *)
  None        (* Rust's Option::None, no file                               *)

Database == [data : 0..MaxData, password : Passwords, salt : Salts]
Zone == [data : 0..MaxData, password : Passwords]
Handle == [password : Passwords, salt : Salts, dir : Dirs]

ASSUME MaxDataAssumption == MaxData \in Nat
ASSUME FilesAssumption ==
  /\ Zero # Torn
  /\ {None, Zero, Torn} \intersect (Database \union Salts) = {}
  /\ None \notin {Zero, Torn} \union Dirs \union Handle \union Zone \union Passwords

VARIABLES
  db,        (* db[d]: the database file at path d                          *)
  meta,      (* meta[d]: the salt in the sidecar next to it                 *)
  zone,      (* the zone of an open Shell, as the Shell last saved it       *)
  open,      (* the container that is open, or None                         *)
  app,       (* the operation that the program is inside                    *)
  targets,   (* history: the paths that a backup has been written to        *)
  promised   (* history: the password with which an operation first         *)
             (* reported success at a path                                  *)

files   == <<db, meta>>
history == <<targets, promised>>
vars    == <<db, meta, zone, open, app, targets, promised>>

Makes   == {"salt", "tmp", "sidecar", "empty", "rows", "detach"}
Backups == {"truncDb", "fillDb", "truncMeta", "fillMeta"}
Idle    == [at |-> "idle", dir |-> None, new |-> None, export |-> FALSE]

-----------------------------------------------------------------------------
(* Helpers *)

\* VaultMeta::load and salt_bytes: a sidecar that is missing or cut off is InvalidMeta.
Loads(d) == meta[d] \in Salts

\* The password and the salt in the sidecar derive the database's key.
Opens(d) == db[d] \in Database /\ meta[d] = db[d].salt

\* The tag of AES-GCM tells a wrong password from the one the blob was sealed with.
Decrypts(blob, w) == blob.password = w

\* encrypt_blob: the zone's bytes under the key of its password.
Seal(n, w) == [data |-> n, password |-> w]

\* random_salt: one that nothing has used.
Fresh(s) ==
  /\ \A d \in Dirs : meta[d] # s /\ (db[d] \in Database => db[d].salt # s)
  /\ app.new # None => app.new.salt # s
  /\ open # None => open.salt # s

Go(step) == app' = [app EXCEPT !.at = step]
Done == app' = Idle

\* The schema makes a database without content one of the key it is opened with.
Fill(d, w, s) == db' = [db EXCEPT ![d] = [data |-> 0, password |-> w, salt |-> s]]

Promise(d, w) == promised' = [promised EXCEPT ![d] = IF @ = None THEN w ELSE @]

Init ==
  /\ db = [d \in Dirs |-> None]
  /\ meta = [d \in Dirs |-> None]
  /\ \E w \in Passwords : zone = Seal(0, w)
  /\ open = None
  /\ app = Idle
  /\ targets = {}
  /\ promised = [d \in Dirs |-> None]

-----------------------------------------------------------------------------
(* create, and the standalone export of a zone *)

\* Mutant: no look whether there is a container already.
MutStart(d, export, w, n, s) ==
  /\ app = Idle
  /\ Fresh(s)
  /\ app' = [at |-> "salt", dir |-> d, new |-> [data |-> n, password |-> w, salt |-> s],
             export |-> export]
  /\ UNCHANGED <<files, zone, open, history>>

Start(d, export, w, n, s) ==
  /\ app = Idle
  /\ db[d] = None
  /\ Fresh(s)
  /\ app' = [at |-> "salt", dir |-> d, new |-> [data |-> n, password |-> w, salt |-> s],
             export |-> export]
  /\ UNCHANGED <<files, zone, open, history>>

StartCreate(d, w, s) == open = None /\ Start(d, FALSE, w, 0, s)

\* export_zone_standalone opens the zone as it was saved, session or no session,
\* and goes on with the password it was given.
StartExport(d, w, s) == Decrypts(zone, w) /\ Start(d, TRUE, w, zone.data, s)

\* VaultMeta::save is an atomic_write: a temporary file, then a rename.
WriteTmp ==
  /\ app.at = "salt"
  /\ Go("tmp")
  /\ UNCHANGED <<files, zone, open, history>>

RenameTmp ==
  /\ app.at = "tmp"
  /\ meta' = [meta EXCEPT ![app.dir] = app.new.salt]
  /\ Go("sidecar")
  /\ UNCHANGED <<db, zone, open, history>>

\* Connection::open and ATTACH create the file, without content.
CreateDb ==
  /\ app.at = "sidecar"
  /\ db' = [db EXCEPT ![app.dir] = IF @ = None THEN Zero ELSE @]
  /\ Go("empty")
  /\ UNCHANGED <<meta, zone, open, history>>

\* The first statement of the schema is the first page of the file.
CreateSchema ==
  /\ app.at = "empty"
  /\ db[app.dir] = Zero
  /\ Fill(app.dir, app.new.password, app.new.salt)
  /\ IF app.export
     THEN Go("rows") /\ UNCHANGED <<open, promised>>
     ELSE /\ Done
          /\ open' = [password |-> app.new.password, salt |-> app.new.salt, dir |-> app.dir]
          /\ Promise(app.dir, app.new.password)
  /\ UNCHANGED <<meta, zone, targets>>

\* sqlcipher_export copies a table with one statement.
CopyRows ==
  /\ app.at = "rows"
  /\ db' = [db EXCEPT ![app.dir].data = app.new.data]
  /\ Go("detach")
  /\ UNCHANGED <<meta, zone, open, history>>

Detach ==
  /\ app.at = "detach"
  /\ Done
  /\ Promise(app.dir, app.new.password)
  /\ UNCHANGED <<files, zone, open, targets>>

-----------------------------------------------------------------------------
(* open, and the commands on an open container *)

\* Mutant: whatever cannot be read is taken for an interrupted create.
MutOpenContainer(d, w) ==
  /\ app = Idle
  /\ open = None
  /\ Loads(d)
  /\ \/ ~(Opens(d) /\ db[d].password = w) /\ Fill(d, w, meta[d])
     \/ Opens(d) /\ db[d].password = w /\ UNCHANGED db
  /\ open' = [password |-> w, salt |-> meta[d], dir |-> d]
  /\ Promise(d, w)
  /\ UNCHANGED <<meta, zone, app, targets>>

\* The read of sqlite_master finds a wrong key, unless there is no page to read:
\* then the schema makes the file one of this key.
OpenContainer(d, w) ==
  /\ app = Idle
  /\ open = None
  /\ Loads(d)
  /\ \/ db[d] = Zero /\ Fill(d, w, meta[d])
     \/ Opens(d) /\ db[d].password = w /\ UNCHANGED db
  /\ open' = [password |-> w, salt |-> meta[d], dir |-> d]
  /\ Promise(d, w)
  /\ UNCHANGED <<meta, zone, app, targets>>

\* Adding, changing or deleting a row: one statement, refused when the pages are
\* not encrypted with the connection's key.
Edit ==
  /\ app = Idle
  /\ open # None
  /\ LET file == db[open.dir]
     IN  /\ file \in Database
         /\ file.password = open.password /\ file.salt = open.salt
         /\ file.data < MaxData
         /\ db' = [db EXCEPT ![open.dir].data = @ + 1]
  /\ UNCHANGED <<meta, zone, open, app, history>>

\* Mutant: it is closed in the middle of a backup.
MutClose ==
  /\ open # None
  /\ open' = None
  /\ UNCHANGED <<files, zone, app, history>>

Close ==
  /\ app = Idle
  /\ open # None
  /\ open' = None
  /\ UNCHANGED <<files, zone, app, history>>

\* The zone is saved with a change, or under another password.
SaveZone ==
  /\ app = Idle
  /\ zone.data < MaxData
  /\ zone' = Seal(zone.data + 1, zone.password)
  /\ UNCHANGED <<files, open, app, history>>

ChangeZonePassword(known, w) ==
  /\ app = Idle
  /\ Decrypts(zone, known)
  /\ zone' = Seal(zone.data, w)
  /\ UNCHANGED <<files, open, app, history>>

-----------------------------------------------------------------------------
(* export_backup copies both files over whatever is there *)

Source == open.dir

StartBackup(e) ==
  /\ app = Idle
  /\ open # None
  /\ app' = [at |-> "truncDb", dir |-> e, new |-> None, export |-> FALSE]
  /\ UNCHANGED <<files, zone, open, history>>

\* fs::copy opens the source, and the destination with truncation.
TruncateDb ==
  /\ app.at = "truncDb"
  /\ db[Source] # None
  /\ \E rest \in IF app.dir = Source THEN {Zero} ELSE {Zero, Torn} :
       db' = [db EXCEPT ![app.dir] = rest]
  /\ targets' = targets \union {app.dir}
  /\ Go("fillDb")
  /\ UNCHANGED <<meta, zone, open, promised>>

FillDb ==
  /\ app.at = "fillDb"
  /\ db' = [db EXCEPT ![app.dir] = db[Source]]
  /\ Go("truncMeta")
  /\ UNCHANGED <<meta, zone, open, history>>

TruncateMeta ==
  /\ app.at = "truncMeta"
  /\ meta[Source] # None
  /\ meta' = [meta EXCEPT ![app.dir] = Torn]
  /\ Go("fillMeta")
  /\ UNCHANGED <<db, zone, open, history>>

\* Mutant: the sidecar is left as it is.
MutFillMeta ==
  /\ app.at = "fillMeta"
  /\ Done
  /\ UNCHANGED <<files, zone, open, history>>

FillMeta ==
  /\ app.at = "fillMeta"
  /\ meta' = [meta EXCEPT ![app.dir] = meta[Source]]
  /\ Done
  /\ UNCHANGED <<db, zone, open, history>>

-----------------------------------------------------------------------------
\* An I/O error ends an operation where it is.
Fails ==
  /\ app # Idle
  /\ Done
  /\ UNCHANGED <<files, zone, open, history>>

\* The process dies; another one is started in its place.
Crash ==
  /\ Done
  /\ open' = None
  /\ UNCHANGED <<files, zone, history>>

User ==
  \/ \E d \in Dirs, w \in Passwords, s \in Salts : StartCreate(d, w, s)
  \/ \E d \in Dirs, w \in Passwords, s \in Salts : StartExport(d, w, s)
  \/ \E d \in Dirs, w \in Passwords : OpenContainer(d, w)
  \/ Edit
  \/ Close
  \/ SaveZone
  \/ \E known, w \in Passwords : ChangeZonePassword(known, w)
  \/ \E e \in Dirs : StartBackup(e)

Continue ==
  \/ WriteTmp \/ RenameTmp \/ CreateDb \/ CreateSchema \/ CopyRows \/ Detach
  \/ TruncateDb \/ FillDb \/ TruncateMeta \/ FillMeta

Next == User \/ Continue \/ Fails \/ Crash

Spec == Init /\ [][Next]_vars

-----------------------------------------------------------------------------
(* Properties *)

App == [at : {"idle"} \union Makes \union Backups, dir : Dirs \union {None},
        new : Database \union {None}, export : BOOLEAN]

\* The types of the variables, and of the fields an operation uses.
TypeOK ==
  /\ db \in [Dirs -> Database \union {None, Zero, Torn}]
  /\ meta \in [Dirs -> Salts \union {None, Torn}]
  /\ zone \in Zone
  /\ open \in Handle \union {None}
  /\ app \in App
  /\ app.at # "idle" => app.dir \in Dirs
  /\ app.at \in Makes => app.new \in Database
  /\ app.at \in Backups => open # None
  /\ targets \subseteq Dirs
  /\ promised \in [Dirs -> Passwords \union {None}]

\* Wherever a create or an export dies, what it leaves can be opened, or is no
\* database, so that create and export start over there.
NeverStranded ==
  \A d \in Dirs \ targets :
    db[d] # None => Loads(d) /\ (db[d] = Zero \/ Opens(d))

\* Once create, open or an export has reported success, the file opens with that
\* password ever after, whatever is tried at the same path, dies and is tried
\* again: an interrupted first create alone may change its password (container.rs,
\* "heals an interrupted first create").
PromiseKept ==
  \A d \in Dirs \ targets :
    promised[d] # None => Opens(d) /\ db[d].password = promised[d]

\* The containers that open, as the abstract specification has them.
Boxes ==
  [d \in Dirs |-> IF Opens(d) THEN [data |-> db[d].data, password |-> db[d].password] ELSE None]
Store == INSTANCE ContainerStore WITH boxes <- Boxes

\* Two files written step by step implement a store of atomic operations.
StoreSpec == Store!Spec

\* An export that reports success holds the rows that the zone was saved with, and
\* opens with the zone's password: no save and no change of the password of the
\* zone gets in between.
ExportOpens == Detach => Boxes'[app.dir] = zone

\* A backup that is finished opens with the password of the container that it was
\* made from, and holds the same rows.
BackupOpens == FillMeta /\ app.dir # Source /\ Opens(Source) => Boxes'[app.dir] = Boxes[Source]

\* What is reported as an export or a backup can be opened, as the user expects.
FinishedCopiesOpen == [][ExportOpens /\ BackupOpens]_vars

-----------------------------------------------------------------------------
(* The inductive invariant *)

\* What an operation relies on between its steps.
Ground ==
  /\ app.at = "idle" => app = Idle
  /\ app.at \in {"salt", "tmp", "sidecar"} => db[app.dir] = None
  /\ app.at \in {"sidecar", "empty", "rows", "detach"} => meta[app.dir] = app.new.salt
  /\ app.at = "empty" => db[app.dir] = Zero
  /\ app.at \in {"rows", "detach"} =>
       /\ db[app.dir] = [app.new EXCEPT !.data = IF app.at = "rows" THEN 0 ELSE @]
       /\ app.export
  /\ app.at \in Makes /\ app.export => zone = Seal(app.new.data, app.new.password)
  /\ app.at \in Makes => promised[app.dir] = None \/ app.dir \in targets
  /\ app.at \in Backups \ {"truncDb"} => app.dir \in targets
  /\ app.at \in {"truncMeta", "fillMeta"} => db[app.dir] = db[Source]

IInv == TypeOK /\ Ground /\ NeverStranded /\ PromiseKept

=============================================================================
