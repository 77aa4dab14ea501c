# CIPHERDEN in TLA+

CIPHERDEN is an encrypted desktop vault: one **Shell** file (an SQLCipher
database) holds several **zones** (accounts, files, seeds, ledger), each an
encrypted blob with a password of its own. A Rust library (`crates/vault-core`)
does the storage, a Tauri program (`src-tauri/src/main.rs`) keeps what is open
behind two mutexes and runs commands, a web page (`dist/app.js`) shows it. All
paths below are relative to `src/`.

This directory holds a specification of the parts whose state is hard to keep
right, the TLC runs that check it on small instances, and TLAPS proofs for
instances of any size.

| module | what it is |
| --- | --- |
| `VaultSessions` | the program at run time: mutexes, sessions, watcher, screens |
| `SessionStore` | what `VaultSessions` implements: Shells, and zones that are taken out and put away |
| `ShellFile` | a Shell on disk: database and sidecar, step by step, with crashes |
| `ShellStore` | what `ShellFile` implements: a store whose operations are atomic |
| `Container` | a file with a password of its own, step by step, with crashes |
| `ContainerStore` | what `Container` implements |
| `KeyPages` | the memory of keys: pages, bytes and locks, on several threads |
| `RowZones` | the zones that are tables of rows; imports; the ledger's total |
| `EntrySearch` | the pattern that a search makes, and what matches it |
| `AppTimers` | the clipboard's clearing threads and the log of failed attempts |
| `FilesZone` | the folders of a files zone and the grid that shows them |
| `Frontend` | the page: screens, the current zone, answers that come late |
| `MC…` | instances for TLC: model values, sets, symmetry |
| `…_proofs` | theorems about the module of that name |

## 1. Inventory

For each part: its state, its operations, what is hard about it, and what makes
it correct.

**Sessions, Shell slot, auto-lock** (`main.rs`). State: the Shell slot (open
Shell, last activity) and the map of open zones (data, key, last activity), each
behind a mutex. Operations: 48 commands, which Tauri runs one at a time
on the main thread, and a watcher thread that wakes every second. Hard: the two mutexes are taken in both
orders; the watcher decides under one lock and acts under another; a session
knows only the number of its zone. Correct: a session has the key of its row;
nothing unsaved goes unnoticed; nobody waits for ever; what is idle gets locked;
what is locked has no zone open.

**Zones of a Shell** (`shell.rs`). State: rows with KDF parameters, salt and
blob. Operations: create, open, save, change of password, delete, rename,
standalone export. Hard: the blob is saved under the session's key whatever the
row's salt says. Correct: each zone opens with its own password.

**Shell files** (`shell.rs`, `keyslots.rs`, `lib.rs`). State: two files, the
database and the sidecar that wraps its key under one or two passwords.
Operations: create, open, change of a password, backup. Hard: each is several
writes, and the process may die at any of them. Correct: an interrupted
operation costs nothing; both passwords keep working; a backup opens.

**Containers** (`container.rs`, `meta.rs`). The same for a file with a key or a
password of its own; the latter serve the standalone export. Hard: an
interruption leaves one of the two files, or a database without a byte.
Correct: what was reported opens for ever, what was not can be made again.

**Key derivation** (`kdf.rs`). Pure functions of password, salt and parameters;
and the page of memory that each key has for itself, locked while it lives.
Hard: keys are dropped by the watcher while the main thread makes others.
Correct: a page that is given back holds no key and is not locked.

**Files zone** (`files.rs`, `dist/app.js`). State: a tree of folders, files in
them; in the page the path of opened folders and the grid. Operations: create,
move, delete, pin, list. Hard: the tree is kept a tree by two checks only;
handlers run on a grid that may be out of date. Correct: everything can be
reached from the root, and the grid ends up showing what there is.

**Accounts, seeds, ledger** (`store.rs`, `seeds.rs`, `ledger.rs`). Independent
rows, one SQL statement per operation. The ledger also sums amounts, in 64 bits.
Hard: memory and Shell differ after a failed save; the page sends ids of rows
that it drew long ago. Correct: an id means one row; what was acknowledged is
saved; a total is right.

**Import and export** (`import.rs`, `export.rs`). Row by row, stopping at an
error; some rows are skipped.

**Clipboard** (`main.rs`). A thread per copy that clears the clipboard after a
delay if it still holds the text. Hard: nothing keeps the threads, and the user, off the
clipboard between the reading and the clearing. Correct: the password goes, and
nothing else does.

**Log of failed attempts** (`main.rs`). Time stamps, pruned by age.

**Frontend** (`dist/app.js`). State: which screens are hidden, the current zone,
the tables and dialogs of four kinds of zone, an interval of the System view.
Operations: a handler per button, each with awaits in the middle; a poll every
ten seconds for what the program has locked on its own; timers that fade screens. Hard: what
a handler read before an await may be stale after it, and several can be under way. Correct: the
screen fits the state, what is drawn is the current zone's in the end, and a
lock is noticed.

**Password generator, packaging.** Stateless; build configuration.

The parts meet like this. A command locks the session map or the Shell slot, or one inside
the other. A zone command works on the zone in memory and then saves it through
the Shell (`persist_zone`). The watcher touches only the two mutexes. The page
knows only answers to its calls, and polls `is_shell_unlocked` to notice a lock.

## 2. Plan

Done, in this order: `VaultSessions` with its proofs, `ShellFile` with
`ShellStore` and the refinement, `FilesZone`, `Frontend`, `Container` with
`ContainerStore` and the refinement, `KeyPages`, `AppTimers`, `RowZones` and
`EntrySearch`, each with proofs; then `ShellFile` for several programs, and
`SessionStore` with the refinement.

Left, the most important first:

1. *The page on the session core*: `SessionStore` in place of the few actions
   `Frontend` has for the program; the page's locks are then the real ones.
2. *The rest of the page*: ticked rows and their export, the list of known
   Shells.

## 3. VaultSessions

One action is one critical section. A command that takes both mutexes is two
actions, and the one it holds stays owned in between: `OpenZone` then
`InsertSession`, `MutateZone` then `SaveZone` or `SaveFails`, `DeleteZone` and
`ChangeZonePassword` then `EvictSession`, `LockShell` then `CloseShell`. Only
`EmergencyExit` lets go between its two halves, as in the code. The watcher is
four actions. The main thread runs one command at a time, so `main` is one
program counter.

| code | model |
| --- | --- |
| the zones table of each Shell file | `zones[p][z]`: the key the row derives, the key of its blob, content |
| `AUTOINCREMENT` | `nextId[p]` |
| `ShellSlot` | `shell` |
| `HashMap<i64, ZoneSession>` | `sessions`; `home` is a history of the file it came from |
| the two mutexes | `shellLock`, `sessionsLock`: their owner |
| `Instant::elapsed` | `idle`, in ticks, saturating above `Timeout` |
| `switchScreen` | `screen` |
| handlers awaiting `playUnlockFlourish` | `flourishes`: how many |
| (history) | `left`: zones whose session the watcher left behind when it closed the Shell |

Abstractions: a password with its salt is one key, and a fresh salt gives a
fresh key; a zone's data is one of two contents; one screen shows at a time; a
person waits for one answer before giving the next command, except on the lock
screen. There an opening has two steps, as in the page: `OpenShell` or
`CreateShell` (the call) and `FlourishEnds` (the desktop is shown, two seconds
later in the Signal theme, at once in the others). In between the lock screen
stands over an open Shell and its buttons can be pressed again, and in any theme
they can while the first call derives its key. So both may replace an open
Shell, and a late flourish may put the desktop over a Shell that was locked
since, until the poll notices. Calls are served in order, so a second opening
that waits behind the first comes before any command of the desktop, which is
why the model lets it come while the lock screen is up. Two screens at a time
are left to `Frontend` (`NoOverlap`, section 11). A command that fails without a change of state
is `ListZones` or `ReadZone`, which refresh the time stamp, or no step.
`erred` records that the user was told of an error by the last command that
wrote to the session.

`SessionStore` is what all this comes to for a person. One Shell is open or
none (`at`); a zone lies in its Shell (`kept`) and can be taken out, written to,
saved and put away (`desk`), each in one step, without mutexes, threads, keys or
times. A save goes back to where the zone was taken from and leaves a zone that
opens (`Save`). The one exception is `SaveElsewhere`, the finding of section
11, and it costs the zone in whose place it goes and nothing else. The
refinement shows a row by its contents and whether its password opens it
(`Boxed`), and a session by its contents and where it came from (`OnDesk`).

### Runs

* `sessions_safety`: the invariants and the refinement `StoreSpec`. Two Shell
  files, one zone id each, four keys, `Timeout = 1`, `MaxFlourishes = 2`; 68 226
  states (keys and files symmetric). Two files are what it takes for a session
  to meet the wrong one, and the same id in both is the case that matters. Four
  keys are one for each row before and after a change of its password. With
  `Timeout = 1` the watcher's verdict and everything after it occur. Two
  flourishes are an opening and one that replaces it; a third would only
  replace once more.
* `sessions_liveness`: one file, two zones, two keys, `MaxFlourishes = 1`, no
  symmetry; 201 108 states. Two zones, so that one is idle while the other is
  used. One flourish is enough where one file leaves nothing to replace.
* `sessions_brick`: a finding of section 11, on a smaller instance.

### Fairness

`FairSpec` assumes: a command that has been started finishes (weak fairness of
`MainFinishes`); the watcher and the page's timers run and get their mutex in
the end (strong fairness, since a person's commands may take the mutex between
two attempts, but hold it only for a moment); time passes. Nothing is assumed
about what a person starts, nor of crashes or the end of a flourish. The code justifies it: the watcher
is a loop in its own thread with no exit, its sleep is bounded, guards are
dropped at the end of a scope, and the timers are `setInterval`s.

`IdleShellLocks` says that a Shell nobody touches is locked; the page's poll is
a touch, which is why `AbandonedShellLocks` fails (section 11).

### Proofs

For any files, ids, keys, contents, timeouts and number of flourishes. The
assumptions: `Timeout` and `MaxFlourishes` positive, ids positive, `None` not a value of anything else.

`HomeSessionsFit` is not inductive: it needs to know who holds which mutex
(`LocksMatchMain`), that ids are handed out once (`IdsBelowNext`), and that a
command's ground does not move between its halves (`CommandKeepsItsGround`).
`UnsavedOnlyAfterError` speaks of the open Shell, so it needs its counterpart
for the time the Shell is closed (`CleanWhenClosed`). `OnlyTheWatcherStrands`
says that a session is away from its Shell only where the watcher closed the Shell
under it; locking does not do that, because whoever is about to close the Shell has
cleared the sessions (`ClearedBeforeClose`), and neither does a second opening
under a lock screen that is still up, because no command is half done there and
the sessions it can meet are those the watcher left (`UnderLockScreen`). Without
the history it would be false in one corner: a session that outlived its Shell A,
A opened again, and B opened over it before the lock screen went. `IInv` is their conjunction,
proved in `InvariantHolds`, action by action. From it:
types, `HomeSessionsFit`, `UnsavedOnlyAfterError`, `CommandKeepsItsGround`,
`NoLockCycle`, `OnlyTheWatcherStrands`, the action property
`OnlyForeignSavesBrick` (only `SaveElsewhere` makes a zone unreadable), and
`OneShellStaysReadable`: with one Shell file, `AllReadable` does hold. So the
second Shell file is the whole reason for the finding.

`ImplementsStore` needs two invariants more. No two rows have the same key
(`KeysDiffer`), so that a save in the wrong Shell leaves a zone that does not
open. And the zone of a session can be opened again, with the password its row
has at that moment (`OpenZonesReopen`): it is the row of a session, and a foreign save to it
would need a second session of the same id. Then every action is a step of
`SessionStore` or changes nothing that it shows: a lock, a timeout and the
watcher's sweep are all `PutAway`; a change of password is no step at all; of a command
in two halves, that half is the step which writes memory or the Shell.

## 4. ShellFile and ShellStore

One action is one change of a file that a crash can leave behind. `atomic_write`
is `WriteTmp` and `RenameTmp`; `Shell::create` writes the sidecar so, then
`CreateDb` (SQLite's empty file) and `CreateSchema` (one transaction);
`change_password` is read, `WriteTmp`, `RenameTmp`; `export_backup` is four
actions, a truncation and a fill for each file, because `std::fs::copy`
truncates first. After every one of them the operation may fail (`Fails`) or
the process die (`Crash`).

Files are `None`, `Zero` (no bytes: for SQLite a new database), `Torn` (cut
off) or their content. A slot holds the password that unwraps it. The zones of
a Shell are a count of the edits, which tells an old copy from a new one.

A directory that a backup was written into is in `targets`, a history variable:
the code promises nothing for what was there before, and the invariants about
crashes leave it out. That includes the Shell's own directory when it is chosen as the
destination, see section 11.

`ShellStore` has a Shell or none in each directory and changes it in one step;
`BackUpInto` may leave anything. The refinement maps a pair of files to a Shell
when the sidecar's key opens the database (`Shells`), and to none otherwise.

### Runs

* `shellfile_safety`: two programs that take turns (`TurnsSpec`), two directories,
  two passwords, two data keys, `MaxData = 1`; 516 716 states (symmetric). Two
  directories make a source and a destination; two passwords make the one and
  the other, of which either may take the other's place; two keys make a Shell
  and its successor in the same place; one edit makes a copy old. It checks `Restartable`, the refinement `StoreSpec`, `FinishedBackupOpens` and `ChangeKeepsOtherSlot`.
* `shellfile_selfbackup`: see section 11.

### Proofs

For any directories, passwords, keys and number of programs. Nothing in the
code keeps two programs off one Shell: what is proved says how far each result
depends on that.

* For programs that do anything (`Spec`): the types.
* For programs that take turns (`TurnsSpec`: none enters or changes a directory
  that another's operation is inside, `TakesTurns`): `Restartable`, `Ground`, the
  refinement `StoreSpec`, `FinishedBackupOpens` and `ChangeKeepsOtherSlot`; a
  Shell that a program has open stays one that opens (`OpenShellsStay`), and so
  does one that is backed up elsewhere (`BackupsElsewhereKeepSource`). This is an
  assumption about people, who start one program, or use one at a time for one
  Shell. A program that is alone always takes turns (`OneProgramTakesTurns`).
* For programs of which only creates keep to themselves (`AloneSpec`): edits, backups
  and changes of password may overlap in any way and die at any step, and still
  no Shell is lost (`OnlyCreatesNeedTurns`) or gets another data key
  (`DataKeysStay`). What may be lost is one of two changes of password that
  overlap, and a backup of such a moment need not open. `TurnsLeaveCreatesAlone`
  shows the assumption to be the weaker one. Two creates in one directory can
  leave the sidecar of one with the database of the other.

`Restartable` alone is not inductive: `CreateSchema` must know that the sidecar
it pairs with is the one it wrote. `Ground(i)` says for every program counter
what the operation still finds on disk; with the types and `Restartable` it is
inductive under `TurnsSpec`. Under `AloneSpec` a change of password has less to
stand on: `FilesFit(i)` says that the sidecar it is about to write has the data key of
the one on disk. `ImplementsStore` shows each step of the files to be a step of
`ShellStore` or a stutter: the rename inside `change_password` and the
transaction inside `create` are the points at which those operations happen.

## 5. FilesZone

`parent[f]` is the folder that `f` is in, `Root` or `None` (no row); so is
`folderOf[x]`. The page's handlers send commands, which wait in `queue`; the
main thread serves one (`Serve`, `Fails`), and the handler that gets the answer
then asks for new lists (`Refresh`), which `Draw` puts on the grid. A person
goes on meanwhile: opens a folder from an old grid, clicks a breadcrumb, drops
a row on a tile, or confirms a dialog about a row that is gone. Handlers read
`filesPath` at the moment they run, and so do the actions.

`list_folders` and `list_files` of one refresh are one command: they are sent
together, and no other command comes between them. A row's name, pin and
content are left out, and a failing list (a zone locked meanwhile, which leads
to the desktop) ends the view. `Above` defines the folders which the cursor of
`move_folder` visits without a loop; `WalkIsAbove` compares it with the loop.

### Run

`files_safety`: three folders, one file, two commands under way, a path of two;
472 708 states (folders symmetric). Three folders make a chain whose ends can meet; two
commands make one that is overtaken by events.

### Proofs

For any finite set of folders, any files and bounds: the types, `NothingHidden`,
`GridSettles` and `WalkIsAbove`. `NothingHidden` is about closed sets: every set of folders that
holds what is at the root and what is in its members holds all. The argument
for a move of `f` into `d`: if a closed set misses something afterwards, it
misses `d`; take out of the old folders the missing ones at or above `d`. `f` is
not among these, by the check, so what is left was closed before, and is not
all: a contradiction. The invariant also needs that the id of a folder still to be
created is in no other command and no row (`NewIds`); the grid needs that a
list which will be out of date is followed by another (`ListsFollow`) and that
what is not drawn yet will be (`Settling`).

`WalkIsAbove` is about the loop itself: it ends, and has visited what `Above`
says. No folder comes twice, since the tree has no cycle, so after as many steps as
there are folders the cursor is at the root.

## 6. Frontend

The calls that the page has sent wait in `calls`, and the main thread serves
them in order. An action of `Answer` is the serving of the first one together with
the rest of the handler that awaits it, up to the next call or the end. That
loses nothing: serving changes the program alone, continuing changes the page
alone, and what a person does in between is a step that could have come before.

| code | model |
| --- | --- |
| the class `hidden` of four screens | `shown` |
| `switchScreen`, its `setTimeout` in the Signal theme | `SwitchScreen`, `fades`, `FadeEnds` |
| `playUnlockFlourish` | `flourishes` |
| `currentZoneId`, `systemStatusInterval` | `zone`, `polling` |
| `zone.unlocked` as each tile was drawn | `tiles` |
| the rows of a table, the `editing…Id` of a dialog | `rows`, `modal` |
| the zone whose password is being asked for | `prompt` |

Abstractions. Of the program there is whether the Shell is open and which zones
are; the watcher may lock any time. Rows are known by the zone they came from.
A deleted zone is one nobody opens again, since what the page does about either
is the same. The theme is chosen at the start. A list that fails because a zone
is locked leads to the desktop, a write that fails to a line of text. Search,
exports and imports, the folders (see `FilesZone`), previews and texts are left out.

### Runs

* `frontend_safety`: two zones of one kind, both themes; 252 655 states. Two
  zones of one kind share a table and a dialog, which is where one zone's rows
  can meet the other; zones of different kinds share nothing but the screen.
  `MaxLoad` bounds what is under way when a person does the next thing: two in
  the instant theme, so that one answer overtakes another click; one in the Signal theme, where fades
  add to it. It checks `ScreenFits`, `RowsSettle`, `TilesSettle` and the
  liveness of the poll.
* `frontend_edits`: a finding of section 11.

### Fairness

Calls are answered, fades and flourishes end (weak fairness): the main thread
has a loop and each timer fires. The poll is an interval that comes round for
ever, but the model lets a new one start only when the last is answered and the
fades are within the bound; a person can make this false again and again, so
`Poll` is strongly fair. Nothing is assumed of the person or the watcher.

`LocksAreSeen` holds in both themes: every lock of the watcher, of the Shell
(`ClosedShellIsSeen`) or of a zone (`ClosedZoneIsSeen`), reaches the screen.

### Proofs

For any zones, kinds and bounds, in both themes: the types, `ScreenFits`
(which speaks of the instant theme, where it needs that nothing ever fades,
`NothingFades`), `RowsSettle` and `TilesSettle`. For the rows: a list that will
be drawn in the current zone's table and is another zone's has a list of the
current zone behind it in the queue (`StaleIsFollowed`), and until the right
rows are drawn such a list is under way. So an answer may come late, but never
last. For the tiles: while no zone is current and an open zone is not drawn as
open, a redraw is under way (`TilesFollow`). These need one another and
`ClosedHasNoZones`; their conjunction `IInv` is proved in `InvariantHolds`.

## 7. Container and ContainerStore

`create` and the standalone export are one sequence of steps: `Start` (no
database may be there), the sidecar by `WriteTmp` and `RenameTmp`, `CreateDb`
(a file of no bytes), `CreateSchema`; an export goes on with `CopyRows` and
`Detach`. `export_backup` truncates and fills each file, as in section 4. After each
step the operation may fail or the process die.

| code | model |
| --- | --- |
| the database, the sidecar | `db[d]`, `meta[d]`: `None`, `Zero`, `Torn`, or content, password and salt |
| the key from password and salt | the pair of them |
| the zone's blob in the Shell | `zone`, with the password that it was sealed with |
| the open connection | `open` |

`Edit` needs that the connection's key is that of the pages; an operation that
is refused is no step. One program, one container open at a time; the rows
are a count of changes, in one table. `promised[d]` is a history of the password with
which the first operation at a path reported success, `targets` one of the
paths that a backup was written to: nothing is promised for these.

A container that was interrupted before its first page opens with *any*
password, which makes it one of that password (`OpenContainer` with `Zero`).
The code means it so ("heals an interrupted first create"); `PromiseKept` says
that it happens to nothing that was ever reported.

`ContainerStore` has a box of rows and password, or none, at each path, and
atomic operations on it.

### Run

`container_safety`: two paths, two passwords, four salts, `MaxData = 1`; 17 057
states (symmetric). Two paths make a source and a destination, two passwords a
right one and a wrong one; four salts are one for either path, one for the
operation under way and one spare; one change makes a copy old.

### Proofs

For any paths, passwords, salts and bound: types, `NeverStranded`,
`PromiseKept`, `FinishedCopiesOpen` and the refinement `StoreSpec`. What an
operation relies on between its steps is `Ground`: while a new file is being made
there is no database before `CreateDb`, and then the sidecar has its salt. The
transaction of `CreateSchema` is where a container comes to be, and `CopyRows`
where an export gets its rows; every other step of a creation is a stutter of
the store.

## 8. KeyPages

A `VaultKey` is allocated, filled and locked by `from_bytes` (`Alloc`, `Copy`,
`Lock`), and zeroed, freed and unlocked by its drop (`Zero`, `Dealloc`,
`Unlock`, in that order: the guard is a field, and fields are dropped after the body of
`drop`). These are the steps of a thread, `work[t]`; the main thread makes and drops keys, the
watcher drops them. `free` is the allocator's, `bytes` the pages that hold key material,
`locked` what the system has locked (`Granted`: it may refuse).

Locks of a page do not nest. So when a page is handed out again between its
`Dealloc` and its `Unlock`, the late unlock takes the lock of the new key:
`reused` is the history of such pages, and `LocksLast` says that no other key
ever loses its lock. For one thread `reused` stays empty, and the comment in
`kdf.rs` is right (`OneThreadKeepsLocks`).

### Run

`keypages_safety`: two threads of which one makes keys, three pages of which two
may be locked; 1307 states (pages symmetric). Three pages: one alive, one being
dropped, one being made.

### Proofs

For any threads and pages: types, `NothingIsLeft`, `LocksLast`. The invariant
is that a page has one owner, the allocator, a thread or a key (`Exclusive`),
that bytes are only in pages of keys or of a thread about to lock (`Written`),
and that an unlock still to come for a page with an owner is one `reused` knows
(`Expected`).

## 9. RowZones and EntrySearch

A zone that is open is a table in memory with the counter of `AUTOINCREMENT`;
the Shell's blob is an image of both. A command changes memory and then saves
it (`Mutates`), which may fail and leave the two apart (`Unsaved`). Opening
reads the blob, locking and leaving throw memory away. The page keeps the ids
it drew last (`shown`), through locks and openings, until it draws again.

| code | model |
| --- | --- |
| the tables of `Vault`, `SeedVault`, `LedgerVault` | `rows[z]`, and `seq[z]` for `sqlite_sequence` |
| the blob of a zone | `savedRows[z]`, `savedSeq[z]` |
| `persist_zone` | `Saves`, `Unsaved` |
| the ids in the page | `shown[z]`, with a history of which row each was |
| `LedgerSnapshot` | `snapshot` |

Every row that is inserted has a `tag` of its own, a history that tells it from
a later row with the same id. `kept` has what the Shell ever held, `acked` the rows that a command has
said to have stored and that none was asked to change since.

Of an entry there are the fields that decide about an import; dates, the order
of lists and the remaining fields change nothing. `TotalCents` adds in the order of ids and
is `Overflow` where SQLite's `SUM` is: anywhere on the way. An import of CSV
stops at a row that cannot be read and leaves the rows before it in memory.

`EntrySearch` has the pattern that `Vault::search` builds, and `LIKE`, which is
SQLite's, as a function from the ends of the pattern to those of the text.
Assumptions of `MCRowZones`, which TLC evaluates, compare it with a substring search
for all short texts, and the imports and the export with one another for all
entries (`RoundTripAssumption`).

### Run

`rowzones_safety`: three zones, three rows ever inserted, `MaxCents = 1` with the
amounts 1 and -2; 1 927 671 states. Two inserts make an id that is given again,
the third one that is saved in between; the least word, -2 to 1, is left by two
equal amounts on either side. There is no symmetry: ids are numbers.

### Proofs

For any entries, labels, amounts and files: types, `StaleIdsMiss`,
`AcknowledgedIsSaved`. The first needs that an id the Shell ever held is
below its counter (`KeptBelow`) and names one row for ever (`OneRowPerId`),
and that memory agrees (`MemoryFits`); the second that what was acknowledged
is in memory too (`AcknowledgedInMemory`), since the next save writes memory.
What a person types into the form has a title; nothing else is assumed of
entries (`RowsAssumption`).
One lemma (`MutateKeeps`) covers every command: what a change of the table must
satisfy (`Sound`), whether it is then saved or not.

* The total. `TotalIsTrue`: the total on the screen is the sum of the amounts on
  the screen, for any number of them, and a 64-bit number; where it would not be one,
  there is SQLite's error in place of a listing. `SnapshotStaysTrue` is the part of
  it that the run checks.
* Imports. `CsvImportsWhatIsNamed`: of any file, up to a row that cannot be read,
  the entries that come in are those with a title, a URL or a user name, and no others.
  `ExportedRowsComeBack`: what was exported comes back, trimmed and in order, if every title is a text. `NoNamelessEntries`:
  however an entry came in, it has a title, in memory and in the Shell.
* Searching. `SearchIsSubstring`: for any query without a backslash and any
  text, the pattern finds the texts which contain the query and no others,
  `%` and `_` in the query included.

These are inductions, over the rows of a table, the lines of a file and the
characters of a pattern. Each is by the least counterexample: the numbers at
which a statement fails are a set, which has a least member if it has any
(`Least`, from the library's theorems on well-founded relations).

## 10. AppTimers

A copy writes the clipboard and starts a thread (`threads[s]`), which sleeps for
`Delay` ticks, reads and compares (`Read`), and clears (`Clear`), or finds the
clipboard out of reach and ends (`GivesUp`). The user copies at any moment, the
program may end. The log of failed attempts is `recent` and `total`, with the
ages of its entries; `failures` is the history that it is compared with.

`SomeoneClears` and `SecretsLeave` have one exception (`missed`): a thread that
could not do its work, or the end of the process. `ClobbersOnlySame` has two:
another's copy of the same text, and a copy made between the thread's reading
and its clearing (`stale`).

### Run and fairness

`apptimers_safety`: three threads, two texts, `Delay = 2`, `Window = 1`, two
failed attempts; 66 537 states. Three threads: one that reads, one that clears,
one that sleeps. Two texts are the same or not. Two failures are one inside the
window and one outside. Fairness: time passes, and a thread whose sleep is over
runs (weak: nothing keeps it back). Nothing is assumed of the user.

### Proofs

For any texts, threads, delay, window and bound: types, `SomeoneClears`,
`RecentIsExact`, `ClobbersOnlySame`. A thread between reading and clearing has
read its own text unless something was copied since (`ReadIsTrue`); what the
log has dropped is a prefix of the failures and too old (`DroppedIsOld`), which
stays so because failures are in order of age (`Ordered`). `SecretsLeave` is
checked only.

## 11. Where the code and its comments differ

Shown by a run that expects the violation:

* `sessions_brick`: a session that outlived its Shell, used after another Shell
  file was opened, is
  saved into that file's zone of the same number, under a key that zone's
  password does not derive. `OnlyForeignSavesBrick` shows that this is the only
  way. Such sessions come about because the watcher clears the sessions first
  and then closes the Shell: an `open_zone` that is inside its key derivation
  inserts its session in between. `OnlyTheWatcherStrands` shows that they come
  about in no other way.
* `shellfile_selfbackup`: a backup into the Shell's own directory truncates the
  database it is about to read.
* `frontend_edits`: a dialog remembers a row and a save reads the current zone.
  With a dialog left open across a change of zone, the row's number goes to
  another zone of the kind, whose row of that number is overwritten or deleted.

Stated in the modules, and false; a cfg that names the property in place of its
own shows it:

* `SessionsNeedShell` (with `VaultSessions_brick.cfg`): main.rs:1113 says that
  the watcher locks the Shell "and, with it, every open zone". The zone of the
  first finding stays open in a locked Shell, until the watcher finds it idle
  (`OrphansGoAway`).
* `NothingBuffered` (the same): the comment at main.rs:311 says that no data
  waits in memory to be saved. A command that fails half way leaves changes
  that no save has written. The next command that saves writes them, and an
  import that is repeated has its first rows twice.
* `AbandonedShellLocks` (the same, with `FairSpec` and `OnePath`): the System view polls `list_zones`,
  which counts as activity; with that view on screen an absent user's Shell
  stays open.
* `NoOverlap` (`Frontend_edits.cfg` with `Themes <- Fading` and `MaxLoad <- HeavyLoad`):
  `switchScreen` decides when it is called what its timer will hide. Two
  switches within the quarter of a second of a fade leave two screens in the
  flow, which the comment at app.js:428 says cannot be.
* `GuardedIsLocked` (`KeyPages_safety.cfg`): kdf.rs:57 says that one key's lock
  and unlock never affect another's, which two threads can make untrue (section 8).

Seen while modelling, and part of the definitions:

* In the Signal theme the lock screen stays over an open Shell for two seconds
  (app.js:773 and 807), out of the mouse's reach and not of the keyboard's, and
  in any theme a second opening may wait behind the first; `open_shell` and
  `create_shell` then replace the open Shell without a look at its sessions. By
  then no zone is open but what the watcher left (`OnlyTheWatcherStrands`).
* main.rs:728 says that a clear never clobbers what the user copied since; it
  does between the thread's reading and its clearing. A program that ends
  within twenty seconds of a copy leaves the password on the clipboard.
* `Vault::search` escapes `%` and `_` but not the escape character: a query
  with a backslash misses what it names (`BackslashAssumption`). The page
  filters by itself and never calls it.
* export.rs:1 speaks of a round trip: an entry from KeePass whose title is
  blanks, without URL and user name, is written and not read back
  (`RoundTripAssumption`). A KDBX import skips an entry with neither title nor
  user name, although it has a password or a URL.
* A new row that no save has written, and that was lost with the session, leaves
  its id to another row, which an old page then names (`StaleIdsMiss` excepts it).
* Amounts whose sum leaves 64 bits make every listing of the ledger fail, rows
  included, and the page has no list to delete one of them from.
* A standalone export that fails after its database was made leaves that behind: a
  retry at the same path, which the comment at container.rs:279 has in mind,
  is refused with AlreadyExists.

## 12. What is not shown

* Liveness (`OrphansGoAway`, `IdleShellLocks`, `IdleZoneLocks`, `LocksAreSeen`,
  `SecretsLeave`) is checked by TLC only, on the instances of the runs: the
  prover has no rules for fairness. Every other property of a run that passes
  is a theorem.
* Two programs on one Shell file that do not take turns: section 4 says what
  still holds.
* Cryptography: that a wrong key opens nothing, and that random keys do not
  repeat, are assumed. SQLite's transactions are atomic and `rename` replaces
  a file at once.
* In the Signal theme, which screen is on top: `ScreenFits` is about the
  instant theme, and `NoOverlap` shows why.
* Each module has one view of a zone's data: `VaultSessions` carries it as one
  value, `RowZones` has its rows with a Shell that opens again at once,
  `FilesZone` its folders.

Not modelled: the password generator, which has no state; drawing, texts,
searching and ticking in the page; labels, icons, names and pins; the syntax of
CSV and KDBX, Argon2id, AES and SQLCipher, which are libraries'. The hazards
without a property have a note in `PROJECT.json`.
