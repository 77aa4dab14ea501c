---------------------------- MODULE VaultSessions ----------------------------
(***************************************************************************)
(* The session core of CIPHERDEN's backend: the Shell slot and the map of  *)
(* unlocked zone sessions that src-tauri/src/main.rs keeps behind two      *)
(* mutexes, the commands that the main thread runs one at a time, the      *)
(* auto-lock watcher thread that runs beside them, and the zones table of  *)
(* every Shell file on disk.                                               *)
(*                                                                         *)
(* One action is one critical section: what a thread does from taking a    *)
(* mutex to taking the next one or to releasing the last.  A command that  *)
(* takes both mutexes is two actions, and the mutex it already holds stays *)
(* owned in between.                                                       *)
(*                                                                         *)
(* Abstractions.  A password and its salt are one key: the row's key is    *)
(* what its current password derives, a fresh salt gives a fresh key, and  *)
(* a wrong password only refreshes last_activity.  A zone's data is a      *)
(* member of Contents.  An elapsed time is counted in clock ticks and      *)
(* saturates just above the timeout.  The frontend is its visible screen,  *)
(* one at a time.  A person waits for one command's answer before giving   *)
(* the next, except on the lock screen: it stays until the flourish that   *)
(* follows an opening has played, and its buttons may be pressed again     *)
(* while the first opening derives its key or its flourish plays.  Calls   *)
(* are served in order, so such a second opening comes before any command  *)
(* of the desktop.                                                         *)
(***************************************************************************)
EXTENDS Naturals

CONSTANTS
  Paths,      (* Shell files a user may create and open                     *)
  ZoneIds,    (* row ids of a zones table: 1 .. MaxZones                    *)
  Keys,       (* zone keys, one for every (password, salt) ever used        *)
  Contents,   (* what a zone's database may hold                            *)
  EmptyZone,  (* the contents of a zone that was just created               *)
  Timeout,    (* AUTO_LOCK_TIMEOUT, in ticks                                *)
  MaxFlourishes, (* bound: openings whose flourish plays at the same time   *)
  None        (* Rust's Option::None                                        *)

MaxIdle == Timeout + 1   \* the first elapsed time that exceeds the timeout

ZoneRow == [key : Keys, blobKey : Keys, content : Contents]
ZoneSession ==
  [key : Keys, content : Contents, home : Paths, idle : 0..MaxIdle, erred : BOOLEAN]

\* What SessionStore keeps of the two.
ZoneBox   == [holds : Contents, opens : BOOLEAN]
ZonePaper == [holds : Contents, home : Paths]

ASSUME ZoneIdsAssumption == ZoneIds \subseteq Nat \ {0}
ASSUME TimeoutAssumption == Timeout \in Nat \ {0}
ASSUME FlourishesAssumption == MaxFlourishes \in Nat \ {0}
ASSUME ContentsAssumption == EmptyZone \in Contents
ASSUME NoneAssumption ==
  None \notin Paths \union ZoneIds \union ZoneRow \union ZoneSession \union ZoneBox \union ZonePaper
              \union {"main", "watcher"}

VARIABLES
  zones,         (* zones[p][z]: row z of Shell file p, or None             *)
  nextId,        (* nextId[p]: the next AUTOINCREMENT id, 0 if no file p    *)
  shell,         (* the ShellSlot: open (a path or None), idle              *)
  sessions,      (* sessions[z]: the open zone z, or None                   *)
  shellLock,     (* the thread that owns the Shell mutex, or None           *)
  sessionsLock,  (* the thread that owns the sessions mutex, or None        *)
  main,          (* the command the main thread is inside                   *)
  watcher,       (* where the auto-lock watcher is                          *)
  screen,        (* the frontend's visible screen                           *)
  flourishes,    (* openings that were answered and have not shown the      *)
                 (* desktop yet: their flourish plays                       *)
  left           (* history: zones whose session was left behind when the   *)
                 (* watcher closed the Shell                                *)

disk   == <<zones, nextId>>
locks  == <<shellLock, sessionsLock>>
page   == <<screen, flourishes>>
vars   == <<zones, nextId, shell, sessions, shellLock, sessionsLock, main, watcher, screen,
            flourishes, left>>

MainLabels    == {"idle", "persist", "insert", "evict", "close", "exit"}
WatcherLabels == {"sleep", "clear", "close", "retain"}
Screens       == {"lock", "desktop", "system"}

AtRest == [at |-> "idle", zone |-> None]

Closed == [idle |-> 0, open |-> None]
NoSessions == [z \in ZoneIds |-> None]

Init ==
  /\ zones = [p \in Paths |-> [z \in ZoneIds |-> None]]
  /\ nextId = [p \in Paths |-> 0]
  /\ shell = Closed
  /\ sessions = NoSessions
  /\ shellLock = None
  /\ sessionsLock = None
  /\ main = AtRest
  /\ watcher = "sleep"
  /\ screen = "lock"
  /\ flourishes = 0
  /\ left = {}

-----------------------------------------------------------------------------
(* Helpers *)

\* The row decrypts with its own password (AES-GCM under the derived key).
Readable(p, z) == zones[p][z] # None /\ zones[p][z].blobKey = zones[p][z].key

\* A random salt gives a key nothing has used.
Fresh(k) ==
  /\ \A p \in Paths, z \in ZoneIds :
        zones[p][z] # None => k # zones[p][z].key /\ k # zones[p][z].blobKey
  /\ \A z \in ZoneIds : sessions[z] # None => k # sessions[z].key

\* Every command that reaches the Shell refreshes last_activity first.
TouchShell == shell' = [shell EXCEPT !.idle = 0]

NewRow(k, c) == [key |-> k, blobKey |-> k, content |-> c]

\* save_zone replaces the blob alone: encrypted with the session's key, while
\* the row keeps the salt and parameters of its own.
SavedRow(row, s) == [key |-> row.key, blobKey |-> s.key, content |-> s.content]

NewSession(p, row) ==
  [key |-> row.key, content |-> row.content, home |-> p, idle |-> 0, erred |-> FALSE]

\* A zone command refreshes the session's last_activity, may change its data,
\* and ends well or reports an error.
Used(s) == [s EXCEPT !.idle = 0]
Changed(s, c) == [s EXCEPT !.content = c]
Reported(s, failed) == [s EXCEPT !.erred = failed]

\* The main thread runs the next command; what the user can ask for depends
\* on the visible screen.
Commands(s) == main.at = "idle" /\ screen = s

\* A command that keeps the first of its two mutexes for its second half.
HoldShell(label, z) ==
  /\ shellLock' = "main"
  /\ main' = [at |-> label, zone |-> z]
  /\ UNCHANGED sessionsLock
HoldSessions(label, z) ==
  /\ sessionsLock' = "main"
  /\ main' = [at |-> label, zone |-> z]
  /\ UNCHANGED shellLock
ReleaseBoth ==
  /\ shellLock' = None
  /\ sessionsLock' = None
  /\ main' = AtRest

-----------------------------------------------------------------------------
(* Opening and creating a Shell, from the lock screen.  It stays up while the *)
(* flourish plays, so both may replace a Shell that is already open.          *)

FlourishStarts ==
  /\ flourishes < MaxFlourishes
  /\ flourishes' = flourishes + 1
  /\ UNCHANGED screen

CreateShell(p) ==
  /\ Commands("lock")
  /\ nextId[p] = 0
  /\ shellLock = None
  /\ nextId' = [nextId EXCEPT ![p] = 1]
  /\ shell' = [idle |-> 0, open |-> p]
  /\ FlourishStarts
  /\ UNCHANGED <<zones, sessions, locks, main, watcher, left>>

OpenShell(p) ==
  /\ Commands("lock")
  /\ nextId[p] # 0
  /\ shellLock = None
  /\ shell' = [idle |-> 0, open |-> p]
  /\ FlourishStarts
  /\ UNCHANGED <<disk, sessions, locks, main, watcher, left>>

\* The handler goes on and shows the desktop, which lists the zones, whatever screen
\* is up by then and whether or not the Shell is still open.
FlourishEnds ==
  /\ flourishes > 0
  /\ main.at = "idle"
  /\ shellLock = None
  /\ TouchShell
  /\ flourishes' = flourishes - 1
  /\ screen' = "desktop"
  /\ UNCHANGED <<disk, sessions, locks, main, watcher, left>>

-----------------------------------------------------------------------------
(* Commands that work on the Shell *)

\* list_zones, rename_zone, export_shell_backup, and any Shell command that
\* fails after it has refreshed last_activity.
ListZones ==
  /\ Commands("desktop")
  /\ shellLock = None
  /\ TouchShell
  /\ UNCHANGED <<disk, sessions, locks, main, watcher, page, left>>

CreateZone(k) ==
  /\ Commands("desktop")
  /\ shellLock = None
  /\ shell.open # None
  /\ nextId[shell.open] \in ZoneIds
  /\ Fresh(k)
  /\ TouchShell
  /\ zones' = [zones EXCEPT ![shell.open][nextId[shell.open]] = NewRow(k, EmptyZone)]
  /\ nextId' = [nextId EXCEPT ![shell.open] = @ + 1]
  /\ UNCHANGED <<sessions, locks, main, watcher, page, left>>

DeleteZone(z) ==
  /\ Commands("desktop")
  /\ shellLock = None
  /\ shell.open # None
  /\ zones[shell.open][z] # None
  /\ TouchShell
  /\ zones' = [zones EXCEPT ![shell.open][z] = None]
  /\ HoldShell("evict", z)
  /\ UNCHANGED <<nextId, sessions, watcher, page, left>>

ChangeZonePassword(z, k) ==
  /\ Commands("desktop")
  /\ shellLock = None
  /\ shell.open # None
  /\ Readable(shell.open, z)
  /\ Fresh(k)
  /\ TouchShell
  /\ zones' = [zones EXCEPT ![shell.open][z] = NewRow(k, @.content)]
  /\ HoldShell("evict", z)
  /\ UNCHANGED <<nextId, sessions, watcher, page, left>>

\* Mutant: the session survives its zone's deletion or password change.
MutEvictSession ==
  /\ main.at = "evict"
  /\ sessionsLock = None
  /\ ReleaseBoth
  /\ UNCHANGED <<disk, shell, sessions, watcher, page, left>>

\* delete_zone and change_zone_password drop the session of the zone.
EvictSession ==
  /\ main.at = "evict"
  /\ sessionsLock = None
  /\ sessions' = [sessions EXCEPT ![main.zone] = None]
  /\ ReleaseBoth
  /\ UNCHANGED <<disk, shell, watcher, page, left>>

OpenZone(z) ==
  /\ Commands("desktop")
  /\ shellLock = None
  /\ shell.open # None
  /\ Readable(shell.open, z)
  /\ TouchShell
  /\ HoldShell("insert", z)
  /\ UNCHANGED <<disk, sessions, watcher, page, left>>

\* The Shell mutex is still held, so the row is the one OpenZone decrypted.
InsertSession ==
  /\ main.at = "insert"
  /\ sessionsLock = None
  /\ sessions' = [sessions EXCEPT ![main.zone] =
                    NewSession(shell.open, zones[shell.open][main.zone])]
  /\ left' = left \ {main.zone}
  /\ ReleaseBoth
  /\ UNCHANGED <<disk, shell, watcher, page>>

-----------------------------------------------------------------------------
(* Commands that work on one open zone *)

LockZone(z) ==
  /\ Commands("desktop")
  /\ sessionsLock = None
  /\ sessions' = [sessions EXCEPT ![z] = None]
  /\ UNCHANGED <<disk, shell, locks, main, watcher, page, left>>

\* A command with mutate = false refreshes only the session's last_activity.
ReadZone(z) ==
  /\ Commands("desktop")
  /\ sessionsLock = None
  /\ sessions[z] # None
  /\ sessions' = [sessions EXCEPT ![z] = Used(@)]
  /\ UNCHANGED <<disk, shell, locks, main, watcher, page, left>>

\* Mutant: a mutating command that passes mutate = false.
MutMutateZone(z, c) ==
  /\ Commands("desktop")
  /\ sessionsLock = None
  /\ sessions[z] # None
  /\ sessions' = [sessions EXCEPT ![z] = Changed(Used(@), c)]
  /\ UNCHANGED <<disk, shell, locks, main, watcher, page, left>>

\* A command with mutate = true whose closure succeeds goes on to persist,
\* and keeps the sessions mutex.
MutateZone(z, c) ==
  /\ Commands("desktop")
  /\ sessionsLock = None
  /\ sessions[z] # None
  /\ sessions' = [sessions EXCEPT ![z] = Changed(Used(@), c)]
  /\ HoldSessions("persist", z)
  /\ UNCHANGED <<disk, shell, watcher, page, left>>

\* A closure that fails after it changed something (import_csv, import_kdbx
\* and add_files work row by row): the error returns before persist_zone.
MutateFails(z, c) ==
  /\ Commands("desktop")
  /\ sessionsLock = None
  /\ sessions[z] # None
  /\ sessions' = [sessions EXCEPT ![z] = Reported(Changed(Used(@), c), TRUE)]
  /\ UNCHANGED <<disk, shell, locks, main, watcher, page, left>>

\* Mutant: the save inserts a missing row, without its KDF columns.
MutSaveZone ==
  /\ main.at = "persist"
  /\ shellLock = None
  /\ shell.open # None
  /\ TouchShell
  /\ LET s == sessions[main.zone]
     IN  zones' = [zones EXCEPT ![shell.open][main.zone] =
           IF @ = None THEN [blobKey |-> s.key, content |-> s.content] ELSE SavedRow(@, s)]
  /\ ReleaseBoth
  /\ UNCHANGED <<nextId, sessions, watcher, page, left>>

\* persist_zone when the Shell is open and has the row: the blob is encrypted
\* with the session's key, whatever the row's password derives.
SaveZone ==
  /\ main.at = "persist"
  /\ shellLock = None
  /\ shell.open # None
  /\ zones[shell.open][main.zone] # None
  /\ TouchShell
  /\ zones' = [zones EXCEPT ![shell.open][main.zone] =
                 SavedRow(@, sessions[main.zone])]
  /\ sessions' = [sessions EXCEPT ![main.zone] = Reported(@, FALSE)]
  /\ ReleaseBoth
  /\ UNCHANGED <<nextId, watcher, page, left>>

\* persist_zone when the Shell is locked, the row is gone or the write fails.
SaveFails ==
  /\ main.at = "persist"
  /\ shellLock = None
  /\ TouchShell
  /\ sessions' = [sessions EXCEPT ![main.zone] = Reported(@, TRUE)]
  /\ ReleaseBoth
  /\ UNCHANGED <<disk, watcher, page, left>>

-----------------------------------------------------------------------------
(* Locking everything, leaving, and the screens *)

\* Mutant: lock_shell closes the Shell and forgets the open zones.
MutLockShell ==
  /\ main.at = "idle"
  /\ screen # "lock"
  /\ sessionsLock = None
  /\ HoldSessions("close", None)
  /\ UNCHANGED <<disk, shell, sessions, watcher, page, left>>

LockShell ==
  /\ main.at = "idle"
  /\ screen # "lock"
  /\ sessionsLock = None
  /\ sessions' = NoSessions
  /\ HoldSessions("close", None)
  /\ UNCHANGED <<disk, shell, watcher, page, left>>

CloseShell ==
  /\ main.at = "close"
  /\ shellLock = None
  /\ shell' = [shell EXCEPT !.open = None]
  /\ screen' = "lock"
  /\ ReleaseBoth
  /\ UNCHANGED <<disk, sessions, watcher, flourishes, left>>

\* The process ends, and is started again: only the disk keeps its state.
Restart ==
  /\ shell' = Closed
  /\ sessions' = NoSessions
  /\ watcher' = "sleep"
  /\ screen' = "lock"
  /\ flourishes' = 0
  /\ left' = {}
  /\ ReleaseBoth
  /\ UNCHANGED disk

\* emergency_exit releases the sessions mutex before it takes the Shell's.
EmergencyExit ==
  /\ main.at = "idle"
  /\ screen # "lock"
  /\ sessionsLock = None
  /\ sessions' = NoSessions
  /\ main' = [at |-> "exit", zone |-> None]
  /\ UNCHANGED <<disk, shell, locks, watcher, page, left>>

ExitProcess ==
  /\ main.at = "exit"
  /\ shellLock = None
  /\ Restart

\* The process dies (window closed, drive pulled, power lost) and is started
\* again.  A save is one SQLite transaction, so the disk keeps what it had.
Crash == Restart

\* The System view calls list_zones when it is shown and every three seconds.
ShowSystemView ==
  /\ Commands("desktop")
  /\ shellLock = None
  /\ TouchShell
  /\ screen' = "system"
  /\ UNCHANGED <<disk, sessions, locks, main, watcher, flourishes, left>>

PollSystemStatus ==
  /\ Commands("system")
  /\ shellLock = None
  /\ TouchShell
  /\ UNCHANGED <<disk, sessions, locks, main, watcher, page, left>>

\* Leaving it shows the desktop, which lists the zones again.
ShowDesktop ==
  /\ Commands("system")
  /\ shellLock = None
  /\ TouchShell
  /\ screen' = "desktop"
  /\ UNCHANGED <<disk, sessions, locks, main, watcher, flourishes, left>>

\* Every ten seconds the frontend asks is_shell_unlocked.
PollShellUnlocked ==
  /\ main.at = "idle"
  /\ screen # "lock"
  /\ shellLock = None
  /\ shell.open = None
  /\ screen' = "lock"
  /\ UNCHANGED <<disk, shell, sessions, locks, main, watcher, flourishes, left>>

-----------------------------------------------------------------------------
(* The auto-lock watcher, and time *)

\* Mutant: the Shell is kept open for as long as a zone is.
MutTimedOut ==
  /\ shell.open # None
  /\ shell.idle > Timeout
  /\ \A z \in ZoneIds : sessions[z] = None

TimedOut == shell.open # None /\ shell.idle > Timeout

\* Mutant: the verdict is acted on with the Shell mutex still held.
MutHoldingCheck ==
  /\ watcher = "sleep"
  /\ shellLock = None
  /\ watcher' = IF TimedOut THEN "clear" ELSE "retain"
  /\ shellLock' = IF TimedOut THEN "watcher" ELSE None
  /\ UNCHANGED <<disk, shell, sessions, sessionsLock, main, page, left>>

\* Mutant: zones are looked at only when the Shell itself is locked.
MutLazyCheck ==
  /\ watcher = "sleep"
  /\ shellLock = None
  /\ watcher' = IF TimedOut THEN "clear" ELSE "sleep"
  /\ UNCHANGED <<disk, shell, sessions, locks, main, page, left>>

\* The Shell mutex is released again before the verdict is acted on.
WatcherCheck ==
  /\ watcher = "sleep"
  /\ shellLock = None
  /\ watcher' = IF TimedOut THEN "clear" ELSE "retain"
  /\ UNCHANGED <<disk, shell, sessions, locks, main, page, left>>

WatcherClear ==
  /\ watcher = "clear"
  /\ sessionsLock = None
  /\ sessions' = NoSessions
  /\ watcher' = "close"
  /\ UNCHANGED <<disk, shell, locks, main, page, left>>

WatcherClose ==
  /\ watcher = "close"
  /\ shellLock = None
  /\ shell' = [shell EXCEPT !.open = None]
  /\ left' = {z \in ZoneIds : sessions[z] # None}
  /\ watcher' = "sleep"
  /\ UNCHANGED <<disk, sessions, locks, main, page>>

Expired(z) == sessions[z] # None /\ sessions[z].idle > Timeout

\* Mutant: idle zones are looked for only under an open Shell.
MutWatcherRetain ==
  /\ watcher = "retain"
  /\ sessionsLock = None
  /\ sessions' = [z \in ZoneIds |->
       IF Expired(z) /\ shell.open # None THEN None ELSE sessions[z]]
  /\ watcher' = "sleep"
  /\ UNCHANGED <<disk, shell, locks, main, page, left>>

WatcherRetain ==
  /\ watcher = "retain"
  /\ sessionsLock = None
  /\ sessions' = [z \in ZoneIds |-> IF Expired(z) THEN None ELSE sessions[z]]
  /\ watcher' = "sleep"
  /\ UNCHANGED <<disk, shell, locks, main, page, left>>

Older(idle) == IF idle < MaxIdle THEN idle + 1 ELSE idle
Aged(s) == [s EXCEPT !.idle = Older(@)]

Tick ==
  /\ shell' = [shell EXCEPT !.idle = Older(@)]
  /\ sessions' = [z \in ZoneIds |->
       IF sessions[z] = None THEN None ELSE Aged(sessions[z])]
  /\ UNCHANGED <<disk, locks, main, watcher, page, left>>

-----------------------------------------------------------------------------
\* Commands a person starts, and their second halves.
UserStarts ==
  \/ \E p \in Paths : CreateShell(p) \/ OpenShell(p)
  \/ ListZones
  \/ \E k \in Keys : CreateZone(k)
  \/ \E z \in ZoneIds : DeleteZone(z) \/ OpenZone(z) \/ LockZone(z) \/ ReadZone(z)
  \/ \E z \in ZoneIds, k \in Keys : ChangeZonePassword(z, k)
  \/ \E z \in ZoneIds, c \in Contents : MutateZone(z, c) \/ MutateFails(z, c)
  \/ LockShell
  \/ EmergencyExit
  \/ ShowSystemView
  \/ ShowDesktop

MainFinishes ==
  \/ EvictSession
  \/ InsertSession
  \/ SaveZone
  \/ SaveFails
  \/ CloseShell
  \/ ExitProcess

WatcherStep == WatcherCheck \/ WatcherClear \/ WatcherClose \/ WatcherRetain

Next ==
  \/ UserStarts
  \/ MainFinishes
  \/ FlourishEnds
  \/ PollSystemStatus
  \/ PollShellUnlocked
  \/ WatcherStep
  \/ Tick
  \/ Crash

Spec == Init /\ [][Next]_vars

\* Scheduling.  A thread that can run does run; a thread that waits for a
\* mutex gets it eventually, because its holder always releases it and
\* commands come from a person, with pauses between them.  The webview's
\* timers fire and their commands are queued like any other.  Time passes.
\* What a person starts is never guaranteed, and nothing here needs a flourish
\* to end.
Fairness ==
  /\ WF_vars(MainFinishes)
  /\ SF_vars(WatcherStep)
  /\ SF_vars(PollShellUnlocked)
  /\ SF_vars(PollSystemStatus)
  /\ WF_vars(Tick)

FairSpec == Spec /\ Fairness

-----------------------------------------------------------------------------
(* Properties *)

TypeOK ==
  /\ zones \in [Paths -> [ZoneIds -> ZoneRow \union {None}]]
  /\ nextId \in [Paths -> Nat]
  /\ shell \in [idle : 0..MaxIdle, open : Paths \union {None}]
  /\ sessions \in [ZoneIds -> ZoneSession \union {None}]
  /\ shellLock \in {None, "main", "watcher"}
  /\ sessionsLock \in {None, "main", "watcher"}
  /\ main \in [at : MainLabels, zone : ZoneIds \union {None}]
  /\ watcher \in WatcherLabels
  /\ screen \in Screens
  /\ flourishes \in 0..MaxFlourishes
  /\ left \subseteq ZoneIds

\* delete_zone or change_zone_password is between its row and its session.
Evicting(z) == main.at = "evict" /\ main.zone = z

\* A session holds the key that its row's password derives, in the Shell it
\* was opened from: change_zone_password and delete_zone evict the session,
\* or a later save_zone would leave the row with a blob its password cannot
\* decrypt (main.rs, the comment on change_zone_password).
HomeSessionsFit ==
  \A z \in ZoneIds :
    sessions[z] # None /\ ~Evicting(z) =>
      LET row == zones[sessions[z].home][z]
      IN  row # None /\ row.key = sessions[z].key

\* An open zone can be closed and opened again: its password decrypts its row.
OpenZonesReopen ==
  \A z \in ZoneIds :
    sessions[z] # None /\ ~Evicting(z) => Readable(sessions[z].home, z)

\* No two rows have the same key, since each has a random salt.
KeysDiffer ==
  \A p, q \in Paths, y, z \in ZoneIds :
    zones[p][y] # None /\ zones[q][z] # None /\ <<p, y>> # <<q, z>> =>
      zones[p][y].key # zones[q][z].key

\* The Shells and the open zones, as the abstract specification has them.
Boxed(row) ==
  IF row = None THEN None ELSE [holds |-> row.content, opens |-> row.blobKey = row.key]
OnDesk(s) == IF s = None THEN None ELSE [holds |-> s.content, home |-> s.home]
Boxes(rows)   == [p \in Paths |-> [z \in ZoneIds |-> Boxed(rows[p][z])]]
Papers(taken) == [z \in ZoneIds |-> OnDesk(taken[z])]
Store == INSTANCE SessionStore WITH at <- shell.open, kept <- Boxes(zones), desk <- Papers(sessions)

\* Commands in halves, the watcher in between, keys and evictions come to a
\* store without any of these: what is open is saved where it was opened from,
\* and where it is not, nothing else suffers than the zone in its place.
StoreSpec == Store!Spec

\* A row that its password decrypts never stops being decryptable, except by
\* the save of a session that was opened from a different Shell file.
OnlyForeignSavesBrick ==
  [][\A p \in Paths, z \in ZoneIds :
       Readable(p, z) /\ zones'[p][z] # None /\ ~Readable(p, z)'
         => sessions[z].home # p]_vars

\* What a session holds beyond its row is never silent: either its save is
\* still running, or some command on it has reported an error since.
UnsavedOnlyAfterError ==
  \A z \in ZoneIds :
    sessions[z] # None /\ ~Evicting(z) /\ sessions[z].home = shell.open =>
      \/ sessions[z].content = zones[shell.open][z].content
      \/ sessions[z].erred
      \/ main.at = "persist" /\ main.zone = z

\* A command that is half done still finds what it works on: the session it
\* is saving, or the open Shell and the row it is about to make a session of.
\* The watcher cannot take them away, because the first mutex is still held.
CommandKeepsItsGround ==
  /\ main.at = "persist" => main.zone \in ZoneIds /\ sessions[main.zone] # None
  /\ main.at = "insert" =>
       main.zone \in ZoneIds /\ shell.open # None /\ Readable(shell.open, main.zone)
  /\ main.at = "evict" => main.zone \in ZoneIds /\ shell.open # None

\* Commands take the two mutexes in both orders.  No cycle of waiting
\* follows: the watcher never waits for one mutex while it holds the other.
MainWaitsFor ==
  CASE main.at \in {"persist", "close", "exit"} -> shellLock
    [] main.at \in {"insert", "evict"} -> sessionsLock
    [] OTHER -> None
WatcherWaitsFor ==
  CASE watcher \in {"clear", "retain"} -> sessionsLock
    [] OTHER -> shellLock
NoLockCycle ==
  /\ ~(MainWaitsFor = "watcher" /\ WatcherWaitsFor = "main")
  /\ MainWaitsFor # "main"
  /\ WatcherWaitsFor # "watcher"

\* A session is away from its Shell only where the watcher closed that Shell
\* under it (finding in README, section 11).  lock_shell clears the sessions
\* before it closes the Shell; and a Shell that a second open_shell or
\* create_shell replaces, since the lock screen stays up over it while the
\* flourish plays, has no zone open yet but what the watcher left.
OnlyTheWatcherStrands ==
  \A z \in ZoneIds :
    sessions[z] # None /\ sessions[z].home # shell.open => z \in left

\* What the safety invariants above rest on: the inductive invariant.

\* A mutex is owned exactly while the main thread is inside a command that
\* took it first.
LocksMatchMain ==
  /\ sessionsLock = IF main.at \in {"persist", "close"} THEN "main" ELSE None
  /\ shellLock = IF main.at \in {"insert", "evict"} THEN "main" ELSE None

\* Row ids are handed out once (AUTOINCREMENT).
IdsBelowNext ==
  \A p \in Paths, z \in ZoneIds : zones[p][z] # None => z < nextId[p]

\* What a session holds is in its row, or its user has been told, or its save
\* is still running.
Clean(z) ==
  \/ sessions[z].content = zones[sessions[z].home][z].content
  \/ sessions[z].erred
  \/ main.at = "persist" /\ main.zone = z

\* UnsavedOnlyAfterError of a session whose Shell is closed.
CleanWhenClosed ==
  shell.open = None => \A z \in ZoneIds : sessions[z] # None => Clean(z)

\* Under the lock screen no command is half done and no zone is opened or
\* edited, so the sessions there are those the watcher left, as it left them.
UnderLockScreen ==
  screen = "lock" =>
    /\ main.at = "idle"
    /\ \A z \in ZoneIds :
         sessions[z] # None => z \in left /\ watcher # "close" /\ Clean(z)

\* Whoever is about to close the Shell has cleared the sessions, and only a
\* session of that same Shell can have come in since.
ClearedBeforeClose ==
  /\ main.at = "close" => \A z \in ZoneIds : sessions[z] = None
  /\ watcher = "close" =>
       \A z \in ZoneIds :
         sessions[z] # None => shell.open # None /\ sessions[z].home = shell.open

IInv ==
  /\ TypeOK
  /\ LocksMatchMain
  /\ IdsBelowNext
  /\ CommandKeepsItsGround
  /\ HomeSessionsFit
  /\ OnlyTheWatcherStrands
  /\ UnderLockScreen
  /\ UnsavedOnlyAfterError
  /\ CleanWhenClosed
  /\ ClearedBeforeClose

\* Where the watcher or the user locked the Shell under an open zone, the
\* session does not outlive it for good: it goes, or the user opens a Shell.
OrphanSession == shell.open = None /\ \E z \in ZoneIds : sessions[z] # None
OrphansGoAway == OrphanSession ~> ~OrphanSession

\* Each open Shell that nothing touches is locked in the end.
IdleShellLocks ==
  (shell.open # None /\ shell.idle > 0) ~> (shell.open = None \/ shell.idle = 0)

\* Each open zone that nothing touches is evicted in the end, even while
\* other zones and the Shell stay in use.
IdleZoneLocks ==
  \A z \in ZoneIds :
    (sessions[z] # None /\ sessions[z].idle > 0) ~>
      (sessions[z] = None \/ sessions[z].idle = 0)

-----------------------------------------------------------------------------
(* What comments of the code say, and its threads do not keep *)

\* "force-locks the Shell (and, with it, every open zone)": outside the two
\* steps of the lock itself, an open zone means an open Shell.
SessionsNeedShell ==
  shell.open = None /\ watcher # "close" /\ main.at = "idle" =>
    \A z \in ZoneIds : sessions[z] = None

\* "Open a zone by id with its own password": every row decrypts with it.
AllReadable ==
  \A p \in Paths, z \in ZoneIds : zones[p][z] # None => Readable(p, z)

\* "no data is buffered in memory waiting to be saved": between commands, a
\* session holds what its row holds.
NothingBuffered ==
  \A z \in ZoneIds :
    main.at = "idle" /\ sessions[z] # None /\ sessions[z].home = shell.open =>
      sessions[z].content = zones[shell.open][z].content

\* "... after inactivity": a Shell whose user starts nothing any more is
\* locked in the end.
AbandonedShellLocks ==
  <>[][~UserStarts]_vars => []<>(shell.open = None)

=============================================================================
