------------------------ MODULE VaultSessions_proofs ------------------------
(* Proofs about VaultSessions, for every set of Shell files, zone ids, keys *)
(* and contents and for every timeout.                                      *)
EXTENDS VaultSessions, TLAPS

\* An elapsed time stays in its range when it is reset and when it grows.
LEMMA IdleRange == 0 \in 0..MaxIdle /\ \A n \in 0..MaxIdle : Older(n) \in 0..MaxIdle
  BY TimeoutAssumption DEF MaxIdle, Older

\* What the updates of a session return.
LEMMA SessionFields ==
  ASSUME NEW s \in ZoneSession
  PROVE  /\ Used(s) \in ZoneSession
         /\ Used(s).home = s.home /\ Used(s).key = s.key
         /\ Used(s).content = s.content /\ Used(s).erred = s.erred
         /\ \A c \in Contents :
              /\ Changed(s, c) \in ZoneSession
              /\ Changed(s, c).home = s.home /\ Changed(s, c).key = s.key
              /\ Changed(s, c).content = c /\ Changed(s, c).erred = s.erred
         /\ \A failed \in BOOLEAN :
              /\ Reported(s, failed) \in ZoneSession
              /\ Reported(s, failed).home = s.home /\ Reported(s, failed).key = s.key
              /\ Reported(s, failed).content = s.content
              /\ Reported(s, failed).erred = failed
         /\ Aged(s) \in ZoneSession
         /\ Aged(s).home = s.home /\ Aged(s).key = s.key
         /\ Aged(s).content = s.content /\ Aged(s).erred = s.erred
  BY IdleRange DEF ZoneSession, Used, Changed, Reported, Aged

\* What the updates of a row, and the opening of one, return.
LEMMA RowFields ==
  ASSUME NEW row \in ZoneRow
  PROVE  /\ \A p \in Paths : /\ NewSession(p, row) \in ZoneSession
                             /\ NewSession(p, row).home = p
                             /\ NewSession(p, row).key = row.key
                             /\ NewSession(p, row).content = row.content
         /\ \A s \in ZoneSession : /\ SavedRow(row, s) \in ZoneRow
                                   /\ SavedRow(row, s).key = row.key
                                   /\ SavedRow(row, s).blobKey = s.key
                                   /\ SavedRow(row, s).content = s.content
         /\ \A k \in Keys : /\ NewRow(k, row.content) \in ZoneRow
                            /\ NewRow(k, row.content).key = k
                            /\ NewRow(k, row.content).blobKey = k
                            /\ NewRow(k, row.content).content = row.content
  BY IdleRange DEF ZoneRow, ZoneSession, NewSession, SavedRow, NewRow

\* What TypeOK says of one row, one session and the Shell slot.
LEMMA TypedParts ==
  ASSUME TypeOK
  PROVE  /\ \A p \in Paths, z \in ZoneIds : zones[p][z] # None => zones[p][z] \in ZoneRow
         /\ \A z \in ZoneIds : sessions[z] # None => sessions[z] \in ZoneSession
         /\ shell.open # None => shell.open \in Paths
         /\ \A z \in ZoneIds : sessions[z] # None => sessions[z].home \in Paths
  BY DEF TypeOK, ZoneSession

\* The variables keep their types: one step per action.
LEMMA TypeInductive == TypeOK /\ CommandKeepsItsGround /\ [Next]_vars => TypeOK'
<1> SUFFICES ASSUME TypeOK, CommandKeepsItsGround, [Next]_vars PROVE TypeOK'
  OBVIOUS
<1>0. /\ \A p \in Paths, z \in ZoneIds : zones[p][z] # None => zones[p][z] \in ZoneRow
      /\ \A z \in ZoneIds : sessions[z] # None => sessions[z] \in ZoneSession
      /\ shell.open # None => shell.open \in Paths
  BY TypedParts
<1> USE DEF TypeOK, disk, locks, page, Screens, MainLabels, WatcherLabels, AtRest,
        Commands, TouchShell, HoldShell, HoldSessions, ReleaseBoth
<1>1. ASSUME NEW p \in Paths, CreateShell(p) PROVE TypeOK'
  BY <1>1, IdleRange, FlourishesAssumption DEF CreateShell, FlourishStarts
<1>2. ASSUME NEW p \in Paths, OpenShell(p) PROVE TypeOK'
  BY <1>2, IdleRange, FlourishesAssumption DEF OpenShell, FlourishStarts
<1>3. CASE ListZones
  BY <1>3, IdleRange DEF ListZones
<1>4. ASSUME NEW k \in Keys, CreateZone(k) PROVE TypeOK'
  BY <1>4, IdleRange, ContentsAssumption DEF CreateZone, NewRow, ZoneRow
<1>5. ASSUME NEW z \in ZoneIds, DeleteZone(z) PROVE TypeOK'
  BY <1>5, IdleRange DEF DeleteZone
<1>6. ASSUME NEW z \in ZoneIds, OpenZone(z) PROVE TypeOK'
  BY <1>6, IdleRange DEF OpenZone
<1>7. ASSUME NEW z \in ZoneIds, LockZone(z) PROVE TypeOK'
  BY <1>7 DEF LockZone
<1>8. ASSUME NEW z \in ZoneIds, ReadZone(z) PROVE TypeOK'
  BY <1>0, <1>8, SessionFields DEF ReadZone
<1>9. ASSUME NEW z \in ZoneIds, NEW k \in Keys, ChangeZonePassword(z, k) PROVE TypeOK'
  <2>1. NewRow(k, zones[shell.open][z].content) \in ZoneRow
    BY <1>0, <1>9, RowFields DEF ChangeZonePassword, Readable
  <2>2. QED
    BY <1>9, <2>1, IdleRange DEF ChangeZonePassword
<1>10. ASSUME NEW z \in ZoneIds, NEW c \in Contents, MutateZone(z, c) PROVE TypeOK'
  <2>1. Changed(Used(sessions[z]), c) \in ZoneSession
    BY <1>0, <1>10, SessionFields DEF MutateZone
  <2>2. QED
    BY <1>10, <2>1 DEF MutateZone
<1>11. ASSUME NEW z \in ZoneIds, NEW c \in Contents, MutateFails(z, c) PROVE TypeOK'
  <2>1. Changed(Used(sessions[z]), c) \in ZoneSession
    BY <1>0, <1>11, SessionFields DEF MutateFails
  <2>2. Reported(Changed(Used(sessions[z]), c), TRUE) \in ZoneSession
    BY <2>1, SessionFields
  <2>3. QED
    BY <1>11, <2>2 DEF MutateFails
<1>12. CASE LockShell
  BY <1>12 DEF LockShell, NoSessions
<1>13. CASE EmergencyExit
  BY <1>13 DEF EmergencyExit, NoSessions
<1>14. CASE ShowSystemView
  BY <1>14, IdleRange DEF ShowSystemView
<1>15. CASE ShowDesktop
  BY <1>15, IdleRange DEF ShowDesktop
<1>16. CASE EvictSession
  BY <1>16 DEF EvictSession
<1>17. CASE InsertSession
  <2>1. main.zone \in ZoneIds /\ shell.open \in Paths
    BY <1>0, <1>17 DEF InsertSession, CommandKeepsItsGround
  <2>2. zones[shell.open][main.zone] \in ZoneRow
    BY <1>0, <1>17, <2>1 DEF InsertSession, CommandKeepsItsGround, Readable
  <2>3. NewSession(shell.open, zones[shell.open][main.zone]) \in ZoneSession
    BY <2>1, <2>2, RowFields
  <2>4. QED
    BY <1>17, <2>3 DEF InsertSession
<1>18. CASE SaveZone
  <2>1. main.zone \in ZoneIds /\ sessions[main.zone] \in ZoneSession
    BY <1>0, <1>18 DEF SaveZone, CommandKeepsItsGround
  <2>2. shell.open \in Paths /\ zones[shell.open][main.zone] \in ZoneRow
    BY <1>0, <1>18, <2>1 DEF SaveZone
  <2>3. SavedRow(zones[shell.open][main.zone], sessions[main.zone]) \in ZoneRow
    BY <2>1, <2>2, RowFields
  <2>4. Reported(sessions[main.zone], FALSE) \in ZoneSession
    BY <2>1, SessionFields
  <2>5. QED
    BY <1>18, <2>1, <2>2, <2>3, <2>4, IdleRange DEF SaveZone
<1>19. CASE SaveFails
  <2>1. main.zone \in ZoneIds /\ sessions[main.zone] \in ZoneSession
    BY <1>0, <1>19 DEF SaveFails, CommandKeepsItsGround
  <2>2. Reported(sessions[main.zone], TRUE) \in ZoneSession
    BY <2>1, SessionFields
  <2>3. QED
    BY <1>19, <2>1, <2>2, IdleRange DEF SaveFails
<1>20. CASE CloseShell
  BY <1>20 DEF CloseShell
<1>21. CASE ExitProcess \/ Crash
  BY <1>21, IdleRange, FlourishesAssumption DEF ExitProcess, Crash, Restart, Closed, NoSessions
<1>22. CASE PollSystemStatus
  BY <1>22, IdleRange DEF PollSystemStatus
<1>23. CASE PollShellUnlocked
  BY <1>23 DEF PollShellUnlocked
<1>24. CASE WatcherCheck
  BY <1>24 DEF WatcherCheck
<1>25. CASE WatcherClear
  BY <1>25 DEF WatcherClear, NoSessions
<1>26. CASE WatcherClose
  BY <1>26 DEF WatcherClose
<1>27. CASE WatcherRetain
  BY <1>27 DEF WatcherRetain
<1>28. CASE Tick
  <2>1. shell' \in [idle : 0..MaxIdle, open : Paths \union {None}]
    BY <1>28, IdleRange DEF Tick
  <2>2. QED
    BY <1>0, <1>28, <2>1, SessionFields DEF Tick
<1>29. CASE UNCHANGED vars
  BY <1>29 DEF vars
<1>30. CASE FlourishEnds
  BY <1>30, IdleRange, FlourishesAssumption DEF FlourishEnds
<1> HIDE DEF TypeOK, disk, locks, page, Screens, MainLabels, WatcherLabels, AtRest,
        Commands, TouchShell, HoldShell, HoldSessions, ReleaseBoth
<1>31. QED
  BY <1>1, <1>2, <1>3, <1>4, <1>5, <1>6, <1>7, <1>8, <1>9, <1>10, <1>11, <1>12, <1>13,
     <1>14, <1>15, <1>16, <1>17, <1>18, <1>19, <1>20, <1>21, <1>22, <1>23, <1>24, <1>25,
     <1>26, <1>27, <1>28, <1>29, <1>30 DEF Next, UserStarts, MainFinishes, WatcherStep

-----------------------------------------------------------------------------
\* Six actions write to disk.
LEMMA OtherActionsKeepDisk ==
  [Next]_vars =>
    \/ \E p \in Paths : CreateShell(p)
    \/ \E k \in Keys : CreateZone(k)
    \/ \E z \in ZoneIds : DeleteZone(z)
    \/ \E z \in ZoneIds, k \in Keys : ChangeZonePassword(z, k)
    \/ SaveZone
    \/ UNCHANGED disk
<1>1. ASSUME NEW p \in Paths, OpenShell(p) PROVE UNCHANGED disk
  BY <1>1 DEF OpenShell
<1>2. CASE ListZones \/ FlourishEnds \/ ShowSystemView \/ ShowDesktop \/ PollSystemStatus
           \/ PollShellUnlocked
  BY <1>2 DEF ListZones, FlourishEnds, ShowSystemView, ShowDesktop, PollSystemStatus,
              PollShellUnlocked
<1>3. ASSUME NEW z \in ZoneIds, OpenZone(z) \/ LockZone(z) \/ ReadZone(z)
      PROVE  UNCHANGED disk
  BY <1>3 DEF OpenZone, LockZone, ReadZone
<1>4. ASSUME NEW z \in ZoneIds, NEW c \in Contents, MutateZone(z, c) \/ MutateFails(z, c)
      PROVE  UNCHANGED disk
  BY <1>4 DEF MutateZone, MutateFails
<1>5. CASE LockShell \/ EmergencyExit \/ EvictSession \/ InsertSession \/ SaveFails
  BY <1>5 DEF LockShell, EmergencyExit, EvictSession, InsertSession, SaveFails
<1>6. CASE CloseShell \/ ExitProcess \/ Crash
  BY <1>6 DEF CloseShell, ExitProcess, Crash, Restart
<1>7. CASE WatcherStep \/ Tick
  BY <1>7 DEF WatcherStep, WatcherCheck, WatcherClear, WatcherClose, WatcherRetain, Tick
<1>8. CASE UNCHANGED vars
  BY <1>8 DEF vars, disk
<1>9. QED
  BY <1>1, <1>2, <1>3, <1>4, <1>5, <1>6, <1>7, <1>8 DEF Next, UserStarts, MainFinishes

\* The mutexes follow the main thread's place in its command.
LEMMA LocksInductive == TypeOK /\ LocksMatchMain /\ [Next]_vars => LocksMatchMain'
<1> SUFFICES ASSUME TypeOK, LocksMatchMain, [Next]_vars PROVE LocksMatchMain'
  OBVIOUS
<1> USE DEF LocksMatchMain, locks, disk, AtRest, Commands
<1>1. ASSUME NEW p \in Paths, CreateShell(p) \/ OpenShell(p) PROVE LocksMatchMain'
  BY <1>1 DEF CreateShell, OpenShell
<1>2. ASSUME NEW k \in Keys, CreateZone(k) PROVE LocksMatchMain'
  BY <1>2 DEF CreateZone
<1>3. CASE ListZones \/ FlourishEnds \/ ShowSystemView \/ ShowDesktop \/ PollSystemStatus
           \/ PollShellUnlocked
  BY <1>3 DEF ListZones, FlourishEnds, ShowSystemView, ShowDesktop, PollSystemStatus,
              PollShellUnlocked
<1>4. ASSUME NEW z \in ZoneIds, DeleteZone(z) \/ OpenZone(z) PROVE LocksMatchMain'
  BY <1>4 DEF DeleteZone, OpenZone, HoldShell
<1>5. ASSUME NEW z \in ZoneIds, NEW k \in Keys, ChangeZonePassword(z, k) PROVE LocksMatchMain'
  BY <1>5 DEF ChangeZonePassword, HoldShell
<1>6. ASSUME NEW z \in ZoneIds, LockZone(z) \/ ReadZone(z) PROVE LocksMatchMain'
  BY <1>6 DEF LockZone, ReadZone
<1>7. ASSUME NEW z \in ZoneIds, NEW c \in Contents, MutateZone(z, c) PROVE LocksMatchMain'
  BY <1>7 DEF MutateZone, HoldSessions
<1>8. ASSUME NEW z \in ZoneIds, NEW c \in Contents, MutateFails(z, c) PROVE LocksMatchMain'
  BY <1>8 DEF MutateFails
<1>9. CASE LockShell \/ EmergencyExit
  BY <1>9 DEF LockShell, EmergencyExit, HoldSessions
<1>10. CASE EvictSession \/ InsertSession \/ SaveZone \/ SaveFails
  <2>1. ReleaseBoth
    BY <1>10 DEF EvictSession, InsertSession, SaveZone, SaveFails
  <2>2. QED
    BY <2>1 DEF ReleaseBoth
<1>11. CASE CloseShell \/ ExitProcess \/ Crash
  BY <1>11 DEF CloseShell, ExitProcess, Crash, Restart, ReleaseBoth
<1>12. CASE WatcherStep \/ Tick
  BY <1>12 DEF WatcherStep, WatcherCheck, WatcherClear, WatcherClose, WatcherRetain, Tick
<1>13. CASE UNCHANGED vars
  BY <1>13 DEF vars
<1>14. QED
  BY <1>1, <1>2, <1>3, <1>4, <1>5, <1>6, <1>7, <1>8, <1>9, <1>10, <1>11, <1>12, <1>13
     DEF Next, UserStarts, MainFinishes

\* A zone id is given out once, so a new row never lands under an old session.
LEMMA IdsInductive == TypeOK /\ CommandKeepsItsGround /\ IdsBelowNext /\ [Next]_vars => IdsBelowNext'
<1> SUFFICES ASSUME TypeOK, CommandKeepsItsGround, IdsBelowNext, [Next]_vars
             PROVE  IdsBelowNext'
  OBVIOUS
<1>1. ASSUME NEW p \in Paths, CreateShell(p) PROVE IdsBelowNext'
  BY <1>1, ZoneIdsAssumption DEF CreateShell, IdsBelowNext, TypeOK
<1>2. ASSUME NEW k \in Keys, CreateZone(k) PROVE IdsBelowNext'
  <2>1. PICK q \in Paths : q = shell.open
    BY <1>2, TypedParts DEF CreateZone
  <2>2. PICK n \in ZoneIds : n = nextId[q]
    BY <1>2, <2>1 DEF CreateZone
  <2>3. /\ nextId' = [nextId EXCEPT ![q] = n + 1]
        /\ zones' = [zones EXCEPT ![q][n] = NewRow(k, EmptyZone)]
    BY <1>2, <2>1, <2>2 DEF CreateZone
  <2>4. n \in Nat /\ ZoneIds \subseteq Nat
    BY ZoneIdsAssumption
  <2>5. ASSUME NEW p \in Paths, NEW z \in ZoneIds, zones'[p][z] # None
        PROVE  z < nextId'[p]
    <3>1. CASE p = q /\ z = n
      BY <2>3, <2>4, <3>1 DEF TypeOK
    <3>2. CASE ~(p = q /\ z = n)
      <4>1. zones[p][z] # None
        BY <2>3, <2>5, <3>2 DEF TypeOK
      <4>2. z < nextId[p]
        BY <4>1 DEF IdsBelowNext
      <4> QED BY <2>2, <2>3, <2>4, <4>2 DEF TypeOK
    <3> QED BY <3>1, <3>2
  <2> QED BY <2>5 DEF IdsBelowNext
<1>3. ASSUME NEW z \in ZoneIds, DeleteZone(z) PROVE IdsBelowNext'
  BY <1>3, ZoneIdsAssumption DEF DeleteZone, IdsBelowNext, TypeOK
<1>4. ASSUME NEW z \in ZoneIds, NEW k \in Keys, ChangeZonePassword(z, k) PROVE IdsBelowNext'
  BY <1>4, ZoneIdsAssumption DEF ChangeZonePassword, Readable, IdsBelowNext, TypeOK
<1>5. CASE SaveZone
  BY <1>5, ZoneIdsAssumption DEF SaveZone, IdsBelowNext, TypeOK
<1>6. CASE UNCHANGED disk
  BY <1>6 DEF disk, IdsBelowNext
<1>7. QED
  BY <1>1, <1>2, <1>3, <1>4, <1>5, <1>6, OtherActionsKeepDisk

\* What a step other than InsertSession makes of an open zone that it leaves open.
LEMMA SessionSteps ==
  ASSUME TypeOK, CommandKeepsItsGround, [Next]_vars, ~InsertSession,
         NEW z \in ZoneIds, sessions'[z] # None
  PROVE  /\ sessions[z] \in ZoneSession
         /\ \/ sessions'[z] = sessions[z]
            \/ sessions'[z] = Used(sessions[z])
            \/ sessions'[z] = Aged(sessions[z])
            \/ \E c \in Contents : /\ sessions'[z] = Changed(Used(sessions[z]), c)
                                   /\ main' = [at |-> "persist", zone |-> z]
            \/ \E c \in Contents : sessions'[z] = Reported(Changed(Used(sessions[z]), c), TRUE)
            \/ \E failed \in BOOLEAN : /\ sessions'[z] = Reported(sessions[z], failed)
                                       /\ failed \/ (SaveZone /\ main.zone = z)
<1> DEFINE Step == \/ sessions'[z] = sessions[z]
                   \/ sessions'[z] = Used(sessions[z])
                   \/ sessions'[z] = Aged(sessions[z])
                   \/ \E c \in Contents : /\ sessions'[z] = Changed(Used(sessions[z]), c)
                                          /\ main' = [at |-> "persist", zone |-> z]
                   \/ \E c \in Contents :
                        sessions'[z] = Reported(Changed(Used(sessions[z]), c), TRUE)
                   \/ \E failed \in BOOLEAN : /\ sessions'[z] = Reported(sessions[z], failed)
                                              /\ failed \/ (SaveZone /\ main.zone = z)
           Kept == sessions[z] # None /\ Step
<1>0. /\ \A y \in ZoneIds : sessions[y] # None => sessions[y] \in ZoneSession
      /\ sessions \in [ZoneIds -> ZoneSession \union {None}]
  BY TypedParts DEF TypeOK
<1> SUFFICES Kept
  BY <1>0
<1>1. ASSUME sessions' = sessions PROVE Kept
  BY <1>1
<1>2. ASSUME sessions' = NoSessions PROVE Kept
  BY <1>2 DEF NoSessions
<1>3. ASSUME NEW y \in ZoneIds, sessions' = [sessions EXCEPT ![y] = None] PROVE Kept
  BY <1>0, <1>3
<1>4. ASSUME NEW y \in ZoneIds, NEW s, sessions[y] # None, y # z,
             sessions' = [sessions EXCEPT ![y] = s]
      PROVE  Kept
  BY <1>0, <1>4
<1>5. ASSUME sessions[z] # None, Step PROVE Kept
  BY <1>5
<1> HIDE DEF Kept
<1>6. ASSUME NEW q \in Paths, CreateShell(q) \/ OpenShell(q) PROVE Kept
  BY <1>1, <1>6 DEF CreateShell, OpenShell
<1>7. CASE ListZones \/ FlourishEnds \/ ShowSystemView \/ ShowDesktop \/ PollSystemStatus
           \/ PollShellUnlocked
  BY <1>1, <1>7 DEF ListZones, FlourishEnds, ShowSystemView, ShowDesktop, PollSystemStatus,
                    PollShellUnlocked
<1>8. ASSUME NEW k \in Keys, CreateZone(k) PROVE Kept
  BY <1>1, <1>8 DEF CreateZone
<1>9. ASSUME NEW y \in ZoneIds, DeleteZone(y) \/ OpenZone(y) PROVE Kept
  BY <1>1, <1>9 DEF DeleteZone, OpenZone
<1>10. ASSUME NEW y \in ZoneIds, NEW k \in Keys, ChangeZonePassword(y, k) PROVE Kept
  BY <1>1, <1>10 DEF ChangeZonePassword
<1>11. ASSUME NEW y \in ZoneIds, LockZone(y) PROVE Kept
  BY <1>3, <1>11 DEF LockZone
<1>12. ASSUME NEW y \in ZoneIds, ReadZone(y) PROVE Kept
  <2>1. CASE y = z
    BY <1>0, <1>5, <1>12, <2>1 DEF ReadZone
  <2>2. CASE y # z
    BY <1>4, <1>12, <2>2 DEF ReadZone
  <2>3. QED
    BY <2>1, <2>2
<1>13. ASSUME NEW y \in ZoneIds, NEW c \in Contents,
              MutateZone(y, c) \/ MutateFails(y, c)
       PROVE  Kept
  <2>1. CASE y = z
    <3>1. \/ sessions'[z] = Changed(Used(sessions[z]), c) /\ main' = [at |-> "persist", zone |-> z]
          \/ sessions'[z] = Reported(Changed(Used(sessions[z]), c), TRUE)
      BY <1>0, <1>13, <2>1 DEF MutateZone, MutateFails, HoldSessions
    <3>2. QED
      BY <1>5, <1>13, <2>1, <3>1 DEF MutateZone, MutateFails
  <2>2. CASE y # z
    BY <1>4, <1>13, <2>2 DEF MutateZone, MutateFails
  <2>3. QED
    BY <2>1, <2>2
<1>14. CASE LockShell \/ EmergencyExit \/ ExitProcess \/ Crash \/ WatcherClear
  BY <1>2, <1>14 DEF LockShell, EmergencyExit, ExitProcess, Crash, Restart, WatcherClear
<1>15. CASE EvictSession
  BY <1>3, <1>15 DEF EvictSession, CommandKeepsItsGround
<1>16. CASE SaveZone \/ SaveFails
  <2>1. main.zone \in ZoneIds /\ sessions[main.zone] # None
    BY <1>16 DEF SaveZone, SaveFails, CommandKeepsItsGround
  <2>2. PICK failed \in BOOLEAN :
          /\ sessions' = [sessions EXCEPT ![main.zone] = Reported(sessions[main.zone], failed)]
          /\ failed \/ SaveZone
    BY <1>16 DEF SaveZone, SaveFails
  <2>3. CASE main.zone = z
    BY <1>0, <1>5, <2>1, <2>2, <2>3
  <2>4. CASE main.zone # z
    BY <1>4, <2>1, <2>2, <2>4
  <2>5. QED
    BY <2>3, <2>4
<1>17. CASE WatcherRetain
  BY <1>0, <1>5, <1>17 DEF WatcherRetain
<1>18. CASE Tick
  BY <1>0, <1>5, <1>18 DEF Tick
<1>19. CASE CloseShell \/ WatcherCheck \/ WatcherClose
  BY <1>1, <1>19 DEF CloseShell, WatcherCheck, WatcherClose
<1>20. CASE UNCHANGED vars
  BY <1>1, <1>20 DEF vars
<1>21. QED
  BY <1>6, <1>7, <1>8, <1>9, <1>10, <1>11, <1>12, <1>13, <1>14, <1>15, <1>16,
     <1>17, <1>18, <1>19, <1>20 DEF Next, UserStarts, MainFinishes, WatcherStep

\* Only InsertSession makes a session: every other step keeps the home and the
\* key of the sessions it leaves.
LEMMA SessionsKeepHome ==
  ASSUME TypeOK, CommandKeepsItsGround, [Next]_vars, ~InsertSession,
         NEW z \in ZoneIds, sessions'[z] # None
  PROVE  /\ sessions[z] # None
         /\ sessions'[z].home = sessions[z].home
         /\ sessions'[z].key = sessions[z].key
<1> DEFINE s == sessions[z]
<1>1. s \in ZoneSession
  BY SessionSteps
<1>2. /\ Used(s) \in ZoneSession /\ Used(s).home = s.home /\ Used(s).key = s.key
      /\ Aged(s).home = s.home /\ Aged(s).key = s.key
      /\ \A failed \in BOOLEAN :
           Reported(s, failed).home = s.home /\ Reported(s, failed).key = s.key
  BY <1>1, SessionFields
<1>3. ASSUME NEW c \in Contents
      PROVE  /\ Changed(Used(s), c) \in ZoneSession
             /\ Changed(Used(s), c).home = s.home /\ Changed(Used(s), c).key = s.key
  BY <1>2, SessionFields
<1>4. ASSUME NEW c \in Contents
      PROVE  /\ Reported(Changed(Used(s), c), TRUE).home = s.home
             /\ Reported(Changed(Used(s), c), TRUE).key = s.key
  <2>1. \A t \in ZoneSession : /\ Reported(t, TRUE).home = t.home
                               /\ Reported(t, TRUE).key = t.key
    BY SessionFields
  <2>2. QED
    BY <1>3, <2>1
<1>5. s # None
  BY <1>1, NoneAssumption
<1>6. \/ sessions'[z] = s
      \/ sessions'[z] = Used(s)
      \/ sessions'[z] = Aged(s)
      \/ \E c \in Contents : sessions'[z] = Changed(Used(s), c)
      \/ \E c \in Contents : sessions'[z] = Reported(Changed(Used(s), c), TRUE)
      \/ \E failed \in BOOLEAN : sessions'[z] = Reported(s, failed)
  BY SessionSteps
<1> HIDE DEF s
<1>7. sessions'[z].home = s.home /\ sessions'[z].key = s.key
  BY <1>2, <1>3, <1>4, <1>6
<1> QED BY <1>5, <1>7 DEF s

\* An eviction under way goes on until the session is gone.
LEMMA EvictionEnds ==
  ASSUME TypeOK, [Next]_vars, NEW y \in ZoneIds, sessions'[y] # None, Evicting(y)
  PROVE  Evicting(y)'
<1> SUFFICES Evicting(y)'
  OBVIOUS
<1> USE DEF Evicting
<1>1. CASE EvictSession
  BY <1>1 DEF EvictSession, TypeOK
<1>2. CASE Crash \/ ExitProcess
  BY <1>2 DEF Crash, ExitProcess, Restart, NoSessions
<1>3. CASE WatcherStep \/ Tick
  BY <1>3 DEF WatcherStep, WatcherCheck, WatcherClear, WatcherClose, WatcherRetain, Tick
<1>4. CASE UNCHANGED vars
  BY <1>4 DEF vars
<1>5. QED
  BY <1>1, <1>2, <1>3, <1>4
     DEF Next, UserStarts, MainFinishes, Commands, CreateShell, OpenShell, FlourishEnds, ListZones,
         CreateZone, DeleteZone, OpenZone, LockZone, ReadZone, ChangeZonePassword,
         MutateZone, MutateFails, LockShell, EmergencyExit, ShowSystemView, ShowDesktop,
         PollSystemStatus, PollShellUnlocked, InsertSession, SaveZone, SaveFails, CloseShell

\* A row that is not being evicted changes only when its session is saved.
LEMMA RowsStay ==
  ASSUME TypeOK, CommandKeepsItsGround, IdsBelowNext, [Next]_vars,
         NEW p \in Paths, NEW y \in ZoneIds, zones[p][y] # None, ~Evicting(y)',
         ~(SaveZone /\ shell.open = p /\ main.zone = y)
  PROVE  zones'[p][y] = zones[p][y]
<1> DEFINE Kept == zones'[p][y] = zones[p][y]
<1> SUFFICES Kept
  OBVIOUS
<1>0. /\ zones \in [Paths -> [ZoneIds -> ZoneRow \union {None}]]
      /\ shell.open # None => shell.open \in Paths
  BY TypedParts DEF TypeOK
<1>1. CASE zones' = zones
  BY <1>1
<1>2. ASSUME NEW q \in Paths, NEW x \in ZoneIds, NEW row,
             q # p \/ x # y, zones' = [zones EXCEPT ![q][x] = row]
      PROVE  Kept
  BY <1>0, <1>2
<1>3. ASSUME NEW k \in Keys, CreateZone(k) PROVE Kept
  <2>1. shell.open \in Paths /\ nextId[shell.open] \in ZoneIds
    BY <1>0, <1>3 DEF CreateZone
  <2>2. shell.open # p \/ nextId[shell.open] # y
    BY <2>1, ZoneIdsAssumption DEF IdsBelowNext
  <2>3. QED
    BY <1>2, <1>3, <2>1, <2>2 DEF CreateZone
<1>4. ASSUME NEW x \in ZoneIds, DeleteZone(x) PROVE Kept
  <2>1. shell.open \in Paths /\ x # y
    BY <1>0, <1>4 DEF DeleteZone, HoldShell, Evicting
  <2>2. QED
    BY <1>2, <1>4, <2>1 DEF DeleteZone
<1>5. ASSUME NEW x \in ZoneIds, NEW k \in Keys, ChangeZonePassword(x, k) PROVE Kept
  <2>1. shell.open \in Paths /\ x # y
    BY <1>0, <1>5 DEF ChangeZonePassword, HoldShell, Evicting
  <2>2. QED
    BY <1>2, <1>5, <2>1 DEF ChangeZonePassword
<1>6. CASE SaveZone
  BY <1>0, <1>2, <1>6 DEF SaveZone, CommandKeepsItsGround
<1>7. QED
  <2>1. (\E q \in Paths : CreateShell(q)) \/ UNCHANGED disk => zones' = zones
    BY DEF CreateShell, disk
  <2>2. QED
    BY <1>1, <1>3, <1>4, <1>5, <1>6, <2>1, OtherActionsKeepDisk

\* The row that SaveZone writes.
LEMMA SavedRowOf ==
  ASSUME TypeOK, CommandKeepsItsGround, SaveZone
  PROVE  LET row == zones[shell.open][main.zone]
             s   == sessions[main.zone]
             new == zones'[shell.open][main.zone]
         IN  /\ shell.open \in Paths /\ main.zone \in ZoneIds
             /\ row \in ZoneRow /\ s \in ZoneSession
             /\ new # None /\ new.key = row.key
             /\ new.blobKey = s.key /\ new.content = s.content
<1> DEFINE row == zones[shell.open][main.zone]
           s   == sessions[main.zone]
<1>1. /\ main.zone \in ZoneIds /\ s \in ZoneSession
      /\ shell.open \in Paths /\ row \in ZoneRow
  BY TypedParts DEF SaveZone, CommandKeepsItsGround
<1>2. /\ SavedRow(row, s) \in ZoneRow /\ SavedRow(row, s).key = row.key
      /\ SavedRow(row, s).blobKey = s.key /\ SavedRow(row, s).content = s.content
  BY <1>1, RowFields
<1>3. zones'[shell.open][main.zone] = SavedRow(row, s)
  BY <1>1 DEF SaveZone, TypeOK
<1>4. QED
  BY <1>1, <1>2, <1>3, NoneAssumption

\* A row under a session keeps its key, unless the step begins its eviction.
LEMMA RowsKeepKey ==
  ASSUME TypeOK, CommandKeepsItsGround, IdsBelowNext, [Next]_vars,
         NEW p \in Paths, NEW y \in ZoneIds, zones[p][y] # None, ~Evicting(y)'
  PROVE  zones'[p][y] # None /\ zones'[p][y].key = zones[p][y].key
<1>1. CASE SaveZone /\ shell.open = p /\ main.zone = y
  BY <1>1, SavedRowOf
<1>2. CASE ~(SaveZone /\ shell.open = p /\ main.zone = y)
  BY <1>2, RowsStay
<1>3. QED
  BY <1>1, <1>2

\* The keys of rows and sessions stay together.
LEMMA HomeInductive ==
  TypeOK /\ CommandKeepsItsGround /\ IdsBelowNext /\ HomeSessionsFit /\ [Next]_vars
    => HomeSessionsFit'
<1> SUFFICES ASSUME TypeOK, CommandKeepsItsGround, IdsBelowNext, HomeSessionsFit, [Next]_vars,
                    NEW y \in ZoneIds, sessions'[y] # None, ~Evicting(y)'
             PROVE  LET row == zones'[sessions'[y].home][y]
                    IN  row # None /\ row.key = sessions'[y].key
  BY DEF HomeSessionsFit
<1> DEFINE Fits(s) == zones[s.home][y] # None /\ zones[s.home][y].key = s.key
<1>0. /\ sessions \in [ZoneIds -> ZoneSession \union {None}]
      /\ \A x \in ZoneIds : sessions[x] # None => sessions[x].home \in Paths
      /\ shell.open # None => shell.open \in Paths
      /\ \A p \in Paths, x \in ZoneIds : zones[p][x] # None => zones[p][x] \in ZoneRow
  BY TypedParts DEF TypeOK
<1>1. ASSUME sessions'[y].home \in Paths, Fits(sessions'[y])
      PROVE  LET row == zones'[sessions'[y].home][y]
             IN  row # None /\ row.key = sessions'[y].key
  BY <1>1, RowsKeepKey
<1>2. ASSUME sessions[y] # None, sessions'[y].home = sessions[y].home,
             sessions'[y].key = sessions[y].key
      PROVE  sessions'[y].home \in Paths /\ Fits(sessions'[y])
  <2>1. ~Evicting(y)
    BY EvictionEnds
  <2>2. QED
    BY <1>0, <1>2, <2>1 DEF HomeSessionsFit
<1>3. CASE InsertSession
  <2>1. main.zone \in ZoneIds /\ shell.open \in Paths /\ zones[shell.open][main.zone] \in ZoneRow
    BY <1>0, <1>3 DEF InsertSession, CommandKeepsItsGround, Readable
  <2>2. zones[shell.open][main.zone] # None
    BY <1>3, <2>1 DEF InsertSession, CommandKeepsItsGround, Readable
  <2> DEFINE s == NewSession(shell.open, zones[shell.open][main.zone])
  <2>3. s.home = shell.open /\ s.key = zones[shell.open][main.zone].key
    BY <2>1, RowFields
  <2>4. CASE y = main.zone
    <3>1. sessions'[y] = s
      BY <1>0, <1>3, <2>1, <2>4 DEF InsertSession
    <3>2. QED
      BY <1>1, <2>1, <2>2, <2>3, <2>4, <3>1
  <2>5. CASE y # main.zone
    <3>1. sessions'[y] = sessions[y]
      BY <1>0, <1>3, <2>1, <2>5 DEF InsertSession
    <3>2. QED
      BY <1>1, <1>2, <3>1
  <2>6. QED
    BY <2>4, <2>5
<1>4. CASE ~InsertSession
  BY <1>1, <1>2, <1>4, SessionsKeepHome
<1>5. QED
  BY <1>3, <1>4

-----------------------------------------------------------------------------
\* The mutex that a half-done command holds keeps the watcher from what the
\* second half needs.
LEMMA GroundInductive ==
  TypeOK /\ LocksMatchMain /\ CommandKeepsItsGround /\ [Next]_vars => CommandKeepsItsGround'
<1> SUFFICES ASSUME TypeOK, LocksMatchMain, CommandKeepsItsGround, [Next]_vars
             PROVE  CommandKeepsItsGround'
  OBVIOUS
<1>0. /\ sessions \in [ZoneIds -> ZoneSession \union {None}]
      /\ \A x \in ZoneIds : sessions[x] # None => sessions[x] \in ZoneSession
      /\ None # "main"
  BY TypedParts, NoneAssumption DEF TypeOK
<1>1. ASSUME main'.at \in {"idle", "close", "exit"} PROVE CommandKeepsItsGround'
  BY <1>1 DEF CommandKeepsItsGround
<1>2. ASSUME main.at = "idle", main' = main PROVE CommandKeepsItsGround'
  BY <1>1, <1>2
<1>3. ASSUME NEW p \in Paths, CreateShell(p) \/ OpenShell(p) PROVE CommandKeepsItsGround'
  BY <1>2, <1>3 DEF CreateShell, OpenShell, Commands
<1>4. CASE ListZones \/ FlourishEnds \/ ShowSystemView \/ ShowDesktop \/ PollSystemStatus
           \/ PollShellUnlocked
  BY <1>2, <1>4 DEF ListZones, FlourishEnds, ShowSystemView, ShowDesktop, PollSystemStatus,
                    PollShellUnlocked, Commands
<1>5. ASSUME NEW k \in Keys, CreateZone(k) PROVE CommandKeepsItsGround'
  BY <1>2, <1>5 DEF CreateZone, Commands
<1>6. ASSUME NEW z \in ZoneIds, DeleteZone(z) PROVE CommandKeepsItsGround'
  BY <1>6 DEF DeleteZone, HoldShell, TouchShell, TypeOK, CommandKeepsItsGround
<1>7. ASSUME NEW z \in ZoneIds, NEW k \in Keys, ChangeZonePassword(z, k)
      PROVE  CommandKeepsItsGround'
  BY <1>7 DEF ChangeZonePassword, HoldShell, TouchShell, TypeOK, CommandKeepsItsGround
<1>8. ASSUME NEW z \in ZoneIds, OpenZone(z) PROVE CommandKeepsItsGround'
  BY <1>8 DEF OpenZone, HoldShell, TouchShell, TypeOK, CommandKeepsItsGround, Readable, disk
<1>9. ASSUME NEW z \in ZoneIds, LockZone(z) \/ ReadZone(z) PROVE CommandKeepsItsGround'
  BY <1>2, <1>9 DEF LockZone, ReadZone, Commands
<1>10. ASSUME NEW z \in ZoneIds, NEW c \in Contents, MutateFails(z, c)
       PROVE  CommandKeepsItsGround'
  BY <1>2, <1>10 DEF MutateFails, Commands
<1>11. ASSUME NEW z \in ZoneIds, NEW c \in Contents, MutateZone(z, c)
       PROVE  CommandKeepsItsGround'
  <2>1. Used(sessions[z]) \in ZoneSession
    BY <1>0, <1>11, SessionFields DEF MutateZone
  <2>2. Changed(Used(sessions[z]), c) \in ZoneSession
    BY <2>1, SessionFields
  <2>3. main' = [at |-> "persist", zone |-> z] /\ sessions'[z] = Changed(Used(sessions[z]), c)
    BY <1>0, <1>11 DEF MutateZone, HoldSessions
  <2>4. QED
    BY <2>2, <2>3, NoneAssumption DEF CommandKeepsItsGround
<1>12. CASE LockShell \/ EmergencyExit
  BY <1>1, <1>12 DEF LockShell, EmergencyExit, HoldSessions
<1>13. CASE EvictSession \/ InsertSession \/ SaveZone \/ SaveFails \/ CloseShell
  <2>1. ReleaseBoth
    BY <1>13 DEF EvictSession, InsertSession, SaveZone, SaveFails, CloseShell
  <2>2. QED
    BY <1>1, <2>1 DEF ReleaseBoth, AtRest
<1>14. CASE ExitProcess \/ Crash
  BY <1>1, <1>14 DEF ExitProcess, Crash, Restart, ReleaseBoth, AtRest
<1>15. CASE WatcherCheck \/ UNCHANGED vars
  BY <1>15 DEF WatcherCheck, vars, disk, CommandKeepsItsGround, Readable
<1>16. CASE WatcherClear \/ WatcherRetain
  <2>1. main.at # "persist"
    BY <1>0, <1>16 DEF WatcherClear, WatcherRetain, LocksMatchMain
  <2>2. QED
    BY <1>16, <2>1 DEF WatcherClear, WatcherRetain, disk, CommandKeepsItsGround, Readable
<1>17. CASE WatcherClose
  <2>1. main.at \notin {"insert", "evict"}
    BY <1>0, <1>17 DEF WatcherClose, LocksMatchMain
  <2>2. QED
    BY <1>17, <2>1 DEF WatcherClose, CommandKeepsItsGround
<1>18. CASE Tick
  <2>1. \A z \in ZoneIds : sessions[z] # None => sessions'[z] # None
    <3>1. \A z \in ZoneIds : sessions[z] # None => Aged(sessions[z]) \in ZoneSession
      BY <1>0, SessionFields
    <3>2. QED
      BY <1>18, <3>1, NoneAssumption DEF Tick
  <2>2. shell'.open = shell.open
    BY <1>18 DEF Tick, TypeOK
  <2>3. QED
    BY <1>18, <2>1, <2>2 DEF Tick, disk, CommandKeepsItsGround, Readable
<1>19. QED
  BY <1>3, <1>4, <1>5, <1>6, <1>7, <1>8, <1>9, <1>10, <1>11, <1>12, <1>13, <1>14, <1>15,
     <1>16, <1>17, <1>18 DEF Next, UserStarts, MainFinishes, WatcherStep

-----------------------------------------------------------------------------
\* The open Shell changes in six actions only, and to another Shell only under
\* the lock screen.
LEMMA ShellSwitch ==
  ASSUME TypeOK, [Next]_vars
  PROVE  \/ shell'.open = shell.open
         \/ screen = "lock" /\ sessions' = sessions /\ UNCHANGED <<main, watcher>>
         \/ CloseShell
         \/ WatcherClose
         \/ sessions' = NoSessions
<1> DEFINE Goal == \/ shell'.open = shell.open
                   \/ screen = "lock" /\ sessions' = sessions /\ UNCHANGED <<main, watcher>>
                   \/ CloseShell
                   \/ WatcherClose
                   \/ sessions' = NoSessions
<1> SUFFICES Goal
  OBVIOUS
<1>1. ASSUME shell' = shell PROVE Goal
  BY <1>1
<1>2. ASSUME TouchShell PROVE Goal
  BY <1>2 DEF TouchShell, TypeOK
<1>3. ASSUME NEW p \in Paths, CreateShell(p) \/ OpenShell(p) PROVE Goal
  BY <1>3 DEF CreateShell, OpenShell, Commands
<1>4. CASE ExitProcess \/ Crash
  BY <1>4 DEF ExitProcess, Crash, Restart
<1>5. CASE Tick
  BY <1>5 DEF Tick, TypeOK
<1>6. CASE CloseShell \/ WatcherClose
  BY <1>6
<1> HIDE DEF Goal
<1>7. CASE ListZones \/ FlourishEnds \/ ShowSystemView \/ ShowDesktop \/ PollSystemStatus
  BY <1>2, <1>7 DEF ListZones, FlourishEnds, ShowSystemView, ShowDesktop, PollSystemStatus
<1>8. ASSUME NEW k \in Keys, CreateZone(k) PROVE Goal
  BY <1>2, <1>8 DEF CreateZone
<1>9. ASSUME NEW z \in ZoneIds, DeleteZone(z) \/ OpenZone(z) PROVE Goal
  BY <1>2, <1>9 DEF DeleteZone, OpenZone
<1>10. ASSUME NEW z \in ZoneIds, NEW k \in Keys, ChangeZonePassword(z, k) PROVE Goal
  BY <1>2, <1>10 DEF ChangeZonePassword
<1>11. CASE SaveZone \/ SaveFails
  BY <1>2, <1>11 DEF SaveZone, SaveFails
<1>12. ASSUME NEW z \in ZoneIds, LockZone(z) \/ ReadZone(z) PROVE Goal
  BY <1>1, <1>12 DEF LockZone, ReadZone
<1>13. ASSUME NEW z \in ZoneIds, NEW c \in Contents, MutateZone(z, c) \/ MutateFails(z, c)
       PROVE  Goal
  BY <1>1, <1>13 DEF MutateZone, MutateFails
<1>14. CASE LockShell \/ EmergencyExit \/ EvictSession \/ InsertSession \/ PollShellUnlocked
  BY <1>1, <1>14 DEF LockShell, EmergencyExit, EvictSession, InsertSession, PollShellUnlocked
<1>15. CASE WatcherCheck \/ WatcherClear \/ WatcherRetain
  BY <1>1, <1>15 DEF WatcherCheck, WatcherClear, WatcherRetain
<1>16. CASE UNCHANGED vars
  BY <1>1, <1>16 DEF vars
<1>17. QED
  BY <1>3, <1>4, <1>5, <1>6, <1>7, <1>8, <1>9, <1>10, <1>11, <1>12, <1>13, <1>14, <1>15,
     <1>16 DEF Next, UserStarts, MainFinishes, WatcherStep

\* Sessions that stay keep the history, and are not about to lose their Shell
\* anew, unless one is opened or the watcher closes the Shell.
LEMMA LeftStays ==
  ASSUME [Next]_vars, sessions' # NoSessions, ~InsertSession, ~WatcherClose
  PROVE  left' = left /\ (watcher' = "close" => watcher = "close")
BY DEF Next, UserStarts, MainFinishes, WatcherStep, CreateShell, OpenShell, FlourishEnds, ListZones,
       CreateZone, DeleteZone, OpenZone, LockZone, ReadZone, ChangeZonePassword, MutateZone,
       MutateFails, LockShell, EmergencyExit, ShowSystemView, ShowDesktop, PollSystemStatus,
       PollShellUnlocked, EvictSession, InsertSession, SaveZone, SaveFails, CloseShell,
       ExitProcess, Crash, Restart, WatcherCheck, WatcherClear, WatcherClose,
       WatcherRetain, Tick, vars

\* A step that ends under the lock screen, other than the closing of the Shell
\* and the end of the process, began under it or is the poll that brings it up.
LEMMA LockScreenSteps ==
  ASSUME TypeOK, UnderLockScreen, [Next]_vars, screen' = "lock",
         ~CloseShell, ~ExitProcess, ~Crash
  PROVE  /\ main.at = "idle" /\ main' = main
         /\ \/ screen = "lock"
            \/ /\ shell.open = None
               /\ UNCHANGED <<sessions, watcher, left>>
<1> DEFINE Goal == /\ main.at = "idle" /\ main' = main
                   /\ \/ screen = "lock"
                      \/ /\ shell.open = None
                         /\ UNCHANGED <<sessions, watcher, left>>
<1> SUFFICES Goal
  OBVIOUS
<1>1. ASSUME screen' = screen, main' = main \/ main.at # "idle" PROVE Goal
  BY <1>1 DEF UnderLockScreen
<1>2. CASE PollShellUnlocked
  BY <1>2 DEF PollShellUnlocked
<1> HIDE DEF Goal
<1>3. ASSUME NEW p \in Paths, CreateShell(p) \/ OpenShell(p) PROVE Goal
  BY <1>1, <1>3 DEF CreateShell, OpenShell, FlourishStarts
<1>4. CASE EvictSession \/ InsertSession \/ SaveZone \/ SaveFails
  BY <1>1, <1>4 DEF EvictSession, InsertSession, SaveZone, SaveFails, page
<1>5. CASE WatcherStep \/ Tick
  BY <1>1, <1>5 DEF WatcherStep, WatcherCheck, WatcherClear, WatcherClose, WatcherRetain, Tick,
                    page
<1>6. CASE UNCHANGED vars
  BY <1>1, <1>6 DEF vars
<1>7. /\ ~(UserStarts /\ \A p \in Paths : ~CreateShell(p) /\ ~OpenShell(p))
      /\ ~PollSystemStatus /\ ~FlourishEnds
  BY DEF UserStarts, FlourishEnds, ListZones, CreateZone, DeleteZone, OpenZone, LockZone,
         ReadZone, ChangeZonePassword, MutateZone, MutateFails, LockShell, EmergencyExit,
         ShowSystemView, ShowDesktop, PollSystemStatus, Commands, page
<1>8. QED
  BY <1>2, <1>3, <1>4, <1>5, <1>6, <1>7 DEF Next, UserStarts, MainFinishes

\* lock_shell is the one command that goes on to close the Shell.
LEMMA OnlyLockShellCloses ==
  ASSUME [Next]_vars, main'.at = "close"
  PROVE  LockShell \/ main' = main
<1>1. /\ PollSystemStatus \/ PollShellUnlocked \/ WatcherStep => main' = main
      /\ FlourishEnds \/ Tick \/ UNCHANGED vars => main' = main
  BY DEF FlourishEnds, PollSystemStatus, PollShellUnlocked, WatcherStep, WatcherCheck, WatcherClear,
         WatcherClose, WatcherRetain, Tick, vars
<1>2. MainFinishes \/ Crash => ReleaseBoth
  BY DEF MainFinishes, EvictSession, InsertSession, SaveZone, SaveFails, CloseShell,
         ExitProcess, Crash, Restart
<1>3. ReleaseBoth \/ EmergencyExit => main'.at # "close"
  BY DEF ReleaseBoth, AtRest, EmergencyExit
<1>4. \A z \in ZoneIds : OpenZone(z) \/ DeleteZone(z) => main'.at # "close"
  BY DEF OpenZone, DeleteZone, HoldShell
<1>5. \A z \in ZoneIds, k \in Keys : ChangeZonePassword(z, k) => main'.at # "close"
  BY DEF ChangeZonePassword, HoldShell
<1>6. \A z \in ZoneIds, c \in Contents : MutateZone(z, c) => main'.at # "close"
  BY DEF MutateZone, HoldSessions
<1>7. \A z \in ZoneIds, c \in Contents :
        MutateFails(z, c) \/ LockZone(z) \/ ReadZone(z) => main' = main
  BY DEF MutateFails, LockZone, ReadZone
<1>8. UserStarts => LockShell \/ main' = main \/ main'.at # "close"
  BY <1>3, <1>4, <1>5, <1>6, <1>7, ContentsAssumption
       DEF UserStarts, CreateShell, OpenShell, FlourishEnds, ListZones, CreateZone, ShowSystemView,
         ShowDesktop
<1>9. QED
  BY <1>1, <1>2, <1>3, <1>8 DEF Next

\* Between the clearing of the sessions and the closing of the Shell, the user
\* of the lock command adds none, and the watcher meets those of that Shell only.
LEMMA ClearedInductive ==
  ASSUME TypeOK, CommandKeepsItsGround, UnderLockScreen, ClearedBeforeClose,
         [Next]_vars
  PROVE  ClearedBeforeClose'
<1>0. /\ sessions \in [ZoneIds -> ZoneSession \union {None}]
      /\ \A x \in ZoneIds : sessions[x] # None => sessions[x].home \in Paths
      /\ shell.open # None => shell.open \in Paths
      /\ None \notin Paths
      /\ \A p \in Paths, x \in ZoneIds : zones[p][x] # None => zones[p][x] \in ZoneRow
  BY TypedParts, NoneAssumption DEF TypeOK
<1>1. CASE sessions' = NoSessions
  BY <1>1 DEF ClearedBeforeClose, NoSessions
<1>2. ASSUME sessions' # NoSessions, NEW z \in ZoneIds, sessions'[z] # None
      PROVE  main'.at # "close"
  <2>1. main'.at = "close" => LockShell \/ main' = main
    BY OnlyLockShellCloses
  <2>2. ~LockShell
    BY <1>2 DEF LockShell
  <2>3. main' = main => main.at # "close"
    <3>1. CASE InsertSession
      BY <3>1 DEF InsertSession
    <3>2. CASE ~InsertSession
      BY <1>2, <3>2, SessionsKeepHome DEF ClearedBeforeClose
    <3>3. QED
      BY <3>1, <3>2
  <2>4. QED
    BY <2>1, <2>2, <2>3
<1>3. ASSUME sessions' # NoSessions, NEW z \in ZoneIds, sessions'[z] # None, watcher' = "close"
      PROVE  shell'.open # None /\ sessions'[z].home = shell'.open
  <2>1. watcher = "close"
    BY <1>3 DEF Next, UserStarts, MainFinishes, WatcherStep, CreateShell, OpenShell,
                FlourishEnds, ListZones,
           CreateZone, DeleteZone, OpenZone, LockZone, ReadZone, ChangeZonePassword, MutateZone,
           MutateFails, LockShell, EmergencyExit, ShowSystemView, ShowDesktop, PollSystemStatus,
           PollShellUnlocked, EvictSession, InsertSession, SaveZone, SaveFails, CloseShell,
           ExitProcess, Crash, Restart, WatcherCheck, WatcherClear, WatcherClose,
           WatcherRetain, Tick, vars
  <2>2. CASE InsertSession /\ z = main.zone
    <3>1. shell.open \in Paths /\ zones[shell.open][z] \in ZoneRow
      BY <1>0, <2>2 DEF InsertSession, CommandKeepsItsGround, Readable
    <3>2. sessions'[z] = NewSession(shell.open, zones[shell.open][z]) /\ shell' = shell
      BY <1>0, <2>2 DEF InsertSession
    <3>3. QED
      BY <1>0, <3>1, <3>2, RowFields
  <2>3. CASE ~(InsertSession /\ z = main.zone)
    <3>1. sessions[z] # None /\ sessions'[z].home = sessions[z].home
      <4>1. CASE InsertSession
        <5>1. sessions'[z] = sessions[z]
          BY <1>0, <2>3, <4>1 DEF InsertSession, CommandKeepsItsGround
        <5>2. QED
          BY <1>3, <5>1
      <4>2. CASE ~InsertSession
        BY <1>3, <4>2, SessionsKeepHome
      <4>3. QED
        BY <4>1, <4>2
    <3>2. shell.open # None /\ sessions[z].home = shell.open
      BY <2>1, <3>1 DEF ClearedBeforeClose
    <3>3. ~CloseShell
      BY <3>1 DEF CloseShell, ClearedBeforeClose
    <3>4. ~WatcherClose
      BY <1>3 DEF WatcherClose
    <3>5. shell'.open = shell.open
      BY <1>3, <2>1, <3>1, <3>3, <3>4, ShellSwitch DEF UnderLockScreen
    <3>6. QED
      BY <3>1, <3>2, <3>5
  <2>4. QED
    BY <2>2, <2>3
<1>4. QED
  BY <1>1, <1>2, <1>3 DEF ClearedBeforeClose

-----------------------------------------------------------------------------
\* A save under way goes on until it ends well or with an error.
LEMMA SaveEnds ==
  ASSUME [Next]_vars, NEW y \in ZoneIds, sessions'[y] # None, main.at = "persist", main.zone = y
  PROVE  SaveZone \/ SaveFails \/ main' = main
<1>1. CASE Crash \/ ExitProcess
  BY <1>1 DEF Crash, ExitProcess, Restart, NoSessions
<1>2. CASE WatcherStep \/ Tick
  BY <1>2 DEF WatcherStep, WatcherCheck, WatcherClear, WatcherClose, WatcherRetain, Tick
<1>3. CASE UNCHANGED vars
  BY <1>3 DEF vars
<1>4. QED
  BY <1>1, <1>2, <1>3
     DEF Next, UserStarts, MainFinishes, Commands, CreateShell, OpenShell, FlourishEnds, ListZones,
         CreateZone, DeleteZone, OpenZone, LockZone, ReadZone, ChangeZonePassword,
         MutateZone, MutateFails, LockShell, EmergencyExit, ShowSystemView, ShowDesktop,
         PollSystemStatus, PollShellUnlocked, EvictSession, InsertSession, CloseShell

\* Steps other than its own save keep a session clean.
LEMMA CleanStays ==
  ASSUME TypeOK, CommandKeepsItsGround, IdsBelowNext, HomeSessionsFit, [Next]_vars,
         NEW y \in ZoneIds, sessions'[y] # None, ~Evicting(y)',
         ~InsertSession, ~(SaveZone /\ main.zone = y), Clean(y)
  PROVE  Clean(y)'
<1> DEFINE s == sessions[y]
<1>1. s \in ZoneSession /\ s # None /\ s.home \in Paths
  BY SessionSteps, NoneAssumption DEF ZoneSession
<1>2. zones'[s.home][y] = zones[s.home][y]
  <2>1. ~Evicting(y)
    BY EvictionEnds
  <2>2. zones[s.home][y] # None
    BY <1>1, <2>1 DEF HomeSessionsFit
  <2>3. QED
    BY <1>1, <2>2, RowsStay
<1>3. sessions'[y].home = s.home
  BY SessionsKeepHome
<1>4. ASSUME sessions'[y].content = s.content, sessions'[y].erred = s.erred
      PROVE  Clean(y)'
  <2>1. CASE main.at = "persist" /\ main.zone = y
    <3>1. CASE SaveFails
      <4>1. sessions'[y] = Reported(s, TRUE)
        BY <2>1, <3>1 DEF SaveFails, TypeOK
      <4>2. \A t \in ZoneSession : Reported(t, TRUE).erred
        BY SessionFields
      <4>3. QED
        BY <1>1, <4>1, <4>2 DEF Clean
    <3>2. CASE main' = main
      BY <2>1, <3>2 DEF Clean
    <3>3. QED
      BY <2>1, <3>1, <3>2, SaveEnds
  <2>2. CASE ~(main.at = "persist" /\ main.zone = y)
    BY <1>2, <1>3, <1>4, <2>2 DEF Clean
  <2>3. QED
    BY <2>1, <2>2
<1>5. /\ Used(s) \in ZoneSession /\ Used(s).content = s.content /\ Used(s).erred = s.erred
      /\ Aged(s).content = s.content /\ Aged(s).erred = s.erred
      /\ Reported(s, TRUE).erred
  BY <1>1, SessionFields
<1>6. CASE sessions'[y] \in {s, Used(s), Aged(s)}
  BY <1>4, <1>5, <1>6
<1>7. CASE main' = [at |-> "persist", zone |-> y]
  BY <1>7 DEF Clean
<1>8. ASSUME NEW c \in Contents, sessions'[y] = Reported(Changed(Used(s), c), TRUE)
      PROVE  Clean(y)'
  <2>1. Changed(Used(s), c) \in ZoneSession
    BY <1>5, SessionFields
  <2>2. \A t \in ZoneSession : Reported(t, TRUE).erred
    BY SessionFields
  <2>3. QED
    BY <1>8, <2>1, <2>2 DEF Clean
<1>9. CASE sessions'[y] = Reported(s, TRUE)
  BY <1>5, <1>9 DEF Clean
<1>10. QED
  BY <1>6, <1>7, <1>8, <1>9, SessionSteps

\* A session is clean while its Shell is open, and while none is.
LEMMA CleanInductive ==
  ASSUME TypeOK, CommandKeepsItsGround, UnderLockScreen, IdsBelowNext, HomeSessionsFit,
         LocksMatchMain, UnsavedOnlyAfterError, CleanWhenClosed, ClearedBeforeClose,
         [Next]_vars
  PROVE  UnsavedOnlyAfterError' /\ CleanWhenClosed'
<1>0. /\ sessions \in [ZoneIds -> ZoneSession \union {None}]
      /\ \A x \in ZoneIds : sessions[x] # None => sessions[x] \in ZoneSession
      /\ \A p \in Paths, x \in ZoneIds : zones[p][x] # None => zones[p][x] \in ZoneRow
      /\ shell.open # None => shell.open \in Paths
      /\ None # "main"
  BY TypedParts, NoneAssumption DEF TypeOK
<1>1. ASSUME NEW y \in ZoneIds, sessions'[y] # None, ~Evicting(y)',
             shell'.open = None \/ shell'.open = sessions'[y].home
      PROVE  Clean(y)'
  <2>1. CASE InsertSession /\ main.zone = y
    <3>1. shell.open \in Paths /\ zones[shell.open][y] \in ZoneRow /\ zones' = zones
      BY <1>0, <2>1 DEF InsertSession, CommandKeepsItsGround, Readable, disk
    <3>2. sessions'[y] = NewSession(shell.open, zones[shell.open][y])
      BY <1>0, <2>1 DEF InsertSession
    <3>3. QED
      BY <3>1, <3>2, RowFields DEF Clean
  <2>2. CASE InsertSession /\ main.zone # y
    <3>1. sessions'[y] = sessions[y] /\ zones' = zones /\ shell' = shell
      BY <1>0, <2>2 DEF InsertSession, CommandKeepsItsGround, disk
    <3>2. ~Evicting(y) /\ main.at # "persist" /\ shell.open # None
      BY <2>2 DEF InsertSession, Evicting, CommandKeepsItsGround
    <3>3. QED
      BY <1>1, <3>1, <3>2 DEF UnsavedOnlyAfterError, Clean
  <2>3. CASE SaveZone /\ main.zone = y
    <3>1. shell'.open = shell.open /\ shell.open # None
      BY <2>3 DEF SaveZone, TouchShell, TypeOK
    <3>2. sessions'[y] = Reported(sessions[y], FALSE) /\ sessions[y] \in ZoneSession
      BY <1>0, <2>3 DEF SaveZone, CommandKeepsItsGround
    <3>3. sessions'[y].home = sessions[y].home /\ sessions'[y].content = sessions[y].content
      <4>1. \A t \in ZoneSession : /\ Reported(t, FALSE).home = t.home
                                  /\ Reported(t, FALSE).content = t.content
        BY SessionFields
      <4>2. QED
        BY <3>2, <4>1
    <3>4. zones'[shell.open][y].content = sessions[y].content
      BY <2>3, SavedRowOf
    <3>5. QED
      BY <1>1, <3>1, <3>3, <3>4 DEF Clean
  <2>4. CASE ~InsertSession /\ ~(SaveZone /\ main.zone = y)
    <3>1. /\ sessions[y] # None /\ ~Evicting(y)
          /\ sessions'[y].home = sessions[y].home
      BY <1>1, <2>4, SessionsKeepHome, EvictionEnds
    <3>2. \/ shell.open = None \/ shell.open = sessions[y].home
          \/ screen = "lock"
      <4>1. ~CloseShell
        BY <3>1 DEF CloseShell, ClearedBeforeClose
      <4>2. WatcherClose => shell.open = sessions[y].home
        BY <3>1 DEF WatcherClose, ClearedBeforeClose
      <4>3. sessions' # NoSessions
        BY <1>1 DEF NoSessions
      <4>4. QED
        BY <1>1, <3>1, <4>1, <4>2, <4>3, ShellSwitch
    <3>3. Clean(y)
      BY <3>1, <3>2 DEF UnsavedOnlyAfterError, CleanWhenClosed, UnderLockScreen, Clean
    <3>4. QED
      BY <1>1, <2>4, <3>3, CleanStays
  <2>5. QED
    BY <2>1, <2>2, <2>3, <2>4
<1>2. UnsavedOnlyAfterError'
  BY <1>1 DEF UnsavedOnlyAfterError, Clean
<1>3. CleanWhenClosed'
  <2>1. \A y \in ZoneIds : shell'.open = None => ~Evicting(y)'
    BY GroundInductive DEF Evicting, CommandKeepsItsGround
  <2>2. QED
    BY <1>1, <2>1 DEF CleanWhenClosed, Clean
<1>4. QED
  BY <1>2, <1>3

\* A session that is away from its Shell was left there.
LEMMA StrandedInductive ==
  ASSUME TypeOK, CommandKeepsItsGround, OnlyTheWatcherStrands, UnderLockScreen,
         ClearedBeforeClose, [Next]_vars
  PROVE  OnlyTheWatcherStrands'
<1>0. /\ sessions \in [ZoneIds -> ZoneSession \union {None}]
      /\ shell.open # None => shell.open \in Paths
      /\ \A p \in Paths, x \in ZoneIds : zones[p][x] # None => zones[p][x] \in ZoneRow
  BY TypedParts DEF TypeOK
<1> SUFFICES ASSUME NEW y \in ZoneIds, sessions'[y] # None, sessions'[y].home # shell'.open
             PROVE  y \in left'
  BY DEF OnlyTheWatcherStrands
<1>1. sessions' # NoSessions
  BY DEF NoSessions
<1>2. CASE InsertSession /\ main.zone = y
  <2>1. shell.open \in Paths /\ zones[shell.open][y] \in ZoneRow
    BY <1>0, <1>2 DEF InsertSession, CommandKeepsItsGround, Readable
  <2>2. sessions'[y] = NewSession(shell.open, zones[shell.open][y]) /\ shell' = shell
    BY <1>0, <1>2 DEF InsertSession
  <2>3. QED
    BY <2>1, <2>2, RowFields
<1>3. CASE InsertSession /\ main.zone # y
  <2>1. sessions'[y] = sessions[y] /\ shell' = shell /\ left' = left \ {main.zone}
    BY <1>0, <1>3 DEF InsertSession, CommandKeepsItsGround
  <2>2. QED
    BY <1>3, <2>1 DEF OnlyTheWatcherStrands
<1>4. CASE WatcherClose
  BY <1>4 DEF WatcherClose
<1>5. CASE ~InsertSession /\ ~WatcherClose
  <2>1. sessions[y] # None /\ sessions'[y].home = sessions[y].home
    BY <1>5, SessionsKeepHome
  <2>2. ~CloseShell
    BY <2>1 DEF CloseShell, ClearedBeforeClose
  <2>3. shell'.open = shell.open \/ screen = "lock"
    BY <1>1, <1>5, <2>2, ShellSwitch
  <2>4. y \in left
    BY <2>1, <2>3 DEF OnlyTheWatcherStrands, UnderLockScreen
  <2>5. left' = left
    BY <1>1, <1>5, LeftStays
  <2>6. QED
    BY <2>4, <2>5
<1>6. QED
  BY <1>2, <1>3, <1>4, <1>5

\* The lock screen comes up with no command half done, and with the sessions
\* that the watcher left; nothing is opened or edited under it.
LEMMA LockScreenInductive ==
  ASSUME TypeOK, LocksMatchMain, CommandKeepsItsGround, OnlyTheWatcherStrands, UnderLockScreen,
         IdsBelowNext, HomeSessionsFit, CleanWhenClosed, ClearedBeforeClose, [Next]_vars
  PROVE  UnderLockScreen'
<1> SUFFICES ASSUME screen' = "lock"
             PROVE  /\ main'.at = "idle"
                    /\ \A y \in ZoneIds : sessions'[y] # None =>
                         y \in left' /\ watcher' # "close" /\ Clean(y)'
  BY DEF UnderLockScreen
<1>1. CASE CloseShell
  BY <1>1 DEF CloseShell, ReleaseBoth, AtRest, ClearedBeforeClose
<1>2. CASE ExitProcess \/ Crash
  BY <1>2 DEF ExitProcess, Crash, Restart, ReleaseBoth, AtRest, NoSessions
<1>3. CASE ~CloseShell /\ ~ExitProcess /\ ~Crash
  <2>1. /\ main.at = "idle" /\ main' = main
        /\ \/ screen = "lock"
           \/ /\ shell.open = None
              /\ UNCHANGED <<sessions, watcher, left>>
    BY <1>3, LockScreenSteps
  <2>2. ~InsertSession /\ ~SaveZone /\ \A y \in ZoneIds : ~Evicting(y)'
    BY <2>1 DEF InsertSession, SaveZone, Evicting
  <2>3. ASSUME NEW y \in ZoneIds, sessions'[y] # None
        PROVE  y \in left' /\ watcher' # "close" /\ Clean(y)'
    <3>1. sessions[y] # None /\ sessions[y] \in ZoneSession
      BY <2>2, <2>3, SessionSteps, NoneAssumption
    <3>2. y \in left /\ watcher # "close" /\ Clean(y)
      <4>1. CASE screen = "lock"
        BY <3>1, <4>1 DEF UnderLockScreen
      <4>2. CASE screen # "lock"
        <5>1. shell.open = None
          BY <2>1, <4>2
        <5>2. sessions[y].home # None
          BY <3>1, NoneAssumption DEF ZoneSession
        <5>3. QED
          BY <3>1, <5>1, <5>2 DEF OnlyTheWatcherStrands, ClearedBeforeClose, CleanWhenClosed
      <4>3. QED
        BY <4>1, <4>2
    <3>3. Clean(y)'
      BY <2>2, <2>3, <3>2, CleanStays
    <3>4. sessions' # NoSessions
      BY <2>3 DEF NoSessions
    <3>5. ~WatcherClose
      BY <3>2 DEF WatcherClose
    <3>6. left' = left /\ watcher' # "close"
      BY <2>2, <3>2, <3>4, <3>5, LeftStays
    <3>7. QED
      BY <3>2, <3>3, <3>6
  <2>4. QED
    BY <2>1, <2>3
<1>4. QED
  BY <1>1, <1>2, <1>3

-----------------------------------------------------------------------------
\* The invariant holds at the start and every step keeps it.
LEMMA InvariantInit == Init => IInv
<1> SUFFICES ASSUME Init PROVE IInv
  OBVIOUS
<1>1. TypeOK
  BY IdleRange, FlourishesAssumption DEF Init, TypeOK, Closed, NoSessions, AtRest, MainLabels,
                                         WatcherLabels, Screens
<1>2. LocksMatchMain /\ IdsBelowNext
  BY DEF Init, LocksMatchMain, IdsBelowNext, AtRest
<1>3. CommandKeepsItsGround
  BY DEF Init, CommandKeepsItsGround, AtRest
<1>4. HomeSessionsFit /\ UnsavedOnlyAfterError /\ CleanWhenClosed /\ ClearedBeforeClose
  BY DEF Init, HomeSessionsFit, UnsavedOnlyAfterError, CleanWhenClosed, ClearedBeforeClose,
         NoSessions, AtRest
<1>5. OnlyTheWatcherStrands /\ UnderLockScreen
  BY DEF Init, OnlyTheWatcherStrands, UnderLockScreen, NoSessions, AtRest
<1>6. QED
  BY <1>1, <1>2, <1>3, <1>4, <1>5 DEF IInv

LEMMA InvariantStep == IInv /\ [Next]_vars => IInv'
  BY TypeInductive, LocksInductive, IdsInductive, GroundInductive, HomeInductive,
     StrandedInductive, LockScreenInductive, CleanInductive, ClearedInductive DEF IInv

THEOREM InvariantHolds == Spec => []IInv
  BY InvariantInit, InvariantStep, PTL DEF Spec

\* Every variable keeps its type.
THEOREM TypeCorrect == Spec => []TypeOK
<1>1. IInv => TypeOK
  BY DEF IInv
<1>2. QED
  BY <1>1, InvariantHolds, PTL

\* change_zone_password and delete_zone never leave a session behind whose key
\* is not its row's, for any number of Shell files, zones and passwords.
THEOREM SessionsFitTheirRows == Spec => []HomeSessionsFit
<1>1. IInv => HomeSessionsFit
  BY DEF IInv
<1>2. QED
  BY <1>1, InvariantHolds, PTL

\* No unsaved change of a zone is silent.
THEOREM UnsavedIsReported == Spec => []UnsavedOnlyAfterError
<1>1. IInv => UnsavedOnlyAfterError
  BY DEF IInv
<1>2. QED
  BY <1>1, InvariantHolds, PTL

\* The watcher never takes a half-done command's session or Shell away.
THEOREM HalfDoneCommandsAreSafe == Spec => []CommandKeepsItsGround
<1>1. IInv => CommandKeepsItsGround
  BY DEF IInv
<1>2. QED
  BY <1>1, InvariantHolds, PTL

\* The two mutexes are taken in both orders, and still no deadlock follows.
THEOREM NoDeadlock == Spec => []NoLockCycle
<1>1. IInv => NoLockCycle
  <2>1. TypeOK /\ LocksMatchMain => NoLockCycle
    BY NoneAssumption
       DEF TypeOK, MainLabels, WatcherLabels, LocksMatchMain, NoLockCycle, MainWaitsFor,
           WatcherWaitsFor
  <2>2. QED
    BY <2>1 DEF IInv
<1>2. QED
  BY <1>1, InvariantHolds, PTL

\* No lock, and no second opening under a lock screen that is still up, takes a
\* Shell from under one of its open zones; only the watcher does.
THEOREM StrandedByTheWatcher == Spec => []OnlyTheWatcherStrands
<1>1. IInv => OnlyTheWatcherStrands
  BY DEF IInv
<1>2. QED
  BY <1>1, InvariantHolds, PTL

-----------------------------------------------------------------------------
\* A row stops being readable only where a session of another Shell is saved.
LEMMA BrickedByForeignSave ==
  ASSUME IInv, [Next]_vars, NEW p \in Paths, NEW z \in ZoneIds,
         zones'[p][z] # None, zones'[p][z].blobKey # zones'[p][z].key,
         zones[p][z] # None => Readable(p, z)
  PROVE  SaveZone /\ shell.open = p /\ main.zone = z /\ sessions[z].home \in Paths \ {p}
<1> DEFINE Goal == /\ SaveZone /\ shell.open = p /\ main.zone = z
                   /\ sessions[z].home \in Paths \ {p}
<1> SUFFICES Goal
  OBVIOUS
<1>0. /\ TypeOK /\ CommandKeepsItsGround /\ HomeSessionsFit
      /\ zones \in [Paths -> [ZoneIds -> ZoneRow \union {None}]]
      /\ \A q \in Paths, x \in ZoneIds : zones[q][x] # None => zones[q][x] \in ZoneRow
      /\ shell.open # None => shell.open \in Paths
      /\ \A x \in ZoneIds : sessions[x] # None => sessions[x].home \in Paths
  <2>1. TypeOK
    BY DEF IInv
  <2>2. QED
    BY <2>1, TypedParts DEF IInv, TypeOK
<1>1. ASSUME zones'[p][z] = zones[p][z] PROVE Goal
  BY <1>1 DEF Readable
<1>2. ASSUME NEW q \in Paths, NEW x \in ZoneIds, NEW row,
             zones' = [zones EXCEPT ![q][x] = row], row = None \/ row.blobKey = row.key
      PROVE  Goal
  <2>1. CASE q = p /\ x = z
    BY <1>0, <1>2, <2>1
  <2>2. CASE q # p \/ x # z
    BY <1>0, <1>1, <1>2, <2>2
  <2>3. QED
    BY <2>1, <2>2
<1>3. CASE UNCHANGED disk \/ \E q \in Paths : CreateShell(q)
  BY <1>1, <1>3 DEF disk, CreateShell
<1>4. ASSUME NEW k \in Keys, CreateZone(k) PROVE Goal
  BY <1>0, <1>2, <1>4 DEF CreateZone, NewRow
<1>5. ASSUME NEW x \in ZoneIds, DeleteZone(x) PROVE Goal
  BY <1>0, <1>2, <1>5 DEF DeleteZone
<1>6. ASSUME NEW x \in ZoneIds, NEW k \in Keys, ChangeZonePassword(x, k) PROVE Goal
  BY <1>0, <1>2, <1>6 DEF ChangeZonePassword, NewRow
<1>7. CASE SaveZone
  <2>1. main.zone \in ZoneIds /\ shell.open \in Paths /\ sessions[main.zone] # None
    BY <1>0, <1>7 DEF SaveZone, CommandKeepsItsGround
  <2>2. CASE shell.open = p /\ main.zone = z
    <3>1. /\ zones'[p][z].key = zones[p][z].key
          /\ zones'[p][z].blobKey = sessions[z].key
      BY <1>0, <1>7, <2>2, SavedRowOf
    <3>2. zones[sessions[z].home][z].key = sessions[z].key
      BY <1>7, <2>1, <2>2 , <1>0 DEF SaveZone, HomeSessionsFit, Evicting
    <3>3. QED
      BY <1>0, <1>7, <2>1, <2>2, <3>1, <3>2
  <2>3. CASE shell.open # p \/ main.zone # z
    BY <1>0, <1>1, <1>7, <2>1, <2>3 DEF SaveZone
  <2>4. QED
    BY <2>2, <2>3
<1>8. QED
  BY <1>3, <1>4, <1>5, <1>6, <1>7, OtherActionsKeepDisk

\* Nothing but the save of a session of another Shell makes a row unreadable.
THEOREM OnlyForeignSavesDo == Spec => OnlyForeignSavesBrick
<1>1. IInv /\ [Next]_vars =>
        \A p \in Paths, z \in ZoneIds :
          Readable(p, z) /\ zones'[p][z] # None /\ ~Readable(p, z)' => sessions[z].home # p
  BY BrickedByForeignSave DEF Readable
<1>2. QED
  BY <1>1, InvariantHolds, PTL DEF Spec, OnlyForeignSavesBrick

\* So where there is only one Shell file, every row decrypts with its own
\* password, whatever commands, lock-outs, failures and crashes come.
THEOREM OneShellStaysReadable ==
  ASSUME NEW p, Paths = {p}
  PROVE  Spec => []AllReadable
<1>1. Init => AllReadable
  BY DEF Init, AllReadable
<1>2. IInv /\ AllReadable /\ [Next]_vars => AllReadable'
  BY BrickedByForeignSave DEF AllReadable, Readable
<1>3. QED
  BY <1>1, <1>2, InvariantHolds, PTL DEF Spec

-----------------------------------------------------------------------------
(* The store that the session core implements *)

LEMMA KeysInductive == IInv /\ KeysDiffer /\ [Next]_vars => KeysDiffer'
<1> SUFFICES ASSUME IInv, KeysDiffer, [Next]_vars PROVE KeysDiffer'
  OBVIOUS
<1>0. /\ TypeOK /\ CommandKeepsItsGround
      /\ zones \in [Paths -> [ZoneIds -> ZoneRow \union {None}]]
      /\ shell.open # None => shell.open \in Paths
  <2>1. TypeOK
    BY DEF IInv
  <2>2. QED
    BY <2>1, TypedParts DEF IInv, TypeOK
<1>1. ASSUME UNCHANGED zones PROVE KeysDiffer'
  BY <1>1 DEF KeysDiffer
<1>2. ASSUME NEW p \in Paths, NEW x \in ZoneIds, NEW row,
             zones' = [zones EXCEPT ![p][x] = row],
             \/ row = None
             \/ zones[p][x] # None /\ row.key = zones[p][x].key
             \/ \A q \in Paths, z \in ZoneIds : zones[q][z] # None => row.key # zones[q][z].key
      PROVE  KeysDiffer'
  <2>1. /\ zones'[p][x] = row
        /\ \A q \in Paths, z \in ZoneIds : <<q, z>> # <<p, x>> => zones'[q][z] = zones[q][z]
    BY <1>0, <1>2
  <2>2. QED
    BY <1>2, <2>1 DEF KeysDiffer
<1>3. CASE UNCHANGED disk \/ \E q \in Paths : CreateShell(q)
  BY <1>1, <1>3 DEF disk, CreateShell
<1>4. ASSUME NEW k \in Keys, CreateZone(k) PROVE KeysDiffer'
  <2>1. NewRow(k, EmptyZone).key = k
    BY DEF NewRow
  <2>2. QED
    BY <1>0, <1>2, <1>4, <2>1 DEF CreateZone, Fresh
<1>5. ASSUME NEW x \in ZoneIds, DeleteZone(x) PROVE KeysDiffer'
  BY <1>0, <1>2, <1>5 DEF DeleteZone
<1>6. ASSUME NEW x \in ZoneIds, NEW k \in Keys, ChangeZonePassword(x, k) PROVE KeysDiffer'
  <2>1. /\ zones' = [zones EXCEPT ![shell.open][x] = NewRow(k, zones[shell.open][x].content)]
        /\ shell.open \in Paths /\ Fresh(k)
    BY <1>0, <1>6 DEF ChangeZonePassword
  <2>2. NewRow(k, zones[shell.open][x].content).key = k
    BY DEF NewRow
  <2>3. QED
    BY <1>2, <2>1, <2>2 DEF Fresh
<1>7. CASE SaveZone
  <2>1. /\ zones' = [zones EXCEPT ![shell.open][main.zone] =
                        SavedRow(zones[shell.open][main.zone], sessions[main.zone])]
        /\ shell.open \in Paths /\ main.zone \in ZoneIds /\ zones[shell.open][main.zone] # None
    BY <1>0, <1>7 DEF SaveZone, CommandKeepsItsGround
  <2>2. \A row, t : SavedRow(row, t).key = row.key
    BY DEF SavedRow
  <2>3. QED
    BY <1>2, <2>1, <2>2
<1>8. QED
  BY <1>3, <1>4, <1>5, <1>6, <1>7, OtherActionsKeepDisk

LEMMA ReopenInductive == IInv /\ OpenZonesReopen /\ [Next]_vars => OpenZonesReopen'
<1> SUFFICES ASSUME IInv, OpenZonesReopen, [Next]_vars,
                    NEW y \in ZoneIds, sessions'[y] # None, ~Evicting(y)'
             PROVE  Readable(sessions[y].home, y)'
  BY DEF OpenZonesReopen
<1>0. /\ TypeOK /\ CommandKeepsItsGround /\ IdsBelowNext
      /\ sessions \in [ZoneIds -> ZoneSession \union {None}]
      /\ shell.open # None => shell.open \in Paths
      /\ \A x \in ZoneIds : sessions[x] # None => sessions[x].home \in Paths
      /\ \A p \in Paths, x \in ZoneIds : zones[p][x] # None => zones[p][x] \in ZoneRow
  <2>1. TypeOK
    BY DEF IInv
  <2>2. QED
    BY <2>1, TypedParts DEF IInv, TypeOK
<1>1. CASE InsertSession /\ main.zone = y
  <2>1. /\ shell.open \in Paths /\ Readable(shell.open, y) /\ UNCHANGED zones
        /\ sessions'[y] = NewSession(shell.open, zones[shell.open][y])
    BY <1>0, <1>1 DEF InsertSession, CommandKeepsItsGround, disk
  <2>2. sessions'[y].home = shell.open
    BY <2>1 DEF NewSession
  <2>3. QED
    BY <2>1, <2>2 DEF Readable
<1>2. CASE ~(InsertSession /\ main.zone = y)
  <2>1. sessions[y] # None /\ sessions'[y].home = sessions[y].home
    <3>1. CASE InsertSession
      <4>1. sessions'[y] = sessions[y]
        BY <1>0, <1>1, <1>2, <3>1 DEF InsertSession, CommandKeepsItsGround
      <4>2. QED
        BY <4>1
    <3>2. CASE ~InsertSession
      BY <1>0, <3>2, SessionsKeepHome
    <3>3. QED
      BY <3>1, <3>2
  <2>2. ~Evicting(y)
    BY <1>0, EvictionEnds
  <2>3. PICK p \in Paths : p = sessions[y].home
    BY <1>0, <2>1
  <2>4. Readable(p, y)
    BY <2>1, <2>2, <2>3 DEF OpenZonesReopen
  <2>5. zones'[p][y] # None
    BY <1>0, <2>4, RowsKeepKey DEF Readable
  <2>6. zones'[p][y].blobKey = zones'[p][y].key
    BY <2>3, <2>4, <2>5, BrickedByForeignSave
  <2>7. QED
    BY <2>1, <2>3, <2>5, <2>6 DEF Readable
<1>3. QED
  BY <1>1, <1>2

\* A zone that is open can always be closed and opened again, with the password
\* that its row has now: saves in the wrong Shell never hit the zone of a session.
THEOREM OpenZonesDoReopen == Spec => []OpenZonesReopen
<1>1. Init => OpenZonesReopen
  BY DEF Init, OpenZonesReopen, NoSessions
<1>2. QED
  BY <1>1, ReopenInductive, InvariantHolds, PTL DEF Spec

\* f with x in the place of zone z of Shell p.
PutInto(f, p, z, x) == [f EXCEPT ![p][z] = x]

LEMMA BoxesExcept ==
  ASSUME NEW rows \in [Paths -> [ZoneIds -> ZoneRow \union {None}]],
         NEW p \in Paths, NEW z \in ZoneIds, NEW row,
         NEW new, new = PutInto(rows, p, z, row)
  PROVE  Boxes(new) = PutInto(Boxes(rows), p, z, Boxed(row))
<1> DEFINE K == Boxes(rows)
           box == Boxed(row)
<1>1. \A q \in Paths, x \in ZoneIds :
        new[q][x] = IF q = p /\ x = z THEN row ELSE rows[q][x]
  BY DEF PutInto
<1>2. /\ K = [q \in Paths |-> K[q]]
      /\ \A q \in Paths : K[q] = [x \in ZoneIds |-> Boxed(rows[q][x])]
  BY DEF Boxes
<1>3. Boxes(new) = [q \in Paths |-> [x \in ZoneIds |-> Boxed(new[q][x])]]
  BY DEF Boxes
<1> HIDE DEF K, box
<1>4. [K EXCEPT ![p][z] = box] = [q \in Paths |-> IF q = p THEN [K[p] EXCEPT ![z] = box] ELSE K[q]]
  BY <1>2
<1>5. [K[p] EXCEPT ![z] = box] = [x \in ZoneIds |-> IF x = z THEN box ELSE Boxed(rows[p][x])]
  BY <1>2
<1>6. ASSUME NEW q \in Paths
      PROVE  (IF q = p THEN [K[p] EXCEPT ![z] = box] ELSE K[q]) = [x \in ZoneIds |-> Boxed(new[q][x])]
  <2>1. CASE q = p
    <3>1. \A x \in ZoneIds : Boxed(new[p][x]) = IF x = z THEN box ELSE Boxed(rows[p][x])
      BY <1>1 DEF box
    <3>2. QED
      BY <1>5, <2>1, <3>1
  <2>2. CASE q # p
    <3>1. \A x \in ZoneIds : new[q][x] = rows[q][x]
      BY <1>1, <2>2
    <3>2. QED
      BY <1>2, <2>2, <3>1
  <2>3. QED
    BY <2>1, <2>2
<1>7. Boxes(new) = [K EXCEPT ![p][z] = box]
  BY <1>3, <1>4, <1>6
<1>8. QED
  BY <1>7 DEF K, box, PutInto

LEMMA PapersExcept ==
  ASSUME NEW taken \in [ZoneIds -> ZoneSession \union {None}], NEW z \in ZoneIds, NEW s
  PROVE  Papers([taken EXCEPT ![z] = s]) = [Papers(taken) EXCEPT ![z] = OnDesk(s)]
BY DEF Papers

\* What the two show of one row and of one session.
LEMMA Shown ==
  ASSUME TypeOK
  PROVE  /\ \A p \in Paths, z \in ZoneIds : Boxes(zones)[p][z] = Boxed(zones[p][z])
         /\ \A z \in ZoneIds : Papers(sessions)[z] = OnDesk(sessions[z])
         /\ \A p \in Paths, z \in ZoneIds :
              /\ Boxes(zones)[p][z] = None <=> zones[p][z] = None
              /\ zones[p][z] # None => /\ Boxes(zones)[p][z].holds = zones[p][z].content
                                      /\ Boxes(zones)[p][z].opens <=> Readable(p, z)
         /\ \A z \in ZoneIds :
              /\ Papers(sessions)[z] = None <=> sessions[z] = None
              /\ sessions[z] # None => /\ Papers(sessions)[z].holds = sessions[z].content
                                      /\ Papers(sessions)[z].home = sessions[z].home
<1>1. /\ \A p \in Paths, z \in ZoneIds : zones[p][z] # None => zones[p][z] \in ZoneRow
      /\ \A z \in ZoneIds : sessions[z] # None => sessions[z] \in ZoneSession
  BY TypedParts
<1>2. ASSUME NEW p \in Paths, NEW z \in ZoneIds
      PROVE  /\ Boxes(zones)[p][z] = Boxed(zones[p][z])
             /\ Boxed(zones[p][z]) = None <=> zones[p][z] = None
             /\ zones[p][z] # None => /\ Boxed(zones[p][z]).holds = zones[p][z].content
                                     /\ Boxed(zones[p][z]).opens <=> Readable(p, z)
  <2>1. Boxes(zones)[p][z] = Boxed(zones[p][z])
    BY DEF Boxes
  <2>2. CASE zones[p][z] = None
    BY <2>1, <2>2 DEF Boxed
  <2>3. CASE zones[p][z] # None
    <3> DEFINE row == zones[p][z]
    <3>1. row \in ZoneRow
      BY <1>1, <2>3
    <3>2. Boxed(row) = [holds |-> row.content, opens |-> row.blobKey = row.key]
      BY <2>3 DEF Boxed
    <3>3. Boxed(row) \in ZoneBox
      BY <3>1, <3>2 DEF ZoneRow, ZoneBox
    <3>4. Boxed(row) # None
      BY <3>3, NoneAssumption
    <3>5. QED
      <4>1. Boxed(row).opens = (row.blobKey = row.key) /\ Boxed(row).holds = row.content
        BY <3>2
      <4>2. Boxed(row).opens <=> Readable(p, z)
        BY <2>3, <4>1, Zenon DEF Readable
      <4>3. QED
        BY <2>1, <2>3, <3>4, <4>1, <4>2
  <2>4. QED
    BY <2>2, <2>3
<1>3. ASSUME NEW z \in ZoneIds
      PROVE  /\ Papers(sessions)[z] = OnDesk(sessions[z])
             /\ OnDesk(sessions[z]) = None <=> sessions[z] = None
             /\ sessions[z] # None => /\ OnDesk(sessions[z]).holds = sessions[z].content
                                     /\ OnDesk(sessions[z]).home = sessions[z].home
  <2>1. Papers(sessions)[z] = OnDesk(sessions[z])
    BY DEF Papers
  <2>2. CASE sessions[z] = None
    BY <2>1, <2>2 DEF OnDesk
  <2>3. CASE sessions[z] # None
    <3> DEFINE s == sessions[z]
    <3>1. s \in ZoneSession
      BY <1>1, <2>3
    <3>2. OnDesk(s) = [holds |-> s.content, home |-> s.home]
      BY <2>3 DEF OnDesk
    <3>3. OnDesk(s) \in ZonePaper
      BY <3>1, <3>2 DEF ZoneSession, ZonePaper
    <3>4. OnDesk(s) # None
      BY <3>3, NoneAssumption
    <3>5. QED
      BY <2>1, <2>3, <3>2, <3>4
  <2>4. QED
    BY <2>2, <2>3
<1>4. QED
  BY <1>2, <1>3

LEMMA StoreStep ==
  IInv /\ KeysDiffer /\ OpenZonesReopen /\ [Next]_vars => [Store!Next]_(Store!vars)
<1> SUFFICES ASSUME IInv, KeysDiffer, OpenZonesReopen, [Next]_vars,
                    ~UNCHANGED <<shell.open, Boxes(zones), Papers(sessions)>>
             PROVE  Store!Next
  BY DEF Store!vars
<1>0. /\ TypeOK /\ CommandKeepsItsGround /\ HomeSessionsFit /\ IdsBelowNext /\ LocksMatchMain
      /\ zones \in [Paths -> [ZoneIds -> ZoneRow \union {None}]]
      /\ sessions \in [ZoneIds -> ZoneSession \union {None}]
      /\ shell.open # None => shell.open \in Paths
      /\ \A z \in ZoneIds : sessions[z] # None => sessions[z] \in ZoneSession
  <2>1. TypeOK
    BY DEF IInv
  <2>2. QED
    BY <2>1, TypedParts DEF IInv, TypeOK
<1>1. /\ \A p \in Paths, z \in ZoneIds :
           /\ Boxes(zones)[p][z] = Boxed(zones[p][z])
           /\ Boxes(zones)[p][z] = None <=> zones[p][z] = None
           /\ zones[p][z] # None => /\ Boxes(zones)[p][z].holds = zones[p][z].content
                                   /\ Boxes(zones)[p][z].opens <=> Readable(p, z)
      /\ \A z \in ZoneIds :
           /\ Papers(sessions)[z] = OnDesk(sessions[z])
           /\ Papers(sessions)[z] = None <=> sessions[z] = None
           /\ sessions[z] # None => /\ Papers(sessions)[z].holds = sessions[z].content
                                   /\ Papers(sessions)[z].home = sessions[z].home
  BY <1>0, Shown
<1>2. UNCHANGED zones => UNCHANGED Boxes(zones)
  BY DEF Boxes
<1>3. UNCHANGED sessions => UNCHANGED Papers(sessions)
  BY DEF Papers
<1>4. ASSUME NEW p \in Paths, NEW z \in ZoneIds, NEW row, zones' = [zones EXCEPT ![p][z] = row]
      PROVE  Boxes(zones)' = [Boxes(zones) EXCEPT ![p][z] = Boxed(row)]
  <2>1. PICK new : new = PutInto(zones, p, z, row)
    OBVIOUS
  <2>2. Boxes(new) = PutInto(Boxes(zones), p, z, Boxed(row))
    <3>1. zones \in [Paths -> [ZoneIds -> ZoneRow \union {None}]]
      BY <1>0
    <3>2. QED
      BY <2>1, <3>1, BoxesExcept
  <2>3. Boxes(zones)' = Boxes(new)
    <3>1. zones' = new
      BY <1>4, <2>1 DEF PutInto
    <3>2. QED
      BY <3>1 DEF Boxes
  <2>4. QED
    BY <2>2, <2>3 DEF PutInto
<1>5. ASSUME NEW z \in ZoneIds, NEW s, sessions' = [sessions EXCEPT ![z] = s]
      PROVE  Papers(sessions)' = [Papers(sessions) EXCEPT ![z] = OnDesk(s)]
  <2>1. Papers([sessions EXCEPT ![z] = s]) = [Papers(sessions) EXCEPT ![z] = OnDesk(s)]
    BY <1>0, PapersExcept
  <2>2. Papers(sessions)' = Papers([sessions EXCEPT ![z] = s])
    BY <1>5
  <2>3. QED
    BY <2>1, <2>2
<1>6. ASSUME NEW Zs \in SUBSET ZoneIds,
             sessions' = [z \in ZoneIds |-> IF z \in Zs THEN None ELSE sessions[z]]
      PROVE  Papers(sessions)' = [z \in ZoneIds |-> IF z \in Zs THEN None ELSE Papers(sessions)[z]]
  BY <1>1, <1>6 DEF Papers, OnDesk
<1>7. ASSUME NEW Zs \in SUBSET ZoneIds, UNCHANGED zones, shell'.open = shell.open,
             sessions' = [z \in ZoneIds |-> IF z \in Zs THEN None ELSE sessions[z]]
      PROVE  Store!Next
  <2>1. Store!PutAway(Zs)
    BY <1>2, <1>6, <1>7 DEF Store!PutAway
  <2>2. QED
    BY <2>1 DEF Store!Next
<1>8. \A z \in ZoneIds : \A s : sessions' = [sessions EXCEPT ![z] = s] /\ OnDesk(s) = OnDesk(sessions[z])
                               => UNCHANGED Papers(sessions)
  BY <1>0 DEF Papers
<1>9. CASE Crash \/ ExitProcess
  <2>1. Store!Leave
    BY <1>2, <1>9 DEF Crash, ExitProcess, Restart, Closed, NoSessions, disk, Papers, OnDesk, Store!Leave
  <2>2. QED
    BY <2>1 DEF Store!Next
<1>10. CASE CloseShell \/ WatcherClose
  <2>1. shell'.open = None /\ UNCHANGED <<zones, sessions>>
    BY <1>0, <1>10 DEF CloseShell, WatcherClose, disk, TypeOK
  <2>2. Store!Lock
    BY <1>2, <1>3, <2>1 DEF Store!Lock
  <2>3. QED
    BY <2>2 DEF Store!Next
<1>11. CASE LockShell \/ EmergencyExit \/ WatcherClear
  <2>1. sessions' = [z \in ZoneIds |-> IF z \in ZoneIds THEN None ELSE sessions[z]]
        /\ UNCHANGED zones /\ shell'.open = shell.open
    BY <1>11 DEF LockShell, EmergencyExit, WatcherClear, NoSessions, disk
  <2>2. QED
    BY <1>7, <2>1
<1>12. CASE WatcherRetain
  <2>1. sessions' = [z \in ZoneIds |-> IF z \in {x \in ZoneIds : Expired(x)} THEN None ELSE sessions[z]]
        /\ UNCHANGED zones /\ shell'.open = shell.open
    BY <1>12 DEF WatcherRetain, disk
  <2>2. QED
    BY <1>7, <2>1
<1>13. ASSUME NEW z \in ZoneIds, sessions' = [sessions EXCEPT ![z] = None], UNCHANGED zones,
              shell'.open = shell.open
       PROVE  Store!Next
  <2>1. sessions' = [x \in ZoneIds |-> IF x \in {z} THEN None ELSE sessions[x]]
    BY <1>0, <1>13
  <2>2. QED
    BY <1>7, <1>13, <2>1
<1>14. CASE EvictSession
  <2>1. main.zone \in ZoneIds /\ sessions' = [sessions EXCEPT ![main.zone] = None]
        /\ UNCHANGED zones /\ shell'.open = shell.open
    BY <1>0, <1>14 DEF EvictSession, CommandKeepsItsGround, disk
  <2>2. QED
    BY <1>13, <2>1
<1>15. ASSUME NEW z \in ZoneIds, LockZone(z) PROVE Store!Next
  BY <1>13, <1>15 DEF LockZone, disk
<1>16. ASSUME NEW p \in Paths, CreateShell(p) \/ OpenShell(p) PROVE Store!Next
  <2>1. shell'.open = p /\ UNCHANGED <<zones, sessions>>
    BY <1>16 DEF CreateShell, OpenShell, FlourishStarts, disk
  <2>2. Store!Unlock(p)
    BY <1>2, <1>3, <2>1 DEF Store!Unlock
  <2>3. QED
    BY <2>2 DEF Store!Next
<1>17. CASE ListZones \/ FlourishEnds \/ ShowSystemView \/ PollSystemStatus \/ ShowDesktop
            \/ PollShellUnlocked
              \/ WatcherCheck \/ \E z \in ZoneIds : OpenZone(z)
  <2>1. shell'.open = shell.open /\ UNCHANGED <<zones, sessions>>
    BY <1>0, <1>17 DEF ListZones, FlourishEnds, ShowSystemView, PollSystemStatus, ShowDesktop,
                       PollShellUnlocked,
                     WatcherCheck, OpenZone, TouchShell, disk, TypeOK
  <2>2. QED
    BY <1>2, <1>3, <2>1
<1>18. CASE Tick
  <2>1. shell'.open = shell.open /\ UNCHANGED zones
    BY <1>0, <1>18 DEF Tick, disk, TypeOK
  <2>2. ASSUME NEW z \in ZoneIds PROVE OnDesk(sessions'[z]) = OnDesk(sessions[z])
    <3>1. CASE sessions[z] = None
      BY <1>18, <3>1 DEF Tick
    <3>2. CASE sessions[z] # None
      <4>1. sessions'[z] = Aged(sessions[z]) /\ sessions[z] \in ZoneSession
        BY <1>0, <1>18, <3>2 DEF Tick
      <4>2. Aged(sessions[z]) \in ZoneSession /\ Aged(sessions[z]).content = sessions[z].content
            /\ Aged(sessions[z]).home = sessions[z].home
        BY <4>1, SessionFields
      <4>3. sessions'[z] # None
        BY <4>1, <4>2, NoneAssumption
      <4>4. QED
        BY <3>2, <4>1, <4>2, <4>3 DEF OnDesk
    <3>3. QED
      BY <3>1, <3>2
  <2>3. UNCHANGED Papers(sessions)
    BY <2>2 DEF Papers
  <2>4. QED
    BY <1>2, <2>1, <2>3
<1>19. ASSUME NEW k \in Keys, CreateZone(k) PROVE Store!Next
  <2> DEFINE p == shell.open
             z == nextId[shell.open]
  <2>1. /\ p \in Paths /\ z \in ZoneIds /\ UNCHANGED sessions /\ shell'.open = p /\ main.at # "evict"
        /\ zones' = [zones EXCEPT ![p][z] = NewRow(k, EmptyZone)]
    BY <1>0, <1>19 DEF CreateZone, Commands, TouchShell, TypeOK
  <2>2. zones[p][z] = None
    <3>1. nextId[p] \in Nat /\ ~(z < nextId[p])
      BY <1>0, <2>1 DEF TypeOK
    <3>2. QED
      BY <1>0, <2>1, <3>1 DEF IdsBelowNext
  <2>3. sessions[z] # None => sessions[z].home # p
    BY <1>0, <2>1, <2>2 DEF HomeSessionsFit, Evicting
  <2>4. Boxed(NewRow(k, EmptyZone)) = [holds |-> EmptyZone, opens |-> TRUE]
    <3>1. NewRow(k, EmptyZone) \in ZoneRow
      BY ContentsAssumption DEF NewRow, ZoneRow
    <3>2. NewRow(k, EmptyZone) # None
      BY <3>1, NoneAssumption
    <3>3. QED
      BY <3>2 DEF Boxed, NewRow
  <2>5. Boxes(zones)' = [Boxes(zones) EXCEPT ![p][z] = [holds |-> EmptyZone, opens |-> TRUE]]
    BY <1>4, <2>1, <2>4
  <2>6. p # None
    BY <2>1, NoneAssumption
  <2> HIDE DEF p, z
  <2>7. Store!AddZone(z)
    BY <1>1, <1>3, <2>1, <2>2, <2>3, <2>5, <2>6 DEF Store!AddZone, Store!Box, p
  <2>8. QED
    BY <2>1, <2>7 DEF Store!Next
<1>20. ASSUME NEW z \in ZoneIds, DeleteZone(z) PROVE Store!Next
  <2>1. /\ shell.open \in Paths /\ shell.open # None /\ UNCHANGED sessions /\ shell'.open = shell.open
        /\ zones' = [zones EXCEPT ![shell.open][z] = None] /\ zones[shell.open][z] # None
    BY <1>0, <1>20 DEF DeleteZone, TouchShell, TypeOK
  <2>2. Boxes(zones)' = [Boxes(zones) EXCEPT ![shell.open][z] = None]
    <3>1. Boxed(None) = None
      BY DEF Boxed
    <3>2. QED
      BY <1>4, <2>1, <3>1
  <2>3. Store!RemoveZone(z)
    BY <1>1, <1>3, <2>1, <2>2 DEF Store!RemoveZone
  <2>4. QED
    BY <2>3 DEF Store!Next
<1>21. ASSUME NEW z \in ZoneIds, NEW k \in Keys, ChangeZonePassword(z, k) PROVE Store!Next
  <2> DEFINE p == shell.open
             row == zones[p][z]
  <2>1. /\ p \in Paths /\ p # None /\ UNCHANGED sessions /\ shell'.open = p
        /\ Readable(p, z) /\ zones' = [zones EXCEPT ![p][z] = NewRow(k, row.content)]
    BY <1>0, <1>21 DEF ChangeZonePassword, TouchShell, TypeOK
  <2>2. row \in ZoneRow /\ row # None
    <3>1. row # None
      BY <2>1 DEF Readable
    <3>2. QED
      BY <1>0, <2>1, <3>1
  <2>3. /\ NewRow(k, row.content) # None
        /\ NewRow(k, row.content).blobKey = NewRow(k, row.content).key
        /\ NewRow(k, row.content).content = row.content
    BY <2>2, RowFields, NoneAssumption
  <2>4. Boxed(NewRow(k, row.content)) = Boxed(row)
    BY <2>1, <2>2, <2>3, Zenon DEF Boxed, Readable
  <2>5. Boxes(zones)' = [Boxes(zones) EXCEPT ![p][z] = Boxes(zones)[p][z]]
    <3>1. Boxed(row) = Boxes(zones)[p][z]
      BY <1>1, <2>1
    <3>2. z \in ZoneIds
      OBVIOUS
    <3>3. Boxes(zones)' = [Boxes(zones) EXCEPT ![p][z] = Boxed(NewRow(k, row.content))]
      BY <1>4, <2>1
    <3> HIDE DEF p, row
    <3>4. QED
      BY <2>4, <3>1, <3>3
  <2>6. [Boxes(zones) EXCEPT ![p][z] = Boxes(zones)[p][z]] = Boxes(zones)
    BY <2>1 DEF Boxes
  <2>7. QED
    BY <1>3, <2>1, <2>5, <2>6
<1>22. CASE InsertSession
  <2> DEFINE p == shell.open
             z == main.zone
             row == zones[p][z]
  <2>1. /\ p \in Paths /\ p # None /\ z \in ZoneIds /\ UNCHANGED zones /\ shell'.open = p
        /\ Readable(p, z) /\ sessions' = [sessions EXCEPT ![z] = NewSession(p, row)]
    BY <1>0, <1>22 DEF InsertSession, CommandKeepsItsGround, disk
  <2>2. row # None /\ row \in ZoneRow
    <3>1. row # None
      BY <2>1 DEF Readable
    <3>2. QED
      BY <1>0, <2>1, <3>1
  <2>3. /\ NewSession(p, row) # None /\ NewSession(p, row).home = p
        /\ NewSession(p, row).content = row.content
    BY <2>1, <2>2, RowFields, NoneAssumption
  <2>4. OnDesk(NewSession(p, row)) = [holds |-> row.content, home |-> p]
    BY <2>3 DEF OnDesk
  <2>5. Papers(sessions)' = [Papers(sessions) EXCEPT ![z] = [holds |-> row.content, home |-> p]]
    BY <1>5, <2>1, <2>4
  <2>6. Boxes(zones)[p][z] # None /\ Boxes(zones)[p][z].opens /\ Boxes(zones)[p][z].holds = row.content
    BY <1>1, <2>1, <2>2
  <2> HIDE DEF p, z, row
  <2>7. Store!TakeOut(z)
    BY <1>2, <2>1, <2>5, <2>6 DEF Store!TakeOut, Store!Paper, p
  <2>8. QED
    BY <2>1, <2>7 DEF Store!Next
<1>23. ASSUME NEW z \in ZoneIds, ReadZone(z) PROVE Store!Next
  <2>1. /\ sessions' = [sessions EXCEPT ![z] = Used(sessions[z])] /\ sessions[z] # None
        /\ UNCHANGED zones /\ shell'.open = shell.open
    BY <1>0, <1>23 DEF ReadZone, disk
  <2>2. OnDesk(Used(sessions[z])) = OnDesk(sessions[z])
    <3>1. sessions[z] \in ZoneSession
      BY <1>0, <2>1
    <3>2. Used(sessions[z]) # None /\ Used(sessions[z]).content = sessions[z].content
          /\ Used(sessions[z]).home = sessions[z].home
      BY <3>1, SessionFields, NoneAssumption
    <3>3. QED
      BY <2>1, <3>2 DEF OnDesk
  <2>3. QED
    BY <1>2, <1>8, <2>1, <2>2
<1>24. ASSUME NEW z \in ZoneIds, NEW c \in Contents, MutateZone(z, c) \/ MutateFails(z, c)
       PROVE  Store!Next
  <2>1. PICK s : /\ sessions' = [sessions EXCEPT ![z] = s] /\ sessions[z] # None
                 /\ s \in {Changed(Used(sessions[z]), c), Reported(Changed(Used(sessions[z]), c), TRUE)}
                 /\ UNCHANGED zones /\ shell'.open = shell.open
    BY <1>0, <1>24 DEF MutateZone, MutateFails, disk
  <2>2. s # None /\ s.content = c /\ s.home = sessions[z].home
    <3>1. Used(sessions[z]) \in ZoneSession /\ Used(sessions[z]).home = sessions[z].home
      BY <1>0, <2>1, SessionFields
    <3>2. /\ Changed(Used(sessions[z]), c) \in ZoneSession
          /\ Changed(Used(sessions[z]), c).home = sessions[z].home
          /\ Changed(Used(sessions[z]), c).content = c
      BY <3>1, SessionFields
    <3>3. /\ Reported(Changed(Used(sessions[z]), c), TRUE) \in ZoneSession
          /\ Reported(Changed(Used(sessions[z]), c), TRUE).home = sessions[z].home
          /\ Reported(Changed(Used(sessions[z]), c), TRUE).content = c
      BY <3>2, SessionFields
    <3>4. QED
      BY <2>1, <3>2, <3>3, NoneAssumption
  <2>3. Papers(sessions)' = [Papers(sessions) EXCEPT ![z] = [holds |-> c, home |-> sessions[z].home]]
    BY <1>5, <2>1, <2>2 DEF OnDesk
  <2>4. [Papers(sessions)[z] EXCEPT !.holds = c] = [holds |-> c, home |-> sessions[z].home]
    <3>1. Papers(sessions)[z] = [holds |-> sessions[z].content, home |-> sessions[z].home]
      BY <1>1, <2>1 DEF OnDesk
    <3>2. QED
      BY <3>1
  <2>5. Store!Write(z, c)
    BY <1>1, <1>2, <2>1, <2>3, <2>4 DEF Store!Write
  <2>6. QED
    BY <2>5 DEF Store!Next
<1>25. CASE SaveZone
  <2> DEFINE p == shell.open
             z == main.zone
             row == zones[p][z]
             s == sessions[z]
             new == SavedRow(row, s)
  <2>1. /\ p \in Paths /\ p # None /\ z \in ZoneIds /\ s # None /\ row # None /\ ~Evicting(z)
        /\ shell'.open = p /\ zones' = [zones EXCEPT ![p][z] = new]
        /\ sessions' = [sessions EXCEPT ![z] = Reported(s, FALSE)]
    BY <1>0, <1>25 DEF SaveZone, CommandKeepsItsGround, TouchShell, TypeOK, Evicting
  <2>2. s \in ZoneSession /\ row \in ZoneRow /\ s.home \in Paths
    BY <1>0, <2>1 DEF ZoneSession, TypeOK
  <2>3. UNCHANGED Papers(sessions)
    <3>1. /\ Reported(s, FALSE) # None /\ Reported(s, FALSE).content = s.content
          /\ Reported(s, FALSE).home = s.home
      <4>1. FALSE \in BOOLEAN
        OBVIOUS
      <4>2. /\ Reported(s, FALSE) \in ZoneSession /\ Reported(s, FALSE).content = s.content
            /\ Reported(s, FALSE).home = s.home
        BY <2>2, <4>1, SessionFields
      <4>3. QED
        BY <4>2, NoneAssumption
    <3>2. OnDesk(Reported(s, FALSE)) = OnDesk(s)
      BY <2>1, <3>1 DEF OnDesk
    <3>3. QED
      BY <1>8, <2>1, <3>2
  <2>4. new # None /\ new.key = row.key /\ new.blobKey = s.key /\ new.content = s.content
    BY <2>2, RowFields, NoneAssumption
  <2>5. /\ Boxes(zones)[p][z] # None
        /\ Papers(sessions)[z] # None /\ Papers(sessions)[z].home = s.home
        /\ Papers(sessions)[z].holds = s.content
    BY <1>1, <2>1
  <2>6. /\ zones[s.home][z] # None /\ zones[s.home][z].key = s.key
        /\ Readable(s.home, z)
    BY <1>0, <2>1 DEF HomeSessionsFit, OpenZonesReopen
  <2>7. Boxes(zones)' = [Boxes(zones) EXCEPT ![p][z] = Boxed(new)]
    BY <1>4, <2>1
  <2>8. CASE s.home = p
    <3>1. Boxed(new) = [holds |-> s.content, opens |-> TRUE]
      BY <2>4, <2>6, <2>8 DEF Boxed
    <3>2. Boxes(zones)[p][z].opens
      BY <1>1, <2>1, <2>6, <2>8
    <3> HIDE DEF p, z, s, new, row
    <3>3. Store!Save(z)
      BY <2>1, <2>3, <2>5, <2>7, <2>8, <3>1, <3>2 DEF Store!Save, Store!Box, p
    <3>4. QED
      BY <2>1, <3>3 DEF Store!Next
  <2>9. CASE s.home # p
    <3>1. row.key # s.key
      BY <2>1, <2>2, <2>6, <2>9 DEF KeysDiffer
    <3>2. Boxed(new) = [holds |-> s.content, opens |-> FALSE]
      BY <2>4, <3>1 DEF Boxed
    <3> HIDE DEF p, z, s, new, row
    <3>3. Store!SaveElsewhere(z)
      BY <2>1, <2>3, <2>5, <2>7, <2>9, <3>2 DEF Store!SaveElsewhere, p
    <3>4. QED
      BY <2>1, <3>3 DEF Store!Next
  <2>10. QED
    BY <2>8, <2>9
<1>26. CASE SaveFails
  <2>1. /\ main.zone \in ZoneIds /\ sessions[main.zone] # None /\ UNCHANGED zones
        /\ sessions' = [sessions EXCEPT ![main.zone] = Reported(sessions[main.zone], TRUE)]
        /\ shell'.open = shell.open
    BY <1>0, <1>26 DEF SaveFails, CommandKeepsItsGround, TouchShell, disk, TypeOK
  <2>2. OnDesk(Reported(sessions[main.zone], TRUE)) = OnDesk(sessions[main.zone])
    <3>1. sessions[main.zone] \in ZoneSession
      BY <1>0, <2>1
    <3>2. /\ Reported(sessions[main.zone], TRUE) # None
          /\ Reported(sessions[main.zone], TRUE).content = sessions[main.zone].content
          /\ Reported(sessions[main.zone], TRUE).home = sessions[main.zone].home
      <4>1. TRUE \in BOOLEAN
        OBVIOUS
      <4>2. /\ Reported(sessions[main.zone], TRUE) \in ZoneSession
            /\ Reported(sessions[main.zone], TRUE).content = sessions[main.zone].content
            /\ Reported(sessions[main.zone], TRUE).home = sessions[main.zone].home
        BY <3>1, <4>1, SessionFields
      <4>3. QED
        BY <4>2, NoneAssumption
    <3>3. QED
      BY <2>1, <3>2 DEF OnDesk
  <2>3. QED
    BY <1>2, <1>8, <2>1, <2>2
<1>27. CASE UNCHANGED vars
  BY <1>2, <1>3, <1>27 DEF vars
<1>30. QED
  BY <1>9, <1>10, <1>11, <1>12, <1>14, <1>15, <1>16, <1>17, <1>18, <1>19, <1>20, <1>21, <1>22,
     <1>23, <1>24, <1>25, <1>26, <1>27 DEF Next, UserStarts, MainFinishes, WatcherStep

\* Whatever the two threads, their mutexes and the keys do, a person deals with
\* a store of Shells: a save goes to the Shell that is open and leaves a zone
\* that opens, unless the session came from another Shell, and then it costs
\* that one zone.
THEOREM ImplementsStore == Spec => StoreSpec
<1>1. Init => Store!Init
  BY DEF Init, Closed, NoSessions, Store!Init, Boxes, Papers, Boxed, OnDesk
<1>2. Init => KeysDiffer /\ OpenZonesReopen
  BY DEF Init, NoSessions, KeysDiffer, OpenZonesReopen
<1>3. QED
  BY <1>1, <1>2, StoreStep, KeysInductive, ReopenInductive, InvariantHolds, PTL
     DEF Spec, StoreSpec, Store!Spec

=============================================================================
