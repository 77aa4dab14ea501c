--------------------------- MODULE Frontend_proofs ---------------------------
(***************************************************************************)
(* For any zones of any kinds, both themes, whatever the bound on the load: *)
(* the types, that the screen fits the state in the instant theme, and that *)
(* rows and tiles settle.                                                   *)
(*                                                                         *)
(* A queue of calls changes in three ways: a call is sent, the first one is *)
(* answered, or it is answered and another one sent.                        *)
(***************************************************************************)
EXTENDS Frontend, SequenceTheorems, TLAPS

-----------------------------------------------------------------------------
(* The queue *)

LEMMA Appended ==
  ASSUME NEW S, NEW q \in Seq(S), NEW c \in S
  PROVE  /\ Append(q, c) \in Seq(S)
         /\ DOMAIN q = 1 .. Len(q) /\ Len(q) \in Nat
         /\ DOMAIN Append(q, c) = 1 .. Len(q) + 1
         /\ \A i \in DOMAIN q : Append(q, c)[i] = q[i]
         /\ Append(q, c)[Len(q) + 1] = c
  BY AppendProperties, LenProperties

LEMMA Shortened ==
  ASSUME NEW S, NEW q \in Seq(S), q # <<>>
  PROVE  /\ Tail(q) \in Seq(S)
         /\ Head(q) = q[1] /\ Head(q) \in S
         /\ DOMAIN q = 1 .. Len(q) /\ Len(q) \in Nat \ {0}
         /\ DOMAIN Tail(q) = 1 .. Len(q) - 1
         /\ \A i \in 1 .. Len(q) - 1 : Tail(q)[i] = q[i + 1]
<1>1. DOMAIN q = 1 .. Len(q) /\ Len(q) \in Nat \ {0}
  BY LenProperties, EmptySeq
<1>2. /\ Tail(q) \in Seq(S)
      /\ Len(Tail(q)) = Len(q) - 1
      /\ Head(q) \in S
      /\ \A i \in 1 .. Len(q) - 1 : Tail(q)[i] = q[i + 1]
  BY HeadTailProperties
<1>3. DOMAIN Tail(q) = 1 .. Len(q) - 1
  BY <1>2, LenProperties
<1> QED BY <1>1, <1>2, <1>3

LEMMA ElementIsCall ==
  ASSUME NEW q \in Seq(Calls), NEW i \in DOMAIN q
  PROVE  q[i] \in Calls
  BY ElementOfSeq, LenProperties

\* Sending a call to a queue: one that is not a stale list does no harm, a list
\* of the zone itself is all it takes.
LEMMA SentFollows ==
  ASSUME NEW q \in Seq(Calls), NEW c \in Calls, NEW z, ~IsStale(c, z)
  PROVE  /\ StaleIsFollowed(q, z) => StaleIsFollowed(Append(q, c), z)
         /\ ListComes(q, z) => ListComes(Append(q, c), z)
<1> DEFINE a == Append(q, c)
<1>1. /\ DOMAIN q = 1 .. Len(q) /\ Len(q) \in Nat
      /\ DOMAIN a = 1 .. Len(q) + 1
      /\ \A i \in DOMAIN q : a[i] = q[i]
      /\ a[Len(q) + 1] = c
  BY Appended
<1> HIDE DEF a
<1>2. ASSUME StaleIsFollowed(q, z), NEW i \in DOMAIN a, IsStale(a[i], z)
      PROVE  \E j \in DOMAIN a : j > i /\ IsList(a[j], z)
  <2>1. i \in DOMAIN q
    BY <1>1, <1>2
  <2>2. PICK j \in DOMAIN q : j > i /\ IsList(q[j], z)
    BY <1>1, <1>2, <2>1 DEF StaleIsFollowed
  <2> QED BY <1>1, <2>2
<1>3. ASSUME ListComes(q, z) PROVE ListComes(a, z)
  BY <1>1, <1>3 DEF ListComes
<1> QED BY <1>2, <1>3 DEF StaleIsFollowed, a

LEMMA OwnListFollows ==
  ASSUME NEW q \in Seq(Calls), NEW c \in Calls, NEW z, IsList(c, z)
  PROVE  StaleIsFollowed(Append(q, c), z) /\ ListComes(Append(q, c), z)
<1> DEFINE a == Append(q, c)
<1>1. /\ DOMAIN q = 1 .. Len(q) /\ Len(q) \in Nat
      /\ DOMAIN a = 1 .. Len(q) + 1
      /\ a[Len(q) + 1] = c
  BY Appended
<1> HIDE DEF a
<1>2. ~IsStale(c, z)
  BY DEF IsList, IsStale
<1>3. ASSUME NEW i \in DOMAIN a, IsStale(a[i], z)
      PROVE  \E j \in DOMAIN a : j > i /\ IsList(a[j], z)
  <2>1. i < Len(q) + 1
    BY <1>1, <1>2, <1>3
  <2> QED BY <1>1, <2>1
<1>4. ListComes(a, z)
  BY <1>1 DEF ListComes
<1> QED BY <1>3, <1>4 DEF StaleIsFollowed, a

\* Answering the first call: what is stale in the rest is still followed, and a
\* list still comes unless it was the first.
LEMMA AnsweredFollows ==
  ASSUME NEW q \in Seq(Calls), q # <<>>, NEW z, StaleIsFollowed(q, z)
  PROVE  /\ StaleIsFollowed(Tail(q), z)
         /\ ListComes(q, z) /\ ~IsList(Head(q), z) => ListComes(Tail(q), z)
         /\ IsStale(Head(q), z) => ListComes(Tail(q), z)
<1> DEFINE t == Tail(q)
<1>1. /\ Head(q) = q[1]
      /\ DOMAIN q = 1 .. Len(q) /\ Len(q) \in Nat \ {0}
      /\ DOMAIN t = 1 .. Len(q) - 1
      /\ \A i \in 1 .. Len(q) - 1 : t[i] = q[i + 1]
  BY Shortened
<1> HIDE DEF t
<1>2. ASSUME NEW j \in DOMAIN q, j > 1 PROVE j - 1 \in DOMAIN t /\ t[j - 1] = q[j]
  <2>1. j - 1 \in 1 .. Len(q) - 1 /\ (j - 1) + 1 = j
    BY <1>1, <1>2
  <2> QED BY <1>1, <2>1
<1>3. ASSUME NEW i \in DOMAIN t, IsStale(t[i], z)
      PROVE  \E j \in DOMAIN t : j > i /\ IsList(t[j], z)
  <2>1. i + 1 \in DOMAIN q /\ IsStale(q[i + 1], z) /\ i \in Nat \ {0}
    BY <1>1, <1>3
  <2>2. PICK j \in DOMAIN q : j > i + 1 /\ IsList(q[j], z)
    BY <2>1 DEF StaleIsFollowed
  <2>3. j > 1 /\ j - 1 > i
    BY <1>1, <2>1, <2>2
  <2> QED BY <1>2, <2>2, <2>3
<1>4. ASSUME ListComes(q, z), ~IsList(Head(q), z) PROVE ListComes(t, z)
  <2>1. PICK j \in DOMAIN q : IsList(q[j], z)
    BY <1>4 DEF ListComes
  <2>2. j > 1
    BY <1>1, <1>4, <2>1
  <2> QED BY <1>2, <2>1, <2>2 DEF ListComes
<1>5. ASSUME IsStale(Head(q), z) PROVE ListComes(t, z)
  <2>1. PICK j \in DOMAIN q : j > 1 /\ IsList(q[j], z)
    BY <1>1, <1>5 DEF StaleIsFollowed
  <2> QED BY <1>2, <2>1 DEF ListComes
<1> QED BY <1>3, <1>4, <1>5 DEF StaleIsFollowed, t

\* The same for the calls that end in drawn tiles.
LEMMA TilesStillCome ==
  ASSUME NEW q \in Seq(Calls)
  PROVE  /\ \A c \in Calls : TilesCome(q) => TilesCome(Append(q, c))
         /\ \A c \in Calls : c.cmd \in {"list_zones", "zone_flags"} => TilesCome(Append(q, c))
         /\ q # <<>> /\ TilesCome(q) /\ Head(q).cmd \notin {"list_zones", "zone_flags"}
              => TilesCome(Tail(q))
<1>1. ASSUME NEW c \in Calls, TilesCome(q) PROVE TilesCome(Append(q, c))
  BY <1>1, Appended DEF TilesCome
<1>2. ASSUME NEW c \in Calls, c.cmd \in {"list_zones", "zone_flags"}
      PROVE  TilesCome(Append(q, c))
  BY <1>2, Appended DEF TilesCome
<1>3. ASSUME q # <<>>, TilesCome(q), Head(q).cmd \notin {"list_zones", "zone_flags"}
      PROVE  TilesCome(Tail(q))
  <2>1. PICK j \in DOMAIN q : q[j].cmd \in {"list_zones", "zone_flags"}
    BY <1>3 DEF TilesCome
  <2>2. j \in 2 .. Len(q)
    BY <1>3, <2>1, Shortened
  <2>3. j - 1 \in 1 .. Len(q) - 1 /\ (j - 1) + 1 = j
    BY <1>3, <2>2, Shortened
  <2>4. j - 1 \in DOMAIN Tail(q) /\ Tail(q)[j - 1] = q[j]
    BY <1>3, <2>3, Shortened
  <2> QED BY <2>1, <2>4 DEF TilesCome
<1> QED BY <1>1, <1>2, <1>3

-----------------------------------------------------------------------------
(* Types *)

Fades == [hide : SUBSET Screens, show : Screens]

LEMMA CallTypes ==
  /\ \A cmd \in Cmds : \A z \in Zones : Call(cmd, z) \in Calls
  /\ \A cmd \in Cmds \ {"open_zone"} : Call(cmd, None) \in Calls
  /\ \A z \in Zones \union {None}, k \in Kinds : List(z, k) \in Calls
  /\ \A z \in Zones \union {None}, k \in Kinds, r \in Zones \union {New, None} :
       Write(z, k, r) \in Calls
  /\ RefreshZones \in Calls
  /\ \A z \in Zones : RefreshList(z) \in Calls
  BY ZonesAssumption DEF Call, List, Write, RefreshZones, RefreshList, Calls, Cmds

LEMMA QueueTypes ==
  ASSUME TypeOK
  PROVE  /\ \A c \in Calls : Send(c) => calls' \in Seq(Calls)
         /\ calls # <<>> /\ Answered => calls' \in Seq(Calls)
         /\ calls # <<>> => \A c \in Calls : AndThen(c) => calls' \in Seq(Calls)
         /\ calls # <<>> => Head(calls) \in Calls
<1>1. calls \in Seq(Calls)
  BY DEF TypeOK
<1>2. ASSUME NEW c \in Calls, Send(c) PROVE calls' \in Seq(Calls)
  BY <1>1, <1>2, Appended DEF Send
<1>3. ASSUME calls # <<>> PROVE Tail(calls) \in Seq(Calls) /\ Head(calls) \in Calls
  BY <1>1, <1>3, Shortened
<1>4. ASSUME calls # <<>>, NEW c \in Calls, AndThen(c) PROVE calls' \in Seq(Calls)
  BY <1>3, <1>4, Appended DEF AndThen
<1> QED BY <1>2, <1>3, <1>4 DEF Answered

\* A switch of screens, with the rest of the handlers that switch.
LEMMA SwitchTypes ==
  ASSUME TypeOK, NEW hide \in SUBSET Screens, NEW show \in Screens, SwitchScreen(hide, show)
  PROVE  shown' \subseteq Screens /\ fades' \in Seq(Fades)
<1>1. fades \in Seq(Fades) /\ shown \subseteq Screens
  BY DEF TypeOK, Fades
<1>2. CASE fades' = Append(fades, [hide |-> hide \intersect shown, show |-> show]) /\ shown' = shown
  <2>1. [hide |-> hide \intersect shown, show |-> show] \in Fades
    BY <1>1 DEF Fades
  <2> QED BY <1>1, <1>2, <2>1, Appended
<1>3. CASE shown' = (shown \ hide) \union {show} /\ fades' = fades
  BY <1>1, <1>3
<1> QED BY <1>2, <1>3 DEF SwitchScreen

ViewTypes ==
  /\ shown \subseteq Screens
  /\ fades \in Seq(Fades)
  /\ zone \in Zones \union {None}
  /\ polling \in BOOLEAN

LEMMA ShowTypes ==
  ASSUME TypeOK
  PROVE  /\ ShowLockScreen => ViewTypes'
         /\ ShowDesktop => ViewTypes'
         /\ \A z \in Zones : ShowZoneView(z) => ViewTypes'
         /\ UNCHANGED view => ViewTypes'
<1> USE DEF ViewTypes
<1>1. ASSUME ShowLockScreen PROVE ViewTypes'
  <2>1. SwitchScreen({"desktop", "zone", "system"}, "lock")
    BY <1>1 DEF ShowLockScreen
  <2>2. shown' \subseteq Screens /\ fades' \in Seq(Fades)
    BY <2>1, SwitchTypes DEF Screens
  <2> QED BY <1>1, <2>2 DEF ShowLockScreen
<1>2. ASSUME ShowDesktop PROVE ViewTypes'
  <2>1. SwitchScreen({"lock", "zone", "system"}, "desktop")
    BY <1>2 DEF ShowDesktop
  <2>2. shown' \subseteq Screens /\ fades' \in Seq(Fades)
    BY <2>1, SwitchTypes DEF Screens
  <2> QED BY <1>2, <2>2 DEF ShowDesktop
<1>3. ASSUME NEW z \in Zones, ShowZoneView(z) PROVE ViewTypes'
  <2>1. SwitchScreen({"desktop", "lock", "system"}, "zone")
    BY <1>3 DEF ShowZoneView
  <2>2. shown' \subseteq Screens /\ fades' \in Seq(Fades)
    BY <2>1, SwitchTypes DEF Screens
  <2> QED BY <1>3, <2>2 DEF ShowZoneView, TypeOK
<1>4. ASSUME UNCHANGED view PROVE ViewTypes'
  BY <1>4 DEF view, screen, TypeOK, Fades
<1> QED BY <1>1, <1>2, <1>3, <1>4

\* The types of everything that is not the view or the queue.
RestTypes ==
  /\ shellOpen \in BOOLEAN
  /\ open \subseteq Zones
  /\ signal \in BOOLEAN
  /\ flourishes \in Nat
  /\ tiles \in [Zones -> {"none", "open", "locked"}]
  /\ rows \in [Kinds -> Zones \union {None}]
  /\ modal \in [Kinds -> Zones \union {New, None}]
  /\ prompt \in Zones \union {None}

LEMMA TypesSplit ==
  /\ TypeOK <=> RestTypes /\ ViewTypes /\ calls \in Seq(Calls)
  /\ TypeOK' <=> RestTypes' /\ ViewTypes' /\ calls' \in Seq(Calls)
  BY DEF TypeOK, RestTypes, ViewTypes, Fades

\* A button that only sends a call.
LEMMA PressTypes ==
  ASSUME TypeOK, NEW s, NEW c \in Calls, Press(s, c)
  PROVE  TypeOK'
<1>1. calls' \in Seq(Calls)
  BY QueueTypes DEF Press
<1>2. RestTypes' /\ ViewTypes'
  BY ShowTypes, TypesSplit DEF Press, RestTypes, program, drawn, forms
<1> QED BY <1>1, <1>2, TypesSplit

LEMMA PersonTypes ==
  ASSUME TypeOK, Person
  PROVE  TypeOK'
<1>0. RestTypes /\ ViewTypes /\ calls \in Seq(Calls)
  BY TypesSplit
<1>1. CASE PressOpenShell
  BY <1>1, PressTypes, CallTypes DEF PressOpenShell, Cmds
<1>2. CASE PressLockShell
  BY <1>2, PressTypes, CallTypes DEF PressLockShell, Cmds
<1>3. CASE GoBack
  <2>1. ViewTypes' /\ calls' \in Seq(Calls)
    BY <1>3, ShowTypes, QueueTypes, CallTypes DEF GoBack
  <2>2. RestTypes'
    BY <1>3, <1>0 DEF GoBack, RestTypes, program, drawn, forms
  <2> QED BY <2>1, <2>2, TypesSplit
<1>4. CASE ClickSystem
  <2>1. SwitchScreen({"desktop", "lock", "zone"}, "system")
    BY <1>4 DEF ClickSystem
  <2>2. shown' \subseteq Screens /\ fades' \in Seq(Fades)
    BY <2>1, SwitchTypes DEF Screens
  <2>3. ViewTypes' /\ calls' \in Seq(Calls)
    BY <1>4, <1>0, <2>2 DEF ClickSystem, ViewTypes
  <2>4. RestTypes'
    BY <1>4, <1>0 DEF ClickSystem, RestTypes, program, drawn, forms
  <2> QED BY <2>3, <2>4, TypesSplit
<1>5. CASE AnswerPrompt
  <2>1. prompt # None => Call("open_zone", prompt) \in Calls
    BY <1>0, CallTypes DEF RestTypes, Cmds
  <2>2. calls' \in Seq(Calls)
    BY <1>5, <1>0, <2>1, QueueTypes DEF AnswerPrompt
  <2>3. ViewTypes'
    BY <1>5, ShowTypes DEF AnswerPrompt
  <2>4. RestTypes'
    BY <1>5, <1>0 DEF AnswerPrompt, RestTypes, program, drawn
  <2> QED BY <2>2, <2>3, <2>4, TypesSplit
<1>6. CASE PressLockZone
  <2>1. Call("lock_zone", zone) \in Calls
    BY <1>0, CallTypes DEF ViewTypes, Cmds
  <2>2. ViewTypes' /\ calls' \in Seq(Calls)
    BY <1>6, <2>1, ShowTypes, QueueTypes, CallTypes DEF PressLockZone
  <2>3. RestTypes'
    BY <1>6, <1>0 DEF PressLockZone, RestTypes, program, drawn, forms
  <2> QED BY <2>2, <2>3, TypesSplit
<1>7. ASSUME NEW z \in Zones, ClickOpenTile(z) PROVE TypeOK'
  <2>1. ViewTypes' /\ calls' \in Seq(Calls)
    BY <1>7, ShowTypes, QueueTypes, CallTypes DEF ClickOpenTile
  <2>2. RestTypes'
    BY <1>7, <1>0 DEF ClickOpenTile, RestTypes, program, drawn, forms
  <2> QED BY <2>1, <2>2, TypesSplit
<1>8. ASSUME NEW z \in Zones, ClickLockedTile(z) PROVE TypeOK'
  <2>1. ViewTypes' /\ calls' \in Seq(Calls)
    BY <1>8, <1>0, ShowTypes DEF ClickLockedTile
  <2>2. RestTypes'
    BY <1>8, <1>0 DEF ClickLockedTile, RestTypes, program, drawn
  <2> QED BY <2>1, <2>2, TypesSplit
<1>9. ASSUME NEW z \in Zones, PressChangePassword(z) PROVE TypeOK'
  BY <1>9, PressTypes, CallTypes DEF PressChangePassword, Cmds
<1>10. ASSUME NEW k \in Kinds, NEW r \in Zones \union {New}, OpenDialog(k, r) PROVE TypeOK'
  <2>1. ViewTypes' /\ calls' \in Seq(Calls)
    BY <1>10, <1>0, ShowTypes DEF OpenDialog
  <2>2. RestTypes'
    BY <1>10, <1>0 DEF OpenDialog, RestTypes, program, drawn
  <2> QED BY <2>1, <2>2, TypesSplit
<1>11. ASSUME NEW k \in Kinds, ClickRow(k) PROVE TypeOK'
  <2>1. rows[k] \in Zones
    BY <1>11, <1>0 DEF ClickRow, RestTypes
  <2> QED BY <1>10, <1>11, <2>1 DEF ClickRow
<1>12. ASSUME NEW k \in Kinds, PressAdd(k) PROVE TypeOK'
  BY <1>10, <1>12 DEF PressAdd
<1>13. ASSUME NEW k \in Kinds, PressCancel(k) PROVE TypeOK'
  <2>1. ViewTypes' /\ calls' \in Seq(Calls)
    BY <1>13, <1>0, ShowTypes DEF PressCancel
  <2>2. RestTypes'
    BY <1>13, <1>0 DEF PressCancel, RestTypes, program, drawn
  <2> QED BY <2>1, <2>2, TypesSplit
<1>14. ASSUME NEW k \in Kinds, PressSave(k) PROVE TypeOK'
  <2>1. Write(zone, k, modal[k]) \in Calls
    BY <1>0, CallTypes DEF RestTypes, ViewTypes
  <2>2. ViewTypes' /\ calls' \in Seq(Calls)
    BY <1>14, <2>1, ShowTypes, QueueTypes DEF PressSave
  <2>3. RestTypes'
    BY <1>14, <1>0 DEF PressSave, RestTypes, program, drawn, forms
  <2> QED BY <2>2, <2>3, TypesSplit
<1> QED
  BY <1>1, <1>2, <1>3, <1>4, <1>5, <1>6, <1>7, <1>8, <1>9, <1>11, <1>12, <1>13, <1>14
  DEF Person

LEMMA AnswerTypes ==
  ASSUME TypeOK, Answer
  PROVE  TypeOK'
<1>0. RestTypes /\ ViewTypes /\ calls \in Seq(Calls)
  BY TypesSplit
<1>h. calls # <<>> => Head(calls) \in Calls
  BY QueueTypes
<1>1. CASE ShellOpens
  <2>1. ViewTypes' /\ calls' \in Seq(Calls)
    BY <1>1, ShowTypes, QueueTypes, CallTypes DEF ShellOpens, Answers
  <2>2. RestTypes'
    BY <1>1, <1>0 DEF ShellOpens, RestTypes, drawn, forms
  <2> QED BY <2>1, <2>2, TypesSplit
<1>2. CASE ShellLocks
  <2>1. ViewTypes' /\ calls' \in Seq(Calls)
    BY <1>2, ShowTypes, QueueTypes DEF ShellLocks, Answers
  <2>2. RestTypes'
    BY <1>2, <1>0 DEF ShellLocks, RestTypes, drawn, forms
  <2> QED BY <2>1, <2>2, TypesSplit
<1>3. CASE ZonesListed
  <2>0. Call("zone_flags", None) \in Calls
    BY CallTypes DEF Cmds
  <2>1. ViewTypes' /\ calls' \in Seq(Calls)
    BY <1>3, <2>0, ShowTypes, QueueTypes DEF ZonesListed, Answers
  <2>2. RestTypes'
    BY <1>3, <1>0 DEF ZonesListed, RestTypes, program, drawn, forms
  <2> QED BY <2>1, <2>2, TypesSplit
<1>4. CASE DrawTiles
  <2>1. ViewTypes' /\ calls' \in Seq(Calls)
    BY <1>4, ShowTypes, QueueTypes DEF DrawTiles, Answers
  <2>2. RestTypes'
    BY <1>4, <1>0 DEF DrawTiles, RestTypes, program, forms
  <2> QED BY <2>1, <2>2, TypesSplit
<1>5. CASE ZoneOpens
  <2>0. Head(calls).zone \in Zones
    BY <1>5, <1>h DEF ZoneOpens, Answers, Calls
  <2>1. ViewTypes' /\ calls' \in Seq(Calls)
    BY <1>5, <2>0, ShowTypes, QueueTypes, CallTypes DEF ZoneOpens, Answers
  <2>2. RestTypes'
    BY <1>5, <1>0, <2>0 DEF ZoneOpens, RestTypes, drawn, forms
  <2> QED BY <2>1, <2>2, TypesSplit
<1>6. CASE PasswordChanges
  <2>1. ViewTypes' /\ calls' \in Seq(Calls)
    BY <1>6, ShowTypes, QueueTypes, CallTypes DEF PasswordChanges, Answers
  <2>2. RestTypes'
    BY <1>6, <1>0 DEF PasswordChanges, RestTypes, drawn, forms
  <2> QED BY <2>1, <2>2, TypesSplit
<1>7. CASE Listed
  <2>1. ViewTypes' /\ calls' \in Seq(Calls)
    BY <1>7, ShowTypes, QueueTypes, CallTypes DEF Listed, Answers
  <2>2. tiles' = tiles /\ rows' \in [Kinds -> Zones \union {None}]
    BY <1>7, <1>0 DEF Listed, MayUse, RestTypes, drawn
  <2>3. RestTypes'
    BY <1>7, <1>0, <2>2 DEF Listed, RestTypes, program, forms
  <2> QED BY <2>1, <2>3, TypesSplit
<1>8. CASE ZoneLocks
  <2>1. ViewTypes' /\ calls' \in Seq(Calls)
    BY <1>8, ShowTypes, QueueTypes, CallTypes DEF ZoneLocks, Answers
  <2>2. RestTypes'
    BY <1>8, <1>0 DEF ZoneLocks, RestTypes, drawn, forms
  <2> QED BY <2>1, <2>2, TypesSplit
<1>9. CASE Written
  <2>0. List(zone, Head(calls).kind) \in Calls
    <3>1. Head(calls).kind \in Kinds
      BY <1>9, <1>h, <1>0, ZonesAssumption DEF Written, Answers, MayUse, RestTypes
    <3> QED BY <3>1, <1>0, CallTypes DEF ViewTypes
  <2>1. ViewTypes' /\ calls' \in Seq(Calls)
    BY <1>9, <2>0, ShowTypes, QueueTypes DEF Written, Answers
  <2>2. RestTypes'
    BY <1>9, <1>0 DEF Written, RestTypes, program, drawn
  <2> QED BY <2>1, <2>2, TypesSplit
<1>10. CASE OnlyText
  <2>1. ViewTypes' /\ calls' \in Seq(Calls)
    BY <1>10, ShowTypes, QueueTypes DEF OnlyText
  <2>2. RestTypes'
    BY <1>10, <1>0 DEF OnlyText, RestTypes, program, drawn, forms
  <2> QED BY <2>1, <2>2, TypesSplit
<1>11. CASE ToldAboutShell
  <2>0. Call("is_zone_unlocked", zone) \in Calls
    BY <1>0, CallTypes DEF Cmds, ViewTypes
  <2>1. ViewTypes' /\ calls' \in Seq(Calls)
    BY <1>11, <2>0, ShowTypes, QueueTypes DEF ToldAboutShell, Answers
  <2>2. RestTypes'
    BY <1>11, <1>0 DEF ToldAboutShell, RestTypes, program, drawn, forms
  <2> QED BY <2>1, <2>2, TypesSplit
<1>12. CASE ToldAboutZone
  <2>1. ViewTypes' /\ calls' \in Seq(Calls)
    BY <1>12, ShowTypes, QueueTypes, CallTypes DEF ToldAboutZone, Answers
  <2>2. RestTypes'
    BY <1>12, <1>0 DEF ToldAboutZone, RestTypes, program, drawn, forms
  <2> QED BY <2>1, <2>2, TypesSplit
<1> QED
  BY <1>1, <1>2, <1>3, <1>4, <1>5, <1>6, <1>7, <1>8, <1>9, <1>10, <1>11, <1>12 DEF Answer

\* Removing one timer leaves a sequence of timers.
LEMMA FadeTypes ==
  ASSUME TypeOK, FadeEnds
  PROVE  TypeOK'
<1>1. fades \in Seq(Fades) /\ shown \subseteq Screens
  BY DEF TypeOK, Fades
<1>2. PICK i \in DOMAIN fades :
        /\ shown' = (shown \ fades[i].hide) \union {fades[i].show}
        /\ fades' = [j \in 1 .. Len(fades) - 1 |-> IF j < i THEN fades[j] ELSE fades[j + 1]]
  BY DEF FadeEnds
<1>3. DOMAIN fades = 1 .. Len(fades) /\ Len(fades) \in Nat /\ Len(fades) - 1 \in Nat
  BY <1>1, <1>2, LenProperties
<1>4. \A j \in 1 .. Len(fades) : fades[j] \in Fades
  BY <1>1, ElementOfSeq
<1>5. fades' \in [1 .. Len(fades) - 1 -> Fades]
  <2>1. ASSUME NEW j \in 1 .. Len(fades) - 1
        PROVE  (IF j < i THEN fades[j] ELSE fades[j + 1]) \in Fades
    <3>1. j \in 1 .. Len(fades) /\ j + 1 \in 1 .. Len(fades)
      BY <1>3
    <3> QED BY <1>4, <3>1
  <2> QED BY <1>2, <2>1
<1>6. fades' \in Seq(Fades)
  BY <1>3, <1>5, SeqDef
<1>7. shown' \subseteq Screens
  BY <1>1, <1>2, <1>3, <1>4 DEF Fades
<1>8. ViewTypes'
  BY <1>6, <1>7, TypesSplit DEF FadeEnds, ViewTypes
<1>9. RestTypes' /\ calls' \in Seq(Calls)
  BY TypesSplit DEF FadeEnds, RestTypes, program, drawn, forms
<1> QED BY <1>8, <1>9, TypesSplit

LEMMA TypesKept == TypeOK /\ [Next]_vars => TypeOK'
<1> SUFFICES ASSUME TypeOK, [Next]_vars PROVE TypeOK'
  OBVIOUS
<1>0. RestTypes /\ ViewTypes /\ calls \in Seq(Calls)
  BY TypesSplit
<1>1. CASE Watcher
  <2>1. ViewTypes' /\ calls' \in Seq(Calls)
    BY <1>1, <1>0, ShowTypes DEF Watcher, AutoLockShell, AutoLockZone
  <2>2. RestTypes'
    BY <1>1, <1>0 DEF Watcher, AutoLockShell, AutoLockZone, RestTypes, drawn, forms
  <2> QED BY <2>1, <2>2, TypesSplit
<1>2. CASE FlourishEnds
  <2>1. ViewTypes' /\ calls' \in Seq(Calls)
    BY <1>2, ShowTypes, QueueTypes, CallTypes DEF FlourishEnds
  <2>2. RestTypes'
    BY <1>2, <1>0 DEF FlourishEnds, RestTypes, program, drawn, forms
  <2> QED BY <2>1, <2>2, TypesSplit
<1>3. CASE Poll
  <2>0. Call("is_shell_unlocked", None) \in Calls
    BY CallTypes DEF Cmds
  <2>1. ViewTypes' /\ calls' \in Seq(Calls)
    BY <1>3, <2>0, ShowTypes, QueueTypes DEF Poll
  <2>2. RestTypes'
    BY <1>3, <1>0 DEF Poll, RestTypes, program, drawn, forms
  <2> QED BY <2>1, <2>2, TypesSplit
<1>4. CASE UNCHANGED vars
  BY <1>4 DEF vars, program, view, screen, drawn, forms, TypeOK
<1> QED BY <1>1, <1>2, <1>3, <1>4, PersonTypes, AnswerTypes, FadeTypes DEF Next

LEMMA InitTypes == Init => TypeOK
<1> SUFFICES ASSUME Init PROVE TypeOK
  OBVIOUS
<1>1. fades \in Seq(Fades) /\ calls \in Seq(Calls)
  BY EmptySeq DEF Init
<1>2. ViewTypes
  BY <1>1 DEF Init, ViewTypes, Screens
<1>3. RestTypes
  BY ThemesAssumption DEF Init, RestTypes
<1> QED BY <1>1, <1>2, <1>3, TypesSplit

\* TypeCorrect: every variable keeps its type, whatever calls are under way.
THEOREM TypeCorrect == Spec => []TypeOK
  BY InitTypes, TypesKept, PTL DEF Spec

-----------------------------------------------------------------------------
(* Screens *)

LEMMA ClosedKept ==
  TypeOK /\ ClosedHasNoZones /\ [Next]_vars => ClosedHasNoZones'
<1> SUFFICES ASSUME TypeOK, ClosedHasNoZones, [Next]_vars PROVE ClosedHasNoZones'
  OBVIOUS
<1> USE DEF ClosedHasNoZones
<1>1. CASE UNCHANGED program
  BY <1>1 DEF program
<1>2. CASE Answer
  BY <1>1, <1>2 DEF Answer, ShellOpens, ShellLocks, ZonesListed, DrawTiles, ZoneOpens,
    PasswordChanges, Listed, ZoneLocks, Written, OnlyText, ToldAboutShell, ToldAboutZone
<1>3. CASE Person
  BY <1>1, <1>3 DEF Person, PressOpenShell, PressLockShell, GoBack, ClickSystem, AnswerPrompt,
    PressLockZone, ClickOpenTile, ClickLockedTile, PressChangePassword, ClickRow, PressAdd,
    OpenDialog, PressCancel, PressSave, Press
<1>4. CASE Watcher
  BY <1>4 DEF Watcher, AutoLockShell, AutoLockZone
<1>5. CASE FadeEnds \/ FlourishEnds \/ Poll
  BY <1>1, <1>5 DEF FadeEnds, FlourishEnds, Poll
<1>6. CASE UNCHANGED vars
  BY <1>1, <1>6 DEF vars
<1> QED BY <1>2, <1>3, <1>4, <1>5, <1>6 DEF Next

\* What the three ways to show a screen come to in the instant theme.
LEMMA InstantShows ==
  ASSUME TypeOK, ~signal
  PROVE  /\ ShowLockScreen => shown' = {"lock"} /\ zone' = None /\ ~polling' /\ fades' = fades
         /\ ShowDesktop => shown' = {"desktop"} /\ zone' = None /\ ~polling' /\ fades' = fades
         /\ \A z \in Zones : ShowZoneView(z) => shown' = {"zone"} /\ zone' = z /\ fades' = fades
         /\ SwitchScreen({"desktop", "lock", "zone"}, "system")
              => shown' = {"system"} /\ fades' = fades
<1>1. shown \subseteq Screens
  BY DEF TypeOK
<1>2. shown \ {"desktop", "zone", "system"} \subseteq {"lock"}
  BY <1>1 DEF Screens
<1>3. shown \ {"lock", "zone", "system"} \subseteq {"desktop"}
  BY <1>1 DEF Screens
<1>4. shown \ {"desktop", "lock", "system"} \subseteq {"zone"}
  BY <1>1 DEF Screens
<1>5. shown \ {"desktop", "lock", "zone"} \subseteq {"system"}
  BY <1>1 DEF Screens
<1> QED BY <1>2, <1>3, <1>4, <1>5 DEF SwitchScreen, ShowLockScreen, ShowDesktop, ShowZoneView

\* An answered open_zone names a zone.
LEMMA OpensAZone ==
  ASSUME TypeOK, ZoneOpens
  PROVE  Head(calls).zone \in Zones
  BY QueueTypes DEF ZoneOpens, Answers, Calls

LEMMA FitsKept ==
  TypeOK /\ NothingFades /\ ScreenFits /\ [Next]_vars => NothingFades' /\ ScreenFits'
<1> SUFFICES ASSUME TypeOK, NothingFades, ScreenFits, [Next]_vars, ~signal'
             PROVE  /\ fades' = <<>> /\ flourishes' = 0
                    /\ \E s \in Screens : shown' = {s}
                    /\ "zone" \in shown' <=> zone' # None
                    /\ "lock" \in shown' => ~shellOpen'
                    /\ polling' => shown' \intersect {"lock", "desktop"} = {}
  BY DEF NothingFades, ScreenFits
<1> DEFINE Fits == /\ fades' = <<>> /\ flourishes' = 0
                   /\ \E s \in Screens : shown' = {s}
                   /\ "zone" \in shown' <=> zone' # None
                   /\ "lock" \in shown' => ~shellOpen'
                   /\ polling' => shown' \intersect {"lock", "desktop"} = {}
<1>0. ~signal
  BY DEF Next, Answer, ShellOpens, ShellLocks, ZonesListed, DrawTiles, ZoneOpens,
    PasswordChanges, Listed, ZoneLocks, Written, OnlyText, ToldAboutShell, ToldAboutZone,
    Person, PressOpenShell, PressLockShell, GoBack, ClickSystem, AnswerPrompt, PressLockZone,
    ClickOpenTile, ClickLockedTile, PressChangePassword, ClickRow, PressAdd, OpenDialog,
    PressCancel, PressSave, Press, Watcher, AutoLockShell, AutoLockZone, FadeEnds,
    FlourishEnds, Poll, vars
<1>1. /\ fades = <<>> /\ flourishes = 0
      /\ \E s \in Screens : shown = {s}
      /\ "zone" \in shown <=> zone # None
      /\ "lock" \in shown => ~shellOpen
      /\ polling => shown \intersect {"lock", "desktop"} = {}
  BY <1>0 DEF NothingFades, ScreenFits
<1>2. ASSUME UNCHANGED view, flourishes' = flourishes, shellOpen' => shellOpen PROVE Fits
  BY <1>1, <1>2 DEF view, screen
<1>3. ASSUME ShowDesktop, flourishes' = flourishes PROVE Fits
  BY <1>0, <1>1, <1>3, InstantShows DEF Screens
<1>4. ASSUME ShowLockScreen, flourishes' = flourishes, ~shellOpen' PROVE Fits
  BY <1>0, <1>1, <1>4, InstantShows DEF Screens
<1>5. ASSUME NEW z \in Zones, ShowZoneView(z), flourishes' = flourishes PROVE Fits
  BY <1>0, <1>1, <1>5, InstantShows, ZonesAssumption DEF Screens
<1>6. CASE Answer
  <2>1. CASE ShellOpens
    BY <1>0, <1>3, <2>1 DEF ShellOpens
  <2>2. CASE ShellLocks
    BY <1>4, <2>2 DEF ShellLocks
  <2>3. CASE ZonesListed \/ DrawTiles \/ PasswordChanges \/ Written \/ OnlyText
    BY <1>2, <2>3 DEF ZonesListed, DrawTiles, PasswordChanges, Written, OnlyText, program
  <2>4. CASE ZoneOpens
    BY <1>5, <2>4, OpensAZone DEF ZoneOpens
  <2>5. CASE Listed
    BY <1>2, <1>3, <2>5 DEF Listed, program
  <2>6. CASE ZoneLocks
    BY <1>3, <2>6 DEF ZoneLocks
  <2>7. CASE ToldAboutShell
    BY <1>2, <1>4, <2>7 DEF ToldAboutShell, program
  <2>8. CASE ToldAboutZone
    BY <1>2, <1>3, <2>8 DEF ToldAboutZone, program
  <2> QED BY <1>6, <2>1, <2>2, <2>3, <2>4, <2>5, <2>6, <2>7, <2>8 DEF Answer
<1>7. CASE Person
  <2>1. CASE GoBack
    BY <1>3, <2>1 DEF GoBack
  <2>2. CASE ClickSystem
    <3>1. zone = None
      BY <1>1, <2>2 DEF ClickSystem
    <3> QED BY <1>0, <1>1, <2>2, <3>1, InstantShows DEF ClickSystem, Screens
  <2>3. CASE PressLockZone
    BY <1>2, <1>3, <2>3 DEF PressLockZone, program
  <2>4. ASSUME NEW z \in Zones, ClickOpenTile(z) PROVE Fits
    BY <1>5, <2>4 DEF ClickOpenTile
  <2>5. CASE \/ PressOpenShell \/ PressLockShell \/ AnswerPrompt
             \/ \E z \in Zones : ClickLockedTile(z) \/ PressChangePassword(z)
             \/ \E k \in Kinds : ClickRow(k) \/ PressAdd(k) \/ PressCancel(k) \/ PressSave(k)
    BY <1>2, <2>5 DEF PressOpenShell, PressLockShell, AnswerPrompt, ClickLockedTile,
      PressChangePassword, ClickRow, PressAdd, OpenDialog, PressCancel, PressSave, Press, program
  <2> QED BY <1>7, <2>1, <2>2, <2>3, <2>4, <2>5 DEF Person
<1>8. CASE Watcher \/ Poll
  BY <1>2, <1>8 DEF Watcher, AutoLockShell, AutoLockZone, Poll, program
<1>9. CASE FadeEnds \/ FlourishEnds
  <2>1. fades # <<>> \/ flourishes > 0
    BY <1>9 DEF FadeEnds, FlourishEnds
  <2> QED BY <1>1, <2>1
<1>10. CASE UNCHANGED vars
  BY <1>2, <1>10 DEF vars, program
<1> QED BY <1>6, <1>7, <1>8, <1>9, <1>10 DEF Next

-----------------------------------------------------------------------------
(* Rows *)

LEMMA ListsKept ==
  TypeOK /\ ListsFollow /\ [Next]_vars => ListsFollow'
<1> SUFFICES ASSUME TypeOK, ListsFollow, [Next]_vars, zone' # None
             PROVE  /\ StaleIsFollowed(calls', zone')
                    /\ rows'[KindOf[zone']] = zone' \/ ListComes(calls', zone')
  BY DEF ListsFollow
<1> DEFINE Goal == /\ StaleIsFollowed(calls', zone')
                   /\ rows'[KindOf[zone']] = zone' \/ ListComes(calls', zone')
<1>0. /\ calls \in Seq(Calls)
      /\ zone \in Zones \union {None}
      /\ calls # <<>> => Tail(calls) \in Seq(Calls) /\ Head(calls) \in Calls
  BY Shortened DEF TypeOK
<1>l. zone # None =>
        /\ StaleIsFollowed(calls, zone)
        /\ rows[KindOf[zone]] = zone \/ ListComes(calls, zone)
  BY DEF ListsFollow
\* The shapes that a step can have.
<1>1. ASSUME calls' = calls, zone' = zone, rows' = rows PROVE Goal
  BY <1>l, <1>1
<1>2. ASSUME NEW c \in Calls, Send(c), c.cmd # "list", zone' = zone, rows' = rows PROVE Goal
  <2>1. ~IsStale(c, zone)
    BY <1>2 DEF IsStale
  <2> QED BY <1>0, <1>l, <1>2, <2>1, SentFollows DEF Send
<1>3. ASSUME calls # <<>>, Head(calls).cmd # "list", Answered, zone' = zone, rows' = rows
      PROVE  Goal
  <2>1. ~IsList(Head(calls), zone)
    BY <1>3 DEF IsList
  <2> QED BY <1>0, <1>l, <1>3, <2>1, AnsweredFollows DEF Answered
<1>4. ASSUME calls # <<>>, Head(calls).cmd # "list", NEW c \in Calls, ~IsStale(c, zone),
             AndThen(c), zone' = zone, rows' = rows
      PROVE  Goal
  <2>1. ~IsList(Head(calls), zone)
    BY <1>4 DEF IsList
  <2>2. /\ StaleIsFollowed(Tail(calls), zone)
        /\ rows[KindOf[zone]] = zone \/ ListComes(Tail(calls), zone)
    BY <1>0, <1>l, <1>4, <2>1, AnsweredFollows
  <2> QED BY <1>0, <1>4, <2>2, SentFollows DEF AndThen
<1>5. ASSUME NEW z \in Zones, zone' = z, Send(RefreshList(z)) \/ (calls # <<>> /\ AndThen(RefreshList(z)))
      PROVE  Goal
  <2>1. IsList(RefreshList(z), z) /\ RefreshList(z) \in Calls
    BY CallTypes DEF RefreshList, List, IsList
  <2> QED BY <1>0, <1>5, <2>1, OwnListFollows DEF Send, AndThen
<1>6. ASSUME ShowDesktop \/ ShowLockScreen PROVE FALSE
  BY <1>6 DEF ShowDesktop, ShowLockScreen
<1>7. CASE Answer
  <2>1. CASE ShellOpens
    BY <1>3, <1>6, <2>1 DEF ShellOpens, Answers, view, drawn
  <2>2. CASE ShellLocks \/ ZoneLocks
    BY <1>6, <2>2 DEF ShellLocks, ZoneLocks
  <2>3. CASE ZonesListed
    <3>1. Call("zone_flags", None) \in Calls /\ ~IsStale(Call("zone_flags", None), zone)
      BY CallTypes DEF Cmds, IsStale, Call
    <3> QED BY <1>4, <2>3, <3>1 DEF ZonesListed, Answers, view, drawn
  <2>4. CASE DrawTiles
    BY <1>3, <2>4 DEF DrawTiles, Answers, view
  <2>5. CASE ZoneOpens
    BY <1>5, <2>5, OpensAZone DEF ZoneOpens, Answers, ShowZoneView
  <2>6. CASE PasswordChanges
    <3>1. RefreshZones \in Calls /\ ~IsStale(RefreshZones, zone)
      BY CallTypes DEF RefreshZones, IsStale, Call
    <3> QED BY <1>4, <2>6, <3>1 DEF PasswordChanges, Answers, view, drawn
  <2>7. CASE Listed
    <3> DEFINE c == Head(calls)
    <3>1. calls # <<>> /\ c.cmd = "list"
      BY <2>7 DEF Listed, Answers
    <3>2. /\ rows' = [rows EXCEPT ![c.kind] = c.zone]
          /\ Answered /\ zone' = zone /\ c.kind = KindOf[c.zone]
      BY <1>6, <2>7 DEF Listed, MayUse, view
    <3>3. rows \in [Kinds -> Zones \union {None}] /\ KindOf[zone] \in Kinds
      BY <1>0, <3>2, ZonesAssumption DEF TypeOK
    <3>4. StaleIsFollowed(calls', zone)
      BY <1>0, <1>l, <3>1, <3>2, AnsweredFollows DEF Answered
    <3>5. CASE c.kind = KindOf[zone] /\ c.zone = zone
      BY <3>2, <3>3, <3>4, <3>5
    <3>6. CASE c.kind = KindOf[zone] /\ c.zone # zone
      <4>1. IsStale(Head(calls), zone)
        BY <3>1, <3>6 DEF IsStale
      <4> QED BY <1>0, <1>l, <3>1, <3>2, <3>4, <4>1, AnsweredFollows DEF Answered
    <3>7. CASE c.kind # KindOf[zone]
      <4>1. ~IsList(Head(calls), zone)
        BY <3>7 DEF IsList
      <4>2. rows'[KindOf[zone]] = rows[KindOf[zone]]
        BY <3>2, <3>3, <3>7
      <4> QED BY <1>0, <1>l, <3>1, <3>2, <3>4, <4>1, <4>2, AnsweredFollows DEF Answered
    <3> QED BY <3>5, <3>6, <3>7
  <2>8. CASE Written
    <3>1. zone' = zone /\ rows' = rows
      BY <2>8 DEF Written, view, drawn
    <3>2. Head(calls).kind \in Kinds
      BY <2>8, ZonesAssumption DEF Written, MayUse, TypeOK
    <3>3. List(zone, Head(calls).kind) \in Calls
      BY <1>0, <3>2, CallTypes
    <3>4. ~IsStale(List(zone, Head(calls).kind), zone)
      BY DEF List, IsStale
    <3> QED BY <1>4, <2>8, <3>1, <3>3, <3>4 DEF Written, Answers
  <2>9. CASE OnlyText
    BY <1>3, <2>9 DEF OnlyText, Fails, view, drawn
  <2>10. CASE ToldAboutShell
    <3>1. /\ Call("is_zone_unlocked", zone) \in Calls
          /\ ~IsStale(Call("is_zone_unlocked", zone), zone)
      BY <1>0, CallTypes DEF Cmds, IsStale, Call
    <3> QED BY <1>3, <1>4, <1>6, <2>10, <3>1 DEF ToldAboutShell, Answers, view, drawn
  <2>11. CASE ToldAboutZone
    BY <1>3, <1>6, <2>11 DEF ToldAboutZone, Answers, view, drawn
  <2> QED
    BY <1>7, <2>1, <2>2, <2>3, <2>4, <2>5, <2>6, <2>7, <2>8, <2>9, <2>10, <2>11 DEF Answer
<1>8. CASE Person
  <2>0. ASSUME NEW s, NEW c \in Calls, c.cmd # "list", Press(s, c) PROVE Goal
    BY <1>2, <2>0 DEF Press, view, drawn
  <2>1. CASE PressOpenShell \/ PressLockShell
    <3>1. /\ Call("open_shell", None) \in Calls /\ Call("open_shell", None).cmd # "list"
          /\ Call("lock_shell", None) \in Calls /\ Call("lock_shell", None).cmd # "list"
      BY CallTypes DEF Cmds, Call
    <3> QED BY <2>0, <2>1, <3>1 DEF PressOpenShell, PressLockShell
  <2>2. CASE GoBack
    BY <1>6, <2>2 DEF GoBack
  <2>3. CASE ClickSystem
    BY <1>1, <2>3 DEF ClickSystem, drawn
  <2>4. CASE AnswerPrompt
    <3>1. Call("open_zone", prompt) \in Calls /\ Call("open_zone", prompt).cmd # "list"
      BY <2>4, CallTypes DEF AnswerPrompt, TypeOK, Cmds, Call
    <3> QED BY <1>1, <1>2, <2>4, <3>1 DEF AnswerPrompt, view, drawn
  <2>5. CASE PressLockZone
    <3>1. Call("lock_zone", zone) \in Calls /\ Call("lock_zone", zone).cmd # "list"
      BY <1>0, CallTypes DEF Cmds, Call
    <3> QED BY <1>2, <1>6, <2>5, <3>1 DEF PressLockZone, view, drawn
  <2>6. ASSUME NEW z \in Zones, ClickOpenTile(z) PROVE Goal
    BY <1>5, <2>6 DEF ClickOpenTile, ShowZoneView
  <2>7. ASSUME NEW z \in Zones, ClickLockedTile(z) PROVE Goal
    BY <1>1, <2>7 DEF ClickLockedTile, view, drawn
  <2>8. ASSUME NEW z \in Zones, PressChangePassword(z) PROVE Goal
    <3>1. Call("change_zone_password", z) \in Calls /\ Call("change_zone_password", z).cmd # "list"
      BY CallTypes DEF Cmds, Call
    <3> QED BY <2>0, <2>8, <3>1 DEF PressChangePassword
  <2>9. ASSUME NEW k \in Kinds, ClickRow(k) \/ PressAdd(k) \/ PressCancel(k) PROVE Goal
    BY <1>1, <2>9 DEF ClickRow, PressAdd, OpenDialog, PressCancel, view, drawn
  <2>10. ASSUME NEW k \in Kinds, PressSave(k) PROVE Goal
    <3>1. Write(zone, k, modal[k]) \in Calls /\ Write(zone, k, modal[k]).cmd # "list"
      BY <1>0, CallTypes DEF TypeOK, Write
    <3> QED BY <1>2, <2>10, <3>1 DEF PressSave, view, drawn
  <2> QED
    BY <1>8, <2>1, <2>2, <2>3, <2>4, <2>5, <2>6, <2>7, <2>8, <2>9, <2>10 DEF Person
<1>9. CASE Watcher
  BY <1>1, <1>9 DEF Watcher, AutoLockShell, AutoLockZone, view, drawn
<1>10. CASE FadeEnds
  BY <1>1, <1>10 DEF FadeEnds, drawn
<1>11. CASE FlourishEnds
  BY <1>6, <1>11 DEF FlourishEnds
<1>12. CASE Poll
  <2>1. Call("is_shell_unlocked", None) \in Calls /\ Call("is_shell_unlocked", None).cmd # "list"
    BY CallTypes DEF Cmds, Call
  <2> QED BY <1>2, <1>12, <2>1 DEF Poll, view, drawn
<1>13. CASE UNCHANGED vars
  BY <1>1, <1>13 DEF vars, view, drawn
<1> QED BY <1>7, <1>8, <1>9, <1>10, <1>11, <1>12, <1>13 DEF Next

-----------------------------------------------------------------------------
(* Tiles *)

LEMMA TilesKept ==
  TypeOK /\ ClosedHasNoZones /\ TilesFollow /\ [Next]_vars => TilesFollow'
<1> SUFFICES ASSUME TypeOK, ClosedHasNoZones, TilesFollow, [Next]_vars, zone' = None
             PROVE  (\A z \in open' : tiles'[z] = "open") \/ TilesCome(calls')
  BY DEF TilesFollow
<1> DEFINE Goal == (\A z \in open' : tiles'[z] = "open") \/ TilesCome(calls')
           Asked == {"list_zones", "zone_flags"}
<1>0. /\ calls \in Seq(Calls)
      /\ zone \in Zones \union {None}
      /\ open \subseteq Zones
      /\ calls # <<>> => Tail(calls) \in Seq(Calls) /\ Head(calls) \in Calls
  BY Shortened DEF TypeOK
<1>l. zone = None => (\A z \in open : tiles[z] = "open") \/ TilesCome(calls)
  BY DEF TilesFollow
\* The shapes that a step can have.
<1>1. ASSUME calls' = calls, zone' = zone, tiles' = tiles, open' \subseteq open PROVE Goal
  BY <1>l, <1>1
<1>2. ASSUME NEW c \in Calls, Send(c), zone' = zone, tiles' = tiles, open' \subseteq open
      PROVE  Goal
  BY <1>0, <1>l, <1>2, TilesStillCome DEF Send
<1>3. ASSUME calls # <<>>, Head(calls).cmd \notin Asked, Answered, zone' = zone,
             tiles' = tiles, open' \subseteq open
      PROVE  Goal
  BY <1>0, <1>l, <1>3, TilesStillCome DEF Answered
<1>4. ASSUME calls # <<>>, Head(calls).cmd \notin Asked, NEW c \in Calls, AndThen(c),
             zone' = zone, tiles' = tiles, open' \subseteq open
      PROVE  Goal
  <2>1. (\A z \in open : tiles[z] = "open") \/ TilesCome(Tail(calls))
    BY <1>0, <1>l, <1>4, TilesStillCome
  <2> QED BY <1>0, <1>4, <2>1, TilesStillCome DEF AndThen
<1>5. ASSUME NEW c \in Calls, c.cmd \in Asked, Send(c) \/ (calls # <<>> /\ AndThen(c)) PROVE Goal
  BY <1>0, <1>5, TilesStillCome DEF Send, AndThen
<1>6. RefreshZones \in Calls /\ RefreshZones.cmd \in Asked
  BY CallTypes DEF RefreshZones, Call
<1>7. CASE Answer
  <2>1. CASE ShellOpens
    BY <1>3, <1>5, <1>6, <2>1 DEF ShellOpens, Answers, view, drawn
  <2>2. CASE ShellLocks
    BY <2>2 DEF ShellLocks
  <2>3. CASE ZonesListed
    <3>1. Call("zone_flags", None) \in Calls /\ Call("zone_flags", None).cmd \in Asked
      BY CallTypes DEF Cmds, Call
    <3> QED BY <1>5, <2>3, <3>1 DEF ZonesListed, Answers
  <2>4. CASE DrawTiles
    BY <1>0, <2>4 DEF DrawTiles, program
  <2>5. CASE ZoneOpens
    BY <2>5, OpensAZone, ZonesAssumption DEF ZoneOpens, ShowZoneView
  <2>6. CASE PasswordChanges \/ ZoneLocks
    BY <1>5, <1>6, <2>6 DEF PasswordChanges, ZoneLocks, Answers
  <2>7. CASE Listed
    BY <1>3, <1>5, <1>6, <2>7 DEF Listed, Answers, view, drawn, program
  <2>8. CASE Written
    <3>1. Head(calls).kind \in Kinds
      BY <2>8, ZonesAssumption DEF Written, MayUse, TypeOK
    <3>2. List(zone, Head(calls).kind) \in Calls
      BY <1>0, <3>1, CallTypes
    <3> QED BY <1>4, <2>8, <3>2 DEF Written, Answers, view, drawn, program
  <2>9. CASE OnlyText
    <3>1. CASE shellOpen
      BY <1>3, <2>9, <3>1 DEF OnlyText, Fails, view, drawn, program
    <3>2. CASE ~shellOpen
      BY <2>9, <3>2 DEF OnlyText, program, ClosedHasNoZones
    <3> QED BY <3>1, <3>2
  <2>10. CASE ToldAboutShell
    <3>1. CASE shellOpen
      <4>1. zone' = zone
        BY <2>10, <3>1 DEF ToldAboutShell, view
      <4>2. Answered
        BY <2>10, <3>1, <4>1 DEF ToldAboutShell
      <4> QED BY <1>3, <2>10, <4>1, <4>2 DEF ToldAboutShell, Answers, drawn, program
    <3>2. CASE ~shellOpen
      BY <2>10, <3>2 DEF ToldAboutShell, program, ClosedHasNoZones
    <3> QED BY <3>1, <3>2
  <2>11. CASE ToldAboutZone
    BY <1>3, <1>5, <1>6, <2>11 DEF ToldAboutZone, Answers, view, drawn, program
  <2> QED
    BY <1>7, <2>1, <2>2, <2>3, <2>4, <2>5, <2>6, <2>7, <2>8, <2>9, <2>10, <2>11 DEF Answer
<1>8. CASE Person
  <2>0. ASSUME NEW s, NEW c \in Calls, Press(s, c) PROVE Goal
    BY <1>2, <2>0 DEF Press, view, drawn, program
  <2>1. CASE PressOpenShell \/ PressLockShell
    <3>1. Call("open_shell", None) \in Calls /\ Call("lock_shell", None) \in Calls
      BY CallTypes DEF Cmds
    <3> QED BY <2>0, <2>1, <3>1 DEF PressOpenShell, PressLockShell
  <2>2. CASE GoBack
    BY <1>5, <1>6, <2>2 DEF GoBack
  <2>3. CASE ClickSystem
    BY <1>1, <2>3 DEF ClickSystem, drawn, program
  <2>4. CASE AnswerPrompt
    <3>1. Call("open_zone", prompt) \in Calls
      BY <2>4, CallTypes DEF AnswerPrompt, TypeOK, Cmds
    <3> QED BY <1>1, <1>2, <2>4, <3>1 DEF AnswerPrompt, view, drawn, program
  <2>5. CASE PressLockZone
    <3>1. zone # None => Call("lock_zone", zone) \in Calls
      BY <1>0, CallTypes DEF Cmds
    <3> QED BY <1>2, <1>5, <1>6, <2>5, <3>1 DEF PressLockZone, view, drawn, program
  <2>6. ASSUME NEW z \in Zones, ClickOpenTile(z) PROVE Goal
    BY <2>6, ZonesAssumption DEF ClickOpenTile, ShowZoneView
  <2>7. ASSUME NEW z \in Zones, ClickLockedTile(z) PROVE Goal
    BY <1>1, <2>7 DEF ClickLockedTile, view, drawn, program
  <2>8. ASSUME NEW z \in Zones, PressChangePassword(z) PROVE Goal
    <3>1. Call("change_zone_password", z) \in Calls
      BY CallTypes DEF Cmds
    <3> QED BY <2>0, <2>8, <3>1 DEF PressChangePassword
  <2>9. ASSUME NEW k \in Kinds, ClickRow(k) \/ PressAdd(k) \/ PressCancel(k) PROVE Goal
    BY <1>1, <2>9 DEF ClickRow, PressAdd, OpenDialog, PressCancel, view, drawn, program
  <2>10. ASSUME NEW k \in Kinds, PressSave(k) PROVE Goal
    <3>1. Write(zone, k, modal[k]) \in Calls
      BY <1>0, CallTypes DEF TypeOK
    <3> QED BY <1>2, <2>10, <3>1 DEF PressSave, view, drawn, program
  <2> QED
    BY <1>8, <2>1, <2>2, <2>3, <2>4, <2>5, <2>6, <2>7, <2>8, <2>9, <2>10 DEF Person
<1>9. CASE Watcher
  BY <1>1, <1>9 DEF Watcher, AutoLockShell, AutoLockZone, view, drawn
<1>10. CASE FadeEnds
  BY <1>1, <1>10 DEF FadeEnds, drawn, program
<1>11. CASE FlourishEnds
  BY <1>5, <1>6, <1>11 DEF FlourishEnds
<1>12. CASE Poll
  <2>1. Call("is_shell_unlocked", None) \in Calls
    BY CallTypes DEF Cmds
  <2> QED BY <1>2, <1>12, <2>1 DEF Poll, view, drawn, program
<1>13. CASE UNCHANGED vars
  BY <1>1, <1>13 DEF vars, view, drawn, program
<1> QED BY <1>7, <1>8, <1>9, <1>10, <1>11, <1>12, <1>13 DEF Next

-----------------------------------------------------------------------------
(* Theorems *)

LEMMA InitInvariant == Init => IInv
<1> SUFFICES ASSUME Init PROVE IInv
  OBVIOUS
<1>1. TypeOK
  BY InitTypes
<1>2. NothingFades /\ ScreenFits
  BY DEF Init, NothingFades, ScreenFits, Screens
<1>3. ClosedHasNoZones /\ ListsFollow /\ TilesFollow
  BY DEF Init, ClosedHasNoZones, ListsFollow, TilesFollow
<1> QED BY <1>1, <1>2, <1>3 DEF IInv

\* The invariant is inductive.
THEOREM InvariantHolds == Spec => []IInv
<1>1. IInv /\ [Next]_vars => IInv'
  BY TypesKept, FitsKept, ClosedKept, ListsKept, TilesKept DEF IInv
<1> QED BY <1>1, InitInvariant, PTL DEF Spec

\* ScreenFits: without fades, what is shown is what the page's state says, and a
\* lock screen has a locked Shell behind it.
THEOREM ScreenAlwaysFits == Spec => []ScreenFits
<1>1. IInv => ScreenFits
  BY DEF IInv
<1> QED BY <1>1, InvariantHolds, PTL

\* RowsSettle: no order of answers leaves another zone's rows in the table of the
\* current one.
THEOREM RowsAreOwn == Spec => []RowsSettle
<1>1. IInv => RowsSettle
  BY DEF IInv, ListsFollow, ListComes, IsList, RowsSettle
<1> QED BY <1>1, InvariantHolds, PTL

\* TilesSettle: nor a tile that asks again for the password of an open zone.
THEOREM TilesAreRight == Spec => []TilesSettle
<1>1. IInv => TilesSettle
  BY DEF IInv, TilesFollow, TilesCome, TilesSettle
<1> QED BY <1>1, InvariantHolds, PTL

=============================================================================
