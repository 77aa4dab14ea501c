------------------------------- MODULE Frontend -------------------------------
(***************************************************************************)
(* The page, dist/app.js: which screen it shows, which zone it takes for    *)
(* the current one, and what is drawn, against a program that locks on its  *)
(* own.                                                                    *)
(*                                                                         *)
(* Calls are sent at once and served in order on the main thread.  An       *)
(* answer and the rest of the handler that awaits it are one step: what a   *)
(* person does in between commutes with the serving of the call.            *)
(*                                                                         *)
(* Abstractions.  Of the program there is whether the Shell is open and     *)
(* which zones are; it may lock any time (VaultSessions has the timers).    *)
(* A deleted zone is one that nobody opens again.  Rows are known by the    *)
(* zone they came from, a new row by New; each zone has rows.  A theme is   *)
(* chosen at the start.  A person can press any button on a visible screen  *)
(* (with the keyboard, under a dialog as well); tiles want the mouse.       *)
(***************************************************************************)
EXTENDS Naturals, Sequences, FiniteSets

CONSTANTS
  Zones,    (* ids of the zones                                             *)
  KindOf,   (* KindOf[z]: the kind of zone z                                *)
  Themes,   (* may the page be in the Signal theme: a set of BOOLEANs       *)
  MaxLoad,  (* bound, by theme: calls, fades and flourishes under way when  *)
            (* a person does the next thing                                 *)
  New,      (* the row that a form for a new entry stands for               *)
  None      (* no zone, no row                                              *)

Kinds   == {"accounts", "files", "seeds", "ledger"}
Screens == {"lock", "desktop", "zone", "system"}

ASSUME ZonesAssumption ==
  /\ KindOf \in [Zones -> Kinds]
  /\ New # None
  /\ {New, None} \intersect Zones = {}
ASSUME ThemesAssumption ==
  /\ Themes \subseteq BOOLEAN
  /\ MaxLoad \in [BOOLEAN -> Nat]

VARIABLES
  shellOpen,   (* the program has a Shell open                              *)
  open,        (* the zones that have a session                             *)
  signal,      (* isSignalTheme()                                           *)
  shown,       (* the screens without the class "hidden"                    *)
  fades,       (* switchScreen's timers that have not run                   *)
  flourishes,  (* handlers awaiting playUnlockFlourish                      *)
  zone,        (* currentZoneId                                             *)
  polling,     (* systemStatusInterval is set                               *)
  tiles,       (* the desktop's tiles: not drawn, or drawn as ...           *)
  rows,        (* rows[k]: the zone whose rows the table of kind k shows    *)
  modal,       (* modal[k]: the row the open dialog of kind k is about      *)
  prompt,      (* the zone whose password is asked for                      *)
  calls        (* the calls sent and not answered                           *)

program == <<shellOpen, open>>
screen == <<shown, fades>>
view == <<screen, zone, polling>>
drawn == <<tiles, rows>>
forms == <<modal, prompt>>
vars == <<program, signal, view, flourishes, drawn, forms, calls>>

Cmds == {"open_shell", "lock_shell", "list_zones", "zone_flags", "change_zone_password", "open_zone",
         "lock_zone", "list", "write", "is_shell_unlocked", "is_zone_unlocked"}

\* row: the row whose id is sent, known by the zone it was drawn from.
Calls ==
  {c \in [zone : Zones \union {None}, cmd : Cmds, kind : Kinds \union {None},
          row : Zones \union {New, None}] : c.cmd = "open_zone" => c.zone \in Zones}

Call(cmd, z)   == [zone |-> z, cmd |-> cmd, kind |-> None, row |-> None]
List(z, k)     == [zone |-> z, cmd |-> "list", kind |-> k, row |-> None]
Write(z, k, r) == [zone |-> z, cmd |-> "write", kind |-> k, row |-> r]

Init ==
  /\ shellOpen = FALSE
  /\ open = {}
  /\ signal \in Themes
  /\ shown = {"lock"}
  /\ fades = <<>>
  /\ flourishes = 0
  /\ zone = None
  /\ polling = FALSE
  /\ tiles = [z \in Zones |-> "none"]
  /\ rows = [k \in Kinds |-> None]
  /\ modal = [k \in Kinds |-> None]
  /\ prompt = None
  /\ calls = <<>>

-----------------------------------------------------------------------------
(* Screens *)

\* What is hidden already does not fade, and a switch that hides nothing
\* does not wait.
SwitchScreen(hide, show) ==
  \/ /\ ~signal
     /\ shown' = (shown \ hide) \union {show}
     /\ UNCHANGED fades
  \/ /\ signal
     /\ fades' = Append(fades, [hide |-> hide \intersect shown, show |-> show])
     /\ UNCHANGED shown

\* Mutant: the System view is forgotten.
MutShowLockScreen ==
  /\ SwitchScreen({"desktop", "zone"}, "lock")
  /\ zone' = None
  /\ polling' = FALSE

ShowLockScreen ==
  /\ SwitchScreen({"desktop", "zone", "system"}, "lock")
  /\ zone' = None
  /\ polling' = FALSE

\* with refreshZones, whose call the caller of ShowDesktop sends.
ShowDesktop ==
  /\ SwitchScreen({"lock", "zone", "system"}, "desktop")
  /\ zone' = None
  /\ polling' = FALSE
RefreshZones == Call("list_zones", None)

\* with the list of the zone, sent by the caller.
ShowZoneView(z) ==
  /\ SwitchScreen({"desktop", "lock", "system"}, "zone")
  /\ zone' = z
  /\ UNCHANGED polling

\* Mutant: the id of the zone in the place of its kind.
MutRefreshList(z) == List(z, z)
RefreshList(z) == List(z, KindOf[z])

\* setTimeout runs 260 ms after a switch that hides something, otherwise at once.
Waits(f) == f.hide # {}

FadeEnds ==
  \E i \in DOMAIN fades :
    /\ \A j \in 1 .. i - 1 : Waits(fades[j]) /\ ~Waits(fades[i])
    /\ shown' = (shown \ fades[i].hide) \union {fades[i].show}
    /\ fades' = [j \in 1 .. Len(fades) - 1 |-> IF j < i THEN fades[j] ELSE fades[j + 1]]
    /\ UNCHANGED <<program, signal, flourishes, zone, polling, drawn, forms, calls>>

Send(c)      == calls' = Append(calls, c)
Answered     == calls' = Tail(calls)
AndThen(c)   == calls' = Append(Tail(calls), c)

Idle == Len(calls) + Len(fades) + flourishes < MaxLoad[signal]
NoDialog == prompt = None /\ \A k \in Kinds : modal[k] = None

\* A button of the page that sends a call and changes nothing yet.
Press(s, c) ==
  /\ Idle
  /\ s \in shown
  /\ Send(c)
  /\ UNCHANGED <<program, signal, view, flourishes, drawn, forms>>

\* The first call is answered.
Answers(cmd) == calls # <<>> /\ Head(calls).cmd = cmd

-----------------------------------------------------------------------------
(* The Shell *)

PressOpenShell == Press("lock", Call("open_shell", None))
PressLockShell == Press("desktop", Call("lock_shell", None))

\* open_shell or create_shell succeeds; in the Signal theme, showDesktop comes
\* after the flourish.
ShellOpens ==
  /\ Answers("open_shell")
  /\ shellOpen' = TRUE
  /\ IF signal
     THEN /\ flourishes' = flourishes + 1
          /\ Answered
          /\ UNCHANGED view
     ELSE /\ ShowDesktop
          /\ AndThen(RefreshZones)
          /\ UNCHANGED flourishes
  /\ UNCHANGED <<open, signal, drawn, forms>>

FlourishEnds ==
  /\ flourishes > 0
  /\ flourishes' = flourishes - 1
  /\ ShowDesktop
  /\ Send(RefreshZones)
  /\ UNCHANGED <<program, signal, drawn, forms>>

ShellLocks ==
  /\ Answers("lock_shell")
  /\ shellOpen' = FALSE
  /\ open' = {}
  /\ ShowLockScreen
  /\ Answered
  /\ UNCHANGED <<signal, flourishes, drawn, forms>>

-----------------------------------------------------------------------------
(* The desktop *)

\* btn-zone-back and btn-system-back.
GoBack ==
  /\ Idle
  /\ shown \intersect {"zone", "system"} # {}
  /\ ShowDesktop
  /\ Send(RefreshZones)
  /\ UNCHANGED <<program, signal, flourishes, drawn, forms>>

\* refreshSystemStatus only reads, for its own screen.
ClickSystem ==
  /\ Idle
  /\ NoDialog
  /\ "desktop" \in shown
  /\ \A z \in Zones : tiles[z] # "none"
  /\ SwitchScreen({"desktop", "lock", "zone"}, "system")
  /\ polling' = TRUE
  /\ UNCHANGED <<program, signal, zone, flourishes, drawn, forms, calls>>

\* refreshZones: the list, then one is_zone_unlocked for each zone of it.
ZonesListed ==
  /\ Answers("list_zones")
  /\ shellOpen
  /\ AndThen(Call("zone_flags", None))
  /\ UNCHANGED <<program, signal, view, flourishes, drawn, forms>>

\* Mutant: a tile that has been drawn stays as it is.
MutDrawTiles ==
  /\ Answers("zone_flags")
  /\ tiles' = [z \in Zones |-> IF tiles[z] # "none" THEN tiles[z]
                              ELSE IF z \in open THEN "open" ELSE "locked"]
  /\ Answered
  /\ UNCHANGED <<program, signal, view, flourishes, rows, forms>>

DrawTiles ==
  /\ Answers("zone_flags")
  /\ tiles' = [z \in Zones |-> IF z \in open THEN "open" ELSE "locked"]
  /\ Answered
  /\ UNCHANGED <<program, signal, view, flourishes, rows, forms>>

\* openZoneFromDesktop goes by what the tile was drawn as.
ClickOpenTile(z) ==
  /\ Idle
  /\ NoDialog
  /\ "desktop" \in shown
  /\ tiles[z] = "open"
  /\ ShowZoneView(z)
  /\ Send(RefreshList(z))
  /\ UNCHANGED <<program, signal, flourishes, drawn, forms>>

ClickLockedTile(z) ==
  /\ NoDialog
  /\ "desktop" \in shown
  /\ tiles[z] = "locked"
  /\ prompt' = z
  /\ UNCHANGED <<program, signal, view, flourishes, drawn, modal, calls>>

AnswerPrompt ==
  /\ prompt # None
  /\ prompt' = None
  /\ \/ Idle /\ Send(Call("open_zone", prompt))
     \/ UNCHANGED calls
  /\ UNCHANGED <<program, signal, view, flourishes, drawn, modal>>

ZoneOpens ==
  /\ Answers("open_zone")
  /\ shellOpen
  /\ LET z == Head(calls).zone
     IN  /\ open' = open \union {z}
         /\ ShowZoneView(z)
         /\ AndThen(RefreshList(z))
  /\ UNCHANGED <<shellOpen, signal, flourishes, drawn, forms>>

\* A new password, or the end of the zone: both drop the session.
PressChangePassword(z) == tiles[z] # "none" /\ Press("desktop", Call("change_zone_password", z))

PasswordChanges ==
  /\ Answers("change_zone_password")
  /\ shellOpen
  /\ open' = open \ {Head(calls).zone}
  /\ AndThen(RefreshZones)
  /\ UNCHANGED <<shellOpen, signal, view, flourishes, drawn, forms>>

-----------------------------------------------------------------------------
(* The zone view *)

MayUse(z, k) == z \in open /\ KindOf[z] = k

Listed ==
  /\ Answers("list")
  /\ LET c == Head(calls)
     IN  \/ /\ MayUse(c.zone, c.kind)
            /\ rows' = [rows EXCEPT ![c.kind] = c.zone]
            /\ Answered
            /\ UNCHANGED <<tiles, view>>
         \/ /\ ~MayUse(c.zone, c.kind)
            /\ ShowDesktop
            /\ AndThen(RefreshZones)
            /\ UNCHANGED drawn
  /\ UNCHANGED <<program, signal, flourishes, forms>>

PressLockZone ==
  /\ Idle
  /\ "zone" \in shown
  /\ \/ /\ zone # None
        /\ Send(Call("lock_zone", zone))
        /\ UNCHANGED view
     \/ /\ zone = None
        /\ ShowDesktop
        /\ Send(RefreshZones)
  /\ UNCHANGED <<program, signal, flourishes, drawn, forms>>

ZoneLocks ==
  /\ Answers("lock_zone")
  /\ open' = open \ {Head(calls).zone}
  /\ ShowDesktop
  /\ AndThen(RefreshZones)
  /\ UNCHANGED <<shellOpen, signal, flourishes, drawn, forms>>

\* The table that the zone view shows is that of the kind of the zone.
Table(k) == "zone" \in shown /\ zone # None /\ KindOf[zone] = k /\ k # "files"

OpenDialog(k, r) ==
  /\ Table(k)
  /\ modal' = [modal EXCEPT ![k] = r]
  /\ UNCHANGED <<program, signal, view, flourishes, drawn, prompt, calls>>

ClickRow(k) == rows[k] # None /\ OpenDialog(k, rows[k])
PressAdd(k) == OpenDialog(k, New)

PressCancel(k) ==
  /\ modal[k] # None
  /\ modal' = [modal EXCEPT ![k] = None]
  /\ UNCHANGED <<program, signal, view, flourishes, drawn, prompt, calls>>

\* Save and Delete of a dialog: the zone is read when the button is pressed.
PressSave(k) ==
  /\ Idle
  /\ modal[k] # None
  /\ Send(Write(zone, k, modal[k]))
  /\ UNCHANGED <<program, signal, view, flourishes, drawn, forms>>

\* Mutant: the list is asked of the zone that was written to.
MutWritten ==
  /\ Answers("write")
  /\ LET c == Head(calls)
     IN  /\ MayUse(c.zone, c.kind)
         /\ modal' = [modal EXCEPT ![c.kind] = None]
         /\ AndThen(List(c.zone, c.kind))
  /\ UNCHANGED <<program, signal, view, flourishes, drawn, prompt>>

\* The refresh after it is of the zone that is current then.
Written ==
  /\ Answers("write")
  /\ LET c == Head(calls)
     IN  /\ MayUse(c.zone, c.kind)
         /\ modal' = [modal EXCEPT ![c.kind] = None]
         /\ AndThen(List(zone, c.kind))
  /\ UNCHANGED <<program, signal, view, flourishes, drawn, prompt>>

\* Calls whose answer changes at most a line of text: what fails.
Fails(c) ==
  \/ c.cmd \in {"open_shell", "open_zone", "change_zone_password"}
  \/ c.cmd = "list_zones" /\ ~shellOpen
  \/ c.cmd = "write"

OnlyText ==
  /\ calls # <<>>
  /\ Fails(Head(calls))
  /\ Answered
  /\ UNCHANGED <<program, signal, view, flourishes, drawn, forms>>

-----------------------------------------------------------------------------
(* Locks of the program's own, and the poll that looks for them *)

\* The watcher: everything, or one zone.
AutoLockShell ==
  /\ shellOpen
  /\ shellOpen' = FALSE
  /\ open' = {}
  /\ UNCHANGED <<signal, view, flourishes, drawn, forms, calls>>

AutoLockZone(z) ==
  /\ z \in open
  /\ open' = open \ {z}
  /\ UNCHANGED <<shellOpen, signal, view, flourishes, drawn, forms, calls>>

Asks == {"is_shell_unlocked", "is_zone_unlocked"}

\* Every ten seconds, which is longer than a poll takes.
Poll ==
  /\ "lock" \notin shown
  /\ \A i \in DOMAIN calls : calls[i].cmd \notin Asks
  /\ Len(fades) <= MaxLoad[signal]
  /\ Send(Call("is_shell_unlocked", None))
  /\ UNCHANGED <<program, signal, view, flourishes, drawn, forms>>

\* Mutant: the answer about the Shell ends the poll.
MutToldAboutShell ==
  /\ Answers("is_shell_unlocked")
  /\ Answered
  /\ IF shellOpen THEN UNCHANGED view ELSE ShowLockScreen
  /\ UNCHANGED <<program, signal, flourishes, drawn, forms>>

ToldAboutShell ==
  /\ Answers("is_shell_unlocked")
  /\ IF shellOpen
     THEN /\ IF zone # None THEN AndThen(Call("is_zone_unlocked", zone)) ELSE Answered
          /\ UNCHANGED view
     ELSE Answered /\ ShowLockScreen
  /\ UNCHANGED <<program, signal, flourishes, drawn, forms>>

ToldAboutZone ==
  /\ Answers("is_zone_unlocked")
  /\ \/ /\ Head(calls).zone \in open
        /\ Answered
        /\ UNCHANGED view
     \/ /\ Head(calls).zone \notin open
        /\ ShowDesktop
        /\ AndThen(RefreshZones)
  /\ UNCHANGED <<program, signal, flourishes, drawn, forms>>

-----------------------------------------------------------------------------
Person ==
  \/ PressOpenShell \/ PressLockShell \/ GoBack \/ ClickSystem \/ AnswerPrompt
  \/ PressLockZone
  \/ \E z \in Zones : ClickOpenTile(z) \/ ClickLockedTile(z) \/ PressChangePassword(z)
  \/ \E k \in Kinds : ClickRow(k) \/ PressAdd(k) \/ PressCancel(k) \/ PressSave(k)

Answer ==
  \/ ShellOpens \/ ShellLocks \/ ZonesListed \/ DrawTiles \/ ZoneOpens \/ PasswordChanges
  \/ Listed \/ ZoneLocks \/ Written \/ OnlyText \/ ToldAboutShell \/ ToldAboutZone

Watcher == AutoLockShell \/ \E z \in Zones : AutoLockZone(z)

Next == Person \/ Answer \/ Watcher \/ FadeEnds \/ FlourishEnds \/ Poll

Spec == Init /\ [][Next]_vars

\* Timers run, and the main thread serves what it is sent.  The interval of the
\* poll comes round again and again; only the bound on fades stops it in between.
Fairness == WF_vars(Answer) /\ WF_vars(FadeEnds) /\ WF_vars(FlourishEnds) /\ SF_vars(Poll)
FairSpec == Spec /\ Fairness

-----------------------------------------------------------------------------
(* Properties *)

\* The types of the variables.
TypeOK ==
  /\ shellOpen \in BOOLEAN
  /\ open \subseteq Zones
  /\ signal \in BOOLEAN
  /\ shown \subseteq Screens
  /\ fades \in Seq([hide : SUBSET Screens, show : Screens])
  /\ flourishes \in Nat
  /\ zone \in Zones \union {None}
  /\ polling \in BOOLEAN
  /\ tiles \in [Zones -> {"none", "open", "locked"}]
  /\ rows \in [Kinds -> Zones \union {None}]
  /\ modal \in [Kinds -> Zones \union {New, None}]
  /\ prompt \in Zones \union {None}
  /\ calls \in Seq(Calls)

\* In the instant theme there is one screen, it is the zone view exactly while a
\* zone is current, the lock screen never stands in front of an open Shell, and
\* the System view's poll, which keeps a Shell open, has ended on the desktop and
\* the lock screen; whatever answers come late.
ScreenFits ==
  ~signal =>
    /\ \E s \in Screens : shown = {s}
    /\ "zone" \in shown <=> zone # None
    /\ "lock" \in shown => ~shellOpen
    /\ polling => shown \intersect {"lock", "desktop"} = {}

\* When every list asked for has come, the rows drawn in the current zone's table
\* are its own, although lists of zones left before were under way.
RowsSettle ==
  zone # None /\ (\A i \in DOMAIN calls : calls[i].cmd # "list") => rows[KindOf[zone]] = zone

\* When all is answered and no zone is current, every open zone is drawn as open:
\* its tile is not asking for a password it has been given.
TilesSettle == zone = None /\ calls = <<>> => \A z \in open : tiles[z] = "open"

\* A Shell that has been locked by the watcher does not keep a screen for ever.
ClosedShellIsSeen == ~shellOpen ~> ("lock" \in shown \/ shellOpen)

\* Nor does a zone that has been locked stay the current one.
ClosedZoneIsSeen == \A z \in Zones : (zone = z /\ z \notin open) ~> (zone # z \/ z \in open)

\* What auto-lock closes, the page notices by its poll, the Shell and each zone.
LocksAreSeen == ClosedShellIsSeen /\ ClosedZoneIsSeen

\* What the comment at switchScreen promises for the Signal theme: no two screens
\* are in the flow together.
NoOverlap == Cardinality(shown) <= 1

\* A command names rows of the zone it is sent to, and of no other.
RowsStayInTheirZone ==
  \A i \in DOMAIN calls :
    calls[i].cmd = "write" /\ calls[i].zone # None => calls[i].row \in {calls[i].zone, New}

-----------------------------------------------------------------------------
(* The inductive invariant *)

\* In the instant theme nothing is ever on its way to the screen.
NothingFades == ~signal => fades = <<>> /\ flourishes = 0

ClosedHasNoZones == ~shellOpen => open = {}

IsList(c, z) == c.cmd = "list" /\ c.kind = KindOf[z] /\ c.zone = z
IsStale(c, z) == c.cmd = "list" /\ c.kind = KindOf[z] /\ c.zone # z

\* A list that is drawn in z's table and not of z is followed by one that is.
StaleIsFollowed(q, z) ==
  \A i \in DOMAIN q : IsStale(q[i], z) => \E j \in DOMAIN q : j > i /\ IsList(q[j], z)
ListComes(q, z) == \E i \in DOMAIN q : IsList(q[i], z)

ListsFollow ==
  zone # None =>
    /\ StaleIsFollowed(calls, zone)
    /\ rows[KindOf[zone]] = zone \/ ListComes(calls, zone)

TilesCome(q) == \E i \in DOMAIN q : q[i].cmd \in {"list_zones", "zone_flags"}

TilesFollow == zone = None => (\A z \in open : tiles[z] = "open") \/ TilesCome(calls)

IInv ==
  TypeOK /\ NothingFades /\ ScreenFits /\ ClosedHasNoZones /\ ListsFollow /\ TilesFollow

=============================================================================
