------------------------------- MODULE FilesZone -------------------------------
(***************************************************************************)
(* The files zone: the folders and files of files.rs, and the grid of       *)
(* dist/app.js that shows one folder of them and sends the commands.        *)
(*                                                                         *)
(* The webview goes on while a command is under way: a person may act on a  *)
(* grid that is out of date, or before the breadcrumb that was clicked has  *)
(* been drawn.  Commands wait in a queue, and the main thread serves them   *)
(* one by one; the answer and the handler's next call are one step with it. *)
(*                                                                         *)
(* Abstractions.  A row is its parent; names, pins and contents are left    *)
(* out, and add_files adds one file.  AUTOINCREMENT gives an id to one row  *)
(* only: the id is chosen with the command.  The cursor of move_folder      *)
(* visits the folders above the target (Above), which WalkIsAbove compares  *)
(* with the loop.                                                           *)
(***************************************************************************)
EXTENDS Naturals, Sequences, FiniteSets

CONSTANTS
  FolderIds,  (* ids of the folders table                                   *)
  FileIds,    (* ids of the files table                                     *)
  MaxPath,    (* bound: how deep a person opens folders                     *)
  MaxQueue,   (* bound: how many commands wait                              *)
  Root,       (* the parent of a top-level row: NULL                        *)
  None        (* no row, or no id                                           *)

ASSUME IdsAssumption ==
  /\ Root # None
  /\ {Root, None} \intersect (FolderIds \union FileIds) = {}

\* A table holds finitely many rows.
ASSUME FoldersAssumption == IsFiniteSet(FolderIds)

VARIABLES
  parent,    (* parent[f]: the folder that f is in, None without a row f    *)
  folderOf,  (* folderOf[x]: the folder that file x is in                   *)
  used,      (* the ids that AUTOINCREMENT has given out                    *)
  path,      (* filesPath: the folders opened on the way to the current one *)
  grid,      (* the folder that is drawn, its tiles, its breadcrumb         *)
  seen,      (* the rows that have been drawn: a dialog or a drag may still *)
             (* be about one that is not on the grid any more               *)
  queue,     (* the commands sent and not answered                          *)
  erred      (* a command has failed since the grid was drawn               *)

rows == <<parent, folderOf>>
view == <<path, grid, seen>>
vars == <<parent, folderOf, used, path, grid, seen, queue, erred>>

Ops == {"list", "createFolder", "addFile", "deleteFolder", "deleteFile", "moveFolder", "moveFile"}

\* again: the handler calls refreshFiles after an error as well.
Commands ==
  [op : Ops, id : FolderIds \union FileIds \union {None},
   to : FolderIds \union {Root, None}, again : BOOLEAN]

Command(op, id, to) == [op |-> op, id |-> id, to |-> to, again |-> FALSE]
List(d) == Command("list", None, d)

Init ==
  /\ parent = [f \in FolderIds |-> None]
  /\ folderOf = [x \in FileIds |-> None]
  /\ used = {}
  /\ path = <<>>
  /\ grid = [at |-> Root, folders |-> {}, files |-> {}, crumbs |-> 0]
  /\ seen = {}
  /\ queue = <<List(Root)>>
  /\ erred = FALSE

-----------------------------------------------------------------------------
(* files.rs *)

Folders == {f \in FolderIds : parent[f] # None}
Files == {x \in FileIds : folderOf[x] # None}
Listed(d) == {f \in FolderIds : parent[f] = d}
FilesIn(d) == {x \in FileIds : folderOf[x] = d}

\* require_folder_exists, or None for the root.
Exists(d) == d = Root \/ d \in Folders

\* The folders that the cursor of move_folder visits from d up to the root.
Above(d) ==
  {f \in Folders : \A S \in SUBSET Folders :
     d \in S /\ (\A g \in S : parent[g] \in Folders => parent[g] \in S) => f \in S}

\* Mutant: only the target itself is looked at.
MutMayMoveFolder(f, d) == f \in Folders /\ Exists(d) /\ f # d

MayMoveFolder(f, d) ==
  /\ f \in Folders
  /\ Exists(d)
  /\ d # Root => f \notin Above(d)

\* Mutant: only files count as content.
MutMayDeleteFolder(f) == f \in Folders /\ FilesIn(f) = {}

MayDeleteFolder(f) ==
  /\ f \in Folders
  /\ FilesIn(f) = {}
  /\ Listed(f) = {}

CreateFolder(c) ==
  /\ c.op = "createFolder"
  /\ Exists(c.to)
  /\ parent' = [parent EXCEPT ![c.id] = c.to]
  /\ UNCHANGED folderOf

AddFile(c) ==
  /\ c.op = "addFile"
  /\ Exists(c.to)
  /\ folderOf' = [folderOf EXCEPT ![c.id] = c.to]
  /\ UNCHANGED parent

MoveFolder(c) ==
  /\ c.op = "moveFolder"
  /\ MayMoveFolder(c.id, c.to)
  /\ parent' = [parent EXCEPT ![c.id] = c.to]
  /\ UNCHANGED folderOf

MoveFile(c) ==
  /\ c.op = "moveFile"
  /\ Exists(c.to)
  /\ c.id \in Files
  /\ folderOf' = [folderOf EXCEPT ![c.id] = c.to]
  /\ UNCHANGED parent

DeleteFolder(c) ==
  /\ c.op = "deleteFolder"
  /\ MayDeleteFolder(c.id)
  /\ parent' = [parent EXCEPT ![c.id] = None]
  /\ UNCHANGED folderOf

DeleteFile(c) ==
  /\ c.op = "deleteFile"
  /\ c.id \in Files
  /\ folderOf' = [folderOf EXCEPT ![c.id] = None]
  /\ UNCHANGED parent

Applies(c) ==
  \/ CreateFolder(c) \/ MoveFolder(c) \/ DeleteFolder(c)
  \/ AddFile(c) \/ MoveFile(c) \/ DeleteFile(c)

\* What the commands above turn down changes nothing.
Refuses(c) ==
  /\ \/ c.op \in {"createFolder", "addFile"} /\ ~Exists(c.to)
     \/ c.op = "moveFolder" /\ ~MayMoveFolder(c.id, c.to)
     \/ c.op = "moveFile" /\ ~(Exists(c.to) /\ c.id \in Files)
     \/ c.op = "deleteFolder" /\ ~MayDeleteFolder(c.id)
     \/ c.op = "deleteFile" /\ c.id \notin Files
  /\ UNCHANGED rows

-----------------------------------------------------------------------------
(* The main thread serves the first command, the handler gets its answer *)

\* Mutant: no folder at all instead of the root.
MutCurrent(p) == IF p = <<>> THEN None ELSE p[Len(p)]

Current(p) == IF p = <<>> THEN Root ELSE p[Len(p)]
UpTarget(p) == IF Len(p) >= 2 THEN p[Len(p) - 1] ELSE Root

First(c) == queue # <<>> /\ c = Head(queue)

\* refreshFiles asks for the folder that is current now.
Refresh == queue' = Append(Tail(queue), List(Current(path)))

\* Mutant: the handler does not refresh the grid.
MutServe(c) ==
  /\ First(c)
  /\ Applies(c)
  /\ queue' = Tail(queue)
  /\ UNCHANGED <<used, view, erred>>

Serve(c) ==
  /\ First(c)
  /\ Applies(c)
  /\ Refresh
  /\ UNCHANGED <<used, view, erred>>

\* The command is refused, or its effect cannot be saved in the Shell.  Most
\* handlers leave the grid as it is then.
Fails(c) ==
  /\ First(c)
  /\ Refuses(c) \/ Applies(c)
  /\ IF c.again THEN Refresh ELSE queue' = Tail(queue)
  /\ erred' = TRUE
  /\ UNCHANGED <<used, view>>

\* list_folders and list_files of one folder, and the drawing.
Draw(c) ==
  /\ First(c)
  /\ c.op = "list"
  /\ grid' = [at |-> c.to, folders |-> Listed(c.to), files |-> FilesIn(c.to), crumbs |-> Len(path)]
  /\ seen' = seen \union Listed(c.to) \union FilesIn(c.to)
  /\ queue' = Tail(queue)
  /\ erred' = FALSE
  /\ UNCHANGED <<rows, used, path>>

-----------------------------------------------------------------------------
(* What a person does to the grid that is drawn *)

Send(c) ==
  /\ Len(queue) < MaxQueue
  /\ queue' = Append(queue, c)

\* filesPath changes at once, the grid when its lists have arrived.
GoTo(p) ==
  /\ path' = p
  /\ Send(List(Current(p)))
  /\ UNCHANGED <<rows, used, grid, seen, erred>>

OpenFolder(f) ==
  /\ f \in grid.folders
  /\ Len(path) < MaxPath
  /\ GoTo(Append(path, f))

\* The tile that leads up is there when the drawn path was not empty.
GoUp ==
  /\ grid.crumbs > 0
  /\ GoTo(IF path = <<>> THEN <<>> ELSE SubSeq(path, 1, Len(path) - 1))

ClickCrumb(n) ==
  /\ n <= grid.crumbs
  /\ n # Len(path)
  /\ GoTo(IF n < Len(path) THEN SubSeq(path, 1, n) ELSE path)

ShowZoneView == GoTo(<<>>)

\* A command that does not change the path.
Ask(c) ==
  /\ Send(c)
  /\ UNCHANGED <<rows, view, erred>>

\* A new row gets an id that no row has had.
AskNew(op, id) ==
  /\ id \notin used
  /\ used' = used \union {id}
  /\ Ask(Command(op, id, Current(path)))

AskDelete(op, id) ==
  /\ Ask(Command(op, id, None))
  /\ UNCHANGED used

\* Drag and drop onto a folder's tile; refreshFiles follows in any case.
DropOnFolder(op, id, f) ==
  /\ f \in grid.folders
  /\ f # id
  /\ Ask([Command(op, id, f) EXCEPT !.again = TRUE])
  /\ UNCHANGED used

DropOnUp(op, id) ==
  /\ grid.crumbs > 0
  /\ Ask(Command(op, id, UpTarget(path)))
  /\ UNCHANGED used

Acts ==
  \/ \E f \in grid.folders : OpenFolder(f)
  \/ \E f \in seen \intersect FolderIds :
       \/ AskDelete("deleteFolder", f)
       \/ DropOnUp("moveFolder", f)
       \/ \E d \in grid.folders : DropOnFolder("moveFolder", f, d)
  \/ \E x \in seen \intersect FileIds :
       \/ AskDelete("deleteFile", x)
       \/ DropOnUp("moveFile", x)
       \/ \E d \in grid.folders : DropOnFolder("moveFile", x, d)
  \/ \E f \in FolderIds : AskNew("createFolder", f)
  \/ \E x \in FileIds : AskNew("addFile", x)
  \/ GoUp
  \/ \E n \in 0..MaxPath : ClickCrumb(n)
  \/ ShowZoneView

Next == Acts \/ \E c \in Commands : Serve(c) \/ Fails(c) \/ Draw(c)

Spec == Init /\ [][Next]_vars

-----------------------------------------------------------------------------
(* Properties *)

TypeOK ==
  /\ parent \in [FolderIds -> FolderIds \union {Root, None}]
  /\ folderOf \in [FileIds -> FolderIds \union {Root, None}]
  /\ used \subseteq FolderIds \union FileIds
  /\ path \in Seq(FolderIds)
  /\ grid \in [at : FolderIds \union {Root}, folders : SUBSET FolderIds,
               files : SUBSET FileIds, crumbs : Nat]
  /\ seen \subseteq FolderIds \union FileIds
  /\ queue \in Seq(Commands)
  /\ erred \in BOOLEAN

\* No sequence of moves and deletions hides anything: whoever starts at the
\* root and opens folder after folder gets to see every folder and every file.
\* A cycle of folders or a parent without a row would be out of reach for good.
NothingHidden ==
  /\ \A f \in Folders : Exists(parent[f])
  /\ \A x \in Files : Exists(folderOf[x])
  /\ \A S \in SUBSET Folders :
       Listed(Root) \subseteq S /\ (\A f \in S : Listed(f) \subseteq S) => S = Folders

\* The loop of move_folder: it visits what Above says, and ends at the root
\* after at most as many steps as there are folders.
Walk(d) ==
  LET cursor[n \in 0..Cardinality(FolderIds)] ==
        IF n = 0 THEN d
        ELSE IF cursor[n - 1] \in Folders THEN parent[cursor[n - 1]] ELSE Root
  IN  {cursor[n] : n \in 0..Cardinality(FolderIds)}
WalkIsAbove == \A d \in Folders : Walk(d) = Above(d) \union {Root}

\* However fast a person acts, and on however old a grid: once all commands
\* are answered the grid shows the current folder as it is, unless a command
\* has failed.
GridSettles ==
  queue = <<>> =>
    \/ erred
    \/ /\ grid.at = Current(path)
       /\ grid.folders = Listed(Current(path))
       /\ grid.files = FilesIn(Current(path))
       /\ grid.crumbs = Len(path)

=============================================================================
