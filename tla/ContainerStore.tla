----------------------------- MODULE ContainerStore -----------------------------
(***************************************************************************)
(* What a container with its own password (container.rs, and the create,    *)
(* open and export_backup of every kind of zone) promises: at every path    *)
(* there is a container or there is none; it keeps the password it came     *)
(* into being with; its rows change one whole operation at a time, and a    *)
(* standalone export brings all of its rows at once.  Only a path that      *)
(* backups are written to promises nothing.                                 *)
(***************************************************************************)
EXTENDS Naturals

CONSTANTS
  Dirs,       (* paths at which a container may be                          *)
  Passwords,  (* passwords a user may choose                                *)
  MaxData,    (* bound: how often the rows of one container change          *)
  None        (* no container                                               *)

Box == [data : 0..MaxData, password : Passwords]

VARIABLES
  boxes,    (* boxes[d]: the container that opens at path d, or None        *)
  targets   (* the paths that a backup has been written to                  *)

vars == <<boxes, targets>>

Init ==
  /\ boxes = [d \in Dirs |-> None]
  /\ targets = {}

Create(d, password) ==
  /\ boxes[d] = None
  /\ boxes' = [boxes EXCEPT ![d] = [data |-> 0, password |-> password]]
  /\ UNCHANGED targets

Edit(d) ==
  /\ boxes[d] # None
  /\ boxes[d].data < MaxData
  /\ boxes' = [boxes EXCEPT ![d].data = @ + 1]
  /\ UNCHANGED targets

\* All rows of an exported zone arrive together, where there was none.
Receive(d, n) ==
  /\ boxes[d] # None
  /\ boxes[d].data = 0
  /\ boxes' = [boxes EXCEPT ![d].data = n]
  /\ UNCHANGED targets

BackUpInto(d) ==
  /\ \E b \in Box \union {None} : boxes' = [boxes EXCEPT ![d] = b]
  /\ targets' = targets \union {d}

Next ==
  \E d \in Dirs :
    \/ \E password \in Passwords : Create(d, password)
    \/ Edit(d)
    \/ \E n \in 0..MaxData : Receive(d, n)
    \/ BackUpInto(d)

Spec == Init /\ [][Next]_vars

=============================================================================
