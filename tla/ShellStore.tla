------------------------------ MODULE ShellStore ------------------------------
(***************************************************************************)
(* What the Shell files of crates/vault-core/src/shell.rs promise: in every *)
(* directory there is a Shell or there is none, a Shell has one or two      *)
(* passwords and its zones' data, and each operation on it happens as a     *)
(* whole or not at all, whatever dies in between.  Only a directory that    *)
(* backups are written into promises nothing.  ShellFile has the            *)
(* assumptions about the constants.                                         *)
(***************************************************************************)
EXTENDS Naturals

CONSTANTS
  Dirs,       (* directories that may hold a Shell file                     *)
  Passwords,  (* passwords a user may choose                                *)
  MaxData,    (* bound: how often the zones of one Shell are edited         *)
  None        (* Rust's Option::None                                        *)

Slots == {"primary", "recovery"}

\* A Shell always has a primary password; the recovery password is optional.
SlotMaps == {s \in [Slots -> Passwords \union {None}] : s["primary"] # None}

Shell == [slots : SlotMaps, data : 0..MaxData]

VARIABLES
  shells,   (* shells[d]: the Shell that can be opened in directory d, or None *)
  targets   (* the directories that a backup has been written into             *)

vars == <<shells, targets>>

Init ==
  /\ shells = [d \in Dirs |-> None]
  /\ targets = {}

\* A new Shell has no zones yet.
Create(d, s) ==
  /\ shells[d] = None
  /\ shells' = [shells EXCEPT ![d] = [slots |-> s, data |-> 0]]
  /\ UNCHANGED targets

Edit(d) ==
  /\ shells[d] # None
  /\ shells[d].data < MaxData
  /\ shells' = [shells EXCEPT ![d].data = @ + 1]
  /\ UNCHANGED targets

\* One slot gets a new password; the other slot and the data stay.
ChangePassword(d, slot, password) ==
  /\ shells[d] # None
  /\ shells' = [shells EXCEPT ![d].slots[slot] = password]
  /\ UNCHANGED targets

BackUpInto(d) ==
  /\ \E s \in Shell \union {None} : shells' = [shells EXCEPT ![d] = s]
  /\ targets' = targets \union {d}

Next ==
  \E d \in Dirs :
    \/ \E s \in SlotMaps : Create(d, s)
    \/ Edit(d)
    \/ \E slot \in Slots, password \in Passwords : ChangePassword(d, slot, password)
    \/ BackUpInto(d)

Spec == Init /\ [][Next]_vars

=============================================================================
