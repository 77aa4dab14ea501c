----------------------------- MODULE SessionStore -----------------------------
(***************************************************************************)
(* What the session core of src-tauri/src/main.rs promises: one Shell is    *)
(* open at a time, zones lie in it under passwords of their own, and a zone *)
(* that is worked on lies on the desk until it is put away.  There are no   *)
(* mutexes, keys, threads or times here, and each thing a person asks for   *)
(* happens at once.  What lies on the desk is there until somebody puts it  *)
(* away, which locks, timeouts and changes of password do, and it goes back *)
(* to where it was taken from, with one exception: see SaveElsewhere.       *)
(* VaultSessions has the assumptions about the constants.                   *)
(***************************************************************************)
CONSTANTS
  Paths,      (* Shell files                                                *)
  ZoneIds,    (* ids of the zones of a Shell                                *)
  Contents,   (* what a zone may hold                                       *)
  EmptyZone,  (* what a new zone holds                                      *)
  None        (* Rust's Option::None                                        *)

VARIABLES
  at,    (* the Shell that is open, or None                                 *)
  kept,  (* kept[p][z]: what zone z of Shell p holds and whether its        *)
         (* password opens it, or None                                      *)
  desk   (* desk[z]: what the open zone z holds and where it comes from     *)

vars == <<at, kept, desk>>

Box(content)      == [holds |-> content, opens |-> TRUE]
Paper(content, p) == [holds |-> content, home |-> p]

Init ==
  /\ at = None
  /\ kept = [p \in Paths |-> [z \in ZoneIds |-> None]]
  /\ desk = [z \in ZoneIds |-> None]

\* A person who asks again before the first answer shows gets the last Shell.
Unlock(p) ==
  /\ at' = p
  /\ UNCHANGED <<kept, desk>>

Lock ==
  /\ at' = None
  /\ UNCHANGED <<kept, desk>>

\* The program ends, in whatever way.
Leave ==
  /\ at' = None
  /\ desk' = [z \in ZoneIds |-> None]
  /\ UNCHANGED kept

\* An id that is new, with nothing on the desk that could be taken for it.
AddZone(z) ==
  /\ at # None
  /\ kept[at][z] = None
  /\ desk[z] # None => desk[z].home # at
  /\ kept' = [kept EXCEPT ![at][z] = Box(EmptyZone)]
  /\ UNCHANGED <<at, desk>>

RemoveZone(z) ==
  /\ at # None
  /\ kept[at][z] # None
  /\ kept' = [kept EXCEPT ![at][z] = None]
  /\ UNCHANGED <<at, desk>>

TakeOut(z) ==
  /\ at # None
  /\ kept[at][z] # None
  /\ kept[at][z].opens
  /\ desk' = [desk EXCEPT ![z] = Paper(kept[at][z].holds, at)]
  /\ UNCHANGED <<at, kept>>

Write(z, content) ==
  /\ desk[z] # None
  /\ desk' = [desk EXCEPT ![z].holds = content]
  /\ UNCHANGED <<at, kept>>

PutAway(Zs) ==
  /\ desk' = [z \in ZoneIds |-> IF z \in Zs THEN None ELSE desk[z]]
  /\ UNCHANGED <<at, kept>>

\* A zone that is saved into its own Shell opens before and after.
Save(z) ==
  /\ at # None
  /\ kept[at][z] # None
  /\ desk[z] # None
  /\ desk[z].home = at
  /\ kept[at][z].opens
  /\ kept' = [kept EXCEPT ![at][z] = Box(desk[z].holds)]
  /\ UNCHANGED <<at, desk>>

\* A zone of one Shell that was still on the desk when another was opened: it
\* takes the place of that Shell's zone with the same id, and nothing opens it.
SaveElsewhere(z) ==
  /\ at # None
  /\ kept[at][z] # None
  /\ desk[z] # None
  /\ desk[z].home # at
  /\ kept' = [kept EXCEPT ![at][z] = [holds |-> desk[z].holds, opens |-> FALSE]]
  /\ UNCHANGED <<at, desk>>

Next ==
  \/ \E p \in Paths : Unlock(p)
  \/ Lock
  \/ Leave
  \/ \E z \in ZoneIds : AddZone(z) \/ RemoveZone(z) \/ TakeOut(z) \/ Save(z) \/ SaveElsewhere(z)
  \/ \E z \in ZoneIds, content \in Contents : Write(z, content)
  \/ \E Zs \in SUBSET ZoneIds : PutAway(Zs)

Spec == Init /\ [][Next]_vars

=============================================================================
