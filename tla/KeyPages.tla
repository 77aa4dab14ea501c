-------------------------------- MODULE KeyPages --------------------------------
(***************************************************************************)
(* VaultKey (kdf.rs): every key in memory owns a page, which is locked      *)
(* against swapping while the key lives and zeroed when it is dropped.      *)
(* Drop::drop zeroes and frees the page; the guard that unlocks it is a     *)
(* field, dropped after that.  The auto-lock watcher drops the keys of the  *)
(* sessions and of the Shell while the main thread may be making another,   *)
(* and the allocator gives a page that one has freed to the other.          *)
(*                                                                         *)
(* Abstractions.  A key is the page it owns, and the heap has pages for     *)
(* keys only.  Keys are made and dropped in any order; two threads never    *)
(* drop the same one, since Rust moves it into the drop.                    *)
(***************************************************************************)
EXTENDS Naturals, FiniteSets

CONSTANTS
  Threads,    (* threads that drop keys: the main one and the watcher       *)
  Makers,     (* those that make keys: the main one                         *)
  Pages,      (* pages that the allocator can hand out                      *)
  MaxLocked,  (* RLIMIT_MEMLOCK, in pages                                   *)
  None        (* the thread is not inside from_bytes or drop                *)

VaultKey == [guard : BOOLEAN, page : Pages]

Steps == {"copy", "lock", "dealloc", "unlock"}
Work == [at : Steps, key : VaultKey]

ASSUME ThreadsAssumption == Makers \subseteq Threads /\ None \notin Work

VARIABLES
  free,    (* pages in the allocator's hands                                *)
  bytes,   (* pages in which the bytes of a key are                         *)
  locked,  (* pages that the operating system does not swap out             *)
  keys,    (* the keys alive                                                *)
  work,    (* work[t]: what thread t is in the middle of, or None           *)
  reused   (* history: pages handed out while an earlier owner had yet to   *)
           (* unlock them                                                   *)

vars == <<free, bytes, locked, keys, work, reused>>

Init ==
  /\ free = Pages
  /\ bytes = {}
  /\ locked = {}
  /\ keys = {}
  /\ work = [t \in Threads |-> None]
  /\ reused = {}

-----------------------------------------------------------------------------
(* Helpers *)

At(t, step) == work[t] # None /\ work[t].at = step
Page(t) == work[t].key.page
Go(t, step, key) == work' = [work EXCEPT ![t] = [at |-> step, key |-> key]]
Done(t) == work' = [work EXCEPT ![t] = None]

\* mlock: a page locked already counts once.
Granted(p) == p \in locked \/ Cardinality(locked) < MaxLocked

UnlockPending(p) == \E t \in Threads : At(t, "unlock") /\ Page(t) = p

-----------------------------------------------------------------------------
(* VaultKey::from_bytes *)

Alloc(t, p) ==
  /\ work[t] = None
  /\ p \in free
  /\ free' = free \ {p}
  /\ reused' = IF UnlockPending(p) THEN reused \union {p} ELSE reused \ {p}
  /\ Go(t, "copy", [guard |-> FALSE, page |-> p])
  /\ UNCHANGED <<bytes, locked, keys>>

Copy(t) ==
  /\ At(t, "copy")
  /\ bytes' = bytes \union {Page(t)}
  /\ Go(t, "lock", work[t].key)
  /\ UNCHANGED <<free, locked, keys, reused>>

\* Mutant: the guard is gone at once, and only its being is remembered.
MutLock(t) ==
  /\ At(t, "lock")
  /\ locked' = locked \ {Page(t)}
  /\ keys' = keys \union {[guard |-> Granted(Page(t)), page |-> Page(t)]}
  /\ Done(t)
  /\ UNCHANGED <<free, bytes, reused>>

\* region::lock(..).ok(): a refusal makes a key without a guard.
Lock(t) ==
  /\ At(t, "lock")
  /\ locked' = IF Granted(Page(t)) THEN locked \union {Page(t)} ELSE locked
  /\ keys' = keys \union {[guard |-> Granted(Page(t)), page |-> Page(t)]}
  /\ Done(t)
  /\ UNCHANGED <<free, bytes, reused>>

-----------------------------------------------------------------------------
(* Drop::drop, and then the drop of the field _lock *)

Zero(t, key) ==
  /\ work[t] = None
  /\ key \in keys
  /\ keys' = keys \ {key}
  /\ bytes' = bytes \ {key.page}
  /\ Go(t, "dealloc", key)
  /\ UNCHANGED <<free, locked, reused>>

\* Mutant: the guard is never dropped.
MutDealloc(t) ==
  /\ At(t, "dealloc")
  /\ free' = free \union {Page(t)}
  /\ Done(t)
  /\ UNCHANGED <<bytes, locked, keys, reused>>

\* Mutant: pages are unlocked whether they were locked or not.
MutUnlockAll(t) ==
  /\ At(t, "dealloc")
  /\ free' = free \union {Page(t)}
  /\ Go(t, "unlock", work[t].key)
  /\ UNCHANGED <<bytes, locked, keys, reused>>

Dealloc(t) ==
  /\ At(t, "dealloc")
  /\ free' = free \union {Page(t)}
  /\ IF work[t].key.guard THEN Go(t, "unlock", work[t].key) ELSE Done(t)
  /\ UNCHANGED <<bytes, locked, keys, reused>>

\* munlock: locks do not nest, and whose page it is now is not asked.
Unlock(t) ==
  /\ At(t, "unlock")
  /\ locked' = locked \ {Page(t)}
  /\ Done(t)
  /\ UNCHANGED <<free, bytes, keys, reused>>

-----------------------------------------------------------------------------
\* derive_key, VaultKey::random and unwrapping a slot end in from_bytes; when the
\* derivation fails there is no key.
MakeKey(t) == (\E p \in Pages : Alloc(t, p)) \/ Copy(t) \/ Lock(t)
DropKey(t) == (\E key \in VaultKey : Zero(t, key)) \/ Dealloc(t) \/ Unlock(t)

Next == (\E t \in Makers : MakeKey(t)) \/ (\E t \in Threads : DropKey(t))

Spec == Init /\ [][Next]_vars

-----------------------------------------------------------------------------
(* Properties *)

\* The types of the variables; what is unlocked has a guard.
TypeOK ==
  /\ free \subseteq Pages
  /\ bytes \subseteq Pages
  /\ locked \subseteq Pages
  /\ keys \subseteq VaultKey
  /\ work \in [Threads -> Work \union {None}]
  /\ \A t \in Threads : At(t, "unlock") => work[t].key.guard
  /\ reused \subseteq Pages

\* Owned by a key that is alive, or by a thread in the middle of from_bytes.
Owned(p) ==
  \/ \E key \in keys : key.page = p
  \/ \E t \in Threads : (At(t, "copy") \/ At(t, "lock")) /\ Page(t) = p

\* The bytes of a key are nowhere but in the page of a key that is alive: what the
\* allocator hands out again holds none (kdf.rs, "zeroed on drop").
NoBytesLeft == \A p \in bytes : p \notin free /\ Owned(p)

\* No lock outlives its key, however the drops of the threads interleave: a page
\* is locked for a key with a guard, or for one whose guard is being dropped.
\* Leaked locks would use up RLIMIT_MEMLOCK.
LocksEnd ==
  \A p \in locked :
    \/ \E key \in keys : key.page = p /\ key.guard
    \/ \E t \in Threads :
         (At(t, "dealloc") \/ At(t, "unlock")) /\ work[t].key = [guard |-> TRUE, page |-> p]

\* A key that is gone leaves nothing behind it, neither its bytes nor its lock.
NothingIsLeft == NoBytesLeft /\ LocksEnd

\* kdf.rs says that one key's lock and unlock can never affect another's: that is
\* so unless the other was given the page between the first one's dealloc and its
\* unlock.
LocksLast == \A key \in keys : key.guard => key.page \in locked \union reused

\* What it says, without the exception: true of one thread.
GuardedIsLocked == \A key \in keys : key.guard => key.page \in locked

-----------------------------------------------------------------------------
(* The inductive invariant *)

Holds(t, p) == (At(t, "copy") \/ At(t, "lock") \/ At(t, "dealloc")) /\ Page(t) = p

\* A page is in the allocator's hands, in one thread's, or one key's.
Exclusive ==
  /\ \A key, other \in keys : key.page = other.page => key = other
  /\ \A key \in keys : key.page \notin free /\ \A t \in Threads : ~Holds(t, key.page)
  /\ \A t \in Threads, p \in Pages :
       Holds(t, p) => p \notin free /\ \A u \in Threads : Holds(u, p) => u = t

\* Bytes are written before the lock is asked for, and zeroed before the page is freed.
Written ==
  \A p \in bytes :
    \/ \E key \in keys : key.page = p
    \/ \E t \in Threads : At(t, "lock") /\ Page(t) = p

\* Only a page handed out too early has an unlock coming.
Expected == \A p \in Pages : UnlockPending(p) /\ Owned(p) => p \in reused

IInv == TypeOK /\ Exclusive /\ Written /\ Expected /\ LocksEnd /\ LocksLast

=============================================================================
