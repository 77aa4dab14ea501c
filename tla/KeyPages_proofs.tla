--------------------------- MODULE KeyPages_proofs ---------------------------
(***************************************************************************)
(* Proofs about KeyPages, for any threads, pages and limit on locks: freed  *)
(* pages hold no key, no lock outlives its key, and a key that loses its    *)
(* lock had been given a page too early.  One thread alone never does.      *)
(***************************************************************************)
EXTENDS KeyPages, TLAPS

LEMMA WorkSet ==
  ASSUME TypeOK, NEW t \in Threads, NEW step \in Steps, NEW key \in VaultKey, Go(t, step, key)
  PROVE  /\ work' \in [Threads -> Work \union {None}]
         /\ work'[t] # None /\ work'[t].at = step /\ work'[t].key = key
         /\ \A u \in Threads : u # t => work'[u] = work[u]
<1>1. [at |-> step, key |-> key] \in Work
  BY DEF Work
<1> QED
  BY <1>1, ThreadsAssumption DEF Go, TypeOK

LEMMA WorkDone ==
  ASSUME TypeOK, NEW t \in Threads, Done(t)
  PROVE  /\ work' \in [Threads -> Work \union {None}] /\ work'[t] = None
         /\ \A u \in Threads : u # t => work'[u] = work[u]
BY DEF Done, TypeOK

LEMMA WorkTyped ==
  ASSUME TypeOK, NEW t \in Threads, work[t] # None
  PROVE  /\ work[t].at \in Steps /\ work[t].key \in VaultKey
         /\ work[t].key.page \in Pages /\ work[t].key.guard \in BOOLEAN
BY DEF TypeOK, Work, VaultKey

LEMMA InvariantInit == Init => IInv
BY DEF Init, IInv, TypeOK, Exclusive, Written, Expected, LocksEnd, LocksLast, At, Holds,
   UnlockPending

(* Every action keeps the inductive invariant. *)
LEMMA InvariantStep == IInv /\ [Next]_vars => IInv'
<1> SUFFICES ASSUME IInv, [Next]_vars PROVE IInv'
  OBVIOUS
<1>0. TypeOK /\ Exclusive /\ Written /\ Expected /\ LocksEnd /\ LocksLast
  BY DEF IInv
<1>1. CASE UNCHANGED vars
  BY <1>1 DEF vars, IInv, TypeOK, Exclusive, Written, Expected, LocksEnd, LocksLast, At, Holds,
     UnlockPending, Owned, Page
<1>2. ASSUME NEW t \in Threads, NEW p \in Pages, Alloc(t, p) PROVE IInv'
  <2> DEFINE new == [guard |-> FALSE, page |-> p]
  <2>1. /\ work[t] = None /\ p \in free /\ free' = free \ {p}
        /\ UNCHANGED <<bytes, locked, keys>>
        /\ reused' = IF UnlockPending(p) THEN reused \union {p} ELSE reused \ {p}
    BY <1>2 DEF Alloc
  <2>2. new \in VaultKey /\ new.page = p /\ "copy" \in Steps
    BY DEF VaultKey, Steps
  <2>3. /\ work' \in [Threads -> Work \union {None}]
        /\ work'[t] # None /\ work'[t].at = "copy" /\ work'[t].key.page = p
        /\ \A u \in Threads : u # t => work'[u] = work[u]
    BY <1>0, <1>2, <2>2, WorkSet DEF Alloc
  <2>4. TypeOK'
    BY <1>0, <2>1, <2>3 DEF TypeOK, At
  <2>5. Exclusive'
    BY <1>0, <2>1, <2>3 DEF Exclusive, Holds, At, Page
  <2>6. Written' /\ LocksEnd'
    BY <1>0, <2>1, <2>3 DEF Written, LocksEnd, At, Page
  <2>7. \A q \in Pages : UnlockPending(q)' <=> UnlockPending(q)
    BY <2>1, <2>3 DEF UnlockPending, At, Page
  <2>8. \A q \in Pages : Owned(q)' => q = p \/ Owned(q)
    BY <2>1, <2>3 DEF Owned, At, Page
  <2>9. Expected'
    BY <1>0, <2>1, <2>7, <2>8 DEF Expected
  <2>10. LocksLast'
    BY <1>0, <2>1 DEF LocksLast, Exclusive, TypeOK, VaultKey
  <2> QED
    BY <2>4, <2>5, <2>6, <2>9, <2>10 DEF IInv
<1>3. ASSUME NEW t \in Threads, Copy(t) PROVE IInv'
  <2>1. /\ work[t] # None /\ work[t].at = "copy" /\ bytes' = bytes \union {Page(t)}
        /\ UNCHANGED <<free, locked, keys, reused>>
    BY <1>3 DEF Copy, At
  <2>2. work[t].key \in VaultKey /\ Page(t) \in Pages /\ "lock" \in Steps
    BY <1>0, <2>1, WorkTyped DEF Page, Steps
  <2>3. /\ work' \in [Threads -> Work \union {None}]
        /\ work'[t] # None /\ work'[t].at = "lock" /\ work'[t].key = work[t].key
        /\ \A u \in Threads : u # t => work'[u] = work[u]
    BY <1>0, <1>3, <2>2, WorkSet DEF Copy
  <2>4. TypeOK'
    BY <1>0, <2>1, <2>2, <2>3 DEF TypeOK, At
  <2>5. Exclusive'
    BY <1>0, <2>1, <2>3 DEF Exclusive, Holds, At, Page
  <2>6. Written' /\ LocksEnd'
    BY <1>0, <2>1, <2>3 DEF Written, LocksEnd, At, Page
  <2>7. Expected'
    BY <1>0, <2>1, <2>3 DEF Expected, UnlockPending, Owned, At, Page
  <2>8. LocksLast'
    BY <1>0, <2>1 DEF LocksLast
  <2> QED
    BY <2>4, <2>5, <2>6, <2>7, <2>8 DEF IInv
<1>4. ASSUME NEW t \in Threads, Lock(t) PROVE IInv'
  <2> DEFINE p == Page(t)
             new == [guard |-> Granted(p), page |-> p]
  <2>1. /\ work[t] # None /\ work[t].at = "lock" /\ keys' = keys \union {new}
        /\ locked' = IF Granted(p) THEN locked \union {p} ELSE locked
        /\ UNCHANGED <<free, bytes, reused>>
    BY <1>4 DEF Lock, At
  <2>2. p \in Pages /\ Granted(p) \in BOOLEAN
    BY <1>0, <2>1, WorkTyped DEF Page, Granted
  <2>3. new \in VaultKey /\ new.page = p /\ (new.guard <=> Granted(p))
    BY <2>2 DEF VaultKey
  <2>4. /\ work' \in [Threads -> Work \union {None}] /\ work'[t] = None
        /\ \A u \in Threads : u # t => work'[u] = work[u]
    BY <1>0, <1>4, WorkDone DEF Lock
  <2> HIDE DEF new, p
  <2>5. TypeOK'
    BY <1>0, <2>1, <2>2, <2>3, <2>4 DEF TypeOK, At
  <2>6. Holds(t, p) /\ \A u \in Threads : u # t => ~Holds(u, p)
    BY <1>0, <2>1, <2>2 DEF Exclusive, Holds, At, p
  <2>7. Exclusive'
    BY <1>0, <2>1, <2>2, <2>3, <2>4, <2>6 DEF Exclusive, Holds, At, Page
  <2>8. Written'
    BY <1>0, <2>1, <2>3, <2>4 DEF Written, At, Page, p
  <2>9. LocksEnd'
    BY <1>0, <2>1, <2>3, <2>4 DEF LocksEnd, At, Page
  <2>10. Expected'
    <3>1. \A q \in Pages : UnlockPending(q)' => UnlockPending(q)
      BY <2>4 DEF UnlockPending, At, Page
    <3>2. \A q \in Pages : Owned(q)' => Owned(q)
      BY <2>1, <2>3, <2>4 DEF Owned, At, Page, p
    <3> QED
      BY <1>0, <2>1, <3>1, <3>2 DEF Expected
  <2>11. LocksLast'
    BY <1>0, <2>1, <2>3 DEF LocksLast
  <2> QED
    BY <2>5, <2>7, <2>8, <2>9, <2>10, <2>11 DEF IInv
<1>5. ASSUME NEW t \in Threads, NEW key \in VaultKey, Zero(t, key) PROVE IInv'
  <2>1. /\ work[t] = None /\ key \in keys /\ keys' = keys \ {key}
        /\ bytes' = bytes \ {key.page} /\ UNCHANGED <<free, locked, reused>>
    BY <1>5 DEF Zero
  <2>2. "dealloc" \in Steps /\ key.page \in Pages
    BY DEF Steps, VaultKey
  <2>3. /\ work' \in [Threads -> Work \union {None}]
        /\ work'[t] # None /\ work'[t].at = "dealloc" /\ work'[t].key = key
        /\ \A u \in Threads : u # t => work'[u] = work[u]
    BY <1>0, <1>5, <2>2, WorkSet DEF Zero
  <2>4. TypeOK'
    BY <1>0, <2>1, <2>3 DEF TypeOK, At
  <2>5. Exclusive'
    BY <1>0, <2>1, <2>2, <2>3 DEF Exclusive, Holds, At, Page
  <2>6. Written'
    BY <1>0, <2>1, <2>3 DEF Written, At, Page
  <2>7. LocksEnd'
    <3>1. ASSUME NEW p \in locked, NEW other \in keys, other.page = p, other.guard, other # key
          PROVE  \E k \in keys' : k.page = p /\ k.guard
      BY <2>1, <3>1
    <3>2. ASSUME NEW p \in locked, key.page = p, key.guard
          PROVE  At(t, "dealloc")' /\ work'[t].key = [guard |-> TRUE, page |-> p]
      BY <2>3, <3>2 DEF At, VaultKey
    <3>3. SUFFICES ASSUME NEW p \in locked
                   PROVE  \/ \E k \in keys' : k.page = p /\ k.guard
                          \/ \E u \in Threads : /\ (At(u, "dealloc") \/ At(u, "unlock"))'
                                               /\ work'[u].key = [guard |-> TRUE, page |-> p]
      BY <2>1 DEF LocksEnd
    <3>4. CASE \E k \in keys : k.page = p /\ k.guard
      BY <2>1, <3>1, <3>2, <3>4
    <3>5. CASE \E u \in Threads : /\ At(u, "dealloc") \/ At(u, "unlock")
                                 /\ work[u].key = [guard |-> TRUE, page |-> p]
      BY <2>1, <2>3, <3>5 DEF At
    <3> QED
      BY <1>0, <3>4, <3>5 DEF LocksEnd
  <2>8. Expected'
    BY <1>0, <2>1, <2>3 DEF Expected, UnlockPending, Owned, At, Page
  <2>9. LocksLast'
    BY <1>0, <2>1 DEF LocksLast
  <2> QED
    BY <2>4, <2>5, <2>6, <2>7, <2>8, <2>9 DEF IInv
<1>6. ASSUME NEW t \in Threads, Dealloc(t) PROVE IInv'
  <2>0. PICK p \in Pages, key \in VaultKey : p = Page(t) /\ key = work[t].key /\ p = key.page
    BY <1>0, <1>6, WorkTyped DEF Page, Dealloc, At
  <2>1. /\ work[t] # None /\ work[t].at = "dealloc" /\ free' = free \union {p}
        /\ UNCHANGED <<bytes, locked, keys, reused>>
    BY <1>6, <2>0 DEF Dealloc, At
  <2>2. key \in VaultKey /\ p \in Pages /\ p = key.page /\ key.guard \in BOOLEAN /\ "unlock" \in Steps
    BY <2>0 DEF VaultKey, Steps
  <2>3. /\ work' \in [Threads -> Work \union {None}]
        /\ \A u \in Threads : u # t => work'[u] = work[u]
        /\ key.guard => work'[t] # None /\ work'[t].at = "unlock" /\ work'[t].key = key
        /\ ~key.guard => work'[t] = None
    BY <1>0, <1>6, <2>0, <2>2, WorkSet, WorkDone DEF Dealloc
  <2>4. Holds(t, p) /\ \A u \in Threads : u # t => ~Holds(u, p)
    BY <1>0, <2>0, <2>1 DEF Exclusive, Holds, At
  <2>5. TypeOK'
    BY <1>0, <2>1, <2>2, <2>3 DEF TypeOK, At
  <2>6. Exclusive'
    BY <1>0, <2>1, <2>2, <2>3, <2>4 DEF Exclusive, Holds, At, Page
  <2>7. Written'
    BY <1>0, <2>1, <2>3 DEF Written, At, Page
  <2>8. LocksEnd'
    BY <1>0, <2>0, <2>1, <2>2, <2>3 DEF LocksEnd, At
  <2>9. Expected'
    <3>1. ~Owned(p)'
      <4>1. \A k \in keys : k.page # p
        BY <1>0, <2>4 DEF Exclusive
      <4>2. \A u \in Threads : ~((At(u, "copy") \/ At(u, "lock"))' /\ Page(u)' = p)
        BY <2>3, <2>4 DEF Holds, At, Page
      <4> QED
        BY <2>1, <4>1, <4>2 DEF Owned
    <3>2. \A q \in Pages : q # p /\ UnlockPending(q)' => UnlockPending(q)
      BY <2>1, <2>2, <2>3 DEF UnlockPending, At, Page
    <3>3. \A q \in Pages : Owned(q)' => Owned(q)
      BY <2>1, <2>3 DEF Owned, At, Page
    <3>4. SUFFICES ASSUME NEW q \in Pages, UnlockPending(q)', Owned(q)' PROVE q \in reused
      BY <2>1 DEF Expected
    <3>5. q # p
      BY <3>1, <3>4
    <3> QED
      BY <1>0, <3>2, <3>3, <3>4, <3>5 DEF Expected
  <2>10. LocksLast'
    BY <1>0, <2>1 DEF LocksLast
  <2> QED
    BY <2>5, <2>6, <2>7, <2>8, <2>9, <2>10 DEF IInv
<1>7. ASSUME NEW t \in Threads, Unlock(t) PROVE IInv'
  <2> DEFINE p == Page(t)
  <2>1. /\ work[t] # None /\ work[t].at = "unlock" /\ locked' = locked \ {p}
        /\ UNCHANGED <<free, bytes, keys, reused>>
    BY <1>7 DEF Unlock, At
  <2>2. p \in Pages
    BY <1>0, <2>1, WorkTyped DEF Page
  <2>3. /\ work' \in [Threads -> Work \union {None}] /\ work'[t] = None
        /\ \A u \in Threads : u # t => work'[u] = work[u]
    BY <1>0, <1>7, WorkDone DEF Unlock
  <2>4. TypeOK'
    BY <1>0, <2>1, <2>3 DEF TypeOK, At
  <2>5. Exclusive'
    BY <1>0, <2>1, <2>3 DEF Exclusive, Holds, At, Page
  <2>6. Written'
    BY <1>0, <2>1, <2>3 DEF Written, At, Page
  <2>7. LocksEnd'
    <3>1. ASSUME NEW q \in locked, q # p, At(t, "unlock"), work[t].key = [guard |-> TRUE, page |-> q]
          PROVE  FALSE
      BY <3>1 DEF Page
    <3>2. SUFFICES ASSUME NEW q \in locked, q # p
                   PROVE  \/ \E k \in keys : k.page = q /\ k.guard
                          \/ \E u \in Threads : /\ (At(u, "dealloc") \/ At(u, "unlock"))'
                                               /\ work'[u].key = [guard |-> TRUE, page |-> q]
      BY <2>1 DEF LocksEnd
    <3>3. CASE \E u \in Threads : /\ At(u, "dealloc") \/ At(u, "unlock")
                                 /\ work[u].key = [guard |-> TRUE, page |-> q]
      BY <2>1, <2>3, <3>1, <3>2, <3>3 DEF At
    <3> QED
      BY <1>0, <3>3 DEF LocksEnd
  <2>8. Expected'
    BY <1>0, <2>1, <2>3 DEF Expected, UnlockPending, Owned, At, Page
  <2>9. LocksLast'
    <3>1. UnlockPending(p)
      BY <2>1 DEF UnlockPending, At
    <3>2. ASSUME NEW k \in keys, k.page = p PROVE p \in reused
      BY <1>0, <2>2, <3>1, <3>2 DEF Expected, Owned
    <3> QED
      BY <1>0, <2>1, <3>2 DEF LocksLast
  <2> QED
    BY <2>4, <2>5, <2>6, <2>7, <2>8, <2>9 DEF IInv
<1> QED
  BY <1>1, <1>2, <1>3, <1>4, <1>5, <1>6, <1>7, ThreadsAssumption DEF Next, MakeKey, DropKey

(* The inductive invariant holds, for any threads, pages and limit. *)
THEOREM InvariantHolds == Spec => []IInv
<1>1. Init => IInv
  BY InvariantInit
<1>2. IInv /\ [Next]_vars => IInv'
  BY InvariantStep
<1> QED
  BY <1>1, <1>2, PTL DEF Spec

(* The types. *)
THEOREM TypeCorrect == Spec => []TypeOK
<1>1. IInv => TypeOK
  BY DEF IInv
<1> QED
  BY <1>1, InvariantHolds, PTL

(* A key that is gone leaves neither its bytes nor a lock. *)
THEOREM GoneKeysLeaveNothing == Spec => []NothingIsLeft
<1>1. IInv => NoBytesLeft
  BY DEF IInv, Written, NoBytesLeft, Owned, Exclusive, TypeOK, Holds, At, Page
<1>2. IInv => NothingIsLeft
  BY <1>1 DEF IInv, NothingIsLeft
<1> QED
  BY <1>2, InvariantHolds, PTL

(* A key that loses its lock was given its page before the earlier owner's unlock. *)
THEOREM LocksDoLast == Spec => []LocksLast
<1>1. IInv => LocksLast
  BY DEF IInv
<1> QED
  BY <1>1, InvariantHolds, PTL

(* One thread alone keeps what kdf.rs says: a key with a guard stays locked. *)
THEOREM OneThreadKeepsLocks ==
  ASSUME NEW t, Threads = {t} PROVE Spec => []GuardedIsLocked
<1> DEFINE Inv == IInv /\ reused = {}
<1>1. Init => Inv
  BY InvariantInit DEF Init
<1>2. Inv /\ [Next]_vars => Inv'
  <2> SUFFICES ASSUME Inv, [Next]_vars PROVE Inv'
    OBVIOUS
  <2>1. IInv'
    BY InvariantStep
  <2>2. ASSUME NEW u \in Threads, NEW p \in Pages, Alloc(u, p) PROVE reused' = {}
    <3>1. ~UnlockPending(p)
      BY <2>2 DEF Alloc, UnlockPending, At
    <3> QED
      BY <2>2, <3>1 DEF Alloc
  <2>3. reused' = {}
    BY <2>2, ThreadsAssumption DEF Next, MakeKey, DropKey, Copy, Lock, Zero, Dealloc, Unlock, vars
  <2> QED
    BY <2>1, <2>3
<1>3. Inv => GuardedIsLocked
  BY DEF IInv, LocksLast, GuardedIsLocked
<1> QED
  BY <1>1, <1>2, <1>3, PTL DEF Spec

=============================================================================
