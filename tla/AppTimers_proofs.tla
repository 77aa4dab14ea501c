--------------------------- MODULE AppTimers_proofs ---------------------------
(***************************************************************************)
(* Proofs about AppTimers, for any texts, number of threads, delay and      *)
(* window: a copied password has a thread that will clear it, and a clear   *)
(* takes off another's text only when the code cannot tell.                 *)
(***************************************************************************)
EXTENDS AppTimers, WellFoundedInduction, SequenceTheorems, TLAPS

Ages == 0..Window + 1

(* The entry that prune stops at: the first that is not too old. *)
LEMMA FirstKept ==
  ASSUME NEW ages \in Seq(Ages), NEW k \in DOMAIN ages, ages[k] <= Window
  PROVE  \E first \in DOMAIN ages :
           /\ Pruned(ages) = SubSeq(ages, first, Len(ages))
           /\ ages[first] <= Window /\ \A j \in 1..first-1 : ages[j] > Window
<1> DEFINE kept == {i \in DOMAIN ages : ages[i] <= Window}
<1>1. kept \subseteq Nat /\ kept # {}
  OBVIOUS
<1>2. PICK m \in kept : \A i \in kept : <<i, m>> \notin OpToRel(<, Nat)
  <2> HIDE DEF kept
  <2> QED
    BY <1>1, NatLessThanWellFounded, WFMin, Zenon
<1>3. m \in DOMAIN ages /\ ages[m] <= Window /\ \A j \in 1..m-1 : ages[j] > Window
  <2>1. \A i \in kept : ~ (i < m)
    <3> HIDE DEF kept
    <3> QED
      BY <1>1, <1>2, Zenon DEF OpToRel
  <2> QED
    BY <2>1, TimersAssumption DEF Ages
<1>4. PICK first : /\ first \in DOMAIN ages /\ Pruned(ages) = SubSeq(ages, first, Len(ages))
                   /\ ages[first] <= Window /\ \A j \in 1..first-1 : ages[j] > Window
  BY <1>3 DEF Pruned
<1> QED
  BY <1>4

(* prune keeps a sequence of ages one. *)
LEMMA PrunedTyped ==
  ASSUME NEW ages \in Seq(Ages)
  PROVE  Pruned(ages) \in Seq(Ages)
<1>1. CASE \E i \in DOMAIN ages : ages[i] <= Window
  <2>1. PICK first \in DOMAIN ages : Pruned(ages) = SubSeq(ages, first, Len(ages))
    BY <1>1, FirstKept
  <2>2. \A i \in first..Len(ages) : ages[i] \in Ages
    OBVIOUS
  <2> QED
    BY <2>1, <2>2, SubSeqProperties
<1>2. CASE ~ \E i \in DOMAIN ages : ages[i] <= Window
  BY <1>2 DEF Pruned
<1> QED
  BY <1>1, <1>2

(* prune drops a prefix of what is too old, and leaves no more of it at the front. *)
LEMMA PrunedSuffix ==
  ASSUME NEW ages \in Seq(Ages)
  PROVE  \E k \in 0..Len(ages) :
           /\ Pruned(ages) = SubSeq(ages, k + 1, Len(ages))
           /\ \A i \in 1..k : ages[i] > Window
           /\ k < Len(ages) => ages[k + 1] <= Window
<1>1. CASE \E i \in DOMAIN ages : ages[i] <= Window
  <2>1. PICK first \in DOMAIN ages :
           /\ Pruned(ages) = SubSeq(ages, first, Len(ages))
           /\ ages[first] <= Window /\ \A j \in 1..first-1 : ages[j] > Window
    BY <1>1, FirstKept
  <2>2. first - 1 \in 0..Len(ages) /\ (first - 1) + 1 = first
    OBVIOUS
  <2> QED
    BY <2>1, <2>2
<1>2. CASE ~ \E i \in DOMAIN ages : ages[i] <= Window
  <2>1. Pruned(ages) = SubSeq(ages, Len(ages) + 1, Len(ages))
    BY <1>2 DEF Pruned
  <2>2. \A i \in 1..Len(ages) : ages[i] > Window
    BY <1>2, TimersAssumption DEF Ages
  <2> QED
    BY <2>1, <2>2
<1> QED
  BY <1>1, <1>2

-----------------------------------------------------------------------------
(* The log *)

(* Pruning a log from which only old entries were dropped drops only old ones. *)
LEMMA PrunedLog ==
  ASSUME NEW all \in Seq(Ages), NEW k \in 0..Len(all),
         \A i \in 1..k : all[i] > Window
  PROVE  \E l \in 0..Len(all) :
           /\ Pruned(SubSeq(all, k + 1, Len(all))) = SubSeq(all, l + 1, Len(all))
           /\ \A i \in 1..l : all[i] > Window
           /\ l < Len(all) => all[l + 1] <= Window
<1> DEFINE log == SubSeq(all, k + 1, Len(all))
<1>1. /\ log \in Seq(Ages) /\ Len(log) = Len(all) - k
      /\ \A i \in 1..Len(log) : log[i] = all[k + i]
  <2>1. \A i \in k + 1..Len(all) : all[i] \in Ages
    OBVIOUS
  <2> QED
    BY <2>1, SubSeqProperties
<1> HIDE DEF log
<1>2. PICK j \in 0..Len(log) :
        /\ Pruned(log) = SubSeq(log, j + 1, Len(log))
        /\ \A i \in 1..j : log[i] > Window
        /\ j < Len(log) => log[j + 1] <= Window
  BY <1>1, PrunedSuffix
<1>3. k + j \in 0..Len(all)
  BY <1>1
<1>4. \A i \in 1..k + j : all[i] > Window
  <2> SUFFICES ASSUME NEW i \in 1..k + j PROVE all[i] > Window
    OBVIOUS
  <2>1. CASE i <= k
    BY <2>1
  <2>2. CASE i > k
    <3>1. i - k \in 1..j /\ log[i - k] = all[i]
      BY <1>1, <2>2
    <3> QED
      BY <1>2, <3>1
  <2> QED
    BY <2>1, <2>2
<1>5. k + j < Len(all) => all[(k + j) + 1] <= Window
  <2> SUFFICES ASSUME k + j < Len(all) PROVE all[(k + j) + 1] <= Window
    OBVIOUS
  <2>1. j + 1 \in 1..Len(log) /\ k + (j + 1) = (k + j) + 1
    BY <1>1
  <2> QED
    BY <1>1, <1>2, <2>1
<1>6. SubSeq(log, j + 1, Len(log)) = SubSeq(all, (k + j) + 1, Len(all))
  <2>1. \A i \in j + 1..Len(log) : log[i] \in Ages
    BY <1>1
  <2>2. \A i \in (k + j) + 1..Len(all) : all[i] \in Ages
    OBVIOUS
  <2> DEFINE one == SubSeq(log, j + 1, Len(log))
             two == SubSeq(all, (k + j) + 1, Len(all))
  <2>3. /\ one \in Seq(Ages) /\ Len(one) = Len(log) - j
        /\ \A i \in 1..Len(log) - j : one[i] = log[j + i]
    BY <1>1, <2>1, SubSeqProperties
  <2>4. /\ two \in Seq(Ages) /\ Len(two) = Len(all) - (k + j)
        /\ \A i \in 1..Len(all) - (k + j) : two[i] = all[(k + j) + i]
    <3> DEFINE l == k + j
    <3>1. l \in 0..Len(all) /\ \A i \in l + 1..Len(all) : all[i] \in Ages
      BY <1>3
    <3> HIDE DEF l
    <3>2. /\ SubSeq(all, l + 1, Len(all)) \in Seq(Ages)
          /\ Len(SubSeq(all, l + 1, Len(all))) = Len(all) - l
          /\ \A i \in 1..Len(all) - l : SubSeq(all, l + 1, Len(all))[i] = all[l + i]
      BY <3>1, SubSeqProperties
    <3> QED
      BY <3>2 DEF l
  <2>5. Len(one) = Len(two)
    BY <1>1, <2>3, <2>4
  <2>6. \A i \in 1..Len(one) : one[i] = two[i]
    <3> SUFFICES ASSUME NEW i \in 1..Len(one) PROVE one[i] = two[i]
      OBVIOUS
    <3> HIDE DEF one, two
    <3>1. one[i] = log[j + i] /\ two[i] = all[(k + j) + i]
      BY <1>1, <2>3, <2>4, <2>5
    <3>2. j + i \in 1..Len(log) /\ k + (j + i) = (k + j) + i
      BY <1>1, <2>3
    <3> QED
      BY <1>1, <3>1, <3>2
  <2> QED
    BY <2>3, <2>4, <2>5, <2>6, SeqEqual
<1> QED
  <2> DEFINE l == k + j
  <2>1. Pruned(log) = SubSeq(all, l + 1, Len(all))
    BY <1>2, <1>6
  <2> HIDE DEF l
  <2> QED
    BY <1>3, <1>4, <1>5, <2>1 DEF l, log

LogInv ==
  /\ failures \in Seq(Ages) /\ recent \in Seq(Ages)
  /\ DroppedIsOld /\ Ordered /\ total = Len(failures)

LEMMA LogRecorded == ASSUME LogInv, RecordFailure PROVE LogInv'
<1>1. PICK k \in 0..Len(failures) :
        recent = SubSeq(failures, k + 1, Len(failures)) /\ \A i \in 1..k : failures[i] > Window
  BY DEF LogInv, DroppedIsOld
<1> DEFINE all == Append(failures, 0)
           log == Append(recent, 0)
<1>2. /\ failures \in Seq(Ages) /\ recent \in Seq(Ages) /\ 0 \in Ages
      /\ all \in Seq(Ages) /\ log \in Seq(Ages)
      /\ Len(all) = Len(failures) + 1 /\ all[Len(failures) + 1] = 0
      /\ \A i \in 1..Len(failures) : all[i] = failures[i]
  BY TimersAssumption DEF LogInv, Ages
<1>3. failures' = all /\ recent' = Pruned(log) /\ total' = total + 1
  BY DEF RecordFailure
<1>4. log = SubSeq(all, k + 1, Len(all))
  <2>1. \A i \in k + 1..Len(failures) : failures[i] \in Ages
    BY <1>2
  <2>2. Len(recent) = Len(failures) - k /\ \A i \in 1..Len(recent) : recent[i] = failures[k + i]
    BY <1>1, <1>2, <2>1, SubSeqProperties
  <2>3. /\ Len(log) = (Len(failures) - k) + 1 /\ log[(Len(failures) - k) + 1] = 0
        /\ \A i \in 1..Len(recent) : log[i] = recent[i]
    BY <1>2, <2>2
  <2>4. \A i \in k + 1..Len(all) : all[i] \in Ages
    BY <1>2
  <2> DEFINE two == SubSeq(all, k + 1, Len(all))
  <2>5. /\ two \in Seq(Ages) /\ Len(two) = (Len(failures) + 1) - k
        /\ \A i \in 1..(Len(failures) + 1) - k : two[i] = all[k + i]
    BY <1>2, <2>4, SubSeqProperties
  <2>6. Len(log) = Len(two)
    BY <1>2, <2>3, <2>5
  <2>7. \A i \in 1..Len(log) : log[i] = two[i]
    <3> SUFFICES ASSUME NEW i \in 1..Len(log) PROVE log[i] = two[i]
      OBVIOUS
    <3>1. CASE i <= Len(failures) - k
      BY <1>2, <2>2, <2>3, <2>5, <3>1
    <3>2. CASE i = (Len(failures) - k) + 1
      <4>1. k + i = Len(failures) + 1
        BY <1>2, <3>2
      <4> QED
        BY <1>2, <2>3, <2>5, <2>6, <3>2, <4>1
    <3> QED
      BY <1>2, <2>3, <3>1, <3>2
  <2> HIDE DEF two, all, log
  <2> QED
    BY <1>2, <2>5, <2>6, <2>7, SeqEqual
<1>5. \A i \in 1..k : all[i] > Window
  BY <1>1, <1>2
<1>6. k \in 0..Len(all)
  BY <1>2
<1>7. DroppedIsOld'
  <2> HIDE DEF all, log
  <2>1. PICK l \in 0..Len(all) :
          /\ Pruned(SubSeq(all, k + 1, Len(all))) = SubSeq(all, l + 1, Len(all))
          /\ \A i \in 1..l : all[i] > Window
          /\ l < Len(all) => all[l + 1] <= Window
    BY <1>2, <1>5, <1>6, PrunedLog
  <2> QED
    BY <1>3, <1>4, <2>1 DEF DroppedIsOld
<1>8. Ordered'
  <2> SUFFICES ASSUME NEW i \in 1..Len(all), NEW j \in 1..Len(all), i < j
               PROVE  all[i] >= all[j]
    BY <1>2, <1>3 DEF Ordered
  <2>1. CASE j = Len(failures) + 1
    <3>1. i \in 1..Len(failures) /\ failures[i] \in Ages
      BY <1>2, <2>1
    <3> QED
      BY <1>2, <2>1, <3>1, TimersAssumption DEF Ages
  <2>2. CASE j <= Len(failures)
    BY <1>2, <2>2 DEF LogInv, Ordered
  <2> QED
    BY <1>2, <2>1, <2>2
<1> QED
  <2> HIDE DEF all, log
  <2> QED
    BY <1>2, <1>3, <1>7, <1>8, PrunedTyped DEF LogInv

LEMMA LogCounted == ASSUME LogInv, RecentCount PROVE LogInv'
<1>1. PICK k \in 0..Len(failures) :
        recent = SubSeq(failures, k + 1, Len(failures)) /\ \A i \in 1..k : failures[i] > Window
  BY DEF LogInv, DroppedIsOld
<1>2. PICK l \in 0..Len(failures) :
        /\ Pruned(SubSeq(failures, k + 1, Len(failures))) = SubSeq(failures, l + 1, Len(failures))
        /\ \A i \in 1..l : failures[i] > Window
        /\ l < Len(failures) => failures[l + 1] <= Window
  BY <1>1, PrunedLog DEF LogInv
<1> QED
  BY <1>1, <1>2, PrunedTyped DEF LogInv, RecentCount, DroppedIsOld, Ordered

LEMMA LogAged == ASSUME LogInv, Tick PROVE LogInv'
<1>1. PICK k \in 0..Len(failures) :
        recent = SubSeq(failures, k + 1, Len(failures)) /\ \A i \in 1..k : failures[i] > Window
  BY DEF LogInv, DroppedIsOld
<1>2. \A ages \in Seq(Ages) :
        /\ Older(ages) \in Seq(Ages) /\ Len(Older(ages)) = Len(ages)
        /\ \A i \in 1..Len(ages) :
             Older(ages)[i] = IF ages[i] <= Window THEN ages[i] + 1 ELSE ages[i]
  BY TimersAssumption DEF Older, Ages
<1>3. /\ failures \in Seq(Ages) /\ recent \in Seq(Ages) /\ total = Len(failures)
      /\ failures' = Older(failures) /\ recent' = Older(recent) /\ total' = total
  BY DEF LogInv, Tick
<1>4. Ordered'
  <2> SUFFICES ASSUME NEW i \in 1..Len(failures), NEW j \in 1..Len(failures), i < j
               PROVE  Older(failures)[i] >= Older(failures)[j]
    BY <1>2, <1>3 DEF Ordered
  <2>1. failures[i] >= failures[j] /\ failures[i] \in Ages /\ failures[j] \in Ages
    BY DEF LogInv, Ordered
  <2> QED
    BY <1>2, <1>3, <2>1, TimersAssumption DEF Ages
<1>5. DroppedIsOld'
  <2> DEFINE all == Older(failures)
             two == SubSeq(all, k + 1, Len(all))
  <2>1. \A i \in k + 1..Len(failures) : failures[i] \in Ages
    BY <1>3
  <2>2. Len(recent) = Len(failures) - k /\ \A i \in 1..Len(recent) : recent[i] = failures[k + i]
    BY <1>1, <1>3, <2>1, SubSeqProperties
  <2>3. all \in Seq(Ages) /\ Len(all) = Len(failures) /\ \A i \in k + 1..Len(all) : all[i] \in Ages
    BY <1>2, <1>3
  <2>4. /\ two \in Seq(Ages) /\ Len(two) = Len(failures) - k
        /\ \A i \in 1..Len(failures) - k : two[i] = all[k + i]
    BY <1>3, <2>3, SubSeqProperties
  <2>5. \A i \in 1..Len(recent) : Older(recent)[i] = two[i]
    BY <1>2, <1>3, <2>2, <2>4
  <2>6. Older(recent) = two
    <3>1. Older(recent) \in Seq(Ages) /\ Len(Older(recent)) = Len(two)
      BY <1>2, <1>3, <2>2, <2>4
    <3>2. \A i \in 1..Len(Older(recent)) : Older(recent)[i] = two[i]
      BY <1>2, <1>3, <2>5
    <3> HIDE DEF two
    <3> QED
      BY <2>4, <3>1, <3>2, SeqEqual
  <2>7. \A i \in 1..k : all[i] > Window
    BY <1>1, <1>2, <1>3, TimersAssumption DEF Ages
  <2> QED
    BY <1>3, <2>3, <2>6, <2>7 DEF DroppedIsOld
<1> QED
  BY <1>2, <1>3, <1>4, <1>5 DEF LogInv

-----------------------------------------------------------------------------
(* The clipboard *)

ClipInv ==
  /\ running \in BOOLEAN /\ clipboard \in Texts \union {Empty}
  /\ owner \in Slots \union {User, Nobody}
  /\ threads \in [Slots -> Threads \union {Nobody}] /\ missed \in BOOLEAN
  /\ SomeoneClears /\ ReadIsTrue /\ OwnedIsText

LEMMA ThreadTyped ==
  ASSUME ClipInv, NEW s \in Slots, threads[s] # Nobody
  PROVE  /\ threads[s] \in Threads /\ threads[s].at \in {"sleep", "clear"}
         /\ threads[s].left \in 0..Delay /\ threads[s].stale \in BOOLEAN /\ threads[s].text \in Texts
         /\ [threads[s] EXCEPT !.stale = TRUE] \in Threads
         /\ [threads[s] EXCEPT !.at = "clear"] \in Threads
         /\ threads[s].left > 0 => [threads[s] EXCEPT !.left = @ - 1] \in Threads
<1>1. threads[s] \in Threads
  BY DEF ClipInv
<1>2. ASSUME NEW th \in Threads
      PROVE  /\ th.at \in {"sleep", "clear"}
             /\ th.left \in 0..Delay /\ th.stale \in BOOLEAN /\ th.text \in Texts
             /\ [th EXCEPT !.stale = TRUE] \in Threads /\ [th EXCEPT !.at = "clear"] \in Threads
  BY DEF Threads
<1>3. threads[s].left > 0 => [threads[s] EXCEPT !.left = @ - 1] \in Threads
  BY <1>1, TimersAssumption DEF Threads
<1> QED
  BY <1>1, <1>2, <1>3

(* A write marks the threads that are about to clear, and no others. *)
LEMMA OutdatedThreads ==
  ASSUME ClipInv
  PROVE  /\ Outdated \in [Slots -> Threads \union {Nobody}]
         /\ \A s \in Slots :
              /\ Outdated[s] = Nobody <=> threads[s] = Nobody
              /\ threads[s] # Nobody =>
                   /\ Outdated[s].text = threads[s].text /\ Outdated[s].at = threads[s].at
                   /\ Outdated[s].at = "clear" => Outdated[s].stale
<1>1. ASSUME NEW s \in Slots
      PROVE  /\ Outdated[s] \in Threads \union {Nobody}
             /\ Outdated[s] = Nobody <=> threads[s] = Nobody
             /\ threads[s] # Nobody =>
                  /\ Outdated[s].text = threads[s].text /\ Outdated[s].at = threads[s].at
                  /\ Outdated[s].at = "clear" => Outdated[s].stale
  <2>1. CASE threads[s] = Nobody
    BY <2>1 DEF Outdated, At
  <2>2. CASE threads[s] # Nobody /\ threads[s].at = "sleep"
    BY <2>2, ThreadTyped, TimersAssumption DEF Outdated, At
  <2>3. CASE threads[s] # Nobody /\ threads[s].at = "clear"
    <3>1. Outdated[s] = [threads[s] EXCEPT !.stale = TRUE] /\ threads[s] \in Threads
      BY <2>3, ThreadTyped DEF Outdated, At
    <3>2. /\ Outdated[s].text = threads[s].text /\ Outdated[s].at = threads[s].at
          /\ Outdated[s].stale /\ Outdated[s] \in Threads
      BY <2>3, <3>1, ThreadTyped DEF Threads
    <3> QED
      BY <2>3, <3>2, TimersAssumption
  <2> QED
    BY <2>1, <2>2, <2>3, ThreadTyped
<1>2. Outdated = [s \in Slots |-> Outdated[s]]
  BY DEF Outdated
<1> QED
  BY <1>1, <1>2

LEMMA ClipStep == ASSUME ClipInv, [Next]_vars PROVE ClipInv'
<1>1. ASSUME NEW s \in Slots, NEW text \in Texts, CopyToClipboard(s, text) PROVE ClipInv'
  <2> DEFINE new == [at |-> "sleep", left |-> Delay, stale |-> FALSE, text |-> text]
  <2>1. new \in Threads /\ new.at = "sleep" /\ new.text = text
    BY TimersAssumption DEF Threads
  <2>2. /\ running' = running /\ clipboard' = text /\ owner' = s /\ missed' = FALSE
        /\ threads' = [Outdated EXCEPT ![s] = new]
    BY <1>1 DEF CopyToClipboard
  <2> HIDE DEF new
  <2>3. /\ threads' \in [Slots -> Threads \union {Nobody}] /\ threads'[s] = new
        /\ \A u \in Slots : u # s => threads'[u] = Outdated[u]
    BY <2>1, <2>2, OutdatedThreads
  <2>4. SomeoneClears' /\ OwnedIsText'
    BY <2>1, <2>2, <2>3, TimersAssumption DEF SomeoneClears, OwnedIsText
  <2>5. ReadIsTrue'
    BY <2>1, <2>3, OutdatedThreads DEF ReadIsTrue, At
  <2> QED
    BY <2>2, <2>3, <2>4, <2>5 DEF ClipInv
<1>2. ASSUME NEW text \in Texts, UserCopies(text) PROVE ClipInv'
  <2>1. ReadIsTrue'
    BY <1>2, OutdatedThreads DEF ReadIsTrue, At, UserCopies
  <2> QED
    BY <1>2, <2>1, OutdatedThreads, TimersAssumption
    DEF ClipInv, UserCopies, SomeoneClears, OwnedIsText
<1>3. ASSUME NEW s \in Slots, Read(s) PROVE ClipInv'
  <2>1. /\ UNCHANGED <<running, clipboard, owner, missed>> /\ threads[s] # Nobody
    BY <1>3 DEF Read, At
  <2>2. CASE clipboard = threads[s].text
    <3>1. threads' = [threads EXCEPT ![s].at = "clear"]
      BY <1>3, <2>2 DEF Read
    <3>2. /\ threads' \in [Slots -> Threads \union {Nobody}]
          /\ threads'[s] # Nobody /\ threads'[s].text = threads[s].text
          /\ \A u \in Slots : u # s => threads'[u] = threads[u]
      BY <2>1, <3>1, ThreadTyped, TimersAssumption DEF ClipInv, Threads
    <3>3. SomeoneClears'
      BY <2>1, <3>2 DEF ClipInv, SomeoneClears
    <3>4. ReadIsTrue'
      BY <2>1, <2>2, <3>2 DEF ClipInv, ReadIsTrue, At
    <3> QED
      BY <2>1, <3>2, <3>3, <3>4 DEF ClipInv, OwnedIsText
  <2>3. CASE clipboard # threads[s].text
    <3>1. threads' = [threads EXCEPT ![s] = Nobody]
      BY <1>3, <2>3 DEF Read, Ends
    <3>2. /\ threads' \in [Slots -> Threads \union {Nobody}] /\ threads'[s] = Nobody
          /\ \A u \in Slots : u # s => threads'[u] = threads[u]
      BY <3>1 DEF ClipInv
    <3>3. SomeoneClears'
      BY <2>1, <2>3, <3>2 DEF ClipInv, SomeoneClears
    <3>4. ReadIsTrue'
      BY <2>1, <3>2 DEF ClipInv, ReadIsTrue, At
    <3> QED
      BY <2>1, <3>2, <3>3, <3>4 DEF ClipInv, OwnedIsText
  <2> QED
    BY <2>2, <2>3
<1>4. ASSUME NEW s \in Slots, Clear(s) PROVE ClipInv'
  <2>1. /\ running' = running /\ missed' = missed /\ clipboard' = Empty /\ owner' = Nobody
        /\ threads' = [u \in Slots |-> IF u = s THEN Nobody ELSE Outdated[u]]
    BY <1>4 DEF Clear
  <2>2. ReadIsTrue'
    BY <2>1, OutdatedThreads DEF ReadIsTrue, At
  <2> QED
    BY <2>1, <2>2, OutdatedThreads, TimersAssumption DEF ClipInv, SomeoneClears, OwnedIsText
<1>5. ASSUME NEW s \in Slots, GivesUp(s) PROVE ClipInv'
  <2>1. /\ UNCHANGED <<running, clipboard, owner>> /\ missed' = TRUE
        /\ threads' = [threads EXCEPT ![s] = Nobody]
    BY <1>5 DEF GivesUp, Ends
  <2>2. ReadIsTrue'
    BY <2>1 DEF ClipInv, ReadIsTrue, At
  <2> QED
    BY <2>1, <2>2 DEF ClipInv, SomeoneClears, OwnedIsText
<1>6. ASSUME Tick PROVE ClipInv'
  <2>1. /\ UNCHANGED <<running, clipboard, owner, missed>>
        /\ threads' = [s \in Slots |->
             IF Waits(s) THEN [threads[s] EXCEPT !.left = @ - 1] ELSE threads[s]]
    BY <1>6 DEF Tick
  <2>2. ASSUME NEW s \in Slots
        PROVE  /\ threads'[s] \in Threads \union {Nobody}
               /\ threads'[s] = Nobody <=> threads[s] = Nobody
               /\ threads[s] # Nobody =>
                    /\ threads'[s].text = threads[s].text /\ threads'[s].at = threads[s].at
                    /\ threads'[s].stale = threads[s].stale
    <3>1. CASE Waits(s)
      <4>1. threads[s] \in Threads /\ threads'[s] = [threads[s] EXCEPT !.left = @ - 1]
            /\ threads'[s] \in Threads
        BY <2>1, <3>1, ThreadTyped DEF Waits, At
      <4> QED
        BY <3>1, <4>1, TimersAssumption DEF Waits, At, Threads
    <3>2. CASE ~Waits(s)
      BY <2>1, <3>2 DEF ClipInv
    <3> QED
      BY <3>1, <3>2
  <2>3. threads' \in [Slots -> Threads \union {Nobody}]
    BY <2>1, <2>2
  <2>4. SomeoneClears' /\ ReadIsTrue'
    BY <2>1, <2>2 DEF ClipInv, SomeoneClears, ReadIsTrue, At
  <2> QED
    BY <2>1, <2>3, <2>4 DEF ClipInv, OwnedIsText
<1>7. ASSUME Quit PROVE ClipInv'
  BY <1>7 DEF ClipInv, Quit, SomeoneClears, ReadIsTrue, OwnedIsText, At
<1>8. ASSUME UNCHANGED clipboardVars, running' \in BOOLEAN PROVE ClipInv'
  BY <1>8 DEF ClipInv, clipboardVars, SomeoneClears, ReadIsTrue, OwnedIsText, At
<1>9. CASE RecordFailure \/ RecentCount \/ Start \/ UNCHANGED vars
  <2>1. UNCHANGED clipboardVars /\ running' \in BOOLEAN
    BY <1>9 DEF ClipInv, RecordFailure, RecentCount, Start, vars
  <2> QED
    BY <1>8, <2>1
<1> QED
  BY <1>1, <1>2, <1>3, <1>4, <1>5, <1>6, <1>7, <1>9 DEF Next, Wakes

LEMMA LogStep == ASSUME LogInv, [Next]_vars PROVE LogInv'
<1>1. ASSUME UNCHANGED logVars PROVE LogInv'
  BY <1>1 DEF LogInv, logVars, DroppedIsOld, Ordered
<1>2. CASE \E s \in Slots, text \in Texts : CopyToClipboard(s, text)
  BY <1>1, <1>2 DEF CopyToClipboard
<1>3. CASE \E text \in Texts : UserCopies(text)
  BY <1>1, <1>3 DEF UserCopies
<1>4. CASE \E s \in Slots : Wakes(s)
  BY <1>1, <1>4 DEF Wakes, Read, Clear, GivesUp
<1>5. CASE Quit
  BY <1>5 DEF Quit, LogInv, DroppedIsOld, Ordered
<1>6. CASE Start \/ UNCHANGED vars
  BY <1>1, <1>6 DEF Start, vars
<1> QED
  BY <1>2, <1>3, <1>4, <1>5, <1>6, LogRecorded, LogCounted, LogAged DEF Next

LEMMA InvariantParts == IInv <=> ClipInv /\ LogInv
BY DEF IInv, ClipInv, LogInv, TypeOK, Ages

-----------------------------------------------------------------------------
(* The inductive invariant holds, for any texts, threads, delay and window. *)
THEOREM InvariantHolds == Spec => []IInv
<1>1. Init => IInv
  <2> SUFFICES ASSUME Init PROVE ClipInv /\ LogInv
    BY InvariantParts
  <2>1. ClipInv
    BY TimersAssumption DEF Init, ClipInv, SomeoneClears, ReadIsTrue, OwnedIsText, At
  <2> QED
    BY <2>1 DEF Init, LogInv, DroppedIsOld, Ordered
<1>2. IInv /\ [Next]_vars => IInv'
  <2> SUFFICES ASSUME IInv, [Next]_vars PROVE IInv'
    OBVIOUS
  <2>1. ClipInv' /\ LogInv'
    BY InvariantParts, ClipStep, LogStep
  <2> QED
    BY <2>1 DEF IInv, ClipInv, LogInv, TypeOK, Ages
<1> QED
  BY <1>1, <1>2, PTL DEF Spec

(* The types. *)
THEOREM TypeCorrect == Spec => []TypeOK
<1>1. IInv => TypeOK
  BY DEF IInv
<1> QED
  BY <1>1, InvariantHolds, PTL

(* A copied password has a thread that will take it off the clipboard. *)
THEOREM SomeoneDoesClear == Spec => []SomeoneClears
<1>1. IInv => SomeoneClears
  BY DEF IInv
<1> QED
  BY <1>1, InvariantHolds, PTL

(* The log shows the failures of the window, and those only. *)
THEOREM LogIsExact == Spec => []RecentIsExact
<1>1. IInv => RecentIsExact
  <2> SUFFICES ASSUME LogInv PROVE RecentIsExact
    BY InvariantParts
  <2>1. PICK k \in 0..Len(failures) :
          recent = SubSeq(failures, k + 1, Len(failures)) /\ \A i \in 1..k : failures[i] > Window
    BY DEF LogInv, DroppedIsOld
  <2>2. PICK l \in 0..Len(failures) :
          /\ Pruned(SubSeq(failures, k + 1, Len(failures))) = SubSeq(failures, l + 1, Len(failures))
          /\ \A i \in 1..l : failures[i] > Window
          /\ l < Len(failures) => failures[l + 1] <= Window
    BY <2>1, PrunedLog DEF LogInv
  <2>3. \A i \in DOMAIN failures : failures[i] \in Ages /\ (failures[i] <= Window <=> i > l)
    <3> SUFFICES ASSUME NEW i \in 1..Len(failures)
                 PROVE  failures[i] \in Ages /\ (failures[i] <= Window <=> i > l)
      BY DEF LogInv
    <3>1. failures[i] \in Ages
      BY DEF LogInv
    <3>2. CASE i <= l
      BY <2>2, <3>1, <3>2, TimersAssumption DEF Ages
    <3>3. CASE i > l
      <4>1. /\ l + 1 \in 1..Len(failures) /\ failures[l + 1] <= Window
            /\ failures[l + 1] \in Ages
        BY <2>2, <3>3 DEF LogInv
      <4> DEFINE first == l + 1
      <4>2. failures[first] >= failures[i]
        <5>1. first \in DOMAIN failures /\ i \in DOMAIN failures /\ (first < i \/ first = i)
          BY <3>3, <4>1 DEF LogInv
        <5>2. failures[first] \in Nat
          BY <4>1, TimersAssumption DEF Ages
        <5> HIDE DEF first
        <5> QED
          BY <5>1, <5>2 DEF LogInv, Ordered
      <4> QED
        BY <3>1, <3>3, <4>1, <4>2, TimersAssumption DEF Ages
    <3> QED
      BY <3>2, <3>3
  <2> QED
    BY <2>1, <2>2, <2>3 DEF RecentIsExact, LogInv
<1> QED
  BY <1>1, InvariantHolds, PTL

(* A clear takes off another's text only if it is the same, or newer than the read. *)
THEOREM ClearsOwnText == Spec => ClobbersOnlySame
<1> DEFINE A == [\A s \in Slots : Takes(s) /\ clipboard # Empty =>
                   clipboard = threads[s].text \/ threads[s].stale]_vars
<1>1. IInv => A
  BY DEF IInv, ReadIsTrue, Takes
<1> QED
  BY <1>1, InvariantHolds, PTL DEF ClobbersOnlySame

=============================================================================
