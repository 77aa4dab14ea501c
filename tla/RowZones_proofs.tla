--------------------------- MODULE RowZones_proofs ---------------------------
(***************************************************************************)
(* Proofs about RowZones, for any entries, files, labels and amounts: an id *)
(* that the page kept means the row it was drawn for, what a command said   *)
(* it had stored is in the Shell, a total on the screen is the sum of the   *)
(* amounts that are shown, and what an import adds.  The last section is    *)
(* about EntrySearch, the search that store.rs makes over such rows.        *)
(***************************************************************************)
EXTENDS RowZones, EntrySearch, FiniteSetTheorems, SequenceTheorems, TLAPS

(* A set of numbers has a least one: what proofs by induction start from. *)
LEMMA Least ==
  ASSUME NEW T \in SUBSET Nat, T # {}
  PROVE  \E m \in T : \A k \in T : m <= k
<1>1. \E m \in T : \A k \in T : <<k, m>> \notin OpToRel(<, Nat)
  BY NatLessThanWellFounded, WFMin, Zenon
<1>2. PICK m \in T : \A k \in T : ~ (k < m)
  BY <1>1, Zenon DEF OpToRel
<1> QED
  BY <1>2

-----------------------------------------------------------------------------
(* Imports *)

KeptSoFar(entries, last, s) ==
  s = [n \in 0..last |->
         IF n = 0 THEN <<>>
         ELSE IF HasTitle(entries[n]) THEN Append(s[n - 1], entries[n])
         ELSE s[n - 1]]

(* The equation of Titled has a solution, however long the file. *)
LEMMA KeptExists ==
  ASSUME NEW entries, NEW last \in Nat
  PROVE  \E s : KeptSoFar(entries, last, s)
<1> DEFINE T == {m \in Nat : ~ \E s : KeptSoFar(entries, m, s)}
<1> SUFFICES ASSUME T # {} PROVE FALSE
  OBVIOUS
<1>1. PICK m \in T : \A k \in T : m <= k
  <2>1. T \subseteq Nat
    OBVIOUS
  <2> HIDE DEF T
  <2> QED
    BY <2>1, Least
<1>2. CASE m = 0
  <2> DEFINE s == [n \in 0..0 |-> <<>>]
  <2>1. KeptSoFar(entries, 0, s)
    BY DEF KeptSoFar
  <2> QED
    BY <1>2, <2>1
<1>3. CASE m # 0
  <2>1. m - 1 \in Nat /\ m - 1 \notin T
    BY <1>1, <1>3
  <2>2. PICK b : KeptSoFar(entries, m - 1, b)
    BY <2>1
  <2> DEFINE step(f, n) == IF n = 0 THEN <<>>
                           ELSE IF HasTitle(entries[n]) THEN Append(f[n - 1], entries[n])
                           ELSE f[n - 1]
             s == [n \in 0..m |-> step(b, n)]
  <2>3. \A n \in 0..m-1 : b[n] = step(b, n)
    BY <2>2 DEF KeptSoFar
  <2>4. \A n \in 0..m-1 : s[n] = b[n]
    <3> HIDE DEF step
    <3> QED
      BY <2>1, <2>3
  <2>5. \A n \in 0..m : s[n] = step(s, n)
    <3> TAKE n \in 0..m
    <3>1. s[n] = step(b, n)
      OBVIOUS
    <3>2. n # 0 => s[n - 1] = b[n - 1]
      <4>1. n # 0 => n - 1 \in 0..m-1
        BY <2>1
      <4> HIDE DEF s
      <4> QED
        BY <2>4, <4>1
    <3> HIDE DEF s
    <3> QED
      BY <3>1, <3>2
  <2>6. s = [n \in 0..m |-> step(s, n)]
    <3>1. s = [n \in 0..m |-> s[n]]
      OBVIOUS
    <3> HIDE DEF s, step
    <3> QED
      BY <2>5, <3>1
  <2>7. KeptSoFar(entries, m, s)
    <3> HIDE DEF s
    <3> QED
      BY <2>6 DEF KeptSoFar
  <2> QED
    BY <2>7
<1> QED
  BY <1>2, <1>3

(* The loop of an import, pass by pass. *)
LEMMA TitledLoop ==
  ASSUME NEW entries, Len(entries) \in Nat
  PROVE  \E added :
           /\ added[0] = <<>> /\ Titled(entries) = added[Len(entries)]
           /\ \A n \in 1..Len(entries) :
                added[n] = IF HasTitle(entries[n]) THEN Append(added[n - 1], entries[n])
                           ELSE added[n - 1]
<1> DEFINE added == CHOOSE s : KeptSoFar(entries, Len(entries), s)
<1>1. KeptSoFar(entries, Len(entries), added)
  BY KeptExists
<1>2. Titled(entries) = added[Len(entries)]
  BY DEF Titled, KeptSoFar
<1> HIDE DEF added
<1>3. added[0] = <<>>
  BY <1>1 DEF KeptSoFar
<1>4. ASSUME NEW n \in 1..Len(entries)
      PROVE  added[n] = IF HasTitle(entries[n]) THEN Append(added[n - 1], entries[n])
                        ELSE added[n - 1]
  <2>1. n \in 0..Len(entries) /\ n # 0
    OBVIOUS
  <2> QED
    BY <1>1, <2>1 DEF KeptSoFar
<1> QED
  BY <1>2, <1>3, <1>4

LEMMA RangeOfAppend ==
  ASSUME NEW S, NEW s \in Seq(S), NEW e \in S
  PROVE  Append(s, e) \in Seq(S) /\ Range(Append(s, e)) = Range(s) \union {e}
<1> DEFINE t == Append(s, e)
<1>1. t \in Seq(S) /\ Len(t) = Len(s) + 1 /\ t[Len(t)] = e
  OBVIOUS
<1>2. \A i \in 1..Len(s) : t[i] = s[i]
  OBVIOUS
<1>3. DOMAIN t = 1..Len(t) /\ DOMAIN s = 1..Len(s)
  BY <1>1
<1> HIDE DEF t
<1>4. \A i \in DOMAIN t : i \in DOMAIN s \/ i = Len(t)
  BY <1>1, <1>3
<1>5. Len(t) \in DOMAIN t /\ DOMAIN s \subseteq DOMAIN t
  BY <1>1, <1>3
<1> QED
  BY <1>1, <1>2, <1>3, <1>4, <1>5 DEF Range, t

(* It adds the entries that have a title, and no others. *)
LEMMA TitledExactly ==
  ASSUME NEW entries \in Seq(NewEntry)
  PROVE  /\ Titled(entries) \in Seq(NewEntry)
         /\ Range(Titled(entries)) = {e \in Range(entries) : HasTitle(e)}
<1> DEFINE N == Len(entries)
           Found1(n) == {e \in NewEntry : HasTitle(e) /\ \E i \in 1..n : e = entries[i]}
<1>1. PICK added :
        /\ added[0] = <<>> /\ Titled(entries) = added[N]
        /\ \A n \in 1..N :
             added[n] = IF HasTitle(entries[n]) THEN Append(added[n - 1], entries[n])
                        ELSE added[n - 1]
  BY TitledLoop
<1> DEFINE Right(n) == added[n] \in Seq(NewEntry) /\ Range(added[n]) = Found1(n)
           T == {n \in 0..N : ~Right(n)}
<1>2. T = {}
  <2> SUFFICES ASSUME T # {} PROVE FALSE
    OBVIOUS
  <2>1. PICK m \in T : \A k \in T : m <= k
    <3>1. T \subseteq Nat
      OBVIOUS
    <3> HIDE DEF T
    <3> QED
      BY <3>1, Least
  <2>2. m # 0
    <3>1. <<>> \in Seq(NewEntry) /\ Range(<<>>) = {}
      BY DEF Range
    <3>2. Found1(0) = {}
      OBVIOUS
    <3> QED
      BY <1>1, <2>1, <3>1, <3>2
  <2>3. m \in 1..N /\ m - 1 \in 0..N /\ ~ (m <= m - 1)
    BY <2>1, <2>2
  <2>4. m - 1 \notin T
    <3> HIDE DEF T
    <3> QED
      BY <2>1, <2>3
  <2>5. Right(m - 1)
    BY <2>3, <2>4
  <2>6. entries[m] \in NewEntry
    BY <2>3
  <2>7. \A i : i \in 1..m <=> i \in 1..m-1 \/ i = m
    BY <2>3
  <2>8. CASE HasTitle(entries[m])
    <3>1. added[m] = Append(added[m - 1], entries[m])
      BY <1>1, <2>3, <2>8
    <3>2. added[m] \in Seq(NewEntry) /\ Range(added[m]) = Range(added[m - 1]) \union {entries[m]}
      BY <2>5, <2>6, <3>1, RangeOfAppend
    <3>3. Found1(m) = Found1(m - 1) \union {entries[m]}
      BY <2>6, <2>7, <2>8
    <3> QED
      BY <2>1, <2>5, <3>2, <3>3
  <2>9. CASE ~HasTitle(entries[m])
    <3>1. added[m] = added[m - 1]
      BY <1>1, <2>3, <2>9
    <3>2. Found1(m) = Found1(m - 1)
      BY <2>7, <2>9
    <3> QED
      BY <2>1, <2>5, <3>1, <3>2
  <2> QED
    BY <2>8, <2>9
<1>3. Right(N)
  <2>1. N \in 0..N
    OBVIOUS
  <2> HIDE DEF Right
  <2> QED
    BY <1>2, <2>1
<1>4. Found1(N) = {e \in Range(entries) : HasTitle(e)}
  BY DEF Range
<1> QED
  BY <1>1, <1>3, <1>4

(* Where every entry has one, nothing is left out and the order stays. *)
LEMMA TitledAll ==
  ASSUME NEW entries \in Seq(NewEntry), \A i \in 1..Len(entries) : HasTitle(entries[i])
  PROVE  Titled(entries) = entries
<1> DEFINE N == Len(entries)
<1>1. PICK added :
        /\ added[0] = <<>> /\ Titled(entries) = added[N]
        /\ \A n \in 1..N :
             added[n] = IF HasTitle(entries[n]) THEN Append(added[n - 1], entries[n])
                        ELSE added[n - 1]
  BY TitledLoop
<1> DEFINE Right(n) == /\ added[n] \in Seq(NewEntry) /\ Len(added[n]) = n
                       /\ \A i \in 1..n : added[n][i] = entries[i]
           T == {n \in 0..N : ~Right(n)}
<1>2. T = {}
  <2> SUFFICES ASSUME T # {} PROVE FALSE
    OBVIOUS
  <2>1. PICK m \in T : \A k \in T : m <= k
    <3>1. T \subseteq Nat
      OBVIOUS
    <3> HIDE DEF T
    <3> QED
      BY <3>1, Least
  <2>2. m # 0
    <3>1. Right(0)
      <4>1. <<>> \in Seq(NewEntry) /\ Len(<<>>) = 0
        OBVIOUS
      <4> QED
        BY <1>1, <4>1
    <3> HIDE DEF Right
    <3> QED
      BY <2>1, <3>1
  <2>3. m \in 1..N /\ m - 1 \in 0..N /\ ~ (m <= m - 1)
    BY <2>1, <2>2
  <2>4. m - 1 \notin T
    <3> HIDE DEF T
    <3> QED
      BY <2>1, <2>3
  <2>5. Right(m - 1)
    BY <2>3, <2>4
  <2>6. added[m] = Append(added[m - 1], entries[m]) /\ entries[m] \in NewEntry
    <3>1. entries[m] \in NewEntry /\ HasTitle(entries[m])
      BY <2>3
    <3> HIDE DEF N
    <3> QED
      BY <1>1, <2>3, <3>1
  <2>7. Right(m)
    BY <2>3, <2>5, <2>6
  <2> QED
    BY <2>1, <2>7
<1>3. Right(N)
  <2>1. N \in 0..N
    OBVIOUS
  <2> HIDE DEF Right
  <2> QED
    BY <1>2, <2>1
<1> QED
  BY <1>1, <1>3

(* The rows that import_csv comes to: all before the first that is refused. *)
LEMMA ReadableRows ==
  ASSUME NEW file \in Seq(NewEntry \union {BadRow})
  PROVE  /\ Readable(file) \in Seq(NewEntry)
         /\ Len(Readable(file)) <= Len(file)
         /\ \A i \in 1..Len(Readable(file)) : Readable(file)[i] = file[i]
         /\ \A i \in 1..Len(file) :
              i <= Len(Readable(file)) <=> \A j \in 1..i : file[j] # BadRow
<1> DEFINE N == Len(file)
           good == {n \in 0..N : \A i \in 1..n : file[i] # BadRow}
           last == CHOOSE n \in good : \A m \in good : m <= n
<1>1. \E n \in good : \A m \in good : m <= n
  <2> DEFINE T == {N - n : n \in good}
  <2>1. N \in Nat /\ 0 \in good
    OBVIOUS
  <2>2. T \subseteq Nat /\ T # {}
    <3>1. N - 0 \in T
      BY <2>1
    <3> QED
      BY <2>1, <3>1
  <2>3. PICK k \in T : \A l \in T : k <= l
    <3> HIDE DEF T
    <3> QED
      BY <2>2, Least
  <2>4. PICK n \in good : k = N - n
    BY <2>3
  <2>5. \A m \in good : N - n <= N - m
    BY <2>3, <2>4
  <2>6. \A m \in good : m <= n
    BY <2>1, <2>4, <2>5
  <2> QED
    BY <2>4, <2>6
<1>2. last \in good /\ \A m \in good : m <= last
  <2> HIDE DEF good
  <2> QED
    BY <1>1
<1>3. Readable(file) = SubSeq(file, 1, last)
  BY DEF Readable
<1> HIDE DEF last
<1>4. /\ last \in 0..N /\ \A i \in 1..last : file[i] # BadRow
      /\ \A i \in 1..last : file[i] \in NewEntry
  BY <1>2
<1>5. /\ Len(SubSeq(file, 1, last)) = last
      /\ \A i \in 1..last : SubSeq(file, 1, last)[i] = file[i]
  BY <1>4
<1>6. SubSeq(file, 1, last) \in Seq(NewEntry)
  <2>1. SubSeq(file, 1, last) = [i \in 1..last |-> file[i]]
    BY <1>4
  <2>2. [i \in 1..last |-> file[i]] \in [1..last -> NewEntry]
    BY <1>4
  <2> QED
    BY <1>4, <2>1, <2>2
<1>7. ASSUME NEW i \in 1..N PROVE i <= last <=> \A j \in 1..i : file[j] # BadRow
  <2>1. ASSUME \A j \in 1..i : file[j] # BadRow PROVE i <= last
    BY <1>2, <2>1
  <2> QED
    BY <1>4, <2>1
<1> QED
  BY <1>3, <1>4, <1>5, <1>6, <1>7

LEMMA EntriesTyped ==
  /\ \A row \in NewEntry : CsvEntry(row) \in NewEntry
  /\ \A entry \in NewEntry : KdbxEntry(entry) \in NewEntry
<1>1. ASSUME NEW row \in NewEntry PROVE CsvEntry(row) \in NewEntry
  BY DEF CsvEntry, NewEntry, Trim, Fields
<1>2. ASSUME NEW entry \in NewEntry PROVE KdbxEntry(entry) \in NewEntry
  BY DEF KdbxEntry, NewEntry
<1> QED
  BY <1>1, <1>2


(* What a CSV file is worth: of the rows before the first that the csv crate *)
(* refuses, exactly those with a title, a URL or a user name.               *)
THEOREM CsvImportsWhatIsNamed ==
  ASSUME NEW file \in CsvFiles
  PROVE  LET before == {i \in 1..Len(file) : \A j \in 1..i : file[j] # BadRow}
         IN  /\ CsvEntries(file) \in Seq(NewEntry)
             /\ Range(CsvEntries(file)) =
                  {CsvEntry(file[i]) : i \in
                     {i \in before : ~({file[i].title, file[i].url, file[i].username}
                                         \subseteq {NoText, Blank})}}
<1> DEFINE before == {i \in 1..Len(file) : \A j \in 1..i : file[j] # BadRow}
           good == Readable(file)
           entries == [i \in 1..Len(good) |-> CsvEntry(good[i])]
<1>1. file \in Seq(NewEntry \union {BadRow})
  BY RowsAssumption
<1>2. /\ good \in Seq(NewEntry) /\ Len(good) <= Len(file)
      /\ \A i \in 1..Len(good) : good[i] = file[i]
      /\ \A i \in 1..Len(file) : i <= Len(good) <=> \A j \in 1..i : file[j] # BadRow
  BY <1>1, ReadableRows
<1>3. before = 1..Len(good)
  <2> HIDE DEF good
  <2>1. Len(good) \in Nat /\ Len(file) \in Nat
    BY <1>1, <1>2
  <2> QED
    BY <1>2, <2>1
<1>4. /\ entries \in Seq(NewEntry) /\ Range(entries) = {CsvEntry(file[i]) : i \in before}
  <2> DEFINE f == [i \in 1..Len(good) |-> CsvEntry(file[i])]
  <2>1. entries = f
    BY <1>2
  <2>2. \A i \in 1..Len(good) : f[i] \in NewEntry /\ file[i] \in NewEntry
    <3> HIDE DEF good
    <3> QED
      BY <1>2, EntriesTyped
  <2>3. Len(good) \in Nat
    <3> HIDE DEF good
    <3> QED
      BY <1>2
  <2>4. f \in [1..Len(good) -> NewEntry]
    BY <2>2
  <2>5. f \in Seq(NewEntry)
    BY <2>3, <2>4
  <2>6. Range(f) = {CsvEntry(file[i]) : i \in 1..Len(good)}
    BY DEF Range
  <2> QED
    BY <1>3, <2>1, <2>5, <2>6
<1>5. CsvEntries(file) = Titled(entries)
  BY DEF CsvEntries
<1>6. /\ CsvEntries(file) \in Seq(NewEntry)
      /\ Range(CsvEntries(file)) = {e \in {CsvEntry(file[i]) : i \in before} : HasTitle(e)}
  <2> HIDE DEF entries, before
  <2> QED
    BY <1>4, <1>5, TitledExactly
<1>7. ASSUME NEW i \in before
      PROVE  HasTitle(CsvEntry(file[i])) <=>
               ~({file[i].title, file[i].url, file[i].username} \subseteq {NoText, Blank})
  <2>1. file[i] \in NewEntry
    <3> HIDE DEF good, before
    <3> QED
      BY <1>2, <1>3
  <2> QED
    BY <2>1, RowsAssumption DEF HasTitle, CsvEntry, NewEntry, Trim, Fields, NoText, Blank
<1> QED
  <2> HIDE DEF before
  <2>1. Range(CsvEntries(file)) =
          {CsvEntry(file[i]) : i \in
             {i \in before : ~({file[i].title, file[i].url, file[i].username}
                                 \subseteq {NoText, Blank})}}
    BY <1>6, <1>7
  <2> QED
    BY <1>6, <2>1 DEF before

LEMMA CsvEntriesNamed ==
  ASSUME NEW file \in CsvFiles
  PROVE  \A e \in Range(CsvEntries(file)) : HasTitle(e)
<1> DEFINE good == Readable(file)
           entries == [i \in 1..Len(good) |-> CsvEntry(good[i])]
<1>1. good \in Seq(NewEntry)
  BY RowsAssumption, ReadableRows
<1> HIDE DEF good
<1>2. entries \in [1..Len(good) -> NewEntry]
  BY <1>1, EntriesTyped
<1>3. entries \in Seq(NewEntry)
  BY <1>1, <1>2
<1>4. CsvEntries(file) = Titled(entries)
  BY DEF CsvEntries, good
<1> HIDE DEF entries
<1> QED
  BY <1>3, <1>4, TitledExactly

LEMMA KdbxImportsWhatIsNamed ==
  ASSUME NEW file \in KdbxFiles
  PROVE  /\ KdbxEntries(file) \in Seq(NewEntry)
         /\ \A e \in Range(KdbxEntries(file)) : HasTitle(e)
<1> DEFINE entries == [i \in 1..Len(file) |-> KdbxEntry(file[i])]
<1>1. file \in Seq(NewEntry)
  BY RowsAssumption
<1>2. entries \in [1..Len(file) -> NewEntry]
  BY <1>1, EntriesTyped
<1>3. entries \in Seq(NewEntry)
  BY <1>1, <1>2
<1>4. KdbxEntries(file) = Titled(entries)
  BY DEF KdbxEntries
<1> HIDE DEF entries
<1> QED
  BY <1>3, <1>4, TitledExactly

(* What export_csv writes, import_csv reads back row by row, however many     *)
(* rows, where each has a title: trimmed, and with nothing else changed.     *)
THEOREM ExportedRowsComeBack ==
  ASSUME NEW file \in Seq(NewEntry), \A i \in 1..Len(file) : Trim(file[i].title) # NoText
  PROVE  CsvEntries(file) =
           [i \in 1..Len(file) |-> [title    |-> Trim(file[i].title),
                                    url      |-> Trim(file[i].url),
                                    username |-> Trim(file[i].username)]]
<1> DEFINE N == Len(file)
           back == [i \in 1..N |-> [title    |-> Trim(file[i].title),
                                    url      |-> Trim(file[i].url),
                                    username |-> Trim(file[i].username)]]
<1>1. file \in Seq(NewEntry \union {BadRow}) /\ N \in Nat
  OBVIOUS
<1>2. \A i \in 1..N : file[i] \in NewEntry /\ file[i] # BadRow
  BY RowsAssumption
<1>3. Readable(file) = file
  <2> DEFINE R == Readable(file)
  <2>1. /\ R \in Seq(NewEntry) /\ Len(R) <= N /\ \A i \in 1..Len(R) : R[i] = file[i]
        /\ \A i \in 1..N : i <= Len(R) <=> \A j \in 1..i : file[j] # BadRow
    BY <1>1, ReadableRows
  <2> HIDE DEF R
  <2>2. Len(R) = N
    <3>1. CASE N = 0
      BY <2>1, <3>1
    <3>2. CASE N # 0
      <4>1. N \in 1..N
        BY <1>1, <3>2
      <4>2. N <= Len(R)
        BY <1>2, <2>1, <4>1
      <4> QED
        BY <1>1, <2>1, <4>2
    <3> QED
      BY <3>1, <3>2
  <2>3. R = file
    BY <2>1, <2>2
  <2> QED
    BY <2>3 DEF R
<1>4. CsvEntries(file) = Titled([i \in 1..N |-> CsvEntry(file[i])])
  BY <1>3 DEF CsvEntries
<1>5. [i \in 1..N |-> CsvEntry(file[i])] = back
  BY <1>2 DEF CsvEntry
<1>6. \A i \in 1..N : back[i] \in NewEntry /\ HasTitle(back[i])
  BY <1>2 DEF NewEntry, Trim, Fields, HasTitle
<1>7. back \in Seq(NewEntry) /\ Len(back) = N
  <2>1. back \in [1..N -> NewEntry]
    BY <1>6
  <2> QED
    BY <1>1, <2>1
<1> HIDE DEF back
<1>8. Titled(back) = back
  BY <1>6, <1>7, TitledAll
<1> QED
  BY <1>4, <1>5, <1>8 DEF back

-----------------------------------------------------------------------------
(* The invariant *)

LEMMA InvariantInit == Init => IInv
<1> SUFFICES ASSUME Init PROVE IInv
  OBVIOUS
<1>1. \A z \in Zones : /\ rows[z] = Nothing /\ savedRows[z] = Nothing /\ shown[z] = Nothing
                       /\ acked[z] = Nothing /\ seq[z] = 0 /\ savedSeq[z] = 0
  BY DEF Init
<1>2. DOMAIN Nothing = {}
  BY DEF Nothing
<1>3. TypeOK
  BY <1>1, <1>2, RowsAssumption DEF Init, TypeOK, IsTable
<1> QED
  BY <1>1, <1>2, <1>3
  DEF Init, IInv, KeptBelow, SavedAreKept, OneRowPerId, MemoryFits, AcknowledgedInMemory,
      AcknowledgedIsSaved

(* What a change of a zone's table needs: the counter does not go back, a row keeps *)
(* its tag or is under a new id, and the rows that are not among ids stay.          *)
Sound(z, table, last, ids) ==
  /\ last \in Nat /\ seq[z] <= last
  /\ DOMAIN table \subseteq 1..last
  /\ \A id \in DOMAIN table : table[id] \in [data : Data[z], tag : 1..inserts']
  /\ \A id \in DOMAIN table :
       id > seq[z] \/ (id \in DOMAIN rows[z] /\ table[id].tag = rows[z][id].tag)
  /\ \A id \in DOMAIN rows[z] : id \in DOMAIN table \/ id \in ids
  /\ \A id \in DOMAIN rows[z] : id \notin ids => table[id] = rows[z][id]

(* Such a change keeps the invariant, whether it is saved or not. *)
LEMMA MutateKeeps ==
  ASSUME IInv, NEW z \in Zones, NEW table, NEW last, NEW ids,
         Sound(z, table, last, ids), Mutates(z, table, last, ids),
         inserts' \in 0..MaxInserts, inserts <= inserts'
  PROVE  IInv'
<1> USE DEF Zones
<1>0. /\ TypeOK /\ KeptBelow /\ SavedAreKept /\ OneRowPerId /\ MemoryFits
      /\ AcknowledgedInMemory /\ AcknowledgedIsSaved
  BY DEF IInv
<1>1. /\ z \in open /\ open' = open /\ UNCHANGED page
      /\ DOMAIN rows' = Zones /\ seq' \in [Zones -> Nat]
      /\ rows'[z] = table /\ seq'[z] = last
      /\ \A y \in Zones : y # z => rows'[y] = rows[y] /\ seq'[y] = seq[y]
  BY <1>0 DEF Mutates, Changes, TypeOK, Sound
<1> HIDE DEF Zones
<1>2. ASSUME NEW y \in Zones
      PROVE  /\ DOMAIN rows'[y] \subseteq 1..seq'[y]
             /\ \A id \in DOMAIN rows'[y] : rows'[y][id] \in [data : Data[y], tag : 1..inserts']
  <2>1. /\ DOMAIN rows[y] \subseteq 1..seq[y]
        /\ \A id \in DOMAIN rows[y] : rows[y][id] \in [data : Data[y], tag : 1..inserts]
        /\ inserts \in Nat /\ inserts' \in Nat /\ 1..inserts \subseteq 1..inserts'
    BY <1>0, RowsAssumption DEF TypeOK, IsTable
  <2>2. CASE y = z
    BY <1>1, <2>2 DEF Sound
  <2>3. CASE y # z
    BY <1>1, <2>1, <2>3
  <2> QED
    BY <2>2, <2>3
<1>3. \A k \in kept : k.zone = z /\ k.id \in DOMAIN table => k.tag = table[k.id].tag
  BY <1>0, <1>1 DEF KeptBelow, MemoryFits, Sound, TypeOK
<1>4. CASE Saves(z, table, last, ids)
  <2>1. /\ DOMAIN savedRows' = Zones /\ savedSeq' \in [Zones -> Nat] /\ DOMAIN acked' = Zones
        /\ savedRows'[z] = table /\ savedSeq'[z] = last /\ acked'[z] = Stored(z, table, ids)
        /\ \A y \in Zones : y # z =>
             savedRows'[y] = savedRows[y] /\ savedSeq'[y] = savedSeq[y] /\ acked'[y] = acked[y]
        /\ kept' = kept \union {Holding(z, id, table[id].tag) : id \in DOMAIN table}
    BY <1>0, <1>4 DEF Saves, TypeOK, Sound
  <2>2. savedSeq[z] <= last
    BY <1>0, <1>1 DEF MemoryFits, Sound, TypeOK
  <2>3. \A k \in kept' : k \in kept \/ (k.zone = z /\ k.id \in DOMAIN table /\ k.tag = table[k.id].tag)
    BY <2>1 DEF Holding
  <2>4. kept' \subseteq [id : Nat, tag : Nat, zone : Zones]
    <3>1. ASSUME NEW id \in DOMAIN table
          PROVE  Holding(z, id, table[id].tag) \in [id : Nat, tag : Nat, zone : Zones]
      BY <3>1 DEF Holding, Sound
    <3> QED
      BY <1>0, <2>1, <3>1 DEF TypeOK
  <2>5. TypeOK'
    BY <1>0, <1>1, <1>2, <2>1, <2>4 DEF TypeOK, IsTable, Sound, page
  <2>6. KeptBelow'
    BY <1>0, <2>1, <2>2, <2>3 DEF KeptBelow, Sound, TypeOK
  <2>7. SavedAreKept'
    BY <1>0, <2>1 DEF SavedAreKept
  <2>8. OneRowPerId'
    BY <1>0, <1>3, <2>3 DEF OneRowPerId
  <2>9. MemoryFits'
    <3> SUFFICES ASSUME NEW y \in open'
                 PROVE  /\ savedSeq'[y] <= seq'[y]
                        /\ \A k \in kept' : k.zone = y /\ k.id \in DOMAIN rows'[y] =>
                                            k.tag = rows'[y][k.id].tag
      BY DEF MemoryFits
    <3>1. y \in open /\ y \in Zones
      BY <1>0, <1>1 DEF TypeOK
    <3>2. CASE y = z
      BY <1>1, <1>3, <2>1, <2>3, <3>2 DEF Sound
    <3>3. CASE y # z
      BY <1>0, <1>1, <2>1, <2>3, <3>1, <3>3 DEF MemoryFits
    <3> QED
      BY <3>2, <3>3
  <2>10. \A id \in DOMAIN acked'[z] : id \in DOMAIN table /\ table[id] = acked'[z][id]
    BY <1>0, <1>1, <2>1 DEF Stored, Sound, AcknowledgedInMemory
  <2>11. AcknowledgedInMemory'
    <3> SUFFICES ASSUME NEW y \in open', NEW id \in DOMAIN acked'[y]
                 PROVE  id \in DOMAIN rows'[y] /\ rows'[y][id] = acked'[y][id]
      BY DEF AcknowledgedInMemory
    <3>1. y \in open /\ y \in Zones
      BY <1>0, <1>1 DEF TypeOK
    <3>2. CASE y = z
      BY <1>1, <2>10, <3>2
    <3>3. CASE y # z
      BY <1>0, <1>1, <2>1, <3>1, <3>3 DEF AcknowledgedInMemory
    <3> QED
      BY <3>2, <3>3
  <2>12. AcknowledgedIsSaved'
    <3> SUFFICES ASSUME NEW y \in Zones, NEW id \in DOMAIN acked'[y]
                 PROVE  id \in DOMAIN savedRows'[y] /\ savedRows'[y][id] = acked'[y][id]
      BY DEF AcknowledgedIsSaved
    <3>1. CASE y = z
      BY <2>1, <2>10, <3>1
    <3>2. CASE y # z
      BY <1>0, <2>1, <3>2 DEF AcknowledgedIsSaved
    <3> QED
      BY <3>1, <3>2
  <2> QED
    BY <2>5, <2>6, <2>7, <2>8, <2>9, <2>11, <2>12 DEF IInv
<1>5. CASE Unsaved(z, ids)
  <2>1. /\ savedRows' = savedRows /\ savedSeq' = savedSeq /\ kept' = kept
        /\ DOMAIN acked' = Zones /\ acked'[z] = Without(acked[z], ids)
        /\ \A y \in Zones : y # z => acked'[y] = acked[y]
    BY <1>0, <1>5 DEF Unsaved, blob, TypeOK
  <2>2. \A id \in DOMAIN acked'[z] :
          id \in DOMAIN acked[z] /\ id \notin ids /\ acked'[z][id] = acked[z][id]
    BY <2>1 DEF Without, Restrict
  <2>3. TypeOK'
    BY <1>0, <1>1, <1>2, <2>1 DEF TypeOK, IsTable, Sound, page
  <2>4. MemoryFits'
    BY <1>0, <1>1, <1>3, <2>1 DEF MemoryFits, Sound, TypeOK
  <2>5. AcknowledgedInMemory'
    <3> SUFFICES ASSUME NEW y \in open', NEW id \in DOMAIN acked'[y]
                 PROVE  id \in DOMAIN rows'[y] /\ rows'[y][id] = acked'[y][id]
      BY DEF AcknowledgedInMemory
    <3>1. y \in open /\ y \in Zones
      BY <1>0, <1>1 DEF TypeOK
    <3>2. CASE y = z
      BY <1>0, <1>1, <2>2, <3>1, <3>2 DEF AcknowledgedInMemory, Sound
    <3>3. CASE y # z
      BY <1>0, <1>1, <2>1, <3>1, <3>3 DEF AcknowledgedInMemory
    <3> QED
      BY <3>2, <3>3
  <2>6. AcknowledgedIsSaved'
    <3> SUFFICES ASSUME NEW y \in Zones, NEW id \in DOMAIN acked'[y]
                 PROVE  id \in DOMAIN savedRows[y] /\ savedRows[y][id] = acked'[y][id]
      BY <2>1 DEF AcknowledgedIsSaved
    <3>1. CASE y = z
      BY <1>0, <2>2, <3>1 DEF AcknowledgedIsSaved
    <3>2. CASE y # z
      BY <1>0, <2>1, <3>2 DEF AcknowledgedIsSaved
    <3> QED
      BY <3>1, <3>2
  <2> QED
    BY <1>0, <2>1, <2>3, <2>4, <2>5, <2>6 DEF IInv, KeptBelow, SavedAreKept, OneRowPerId
<1> QED
  BY <1>4, <1>5 DEF Mutates

(* New rows go under ids that no row had. *)
LEMMA InsertedSound ==
  ASSUME IInv, NEW z \in open, NEW new \in Seq(Data[z]), NEW ids,
         inserts' = inserts + Len(new)
  PROVE  Sound(z, Inserted(z, new), LastId(z) + Len(new), ids)
<1>1. z \in Zones /\ inserts \in Nat /\ seq[z] \in Nat /\ Len(new) \in Nat
  BY DEF IInv, TypeOK
<1>2. /\ DOMAIN rows[z] \subseteq 1..seq[z]
      /\ \A id \in DOMAIN rows[z] : rows[z][id] \in [data : Data[z], tag : 1..inserts]
  BY <1>1 DEF IInv, TypeOK, IsTable
<1>3. NewIds(z, new) = seq[z] + 1..seq[z] + Len(new)
  BY DEF NewIds, LastId
<1>4. ASSUME NEW id \in NewIds(z, new)
      PROVE  /\ Inserted(z, new)[id] \in [data : Data[z], tag : 1..inserts + Len(new)]
             /\ id > seq[z] /\ id \in 1..seq[z] + Len(new)
  <2>1. id - seq[z] \in 1..Len(new)
    BY <1>1, <1>3
  <2>2. Inserted(z, new)[id] = [data |-> new[id - seq[z]], tag |-> inserts + (id - seq[z])]
    BY DEF Inserted, LastId
  <2> QED
    BY <1>1, <1>3, <2>1, <2>2
<1>5. ASSUME NEW id \in DOMAIN rows[z]
      PROVE  Inserted(z, new)[id] = rows[z][id] /\ id \in 1..seq[z]
  BY <1>1, <1>2, <1>3 DEF Inserted
<1>6. DOMAIN Inserted(z, new) = DOMAIN rows[z] \union NewIds(z, new)
  BY DEF Inserted
<1> QED
  BY <1>1, <1>2, <1>4, <1>5, <1>6 DEF Sound, LastId

LEMMA InsertsKeep ==
  ASSUME IInv, NEW z \in Zones, NEW new \in Seq(Data[z]), Inserts(z, new)
  PROVE  IInv'
<1>1. /\ Mutates(z, Inserted(z, new), LastId(z) + Len(new), NewIds(z, new))
      /\ z \in open /\ inserts' = inserts + Len(new) /\ inserts' <= MaxInserts
      /\ inserts \in Nat /\ Len(new) \in Nat /\ MaxInserts \in Nat
  BY RowsAssumption DEF Inserts, Mutates, Changes, IInv, TypeOK
<1>2. Sound(z, Inserted(z, new), LastId(z) + Len(new), NewIds(z, new))
  BY <1>1, InsertedSound
<1>3. inserts' \in 0..MaxInserts /\ inserts <= inserts'
  BY <1>1
<1> QED
  BY <1>1, <1>2, <1>3, MutateKeeps

LEMMA UpdatesKeep ==
  ASSUME IInv, NEW z \in Zones, NEW id, NEW data \in Data[z], Updates(z, id, data)
  PROVE  IInv'
<1> DEFINE table == [rows[z] EXCEPT ![id].data = data]
<1>1. /\ Mutates(z, table, seq[z], {id}) /\ id \in DOMAIN rows[z] /\ z \in open
      /\ inserts' = inserts /\ inserts \in 0..MaxInserts /\ MaxInserts \in Nat
  BY RowsAssumption DEF Updates, Found, Mutates, Changes, IInv, TypeOK
<1>2. /\ seq[z] \in Nat /\ DOMAIN rows[z] \subseteq 1..seq[z]
      /\ \A i \in DOMAIN rows[z] : rows[z][i] \in [data : Data[z], tag : 1..inserts]
  BY DEF IInv, TypeOK, IsTable
<1>3. /\ DOMAIN table = DOMAIN rows[z]
      /\ \A i \in DOMAIN rows[z] : i # id => table[i] = rows[z][i]
      /\ table[id] = [rows[z][id] EXCEPT !.data = data]
  BY <1>1
<1>4. table[id] \in [data : Data[z], tag : 1..inserts] /\ table[id].tag = rows[z][id].tag
  BY <1>1, <1>2, <1>3
<1> HIDE DEF table
<1>5. Sound(z, table, seq[z], {id})
  BY <1>1, <1>2, <1>3, <1>4 DEF Sound
<1> QED
  BY <1>1, <1>5, MutateKeeps

LEMMA DeletesKeep ==
  ASSUME IInv, NEW z \in Zones, NEW id, Deletes(z, id)
  PROVE  IInv'
<1>1. /\ Mutates(z, Without(rows[z], {id}), seq[z], {id}) /\ z \in open
      /\ inserts' = inserts /\ inserts \in 0..MaxInserts /\ MaxInserts \in Nat
  BY RowsAssumption DEF Deletes, Mutates, Changes, IInv, TypeOK
<1>2. /\ seq[z] \in Nat /\ DOMAIN rows[z] \subseteq 1..seq[z]
      /\ \A i \in DOMAIN rows[z] : rows[z][i] \in [data : Data[z], tag : 1..inserts]
  BY DEF IInv, TypeOK, IsTable
<1>3. Sound(z, Without(rows[z], {id}), seq[z], {id})
  BY <1>1, <1>2 DEF Sound, Without, Restrict
<1> QED
  BY <1>1, <1>3, MutateKeeps

LEMMA ImportKeeps ==
  ASSUME IInv, NEW file \in CsvFiles, ImportCsv(file)
  PROVE  IInv'
<1> DEFINE new == CsvEntries(file)
<1>1. new \in Seq(Data["accounts"]) /\ "accounts" \in Zones
  BY CsvImportsWhatIsNamed DEF Data, Zones
<1>2. CASE \A i \in DOMAIN file : file[i] # BadRow
  <2>1. Inserts("accounts", new)
    BY <1>2 DEF ImportCsv
  <2> QED
    BY <1>1, <2>1, InsertsKeep
<1>3. CASE ~ \A i \in DOMAIN file : file[i] # BadRow
  <2> DEFINE table == Inserted("accounts", new)
             last == LastId("accounts") + Len(new)
  <2>1. /\ inserts + Len(new) <= MaxInserts /\ inserts' = inserts + Len(new)
        /\ Changes("accounts", table, last) /\ Unsaved("accounts", {})
    BY <1>3 DEF ImportCsv
  <2>2. Mutates("accounts", table, last, {}) /\ "accounts" \in open
    BY <2>1 DEF Mutates, Changes
  <2>3. Sound("accounts", table, last, {})
    BY <1>1, <2>1, <2>2, InsertedSound
  <2>4. inserts' \in 0..MaxInserts /\ inserts <= inserts'
    BY <1>1, <2>1, RowsAssumption DEF IInv, TypeOK
  <2> HIDE DEF table, last, new
  <2> QED
    BY <1>1, <2>2, <2>3, <2>4, MutateKeeps
<1> QED
  BY <1>2, <1>3

LEMMA ListsKeep == ASSUME IInv, NEW z \in Zones, Lists(z) PROVE IInv'
<1>1. /\ UNCHANGED <<memory, blob, history>> /\ z \in open
      /\ shown' = [shown EXCEPT ![z] = Tags(z)]
  BY DEF Lists
<1>2. IsTable(z, rows[z], seq[z]) /\ seq[z] \in Nat
  BY DEF IInv, TypeOK
<1>3. DOMAIN Tags(z) \subseteq Nat \ {0} /\ \A id \in DOMAIN Tags(z) : Tags(z)[id] \in 1..inserts
  BY <1>2 DEF Tags, IsTable
<1>4. TypeOK'
  BY <1>1, <1>3 DEF IInv, TypeOK, IsTable, memory, blob, history
<1> QED
  BY <1>1, <1>4 DEF IInv, memory, blob, history, KeptBelow, SavedAreKept, OneRowPerId, MemoryFits,
     AcknowledgedInMemory, AcknowledgedIsSaved

LEMMA OpenZoneKeeps == ASSUME IInv, NEW z \in Zones, OpenZone(z) PROVE IInv'
<1>0. /\ TypeOK /\ KeptBelow /\ SavedAreKept /\ OneRowPerId /\ MemoryFits
      /\ AcknowledgedInMemory /\ AcknowledgedIsSaved
  BY DEF IInv
<1>1. /\ open' = open \union {z} /\ UNCHANGED <<savedRows, savedSeq, shown, inserts, kept, acked>>
      /\ DOMAIN rows' = Zones /\ seq' \in [Zones -> Nat]
      /\ rows'[z] = savedRows[z] /\ seq'[z] = savedSeq[z]
      /\ \A y \in Zones : y # z => rows'[y] = rows[y] /\ seq'[y] = seq[y]
  BY <1>0 DEF OpenZone, blob, page, history, TypeOK
<1>2. TypeOK'
  BY <1>0, <1>1 DEF TypeOK, IsTable
<1>3. MemoryFits'
  <2> SUFFICES ASSUME NEW y \in open'
               PROVE  /\ savedSeq[y] <= seq'[y]
                      /\ \A k \in kept : k.zone = y /\ k.id \in DOMAIN rows'[y] =>
                                         k.tag = rows'[y][k.id].tag
    BY <1>1 DEF MemoryFits
  <2>1. y = z \/ y \in open
    BY <1>1
  <2>2. y \in Zones /\ savedSeq[y] \in Nat
    BY <1>0, <2>1 DEF TypeOK
  <2>3. CASE y = z
    <3>1. ASSUME NEW k \in kept, k.zone = z, k.id \in DOMAIN savedRows[z]
          PROVE  k.tag = savedRows[z][k.id].tag
      <4> DEFINE l == Holding(z, k.id, savedRows[z][k.id].tag)
      <4>1. l \in kept /\ l.zone = z /\ l.id = k.id /\ l.tag = savedRows[z][k.id].tag
        BY <1>0, <3>1 DEF SavedAreKept, Holding
      <4> HIDE DEF l
      <4> QED
        BY <1>0, <3>1, <4>1 DEF OneRowPerId
    <3> QED
      BY <1>1, <2>2, <2>3, <3>1
  <2>4. CASE y # z
    BY <1>0, <1>1, <2>1, <2>2, <2>4 DEF MemoryFits
  <2> QED
    BY <2>3, <2>4
<1>4. AcknowledgedInMemory'
  <2> SUFFICES ASSUME NEW y \in open', NEW id \in DOMAIN acked[y]
               PROVE  id \in DOMAIN rows'[y] /\ rows'[y][id] = acked[y][id]
    BY <1>1 DEF AcknowledgedInMemory
  <2>1. (y = z \/ y \in open) /\ y \in Zones
    BY <1>0, <1>1 DEF TypeOK
  <2>2. CASE y = z
    BY <1>0, <1>1, <2>2 DEF AcknowledgedIsSaved
  <2>3. CASE y # z
    BY <1>0, <1>1, <2>1, <2>3 DEF AcknowledgedInMemory
  <2> QED
    BY <2>2, <2>3
<1> QED
  BY <1>0, <1>1, <1>2, <1>3, <1>4
  DEF IInv, KeptBelow, SavedAreKept, OneRowPerId, AcknowledgedIsSaved

LEMMA CloseKeeps ==
  ASSUME IInv, NEW y, y = open \/ y \in Zones,
         \/ y \in open /\ LockZone(y)
         \/ Restart
  PROVE  IInv'
<1>0. /\ TypeOK /\ KeptBelow /\ SavedAreKept /\ OneRowPerId /\ MemoryFits
      /\ AcknowledgedInMemory /\ AcknowledgedIsSaved
  BY DEF IInv
<1>1. /\ open' \subseteq open
      /\ UNCHANGED <<savedRows, savedSeq, inserts, kept, acked>>
      /\ DOMAIN rows' = Zones /\ seq' \in [Zones -> Nat] /\ DOMAIN shown' = Zones
      /\ \A z \in Zones : \/ rows'[z] = rows[z] /\ seq'[z] = seq[z]
                          \/ z \notin open' /\ rows'[z] = Nothing /\ seq'[z] = 0
      /\ \A z \in Zones : shown'[z] = shown[z] \/ shown'[z] = Nothing
  BY <1>0 DEF LockZone, Restart, blob, page, history, TypeOK
<1>2. DOMAIN Nothing = {}
  BY DEF Nothing
<1>3. TypeOK'
  BY <1>0, <1>1, <1>2 DEF TypeOK, IsTable
<1>4. MemoryFits' /\ AcknowledgedInMemory'
  BY <1>0, <1>1 DEF MemoryFits, AcknowledgedInMemory, TypeOK
<1> QED
  BY <1>0, <1>1, <1>3, <1>4 DEF IInv, KeptBelow, SavedAreKept, OneRowPerId, AcknowledgedIsSaved

(* Every action keeps the inductive invariant. *)
LEMMA InvariantStep == IInv /\ [Next]_vars => IInv'
<1> SUFFICES ASSUME IInv, [Next]_vars PROVE IInv'
  OBVIOUS
<1>0. /\ "accounts" \in Zones /\ Data["accounts"] = NewEntry
      /\ "seeds" \in Zones /\ Data["seeds"] = Labels
      /\ "ledger" \in Zones /\ Data["ledger"] = Amounts
  BY DEF Zones, Data
<1>1. CASE UNCHANGED vars
  BY <1>1 DEF vars, memory, blob, page, history, IInv, TypeOK, IsTable, KeptBelow, SavedAreKept,
     OneRowPerId, MemoryFits, AcknowledgedInMemory, AcknowledgedIsSaved
<1>2. ASSUME NEW entry \in FormEntries,
             AddEntry(entry) \/ \E id \in DOMAIN shown["accounts"] : UpdateEntry(id, entry)
      PROVE  IInv'
  <2>1. entry \in Data["accounts"] /\ <<entry>> \in Seq(Data["accounts"])
    BY <1>0, RowsAssumption
  <2> QED
    BY <1>0, <1>2, <2>1, InsertsKeep, UpdatesKeep DEF AddEntry, UpdateEntry
<1>3. ASSUME NEW label \in Labels,
             AddSeed(label) \/ \E id \in DOMAIN shown["seeds"] : UpdateSeed(id, label)
      PROVE  IInv'
  <2>1. label \in Data["seeds"] /\ <<label>> \in Seq(Data["seeds"])
    BY <1>0
  <2> QED
    BY <1>0, <1>3, <2>1, InsertsKeep, UpdatesKeep DEF AddSeed, UpdateSeed
<1>4. ASSUME NEW amount \in Amounts,
             \/ AddTransaction(amount)
             \/ \E id \in DOMAIN shown["ledger"] : UpdateTransaction(id, amount)
      PROVE  IInv'
  <2>1. amount \in Data["ledger"] /\ <<amount>> \in Seq(Data["ledger"])
    BY <1>0
  <2> QED
    BY <1>0, <1>4, <2>1, InsertsKeep, UpdatesKeep DEF AddTransaction, UpdateTransaction
<1>5. CASE \/ \E id \in DOMAIN shown["accounts"] : DeleteEntry(id)
           \/ \E id \in DOMAIN shown["seeds"] : DeleteSeed(id)
           \/ \E id \in DOMAIN shown["ledger"] : DeleteTransaction(id)
  BY <1>0, <1>5, DeletesKeep DEF DeleteEntry, DeleteSeed, DeleteTransaction
<1>6. CASE ListEntries \/ ListSeeds \/ ListTransactions
  BY <1>0, <1>6, ListsKeep DEF ListEntries, ListSeeds, ListTransactions
<1>7. CASE \E file \in CsvFiles : ImportCsv(file)
  BY <1>7, ImportKeeps
<1>8. CASE \E file \in KdbxFiles : ImportKdbx(file)
  BY <1>0, <1>8, KdbxImportsWhatIsNamed, InsertsKeep DEF ImportKdbx
<1>9. CASE \E z \in Zones : OpenZone(z)
  BY <1>9, OpenZoneKeeps
<1>10. CASE \E z \in Zones : LockZone(z)
  BY <1>10, CloseKeeps DEF LockZone
<1>11. CASE Restart
  BY <1>11, CloseKeeps
<1> QED
  BY <1>1, <1>2, <1>3, <1>4, <1>5, <1>6, <1>7, <1>8, <1>9, <1>10, <1>11 DEF Next

(* The inductive invariant holds, for any entries, files, labels and amounts. *)
THEOREM InvariantHolds == Spec => []IInv
<1>1. Init => IInv
  BY InvariantInit
<1>2. IInv /\ [Next]_vars => IInv'
  BY InvariantStep
<1> QED
  BY <1>1, <1>2, PTL DEF Spec

(* The types. *)
THEOREM TypeCorrect == Spec => []TypeOK
<1>1. IInv => TypeOK
  BY DEF IInv
<1> QED
  BY <1>1, InvariantHolds, PTL

(* An id on the page means the row it was drawn for, or one that was never saved. *)
THEOREM StaleIdsDoMiss == Spec => []StaleIdsMiss
<1>1. IInv => StaleIdsMiss
  BY DEF IInv, MemoryFits, StaleIdsMiss, Holding
<1> QED
  BY <1>1, InvariantHolds, PTL

(* What a command said it had stored is in the Shell. *)
THEOREM AcknowledgedRowsAreSaved == Spec => []AcknowledgedIsSaved
<1>1. IInv => AcknowledgedIsSaved
  BY DEF IInv
<1> QED
  BY <1>1, InvariantHolds, PTL

-----------------------------------------------------------------------------
(* Entries and their titles *)

\* No entry has an empty title, in memory or in the Shell.
EntriesHaveTitles ==
  /\ \A id \in DOMAIN rows["accounts"] : HasTitle(rows["accounts"][id].data)
  /\ \A id \in DOMAIN savedRows["accounts"] : HasTitle(savedRows["accounts"][id].data)

LEMMA MutateNamed ==
  ASSUME IInv, EntriesHaveTitles, NEW z \in Zones, NEW table, NEW last, NEW ids,
         Mutates(z, table, last, ids),
         z = "accounts" => \A id \in DOMAIN table : HasTitle(table[id].data)
  PROVE  EntriesHaveTitles'
<1>1. DOMAIN rows = Zones /\ DOMAIN savedRows = Zones /\ "accounts" \in Zones
  BY DEF IInv, TypeOK, Zones
<1>2. /\ rows' = [rows EXCEPT ![z] = table]
      /\ savedRows' = [savedRows EXCEPT ![z] = table] \/ savedRows' = savedRows
  BY DEF Mutates, Changes, Saves, Unsaved, blob
<1> QED
  BY <1>1, <1>2 DEF EntriesHaveTitles

LEMMA InsertedNamed ==
  ASSUME IInv, EntriesHaveTitles, NEW z \in Zones, NEW new \in Seq(Data[z]),
         z = "accounts" => \A i \in 1..Len(new) : HasTitle(new[i])
  PROVE  z = "accounts" =>
           \A id \in DOMAIN Inserted(z, new) : HasTitle(Inserted(z, new)[id].data)
<1> SUFFICES ASSUME z = "accounts", NEW id \in DOMAIN Inserted(z, new)
             PROVE  HasTitle(Inserted(z, new)[id].data)
  OBVIOUS
<1>1. seq[z] \in Nat /\ Len(new) \in Nat
  BY DEF IInv, TypeOK
<1>2. CASE id \in NewIds(z, new)
  <2>1. id - LastId(z) \in 1..Len(new)
    BY <1>1, <1>2 DEF NewIds, LastId
  <2>2. Inserted(z, new)[id].data = new[id - LastId(z)]
    BY <1>2 DEF Inserted
  <2> QED
    BY <2>1, <2>2
<1>3. CASE id \notin NewIds(z, new)
  <2>1. id \in DOMAIN rows[z] /\ Inserted(z, new)[id] = rows[z][id]
    BY <1>3 DEF Inserted
  <2> QED
    BY <2>1 DEF EntriesHaveTitles
<1> QED
  BY <1>2, <1>3

LEMMA NamedStep == IInv /\ EntriesHaveTitles /\ [Next]_vars => EntriesHaveTitles'
<1> SUFFICES ASSUME IInv, EntriesHaveTitles, [Next]_vars PROVE EntriesHaveTitles'
  OBVIOUS
<1>0. /\ "accounts" \in Zones /\ Data["accounts"] = NewEntry
      /\ "seeds" \in Zones /\ Data["seeds"] = Labels
      /\ "ledger" \in Zones /\ Data["ledger"] = Amounts
      /\ "seeds" # "accounts" /\ "ledger" # "accounts"
  BY DEF Zones, Data
<1>1. CASE UNCHANGED vars
  BY <1>1 DEF vars, memory, blob, EntriesHaveTitles
<1>2. ASSUME NEW z \in Zones, NEW new \in Seq(Data[z]), Inserts(z, new),
             z = "accounts" => \A i \in 1..Len(new) : HasTitle(new[i])
      PROVE  EntriesHaveTitles'
  <2>1. Mutates(z, Inserted(z, new), LastId(z) + Len(new), NewIds(z, new))
    BY <1>2 DEF Inserts
  <2> QED
    BY <1>2, <2>1, InsertedNamed, MutateNamed
<1>3. ASSUME NEW z \in Zones, NEW id, NEW data, Updates(z, id, data),
             z = "accounts" => HasTitle(data)
      PROVE  EntriesHaveTitles'
  <2> DEFINE table == [rows[z] EXCEPT ![id].data = data]
  <2>1. Mutates(z, table, seq[z], {id}) /\ id \in DOMAIN rows[z]
    BY <1>3 DEF Updates, Found
  <2>2. rows[z][id] \in [data : Data[z], tag : 1..inserts]
    BY <2>1 DEF IInv, TypeOK, IsTable
  <2>3. /\ DOMAIN table = DOMAIN rows[z] /\ table[id].data = data
        /\ \A i \in DOMAIN rows[z] : i # id => table[i] = rows[z][i]
    BY <2>1, <2>2
  <2> HIDE DEF table
  <2>4. z = "accounts" => \A i \in DOMAIN table : HasTitle(table[i].data)
    BY <1>3, <2>3 DEF EntriesHaveTitles
  <2> QED
    BY <2>1, <2>4, MutateNamed
<1>4. ASSUME NEW z \in Zones, NEW id, Deletes(z, id) PROVE EntriesHaveTitles'
  <2>1. Mutates(z, Without(rows[z], {id}), seq[z], {id})
    BY <1>4 DEF Deletes
  <2>2. z = "accounts" =>
          \A i \in DOMAIN Without(rows[z], {id}) : HasTitle(Without(rows[z], {id})[i].data)
    BY DEF EntriesHaveTitles, Without, Restrict
  <2> QED
    BY <2>1, <2>2, MutateNamed
<1>5. ASSUME NEW entry \in FormEntries,
             AddEntry(entry) \/ \E id \in DOMAIN shown["accounts"] : UpdateEntry(id, entry)
      PROVE  EntriesHaveTitles'
  <2>1. /\ HasTitle(entry) /\ <<entry>> \in Seq(Data["accounts"])
        /\ \A i \in 1..Len(<<entry>>) : HasTitle(<<entry>>[i])
    BY <1>0, RowsAssumption DEF HasTitle
  <2> QED
    BY <1>0, <1>2, <1>3, <1>5, <2>1 DEF AddEntry, UpdateEntry
<1>6. ASSUME NEW label \in Labels,
             AddSeed(label) \/ \E id \in DOMAIN shown["seeds"] : UpdateSeed(id, label)
      PROVE  EntriesHaveTitles'
  <2>1. <<label>> \in Seq(Data["seeds"])
    BY <1>0
  <2> QED
    BY <1>0, <1>2, <1>3, <1>6, <2>1 DEF AddSeed, UpdateSeed
<1>7. ASSUME NEW amount \in Amounts,
             \/ AddTransaction(amount)
             \/ \E id \in DOMAIN shown["ledger"] : UpdateTransaction(id, amount)
      PROVE  EntriesHaveTitles'
  <2>1. <<amount>> \in Seq(Data["ledger"])
    BY <1>0
  <2> QED
    BY <1>0, <1>2, <1>3, <1>7, <2>1 DEF AddTransaction, UpdateTransaction
<1>8. CASE \/ \E id \in DOMAIN shown["accounts"] : DeleteEntry(id)
           \/ \E id \in DOMAIN shown["seeds"] : DeleteSeed(id)
           \/ \E id \in DOMAIN shown["ledger"] : DeleteTransaction(id)
  BY <1>0, <1>4, <1>8 DEF DeleteEntry, DeleteSeed, DeleteTransaction
<1>9. CASE ListEntries \/ ListSeeds \/ ListTransactions
  BY <1>9 DEF ListEntries, ListSeeds, ListTransactions, Lists, memory, blob, EntriesHaveTitles
<1>10. ASSUME NEW file \in CsvFiles, ImportCsv(file) PROVE EntriesHaveTitles'
  <2> DEFINE new == CsvEntries(file)
  <2>1. new \in Seq(Data["accounts"])
    BY <1>0, CsvImportsWhatIsNamed
  <2>2. \A i \in 1..Len(new) : HasTitle(new[i])
    BY CsvEntriesNamed DEF Range
  <2>3. Inserts("accounts", new) \/
        (Changes("accounts", Inserted("accounts", new), LastId("accounts") + Len(new))
           /\ Unsaved("accounts", {}))
    BY <1>10 DEF ImportCsv
  <2> HIDE DEF new
  <2>4. CASE Inserts("accounts", new)
    BY <1>0, <1>2, <2>1, <2>2, <2>4
  <2>5. CASE /\ Changes("accounts", Inserted("accounts", new), LastId("accounts") + Len(new))
             /\ Unsaved("accounts", {})
    <3>1. Mutates("accounts", Inserted("accounts", new), LastId("accounts") + Len(new), {})
      BY <2>5 DEF Mutates
    <3> QED
      BY <1>0, <2>1, <2>2, <3>1, InsertedNamed, MutateNamed
  <2> QED
    BY <2>3, <2>4, <2>5
<1>11. ASSUME NEW file \in KdbxFiles, ImportKdbx(file) PROVE EntriesHaveTitles'
  <2>1. /\ KdbxEntries(file) \in Seq(Data["accounts"])
        /\ \A i \in 1..Len(KdbxEntries(file)) : HasTitle(KdbxEntries(file)[i])
    BY <1>0, KdbxImportsWhatIsNamed DEF Range
  <2> QED
    BY <1>0, <1>2, <1>11, <2>1 DEF ImportKdbx
<1>12. CASE \E z \in Zones : OpenZone(z) \/ LockZone(z)
  <2>1. PICK z \in Zones : OpenZone(z) \/ LockZone(z)
    BY <1>12
  <2>2. savedRows' = savedRows /\ \E t \in {savedRows[z], Nothing} : rows' = [rows EXCEPT ![z] = t]
    BY <2>1 DEF OpenZone, LockZone, blob
  <2>3. DOMAIN rows = Zones /\ DOMAIN Nothing = {}
    BY DEF IInv, TypeOK, Nothing
  <2> QED
    BY <1>0, <2>2, <2>3 DEF EntriesHaveTitles
<1>13. CASE Restart
  <2>1. savedRows' = savedRows /\ rows'["accounts"] = Nothing /\ DOMAIN Nothing = {}
    BY <1>0, <1>13 DEF Restart, blob, Nothing
  <2> QED
    BY <2>1 DEF EntriesHaveTitles
<1> QED
  BY <1>1, <1>5, <1>6, <1>7, <1>8, <1>9, <1>10, <1>11, <1>12, <1>13 DEF Next

(* However an entry came in, by the form, from a CSV file or from KeePass,   *)
(* and whatever failed since, its title is not empty.                       *)
THEOREM NoNamelessEntries == Spec => []EntriesHaveTitles
<1>1. Init => EntriesHaveTitles
  BY DEF Init, EntriesHaveTitles, Nothing, Zones
<1> QED
  BY <1>1, InvariantInit, InvariantStep, NamedStep, PTL DEF Spec

-----------------------------------------------------------------------------
(* SUM: the running sum and the sum of a table *)

(* The amounts of rows with ids up to last. *)
IsAmounts(a, last) ==
  DOMAIN a \subseteq 1..last /\ \A i \in DOMAIN a : a[i] \in Int

Term(a, n) == IF n \in DOMAIN a THEN a[n] ELSE 0
Runs(a, last, s) == s = [n \in 0..last |-> IF n = 0 THEN 0 ELSE s[n - 1] + Term(a, n)]

(* The equation of Running has a solution, however many rows there are. *)
LEMMA RunsExists ==
  ASSUME NEW a, NEW last \in Nat
  PROVE  \E s : Runs(a, last, s)
<1> DEFINE T == {m \in Nat : ~ \E s : Runs(a, m, s)}
<1> SUFFICES ASSUME T # {} PROVE FALSE
  OBVIOUS
<1>1. PICK m \in T : \A k \in T : m <= k
  <2>1. T \subseteq Nat
    OBVIOUS
  <2> HIDE DEF T
  <2> QED
    BY <2>1, Least
<1>2. CASE m = 0
  <2> DEFINE s == [n \in 0..0 |-> 0]
  <2>1. s = [n \in 0..0 |-> IF n = 0 THEN 0 ELSE s[n - 1] + Term(a, n)]
    OBVIOUS
  <2>2. Runs(a, 0, s)
    BY <2>1 DEF Runs
  <2> QED
    BY <1>2, <2>2
<1>3. CASE m # 0
  <2>1. m - 1 \in Nat /\ m - 1 \notin T
    BY <1>1, <1>3
  <2>2. PICK b : Runs(a, m - 1, b)
    BY <2>1
  <2>3. b = [n \in 0..m-1 |-> IF n = 0 THEN 0 ELSE b[n - 1] + Term(a, n)]
    BY <2>2 DEF Runs
  <2> DEFINE s == [n \in 0..m |-> IF n = 0 THEN 0 ELSE b[n - 1] + Term(a, n)]
  <2>4. \A n \in 0..m-1 : s[n] = b[n]
    BY <2>1, <2>3
  <2>5. \A n \in 0..m : s[n] = IF n = 0 THEN 0 ELSE s[n - 1] + Term(a, n)
    <3> TAKE n \in 0..m
    <3>1. CASE n = 0
      BY <3>1
    <3>2. CASE n # 0
      <4>1. n - 1 \in 0..m-1
        BY <3>2
      <4>2. s[n] = b[n - 1] + Term(a, n)
        BY <3>2
      <4> QED
        BY <2>4, <3>2, <4>1, <4>2
    <3> QED
      BY <3>1, <3>2
  <2>6. s = [n \in 0..m |-> IF n = 0 THEN 0 ELSE s[n - 1] + Term(a, n)]
    <3>1. s = [n \in 0..m |-> s[n]]
      OBVIOUS
    <3> HIDE DEF s
    <3> QED
      BY <2>5, <3>1
  <2> QED
    BY <2>6 DEF Runs
<1> QED
  BY <1>2, <1>3

(* What Running is: one term more with each id, and always a whole number. *)
LEMMA RunningStep ==
  ASSUME NEW last \in Nat, NEW a, IsAmounts(a, last)
  PROVE  /\ Running(a, last) \in [0..last -> Int]
         /\ Running(a, last)[0] = 0
         /\ \A n \in 1..last : Running(a, last)[n] = Running(a, last)[n - 1] + Term(a, n)
<1> DEFINE r == Running(a, last)
<1>1. PICK s : Runs(a, last, s)
  BY RunsExists
<1>2. s = [n \in 0..last |-> IF n = 0 THEN 0 ELSE s[n - 1] + (IF n \in DOMAIN a THEN a[n] ELSE 0)]
  BY <1>1 DEF Runs, Term
<1>3. r = [n \in 0..last |-> IF n = 0 THEN 0 ELSE r[n - 1] + (IF n \in DOMAIN a THEN a[n] ELSE 0)]
  BY <1>2 DEF Running
<1> HIDE DEF r
<1>4. /\ DOMAIN r = 0..last /\ r[0] = 0
      /\ \A n \in 1..last : r[n] = r[n - 1] + Term(a, n)
      /\ r = [n \in 0..last |-> r[n]]
  <2>1. DOMAIN r = 0..last /\ r[0] = 0
    BY <1>3
  <2>2. ASSUME NEW n \in 1..last PROVE r[n] = r[n - 1] + Term(a, n)
    <3>1. n \in 0..last /\ n # 0
      OBVIOUS
    <3> QED
      BY <1>3, <3>1 DEF Term
  <2>3. r = [n \in 0..last |-> r[n]]
    BY <1>3
  <2> QED
    BY <2>1, <2>2, <2>3
<1>5. \A n \in 0..last : r[n] \in Int
  <2> DEFINE T == {n \in 0..last : r[n] \notin Int}
  <2> SUFFICES ASSUME T # {} PROVE FALSE
    OBVIOUS
  <2>1. PICK m \in T : \A k \in T : m <= k
    <3>1. T \subseteq Nat
      OBVIOUS
    <3> HIDE DEF T
    <3> QED
      BY <3>1, Least
  <2>2. m # 0 /\ m \in 1..last /\ m - 1 \in 0..last /\ ~ (m <= m - 1)
    BY <1>4, <2>1
  <2>3. m - 1 \notin T
    <3> HIDE DEF T
    <3> QED
      BY <2>1, <2>2
  <2>4. r[m - 1] \in Int /\ Term(a, m) \in Int
    BY <2>2, <2>3 DEF IsAmounts, Term
  <2>5. r[m] \in Int
    <3>1. r[m] = r[m - 1] + Term(a, m)
      BY <1>4, <2>2
    <3> QED
      BY <2>4, <3>1
  <2> QED
    BY <2>1, <2>5
<1> QED
  BY <1>4, <1>5 DEF r

(* A row less: the sums from that row on are less by its amount. *)
LEMMA RunningWithout ==
  ASSUME NEW last \in Nat, NEW a, IsAmounts(a, last), NEW x \in DOMAIN a,
         NEW b, b = [i \in DOMAIN a \ {x} |-> a[i]]
  PROVE  /\ IsAmounts(b, last)
         /\ Running(a, last)[last] = Running(b, last)[last] + a[x]
<1>1. IsAmounts(b, last)
  BY DEF IsAmounts
<1> DEFINE r == Running(a, last)
           q == Running(b, last)
<1>2. /\ r \in [0..last -> Int] /\ r[0] = 0
      /\ \A n \in 1..last : r[n] = r[n - 1] + Term(a, n)
  BY RunningStep
<1>3. /\ q \in [0..last -> Int] /\ q[0] = 0
      /\ \A n \in 1..last : q[n] = q[n - 1] + Term(b, n)
  BY <1>1, RunningStep
<1>4. x \in 1..last /\ a[x] \in Int
  BY DEF IsAmounts
<1>5. \A n \in 1..last : /\ Term(a, n) \in Int /\ Term(b, n) \in Int
                         /\ Term(a, n) = Term(b, n) + (IF n = x THEN a[x] ELSE 0)
  BY <1>1, <1>4 DEF Term, IsAmounts
<1> HIDE DEF r, q
<1> DEFINE T == {n \in 0..last : r[n] # q[n] + (IF x <= n THEN a[x] ELSE 0)}
<1>6. T = {}
  <2> SUFFICES ASSUME T # {} PROVE FALSE
    OBVIOUS
  <2>1. PICK m \in T : \A k \in T : m <= k
    <3>1. T \subseteq Nat
      OBVIOUS
    <3> HIDE DEF T
    <3> QED
      BY <3>1, Least
  <2>2. m \in 0..last /\ m # 0
    BY <1>2, <1>3, <1>4, <2>1
  <2>3. m \in 1..last /\ m - 1 \in 0..last /\ ~ (m <= m - 1)
    BY <2>2
  <2>4. m - 1 \notin T
    <3> HIDE DEF T
    <3> QED
      BY <2>1, <2>3
  <2>5. r[m - 1] = q[m - 1] + (IF x <= m - 1 THEN a[x] ELSE 0)
    BY <2>3, <2>4
  <2>6. r[m] = r[m - 1] + Term(a, m) /\ q[m] = q[m - 1] + Term(b, m)
    BY <1>2, <1>3, <2>3
  <2>7. r[m - 1] \in Int /\ q[m - 1] \in Int
    BY <1>2, <1>3, <2>3
  <2>8. r[m] = q[m] + (IF x <= m THEN a[x] ELSE 0)
    <3>1. CASE m = x
      BY <1>4, <1>5, <2>3, <2>5, <2>6, <2>7, <3>1
    <3>2. CASE m # x
      <4>1. x <= m <=> x <= m - 1
        BY <1>4, <2>3, <3>2
      <4>2. Term(a, m) = Term(b, m)
        BY <1>5, <2>3, <3>2
      <4> QED
        BY <1>4, <1>5, <2>3, <2>5, <2>6, <2>7, <4>1, <4>2
    <3> QED
      BY <3>1, <3>2
  <2> QED
    BY <2>1, <2>8
<1>7. last \in 0..last /\ x <= last /\ last \notin T
  BY <1>4, <1>6
<1>8. r[last] = q[last] + a[x]
  BY <1>7
<1> QED
  BY <1>1, <1>8 DEF r, q

(* With no rows the sum is zero. *)
LEMMA RunningEmpty ==
  ASSUME NEW last \in Nat, NEW a, DOMAIN a = {}
  PROVE  Running(a, last)[last] = 0
<1> DEFINE r == Running(a, last)
<1>1. /\ r \in [0..last -> Int] /\ r[0] = 0
      /\ \A n \in 1..last : r[n] = r[n - 1]
  BY RunningStep DEF IsAmounts, Term
<1> HIDE DEF r
<1> DEFINE T == {n \in 0..last : r[n] # 0}
<1>2. T = {}
  <2> SUFFICES ASSUME T # {} PROVE FALSE
    OBVIOUS
  <2>1. PICK m \in T : \A k \in T : m <= k
    <3>1. T \subseteq Nat
      OBVIOUS
    <3> HIDE DEF T
    <3> QED
      BY <3>1, Least
  <2>2. m \in 1..last /\ m - 1 \in 0..last /\ ~ (m <= m - 1)
    BY <1>1, <2>1
  <2>3. m - 1 \notin T
    <3> HIDE DEF T
    <3> QED
      BY <2>1, <2>2
  <2> QED
    BY <1>1, <2>1, <2>2, <2>3
<1>3. last \in 0..last
  OBVIOUS
<1> QED
  BY <1>2, <1>3 DEF r

(* SumFunction(a) takes the rows of a one by one. *)
Taken(s) == CHOOSE x \in s : TRUE
Adds(a, S, f) == f = [s \in S |-> IF s = {} THEN 0 ELSE a[Taken(s)] + f[s \ {Taken(s)}]]
Small(D, k) == {s \in SUBSET D : Cardinality(s) <= k}

LEMMA FoldsExists ==
  ASSUME NEW a, NEW D, IsFiniteSet(D), NEW k \in Nat
  PROVE  \E f : Adds(a, Small(D, k), f)
<1> DEFINE T == {m \in Nat : ~ \E f : Adds(a, Small(D, m), f)}
<1> SUFFICES ASSUME T # {} PROVE FALSE
  OBVIOUS
<1>1. PICK m \in T : \A n \in T : m <= n
  <2>1. T \subseteq Nat
    OBVIOUS
  <2> HIDE DEF T
  <2> QED
    BY <2>1, Least
<1>2. \A s \in SUBSET D : IsFiniteSet(s) /\ Cardinality(s) \in Nat /\ (Cardinality(s) = 0 <=> s = {})
  BY FS_Subset, FS_CardinalityType, FS_EmptySet
<1>3. CASE m = 0
  <2> DEFINE f == [s \in Small(D, 0) |-> 0]
  <2>1. \A s \in Small(D, 0) : s = {}
    BY <1>2 DEF Small
  <2>2. f = [s \in Small(D, 0) |-> IF s = {} THEN 0 ELSE a[Taken(s)] + f[s \ {Taken(s)}]]
    BY <2>1
  <2>3. Adds(a, Small(D, 0), f)
    BY <2>2 DEF Adds
  <2> QED
    BY <1>3, <2>3
<1>4. CASE m # 0
  <2>1. m - 1 \in Nat /\ m - 1 \notin T
    BY <1>1, <1>4
  <2>2. PICK b : Adds(a, Small(D, m - 1), b)
    BY <2>1
  <2> DEFINE f == [s \in Small(D, m) |-> IF s = {} THEN 0 ELSE a[Taken(s)] + b[s \ {Taken(s)}]]
  <2>3. \A s \in Small(D, m - 1) : f[s] = b[s]
    <3>1. Small(D, m - 1) \subseteq Small(D, m)
      BY <1>1, <1>2, <2>1 DEF Small
    <3> QED
      BY <2>2, <3>1 DEF Adds
  <2>4. ASSUME NEW s \in Small(D, m), s # {}
        PROVE  f[s \ {Taken(s)}] = b[s \ {Taken(s)}]
    <3>1. Taken(s) \in s
      BY <2>4 DEF Taken
    <3>2. s \in SUBSET D /\ IsFiniteSet(s) /\ Cardinality(s) <= m /\ Cardinality(s) \in Nat
      BY <1>2 DEF Small
    <3>3. Cardinality(s \ {Taken(s)}) = Cardinality(s) - 1
      BY <3>1, <3>2, FS_RemoveElement
    <3>4. s \ {Taken(s)} \in Small(D, m - 1)
      BY <3>2, <3>3 DEF Small
    <3> QED
      BY <2>3, <3>4
  <2>5. \A s \in Small(D, m) : f[s] = IF s = {} THEN 0 ELSE a[Taken(s)] + f[s \ {Taken(s)}]
    BY <2>4
  <2>6. f = [s \in Small(D, m) |-> f[s]]
    OBVIOUS
  <2> HIDE DEF f
  <2>7. f = [s \in Small(D, m) |-> IF s = {} THEN 0 ELSE a[Taken(s)] + f[s \ {Taken(s)}]]
    BY <2>5, <2>6
  <2> QED
    BY <2>7 DEF Adds
<1> QED
  BY <1>3, <1>4

(* Whatever the order in which the fold takes the rows, it comes to the sum  *)
(* that SUM has reached after the last id.                                   *)
LEMMA FoldIsRunning ==
  ASSUME NEW last \in Nat, NEW a, IsAmounts(a, last), a = [i \in DOMAIN a |-> a[i]]
  PROVE  SumFunction(a) = Running(a, last)[last]
<1> DEFINE D == DOMAIN a
           f == CHOOSE g : g = [s \in SUBSET D |-> IF s = {} THEN 0 ELSE a[Taken(s)] + g[s \ {Taken(s)}]]
           Part(s) == [i \in s |-> a[i]]
<1>1. SumFunction(a) = f[D]
  BY DEF SumFunction, SumFunctionOnSet, FoldFunctionOnSet, MapThenFoldSet, Taken
<1>2. IsFiniteSet(D) /\ \A s \in SUBSET D : IsFiniteSet(s) /\ Cardinality(s) \in Nat
  <2>1. IsFiniteSet(1..last)
    BY FS_Interval
  <2> QED
    BY <2>1, FS_Subset, FS_CardinalityType DEF IsAmounts
<1>3. Small(D, Cardinality(D)) = SUBSET D
  BY <1>2, FS_Subset DEF Small
<1>4. PICK g : Adds(a, SUBSET D, g)
  <2>1. Cardinality(D) \in Nat
    BY <1>2
  <2>2. IsFiniteSet(D)
    BY <1>2
  <2>3. \E g : Adds(a, Small(D, Cardinality(D)), g)
    <3> HIDE DEF D
    <3> QED
      BY <2>1, <2>2, FoldsExists
  <2> QED
    BY <1>3, <2>3
<1>5. Adds(a, SUBSET D, f)
  BY <1>4 DEF Adds
<1> HIDE DEF f
<1>6. f[{}] = 0 /\ \A s \in SUBSET D : s # {} => f[s] = a[Taken(s)] + f[s \ {Taken(s)}]
  BY <1>5 DEF Adds
<1>7. \A s \in SUBSET D : f[s] = Running(Part(s), last)[last]
  <2> DEFINE Bad(n) == \E s \in SUBSET D : Cardinality(s) = n /\ f[s] # Running(Part(s), last)[last]
             T == {n \in Nat : Bad(n)}
  <2> SUFFICES ASSUME T # {} PROVE FALSE
    BY <1>2
  <2>1. PICK m \in T : \A n \in T : m <= n
    <3>1. T \subseteq Nat
      OBVIOUS
    <3> HIDE DEF T
    <3> QED
      BY <3>1, Least
  <2>2. PICK s \in SUBSET D : Cardinality(s) = m /\ f[s] # Running(Part(s), last)[last]
    BY <2>1
  <2>3. CASE s = {}
    BY <1>6, <2>2, <2>3, RunningEmpty
  <2>4. CASE s # {}
    <3> DEFINE x == Taken(s)
    <3>1. x \in s
      BY <2>4 DEF Taken
    <3> HIDE DEF x
    <3>2. Cardinality(s \ {x}) = m - 1 /\ m \in Nat /\ m - 1 \in Nat
      <4>1. IsFiniteSet(s) /\ Cardinality(s) = m
        BY <1>2, <2>2
      <4>2. Cardinality(s \ {x}) = Cardinality(s) - 1 /\ IsFiniteSet(s \ {x})
        BY <3>1, <4>1, FS_RemoveElement
      <4>3. s \ {x} \in SUBSET D
        OBVIOUS
      <4>4. Cardinality(s \ {x}) \in Nat /\ m \in Nat
        BY <1>2, <2>1, <4>3
      <4> QED
        BY <4>1, <4>2, <4>4
    <3>3. m - 1 \notin T
      <4> HIDE DEF T
      <4> QED
        BY <2>1, <3>2
    <3>4. f[s \ {x}] = Running(Part(s \ {x}), last)[last]
      BY <3>2, <3>3
    <3>5. IsAmounts(Part(s), last) /\ DOMAIN Part(s) = s /\ Part(s)[x] = a[x]
      BY <3>1 DEF IsAmounts
    <3>6. Part(s \ {x}) = [i \in DOMAIN Part(s) \ {x} |-> Part(s)[i]]
      BY <3>1
    <3>7. /\ IsAmounts(Part(s \ {x}), last)
          /\ Running(Part(s), last)[last] = Running(Part(s \ {x}), last)[last] + Part(s)[x]
      <4> HIDE DEF Part
      <4> QED
        BY <3>1, <3>5, <3>6, RunningWithout
    <3>8. f[s] = a[x] + f[s \ {x}]
      BY <1>6, <2>4 DEF x
    <3>9. a[x] \in Int /\ Running(Part(s \ {x}), last)[last] \in Int
      <4>1. a[x] \in Int /\ last \in 0..last
        BY <3>1 DEF IsAmounts
      <4> HIDE DEF Part
      <4>2. Running(Part(s \ {x}), last) \in [0..last -> Int]
        BY <3>7, RunningStep
      <4> QED
        BY <4>1, <4>2
    <3> HIDE DEF Part
    <3> QED
      BY <2>2, <3>4, <3>5, <3>7, <3>8, <3>9
  <2> QED
    BY <2>3, <2>4
<1>8. Part(D) = a
  OBVIOUS
<1> QED
  BY <1>1, <1>7, <1>8

(* Only a list of the ledger, and the end of the process, change what is on the *)
(* screen.                                                                      *)
LEMMA SnapshotChanges ==
  ASSUME Next
  PROVE  ListTransactions \/ Restart \/ UNCHANGED snapshot
BY DEF Next, AddEntry, AddSeed, AddTransaction, UpdateEntry, UpdateSeed, UpdateTransaction,
   DeleteEntry, DeleteSeed, DeleteTransaction, ListEntries, ListSeeds, ImportCsv, ImportKdbx,
   Inserts, Updates, Deletes, Mutates, Changes, OpenZone, LockZone, page

(* The total that is drawn is the sum, and fits. *)
LEMMA TotalIsSum ==
  ASSUME TypeOK, ListTransactions
  PROVE  SnapshotIsTrue' /\ InWord(snapshot'.total)
<1> DEFINE amounts == [id \in DOMAIN rows["ledger"] |-> rows["ledger"][id].data]
           last == seq["ledger"]
           total == TotalCents(amounts, last)
<1>1. total # Overflow /\ snapshot' = [amounts |-> amounts, total |-> total]
  BY DEF ListTransactions
<1>2. last \in Nat /\ IsAmounts(amounts, last)
  <2>1. "ledger" \in Zones /\ Data["ledger"] = Amounts /\ Amounts \subseteq Int
    BY RowsAssumption DEF Zones, Data
  <2>2. last \in Nat /\ IsTable("ledger", rows["ledger"], last)
    BY <2>1 DEF TypeOK
  <2> QED
    BY <2>1, <2>2 DEF IsAmounts, IsTable
<1>3. amounts = [id \in DOMAIN amounts |-> amounts[id]]
  OBVIOUS
<1> HIDE DEF amounts, last
<1>4. SumFunction(amounts) = Running(amounts, last)[last]
  BY <1>2, <1>3, FoldIsRunning
<1>5. (\A n \in 0..last : InWord(Running(amounts, last)[n])) /\ total = Running(amounts, last)[last]
  BY <1>1 DEF TotalCents
<1>6. last \in 0..last
  BY <1>2
<1>7. snapshot'.total = total /\ snapshot'.amounts = amounts
  BY <1>1
<1> QED
  BY <1>4, <1>5, <1>6, <1>7 DEF SnapshotIsTrue

(* What is on the screen of the ledger: rows and their true total, a 64-bit number. *)
ScreenIsTrue == SnapshotIsTrue /\ InWord(snapshot.total)

LEMMA EmptySum == SumFunction(Nothing) = 0
<1>1. IsAmounts(Nothing, 0) /\ Nothing = [i \in DOMAIN Nothing |-> Nothing[i]] /\ DOMAIN Nothing = {}
  BY DEF IsAmounts, Nothing
<1>2. Running(Nothing, 0)[0] = 0
  BY <1>1, RunningEmpty
<1>3. SumFunction(Nothing) = Running(Nothing, 0)[0]
  <2>1. 0 \in Nat
    OBVIOUS
  <2> QED
    BY <1>1, <2>1, FoldIsRunning
<1> QED
  BY <1>2, <1>3

(* The total on the screen is the sum of the rows on the screen, with no limit on *)
(* their number and no wrap around: SQLite's error stands in where the sum, or a  *)
(* sum on the way to it, is no 64-bit number.                                     *)
THEOREM TotalIsTrue == Spec => []ScreenIsTrue
<1>1. InWord(0)
  BY RowsAssumption DEF InWord
<1>2. Init => ScreenIsTrue
  BY <1>1, EmptySum DEF Init, ScreenIsTrue, SnapshotIsTrue
<1>3. IInv /\ ScreenIsTrue /\ [Next]_vars => ScreenIsTrue'
  <2> SUFFICES ASSUME IInv, ScreenIsTrue, [Next]_vars PROVE ScreenIsTrue'
    OBVIOUS
  <2>1. CASE ListTransactions
    BY <2>1, TotalIsSum DEF IInv, ScreenIsTrue
  <2>2. CASE Restart
    BY <1>1, <2>2, EmptySum DEF Restart, ScreenIsTrue, SnapshotIsTrue
  <2>3. CASE UNCHANGED snapshot
    BY <2>3 DEF ScreenIsTrue, SnapshotIsTrue
  <2> QED
    BY <2>1, <2>2, <2>3, SnapshotChanges DEF vars, page
<1> QED
  BY <1>2, <1>3, InvariantHolds, PTL DEF Spec

(* The total on the screen is that of the rows on the screen. *)
THEOREM SnapshotStaysTrue == Spec => []SnapshotIsTrue
<1>1. ScreenIsTrue => SnapshotIsTrue
  BY DEF ScreenIsTrue
<1> QED
  BY <1>1, TotalIsTrue, PTL

-----------------------------------------------------------------------------
(* Searching *)

Escapes(query, last, s) ==
  s = [n \in 0..last |-> IF n = 0 THEN <<>> ELSE s[n - 1] \o EscapedChar(query[n])]

LEMMA EscapesExist ==
  ASSUME NEW query, NEW last \in Nat
  PROVE  \E s : Escapes(query, last, s)
<1> DEFINE T == {m \in Nat : ~ \E s : Escapes(query, m, s)}
<1> SUFFICES ASSUME T # {} PROVE FALSE
  OBVIOUS
<1>1. PICK m \in T : \A k \in T : m <= k
  <2>1. T \subseteq Nat
    OBVIOUS
  <2> HIDE DEF T
  <2> QED
    BY <2>1, Least
<1>2. CASE m = 0
  <2> DEFINE s == [n \in 0..0 |-> <<>>]
  <2>1. Escapes(query, 0, s)
    BY DEF Escapes
  <2> QED
    BY <1>2, <2>1
<1>3. CASE m # 0
  <2>1. m - 1 \in Nat /\ m - 1 \notin T
    BY <1>1, <1>3
  <2>2. PICK b : Escapes(query, m - 1, b)
    BY <2>1
  <2> DEFINE step(f, n) == IF n = 0 THEN <<>> ELSE f[n - 1] \o EscapedChar(query[n])
             s == [n \in 0..m |-> step(b, n)]
  <2>3. \A n \in 0..m-1 : b[n] = step(b, n)
    BY <2>2 DEF Escapes
  <2>4. \A n \in 0..m-1 : s[n] = b[n]
    <3> HIDE DEF step
    <3> QED
      BY <2>1, <2>3
  <2>5. \A n \in 0..m : s[n] = step(s, n)
    <3> TAKE n \in 0..m
    <3>1. s[n] = step(b, n)
      OBVIOUS
    <3>2. n # 0 => s[n - 1] = b[n - 1]
      <4>1. n # 0 => n - 1 \in 0..m-1
        BY <2>1
      <4> HIDE DEF s
      <4> QED
        BY <2>4, <4>1
    <3> HIDE DEF s
    <3> QED
      BY <3>1, <3>2
  <2>6. s = [n \in 0..m |-> step(s, n)]
    <3>1. s = [n \in 0..m |-> s[n]]
      OBVIOUS
    <3> HIDE DEF s, step
    <3> QED
      BY <2>5, <3>1
  <2>7. Escapes(query, m, s)
    <3> HIDE DEF s
    <3> QED
      BY <2>6 DEF Escapes
  <2> QED
    BY <2>7
<1> QED
  BY <1>2, <1>3

EndsStep(pattern, text, ends, m) ==
  LET From(s, i) == s[Len(s) - i + 1]
      Next1(old) == {n \in 1..Len(text) : n - 1 \in old}
  IN  IF m = 0 THEN {0}
      ELSE CASE From(pattern, m) = "%" -> {n \in 0..Len(text) : \E k \in ends[m - 1] : k <= n}
             [] From(pattern, m) = "_" -> Next1(ends[m - 1])
             [] From(pattern, m) = Escape ->
                  IF m = 1 THEN {}
                  ELSE {n \in Next1(ends[m - 2]) : From(text, n) = From(pattern, m - 1)}
             [] OTHER -> {n \in Next1(ends[m - 1]) : From(text, n) = From(pattern, m)}

LEMMA EndsStepReads ==
  ASSUME NEW pattern, NEW text, NEW f, NEW g, NEW m \in Nat,
         m # 0 => f[m - 1] = g[m - 1], m # 0 /\ m # 1 => f[m - 2] = g[m - 2]
  PROVE  EndsStep(pattern, text, f, m) = EndsStep(pattern, text, g, m)
<1> DEFINE c == pattern[Len(pattern) - m + 1]
<1>1. CASE m = 0
  BY <1>1 DEF EndsStep
<1>2. CASE m # 0 /\ c = "%"
  <2> DEFINE Run(h) == {n \in 0..Len(text) : \E k \in h[m - 1] : k <= n}
  <2>1. \A h : EndsStep(pattern, text, h, m) = Run(h)
    BY <1>2 DEF EndsStep, Escape
  <2>2. Run(f) = Run(g)
    BY <1>2
  <2> QED
    BY <2>1, <2>2
<1>3. CASE m # 0 /\ c = "_"
  <2> DEFINE Run(h) == {n \in 1..Len(text) : n - 1 \in h[m - 1]}
  <2>1. \A h : EndsStep(pattern, text, h, m) = Run(h)
    BY <1>3 DEF EndsStep, Escape
  <2>2. Run(f) = Run(g)
    BY <1>3
  <2> QED
    BY <2>1, <2>2
<1>4. CASE m # 0 /\ m # 1 /\ c = Escape
  <2> DEFINE Run(h) == {n \in {i \in 1..Len(text) : i - 1 \in h[m - 2]} :
                          text[Len(text) - n + 1] = pattern[Len(pattern) - (m - 1) + 1]}
  <2>1. \A h : EndsStep(pattern, text, h, m) = Run(h)
    BY <1>4 DEF EndsStep, Escape
  <2>2. Run(f) = Run(g)
    BY <1>4
  <2> QED
    BY <2>1, <2>2
<1>5. CASE m = 1 /\ c = Escape
  <2>1. \A h : EndsStep(pattern, text, h, m) = {}
    BY <1>5 DEF EndsStep, Escape
  <2> QED
    BY <2>1
<1>6. CASE m # 0 /\ c \notin {"%", "_", Escape}
  <2> DEFINE Run(h) == {n \in {i \in 1..Len(text) : i - 1 \in h[m - 1]} :
                          text[Len(text) - n + 1] = c}
  <2>1. \A h : EndsStep(pattern, text, h, m) = Run(h)
    BY <1>6 DEF EndsStep, Escape
  <2>2. Run(f) = Run(g)
    BY <1>6
  <2> QED
    BY <2>1, <2>2
<1> QED
  BY <1>1, <1>2, <1>3, <1>4, <1>5, <1>6

LEMMA EndsExist ==
  ASSUME NEW pattern, NEW text, NEW last \in Nat
  PROVE  \E t : t = [m \in 0..last |-> EndsStep(pattern, text, t, m)]
<1> DEFINE Fits(m, t) == t = [i \in 0..m |-> EndsStep(pattern, text, t, i)]
           T == {m \in Nat : ~ \E t : Fits(m, t)}
<1> SUFFICES ASSUME T # {} PROVE FALSE
  OBVIOUS
<1>1. PICK m \in T : \A k \in T : m <= k
  <2>1. T \subseteq Nat
    OBVIOUS
  <2> HIDE DEF T
  <2> QED
    BY <2>1, Least
<1>2. PICK b : m # 0 => Fits(m - 1, b)
  <2>1. m # 0 => m - 1 \in Nat /\ m - 1 \notin T
    BY <1>1
  <2> QED
    BY <2>1
<1> DEFINE t == [i \in 0..m |-> EndsStep(pattern, text, b, i)]
<1>3. \A i \in 0..m-1 : b[i] = EndsStep(pattern, text, b, i)
  <2> SUFFICES ASSUME NEW i \in 0..m-1 PROVE b[i] = EndsStep(pattern, text, b, i)
    OBVIOUS
  <2>1. m # 0
    OBVIOUS
  <2> QED
    BY <1>2, <2>1
<1>4. \A i \in 0..m-1 : t[i] = b[i]
  BY <1>3
<1>5. \A i \in 0..m : t[i] = EndsStep(pattern, text, t, i)
  <2> TAKE i \in 0..m
  <2>1. t[i] = EndsStep(pattern, text, b, i)
    OBVIOUS
  <2>2. i # 0 => t[i - 1] = b[i - 1]
    <3>1. i # 0 => i - 1 \in 0..m-1
      OBVIOUS
    <3> HIDE DEF t
    <3> QED
      BY <1>4, <3>1
  <2>3. i # 0 /\ i # 1 => t[i - 2] = b[i - 2]
    <3>1. i # 0 /\ i # 1 => i - 2 \in 0..m-1
      OBVIOUS
    <3> HIDE DEF t
    <3> QED
      BY <1>4, <3>1
  <2> HIDE DEF t
  <2>4. EndsStep(pattern, text, t, i) = EndsStep(pattern, text, b, i)
    BY <2>2, <2>3, EndsStepReads
  <2> QED
    BY <2>1, <2>4
<1>6. t = [i \in 0..m |-> EndsStep(pattern, text, t, i)]
  <2>1. t = [i \in 0..m |-> t[i]]
    OBVIOUS
  <2> HIDE DEF t
  <2> QED
    BY <1>5, <2>1
<1>7. Fits(m, t)
  <2> HIDE DEF t
  <2> QED
    BY <1>6
<1> QED
  <2> HIDE DEF t
  <2> QED
    BY <1>1, <1>7

LEMMA LikeEnds ==
  ASSUME NEW pattern, NEW text, Len(pattern) \in Nat
  PROVE  \E t :
           /\ \A m \in 0..Len(pattern) : t[m] = EndsStep(pattern, text, t, m)
           /\ Like(pattern, text) <=> Len(text) \in t[Len(pattern)]
<1> DEFINE t == CHOOSE f : f = [m \in 0..Len(pattern) |-> EndsStep(pattern, text, f, m)]
<1>1. t = [m \in 0..Len(pattern) |-> EndsStep(pattern, text, t, m)]
  BY EndsExist
<1>2. Like(pattern, text) <=> Len(text) \in t[Len(pattern)]
  BY DEF Like, EndsStep
<1> HIDE DEF t
<1>3. \A m \in 0..Len(pattern) : t[m] = EndsStep(pattern, text, t, m)
  BY <1>1
<1> QED
  BY <1>2, <1>3

(* L[n]: where the piece of the n-th character of a query ends in what the *)
(* query becomes.                                                           *)
Pieces(query, L) ==
  /\ L[0] = 0 /\ Len(Escaped(query)) = L[Len(query)]
  /\ \A n \in 0..Len(query) : L[n] \in Nat /\ L[n] <= L[Len(query)]
  /\ \A n \in 1..Len(query) :
       /\ query[n] \in {"%", "_"} => /\ L[n] = L[n - 1] + 2
                                    /\ Escaped(query)[L[n - 1] + 1] = Escape
                                    /\ Escaped(query)[L[n - 1] + 2] = query[n]
       /\ query[n] \notin {"%", "_"} => /\ L[n] = L[n - 1] + 1
                                       /\ Escaped(query)[L[n - 1] + 1] = query[n]

LEMMA EscapedPieces ==
  ASSUME NEW S, NEW query \in Seq(S)
  PROVE  /\ Escaped(query) \in Seq(S \union {Escape})
         /\ \E L : Pieces(query, L)
<1> DEFINE N == Len(query)
           C == S \union {Escape}
           first == CHOOSE s : Escapes(query, N, s)
<1>1. Escapes(query, N, first)
  BY EscapesExist
<1>2. Escaped(query) = first[N]
  BY DEF Escaped, Escapes
<1>0. N \in Nat
  OBVIOUS
<1> HIDE DEF first
<1>3. first[0] = <<>> /\ \A n \in 1..N : first[n] = first[n - 1] \o EscapedChar(query[n])
  BY <1>0, <1>1 DEF Escapes
<1>4. \A n \in 1..N : EscapedChar(query[n]) \in Seq(C)
  <2> TAKE n \in 1..N
  <2>1. query[n] \in C /\ Escape \in C
    OBVIOUS
  <2>2. <<query[n]>> \in Seq(C) /\ <<Escape, query[n]>> \in Seq(C)
    BY <2>1
  <2> QED
    BY <2>2, Zenon DEF EscapedChar
<1>5. \A n \in 0..N : first[n] \in Seq(C)
  <2> DEFINE T == {n \in 0..N : first[n] \notin Seq(C)}
  <2> SUFFICES ASSUME T # {} PROVE FALSE
    OBVIOUS
  <2>1. PICK m \in T : \A k \in T : m <= k
    <3>1. T \subseteq Nat
      OBVIOUS
    <3> HIDE DEF T
    <3> QED
      BY <3>1, Least
  <2>2. m # 0
    <3>1. <<>> \in Seq(C)
      OBVIOUS
    <3> QED
      BY <1>3, <3>1
  <2>3. m - 1 \in 0..N /\ ~ (m <= m - 1)
    BY <1>0, <2>2
  <2>4. first[m - 1] \in Seq(C)
    BY <2>1, <2>3
  <2>5. m \in 1..N
    BY <1>0, <2>2
  <2>6. first[m] = first[m - 1] \o EscapedChar(query[m])
    BY <1>3, <2>5
  <2>7. first[m] \in Seq(C)
    BY <1>4, <2>4, <2>5, <2>6, ConcatProperties
  <2> QED
    BY <2>7
<1> DEFINE L == [n \in 0..N |-> Len(first[n])]
<1>6. \A n \in 0..N : L[n] = Len(first[n]) /\ L[n] \in Nat
  BY <1>5
<1> HIDE DEF L
<1>7. \A n \in 1..N : n - 1 \in 0..N /\ n \in 0..N
  BY <1>0
<1>8. \A n \in 1..N : /\ L[n] = L[n - 1] + Len(EscapedChar(query[n]))
                      /\ Len(EscapedChar(query[n])) \in {1, 2}
                      /\ \A i \in 1..L[n - 1] : first[n][i] = first[n - 1][i]
                      /\ \A i \in 1..Len(EscapedChar(query[n])) :
                           first[n][L[n - 1] + i] = EscapedChar(query[n])[i]
  <2> TAKE n \in 1..N
  <2>1. first[n - 1] \in Seq(C) /\ EscapedChar(query[n]) \in Seq(C)
    BY <1>4, <1>5, <1>7
  <2>2. first[n] = first[n - 1] \o EscapedChar(query[n])
    BY <1>3
  <2>3. Len(EscapedChar(query[n])) \in {1, 2}
    BY DEF EscapedChar
  <2>4. L[n] = Len(first[n]) /\ L[n - 1] = Len(first[n - 1])
    BY <1>6, <1>7
  <2> DEFINE e == EscapedChar(query[n])
             a == first[n - 1]
  <2> HIDE DEF e, a
  <2>5. a \in Seq(C) /\ e \in Seq(C) /\ first[n] = a \o e /\ Len(e) \in {1, 2}
        /\ L[n] = Len(first[n]) /\ L[n - 1] = Len(a)
    BY <2>1, <2>2, <2>3, <2>4 DEF e, a
  <2>6. /\ L[n] = L[n - 1] + Len(e)
        /\ Len(e) \in {1, 2}
        /\ \A i \in 1..L[n - 1] : first[n][i] = a[i]
        /\ \A i \in 1..Len(e) : first[n][L[n - 1] + i] = e[i]
    BY <2>5
  <2> QED
    BY <2>6 DEF e, a
<1>14. \A n \in 1..N : /\ L[n] \in Nat /\ L[n - 1] \in Nat /\ L[n - 1] <= L[n]
                       /\ L[n - 1] + 1 \in 1..L[n]
                       /\ L[n] = L[n - 1] + 2 => L[n - 1] + 2 \in 1..L[n]
  <2> TAKE n \in 1..N
  <2>1. L[n] \in Nat /\ L[n - 1] \in Nat
    BY <1>6, <1>7
  <2>2. L[n] = L[n - 1] + 1 \/ L[n] = L[n - 1] + 2
    BY <1>8
  <2> QED
    BY <2>1, <2>2
<1> DEFINE Kept(n) == /\ L[n] <= L[N]
                      /\ \A i \in 1..L[n] : first[N][i] = first[n][i]
<1>9. \A n \in 0..N : Kept(n)
  <2> DEFINE T == {k \in 0..N : ~ Kept(N - k)}
  <2> SUFFICES ASSUME T # {} PROVE FALSE
    <3> HIDE DEF Kept
    <3>1. \A n \in 0..N : N - n \in 0..N /\ N - (N - n) = n
      BY <1>0
    <3> QED
      BY <3>1
  <2>1. PICK m \in T : \A k \in T : m <= k
    <3>1. T \subseteq Nat
      OBVIOUS
    <3> HIDE DEF T
    <3> QED
      BY <3>1, Least
  <2>2. m # 0
    <3>1. Kept(N)
      BY <1>0, <1>6
    <3>2. N - 0 = N
      BY <1>0
    <3> HIDE DEF Kept
    <3> QED
      BY <3>1, <3>2
  <2>3. m - 1 \in 0..N /\ ~ (m <= m - 1) /\ N - (m - 1) = (N - m) + 1
        /\ (N - m) + 1 \in 1..N /\ ((N - m) + 1) - 1 = N - m /\ N - m \in 0..N
    BY <1>0, <2>2
  <2>4. Kept((N - m) + 1)
    <3> HIDE DEF Kept
    <3> QED
      BY <2>1, <2>3
  <2>5. PICK n \in 1..N : n = (N - m) + 1
    BY <2>3
  <2>6. n - 1 = N - m
    BY <2>3, <2>5
  <2>7. Kept(n)
    <3> HIDE DEF Kept
    <3> QED
      BY <2>4, <2>5
  <2>8. L[n - 1] <= L[n] /\ L[n] \in Nat /\ L[n - 1] \in Nat /\ L[N] \in Nat
    BY <1>0, <1>6, <1>14
  <2>9. \A i \in 1..L[n - 1] : i \in 1..L[n]
    BY <2>8
  <2>10. Kept(n - 1)
    BY <1>8, <2>7, <2>8, <2>9
  <2>11. Kept(N - m)
    <3> HIDE DEF Kept
    <3> QED
      BY <2>6, <2>10
  <2> HIDE DEF Kept
  <2> QED
    BY <2>11
<1>10. \A n \in 1..N : first[N][L[n - 1] + 1] = EscapedChar(query[n])[1]
                       /\ (L[n] = L[n - 1] + 2 => first[N][L[n - 1] + 2] = EscapedChar(query[n])[2])
  <2> TAKE n \in 1..N
  <2>1. Kept(n)
    <3> HIDE DEF Kept
    <3> QED
      BY <1>7, <1>9
  <2>2. /\ first[N][L[n - 1] + 1] = first[n][L[n - 1] + 1]
        /\ L[n] = L[n - 1] + 2 => first[N][L[n - 1] + 2] = first[n][L[n - 1] + 2]
    BY <1>14, <2>1
  <2> DEFINE e == EscapedChar(query[n])
  <2> HIDE DEF e
  <2>3. /\ L[n] = L[n - 1] + Len(e) /\ Len(e) \in {1, 2} /\ L[n - 1] \in Nat
        /\ \A i \in 1..Len(e) : first[n][L[n - 1] + i] = e[i]
    BY <1>8, <1>14 DEF e
  <2>4. 1 \in 1..Len(e) /\ (L[n] = L[n - 1] + 2 => 2 \in 1..Len(e))
    <3>1. CASE Len(e) = 1
      BY <2>3, <3>1
    <3>2. CASE Len(e) = 2
      BY <2>3, <3>2
    <3> QED
      BY <2>3, <3>1, <3>2
  <2>5. /\ first[n][L[n - 1] + 1] = e[1]
        /\ L[n] = L[n - 1] + 2 => first[n][L[n - 1] + 2] = e[2]
    BY <2>3, <2>4
  <2> QED
    BY <2>2, <2>5 DEF e
<1>11. \A n \in 1..N :
         /\ query[n] \in {"%", "_"} => /\ L[n] = L[n - 1] + 2
                                      /\ first[N][L[n - 1] + 1] = Escape
                                      /\ first[N][L[n - 1] + 2] = query[n]
         /\ query[n] \notin {"%", "_"} => /\ L[n] = L[n - 1] + 1
                                         /\ first[N][L[n - 1] + 1] = query[n]
  <2> TAKE n \in 1..N
  <2>1. CASE query[n] \in {"%", "_"}
    <3>1. EscapedChar(query[n]) = <<Escape, query[n]>>
      BY <2>1 DEF EscapedChar
    <3>2. L[n] = L[n - 1] + 2
      BY <1>8, <3>1
    <3>3. <<Escape, query[n]>>[1] = Escape /\ <<Escape, query[n]>>[2] = query[n]
      OBVIOUS
    <3> QED
      BY <1>10, <2>1, <3>1, <3>2, <3>3, Zenon
  <2>2. CASE query[n] \notin {"%", "_"}
    <3>1. EscapedChar(query[n]) = <<query[n]>>
      BY <2>2 DEF EscapedChar
    <3>2. L[n] = L[n - 1] + 1
      BY <1>8, <3>1
    <3>3. <<query[n]>>[1] = query[n]
      OBVIOUS
    <3> QED
      BY <1>10, <2>2, <3>1, <3>2, <3>3, Zenon
  <2> QED
    BY <2>1, <2>2
<1>12. L[0] = 0 /\ \A n \in 0..N : L[n] \in Nat /\ L[n] <= L[N]
  BY <1>0, <1>3, <1>6, <1>9
<1>13. Len(first[N]) = L[N] /\ first[N] \in Seq(C)
  BY <1>0, <1>5, <1>6
<1>15. Pieces(query, L)
  BY <1>2, <1>11, <1>12, <1>13 DEF Pieces
<1> QED
  BY <1>2, <1>13, <1>15

Plain(c) == c \notin {"%", "_", Escape}

(* A character that is neither a wildcard nor the escape stands for itself. *)
LEMMA EndsOfPlain ==
  ASSUME NEW pattern, NEW text, NEW ends, NEW c, NEW m \in Nat, m # 0,
         pattern[Len(pattern) - m + 1] = c, Plain(c)
  PROVE  EndsStep(pattern, text, ends, m) =
           {j \in 1..Len(text) : j - 1 \in ends[m - 1] /\ text[Len(text) - j + 1] = c}
BY DEF EndsStep, Escape, Plain

(* A wildcard after the escape does so too. *)
LEMMA EndsOfEscaped ==
  ASSUME NEW pattern, NEW text, NEW ends, NEW c, NEW m \in Nat \ {0, 1},
         pattern[Len(pattern) - m + 1] = Escape, pattern[Len(pattern) - (m - 1) + 1] = c
  PROVE  EndsStep(pattern, text, ends, m) =
           {j \in 1..Len(text) : j - 1 \in ends[m - 2] /\ text[Len(text) - j + 1] = c}
BY DEF EndsStep, Escape

LEMMA EndsOfAny ==
  ASSUME NEW pattern, NEW text, NEW ends, NEW m \in Nat, m # 0,
         pattern[Len(pattern) - m + 1] = "%"
  PROVE  EndsStep(pattern, text, ends, m) =
           {j \in 0..Len(text) : \E k \in ends[m - 1] : k <= j}
BY DEF EndsStep, Escape

LEMMA PieceOf ==
  ASSUME NEW S, NEW text \in Seq(S), NEW size \in Nat, NEW n \in 0..Len(text) - size
  PROVE  /\ SubSeq(text, n + 1, n + size) \in Seq(S)
         /\ Len(SubSeq(text, n + 1, n + size)) = size
         /\ \A i \in 1..size : SubSeq(text, n + 1, n + size)[i] = text[n + i]
<1>1. /\ n + 1 \in Int /\ n + size \in Int /\ (n + size) - (n + 1) + 1 = size
      /\ n + 1 <= n + size \/ size = 0
  OBVIOUS
<1>2. \A i \in n + 1..n + size : text[i] \in S
  OBVIOUS
<1>3. /\ SubSeq(text, n + 1, n + size) \in Seq(S)
      /\ Len(SubSeq(text, n + 1, n + size)) =
           IF n + 1 <= n + size THEN (n + size) - (n + 1) + 1 ELSE 0
      /\ \A i \in 1..(n + size) - (n + 1) + 1 :
           SubSeq(text, n + 1, n + size)[i] = text[(n + 1) + i - 1]
  BY <1>1, <1>2, SubSeqProperties
<1>4. Len(SubSeq(text, n + 1, n + size)) = size
  BY <1>1, <1>3
<1>5. \A i \in 1..size : (n + 1) + i - 1 = n + i
  OBVIOUS
<1> QED
  BY <1>1, <1>3, <1>4, <1>5

(* Ends of the text that begin with all of the query but its first n. *)
Rest(query, text, n) ==
  {j \in 0..Len(text) : /\ Len(query) - n <= j
                       /\ \A i \in 1..Len(query) - n :
                            text[Len(text) - j + i] = query[n + i]}

(* One character more of the query, at the front. *)
LEMMA RestBefore ==
  ASSUME NEW query, NEW text, Len(query) \in Nat, Len(text) \in Nat,
         NEW n \in 1..Len(query)
  PROVE  Rest(query, text, n - 1) =
           {j \in 1..Len(text) : /\ j - 1 \in Rest(query, text, n)
                                /\ text[Len(text) - j + 1] = query[n]}
<1> DEFINE N == Len(query)
           M == Len(text)
<1>1. ASSUME NEW j \in 0..M, j \in Rest(query, text, n - 1)
      PROVE  /\ j \in 1..M /\ j - 1 \in Rest(query, text, n)
             /\ text[M - j + 1] = query[n]
  <2>1. N - (n - 1) <= j /\ \A i \in 1..N - (n - 1) : text[M - j + i] = query[(n - 1) + i]
    BY <1>1 DEF Rest
  <2>2. j \in 1..M /\ j - 1 \in 0..M /\ N - n <= j - 1
    BY <2>1
  <2>3. text[M - j + 1] = query[n]
    <3>1. 1 \in 1..N - (n - 1) /\ (n - 1) + 1 = n
      OBVIOUS
    <3> QED
      BY <2>1, <3>1
  <2>4. ASSUME NEW i \in 1..N - n
        PROVE  text[M - (j - 1) + i] = query[n + i]
    <3>1. i + 1 \in 1..N - (n - 1) /\ (n - 1) + (i + 1) = n + i
          /\ M - j + (i + 1) = M - (j - 1) + i
      OBVIOUS
    <3>2. text[M - j + (i + 1)] = query[(n - 1) + (i + 1)]
      BY <2>1, <3>1
    <3> QED
      BY <3>1, <3>2
  <2> QED
    BY <2>2, <2>3, <2>4 DEF Rest
<1>2. ASSUME NEW j \in 1..M, j - 1 \in Rest(query, text, n), text[M - j + 1] = query[n]
      PROVE  j \in Rest(query, text, n - 1)
  <2>1. N - n <= j - 1 /\ \A i \in 1..N - n : text[M - (j - 1) + i] = query[n + i]
    BY <1>2 DEF Rest
  <2>2. j \in 0..M /\ N - (n - 1) <= j
    BY <2>1
  <2>3. ASSUME NEW i \in 1..N - (n - 1)
        PROVE  text[M - j + i] = query[(n - 1) + i]
    <3>1. CASE i = 1
      <4>1. (n - 1) + 1 = n
        OBVIOUS
      <4> QED
        BY <1>2, <3>1, <4>1
    <3>2. CASE i # 1
      <4>1. i - 1 \in 1..N - n /\ n + (i - 1) = (n - 1) + i
            /\ M - (j - 1) + (i - 1) = M - j + i
        BY <3>2
      <4>2. text[M - (j - 1) + (i - 1)] = query[n + (i - 1)]
        BY <2>1, <4>1
      <4> QED
        BY <4>1, <4>2
    <3> QED
      BY <3>1, <3>2
  <2> QED
    BY <2>2, <2>3 DEF Rest
<1>3. \A k : k \in Rest(query, text, n - 1) => k \in 0..M
  BY DEF Rest
<1> QED
  BY <1>1, <1>2, <1>3

(* A search for any query without a backslash, wildcards in it or not, finds *)
(* the texts that contain it and no others: what the comment promises of     *)
(* Vault::search (store.rs:198).                                             *)
THEOREM SearchIsSubstring ==
  ASSUME NEW Chars, NEW query \in Seq(Chars \ {Escape}), NEW text \in Seq(Chars)
  PROVE  Matches(query, text) <=> IsSubstring(query, text)
<1> DEFINE S == Chars \ {Escape}
<1>20. query \in Seq(S) /\ Escape \notin S /\ query \in Seq(Chars)
  <2>1. \A s \in Seq(Chars \ {Escape}) : s \in Seq(Chars)
    OBVIOUS
  <2> QED
    BY <2>1
<1> HIDE DEF S
<1>21. Len(query) \in Nat /\ Len(text) \in Nat
  BY <1>20
<1>22. ASSUME NEW n \in 1..Len(query)
       PROVE  Rest(query, text, n - 1) =
                {j \in 1..Len(text) : /\ j - 1 \in Rest(query, text, n)
                                     /\ text[Len(text) - j + 1] = query[n]}
  BY <1>21, RestBefore
<1>1. PICK L : Pieces(query, L)
  BY <1>20, EscapedPieces
<1> DEFINE N == Len(query)
           M == Len(text)
           E == Escaped(query)
           pattern == Pattern(query)
           P == L[N] + 2
<1>0. /\ N \in Nat /\ M \in Nat /\ N \in 0..N /\ 0 \in 0..N
      /\ \A n \in 1..N : n \in 0..N /\ n - 1 \in 0..N /\ query[n] \in S
  BY <1>20
<1>10. /\ L[N] \in Nat /\ L[0] = 0 /\ Len(E) = L[N] /\ E \in Seq(S \union {Escape})
       /\ \A n \in 0..N : L[n] \in Nat /\ L[n] <= L[N]
  BY <1>0, <1>1, <1>20, EscapedPieces DEF Pieces
<1>2. /\ Len(pattern) = P /\ pattern[1] = "%" /\ pattern[P] = "%"
      /\ \A i \in 1..L[N] : pattern[i + 1] = E[i]
  <2> DEFINE C == S \union {Escape, "%"}
             e == Escaped(query)
  <2>1. e \in Seq(C) /\ <<"%">> \in Seq(C) /\ Len(e) = L[N] /\ L[N] \in Nat
    <3>1. C = (S \union {Escape}) \union {"%"}
      OBVIOUS
    <3>2. \A x \in Seq(S \union {Escape}) : x \in Seq((S \union {Escape}) \union {"%"})
      OBVIOUS
    <3> QED
      BY <1>10, <3>1, <3>2
  <2>2. pattern = <<"%">> \o e \o <<"%">>
    BY DEF Pattern
  <2> HIDE DEF e, pattern, C
  <2>3. \A i \in 1..L[N] : pattern[i + 1] = e[i]
    BY <2>1, <2>2
  <2> QED
    BY <2>1, <2>2, <2>3 DEF e
<1>3. PICK t :
           /\ \A m \in 0..Len(pattern) : t[m] = EndsStep(pattern, text, t, m)
           /\ Like(pattern, text) <=> Len(text) \in t[Len(pattern)]
  <2>1. Len(pattern) \in Nat
    BY <1>10, <1>2
  <2> HIDE DEF pattern
  <2> QED
    BY <2>1, LikeEnds
<1> DEFINE rem(n) == P - 1 - L[n]
           Fits(n) == t[rem(n)] = Rest(query, text, n)
<1> HIDE DEF pattern, E
<1>4. Fits(N)
  <2>1. rem(N) = 1 /\ 1 \in 0..Len(pattern) /\ 0 \in 0..Len(pattern)
        /\ Len(pattern) - 1 + 1 = P
    BY <1>10, <1>2
  <2>2. t[0] = {0}
    BY <1>3, <2>1 DEF EndsStep
  <2>3. t[1] = EndsStep(pattern, text, t, 1)
    BY <1>3, <2>1
  <2>4. t[1] = {j \in 0..M : \E k \in t[1 - 1] : k <= j}
    BY <1>2, <2>1, <2>3, EndsOfAny
  <2>5. t[1] = 0..M
    BY <1>0, <2>2, <2>4
  <2>6. Rest(query, text, N) = 0..M
    BY <1>0 DEF Rest
  <2> QED
    BY <2>1, <2>5, <2>6
<1>5. ASSUME NEW n \in 1..N, Fits(n)
      PROVE  Fits(n - 1)
  <2> DEFINE m == rem(n - 1)
  <2>1. n - 1 \in 0..N /\ n \in 0..N
    BY <1>0
  <2>2. L[n - 1] \in Nat /\ L[n] \in Nat /\ L[N] \in Nat /\ L[n] <= L[N]
        /\ query[n] \in S
    BY <1>0, <1>10, <2>1
  <2>3. CASE query[n] \in {"%", "_"}
    <3>1. L[n] = L[n - 1] + 2 /\ E[L[n - 1] + 1] = Escape /\ E[L[n - 1] + 2] = query[n]
      BY <1>1, <2>3 DEF Pieces, E
    <3>2. /\ m \in Nat /\ m # 0 /\ m # 1 /\ m \in 0..P /\ m - 2 = rem(n)
          /\ L[n - 1] + 1 \in 1..L[N] /\ L[n - 1] + 2 \in 1..L[N]
          /\ P - m + 1 = (L[n - 1] + 1) + 1
          /\ P - (m - 1) + 1 = (L[n - 1] + 2) + 1
      <4> DEFINE a == L[n - 1]
                 b == L[N]
      <4>1. a \in Nat /\ b \in Nat /\ L[n] = a + 2 /\ L[n] <= b
        BY <2>2, <3>1
      <4> HIDE DEF a, b
      <4>2. m = b + 1 - a /\ rem(n) = b + 1 - (a + 2) /\ P = b + 2
        BY <4>1 DEF a, b
      <4> HIDE DEF m, rem, P
      <4>3. /\ m \in Nat /\ m # 0 /\ m # 1 /\ m \in 0..P /\ m - 2 = rem(n)
            /\ a + 1 \in 1..b /\ a + 2 \in 1..b
            /\ P - m + 1 = (a + 1) + 1
            /\ P - (m - 1) + 1 = (a + 2) + 1
        BY <4>1, <4>2
      <4> QED
        BY <4>3 DEF a, b
    <3>6. t[m - 2] = Rest(query, text, n)
      BY <1>5, <3>2
    <3> SUFFICES t[m] = Rest(query, text, n - 1)
      OBVIOUS
    <3> HIDE DEF P, m
    <3>3. pattern[Len(pattern) - m + 1] = Escape /\ pattern[Len(pattern) - (m - 1) + 1] = query[n]
      BY <1>2, <3>1, <3>2
    <3>4. t[m] = EndsStep(pattern, text, t, m)
      BY <1>2, <1>3, <3>2
    <3>5. EndsStep(pattern, text, t, m) =
            {j \in 1..M : j - 1 \in t[m - 2] /\ text[M - j + 1] = query[n]}
      <4>1. m \in Nat \ {0, 1}
        BY <3>2
      <4> QED
        BY <3>3, <4>1, EndsOfEscaped
    <3>7. Rest(query, text, n - 1) =
            {j \in 1..M : j - 1 \in Rest(query, text, n) /\ text[M - j + 1] = query[n]}
      BY <1>22
    <3> QED
      BY <3>4, <3>5, <3>6, <3>7
  <2>4. CASE query[n] \notin {"%", "_"}
    <3>1. L[n] = L[n - 1] + 1 /\ E[L[n - 1] + 1] = query[n]
      BY <1>1, <2>4 DEF Pieces, E
    <3>2. /\ m \in Nat /\ m # 0 /\ m \in 0..P /\ m - 1 = rem(n)
          /\ L[n - 1] + 1 \in 1..L[N]
          /\ P - m + 1 = (L[n - 1] + 1) + 1
      <4> DEFINE a == L[n - 1]
                 b == L[N]
      <4>1. a \in Nat /\ b \in Nat /\ L[n] = a + 1 /\ L[n] <= b
        BY <2>2, <3>1
      <4> HIDE DEF a, b
      <4>2. m = b + 1 - a /\ rem(n) = b + 1 - (a + 1) /\ P = b + 2
        BY <4>1 DEF a, b
      <4> HIDE DEF m, rem, P
      <4>3. /\ m \in Nat /\ m # 0 /\ m \in 0..P /\ m - 1 = rem(n)
            /\ a + 1 \in 1..b
            /\ P - m + 1 = (a + 1) + 1
        BY <4>1, <4>2
      <4> QED
        BY <4>3 DEF a, b
    <3>6. t[m - 1] = Rest(query, text, n)
      BY <1>5, <3>2
    <3> SUFFICES t[m] = Rest(query, text, n - 1)
      OBVIOUS
    <3> HIDE DEF P, m
    <3>3. /\ pattern[Len(pattern) - m + 1] = query[n]
          /\ Plain(query[n])
      BY <1>2, <1>20, <2>2, <2>4, <3>1, <3>2 DEF Plain
    <3>4. t[m] = EndsStep(pattern, text, t, m)
      BY <1>2, <1>3, <3>2
    <3>5. EndsStep(pattern, text, t, m) =
            {j \in 1..M : j - 1 \in t[m - 1] /\ text[M - j + 1] = query[n]}
      BY <3>2, <3>3, EndsOfPlain
    <3>7. Rest(query, text, n - 1) =
            {j \in 1..M : j - 1 \in Rest(query, text, n) /\ text[M - j + 1] = query[n]}
      BY <1>22
    <3> QED
      BY <3>4, <3>5, <3>6, <3>7
  <2> QED
    BY <2>3, <2>4
<1>6. Fits(0)
  <2> HIDE DEF Fits
  <2> DEFINE T == {k \in 0..N : ~ Fits(N - k)}
  <2>1. T = {}
    <3> SUFFICES ASSUME T # {} PROVE FALSE
      OBVIOUS
    <3>1. PICK k \in T : \A l \in T : k <= l
      <4>1. T \subseteq Nat
        OBVIOUS
      <4> HIDE DEF T
      <4> QED
        BY <4>1, Least
    <3>2. k # 0
      <4>1. N - 0 = N
        BY <1>0
      <4> QED
        BY <1>4, <4>1
    <3>3. k - 1 \in 0..N /\ ~ (k <= k - 1) /\ N - (k - 1) \in 1..N
          /\ (N - (k - 1)) - 1 = N - k
      BY <1>0, <3>2
    <3>4. Fits(N - (k - 1))
      BY <3>1, <3>3
    <3>5. Fits((N - (k - 1)) - 1)
      BY <1>5, <3>3, <3>4
    <3> QED
      BY <3>3, <3>5
  <2>2. N \in 0..N /\ N - N = 0
    BY <1>0
  <2> QED
    BY <2>1, <2>2
<1>7. Matches(query, text) <=> \E k \in Rest(query, text, 0) : k <= M
  <2>1. /\ P \in Nat /\ P # 0 /\ P \in 0..P /\ P - P + 1 = 1 /\ rem(0) = P - 1
    BY <1>10
  <2>2. t[P] = EndsStep(pattern, text, t, P)
    BY <1>2, <1>3, <2>1
  <2> HIDE DEF P, rem
  <2>3. t[P] = {j \in 0..M : \E k \in t[P - 1] : k <= j}
    BY <1>2, <2>1, <2>2, EndsOfAny
  <2>4. t[P - 1] = Rest(query, text, 0)
    BY <1>6, <2>1
  <2>5. Matches(query, text) <=> M \in t[P]
    BY <1>2, <1>3 DEF Matches, pattern
  <2> QED
    BY <1>0, <2>3, <2>4, <2>5
<1>8. (\E k \in Rest(query, text, 0) : k <= M) => IsSubstring(query, text)
  <2> SUFFICES ASSUME NEW k \in Rest(query, text, 0)
               PROVE  IsSubstring(query, text)
    OBVIOUS
  <2>1. k \in 0..M /\ N <= k /\ \A i \in 1..N : text[M - k + i] = query[i]
    BY <1>0 DEF Rest
  <2>2. PICK n \in 0..Len(text) - Len(query) : n = M - k
    <3>1. M - k \in 0..M - N
      BY <1>0, <2>1
    <3> QED
      BY <3>1
  <2> DEFINE cut == SubSeq(text, n + 1, n + N)
  <2>3. cut \in Seq(Chars) /\ Len(cut) = N /\ \A i \in 1..N : cut[i] = text[n + i]
    BY <1>0, PieceOf
  <2>4. cut = query
    <3> HIDE DEF cut
    <3>1. \A i \in 1..N : cut[i] = query[i]
      BY <2>1, <2>2, <2>3
    <3> QED
      BY <1>20, <2>3, <3>1, SeqEqual
  <2> QED
    BY <2>2, <2>4 DEF IsSubstring
<1>9. IsSubstring(query, text) => \E k \in Rest(query, text, 0) : k <= M
  <2> SUFFICES ASSUME NEW n \in 0..M - N, SubSeq(text, n + 1, n + N) = query
               PROVE  \E k \in Rest(query, text, 0) : k <= M
    BY DEF IsSubstring
  <2>1. n \in 0..Len(text) - Len(query) /\ Len(query) \in Nat
    BY <1>0
  <2>2. \A i \in 1..N : query[i] = text[n + i]
    <3>1. \A i \in 1..Len(query) : SubSeq(text, n + 1, n + Len(query))[i] = text[n + i]
      BY <2>1, PieceOf
    <3> QED
      BY <3>1
  <2>3. M - n \in 0..M /\ N <= M - n /\ M - (M - n) = n
    BY <1>0
  <2>4. M - n \in Rest(query, text, 0)
    BY <1>0, <2>2, <2>3 DEF Rest
  <2> QED
    BY <2>3, <2>4
<1> QED
  BY <1>7, <1>8, <1>9

=============================================================================
