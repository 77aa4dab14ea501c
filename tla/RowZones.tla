-------------------------------- MODULE RowZones --------------------------------
(***************************************************************************)
(* The zones that are a table of rows: accounts (store.rs), seeds           *)
(* (seeds.rs) and the ledger (ledger.rs), with what imports rows            *)
(* (import.rs).  A zone that is open lives in memory; the Shell holds the   *)
(* image of it that was last saved, the counter of its AUTOINCREMENT        *)
(* included.  A command changes the table in memory and then saves it,      *)
(* which may fail; locking throws the memory away.  The page keeps the ids  *)
(* of the rows that it drew last and may send them much later.              *)
(*                                                                         *)
(* Abstractions.  One zone of each kind.  Of an entry there are the fields  *)
(* that decide whether an import keeps it; a seed is its label, a           *)
(* transaction its amount.  A field is no text, blanks or a proper text.    *)
(* Dates, searching and the order of lists change nothing.                  *)
(***************************************************************************)
EXTENDS Integers, Sequences, FiniteSets, Functions

CONSTANTS
  Texts,        (* proper texts: no blanks around them                      *)
  FormEntries,  (* entries that the page's form gives: no blank title       *)
  Labels,       (* labels of seeds                                          *)
  Amounts,      (* amounts that a person enters                             *)
  MaxCents,     (* the largest i64                                          *)
  CsvFiles,     (* CSV files, as sequences of rows                          *)
  KdbxFiles,    (* KeePass databases: their entries, group after group      *)
  Overflow,     (* SQLite's error "integer overflow"                        *)
  BadRow,       (* a row that the csv crate refuses                         *)
  MaxInserts    (* bound on the rows ever inserted                          *)

Zones == {"accounts", "seeds", "ledger"}

NoText == ""
Blank == " "
Fields == Texts \union {NoText, Blank}
NewEntry == [title : Fields, url : Fields, username : Fields]

Data == [accounts |-> NewEntry, seeds |-> Labels, ledger |-> Amounts]

-----------------------------------------------------------------------------
(* Imports: which entries a file is worth *)

Trim(text) == IF text = Blank THEN NoText ELSE text

\* import_csv, one row: the URL, then the user name stand in for a title.
CsvEntry(row) ==
  LET title == Trim(row.title)  url == Trim(row.url)  username == Trim(row.username)
  IN  [title    |-> IF title # NoText THEN title ELSE IF url # NoText THEN url ELSE username,
       url      |-> url,
       username |-> username]

\* Nothing identifiable about a row: it is skipped, whatever its password.
HasTitle(entry) == entry.title # NoText

\* The rows up to one that is refused, where import_csv ends.
Readable(file) ==
  LET good == {n \in 0..Len(file) : \A i \in 1..n : file[i] # BadRow}
  IN  SubSeq(file, 1, CHOOSE n \in good : \A m \in good : m <= n)

\* What the loop of an import adds, one after the other.
Titled(entries) ==
  LET added[n \in 0..Len(entries)] ==
        IF n = 0 THEN <<>>
        ELSE IF HasTitle(entries[n]) THEN Append(added[n - 1], entries[n])
        ELSE added[n - 1]
  IN  added[Len(entries)]

CsvEntries(file) ==
  LET good == Readable(file)
  IN  Titled([i \in 1..Len(good) |-> CsvEntry(good[i])])

\* import_group, one entry: fields as they are, and only the user name stands in.
KdbxEntry(entry) ==
  [entry EXCEPT !.title = IF entry.title = NoText THEN entry.username ELSE entry.title]

KdbxEntries(file) == Titled([i \in 1..Len(file) |-> KdbxEntry(file[i])])

\* export_csv: of the ids that it is given, those that are there.
ExportCsv(table, ids) == {table[id].data : id \in ids \intersect DOMAIN table}

ASSUME RowsAssumption ==
  /\ NoText \notin Texts /\ Blank \notin Texts
  /\ FormEntries \subseteq NewEntry /\ \A entry \in FormEntries : entry.title \in Texts
  /\ Amounts \subseteq Int /\ Overflow \notin Int
  /\ MaxCents \in Nat /\ MaxInserts \in Nat
  /\ BadRow \notin NewEntry
  /\ CsvFiles \subseteq Seq(NewEntry \union {BadRow})
  /\ KdbxFiles \subseteq Seq(NewEntry)

-----------------------------------------------------------------------------
VARIABLES
  open,        (* the zones that have a session                             *)
  rows, seq,   (* in memory: the table of each zone and its last id given   *)
  savedRows, savedSeq,  (* in the Shell's blob                              *)
  shown,       (* the ids that the page drew last, each with its row's tag  *)
  snapshot,    (* the ledger as drawn last: its amounts and their total     *)
  inserts,     (* history: rows inserted; each gets the next tag            *)
  kept,        (* history: what the Shell ever held, by zone, id, tag       *)
  acked        (* history: rows, by zone and id, that a command answered to *)
               (* have stored, and that none was asked to change since      *)

memory == <<open, rows, seq>>
blob == <<savedRows, savedSeq>>
page == <<shown, snapshot>>
history == <<inserts, kept, acked>>
vars == <<memory, blob, page, history>>

Nothing == <<>>

Init ==
  /\ open = {}
  /\ rows = [z \in Zones |-> Nothing] /\ seq = [z \in Zones |-> 0]
  /\ savedRows = rows /\ savedSeq = seq
  /\ shown = [z \in Zones |-> Nothing]
  /\ snapshot = [amounts |-> Nothing, total |-> 0]
  /\ inserts = 0 /\ kept = {}
  /\ acked = [z \in Zones |-> Nothing]

-----------------------------------------------------------------------------
(* The closures of with_accounts_zone and its three siblings: change the    *)
(* table, then save it (persist_zone)                                       *)

Without(f, ids) == Restrict(f, DOMAIN f \ ids)

\* Rows of a table that a history speaks of: the changed ones where they remain.
Stored(z, table, ids) ==
  [id \in (DOMAIN acked[z] \ ids) \union (DOMAIN table \intersect ids) |->
     IF id \in ids THEN table[id] ELSE acked[z][id]]

Holding(z, id, tag) == [id |-> id, tag |-> tag, zone |-> z]

Saves(z, table, last, ids) ==
  /\ savedRows' = [savedRows EXCEPT ![z] = table]
  /\ savedSeq' = [savedSeq EXCEPT ![z] = last]
  /\ kept' = kept \union {Holding(z, id, table[id].tag) : id \in DOMAIN table}
  /\ acked' = [acked EXCEPT ![z] = Stored(z, table, ids)]

\* Not saved, and the user is told: the Shell is locked, or the disk is full.  Memory
\* keeps the change.
Unsaved(z, ids) ==
  /\ acked' = [acked EXCEPT ![z] = Without(acked[z], ids)]
  /\ UNCHANGED <<blob, kept>>

Changes(z, table, last) ==
  /\ z \in open
  /\ rows' = [rows EXCEPT ![z] = table]
  /\ seq' = [seq EXCEPT ![z] = last]
  /\ UNCHANGED <<open, page>>

\* Mutant: the answer does not wait for the save.
MutMutates(z, table, last, ids) ==
  /\ Changes(z, table, last)
  /\ \/ Saves(z, table, last, ids)
     \/ /\ acked' = [acked EXCEPT ![z] = Stored(z, table, ids)]
        /\ UNCHANGED <<blob, kept>>

Mutates(z, table, last, ids) ==
  /\ Changes(z, table, last)
  /\ Saves(z, table, last, ids) \/ Unsaved(z, ids)

\* Mutant: without AUTOINCREMENT, SQLite goes on from the largest id in the table.
MutLastId(z) ==
  CHOOSE n \in {0} \union DOMAIN rows[z] : \A id \in DOMAIN rows[z] : id <= n

\* The counter of AUTOINCREMENT.
LastId(z) == seq[z]

\* INSERT, once or many times.
NewIds(z, new) == LastId(z) + 1..LastId(z) + Len(new)

Inserted(z, new) ==
  [id \in DOMAIN rows[z] \union NewIds(z, new) |->
     IF id \in NewIds(z, new)
     THEN [data |-> new[id - LastId(z)], tag |-> inserts + (id - LastId(z))]
     ELSE rows[z][id]]

Inserts(z, new) ==
  /\ inserts + Len(new) <= MaxInserts
  /\ Mutates(z, Inserted(z, new), LastId(z) + Len(new), NewIds(z, new))
  /\ inserts' = inserts + Len(new)

\* An id that the page knows; if no row has it the command is refused.
Found(z, id) == id \in DOMAIN shown[z] \intersect DOMAIN rows[z]

Updates(z, id, data) ==
  /\ Found(z, id)
  /\ Mutates(z, [rows[z] EXCEPT ![id].data = data], seq[z], {id})
  /\ UNCHANGED inserts

Deletes(z, id) ==
  /\ Found(z, id)
  /\ Mutates(z, Without(rows[z], {id}), seq[z], {id})
  /\ UNCHANGED inserts

\* A list of all rows, which the page draws.
Tags(z) == [id \in DOMAIN rows[z] |-> rows[z][id].tag]

Lists(z) ==
  /\ z \in open
  /\ shown' = [shown EXCEPT ![z] = Tags(z)]
  /\ UNCHANGED <<memory, blob, history>>

-----------------------------------------------------------------------------
(* Accounts *)

AddEntry(entry) == Inserts("accounts", <<entry>>)
UpdateEntry(id, entry) == Updates("accounts", id, entry)
DeleteEntry(id) == Deletes("accounts", id)
ListEntries == Lists("accounts") /\ UNCHANGED snapshot

\* A row that is refused ends the command before the save; the rows before it stay.
ImportCsv(file) ==
  LET new == CsvEntries(file)
  IN  IF \A i \in DOMAIN file : file[i] # BadRow
      THEN Inserts("accounts", new)
      ELSE /\ inserts + Len(new) <= MaxInserts
           /\ Changes("accounts", Inserted("accounts", new), LastId("accounts") + Len(new))
           /\ Unsaved("accounts", {})
           /\ inserts' = inserts + Len(new)

\* The file is decrypted as a whole before the first entry.
ImportKdbx(file) == Inserts("accounts", KdbxEntries(file))

-----------------------------------------------------------------------------
(* Seeds *)

AddSeed(label) == Inserts("seeds", <<label>>)
UpdateSeed(id, label) == Updates("seeds", id, label)
DeleteSeed(id) == Deletes("seeds", id)
ListSeeds == Lists("seeds") /\ UNCHANGED snapshot

-----------------------------------------------------------------------------
(* The ledger *)

AddTransaction(amount) == Inserts("ledger", <<amount>>)
UpdateTransaction(id, amount) == Updates("ledger", id, amount)
DeleteTransaction(id) == Deletes("ledger", id)

\* What SUM has added up after the rows with the first n ids.
Running(amounts, last) ==
  LET sum[n \in 0..last] ==
        IF n = 0 THEN 0
        ELSE sum[n - 1] + (IF n \in DOMAIN amounts THEN amounts[n] ELSE 0)
  IN  sum

InWord(n) == -MaxCents - 1 <= n /\ n <= MaxCents

Wrapped(n) == ((n + MaxCents + 1) % (2 * (MaxCents + 1))) - MaxCents - 1

\* Mutant: the sum wraps around.
MutTotalCents(amounts, last) == Wrapped(Running(amounts, last)[last])

\* SUM over integers that overflow is an error, wherever it happens on the way.
TotalCents(amounts, last) ==
  LET sum == Running(amounts, last)
  IN  IF \A n \in 0..last : InWord(sum[n]) THEN sum[last] ELSE Overflow

\* list_transactions_with_total; an error sends the page to the desktop.
ListTransactions ==
  LET amounts == [id \in DOMAIN rows["ledger"] |-> rows["ledger"][id].data]
      total == TotalCents(amounts, seq["ledger"])
  IN  /\ total # Overflow
      /\ Lists("ledger")
      /\ snapshot' = [amounts |-> amounts, total |-> total]

-----------------------------------------------------------------------------
(* Sessions *)

\* Mutant: the counter of AUTOINCREMENT starts anew.
MutOpenZone(z) ==
  /\ open' = open \union {z}
  /\ rows' = [rows EXCEPT ![z] = savedRows[z]]
  /\ seq' = [seq EXCEPT ![z] = 0]
  /\ UNCHANGED <<blob, page, history>>

\* open_zone reads the blob, also when a session is there already.
OpenZone(z) ==
  /\ open' = open \union {z}
  /\ rows' = [rows EXCEPT ![z] = savedRows[z]]
  /\ seq' = [seq EXCEPT ![z] = savedSeq[z]]
  /\ UNCHANGED <<blob, page, history>>

\* lock_zone, lock_shell, the watcher.
LockZone(z) ==
  /\ z \in open
  /\ open' = open \ {z}
  /\ rows' = [rows EXCEPT ![z] = Nothing]
  /\ seq' = [seq EXCEPT ![z] = 0]
  /\ UNCHANGED <<blob, page, history>>

\* The process ends, and the page with it.
Restart ==
  /\ open # {}
  /\ open' = {}
  /\ rows' = [z \in Zones |-> Nothing] /\ seq' = [z \in Zones |-> 0]
  /\ shown' = [z \in Zones |-> Nothing]
  /\ snapshot' = [amounts |-> Nothing, total |-> 0]
  /\ UNCHANGED <<blob, history>>

Next ==
  \/ \E entry \in FormEntries :
       AddEntry(entry) \/ \E id \in DOMAIN shown["accounts"] : UpdateEntry(id, entry)
  \/ \E label \in Labels :
       AddSeed(label) \/ \E id \in DOMAIN shown["seeds"] : UpdateSeed(id, label)
  \/ \E amount \in Amounts :
       \/ AddTransaction(amount)
       \/ \E id \in DOMAIN shown["ledger"] : UpdateTransaction(id, amount)
  \/ \E id \in DOMAIN shown["accounts"] : DeleteEntry(id)
  \/ \E id \in DOMAIN shown["seeds"] : DeleteSeed(id)
  \/ \E id \in DOMAIN shown["ledger"] : DeleteTransaction(id)
  \/ ListEntries \/ ListSeeds \/ ListTransactions
  \/ \E file \in CsvFiles : ImportCsv(file)
  \/ \E file \in KdbxFiles : ImportKdbx(file)
  \/ \E z \in Zones : OpenZone(z) \/ LockZone(z)
  \/ Restart

Spec == Init /\ [][Next]_vars

-----------------------------------------------------------------------------
(* Properties *)

IsTable(z, table, last) ==
  /\ DOMAIN table \subseteq 1..last
  /\ \A id \in DOMAIN table : table[id] \in [data : Data[z], tag : 1..inserts]

\* The types of the variables.
TypeOK ==
  /\ open \subseteq Zones /\ inserts \in 0..MaxInserts
  /\ seq \in [Zones -> Nat] /\ savedSeq \in [Zones -> Nat]
  /\ DOMAIN rows = Zones /\ DOMAIN savedRows = Zones
  /\ DOMAIN shown = Zones /\ DOMAIN acked = Zones
  /\ kept \subseteq [id : Nat, tag : Nat, zone : Zones]
  /\ \A z \in Zones :
       /\ IsTable(z, rows[z], seq[z])
       /\ IsTable(z, savedRows[z], savedSeq[z])
       /\ DOMAIN shown[z] \subseteq Nat \ {0} /\ \A id \in DOMAIN shown[z] : shown[z][id] \in 1..inserts

\* An id that the page drew, and sends much later, means the row that it was drawn
\* for or none: an update or a deletion never hits another row that got the same id,
\* after any failed saves, locks and openings.  The exception is a row that no save
\* ever wrote: its id goes to another when the zone is opened again.
StaleIdsMiss ==
  \A z \in open : \A id \in DOMAIN shown[z] \intersect DOMAIN rows[z] :
    rows[z][id].tag = shown[z][id] \/ Holding(z, id, shown[z][id]) \notin kept

\* A row that a command said it had stored, and that nobody asked to change since, is
\* in the Shell: whatever failed in between and however often the zone was locked.
AcknowledgedIsSaved ==
  \A z \in Zones : \A id \in DOMAIN acked[z] :
    id \in DOMAIN savedRows[z] /\ savedRows[z][id] = acked[z][id]

\* The total on the screen is that of the rows on the screen, in whole numbers: where
\* the sum has no 64-bit value there is an error instead.
SnapshotIsTrue == snapshot.total = SumFunction(snapshot.amounts)

-----------------------------------------------------------------------------
(* The inductive invariant *)

\* The Shell's counter is past every id that it ever held.
KeptBelow == \A k \in kept : k.id <= savedSeq[k.zone]

SavedAreKept ==
  \A z \in Zones : \A id \in DOMAIN savedRows[z] : Holding(z, id, savedRows[z][id].tag) \in kept

\* An id that the Shell ever held names one row for ever.
OneRowPerId == \A k, l \in kept : k.zone = l.zone /\ k.id = l.id => k.tag = l.tag

\* So it does in memory, where the counter is never behind.
MemoryFits ==
  \A z \in open :
    /\ savedSeq[z] <= seq[z]
    /\ \A k \in kept : k.zone = z /\ k.id \in DOMAIN rows[z] => k.tag = rows[z][k.id].tag

\* What was acknowledged is in memory too, until somebody asks for a change.
AcknowledgedInMemory ==
  \A z \in open : \A id \in DOMAIN acked[z] :
    id \in DOMAIN rows[z] /\ rows[z][id] = acked[z][id]

IInv ==
  /\ TypeOK /\ KeptBelow /\ SavedAreKept /\ OneRowPerId /\ MemoryFits
  /\ AcknowledgedInMemory /\ AcknowledgedIsSaved

=============================================================================
