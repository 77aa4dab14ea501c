------------------------------ MODULE MCRowZones ------------------------------
(***************************************************************************)
(* An instance of RowZones for TLC, and the pure functions compared with    *)
(* what they should compute, over all short inputs.                         *)
(***************************************************************************)
EXTENDS RowZones, EntrySearch

Entry(title, url, username) == [title |-> title, url |-> url, username |-> username]

OneEntry == {Entry("a", NoText, NoText)}
OneLabel == {"a"}
TwoAmounts == {1, -2}
OneText == {"a"}

\* A row with blanks for a title, and nothing else, is skipped; one with a user name
\* gets that; then a refused row.
MCCsvFiles ==
  {<<Entry(Blank, NoText, "a"), BadRow, Entry("a", "a", "a")>>,
   <<Entry(Blank, NoText, Blank), Entry(NoText, "a", NoText)>>}
MCKdbxFiles == {<<Entry(NoText, "a", NoText), Entry(Blank, NoText, NoText)>>}

Chars == {"a", "b", "%", "_"}

ShortTexts(chars, n) == UNION {[1..m -> chars] : m \in 0..n}

\* A query without a backslash finds the texts that it is a part of, percent signs
\* and underscores included.
ASSUME SearchAssumption ==
  \A query \in ShortTexts(Chars, 2), text \in ShortTexts(Chars \union {Escape}, 3) :
    Matches(query, text) <=> IsSubstring(query, text)

\* With a backslash it does not find it.
ASSUME BackslashAssumption ==
  ~Matches(<<"a", Escape, "b">>, <<"a", Escape, "b">>) /\ Matches(<<"a", Escape, "b">>, <<"a", "b">>)

\* export_csv writes the rows that there are.
ASSUME ExportAssumption ==
  \A entry \in NewEntry : ExportCsv([id \in {2} |-> [data |-> entry, tag |-> 1]], {1, 2}) = {entry}

\* What export_csv writes, import_csv reads back, if a field other than the password
\* has more than blanks in it.
ASSUME RoundTripAssumption ==
  \A entry \in NewEntry :
    LET back == CsvEntries(<<entry>>)
    IN  IF {entry.title, entry.url, entry.username} \subseteq {NoText, Blank}
        THEN back = <<>>
        ELSE /\ Len(back) = 1
             /\ back[1].url = Trim(entry.url) /\ back[1].username = Trim(entry.username)
             /\ Trim(entry.title) # NoText => back[1].title = Trim(entry.title)

=============================================================================
