------------------------------ MODULE EntrySearch ------------------------------
(***************************************************************************)
(* Vault::search (store.rs): the pattern it makes of a query, and what      *)
(* SQLite's LIKE with ESCAPE '\' does with it.  A text is a sequence of     *)
(* characters; the case of letters is left out.                             *)
(***************************************************************************)
EXTENDS Naturals, Sequences

Escape == "\\"

\* replace('%', "\\%").replace('_', "\\_"): the escape character itself is not escaped.
EscapedChar(c) == IF c \in {"%", "_"} THEN <<Escape, c>> ELSE <<c>>

Escaped(query) ==
  LET first[n \in 0..Len(query)] ==
        IF n = 0 THEN <<>> ELSE first[n - 1] \o EscapedChar(query[n])
  IN  first[Len(query)]

Pattern(query) == <<"%">> \o Escaped(query) \o <<"%">>

\* LIKE: % is any text, _ any character, and a character after the escape is itself.
\* tails[m]: the lengths of the ends of the text that fit the last m of the pattern.
Like(pattern, text) ==
  LET From(s, m) == s[Len(s) - m + 1]
      Next1(ends) == {n \in 1..Len(text) : n - 1 \in ends}
      tails[m \in 0..Len(pattern)] ==
        IF m = 0 THEN {0}
        ELSE CASE From(pattern, m) = "%" -> {n \in 0..Len(text) : \E k \in tails[m - 1] : k <= n}
               [] From(pattern, m) = "_" -> Next1(tails[m - 1])
               [] From(pattern, m) = Escape ->
                    IF m = 1 THEN {}
                    ELSE {n \in Next1(tails[m - 2]) : From(text, n) = From(pattern, m - 1)}
               [] OTHER -> {n \in Next1(tails[m - 1]) : From(text, n) = From(pattern, m)}
  IN  Len(text) \in tails[Len(pattern)]

\* One column of the WHERE clause.
Matches(query, text) == Like(Pattern(query), text)

\* What the comment says: a substring search.
IsSubstring(query, text) ==
  \E n \in 0..Len(text) - Len(query) : SubSeq(text, n + 1, n + Len(query)) = query

=============================================================================
