------------------------------ MODULE FadePrefix ------------------------------
(***************************************************************************)
(* The one statement of the store that computes paths as text:             *)
(* rename_prefix (src/metadata.rs).  A text is a sequence of characters;   *)
(* SQLite's substr and LIKE count characters, the suffix_start the code    *)
(* passes counts bytes.                                                    *)
(***************************************************************************)
EXTENDS Naturals, Sequences, FiniteSetsExt

CONSTANTS
    Width,   \* Width[c]: the bytes of the character c in UTF-8
    Lower    \* Lower[c]: its lower case if it is an ASCII letter, else itself

ASSUME WidthAssumption == \A c \in DOMAIN Width : Width[c] \in Nat \ {0}

Chars == DOMAIN Width
Slash == "/"

\* str::len
Bytes(text) ==
    LET upto[n \in 0..Len(text)] == IF n = 0 THEN 0 ELSE upto[n - 1] + Width[text[n]]
    IN upto[Len(text)]

StartsWith(text, prefix) ==
    Len(prefix) <= Len(text) /\ SubSeq(text, 1, Len(prefix)) = prefix

\* text LIKE pattern: '%' stands for any characters, '_' for one, and ASCII
\* letters are the same in either case.
Like(text, pattern) ==
    LET from[j \in 1..(Len(pattern) + 1)] ==   \* the places of text that match from j on
            {i \in 1..(Len(text) + 1) :
                IF j > Len(pattern) THEN i > Len(text)
                ELSE IF pattern[j] = "%" THEN \E k \in from[j + 1] : i <= k
                ELSE /\ i <= Len(text)
                     /\ pattern[j] = "_" \/ Lower[pattern[j]] = Lower[text[i]]
                     /\ i + 1 \in from[j + 1]}
    IN 1 \in from[1]

\* substr(text, start)
Substr(text, start) == SubSeq(text, start, Len(text))

\* Mutant: the slash is counted twice.
SuffixStartLate(from) == Bytes(from) + 3

\* from_prefix.len() + 1
SuffixStart(from) == Bytes(from) + 2

\* What the UPDATE makes of the path of one row.
RenamePrefix(path, from, to) ==
    IF Like(path, from \o <<Slash, "%">>)
      THEN to \o <<Slash>> \o Substr(path, SuffixStart(from))
      ELSE path

\* What fs::rename makes of it: what is below from is below to afterwards.
RenameBelow(path, from, to) ==
    IF StartsWith(path, from \o <<Slash>>)
      THEN to \o SubSeq(path, Len(from) + 1, Len(path))
      ELSE path

------------------------------------------------------------------------------
(* Properties of one call, for a destination that does not exist *)

\* The rows below a renamed directory get the paths their files get, and no
\* other row changes (test renames_directory_prefix_records).
RenamesLiterally(path, from, to) ==
    RenamePrefix(path, from, to) = RenameBelow(path, from, to)

\* The statement goes wrong in two cases and in no other: the directory's name
\* has a character of several bytes and the row is below it, or the row is not
\* below it but LIKE takes the name for a pattern that matches it.
RenamesLiterallyUnless(path, from, to) ==
    LET below == StartsWith(path, from \o <<Slash>>)
        wide == Bytes(from) # Len(from)
        taken == Like(path, from \o <<Slash, "%">>)
    IN RenamesLiterally(path, from, to) <=> ~(below /\ wide) /\ ~(~below /\ taken)
=============================================================================
