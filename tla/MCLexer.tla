------------------------------ MODULE MCLexer ------------------------------
(***************************************************************************)
(* The scanner on every text of up to MaxLen characters over an alphabet   *)
(* with one letter, one digit, the punctuation ';', '-', '/', '*', a       *)
(* space, a newline and a character of no class ('?'), and on every       *)
(* keyword of lexer.cpp's table with its neighbours.  The alphabet spells  *)
(* line and block comments (terminated or not), negative and positive      *)
(* numbers, a bare '-', identifiers followed by digits, and tokens on a    *)
(* second line.  Alpha and Digits hold the letters and digits the keyword  *)
(* texts use.                                                              *)
(***************************************************************************)
EXTENDS Lexer

MaxLen == 4

Alphabet == {"a", "1", "-", ";", "/", "*", " ", "\n", "?"}

MCSources == UNION {[1..n -> Alphabet] : n \in 0..MaxLen}

\* Every keyword, and the words next to one: a longer identifier, a prefix,
\* another case, a keyword followed by '_' and one followed by ';'.
KeywordTexts ==
    {Chars(k) : k \in DOMAIN KeywordTable}
      \cup {Chars(w) : w \in {"int80", "int", "Enum", "bool_", "byte;"}}

MCTexts == MCSources \cup KeywordTexts

Ref == INSTANCE ScannerSpec

\* The tokens spec.md 4.1 gives each source, with and without locations
\* (computed once per source: the source never changes).
TokensOf == [s \in MCTexts |-> Ref!Tokens(s)]
KindsOf  == [s \in MCTexts |-> [i \in DOMAIN TokensOf[s] |-> Ref!Unlocated(TokensOf[s][i])]]

Unlocated == INSTANCE TokenStream
                WITH stream <- KindsOf[source],
                     last <- IF last = NoToken THEN NoToken ELSE Ref!Unlocated(last)

Located == INSTANCE TokenStream WITH stream <- TokensOf[source]

(***************************************************************************)
(* Properties.                                                             *)
(***************************************************************************)

\* advance()'s running line_ and column_ always agree with the position:
\* line is one more than the newlines before position_, column counts the
\* bytes since the last of them (comment skipping and lookahead included).
CursorLocation ==
    LET l == Ref!LocOf(source, cur.pos + 1) IN cur.line = l.line /\ cur.col = l.col

ScannerLocations == Located!Spec

=============================================================================
