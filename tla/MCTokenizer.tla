---------------------------- MODULE MCTokenizer ----------------------------
(* Every text over each of a few alphabets: the characters that open, close *)
(* and escape one kind of lexeme, with a semicolon to be inside or outside. *)
EXTENDS Tokenizer

CONSTANT MaxLen  \* of a text, in characters

Over(alphabet, len) == UNION {[1 .. k -> alphabet] : k \in 0 .. len}
MCTexts ==
  Over({"'", "\\", "e", ";"}, MaxLen + 1)
    \cup Over({"-", "/", "*", "\n", ";"}, MaxLen + 1)
    \cup Over({"$", "a", "1", ";"}, MaxLen + 1)
    \cup Over({"u", "&", "\"", "'", " "}, MaxLen)
    \cup Over({"1", "e", ".", "+", "-", "E"}, MaxLen)
    \cup Over({"b", "'", "\"", "_", ";", "\t"}, MaxLen)
    \cup Over({"a", "nbsp", " ", "-", ";"}, MaxLen)

\* Queries, SELECT a FROM t cut short, with what may follow them.
MCLockTexts ==
  {<<"select", " ", "a", " ">> \o t : t \in Over({"for", "update", " ", "nbsp", ";"}, MaxLen)}
=============================================================================
