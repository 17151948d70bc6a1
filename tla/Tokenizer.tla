----------------------------- MODULE Tokenizer -----------------------------
(***************************************************************************)
(* The tokenizer of the SQL classifier (internal/sqlguard/tokenize.go) and *)
(* what Classify cuts off the text it returns. A text is a sequence of     *)
(* one-character strings, positions count from 1; one action is one turn   *)
(* of the loop of tokenize, one action per case of its switch. TLC stops   *)
(* at a read outside a sequence, so a run that passes also shows that no   *)
(* text of the instance makes the code index out of range. "nbsp" stands   *)
(* for Unicode white space: its bytes are letters to the tokenizer and     *)
(* blanks to strings.TrimSpace. A keyword stands for its run of letters.   *)
(***************************************************************************)
EXTENDS Integers, Sequences, FiniteSetsExt

CONSTANT Texts

ASSUME TextsAssumption == \A t \in Texts : t \in Seq(STRING)

VARIABLES
  text,  \* the text being tokenized
  i,     \* the position of the next character
  toks,  \* the tokens so far: [kind, text, pos]
  at,    \* "scan", "done" or "rejected"
  first, \* once Classify has cut the text: the tokens it had, else <<>>
  clean  \* nothing that was cut off was a letter to the tokenizer

vars == <<text, i, toks, at, first, clean>>

isSpace(c) == c \in {" ", "\t", "\n", "\r", "\f"}
isDigit(c) == c \in {"0", "1"}
isIdentStart(c) ==
  c \in {"_", "a", "b", "e", "E", "u", "U", "nbsp", "select", "for", "update"}
isIdentPart(c) == isIdentStart(c) \/ isDigit(c) \/ c = "$"
ToLower(c) == CASE c = "E" -> "e" [] c = "U" -> "u" [] OTHER -> c

n == Len(text)

\* sql[j] is c, which includes that there is a character at j.
Is(j, c) == j <= n /\ text[j] = c

-----------------------------------------------------------------------------
(* The helpers return the position after what they skip, 0 for none. *)

\* skip[<<j, depth>>]: at position j, depth comments deep.
skipBlockComment(start) ==
  LET skip[x \in (1 .. n + 1) \X Int] ==
        LET j == x[1] depth == x[2]
        IN IF j + 1 > n THEN 0
           ELSE IF text[j] = "/" /\ text[j + 1] = "*" THEN skip[<<j + 2, depth + 1>>]
           ELSE IF text[j] = "*" /\ text[j + 1] = "/"
                THEN IF depth = 1 THEN j + 2 ELSE skip[<<j + 2, depth - 1>>]
           ELSE skip[<<j + 1, depth>>]
  IN skip[<<start, 0>>]

\* Mutant of skipQuoted: a doubled quote ends the literal.
skipQuotedOnce(start, q) ==
  LET skip[j \in 1 .. n + 1] ==
        IF j > n THEN 0 ELSE IF text[j] = q THEN j + 1 ELSE skip[j + 1]
  IN skip[start]

skipQuoted(start, q) ==
  LET skip[j \in 1 .. n + 1] ==
        IF j > n THEN 0
        ELSE IF text[j] # q THEN skip[j + 1]
        ELSE IF Is(j + 1, q) THEN skip[j + 2]
        ELSE j + 1
  IN skip[start]

skipEscapedString(start) ==
  LET skip[j \in 1 .. n + 2] ==
        IF j > n THEN 0
        ELSE IF text[j] = "\\" THEN skip[j + 2]
        ELSE IF text[j] = "'"
             THEN IF Is(j + 1, "'") THEN skip[j + 2] ELSE j + 1
        ELSE skip[j + 1]
  IN skip[start]

\* The first position from start on that is not one of the run's.
RunEnd(start, run) == Min({j \in start .. n + 1 : j \notin run})

Digits(start) == RunEnd(start, {j \in start .. n : isDigit(text[j])})

\* strings.Index: the first occurrence of d at or after start, 0 for none.
Index(start, d) ==
  LET found == {j \in start .. n + 1 - Len(d) : SubSeq(text, j, j + Len(d) - 1) = d}
  IN IF found = {} THEN 0 ELSE Min(found)

\* "$1", "$tag$...$tag$", or a lone "$".
scanDollar(start) ==
  IF start < n /\ isDigit(text[start + 1])
  THEN [kind |-> "param", end |-> Digits(start + 1)]
  ELSE LET close == RunEnd(start + 1, {j \in start + 1 .. n :
                                           \/ isIdentStart(text[j])
                                           \/ j > start + 1 /\ isDigit(text[j])})
           delim == SubSeq(text, start, close)
           next  == Index(close + 1, delim)
       IN IF ~Is(close, "$") THEN [kind |-> "punct", end |-> start + 1]
          ELSE [kind |-> "string", end |-> IF next = 0 THEN 0 ELSE next + Len(delim)]

\* strings.ReplaceAll(s, `""`, `"`)
Undouble(s) ==
  LET rest[j \in 1 .. Len(s) + 2] ==
        IF j > Len(s) THEN <<>>
        ELSE <<s[j]>> \o rest[IF s[j] = "\"" /\ j < Len(s) /\ s[j + 1] = "\"" THEN j + 2 ELSE j + 1]
  IN rest[1]

-----------------------------------------------------------------------------
(* tokenize *)

Init ==
  /\ text \in Texts
  /\ i = 1 /\ toks = <<>> /\ at = "scan" /\ first = <<>> /\ clean = TRUE

\* A token from i to end, or the rejection of a text in which it never ends.
Token(kind, word, end) ==
  /\ IF end = 0 THEN at' = "rejected" /\ UNCHANGED <<i, toks>>
     ELSE /\ toks' = Append(toks, [kind |-> kind, text |-> word, pos |-> i])
          /\ i' = end /\ UNCHANGED at
  /\ UNCHANGED <<text, first, clean>>

Skip(end) ==
  /\ IF end = 0 THEN at' = "rejected" /\ UNCHANGED i ELSE i' = end /\ UNCHANGED at
  /\ UNCHANGED <<text, toks, first, clean>>

Scanning == at = "scan" /\ i <= n

Space == Scanning /\ isSpace(text[i]) /\ Skip(i + 1)

AtLineComment == Is(i, "-") /\ Is(i + 1, "-")
LineComment ==
  Scanning /\ AtLineComment /\ Skip(RunEnd(i, {j \in i .. n : text[j] # "\n"}))

AtBlockComment == Is(i, "/") /\ Is(i + 1, "*")
BlockComment == Scanning /\ AtBlockComment /\ Skip(skipBlockComment(i))

String == Scanning /\ text[i] = "'" /\ Token("string", <<>>, skipQuoted(i + 1, "'"))

QuotedIdent ==
  /\ Scanning /\ text[i] = "\""
  /\ LET end == skipQuoted(i + 1, "\"")
     IN Token("quoted", Undouble(SubSeq(text, i + 1, end - 2)), end)

Dollar ==
  /\ Scanning /\ text[i] = "$"
  /\ LET d == scanDollar(i) IN Token(d.kind, <<>>, d.end)

AtNumber == isDigit(text[i]) \/ (text[i] = "." /\ i < n /\ isDigit(text[i + 1]))
Number ==
  /\ Scanning /\ AtNumber
  /\ LET run == {j \in i .. n :
                   \/ isDigit(text[j]) \/ text[j] \in {".", "e", "E", "_"}
                   \/ text[j] \in {"+", "-"} /\ text[j - 1] \in {"e", "E"}}
         end == RunEnd(i, run)
     IN Token("number", SubSeq(text, i, end - 1), end)

\* A one-letter word may introduce a literal; U&"..." is refused.
Word ==
  /\ Scanning /\ isIdentStart(text[i])
  /\ LET end == RunEnd(i, {j \in i .. n : isIdentPart(text[j])})
         one == end = i + 1
     IN IF one /\ Is(end, "'") /\ text[i] \in {"e", "E"}
        THEN Token("string", <<>>, skipEscapedString(end + 1))
        ELSE IF one /\ Is(end, "'") /\ text[i] \in {"b", "u", "U"}
        THEN Token("string", <<>>, skipQuoted(end + 1, "'"))
        ELSE IF one /\ text[i] \in {"u", "U"} /\ Is(end, "&") /\ Is(end + 1, "\"")
        THEN Token("quoted", <<>>, 0)
        ELSE IF one /\ text[i] \in {"u", "U"} /\ Is(end, "&") /\ Is(end + 1, "'")
        THEN Token("string", <<>>, skipQuoted(end + 2, "'"))
        ELSE Token("word", [j \in 1 .. end - i |-> ToLower(text[i + j - 1])], end)

Punct ==
  /\ Scanning /\ ~isSpace(text[i]) /\ ~AtLineComment /\ ~AtBlockComment
  /\ text[i] \notin {"'", "\"", "$"} /\ ~AtNumber /\ ~isIdentStart(text[i])
  /\ Token("punct", <<text[i]>>, i + 1)

Finish ==
  /\ at = "scan" /\ i > n /\ at' = "done"
  /\ UNCHANGED <<text, i, toks, first, clean>>

-----------------------------------------------------------------------------
(* Classify returns the text up to a trailing semicolon, trimmed; the text *)
(* it returns is tokenized once more, as the next reader of it would.      *)

\* strings.TrimSpace
White(c) == isSpace(c) \/ c = "nbsp"
Kept(s) == {j \in DOMAIN s : ~White(s[j])}
Trimmed(s) == IF Kept(s) = {} THEN <<>> ELSE SubSeq(s, Min(Kept(s)), Max(Kept(s)))

\* All that Trimmed takes off s is blank to the tokenizer as well.
OnlyBlanksTrimmed(s) ==
  \A j \in DOMAIN s : isSpace(s[j]) \/ \E a, b \in Kept(s) : a <= j /\ j <= b

IsSemicolon(t) == t.kind = "punct" /\ t.text = <<";">>

\* Mutant of Cut: the last semicolon of the text is taken for the token.
CutText ==
  LET last == toks[Len(toks)]
  IN IF IsSemicolon(last)
     THEN [end |-> Max({j \in 1 .. n : text[j] = ";"}), toks |-> SubSeq(toks, 1, Len(toks) - 1)]
     ELSE [end |-> n + 1, toks |-> toks]

Cut ==
  LET last == toks[Len(toks)]
  IN IF IsSemicolon(last)
     THEN [end |-> last.pos, toks |-> SubSeq(toks, 1, Len(toks) - 1)]
     ELSE [end |-> n + 1, toks |-> toks]

\* FOR UPDATE, which stands for every clause that locks rows. The first word
\* of a statement is not looked at.
LocksRows(s) ==
  \E t \in 2 .. Len(s) - 1 : /\ s[t].kind = "word" /\ s[t].text = <<"for">>
                             /\ s[t + 1].kind = "word" /\ s[t + 1].text = <<"update">>

\* Nothing is returned for an empty text, for one with a semicolon left, nor
\* for one that locks rows; Classify has other rules (Classifier), and none of
\* them changes what is returned.
Return ==
  /\ at = "done" /\ toks # <<>> /\ first = <<>>
  /\ first' = Cut.toks /\ first' # <<>>
  /\ \A t \in DOMAIN Cut.toks : ~IsSemicolon(Cut.toks[t])
  /\ ~LocksRows(Cut.toks)
  /\ text' = Trimmed(SubSeq(text, 1, Cut.end - 1))
  /\ clean' = OnlyBlanksTrimmed(SubSeq(text, 1, Cut.end - 1))
  /\ i' = 1 /\ toks' = <<>> /\ at' = "scan"

Next ==
  \/ Space \/ LineComment \/ BlockComment \/ String \/ QuotedIdent \/ Dollar
  \/ Number \/ Word \/ Punct \/ Finish \/ Return

Spec == Init /\ [][Next]_vars

-----------------------------------------------------------------------------
(* Properties *)

(* The lexical rules the comments of tokenize.go state, without its loops. *)

Least(S) == IF S = {} THEN 0 ELSE Min(S)
Count(from, to, c) == Cardinality({j \in from .. to : text[j] = c})

\* A literal opened at a ends with the first quote that is the last of a run
\* and that leaves an odd number of quotes behind it.
LiteralEnd(a, q) ==
  Least({b \in a + 1 .. n : /\ text[b] = q /\ ~Is(b + 1, q)
                            /\ Count(a + 1, b, q) % 2 = 1} ) + 1

\* In an E literal quotes behind an odd run of backslashes do not count.
Escaped(a, b) ==
  LET run == {k \in 1 .. b - a - 1 : \A j \in b - k .. b - 1 : text[j] = "\\"}
  IN Cardinality(run) % 2 = 1
EscapedEnd(a) ==
  Least({b \in a + 1 .. n :
           /\ text[b] = "'" /\ ~Escaped(a, b) /\ ~Is(b + 1, "'")
           /\ Cardinality({j \in a + 1 .. b : text[j] = "'" /\ ~Escaped(a, j)}) % 2 = 1}) + 1

\* Comments nest: how deep the text is after position j, and whether j was
\* the second character of a bracket.
CommentEnd(a) ==
  LET d[j \in a .. n] ==
        IF j = a THEN [deep |-> 0, second |-> FALSE]
        ELSE LET p == d[j - 1] two == <<text[j - 1], text[j]>> IN
             [deep |-> p.deep + (IF p.second THEN 0 ELSE CASE two = <<"/", "*">> -> 1
                                                          [] two = <<"*", "/">> -> -1
                                                          [] OTHER -> 0),
              second |-> ~p.second /\ two \in {<<"/", "*">>, <<"*", "/">>}]
  IN Least({j \in a + 1 .. n : d[j].deep = 0 /\ d[j].second}) + 1

\* A dollar quote is closed by the next occurrence of its own delimiter.
DollarEnd(a, tag) ==
  LET w == Len(tag)
  IN Least({b \in a + 2 * w - 1 .. n : SubSeq(text, b - w + 1, b) = tag}) + 1

\* The lexeme at a: its kind ("skip" for blanks and comments) and its end, 1
\* where it has none.
Lexeme(a) ==
  LET c == text[a]
      stop == Least({b \in a .. n : ~isIdentPart(text[b])})
      word == IF stop = 0 THEN n + 1 ELSE stop
      prefix == word = a + 1
      close == Least({b \in a + 1 .. n : text[b] = "$"})
      tag == SubSeq(text, a, close)
      number == {b \in a .. n : /\ ~isDigit(text[b]) /\ text[b] \notin {".", "e", "E", "_"}
                                /\ ~(text[b] \in {"+", "-"} /\ b > a /\ text[b - 1] \in {"e", "E"})}
      line == Least({b \in a .. n : text[b] = "\n"})
      L(kind, end) == [kind |-> kind, end |-> end]
  IN IF isSpace(c) THEN L("skip", a + 1)
     ELSE IF c = "-" /\ Is(a + 1, "-") THEN L("skip", IF line = 0 THEN n + 1 ELSE line)
     ELSE IF c = "/" /\ Is(a + 1, "*") THEN L("skip", CommentEnd(a))
     ELSE IF c = "'" THEN L("string", LiteralEnd(a, "'"))
     ELSE IF c = "\"" THEN L("quoted", LiteralEnd(a, "\""))
     ELSE IF c = "$" /\ a < n /\ isDigit(text[a + 1])
          THEN L("param", CHOOSE b \in a + 2 .. n + 1 :
                            /\ \A j \in a + 1 .. b - 1 : isDigit(text[j])
                            /\ b > n \/ ~isDigit(text[b]))
     ELSE IF c = "$" THEN
          IF close # 0 /\ \A j \in a + 1 .. close - 1 : isIdentPart(text[j])
          THEN L("string", DollarEnd(a, tag)) ELSE L("punct", a + 1)
     ELSE IF isDigit(c) \/ (c = "." /\ a < n /\ isDigit(text[a + 1]))
          THEN L("number", IF number = {} THEN n + 1 ELSE Min(number))
     ELSE IF ~isIdentStart(c) THEN L("punct", a + 1)
     ELSE IF prefix /\ Is(word, "'") /\ c \in {"e", "E"} THEN L("string", EscapedEnd(word))
     ELSE IF prefix /\ Is(word, "'") /\ c \in {"b", "u", "U"} THEN L("string", LiteralEnd(word, "'"))
     ELSE IF prefix /\ Is(word, "&") /\ c \in {"u", "U"} /\ Is(word + 1, "'")
          THEN L("string", LiteralEnd(word + 1, "'"))
     ELSE IF prefix /\ Is(word, "&") /\ c \in {"u", "U"} /\ Is(word + 1, "\"") THEN L("refused", 1)
     ELSE L("word", word)

\* Every turn of tokenize's loop passes exactly one lexeme: literals, quoted
\* identifiers and comments whole, so that no keyword or semicolon inside one
\* becomes a token and none outside is missed; a text is refused exactly when
\* the literal, identifier or comment it has come to never ends, or is U&"...".
OneLexeme ==
  [][at = "scan" /\ i <= n =>
       LET x == Lexeme(i) IN
       IF x.end = 1 THEN at' = "rejected"
       ELSE /\ i' = x.end
            /\ IF x.kind = "skip" THEN toks' = toks
               ELSE /\ Len(toks') = Len(toks) + 1
                    /\ toks'[Len(toks')].kind = x.kind /\ toks'[Len(toks')].pos = i
     ]_vars

\* The text Classify returns, cut before a trailing semicolon and trimmed,
\* has the tokens that were examined, none less and none more: what reaches
\* the database in a cursor or under EXPLAIN is what was classified. The texts
\* left out end, before the semicolon, in Unicode white space: what the
\* tokenizer read as letters is not in the text that is sent.
CutSafe ==
  first # <<>> /\ clean =>
    /\ at # "rejected"
    /\ at = "done" => /\ Len(toks) = Len(first)
                      /\ \A t \in DOMAIN toks : /\ toks[t].kind = first[t].kind
                                                /\ toks[t].text = first[t].text

\* No text that Classify returns locks rows (README.md: the classifier refuses
\* row locks). The code breaks it: FOR UPDATE followed by Unicode white space
\* is examined as FOR and another word, and is sent trimmed, as FOR UPDATE.
RowLocksRefused == first # <<>> /\ at = "done" => ~LocksRows(toks)
=============================================================================
