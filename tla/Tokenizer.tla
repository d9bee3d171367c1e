------------------------------- MODULE Tokenizer ------------------------------
(***************************************************************************)
(* Tokenizer and TokenizerState (src/jast/tokenizer.cc) over the buffered  *)
(* character stream of scanner.h: one action per turn of each loop, so     *)
(* that what is read, put back and read again, and the line and column     *)
(* kept along with it, can be followed character by character.             *)
(*                                                                         *)
(* A character is a string: itself, or the name "nl", "quote", "apostrophe"*)
(* "tick" or "back" (the backslash).  What a symbol or word means is a     *)
(* table lookup and left out: the kind of a token is what scanned it.      *)
(***************************************************************************)
EXTENDS Integers, Sequences, FiniteSets

CONSTANT Texts   \* the inputs, sequences of characters

VARIABLES
  text,      \* the input
  stream,    \* the TokenizerState with its CharacterStream
  mode,      \* the loop that advance_internal is in, or "idle"
  ch,        \* the character that the loop looks at
  mark,      \* last of a block comment, delim of a string, start of a number
  seen,      \* seen_dot and had_exp of a number
  buffer,    \* the characters of the token so far
  start,     \* seek, row and col at the start of the token
  notRegex,  \* the argument of advance
  token      \* the current token

local == <<ch, mark, seen, buffer, start, notRegex>>
vars == <<text, stream, mode, local, token>>

EOF == "eof"
NL == "nl"

ASSUME TextsOK == \A t \in Texts : t \in Seq(STRING) /\ \A i \in 1..Len(t) : t[i] # EOF

Spaces == {" ", NL}
Digits == {"0", "1"}
Letters == {"a", "b", "e", "g", "o", "x"}
WordStart == Letters \cup {"_"}
WordChars == WordStart \cup Digits
HexDigits == Digits \cup {"a", "b", "e"}
Flags == {"g"}
Quotes == {"quote", "apostrophe", "tick"}

OneCharacterSymbols == {"(", ")", "[", "]", "?", ".", "+", "-", "/", "*", ">", "<", "=", "!", "&"}
TwoCharacterSymbols ==
  {<<c, "=">> : c \in {"+", "-", "*", "/", "&", ">", "<", "=", "!"}}
  \cup {<<c, c>> : c \in {"&", "+", "-", "<", ">"}} \cup {<<"=", ">">>}
ThreeCharacterSymbols ==
  {<<"=", "=", "=">>, <<"!", "=", "=">>, <<">", ">", ">">>, <<">", ">", "=">>,
   <<"<", "<", "=">>, <<".", ".", ".">>}
ShiftAssign == <<">", ">", ">", "=">>

-------------------------------------------------------------------------------
\* readchar: the put back characters first, then the text.  The end of the text
\* counts for nothing and can be read again.
Peeked(s) ==
  IF s.back # << >> THEN s.back[Len(s.back)]
  ELSE IF s.at <= Len(text) THEN text[s.at] ELSE EOF

AfterRead_SkipsLine(s) ==  \* mutant: the line is counted, its last character not
  IF Peeked(s) = EOF THEN s
  ELSE [s EXCEPT
    !.back = IF s.back # << >> THEN SubSeq(s.back, 1, Len(s.back) - 1) ELSE s.back,
    !.at = IF s.back # << >> THEN s.at ELSE s.at + 1,
    !.row = IF Peeked(s) = NL THEN s.row + 1 ELSE s.row,
    !.lastCol = IF Peeked(s) = NL THEN s.col ELSE s.lastCol,
    !.col = IF Peeked(s) = NL THEN 0 ELSE s.col + 1,
    !.seek = IF Peeked(s) = NL THEN s.seek ELSE s.seek + 1]
AfterRead_KeepsLength(s) ==  \* mutant: the length of the last line is not kept
  IF Peeked(s) = EOF THEN s
  ELSE [s EXCEPT
    !.back = IF s.back # << >> THEN SubSeq(s.back, 1, Len(s.back) - 1) ELSE s.back,
    !.at = IF s.back # << >> THEN s.at ELSE s.at + 1,
    !.row = IF Peeked(s) = NL THEN s.row + 1 ELSE s.row,
    !.col = IF Peeked(s) = NL THEN 0 ELSE s.col + 1,
    !.seek = s.seek + 1]
AfterRead(s) ==
  IF Peeked(s) = EOF THEN s
  ELSE [s EXCEPT
    !.back = IF s.back # << >> THEN SubSeq(s.back, 1, Len(s.back) - 1) ELSE s.back,
    !.at = IF s.back # << >> THEN s.at ELSE s.at + 1,
    !.row = IF Peeked(s) = NL THEN s.row + 1 ELSE s.row,
    !.lastCol = IF Peeked(s) = NL THEN s.col ELSE s.lastCol,
    !.col = IF Peeked(s) = NL THEN 0 ELSE s.col + 1,
    !.seek = s.seek + 1]

\* putback: the end of the text is not put back but is subtracted from seek_ all
\* the same.  (seek_ is unsigned; it is only ever compared with 0.)
PutBack_KeepsColumn(s, c) ==  \* mutant: the column is not that of the line before
  IF c = EOF THEN [s EXCEPT !.seek = s.seek - 1]
  ELSE [s EXCEPT !.seek = s.seek - 1, !.back = Append(s.back, c),
                 !.row = IF c = NL THEN s.row - 1 ELSE s.row, !.col = s.col - 1]
PutBack(s, c) ==
  IF c = EOF THEN [s EXCEPT !.seek = s.seek - 1]
  ELSE [s EXCEPT !.seek = s.seek - 1, !.back = Append(s.back, c),
                 !.row = IF c = NL THEN s.row - 1 ELSE s.row,
                 !.col = IF c = NL THEN s.lastCol ELSE s.col - 1]

\* The characters read so far and not put back again.
Consumed(s) == s.at - 1 - Len(s.back)

Place(s) == [seek |-> s.seek, row |-> s.row, col |-> s.col, from |-> Consumed(s)]

-------------------------------------------------------------------------------
NoToken == [kind |-> "none", begin |-> 0, from |-> 0, to |-> 0, row |-> 0, col |-> 0]

Init ==
  /\ text \in Texts
  /\ stream = [at |-> 1, back |-> << >>, seek |-> 0, row |-> 0, col |-> 0, lastCol |-> 0]
  /\ mode = "idle"
  /\ ch = EOF /\ mark = EOF /\ seen = {} /\ buffer = << >> /\ notRegex = FALSE
  /\ start = Place(stream)
  /\ token = NoToken

\* The call goes on in loop m, with character c, after which the stream is s.
Goto(m, c, s) == mode' = m /\ ch' = c /\ stream' = s
\* It goes on with the next character of s.
Reads(m, s) == Goto(m, Peeked(s), AfterRead(s))

\* The call returns a token that began at p.  from and to are auxiliary: the
\* part of the text that the token stands for.
Return(kind, p, s) ==
  /\ token' = [kind |-> kind, begin |-> token.to, from |-> p.from - 1, to |-> Consumed(s),
               row |-> p.row, col |-> p.col]
  /\ stream' = s
  /\ mode' = "idle"
  /\ UNCHANGED <<text, local>>

-------------------------------------------------------------------------------
Call(divide) ==
  /\ mode = "idle"
  /\ Reads("skip", stream)
  /\ notRegex' = divide
  /\ buffer' = << >> /\ mark' = EOF /\ seen' = {}
  /\ UNCHANGED <<text, start, token>>

\* peek, which takes seek_ = 0 to mean that nothing has been read.
Peek == stream.seek = 0 /\ Call(FALSE)
Advance == token.kind \notin {"none", "end"} /\ \E divide \in BOOLEAN : Call(divide)

SkipSpace ==
  /\ mode = "skip" /\ ch \in Spaces
  /\ Reads("skip", stream)
  /\ UNCHANGED <<text, mark, seen, buffer, start, notRegex, token>>

\* What follows a slash.
AtSlash == mode = "skip" /\ ch = "/"
Following == Peeked(stream)

DivideAtEnd ==
  /\ AtSlash /\ Following = EOF
  /\ Return("symbol", Place(stream), AfterRead(stream))

LineComment ==
  /\ AtSlash /\ Following = "/"
  /\ Goto("line", ch, AfterRead(stream))
  /\ UNCHANGED <<text, mark, seen, buffer, start, notRegex, token>>
SkipLine ==
  /\ mode = "line"
  /\ IF ch = NL THEN Goto("skip", ch, stream) ELSE Reads("line", stream)
  /\ UNCHANGED <<text, mark, seen, buffer, start, notRegex, token>>

BlockComment ==
  /\ AtSlash /\ Following = "*"
  /\ Reads("block", AfterRead(stream))
  /\ mark' = ch'
  /\ UNCHANGED <<text, seen, buffer, start, notRegex, token>>
BlockEnds_AtStar == ch \in {"*", EOF}   \* mutant: a star ends the comment
BlockEnds == (ch = "/" /\ mark = "*") \/ ch = EOF
SkipBlock ==
  /\ mode = "block" /\ ~BlockEnds
  /\ Reads("block", stream)
  /\ mark' = ch
  /\ UNCHANGED <<text, seen, buffer, start, notRegex, token>>
EndBlock ==
  /\ mode = "block" /\ BlockEnds
  /\ Peeked(stream) # EOF
  /\ Reads("skip", stream)
  /\ UNCHANGED <<text, mark, seen, buffer, start, notRegex, token>>
EndBlockAtEnd ==
  /\ mode = "block" /\ BlockEnds
  /\ Peeked(stream) = EOF
  /\ Return("error", Place(stream), stream)

\* A slash that begins no comment is a divide or the start of a regex.
DivideOrRegex ==
  /\ AtSlash /\ Following \notin {EOF, "/", "*"}
  /\ LET s == PutBack(AfterRead(stream), Following) IN
     IF notRegex THEN Goto("token", ch, s) /\ start' = start
                 ELSE Reads("regex", s) /\ start' = Place(s)
  /\ UNCHANGED <<text, mark, seen, buffer, notRegex, token>>

-------------------------------------------------------------------------------
\* parseRegex.
PlainInRegex ==
  /\ mode = "regex" /\ ch \notin {"/", EOF, NL, "[", "back"}
  /\ Reads("regex", stream)
  /\ buffer' = Append(buffer, ch)
  /\ UNCHANGED <<text, mark, seen, start, notRegex, token>>

EscapeInRegex ==
  /\ mode = "regex" /\ ch = "back"
  /\ Reads("regex", AfterRead(stream))
  /\ buffer' = buffer \o <<ch, Peeked(stream)>>
  /\ UNCHANGED <<text, mark, seen, start, notRegex, token>>

OpenClass ==
  /\ mode = "regex" /\ ch = "["
  /\ Reads("class", stream)
  /\ buffer' = Append(buffer, ch)
  /\ UNCHANGED <<text, mark, seen, start, notRegex, token>>

\* A character of the class or an escaped one, with the end of the text seen
\* after a backslash only.
CharInClass ==
  LET escape == ch = "back"
      s == IF escape THEN AfterRead(stream) ELSE stream
      c == IF escape THEN Peeked(stream) ELSE ch IN
  /\ mode = "class" /\ ch # "]"
  /\ IF c = EOF THEN Return("error", start, s)
     ELSE /\ Reads("class", s)
          /\ buffer' = buffer \o (IF escape THEN <<ch, c>> ELSE <<c>>)
          /\ UNCHANGED <<text, mark, seen, start, notRegex, token>>

\* The closing bracket is put into the buffer twice.
CloseClass ==
  /\ mode = "class" /\ ch = "]"
  /\ Reads("regex", stream)
  /\ buffer' = buffer \o <<ch, ch>>
  /\ UNCHANGED <<text, mark, seen, start, notRegex, token>>

\* No closing slash: the characters are put back one by one, and the slash that
\* began it is a divide.
AbandonRegex ==
  /\ mode = "regex" /\ ch \in {EOF, NL}
  /\ Goto("undo", "/", IF ch = NL THEN PutBack(stream, NL) ELSE stream)
  /\ UNCHANGED <<text, mark, seen, buffer, start, notRegex, token>>
UndoRegex ==
  /\ mode = "undo"
  /\ IF buffer = << >> THEN Goto("token", ch, stream) /\ buffer' = buffer
     ELSE /\ Goto("undo", ch, PutBack(stream, buffer[Len(buffer)]))
          /\ buffer' = SubSeq(buffer, 1, Len(buffer) - 1)
  /\ UNCHANGED <<text, mark, seen, start, notRegex, token>>

CloseRegex ==
  /\ mode = "regex" /\ ch = "/"
  /\ Reads("flags", stream)
  /\ UNCHANGED <<text, mark, seen, buffer, start, notRegex, token>>
RegexFlag ==
  /\ mode = "flags" /\ ch \in Flags
  /\ Reads("flags", stream)
  /\ UNCHANGED <<text, mark, seen, buffer, start, notRegex, token>>
EndRegex ==
  /\ mode = "flags" /\ ch \notin Flags
  /\ Return("regex", start, PutBack(stream, ch))

-------------------------------------------------------------------------------
\* The token begins with ch.
AtToken == mode = "token" \/ (mode = "skip" /\ ch \notin Spaces \cup {"/"})

AtEnd ==
  /\ AtToken /\ ch = EOF
  /\ Return("end", [Place(stream) EXCEPT !.from = Consumed(stream) + 1], stream)

StartWord ==
  /\ AtToken /\ ch \in WordStart
  /\ Reads("word", stream)
  /\ start' = Place(stream) /\ buffer' = <<ch>>
  /\ UNCHANGED <<text, mark, seen, notRegex, token>>
CharInWord ==
  /\ mode = "word" /\ ch \in WordChars
  /\ Reads("word", stream)
  /\ buffer' = Append(buffer, ch)
  /\ UNCHANGED <<text, mark, seen, start, notRegex, token>>
EndWord ==
  /\ mode = "word" /\ ch \notin WordChars
  /\ Return("word", start, PutBack(stream, ch))

\* Two more characters are read and put back one by one if they do not belong.
Second == Peeked(stream)
AfterSecond == AfterRead(stream)
Third == Peeked(AfterSecond)
AfterThird == AfterRead(AfterSecond)

AtOther == AtToken /\ ch \notin WordStart \cup {EOF}
AtThree == Second # EOF /\ <<ch, Second, Third>> \in ThreeCharacterSymbols
AtTwo == Second # EOF /\ ~AtThree /\ <<ch, Second>> \in TwoCharacterSymbols

ThreeSymbol ==
  LET fourth == Peeked(AfterThird)
      after == AfterRead(AfterThird) IN
  /\ AtOther /\ AtThree
  /\ IF <<ch, Second, Third>> # <<">", ">", ">">>
       THEN Return("symbol", Place(stream), AfterThird)
     ELSE IF fourth = "="   \* its position is that of its end
       THEN Return("symbol", [Place(after) EXCEPT !.from = Consumed(stream)], after)
       ELSE Return("symbol", Place(stream), PutBack(after, fourth))

WithoutThird_Lost == AfterThird   \* mutant: the third character is lost
WithoutThird == IF Second = EOF THEN AfterThird ELSE PutBack(AfterThird, Third)

TwoSymbol ==
  /\ AtOther /\ AtTwo
  /\ Return("symbol", Place(stream), WithoutThird)

WithoutSecond_Swapped ==  \* mutant: the two are put back in the wrong order
  IF Second = EOF THEN AfterThird ELSE PutBack(PutBack(AfterThird, Second), Third)
WithoutSecond == IF Second = EOF THEN AfterThird ELSE PutBack(WithoutThird, Second)

AtNumber == ch \in Digits \/ (ch = "." /\ Second \in Digits)

OneSymbol ==
  /\ AtOther /\ ~AtThree /\ ~AtTwo /\ ~AtNumber /\ ch \in OneCharacterSymbols
  /\ Return("symbol", Place(stream), WithoutSecond)

StartString ==
  /\ AtOther /\ ~AtThree /\ ~AtTwo /\ ch \in Quotes
  /\ Reads("string", WithoutSecond)
  /\ start' = Place(WithoutSecond) /\ mark' = ch
  /\ UNCHANGED <<text, seen, buffer, notRegex, token>>

StartNumber ==
  /\ AtOther /\ ~AtThree /\ ~AtTwo /\ AtNumber
  /\ Reads("radix", WithoutSecond)
  /\ start' = Place(WithoutSecond) /\ mark' = ch
  /\ UNCHANGED <<text, seen, buffer, notRegex, token>>

Illegal ==
  /\ AtOther /\ ~AtThree /\ ~AtTwo
  /\ ch \notin OneCharacterSymbols \cup Quotes \cup Digits
  /\ Return("invalid", Place(stream), WithoutSecond)

-------------------------------------------------------------------------------
\* parseString.
StringEnds_AtDelimiter == ch = mark   \* mutant: the end of the text is not seen
StringEnds == ch \in {EOF, mark}
CharInString ==
  LET escape == ch = "back"
      s == IF escape THEN AfterRead(stream) ELSE stream
      c == IF escape THEN Peeked(stream) ELSE ch IN
  /\ mode = "string" /\ ~StringEnds
  /\ IF escape /\ c = EOF THEN Goto("string", EOF, s) ELSE Reads("string", s)
  /\ UNCHANGED <<text, mark, seen, buffer, start, notRegex, token>>
EndString ==
  /\ mode = "string" /\ StringEnds
  /\ Return(IF ch = EOF THEN "error" ELSE "string", start, stream)

\* parseNumber, from its first character on.
Decimal == Digits \cup {"e", "."}
Radix ==
  /\ mode = "radix" /\ ch # "o"
  /\ IF ch \in {"x", "b"}
       THEN Reads(IF ch = "x" THEN "hex" ELSE "bin", stream) /\ seen' = seen
       ELSE /\ Goto("decimal", ch, stream)
            /\ seen' = IF "." \in {mark, ch} THEN {"."} ELSE {}
  /\ UNCHANGED <<text, mark, buffer, start, notRegex, token>>
Octal ==   \* the loop over octal digits starts at the o and ends there
  /\ mode = "radix" /\ ch = "o"
  /\ Return("number", start, PutBack(stream, ch))
DigitInRadix ==
  /\ \/ mode = "hex" /\ ch \in HexDigits
     \/ mode = "bin" /\ ch \in Digits
  /\ Reads(mode, stream)
  /\ UNCHANGED <<text, mark, seen, buffer, start, notRegex, token>>
EndRadix ==
  /\ \/ mode = "hex" /\ ch \notin HexDigits
     \/ mode = "bin" /\ ch \notin Digits
  /\ Return("number", start, PutBack(stream, ch))

\* After a digit, a dot or an e another one, but at most one dot and one e more.
CharInNumber ==
  LET c == Peeked(stream) IN
  /\ mode = "decimal" /\ ch \in Decimal
  /\ IF c \in Digits \/ (c \in {".", "e"} /\ c \notin seen)
       THEN /\ Reads("decimal", stream)
            /\ seen' = IF c \in Digits THEN seen ELSE seen \cup {c}
            /\ UNCHANGED <<text, mark, buffer, start, notRegex, token>>
       ELSE Return("number", start, PutBack(AfterRead(stream), c))
EndNumber ==
  /\ mode = "decimal" /\ ch \notin Decimal
  /\ Return("number", start, PutBack(stream, ch))

-------------------------------------------------------------------------------
Skipping ==
  \/ SkipSpace \/ LineComment \/ SkipLine
  \/ BlockComment \/ SkipBlock \/ EndBlock \/ EndBlockAtEnd
Regex ==
  \/ DivideAtEnd \/ DivideOrRegex \/ PlainInRegex \/ EscapeInRegex
  \/ OpenClass \/ CharInClass \/ CloseClass \/ AbandonRegex \/ UndoRegex
  \/ CloseRegex \/ RegexFlag \/ EndRegex
Lexeme ==
  \/ AtEnd \/ StartWord \/ CharInWord \/ EndWord
  \/ ThreeSymbol \/ TwoSymbol \/ OneSymbol \/ Illegal
  \/ StartString \/ CharInString \/ EndString
  \/ StartNumber \/ Radix \/ Octal \/ DigitInRadix \/ EndRadix
  \/ CharInNumber \/ EndNumber

Step == Skipping \/ Regex \/ Lexeme
Next == Peek \/ Advance \/ Step

Spec == Init /\ [][Next]_vars
FairSpec == Spec /\ WF_vars(Step)

\* The character at j of s is escaped: the backslashes in front of it, as far as behind i,
\* are an odd number.
EscapedIn(s, i, j) ==
  LET run == {k \in i + 1..j - 1 : \A l \in k..j - 1 : s[l] = "back"} IN
  Cardinality(run) % 2 = 1

\* A regular expression with a class in it is given up: what is put back is not what
\* was read.
HasClass(b) == \E k \in DOMAIN b : b[k] = "[" /\ ~EscapedIn(b, 0, k)
GivesUpClass == AbandonRegex /\ HasClass(buffer)

\* One with a line end in it, which can only be an escaped one or one in a class.
GivesUpLines == AbandonRegex /\ \E k \in DOMAIN buffer : buffer[k] = NL

-------------------------------------------------------------------------------
TypeOK ==
  /\ stream.at \in 1..(Len(text) + 1)
  /\ stream.row \in Nat /\ stream.col \in Nat /\ stream.lastCol \in Nat
  /\ stream.seek \in Int
  /\ mode \in {"idle", "skip", "line", "block", "regex", "class", "undo", "flags", "token",
               "word", "string", "radix", "hex", "bin", "decimal"}
  /\ seen \subseteq {".", "e"} /\ notRegex \in BOOLEAN
  /\ Consumed(stream) \in 0..Len(text)

\* Where the classes may end of what may be a regular expression, but no slash closes it
\* in the line in which the last of them ends.
MayEnd(t, k) == t[k] \in {"/", NL} /\ t[k - 1] # "back"
OpensClass(t, s, a) ==
  t[s] = "/" /\ t[a] = "[" /\ \A k \in s + 1..a - 1 : ~MayEnd(t, k)
NeverClosed(t, b) ==
  \A k \in b + 1..Len(t) : t[k] = "/" /\ MayEnd(t, k) => \E l \in b..k : t[l] = NL
ClassEnds ==
  {b \in 1..Len(text) :
     /\ text[b] = "]" /\ \E a \in 2..b - 1 : \E s \in 1..a - 1 : OpensClass(text, s, a)
     /\ \E c \in b..Len(text) : text[c] = "]" /\ NeverClosed(text, c)}

\* Whatever has been put back, what comes next is the rest of the text: nothing
\* is lost or out of order, and nothing comes again but the bracket that ends a class
\* when the regular expression it belongs to is given up.
Unread(s) == [i \in 1..Len(s.back) |-> s.back[Len(s.back) + 1 - i]]
               \o SubSeq(text, s.at, Len(text))
ClassesAgain(u, from) ==   \* u is the text from there on, with more of these brackets
  LET same[i \in 1..Len(u) + 1, j \in 1..Len(text) + 1] ==
        IF i > Len(u) THEN j > Len(text)
        ELSE \/ j <= Len(text) /\ u[i] = text[j] /\ same[i + 1, j + 1]
             \/ j - 1 \in ClassEnds /\ u[i] = "]" /\ same[i + 1, j] IN
  same[1, from]
UnreadIsTheRest ==
  \/ Consumed(stream) >= 0 /\ Unread(stream) = SubSeq(text, Consumed(stream) + 1, Len(text))
  \/ \E from \in 1..Len(text) : ClassesAgain(Unread(stream), from)

Lexed(i, j) == SubSeq(text, i + 1, j)   \* the characters after i up to j

\* The row is the number of line ends read, the column the distance from the last
\* one, although line ends may have been put back: only the length of one line is
\* remembered, so in front of a line end the column may be wrong.  A token has the
\* position of its first character, >>>= that of its last.
IsPosition(row, col, n) ==
  LET ends == {i \in 1..n : text[i] = NL} IN
  /\ row = Cardinality(ends)
  /\ \/ \E i \in ends \cup {0} : (\A j \in ends : j <= i) /\ col = n - i
     \/ n < Len(text) /\ text[n + 1] = NL
TokenPosition ==
  mode = "idle" /\ token.kind \in {"symbol", "word", "string", "number", "regex"} =>
    IsPosition(token.row, token.col,
               IF Lexed(token.from, token.to) = ShiftAssign THEN token.to ELSE token.from + 1)
PositionIsTrue ==
  /\ IsPosition(stream.row, stream.col, Consumed(stream))
  /\ ClassEnds = {} => TokenPosition

\* The token that was returned is the longest that begins where it begins.
Symbols == {<<c>> : c \in OneCharacterSymbols} \cup TwoCharacterSymbols
             \cup ThreeCharacterSymbols \cup {ShiftAssign}
IsLongest(kind, i, j) ==
  CASE kind = "symbol" ->
         /\ Lexed(i, j) \in Symbols
         /\ \A k \in j + 1..Len(text) : Lexed(i, k) \notin Symbols
    [] kind = "word" ->
         /\ \A k \in i + 1..j : text[k] \in WordChars
         /\ text[i + 1] \notin Digits
         /\ j = Len(text) \/ text[j + 1] \notin WordChars
    [] kind = "string" ->
         /\ text[i + 1] \in Quotes /\ j > i + 1
         /\ \A k \in i + 2..j :
              text[k] = text[i + 1] /\ ~EscapedIn(text, i + 1, k) <=> k = j
    [] kind = "number" ->
         \* one or more digits, with what the notation adds, up to no digit
         /\ \E k \in i + 1..j : text[k] \in Digits
         /\ \A k \in i + 1..j : text[k] \in HexDigits \cup {".", "x"}
         /\ j < Len(text) /\ text[j + 1] \in Digits => text[i + 2] = "b"
    [] kind = "end" -> j = Len(text)
    [] OTHER -> TRUE
Longest == mode = "idle" => IsLongest(token.kind, token.from, token.to)
TokenIsLongest == ClassEnds = {} => Longest

\* Between two tokens there is nothing but space and comments.
IsComment(i, j) ==   \* from character i to character j
  \/ /\ Lexed(i - 1, i + 1) = <<"/", "/">> /\ text[j] = NL
     /\ \A k \in i..j - 1 : text[k] # NL
  \/ /\ Lexed(i - 1, i + 1) = <<"/", "*">> /\ j >= i + 3
     /\ Lexed(j - 2, j) = <<"*", "/">>
     /\ \A k \in i + 3..j - 1 : Lexed(k - 2, k) # <<"*", "/">>
SpaceBefore ==
  mode = "idle" /\ token.kind \notin {"none", "error"} =>
    \A k \in token.begin + 1..token.from :
      \/ text[k] \in Spaces
      \/ \E i \in token.begin + 1..k, j \in k..token.from : IsComment(i, j)
OnlySpaceBetween == ClassEnds = {} => SpaceBefore

\* Once a token has been read, looking at it again does not read the next: the
\* offset, which counts the characters that are read, is not 0.  (The end of the
\* text is put back without having been counted, so on a text of three characters
\* or less, or with an escape that it cuts short, the offset can get back to 0;
\* so it can behind a slash that a doubled bracket follows.)
PeekIsStable ==
  mode = "idle" /\ token.kind # "none" =>
    /\ stream.at <= Len(text) => stream.seek = Consumed(stream)
    /\ Len(text) > 3 /\ ClassEnds = {} /\ (\A k \in 1..Len(text) : text[k] # "back") =>
         stream.seek # 0

\* Every call returns.
EveryCallReturns == mode # "idle" ~> mode = "idle"
===============================================================================
