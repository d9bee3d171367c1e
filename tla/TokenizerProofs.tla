---------------------------- MODULE TokenizerProofs ----------------------------
(***************************************************************************)
(* Proofs about Tokenizer for every set of texts: whatever is read ahead   *)
(* and put back, the stream stands at a place of the text and goes on from *)
(* there; row, column and offset are those of that place; between two      *)
(* tokens is only space; and a token is the longest that begins where it   *)
(* begins.  Where a regular expression with a class is given up, this may  *)
(* fail; that happens only on texts with a class that is left open.        *)
(***************************************************************************)
EXTENDS Tokenizer, SequenceTheorems, FiniteSetTheorems, TLAPS

Char == STRING \cup {EOF, "/"}   \* (that "/" is a STRING the provers do not know)

TextOK(t) == t \in Seq(Char) /\ \A i \in 1..Len(t) : t[i] # EOF

Stream == [at : Nat, back : Seq(Char), seek : Int, row : Int, col : Int, lastCol : Int]

\* What is put back are the characters in front of the place up to which t was read.
Good(t, s) ==
  /\ s \in Stream
  /\ s.at \in 1..(Len(t) + 1) /\ Len(s.back) <= s.at - 1
  /\ \A i \in 1..Len(s.back) : s.back[i] = t[s.at - i]

\* c is the character that was read last, when n were read.
LastRead(t, c, n) ==
  \/ c = EOF /\ n = Len(t)
  \/ n \in 1..Len(t) /\ c = t[n]

-------------------------------------------------------------------------------
\* The stream: reading moves on by one character, putting that one back moves back.
At(t, k) == IF k <= Len(t) THEN t[k] ELSE EOF

LEMMA PeekedIs ==
  ASSUME TextOK(text), NEW s, Good(text, s)
  PROVE  /\ Consumed(s) \in 0..Len(text) /\ Len(text) \in Nat
         /\ Peeked(s) = At(text, Consumed(s) + 1)
         /\ Peeked(s) = EOF <=> Consumed(s) = Len(text)
         /\ Peeked(s) \in Char
<1>1. /\ s.back \in Seq(Char) /\ Len(s.back) \in Nat /\ s.at \in 1..(Len(text) + 1)
      /\ Len(text) \in Nat /\ Len(s.back) <= s.at - 1
  BY DEF Good, Stream, TextOK
<1>2. Consumed(s) \in 0..Len(text)
  BY <1>1 DEF Consumed
<1>3. CASE s.back = << >>
  <2>1. Len(s.back) = 0 /\ Consumed(s) = s.at - 1
    BY <1>1, <1>3 DEF Consumed
  <2>2. Peeked(s) = IF s.at <= Len(text) THEN text[s.at] ELSE EOF
    BY <1>3 DEF Peeked
  <2>3. s.at = Consumed(s) + 1
    BY <1>1, <2>1
  <2>4. CASE s.at <= Len(text)
    <3>1. text[s.at] # EOF /\ text[s.at] \in Char
      BY <1>1, <2>4 DEF TextOK
    <3> QED
      BY <1>1, <1>2, <2>2, <2>3, <2>4, <3>1 DEF At
  <2>5. CASE s.at > Len(text)
    <3>1. EOF \in Char
      BY DEF Char
    <3> QED
      BY <1>1, <1>2, <2>2, <2>3, <2>5, <3>1 DEF At
  <2> QED
    BY <1>1, <2>4, <2>5
<1>4. CASE s.back # << >>
  <2>1. Len(s.back) \in 1..Len(s.back)
    BY <1>1, <1>4, EmptySeq
  <2>2. Peeked(s) = text[s.at - Len(s.back)]
    BY <1>4, <2>1 DEF Peeked, Good
  <2>3. s.at - Len(s.back) = Consumed(s) + 1 /\ Consumed(s) < Len(text)
    BY <1>1, <2>1 DEF Consumed
  <2>4. text[Consumed(s) + 1] # EOF /\ text[Consumed(s) + 1] \in Char
    BY <1>1, <1>2, <2>3 DEF TextOK
  <2> QED
    BY <1>1, <1>2, <2>2, <2>3, <2>4 DEF At
<1> QED
  BY <1>3, <1>4

\* The place behind k.
Beyond(t, k) == IF k < Len(t) THEN k + 1 ELSE k

LEMMA AfterReadIs ==
  ASSUME TextOK(text), NEW s, Good(text, s)
  PROVE  /\ Good(text, AfterRead(s))
         /\ Consumed(AfterRead(s)) = Beyond(text, Consumed(s))
         /\ LastRead(text, Peeked(s), Consumed(AfterRead(s)))
<1>1. /\ s.back \in Seq(Char) /\ Len(s.back) \in Nat /\ s.at \in 1..(Len(text) + 1)
      /\ Len(text) \in Nat /\ Len(s.back) <= s.at - 1 /\ s \in Stream
      /\ s.at \in Nat /\ s.row \in Int /\ s.col \in Int /\ s.seek \in Int /\ s.lastCol \in Int
  BY DEF Good, Stream, TextOK
<1>2. /\ Consumed(s) \in 0..Len(text) /\ Peeked(s) = At(text, Consumed(s) + 1)
      /\ Peeked(s) = EOF <=> Consumed(s) = Len(text)
  BY PeekedIs
<1>3. CASE Peeked(s) = EOF
  BY <1>1, <1>2, <1>3 DEF AfterRead, Beyond, LastRead
<1>4. CASE Peeked(s) # EOF
  <2> DEFINE r == AfterRead(s)
             row == IF Peeked(s) = NL THEN s.row + 1 ELSE s.row
             lastCol == IF Peeked(s) = NL THEN s.col ELSE s.lastCol
             col == IF Peeked(s) = NL THEN 0 ELSE s.col + 1
  <2>1. Consumed(s) < Len(text)
    BY <1>1, <1>2, <1>4
  <2>2. CASE s.back = << >>
    <3>1. Len(s.back) = 0 /\ s.at <= Len(text)
      BY <1>1, <2>1, <2>2 DEF Consumed
    <3>2. r.back = << >> /\ r.at = s.at + 1
      BY <1>1, <1>4, <2>2 DEF AfterRead, Stream
    <3>3. r \in Stream
      <4>1. /\ row \in Int /\ lastCol \in Int /\ col \in Int /\ s.seek + 1 \in Int
            /\ s.at + 1 \in Nat /\ s.back \in Seq(Char) /\ s \in Stream
        BY <1>1
      <4>2. r = [s EXCEPT !.back = s.back, !.at = s.at + 1, !.row = row, !.lastCol = lastCol,
                          !.col = col, !.seek = s.seek + 1]
        BY <1>4, <2>2 DEF AfterRead
      <4> HIDE DEF row, lastCol, col, r
      <4> QED
        BY <4>1, <4>2 DEF Stream
    <3>4. Good(text, r)
      BY <1>1, <3>1, <3>2, <3>3 DEF Good
    <3>5. Consumed(r) = Consumed(s) + 1
      BY <1>1, <2>2, <3>1, <3>2 DEF Consumed
    <3> QED
      BY <1>1, <1>2, <2>1, <3>4, <3>5 DEF Beyond, LastRead, At
  <2>3. CASE s.back # << >>
    <3>1. Len(s.back) \in Nat \ {0}
      BY <1>1, <2>3, EmptySeq
    <3> DEFINE b == SubSeq(s.back, 1, Len(s.back) - 1)
    <3>2. /\ b \in Seq(Char) /\ Len(b) = Len(s.back) - 1
          /\ \A i \in 1..Len(b) : b[i] = s.back[i]
      BY <1>1, <3>1, SubSeqProperties
    <3>3. r.back = b /\ r.at = s.at
      BY <1>1, <1>4, <2>3 DEF AfterRead, Stream
    <3>4. r \in Stream
      <4>1. /\ row \in Int /\ lastCol \in Int /\ col \in Int /\ s.seek + 1 \in Int
            /\ s.at \in Nat /\ b \in Seq(Char) /\ s \in Stream
        BY <1>1, <3>2
      <4>2. r = [s EXCEPT !.back = b, !.at = s.at, !.row = row, !.lastCol = lastCol,
                          !.col = col, !.seek = s.seek + 1]
        BY <1>4, <2>3 DEF AfterRead
      <4> HIDE DEF row, lastCol, col, r, b
      <4> QED
        BY <4>1, <4>2 DEF Stream
    <3>5. \A i \in 1..Len(b) : b[i] = text[s.at - i]
      BY <1>1, <3>1, <3>2 DEF Good
    <3>6. Good(text, r)
      BY <1>1, <3>1, <3>2, <3>3, <3>4, <3>5 DEF Good
    <3>7. Consumed(r) = Consumed(s) + 1
      BY <1>1, <3>1, <3>2, <3>3 DEF Consumed
    <3> QED
      BY <1>1, <1>2, <2>1, <3>6, <3>7 DEF Beyond, LastRead, At
  <2> QED
    BY <2>2, <2>3
<1> QED
  BY <1>3, <1>4

LEMMA PutBackIs ==
  ASSUME TextOK(text), NEW s, Good(text, s), NEW c \in Char, LastRead(text, c, Consumed(s))
  PROVE  /\ Good(text, PutBack(s, c))
         /\ Consumed(PutBack(s, c)) = IF c = EOF THEN Consumed(s) ELSE Consumed(s) - 1
<1>1. /\ s.back \in Seq(Char) /\ Len(s.back) \in Nat /\ s.at \in 1..(Len(text) + 1)
      /\ Len(text) \in Nat /\ Len(s.back) <= s.at - 1 /\ s \in Stream
      /\ s.at \in Nat /\ s.row \in Int /\ s.col \in Int /\ s.seek \in Int /\ s.lastCol \in Int
  BY DEF Good, Stream, TextOK
<1> DEFINE r == PutBack(s, c)
<1>2. CASE c = EOF
  <2>1. r \in Stream /\ r.back = s.back /\ r.at = s.at
    BY <1>1, <1>2 DEF PutBack, Stream
  <2> QED
    BY <1>1, <1>2, <2>1 DEF Good, Consumed
<1>3. CASE c # EOF
  <2>1. Consumed(s) \in 1..Len(text) /\ c = text[Consumed(s)]
    BY <1>3 DEF LastRead
  <2>2. /\ Append(s.back, c) \in Seq(Char) /\ Len(Append(s.back, c)) = Len(s.back) + 1
        /\ Append(s.back, c)[Len(s.back) + 1] = c
        /\ \A i \in 1..Len(s.back) : Append(s.back, c)[i] = s.back[i]
    BY <1>1, AppendProperties
  <2>3. r \in Stream /\ r.back = Append(s.back, c) /\ r.at = s.at
    <3> DEFINE row == IF c = NL THEN s.row - 1 ELSE s.row
               col == IF c = NL THEN s.lastCol ELSE s.col - 1
    <3>1. row \in Int /\ col \in Int /\ s.seek - 1 \in Int
      BY <1>1
    <3>2. r = [s EXCEPT !.seek = s.seek - 1, !.back = Append(s.back, c), !.row = row, !.col = col]
      BY <1>3 DEF PutBack
    <3> HIDE DEF row, col, r
    <3> QED
      BY <1>1, <2>2, <3>1, <3>2 DEF Stream
  <2>4. s.at - (Len(s.back) + 1) = Consumed(s)
    BY <1>1 DEF Consumed
  <2>5. \A i \in 1..(Len(s.back) + 1) : Append(s.back, c)[i] = text[s.at - i]
    BY <1>1, <2>1, <2>2, <2>4 DEF Good
  <2>6. Good(text, r)
    BY <1>1, <2>1, <2>2, <2>3, <2>4, <2>5 DEF Good
  <2> QED
    BY <1>1, <1>3, <2>2, <2>3, <2>6 DEF Consumed
<1> QED
  BY <1>2, <1>3

\* A character put back at the place where it was read.
LEMMA PutBackAfterRead ==
  ASSUME TextOK(text), NEW s, Good(text, s)
  PROVE  /\ Good(text, PutBack(AfterRead(s), Peeked(s)))
         /\ Consumed(PutBack(AfterRead(s), Peeked(s))) = Consumed(s)
<1>1. /\ Good(text, AfterRead(s)) /\ Consumed(AfterRead(s)) = Beyond(text, Consumed(s))
      /\ LastRead(text, Peeked(s), Consumed(AfterRead(s)))
  BY AfterReadIs
<1>2. /\ Peeked(s) \in Char
      /\ Peeked(s) = EOF <=> Consumed(s) = Len(text)
      /\ Consumed(s) \in 0..Len(text) /\ Len(text) \in Nat
  BY PeekedIs
<1>3. /\ Good(text, PutBack(AfterRead(s), Peeked(s)))
      /\ Consumed(PutBack(AfterRead(s), Peeked(s)))
           = IF Peeked(s) = EOF THEN Beyond(text, Consumed(s)) ELSE Beyond(text, Consumed(s)) - 1
  BY <1>1, <1>2, PutBackIs
<1>4. CASE Consumed(s) = Len(text)
  BY <1>2, <1>3, <1>4 DEF Beyond
<1>5. CASE Consumed(s) # Len(text)
  BY <1>2, <1>3, <1>5 DEF Beyond
<1> QED
  BY <1>4, <1>5

LEMMA UnreadIs ==
  ASSUME TextOK(text), NEW s, Good(text, s)
  PROVE  Unread(s) = SubSeq(text, Consumed(s) + 1, Len(text))
<1>1. /\ s.back \in Seq(Char) /\ Len(s.back) \in Nat /\ s.at \in 1..(Len(text) + 1)
      /\ Len(text) \in Nat /\ Len(s.back) <= s.at - 1 /\ text \in Seq(Char)
  BY DEF Good, Stream, TextOK
<1> DEFINE m == Len(s.back)
           b == [i \in 1..m |-> s.back[m + 1 - i]]
           r == SubSeq(text, s.at, Len(text))
           u == SubSeq(text, Consumed(s) + 1, Len(text))
           w == b \o r
<1>2. b \in Seq(Char) /\ Len(b) = m
  <2>1. \A i \in 1..m : s.back[m + 1 - i] \in Char
    BY <1>1
  <2> QED
    BY <1>1, <2>1
<1>3. \A i \in 1..m : b[i] = text[Consumed(s) + i]
  <2> SUFFICES ASSUME NEW i \in 1..m PROVE b[i] = text[Consumed(s) + i]
    OBVIOUS
  <2>1. m + 1 - i \in 1..m /\ s.at - (m + 1 - i) = Consumed(s) + i
    BY <1>1 DEF Consumed
  <2>2. s.back[m + 1 - i] = text[s.at - (m + 1 - i)]
    BY <2>1 DEF Good
  <2> QED
    BY <2>1, <2>2
<1>4. /\ r \in Seq(Char) /\ Len(r) = Len(text) + 1 - s.at
      /\ \A i \in 1..Len(r) : r[i] = text[s.at + i - 1]
  BY <1>1, SubSeqProperties
<1>5. /\ u \in Seq(Char) /\ Len(u) = Len(text) - Consumed(s)
      /\ \A i \in 1..Len(u) : u[i] = text[Consumed(s) + i]
  <2>1. Consumed(s) \in 0..Len(text)
    BY <1>1 DEF Consumed
  <2> QED
    <3>1. \A i \in Consumed(s) + 1..Len(text) : text[i] \in Char
      BY <1>1, <2>1
    <3>2. Consumed(s) + 1 \in Int /\ Len(text) \in Int
      BY <1>1, <2>1
    <3>3. /\ u \in Seq(Char)
          /\ Len(u) = IF Consumed(s) + 1 <= Len(text) THEN Len(text) - (Consumed(s) + 1) + 1 ELSE 0
          /\ \A i \in 1..(Len(text) - (Consumed(s) + 1) + 1) : u[i] = text[Consumed(s) + 1 + i - 1]
      BY <3>1, <3>2, SubSeqProperties
    <3>4. Len(u) = Len(text) - Consumed(s)
      BY <1>1, <2>1, <3>3
    <3> HIDE DEF u
    <3>5. ASSUME NEW i \in 1..Len(u)
          PROVE  u[i] = text[Consumed(s) + i]
      <4>1. i \in 1..(Len(text) - (Consumed(s) + 1) + 1) /\ Consumed(s) + 1 + i - 1 = Consumed(s) + i
        BY <1>1, <2>1, <3>4
      <4> QED
        BY <3>3, <4>1
    <3> QED
      BY <3>3, <3>4, <3>5
<1>6. /\ b \o r \in Seq(Char) /\ Len(b \o r) = m + Len(r)
      /\ \A i \in 1..m + Len(r) : (b \o r)[i] = IF i <= m THEN b[i] ELSE r[i - m]
  BY <1>2, <1>4, ConcatProperties
<1>7. Len(u) = Len(w)
  BY <1>1, <1>4, <1>5, <1>6 DEF Consumed
<1>8. \A i \in 1..Len(u) : w[i] = u[i]
  <2> SUFFICES ASSUME NEW i \in 1..Len(u) PROVE w[i] = u[i]
    OBVIOUS
  <2> HIDE DEF b, r, u, m, w
  <2>0. i \in 1..(m + Len(r)) /\ i \in Int /\ m \in Nat /\ Len(r) \in Int
    BY <1>1, <1>4, <1>6, <1>7 DEF m, w
  <2>1. CASE i <= m
    <3>1. w[i] = b[i] /\ i \in 1..m
      BY <1>6, <2>0, <2>1 DEF w
    <3>2. u[i] = text[Consumed(s) + i]
      BY <1>5
    <3> QED
      BY <1>3, <3>1, <3>2
  <2>2. CASE i > m
    <3>1. i - m \in 1..Len(r)
      BY <2>0, <2>2
    <3>4. s.at + (i - m) - 1 = Consumed(s) + i
      BY <1>1, <2>0, <2>2 DEF Consumed, m
    <3>2. w[i] = r[i - m]
      BY <1>6, <2>0, <2>2 DEF w
    <3>3. u[i] = text[Consumed(s) + i]
      BY <1>5
    <3> QED
      BY <1>4, <3>1, <3>2, <3>3, <3>4
  <2> QED
    BY <2>0, <2>1, <2>2
<1> HIDE DEF u, w
<1>9. w = u
  BY <1>5, <1>6, <1>7, <1>8, SeqEqual DEF w
<1> QED
  BY <1>9 DEF Unread, u, w

\* Up to two characters are read ahead and put back again.
LEMMA AheadIs ==
  ASSUME TextOK(text), Good(text, stream)
  PROVE  /\ Good(text, AfterSecond) /\ Consumed(AfterSecond) = Beyond(text, Consumed(stream))
         /\ Good(text, AfterThird) /\ Consumed(AfterThird) = Beyond(text, Consumed(AfterSecond))
         /\ Good(text, WithoutThird) /\ Consumed(WithoutThird) = Consumed(AfterSecond)
         /\ Good(text, WithoutSecond) /\ Consumed(WithoutSecond) = Consumed(stream)
<1>1. /\ Good(text, AfterSecond) /\ Consumed(AfterSecond) = Beyond(text, Consumed(stream))
      /\ LastRead(text, Second, Consumed(AfterSecond))
  BY AfterReadIs DEF AfterSecond, Second
<1>2. /\ Good(text, AfterThird) /\ Consumed(AfterThird) = Beyond(text, Consumed(AfterSecond))
      /\ LastRead(text, Third, Consumed(AfterThird))
  BY <1>1, AfterReadIs DEF AfterThird, Third
<1>3. /\ Good(text, PutBack(AfterThird, Third))
      /\ Consumed(PutBack(AfterThird, Third)) = Consumed(AfterSecond)
  BY <1>1, PutBackAfterRead DEF AfterThird, Third
<1>4. /\ Consumed(stream) \in 0..Len(text) /\ Len(text) \in Nat /\ Second \in Char
      /\ Second = EOF <=> Consumed(stream) = Len(text)
  BY PeekedIs DEF Second
<1>5. CASE Second = EOF
  <2>1. WithoutThird = AfterThird /\ WithoutSecond = AfterThird
    BY <1>5 DEF WithoutThird, WithoutSecond
  <2>2. Consumed(AfterSecond) = Consumed(stream) /\ Consumed(AfterThird) = Consumed(stream)
    BY <1>1, <1>2, <1>4, <1>5 DEF Beyond
  <2> QED
    BY <1>1, <1>2, <2>1, <2>2
<1>6. CASE Second # EOF
  <2>1. WithoutThird = PutBack(AfterThird, Third) /\ WithoutSecond = PutBack(WithoutThird, Second)
    BY <1>6 DEF WithoutThird, WithoutSecond
  <2>2. /\ Good(text, WithoutSecond)
        /\ Consumed(WithoutSecond) = Consumed(AfterSecond) - 1
    BY <1>1, <1>3, <1>4, <1>6, <2>1, PutBackIs
  <2>3. Consumed(AfterSecond) = Consumed(stream) + 1
    BY <1>1, <1>4, <1>6 DEF Beyond
  <2> QED
    BY <1>1, <1>2, <1>3, <1>4, <2>1, <2>2, <2>3
<1> QED
  BY <1>5, <1>6

-------------------------------------------------------------------------------
\* A character is escaped exactly if the one in front of it is a backslash that is not.
LEMMA EscapedNext ==
  ASSUME NEW t, NEW i \in Int, NEW j \in Int, i < j
  PROVE  EscapedIn(t, i, j + 1) <=> t[j] = "back" /\ ~EscapedIn(t, i, j)
<1> DEFINE Run(m) == {k \in i + 1..m - 1 : \A l \in k..m - 1 : t[l] = "back"}
           c == Cardinality(Run(j))
<1>1. j + 1 - 1 = j
  OBVIOUS
<1>2. IsFiniteSet(Run(j)) /\ c \in Nat
  <2>1. IsFiniteSet(i + 1..j - 1)
    BY FS_Interval
  <2>2. Run(j) \subseteq i + 1..j - 1
    OBVIOUS
  <2> QED
    BY <2>1, <2>2, FS_Subset, FS_CardinalityType
<1>3. CASE t[j] # "back"
  <2>1. Run(j + 1) = {}
    BY <1>1, <1>3
  <2>2. Cardinality(Run(j + 1)) = 0
    BY <2>1, FS_EmptySet
  <2> QED
    BY <1>3, <2>2 DEF EscapedIn
<1>4. CASE t[j] = "back"
  <2>1. j \notin Run(j)
    OBVIOUS
  <2>2. Run(j + 1) = Run(j) \cup {j}
    <3>1. ASSUME NEW k \in i + 1..j, k # j
          PROVE  k \in Run(j + 1) <=> k \in Run(j)
      <4>1. \A l : l \in k..j <=> l \in k..j - 1 \/ l = j
        BY <3>1
      <4> QED
        BY <1>1, <1>4, <3>1, <4>1
    <3>2. j \in Run(j + 1)
      <4>1. \A l \in j..j : l = j
        OBVIOUS
      <4> QED
        BY <1>1, <1>4, <4>1
    <3>3. Run(j + 1) \subseteq i + 1..j /\ Run(j) \subseteq i + 1..j
      BY <1>1
    <3> HIDE DEF Run
    <3> QED
      BY <2>1, <3>1, <3>2, <3>3
  <2>3. Cardinality(Run(j + 1)) = c + 1
    <3> HIDE DEF Run
    <3> QED
      BY <1>2, <2>1, <2>2, FS_AddElement
  <2>4. (c + 1) % 2 = 1 <=> ~(c % 2 = 1)
    <3> HIDE DEF c
    <3> QED
      BY ONLY <1>2
  <2> QED
    BY <1>4, <2>3, <2>4 DEF EscapedIn
<1> QED
  BY <1>3, <1>4

LEMMA NotEscapedFirst ==
  ASSUME NEW t, NEW i \in Int
  PROVE  ~EscapedIn(t, i, i + 1)
<1>1. {k \in i + 1..i + 1 - 1 : \A l \in k..i + 1 - 1 : t[l] = "back"} = {}
  OBVIOUS
<1> QED
  BY <1>1, FS_EmptySet DEF EscapedIn

\* Only the characters in front of it tell whether a character is escaped.
LEMMA EscapedSame ==
  ASSUME NEW s, NEW t, NEW i \in Int, NEW j \in Int, \A k \in i + 1..j - 1 : s[k] = t[k]
  PROVE  EscapedIn(s, i, j) <=> EscapedIn(t, i, j)
<1>1. \A k \in i + 1..j - 1 :
        (\A l \in k..j - 1 : s[l] = "back") <=> (\A l \in k..j - 1 : t[l] = "back")
  OBVIOUS
<1>2. {k \in i + 1..j - 1 : \A l \in k..j - 1 : s[l] = "back"}
        = {k \in i + 1..j - 1 : \A l \in k..j - 1 : t[l] = "back"}
  BY <1>1
<1> QED
  BY <1>2 DEF EscapedIn

-------------------------------------------------------------------------------
\* What holds in every state: the stream is at a place of the text, the loops look at
\* the character in front of it, and the characters of a regular expression without a
\* class are those behind its slash.
Modes == {"idle", "skip", "line", "block", "regex", "class", "undo", "flags", "token",
          "word", "string", "radix", "hex", "bin", "decimal"}

Skips == {"skip", "line", "block"}

Whole(b) == ~EscapedIn(b, 0, Len(b) + 1)   \* b does not end with half an escape

Contents(t, b, from) ==
  /\ from \in 1..Len(t) /\ t[from] = "/"
  /\ from + Len(b) <= Len(t) + 1
  /\ \A i \in 1..Len(b) : b[i] = At(t, from + i)

InRegex(t, b, from, c, n) ==
  /\ Contents(t, b, from)
  /\ c # EOF => n = from + Len(b) + 1
  /\ c = EOF => from + Len(b) \in {Len(t), Len(t) + 1}

InUndo(t, b, from, n) ==
  /\ Contents(t, b, from)
  /\ n = IF from + Len(b) <= Len(t) THEN from + Len(b) ELSE Len(t)

CoreInv ==
  /\ TextOK(text) /\ Good(text, stream)
  /\ mode \in Modes /\ buffer \in Seq(Char) /\ ch \in Char
  /\ mode \notin {"idle", "undo"} => LastRead(text, ch, Consumed(stream))
  /\ mode \in {"token", "undo"} => ch = "/"
  /\ mode \in Skips => buffer = << >>
  /\ mode = "class" => HasClass(buffer)
  /\ mode = "regex" => Whole(buffer)
  /\ mode = "regex" /\ ~HasClass(buffer) =>
       InRegex(text, buffer, start.from, ch, Consumed(stream))
  /\ mode = "undo" => InUndo(text, buffer, start.from, Consumed(stream))

LEMMA ReturnKeeps ==
  ASSUME CoreInv, NEW k, NEW p, NEW s, Good(text, s), Return(k, p, s)
  PROVE  CoreInv'
BY DEF CoreInv, Return, local, Modes, Skips

LEMMA GotoKeeps ==
  ASSUME CoreInv, text' = text, buffer' \in Seq(Char), NEW m, NEW c \in Char, NEW s,
         Good(text, s), LastRead(text, c, Consumed(s)), Goto(m, c, s),
         m \in Modes \ {"idle", "undo", "regex", "class"}, m = "token" => c = "/",
         m \in Skips => buffer' = << >>
  PROVE  CoreInv'
BY DEF CoreInv, Goto, Modes, Skips

LEMMA ReadsKeeps ==
  ASSUME CoreInv, text' = text, buffer' \in Seq(Char), NEW m, NEW s, Good(text, s), Reads(m, s),
         m \in Modes \ {"idle", "undo", "regex", "class", "token"}, m \in Skips => buffer' = << >>
  PROVE  CoreInv'
<1>1. TextOK(text)
  BY DEF CoreInv
<1>2. /\ Good(text, AfterRead(s)) /\ LastRead(text, Peeked(s), Consumed(AfterRead(s)))
  BY <1>1, AfterReadIs
<1>3. Peeked(s) \in Char
  BY <1>1, PeekedIs
<1>4. Goto(m, Peeked(s), AfterRead(s)) /\ m # "token"
  BY DEF Reads
<1> QED
  BY <1>2, <1>3, <1>4, GotoKeeps

LEMMA CoreInit == Init /\ TextsOK => CoreInv
<1> SUFFICES ASSUME Init, TextsOK PROVE CoreInv
  OBVIOUS
<1>1. text \in Seq(STRING) /\ \A i \in 1..Len(text) : text[i] # EOF
  BY DEF Init, TextsOK
<1>2. TextOK(text)
  <2>1. Len(text) \in Nat /\ \A i \in 1..Len(text) : text[i] \in Char
    BY <1>1 DEF Char
  <2>2. text = [i \in 1..Len(text) |-> text[i]]
    BY <1>1
  <2>3. text \in Seq(Char)
    BY <1>1, <2>1, <2>2
  <2> QED
    BY <1>1, <2>3 DEF TextOK
<1>3. Good(text, stream)
  <2>1. << >> \in Seq(Char) /\ Len(<< >>) = 0
    BY EmptySeq
  <2>2. stream = [at |-> 1, back |-> << >>, seek |-> 0, row |-> 0, col |-> 0, lastCol |-> 0]
    BY DEF Init
  <2>3. Len(text) \in Nat
    BY <1>1
  <2>4. stream \in Stream
    BY <2>1, <2>2 DEF Stream
  <2> QED
    BY <2>1, <2>2, <2>3, <2>4 DEF Good
<1> QED
  BY <1>2, <1>3 DEF Init, CoreInv, Modes, Char, EOF

\* Every loop reads on from where it is.
LEMMA CoreFacts ==
  ASSUME CoreInv
  PROVE  /\ TextOK(text) /\ Good(text, stream) /\ buffer \in Seq(Char) /\ ch \in Char
         /\ Consumed(stream) \in 0..Len(text) /\ Len(text) \in Nat
         /\ Good(text, AfterRead(stream))
         /\ Consumed(AfterRead(stream)) = Beyond(text, Consumed(stream))
         /\ LastRead(text, Peeked(stream), Consumed(AfterRead(stream)))
         /\ Peeked(stream) = At(text, Consumed(stream) + 1)
         /\ Peeked(stream) = EOF <=> Consumed(stream) = Len(text)
         /\ Peeked(stream) \in Char
         /\ Good(text, PutBack(AfterRead(stream), Peeked(stream)))
         /\ Consumed(PutBack(AfterRead(stream), Peeked(stream))) = Consumed(stream)
         /\ mode \notin {"idle", "undo"} => Good(text, PutBack(stream, ch))
         /\ mode \in Skips => buffer = << >>
<1>1. TextOK(text) /\ Good(text, stream) /\ buffer \in Seq(Char) /\ ch \in Char
  BY DEF CoreInv
<1>3. mode \in Skips => buffer = << >>
  BY DEF CoreInv
<1>2. ASSUME mode \notin {"idle", "undo"} PROVE Good(text, PutBack(stream, ch))
  BY <1>1, <1>2, PutBackIs DEF CoreInv
<1> QED
  BY <1>1, <1>2, <1>3, PeekedIs, AfterReadIs, PutBackAfterRead

\* The characters that a loop has looked at, when n are read and c, the last of them, is
\* still to be looked at: one more after each turn, and those of the token when the last
\* is put back.
Upto(c, n) == IF c = EOF THEN n ELSE n - 1

LEMMA UptoIs ==
  ASSUME CoreInv
  PROVE  LET n == Consumed(stream) IN
         /\ n \in 0..Len(text) /\ Len(text) \in Nat
         /\ Upto(Peeked(stream), Consumed(AfterRead(stream))) = n
         /\ Peeked(stream) # EOF => n + 1 <= Len(text) /\ Peeked(stream) = text[n + 1]
         /\ mode \notin {"idle", "undo"} =>
              /\ Consumed(PutBack(stream, ch)) = Upto(ch, n)
              /\ ch = EOF => n = Len(text)
              /\ ch # EOF => n \in 1..Len(text) /\ ch = text[n]
<1> DEFINE n == Consumed(stream)
<1>1. /\ TextOK(text) /\ Good(text, stream) /\ ch \in Char /\ n \in 0..Len(text) /\ Len(text) \in Nat
      /\ Consumed(AfterRead(stream)) = Beyond(text, n)
      /\ Peeked(stream) = At(text, n + 1) /\ (Peeked(stream) = EOF <=> n = Len(text))
  BY CoreFacts
<1>2. Upto(Peeked(stream), Consumed(AfterRead(stream))) = n
  BY <1>1 DEF Upto, Beyond
<1>3. Peeked(stream) # EOF => n + 1 <= Len(text) /\ Peeked(stream) = text[n + 1]
  BY <1>1 DEF At
<1>4. ASSUME mode \notin {"idle", "undo"}
      PROVE  /\ Consumed(PutBack(stream, ch)) = Upto(ch, n)
             /\ ch = EOF => n = Len(text)
             /\ ch # EOF => n \in 1..Len(text) /\ ch = text[n]
  <2>1. LastRead(text, ch, n)
    BY <1>4 DEF CoreInv
  <2>2. Consumed(PutBack(stream, ch)) = IF ch = EOF THEN n ELSE n - 1
    BY <1>1, <2>1, PutBackIs
  <2> QED
    BY <1>1, <2>1, <2>2 DEF Upto, LastRead, TextOK
<1> QED
  BY <1>1, <1>2, <1>3, <1>4

LEMMA UptoReads ==
  ASSUME TextOK(text), NEW s, Good(text, s)
  PROVE  /\ Upto(Peeked(s), Consumed(AfterRead(s))) = Consumed(s)
         /\ Peeked(s) # EOF => Consumed(AfterRead(s)) = Consumed(s) + 1
<1>1. /\ Consumed(s) \in 0..Len(text) /\ Len(text) \in Nat
      /\ Peeked(s) = EOF <=> Consumed(s) = Len(text)
      /\ Consumed(AfterRead(s)) = Beyond(text, Consumed(s))
  BY PeekedIs, AfterReadIs
<1> QED
  BY <1>1 DEF Upto, Beyond

LEMMA SkippingKeeps ==
  ASSUME CoreInv, Call(TRUE) \/ Call(FALSE) \/ Skipping
  PROVE  CoreInv'
<1>1. ASSUME NEW divide, Call(divide) PROVE CoreInv'
  <2>1. << >> \in Seq(Char)
    BY EmptySeq
  <2> QED
    BY <1>1, <2>1, CoreFacts, ReadsKeeps DEF Call, Modes, Skips
<1>2. ASSUME SkipSpace PROVE CoreInv'
  BY <1>2, CoreFacts, ReadsKeeps DEF SkipSpace, Modes, Skips
<1>3. ASSUME LineComment PROVE CoreInv'
  <2>1. Goto("line", ch, AfterRead(stream)) /\ ch = Peeked(stream) /\ text' = text /\ buffer' = buffer
    BY <1>3 DEF LineComment, AtSlash, Following, Skips
  <2> QED
    BY <1>3, <2>1, CoreFacts, GotoKeeps DEF LineComment, AtSlash, Modes, Skips
<1>4. ASSUME SkipLine PROVE CoreInv'
  <2>1. mode = "line" /\ text' = text /\ buffer' = buffer
    BY <1>4 DEF SkipLine
  <2>2. LastRead(text, ch, Consumed(stream))
    BY <2>1 DEF CoreInv
  <2>3. CASE Goto("skip", ch, stream)
    BY <2>1, <2>2, <2>3, CoreFacts, GotoKeeps DEF Modes, Skips
  <2>4. CASE Reads("line", stream)
    BY <2>1, <2>4, CoreFacts, ReadsKeeps DEF Modes, Skips
  <2>5. Goto("skip", ch, stream) \/ Reads("line", stream)
    BY <1>4 DEF SkipLine
  <2> QED
    BY <2>3, <2>4, <2>5
<1>5. ASSUME BlockComment PROVE CoreInv'
  BY <1>5, CoreFacts, ReadsKeeps DEF BlockComment, AtSlash, Modes, Skips
<1>6. ASSUME SkipBlock PROVE CoreInv'
  BY <1>6, CoreFacts, ReadsKeeps DEF SkipBlock, Modes, Skips
<1>7. ASSUME EndBlock PROVE CoreInv'
  BY <1>7, CoreFacts, ReadsKeeps DEF EndBlock, Modes, Skips
<1>8. ASSUME EndBlockAtEnd PROVE CoreInv'
  BY <1>8, CoreFacts, ReturnKeeps DEF EndBlockAtEnd
<1> QED
  BY <1>1, <1>2, <1>3, <1>4, <1>5, <1>6, <1>7, <1>8 DEF Skipping

LEMMA LexemeKeeps ==
  ASSUME CoreInv, Lexeme
  PROVE  CoreInv'
<1>1. ASSUME AtEnd PROVE CoreInv'
  BY <1>1, CoreFacts, ReturnKeeps DEF AtEnd
<1>2. ASSUME StartWord PROVE CoreInv'
  <2>1. <<ch>> \in Seq(Char)
    BY CoreFacts
  <2> QED
    BY <1>2, <2>1, CoreFacts, ReadsKeeps DEF StartWord, Modes, Skips
<1>3. ASSUME CharInWord PROVE CoreInv'
  <2>1. Append(buffer, ch) \in Seq(Char)
    BY CoreFacts, AppendProperties
  <2> QED
    BY <1>3, <2>1, CoreFacts, ReadsKeeps DEF CharInWord, Modes, Skips
<1>4. ASSUME EndWord PROVE CoreInv'
  BY <1>4, CoreFacts, ReturnKeeps DEF EndWord
<1>5. ASSUME ThreeSymbol PROVE CoreInv'
  <2> DEFINE fourth == Peeked(AfterThird)
             after == AfterRead(AfterThird)
  <2>1. TextOK(text) /\ Good(text, AfterThird)
    BY CoreFacts, AheadIs
  <2>2. Good(text, after) /\ Good(text, PutBack(after, fourth))
    BY <2>1, AfterReadIs, PutBackAfterRead
  <2>3. \/ Return("symbol", Place(stream), AfterThird)
        \/ Return("symbol", [Place(after) EXCEPT !.from = Consumed(stream)], after)
        \/ Return("symbol", Place(stream), PutBack(after, fourth))
    BY <1>5 DEF ThreeSymbol
  <2> HIDE DEF fourth, after
  <2> QED
    BY <2>1, <2>2, <2>3, ReturnKeeps
<1>6. ASSUME TwoSymbol PROVE CoreInv'
  BY <1>6, CoreFacts, AheadIs, ReturnKeeps DEF TwoSymbol
<1>7. ASSUME OneSymbol PROVE CoreInv'
  BY <1>7, CoreFacts, AheadIs, ReturnKeeps DEF OneSymbol
<1>8. ASSUME Illegal PROVE CoreInv'
  BY <1>8, CoreFacts, AheadIs, ReturnKeeps DEF Illegal
<1>9. ASSUME StartString PROVE CoreInv'
  BY <1>9, CoreFacts, AheadIs, ReadsKeeps DEF StartString, Modes, Skips
<1>10. ASSUME StartNumber PROVE CoreInv'
  BY <1>10, CoreFacts, AheadIs, ReadsKeeps DEF StartNumber, Modes, Skips
<1>11. ASSUME CharInString PROVE CoreInv'
  <2>1. text' = text /\ buffer' = buffer
    BY <1>11 DEF CharInString
  <2>2. \/ ch = "back" /\ Peeked(stream) = EOF /\ Goto("string", EOF, AfterRead(stream))
        \/ Reads("string", AfterRead(stream))
        \/ Reads("string", stream)
    BY <1>11 DEF CharInString
  <2>3. CASE Peeked(stream) = EOF /\ Goto("string", EOF, AfterRead(stream))
    <3>1. LastRead(text, EOF, Consumed(AfterRead(stream))) /\ EOF \in Char
      BY <2>3, CoreFacts
    <3> QED
      BY <2>1, <2>3, <3>1, CoreFacts, GotoKeeps DEF Modes, Skips
  <2>4. CASE Reads("string", AfterRead(stream))
    BY <2>1, <2>4, CoreFacts, ReadsKeeps DEF Modes, Skips
  <2>5. CASE Reads("string", stream)
    BY <2>1, <2>5, CoreFacts, ReadsKeeps DEF Modes, Skips
  <2> QED
    BY <2>2, <2>3, <2>4, <2>5
<1>12. ASSUME EndString PROVE CoreInv'
  BY <1>12, CoreFacts, ReturnKeeps DEF EndString
<1>13. ASSUME Radix PROVE CoreInv'
  <2>1. mode = "radix" /\ text' = text /\ buffer' = buffer
    BY <1>13 DEF Radix
  <2>2. LastRead(text, ch, Consumed(stream))
    BY <2>1 DEF CoreInv
  <2>3. \/ Reads("hex", stream) \/ Reads("bin", stream) \/ Goto("decimal", ch, stream)
    BY <1>13 DEF Radix
  <2> QED
    BY <2>1, <2>2, <2>3, CoreFacts, ReadsKeeps, GotoKeeps DEF Modes, Skips
<1>14. ASSUME Octal PROVE CoreInv'
  BY <1>14, CoreFacts, ReturnKeeps DEF Octal
<1>15. ASSUME DigitInRadix PROVE CoreInv'
  BY <1>15, CoreFacts, ReadsKeeps DEF DigitInRadix, Modes, Skips
<1>16. ASSUME EndRadix PROVE CoreInv'
  BY <1>16, CoreFacts, ReturnKeeps DEF EndRadix
<1>17. ASSUME CharInNumber PROVE CoreInv'
  <2>1. \/ Reads("decimal", stream) /\ text' = text /\ buffer' = buffer
        \/ Return("number", start, PutBack(AfterRead(stream), Peeked(stream)))
    BY <1>17 DEF CharInNumber
  <2> QED
    BY <2>1, CoreFacts, ReadsKeeps, ReturnKeeps DEF Modes, Skips
<1>18. ASSUME EndNumber PROVE CoreInv'
  BY <1>18, CoreFacts, ReturnKeeps DEF EndNumber
<1> QED
  BY <1>1, <1>2, <1>3, <1>4, <1>5, <1>6, <1>7, <1>8, <1>9, <1>10, <1>11, <1>12, <1>13, <1>14,
     <1>15, <1>16, <1>17, <1>18 DEF Lexeme

\* The characters of a regular expression are added at the end and taken off there.
LEMMA ContentsGrow ==
  ASSUME NEW t, TextOK(t), NEW b \in Seq(Char), NEW from, Contents(t, b, from),
         NEW c \in Char, from + Len(b) <= Len(t), c = At(t, from + Len(b) + 1)
  PROVE  Contents(t, Append(b, c), from) /\ Len(Append(b, c)) = Len(b) + 1
<1>1. /\ Append(b, c) \in Seq(Char) /\ Len(Append(b, c)) = Len(b) + 1 /\ Len(b) \in Nat
      /\ \A i \in 1..Len(b) : Append(b, c)[i] = b[i]
      /\ Append(b, c)[Len(b) + 1] = c
  BY AppendProperties
<1>2. from \in 1..Len(t) /\ Len(t) \in Nat /\ t[from] = "/"
  BY DEF Contents, TextOK
<1>3. \A i \in 1..Len(b) : b[i] = At(t, from + i)
  BY DEF Contents
<1>4. ASSUME NEW i \in 1..(Len(b) + 1)
      PROVE  Append(b, c)[i] = At(t, from + i)
  <2>1. CASE i = Len(b) + 1
    <3>1. from + i = from + Len(b) + 1
      BY <1>1, <1>2, <2>1
    <3> QED
      BY <1>1, <2>1, <3>1
  <2>2. CASE i # Len(b) + 1
    <3>1. i \in 1..Len(b)
      BY <1>1, <2>2
    <3> QED
      BY <1>1, <1>3, <3>1
  <2> QED
    BY <2>1, <2>2
<1> QED
  BY <1>1, <1>2, <1>4 DEF Contents

LEMMA FrontIs ==
  ASSUME NEW b \in Seq(Char), b # << >>
  PROVE  LET r == SubSeq(b, 1, Len(b) - 1) IN
         /\ r \in Seq(Char) /\ Len(r) = Len(b) - 1 /\ Len(b) \in Nat \ {0}
         /\ \A i \in 1..Len(r) : r[i] = b[i]
<1>0. Len(b) \in Nat \ {0}
  BY EmptySeq
<1> DEFINE n == Len(b) - 1
<1>1. n \in Nat /\ \A i \in 1..n : b[i] \in Char
  BY <1>0
<1> HIDE DEF n
<1>2. /\ SubSeq(b, 1, n) \in Seq(Char)
      /\ Len(SubSeq(b, 1, n)) = IF 1 <= n THEN n - 1 + 1 ELSE 0
      /\ \A i \in 1..(n - 1 + 1) : SubSeq(b, 1, n)[i] = b[1 + i - 1]
  BY <1>1, SubSeqProperties
<1>3. Len(SubSeq(b, 1, n)) = n
  BY <1>1, <1>2
<1>4. ASSUME NEW i \in 1..n
      PROVE  SubSeq(b, 1, n)[i] = b[i]
  <2>1. i \in 1..(n - 1 + 1) /\ 1 + i - 1 = i
    BY <1>1
  <2> QED
    BY <1>2, <2>1
<1> QED
  BY <1>0, <1>2, <1>3, <1>4 DEF n

LEMMA ContentsShrink ==
  ASSUME NEW t, TextOK(t), NEW b \in Seq(Char), NEW from, Contents(t, b, from), b # << >>
  PROVE  LET r == SubSeq(b, 1, Len(b) - 1) IN
         /\ Contents(t, r, from) /\ r \in Seq(Char) /\ Len(r) = Len(b) - 1 /\ Len(b) \in Nat \ {0}
         /\ b[Len(b)] = At(t, from + Len(b)) /\ b[Len(b)] \in Char
         /\ \A i \in 1..Len(r) : r[i] = b[i]
<1> DEFINE r == SubSeq(b, 1, Len(b) - 1)
<1>1. Len(b) \in Nat \ {0}
  BY EmptySeq
<1>2. r \in Seq(Char) /\ Len(r) = Len(b) - 1 /\ \A i \in 1..Len(r) : r[i] = b[i]
  BY FrontIs
<1>3. from \in 1..Len(t) /\ Len(t) \in Nat /\ t[from] = "/" /\ from + Len(b) <= Len(t) + 1
  BY DEF Contents, TextOK
<1>4. \A i \in 1..Len(b) : b[i] = At(t, from + i)
  BY DEF Contents
<1>5. Contents(t, r, from)
  <2> HIDE DEF r
  <2> QED
    BY <1>1, <1>2, <1>3, <1>4 DEF Contents
<1> QED
  BY <1>1, <1>2, <1>4, <1>5

\* The next character of the expression, which is not a class.
LEMMA ContentsReads ==
  ASSUME CoreInv, text' = text, NEW s, Good(text, s), Reads("regex", s), NEW b \in Seq(Char),
         buffer' = b, Whole(b),
         ~HasClass(b) => Contents(text, b, start'.from) /\ LET l == start'.from + Len(b) IN
                           \/ l <= Len(text) /\ Consumed(s) = l
                           \/ l = Len(text) + 1 /\ Consumed(s) = Len(text)
  PROVE  CoreInv'
<1>1. TextOK(text) /\ Len(text) \in Nat
  BY DEF CoreInv, TextOK
<1>2. /\ Good(text, AfterRead(s)) /\ Consumed(AfterRead(s)) = Beyond(text, Consumed(s))
      /\ LastRead(text, Peeked(s), Consumed(AfterRead(s)))
  BY <1>1, AfterReadIs
<1>3. /\ Consumed(s) \in 0..Len(text) /\ Peeked(s) \in Char
      /\ Peeked(s) = EOF <=> Consumed(s) = Len(text)
  BY <1>1, PeekedIs
<1>4. mode' = "regex" /\ ch' = Peeked(s) /\ stream' = AfterRead(s)
  BY DEF Reads, Goto
<1>5. ASSUME ~HasClass(b)
      PROVE  InRegex(text, b, start'.from, Peeked(s), Consumed(AfterRead(s)))
  <2>1. /\ Contents(text, b, start'.from)
        /\ \/ start'.from + Len(b) <= Len(text) /\ Consumed(s) = start'.from + Len(b)
           \/ start'.from + Len(b) = Len(text) + 1 /\ Consumed(s) = Len(text)
    BY <1>5
  <2>2. start'.from \in Nat /\ Len(b) \in Nat
    BY <1>1, <2>1 DEF Contents
  <2>3. CASE Consumed(s) = Len(text)
    BY <1>1, <1>2, <1>3, <2>1, <2>2, <2>3 DEF InRegex
  <2>4. CASE Consumed(s) # Len(text)
    BY <1>1, <1>2, <1>3, <2>1, <2>2, <2>4 DEF InRegex, Beyond
  <2> QED
    BY <2>3, <2>4
<1>6. (HasClass(buffer)' <=> HasClass(b)) /\ Whole(buffer)'
  BY DEF HasClass, Whole
<1>7. mode = "regex" /\ ~HasClass(b) => InRegex(text, buffer, start.from, ch, Consumed(stream))'
  BY <1>2, <1>4, <1>5
<1> QED
  BY <1>1, <1>2, <1>3, <1>4, <1>5, <1>6 DEF CoreInv, Modes, Skips

\* Adding characters leaves the class a class, and a character that opens none, none.
LEMMA HasClassStays ==
  ASSUME NEW b \in Seq(Char), NEW c \in Seq(Char), HasClass(b)
  PROVE  HasClass(b \o c)
<1> DEFINE w == b \o c
<1>1. /\ w \in Seq(Char) /\ Len(w) = Len(b) + Len(c) /\ Len(b) \in Nat /\ Len(c) \in Nat
      /\ \A i \in 1..(Len(b) + Len(c)) : w[i] = IF i <= Len(b) THEN b[i] ELSE c[i - Len(b)]
  BY ConcatProperties
<1>2. PICK k \in 1..Len(b) : b[k] = "[" /\ ~EscapedIn(b, 0, k)
  BY DEF HasClass
<1> HIDE DEF w
<1>3. k \in 1..Len(w) /\ w[k] = "["
  BY <1>1, <1>2
<1>4. \A l \in 0 + 1..k - 1 : w[l] = b[l]
  BY <1>1, <1>2
<1>5. ~EscapedIn(w, 0, k)
  BY <1>2, <1>4, EscapedSame
<1> QED
  BY <1>1, <1>3, <1>5 DEF HasClass, w

LEMMA AppendIs ==
  ASSUME NEW b \in Seq(Char), NEW c \in Char
  PROVE  /\ Append(b, c) \in Seq(Char) /\ Len(Append(b, c)) = Len(b) + 1 /\ Len(b) \in Nat
         /\ \A i \in 1..Len(b) : Append(b, c)[i] = b[i]
         /\ Append(b, c)[Len(b) + 1] = c
         /\ \A k \in 1..Len(b) + 1 : EscapedIn(Append(b, c), 0, k) <=> EscapedIn(b, 0, k)
         /\ Whole(Append(b, c)) <=> c # "back" \/ ~Whole(b)
<1> DEFINE w == Append(b, c)
<1>1. /\ w \in Seq(Char) /\ Len(w) = Len(b) + 1 /\ Len(b) \in Nat
      /\ (\A i \in 1..Len(b) : w[i] = b[i]) /\ w[Len(b) + 1] = c
  BY AppendProperties
<1> HIDE DEF w
<1>2. ASSUME NEW k \in 1..Len(b) + 1
      PROVE  EscapedIn(w, 0, k) <=> EscapedIn(b, 0, k)
  <2>1. \A l \in 0 + 1..k - 1 : w[l] = b[l]
    BY <1>1
  <2> QED
    BY <1>1, <2>1, EscapedSame
<1>3. EscapedIn(w, 0, Len(w) + 1) <=> c = "back" /\ ~EscapedIn(w, 0, Len(b) + 1)
  <2>1. Len(b) + 1 \in Int /\ 0 < Len(b) + 1
    BY <1>1
  <2>2. EscapedIn(w, 0, Len(b) + 1 + 1) <=> w[Len(b) + 1] = "back" /\ ~EscapedIn(w, 0, Len(b) + 1)
    BY ONLY <2>1, EscapedNext
  <2> QED
    BY <1>1, <2>2
<1>4. EscapedIn(w, 0, Len(b) + 1) <=> EscapedIn(b, 0, Len(b) + 1)
  BY <1>1, <1>2
<1> QED
  BY <1>1, <1>2, <1>3, <1>4 DEF w, Whole

LEMMA OpensHere ==
  ASSUME NEW b \in Seq(Char), Whole(b), "[" \in Char
  PROVE  HasClass(Append(b, "["))
BY AppendIs DEF HasClass, Whole

LEMMA NoClassBefore ==
  ASSUME NEW b \in Seq(Char), NEW c \in Char
  PROVE  /\ HasClass(b) => HasClass(Append(b, c))
         /\ HasClass(Append(b, c)) /\ (c = "[" => ~Whole(b)) => HasClass(b)
<1> DEFINE w == Append(b, c)
<1>1. /\ w \in Seq(Char) /\ Len(w) = Len(b) + 1 /\ Len(b) \in Nat
      /\ (\A i \in 1..Len(b) : w[i] = b[i]) /\ w[Len(b) + 1] = c
      /\ \A k \in 1..Len(b) + 1 : EscapedIn(w, 0, k) <=> EscapedIn(b, 0, k)
  BY AppendIs
<1> HIDE DEF w
<1>2. HasClass(b) => HasClass(w)
  BY <1>1 DEF HasClass
<1>3. ASSUME HasClass(w), c = "[" => ~Whole(b)
      PROVE  HasClass(b)
  <2>1. PICK k \in 1..Len(w) : w[k] = "[" /\ ~EscapedIn(w, 0, k)
    BY <1>1, <1>3 DEF HasClass
  <2>2. k \in 1..Len(b) + 1
    BY <1>1, <2>1
  <2>3. ~EscapedIn(b, 0, k)
    BY <1>1, <2>1, <2>2
  <2>4. k # Len(b) + 1
    BY <1>1, <1>3, <2>1, <2>3 DEF Whole
  <2> QED
    BY <1>1, <2>1, <2>2, <2>3, <2>4 DEF HasClass
<1> QED
  BY <1>2, <1>3 DEF w

LEMMA PlainKeeps ==
  ASSUME CoreInv, PlainInRegex
  PROVE  CoreInv'
<1>1. /\ mode = "regex" /\ ch # EOF /\ Reads("regex", stream) /\ text' = text
      /\ buffer' = Append(buffer, ch) /\ start' = start /\ ch # "back"
  BY DEF PlainInRegex
<1>2. /\ TextOK(text) /\ Good(text, stream) /\ buffer \in Seq(Char) /\ ch \in Char
      /\ Len(text) \in Nat /\ Consumed(stream) \in 0..Len(text)
  BY CoreFacts
<1>3. LastRead(text, ch, Consumed(stream))
  BY <1>1 DEF CoreInv
<1>4. Append(buffer, ch) \in Seq(Char) /\ Whole(Append(buffer, ch))
  BY <1>1, <1>2, AppendIs
<1>5. ASSUME ~HasClass(Append(buffer, ch))
      PROVE  /\ Contents(text, Append(buffer, ch), start.from)
             /\ LET l == start.from + Len(Append(buffer, ch)) IN
                \/ l <= Len(text) /\ Consumed(stream) = l
                \/ l = Len(text) + 1 /\ Consumed(stream) = Len(text)
  <2>1. InRegex(text, buffer, start.from, ch, Consumed(stream))
    BY <1>1, <1>2, <1>5, NoClassBefore DEF CoreInv
  <2>2. /\ Contents(text, buffer, start.from)
        /\ Consumed(stream) = start.from + Len(buffer) + 1
        /\ start.from \in Nat /\ Len(buffer) \in Nat
    BY <1>1, <1>2, <2>1 DEF InRegex, Contents
  <2>3. ch = text[Consumed(stream)] /\ Consumed(stream) \in 1..Len(text)
    BY <1>1, <1>3 DEF LastRead
  <2>4. start.from + Len(buffer) <= Len(text) /\ ch = At(text, start.from + Len(buffer) + 1)
    BY <1>2, <2>2, <2>3 DEF At
  <2>5. Contents(text, Append(buffer, ch), start.from) /\ Len(Append(buffer, ch)) = Len(buffer) + 1
    BY <1>2, <2>2, <2>4, ContentsGrow
  <2> QED
    BY <1>2, <2>2, <2>3, <2>5
<1> QED
  BY <1>1, <1>2, <1>4, <1>5, ContentsReads

\* An escape at the end of the text takes the end itself for the escaped character.
LEMMA EscapeKeeps ==
  ASSUME CoreInv, EscapeInRegex
  PROVE  CoreInv'
<1> DEFINE c == Peeked(stream)
           s == AfterRead(stream)
           b == Append(Append(buffer, ch), c)
<1>1. /\ mode = "regex" /\ ch = "back" /\ Reads("regex", s) /\ text' = text
      /\ buffer' = buffer \o <<ch, c>> /\ start' = start
  BY DEF EscapeInRegex
<1>2. /\ TextOK(text) /\ Good(text, stream) /\ buffer \in Seq(Char) /\ ch \in Char /\ c \in Char
      /\ Len(text) \in Nat /\ Consumed(stream) \in 0..Len(text)
      /\ Good(text, s) /\ Consumed(s) = Beyond(text, Consumed(stream))
      /\ c = At(text, Consumed(stream) + 1)
  BY CoreFacts
<1>3. LastRead(text, ch, Consumed(stream)) /\ ch # EOF
  BY <1>1 DEF CoreInv, EOF
<1>4. Append(buffer, ch) \in Seq(Char) /\ b \in Seq(Char) /\ Whole(b)
  <2> HIDE DEF c
  <2>1. Append(buffer, ch) \in Seq(Char) /\ ~Whole(Append(buffer, ch))
    BY <1>1, <1>2, AppendIs DEF CoreInv
  <2> QED
    BY <1>2, <2>1, AppendIs
<1>5. buffer' = b
  <2> HIDE DEF c
  <2>1. buffer \o <<ch, c>> = Append(Append(buffer, ch), c)
    BY <1>2
  <2> QED
    BY <1>1, <2>1
<1>6. ASSUME ~HasClass(b)
      PROVE  /\ Contents(text, b, start.from)
             /\ LET l == start.from + Len(b) IN
                \/ l <= Len(text) /\ Consumed(s) = l
                \/ l = Len(text) + 1 /\ Consumed(s) = Len(text)
  <2>1. ~HasClass(Append(buffer, ch)) /\ ~HasClass(buffer)
    <3> HIDE DEF c
    <3> QED
      BY <1>2, <1>4, <1>6, NoClassBefore
  <2>2. InRegex(text, buffer, start.from, ch, Consumed(stream))
    BY <1>1, <2>1 DEF CoreInv
  <2>3. /\ Contents(text, buffer, start.from)
        /\ Consumed(stream) = start.from + Len(buffer) + 1
        /\ start.from \in Nat /\ Len(buffer) \in Nat
    BY <1>2, <1>3, <2>2 DEF InRegex, Contents
  <2>4. ch = text[Consumed(stream)] /\ Consumed(stream) \in 1..Len(text)
    BY <1>3 DEF LastRead
  <2>5. start.from + Len(buffer) <= Len(text) /\ ch = At(text, start.from + Len(buffer) + 1)
    BY <1>2, <2>3, <2>4 DEF At
  <2>6. /\ Contents(text, Append(buffer, ch), start.from)
        /\ Len(Append(buffer, ch)) = Len(buffer) + 1
    BY <1>2, <2>3, <2>5, ContentsGrow
  <2>7. /\ start.from + Len(Append(buffer, ch)) <= Len(text)
        /\ c = At(text, start.from + Len(Append(buffer, ch)) + 1)
    <3>1. start.from + Len(Append(buffer, ch)) = Consumed(stream)
      BY <2>3, <2>6
    <3> HIDE DEF c
    <3> QED
      BY <1>2, <2>4, <3>1
  <2>8. Contents(text, b, start.from) /\ Len(b) = Len(Append(buffer, ch)) + 1
    <3> HIDE DEF c
    <3> QED
      BY <1>2, <1>4, <2>6, <2>7, ContentsGrow
  <2>9. start.from + Len(b) = Consumed(stream) + 1
    BY <2>3, <2>6, <2>8
  <2>10. CASE Consumed(stream) < Len(text)
    <3>1. Consumed(s) = Consumed(stream) + 1
      BY <1>2, <2>10 DEF Beyond
    <3> HIDE DEF b, s
    <3> QED
      BY <1>2, <2>8, <2>9, <2>10, <3>1
  <2>11. CASE Consumed(stream) = Len(text)
    <3>1. Consumed(s) = Len(text)
      BY <1>2, <2>11 DEF Beyond
    <3> HIDE DEF b, s
    <3> QED
      BY <1>2, <2>8, <2>9, <2>11, <3>1
  <2> QED
    BY <1>2, <2>10, <2>11
<1> HIDE DEF c, s, b
<1> QED
  BY <1>1, <1>2, <1>4, <1>5, <1>6, ContentsReads

\* Inside a class, and behind one, the characters need not be those of the text.
LEMMA ClassKeeps ==
  ASSUME CoreInv, OpenClass \/ CharInClass \/ CloseClass
  PROVE  CoreInv'
<1>0. /\ TextOK(text) /\ Good(text, stream) /\ buffer \in Seq(Char) /\ ch \in Char
      /\ Len(text) \in Nat /\ Good(text, AfterRead(stream)) /\ Peeked(stream) \in Char
  BY CoreFacts
<1>1. ASSUME NEW b \in Seq(Char), HasClass(buffer)
      PROVE  buffer \o b \in Seq(Char) /\ HasClass(buffer \o b)
  BY <1>0, <1>1, HasClassStays, ConcatProperties
<1>2. ASSUME NEW m \in {"regex", "class"}, NEW s, Good(text, s), Reads(m, s), text' = text,
             buffer' \in Seq(Char), HasClass(buffer'), m = "regex" => Whole(buffer')
      PROVE  CoreInv'
  <2>1. Good(text, AfterRead(s)) /\ LastRead(text, Peeked(s), Consumed(AfterRead(s)))
    BY <1>0, <1>2, AfterReadIs
  <2>2. Peeked(s) \in Char
    BY <1>0, <1>2, PeekedIs
  <2>3. HasClass(buffer)' /\ (m = "regex" => Whole(buffer)')
    BY <1>2 DEF HasClass, Whole
  <2> QED
    BY <1>0, <1>2, <2>1, <2>2, <2>3 DEF CoreInv, Reads, Goto, Modes, Skips
<1>3. ASSUME OpenClass PROVE CoreInv'
  <2>1. /\ Reads("class", stream) /\ text' = text /\ buffer' = Append(buffer, ch) /\ ch = "["
        /\ mode = "regex"
    BY <1>3 DEF OpenClass
  <2>2. Append(buffer, ch) \in Seq(Char) /\ HasClass(Append(buffer, ch))
    BY <1>0, <2>1, AppendIs, OpensHere DEF CoreInv
  <2> QED
    BY <1>0, <1>2, <2>1, <2>2
<1>4. ASSUME CharInClass PROVE CoreInv'
  <2> DEFINE escape == ch = "back"
             s == IF escape THEN AfterRead(stream) ELSE stream
             c == IF escape THEN Peeked(stream) ELSE ch
             more == IF escape THEN <<ch, c>> ELSE <<c>>
  <2>1. Good(text, s) /\ c \in Char /\ more \in Seq(Char)
    BY <1>0
  <2>2. mode = "class" /\ HasClass(buffer)
    BY <1>4 DEF CharInClass, CoreInv
  <2>3. \/ Return("error", start, s)
        \/ Reads("class", s) /\ text' = text /\ buffer' = buffer \o more
    BY <1>4 DEF CharInClass
  <2> HIDE DEF s, c, more
  <2> QED
    BY <1>1, <1>2, <2>1, <2>2, <2>3, ReturnKeeps
<1>5. ASSUME CloseClass PROVE CoreInv'
  <2>1. /\ Reads("regex", stream) /\ text' = text /\ buffer' = buffer \o <<ch, ch>> /\ mode = "class"
        /\ ch = "]"
    BY <1>5 DEF CloseClass
  <2>2. <<ch, ch>> \in Seq(Char) /\ HasClass(buffer)
    BY <1>0, <2>1 DEF CoreInv
  <2>3. Whole(buffer \o <<ch, ch>>)
    <3>1. Append(buffer, ch) \in Seq(Char)
      BY <1>0, AppendIs
    <3>2. Whole(Append(Append(buffer, ch), ch))
      BY <1>0, <2>1, <3>1, AppendIs
    <3>3. buffer \o <<ch, ch>> = Append(Append(buffer, ch), ch)
      BY <1>0
    <3> QED
      BY <3>2, <3>3
  <2> QED
    BY <1>0, <1>1, <1>2, <2>1, <2>2, <2>3
<1> QED
  BY <1>3, <1>4, <1>5

\* What is put back is what was read, and ends behind the slash.
LEMMA UndoKeeps ==
  ASSUME CoreInv, \/ AbandonRegex /\ ~HasClass(buffer)
                  \/ UndoRegex
  PROVE  CoreInv'
<1>1. /\ TextOK(text) /\ Good(text, stream) /\ buffer \in Seq(Char) /\ ch \in Char
      /\ Len(text) \in Nat /\ Consumed(stream) \in 0..Len(text) /\ Len(buffer) \in Nat
  BY CoreFacts
<1>2. ASSUME AbandonRegex, ~HasClass(buffer) PROVE CoreInv'
  <2> DEFINE s == IF ch = NL THEN PutBack(stream, NL) ELSE stream
  <2>1. /\ mode = "regex" /\ ch \in {EOF, NL} /\ text' = text /\ buffer' = buffer /\ start' = start
        /\ mode' = "undo" /\ ch' = "/" /\ stream' = s
    BY <1>2 DEF AbandonRegex, Goto
  <2>2. LastRead(text, ch, Consumed(stream))
    BY <2>1 DEF CoreInv
  <2>3. InRegex(text, buffer, start.from, ch, Consumed(stream))
    BY <1>2, <2>1 DEF CoreInv
  <2>4. /\ Contents(text, buffer, start.from) /\ start.from \in Nat
        /\ ch # EOF => Consumed(stream) = start.from + Len(buffer) + 1
        /\ ch = EOF => start.from + Len(buffer) \in {Len(text), Len(text) + 1}
    BY <2>3 DEF InRegex, Contents
  <2>5. "/" \in Char
    <3>1. start.from \in 1..Len(text) /\ text[start.from] = "/"
      BY <2>4 DEF Contents
    <3> QED
      BY <1>1, <3>1 DEF TextOK
  <2>6. CASE ch = NL
    <3>1. NL # EOF
      BY DEF NL, EOF
    <3>2. Good(text, s) /\ Consumed(s) = Consumed(stream) - 1
      BY <1>1, <2>2, <2>6, <3>1, PutBackIs
    <3>3. InUndo(text, buffer, start.from, Consumed(s))
      <4> HIDE DEF s
      <4> QED
        BY <1>1, <2>4, <2>6, <3>1, <3>2 DEF InUndo
    <3> HIDE DEF s
    <3> QED
      BY <1>1, <2>1, <2>5, <3>2, <3>3 DEF CoreInv, Modes, Skips
  <2>7. CASE ch # NL
    <3>1. ch = EOF /\ s = stream /\ Consumed(stream) = Len(text)
      BY <1>1, <2>1, <2>2, <2>7 DEF LastRead, TextOK
    <3>2. InUndo(text, buffer, start.from, Consumed(stream))
      BY <1>1, <2>4, <3>1 DEF InUndo
    <3> HIDE DEF s
    <3> QED
      BY <1>1, <2>1, <2>5, <3>1, <3>2 DEF CoreInv, Modes, Skips
  <2> QED
    BY <2>6, <2>7
<1>3. ASSUME UndoRegex PROVE CoreInv'
  <2>1. /\ mode = "undo" /\ text' = text /\ start' = start
    BY <1>3 DEF UndoRegex
  <2>2. /\ InUndo(text, buffer, start.from, Consumed(stream)) /\ ch = "/"
        /\ Contents(text, buffer, start.from) /\ start.from \in 1..Len(text)
        /\ text[start.from] = "/" /\ start.from + Len(buffer) <= Len(text) + 1
    BY <2>1 DEF CoreInv, InUndo, Contents
  <2>3. Consumed(stream) = IF start.from + Len(buffer) <= Len(text) THEN start.from + Len(buffer)
                                                                    ELSE Len(text)
    BY <2>2 DEF InUndo
  <2>4. CASE buffer = << >>
    <3>1. Goto("token", ch, stream) /\ buffer' = buffer
      BY <1>3, <2>4 DEF UndoRegex
    <3>2. Consumed(stream) = start.from
      BY <1>1, <2>2, <2>3, <2>4
    <3>3. LastRead(text, ch, Consumed(stream))
      BY <2>2, <3>2 DEF LastRead
    <3> QED
      BY <1>1, <2>1, <2>2, <3>1, <3>3, GotoKeeps DEF Modes, Skips
  <2>5. CASE buffer # << >>
    <3> DEFINE c == buffer[Len(buffer)]
               s == PutBack(stream, c)
               r == SubSeq(buffer, 1, Len(buffer) - 1)
    <3>1. mode' = "undo" /\ ch' = ch /\ stream' = s /\ buffer' = r
      BY <1>3, <2>5 DEF UndoRegex, Goto
    <3>2. /\ Contents(text, r, start.from) /\ r \in Seq(Char) /\ Len(r) = Len(buffer) - 1
          /\ Len(buffer) \in Nat \ {0}
          /\ c = At(text, start.from + Len(buffer)) /\ c \in Char
      BY <1>1, <2>2, <2>5, ContentsShrink
    <3> HIDE DEF c, r
    <3>3. CASE start.from + Len(buffer) <= Len(text)
      <4>1. Consumed(stream) = start.from + Len(buffer) /\ c = text[Consumed(stream)]
        BY <2>3, <3>2, <3>3 DEF At
      <4>2. c # EOF /\ LastRead(text, c, Consumed(stream))
        BY <1>1, <2>2, <3>2, <3>3, <4>1 DEF TextOK, LastRead
      <4>3. Good(text, s) /\ Consumed(s) = Consumed(stream) - 1
        BY <1>1, <3>2, <4>2, PutBackIs
      <4> HIDE DEF s
      <4>4. InUndo(text, r, start.from, Consumed(s))
        BY <1>1, <2>2, <3>2, <3>3, <4>1, <4>3 DEF InUndo
      <4> QED
        BY <1>1, <2>1, <2>2, <3>1, <3>2, <4>3, <4>4 DEF CoreInv, Modes, Skips
    <3>4. CASE start.from + Len(buffer) = Len(text) + 1
      <4>1. Consumed(stream) = Len(text) /\ c = EOF
        BY <1>1, <2>3, <3>2, <3>4 DEF At
      <4>2. LastRead(text, c, Consumed(stream))
        BY <4>1 DEF LastRead
      <4>3. Good(text, s) /\ Consumed(s) = Consumed(stream)
        BY <1>1, <3>2, <4>1, <4>2, PutBackIs
      <4> HIDE DEF s
      <4>4. InUndo(text, r, start.from, Consumed(s))
        BY <1>1, <2>2, <3>2, <3>4, <4>1, <4>3 DEF InUndo
      <4> QED
        BY <1>1, <2>1, <2>2, <3>1, <3>2, <4>3, <4>4 DEF CoreInv, Modes, Skips
    <3> QED
      BY <1>1, <2>2, <3>2, <3>3, <3>4
  <2> QED
    BY <2>4, <2>5
<1> QED
  BY <1>2, <1>3

LEMMA RegexKeeps ==
  ASSUME CoreInv, Regex, AbandonRegex => ~HasClass(buffer)
  PROVE  CoreInv'
<1>1. ASSUME DivideAtEnd PROVE CoreInv'
  BY <1>1, CoreFacts, ReturnKeeps DEF DivideAtEnd
<1>2. ASSUME DivideOrRegex PROVE CoreInv'
  <2> DEFINE s == PutBack(AfterRead(stream), Peeked(stream))
  <2>1. /\ mode = "skip" /\ ch = "/" /\ text' = text /\ buffer' = buffer
        /\ \/ Goto("token", ch, s)
           \/ Reads("regex", s) /\ start' = Place(s)
    BY <1>2 DEF DivideOrRegex, AtSlash, Following
  <2>2. /\ TextOK(text) /\ Good(text, stream) /\ buffer = << >> /\ buffer \in Seq(Char)
        /\ ch \in Char /\ Good(text, s) /\ Consumed(s) = Consumed(stream) /\ Len(text) \in Nat
    BY <2>1, CoreFacts DEF Skips
  <2>3. LastRead(text, ch, Consumed(stream)) /\ ch # EOF
    BY <2>1 DEF CoreInv, EOF
  <2>4. Consumed(stream) \in 1..Len(text) /\ text[Consumed(stream)] = "/"
    BY <2>1, <2>3 DEF LastRead
  <2> HIDE DEF s
  <2>5. CASE Goto("token", ch, s)
    <3>1. buffer' \in Seq(Char)
      BY <2>1, <2>2
    <3>2. text' = text /\ LastRead(text, ch, Consumed(s))
      BY <2>1, <2>2, <2>3
    <3> QED
      BY <2>1, <2>2, <2>5, <3>1, <3>2, GotoKeeps DEF Modes, Skips
  <2>6. CASE Reads("regex", s) /\ start' = Place(s)
    <3>1. start'.from = Consumed(stream)
      BY <2>2, <2>6 DEF Place
    <3>2. Contents(text, buffer, start'.from) /\ start'.from + Len(buffer) = Consumed(stream)
      BY <2>2, <2>4, <3>1 DEF Contents
    <3>3. Reads("regex", s) /\ Good(text, s) /\ text' = text /\ buffer' = buffer
      BY <2>1, <2>2, <2>6
    <3>4. LET l == start'.from + Len(buffer) IN l <= Len(text) /\ Consumed(s) = l
      BY <2>2, <2>4, <3>2
    <3>5. Whole(buffer)
      <4>1. Len(buffer) = 0
        BY <2>2
      <4>2. ~EscapedIn(buffer, 0, 0 + 1)
        BY NotEscapedFirst
      <4> QED
        BY <4>1, <4>2 DEF Whole
    <3> QED
      BY <2>2, <3>2, <3>3, <3>4, <3>5, ContentsReads
  <2> QED
    BY <2>1, <2>5, <2>6
<1>3. ASSUME CloseRegex PROVE CoreInv'
  BY <1>3, CoreFacts, ReadsKeeps DEF CloseRegex, Modes, Skips
<1>4. ASSUME RegexFlag PROVE CoreInv'
  BY <1>4, CoreFacts, ReadsKeeps DEF RegexFlag, Modes, Skips
<1>5. ASSUME EndRegex PROVE CoreInv'
  BY <1>5, CoreFacts, ReturnKeeps DEF EndRegex
<1> QED
  BY <1>1, <1>2, <1>3, <1>4, <1>5, PlainKeeps, EscapeKeeps, ClassKeeps, UndoKeeps DEF Regex

LEMMA CoreStep ==
  ASSUME CoreInv, [Next]_vars, [~GivesUpClass]_vars
  PROVE  CoreInv'
<1>1. CASE UNCHANGED vars
  BY <1>1 DEF CoreInv, vars, local
<1>2. CASE ~UNCHANGED vars
  <2>1. AbandonRegex => ~HasClass(buffer)
    BY <1>2 DEF GivesUpClass
  <2>2. CASE Peek \/ Advance
    BY <2>2, SkippingKeeps DEF Peek, Advance
  <2>3. CASE Step
    BY <2>1, <2>3, SkippingKeeps, RegexKeeps, LexemeKeeps DEF Step
  <2> QED
    BY <1>2, <2>2, <2>3 DEF Next
<1> QED
  BY <1>1, <1>2

LEMMA CoreIsInvariant == Spec /\ [][~GivesUpClass]_vars => []CoreInv
<1>1. Init => CoreInv
  BY TextsOK, CoreInit
<1>2. CoreInv /\ [Next]_vars /\ [~GivesUpClass]_vars => CoreInv'
  BY CoreStep
<1> QED
  BY <1>1, <1>2, PTL DEF Spec

\* Whatever is read ahead, put back and read again by tokenizer.cc, what the scanner
\* still has to give is the rest of the text, unless a regular expression with a
\* character class in it is given up.
THEOREM NothingIsLost == Spec /\ [][~GivesUpClass]_vars => []UnreadIsTheRest
<1>1. CoreInv => UnreadIsTheRest
  <2> SUFFICES ASSUME CoreInv PROVE UnreadIsTheRest
    OBVIOUS
  <2>1. Consumed(stream) >= 0
    BY CoreFacts
  <2> QED
    BY <2>1, UnreadIs DEF CoreInv, UnreadIsTheRest
<1> QED
  BY <1>1, CoreIsInvariant, PTL

-------------------------------------------------------------------------------
\* Which texts have a regular expression that is given up: nothing may end one behind the
\* slash that begins it, or behind the last of its classes.
NoneEnds(t, x, n) == \A k \in x + 1..n : ~MayEnd(t, k)

ClassClosed(t, from, n) ==
  \E a \in from + 1..n : \E b \in a + 1..n :
    OpensClass(t, from, a) /\ t[b] = "]" /\ NoneEnds(t, b, n)

ClassInv ==
  LET upto == Upto(ch, Consumed(stream)) IN
  /\ mode \in {"regex", "class"} => start.from \in 1..Len(text)
  /\ mode = "class" => \E a \in start.from + 1..upto : OpensClass(text, start.from, a)
  /\ mode = "regex" =>
       IF HasClass(buffer) THEN ClassClosed(text, start.from, upto)
                           ELSE NoneEnds(text, start.from, upto)

LEMMA NoneEndsGrows ==
  ASSUME NEW t, NEW x \in Int, NEW n \in Int, NEW m \in Int,
         \A k \in n + 1..m : ~MayEnd(t, k)
  PROVE  /\ NoneEnds(t, x, n) => NoneEnds(t, x, m)
         /\ n <= m /\ x \in Nat /\ ClassClosed(t, x, n) => ClassClosed(t, x, m)
<1>1. ASSUME NEW y \in Int, NoneEnds(t, y, n) PROVE NoneEnds(t, y, m)
  BY <1>1 DEF NoneEnds
<1>2. ASSUME n <= m, x \in Nat, ClassClosed(t, x, n) PROVE ClassClosed(t, x, m)
  <2>1. PICK a \in x + 1..n : \E b \in a + 1..n :
          OpensClass(t, x, a) /\ t[b] = "]" /\ NoneEnds(t, b, n)
    BY <1>2 DEF ClassClosed
  <2>2. PICK b \in a + 1..n : OpensClass(t, x, a) /\ t[b] = "]" /\ NoneEnds(t, b, n)
    BY <2>1
  <2>3. NoneEnds(t, b, m) /\ a \in x + 1..m /\ b \in a + 1..m
    BY <1>1, <1>2, <2>1, <2>2
  <2> QED
    BY <2>2, <2>3 DEF ClassClosed
<1> QED
  BY <1>1, <1>2

LEMMA RegexGoesOn ==
  ASSUME TextOK(text), text' = text, NEW s, Good(text, s), Reads("regex", s), NEW b, buffer' = b,
         NEW from \in 1..Len(text), start'.from = from,
         HasClass(b) => ClassClosed(text, from, Consumed(s)),
         ~HasClass(b) => NoneEnds(text, from, Consumed(s))
  PROVE  ClassInv'
<1>1. mode' = "regex" /\ ch' = Peeked(s) /\ stream' = AfterRead(s)
  BY DEF Reads, Goto
<1>2. Upto(Peeked(s), Consumed(AfterRead(s))) = Consumed(s)
  BY UptoReads
<1>3. Upto(ch, Consumed(stream))' = Consumed(s)
  BY <1>1, <1>2
<1>4. HasClass(buffer)' <=> HasClass(b)
  BY DEF HasClass
<1> HIDE DEF Consumed
<1> QED
  BY <1>1, <1>3, <1>4 DEF ClassInv

LEMMA ClassGoesOn ==
  ASSUME TextOK(text), text' = text, NEW s, Good(text, s), Reads("class", s),
         NEW from \in 1..Len(text), start'.from = from,
         NEW a \in from + 1..Consumed(s), OpensClass(text, from, a)
  PROVE  ClassInv'
<1>1. mode' = "class" /\ ch' = Peeked(s) /\ stream' = AfterRead(s)
  BY DEF Reads, Goto
<1>2. Upto(Peeked(s), Consumed(AfterRead(s))) = Consumed(s)
  BY UptoReads
<1>3. Upto(ch, Consumed(stream))' = Consumed(s)
  BY <1>1, <1>2
<1> QED
  BY <1>1, <1>3 DEF ClassInv

LEMMA ElsewhereNoClass == mode' \notin {"regex", "class"} => ClassInv'
BY DEF ClassInv

\* The character that is looked at ends no regular expression.
LEMMA OpenAndClose ==
  ASSUME CoreInv, ClassInv, OpenClass \/ CloseClass
  PROVE  ClassInv'
<1> DEFINE n == Consumed(stream)
           from == start.from
<1>1. /\ TextOK(text) /\ Good(text, stream) /\ Len(text) \in Nat /\ n \in 0..Len(text)
      /\ buffer \in Seq(Char) /\ ch \in Char
  BY CoreFacts
<1>2. mode \in {"regex", "class"} /\ ch # EOF /\ text' = text /\ start' = start
  BY DEF OpenClass, CloseClass, EOF
<1>3. n \in 1..Len(text) /\ ch = text[n] /\ from \in 1..Len(text) /\ Upto(ch, n) = n - 1
  BY <1>2, UptoIs DEF ClassInv, Upto
<1> HIDE DEF n, from
<1>4. CASE OpenClass
  <2>1. mode = "regex" /\ ch = "[" /\ Reads("class", stream)
    BY <1>4 DEF OpenClass
  <2>2. CASE HasClass(buffer)
    <3>1. ClassClosed(text, from, n - 1)
      BY <1>3, <2>1, <2>2 DEF ClassInv, n, from
    <3>2. PICK a \in from + 1..n - 1 : OpensClass(text, from, a)
      BY <3>1 DEF ClassClosed
    <3>3. a \in from + 1..n
      BY <1>3, <3>2
    <3> QED
      BY <1>1, <1>2, <1>3, <2>1, <3>2, <3>3, ClassGoesOn DEF n, from
  <2>3. CASE ~HasClass(buffer)
    <3>1. NoneEnds(text, from, n - 1)
      BY <1>3, <2>1, <2>3 DEF ClassInv, n, from
    <3>2. InRegex(text, buffer, from, ch, n)
      BY <2>1, <2>3 DEF CoreInv, n, from
    <3>3. text[from] = "/" /\ n = from + Len(buffer) + 1 /\ Len(buffer) \in Nat
      BY <1>1, <1>2, <3>2 DEF InRegex, Contents
    <3>4. n \in from + 1..n
      BY <1>3, <3>3
    <3>5. OpensClass(text, from, n)
      BY <1>3, <2>1, <3>1, <3>3 DEF OpensClass, NoneEnds
    <3> QED
      BY <1>1, <1>2, <1>3, <2>1, <3>4, <3>5, ClassGoesOn DEF n, from
  <2> QED
    BY <2>2, <2>3
<1>5. CASE CloseClass
  <2>1. mode = "class" /\ ch = "]" /\ Reads("regex", stream) /\ buffer' = buffer \o <<ch, ch>>
    BY <1>5 DEF CloseClass
  <2>2. PICK a \in from + 1..n - 1 : OpensClass(text, from, a)
    BY <1>3, <2>1 DEF ClassInv, n, from
  <2>3. NoneEnds(text, n, n)
    BY <1>3 DEF NoneEnds
  <2>4. a \in from + 1..n /\ n \in a + 1..n
    BY <1>3, <2>2
  <2>5. ClassClosed(text, from, n)
    BY <1>3, <2>1, <2>2, <2>3, <2>4 DEF ClassClosed
  <2>6. HasClass(buffer \o <<ch, ch>>)
    <3>1. HasClass(buffer) /\ <<ch, ch>> \in Seq(Char)
      BY <1>1, <2>1 DEF CoreInv
    <3> QED
      BY <1>1, <3>1, HasClassStays
  <2> QED
    BY <1>1, <1>2, <1>3, <2>1, <2>5, <2>6, RegexGoesOn DEF n, from
<1> QED
  BY <1>4, <1>5

LEMMA PlainAndEscape ==
  ASSUME CoreInv, ClassInv, PlainInRegex \/ EscapeInRegex
  PROVE  ClassInv'
<1> DEFINE n == Consumed(stream)
           from == start.from
           c == Peeked(stream)
           s == AfterRead(stream)
<1>1. /\ TextOK(text) /\ Good(text, stream) /\ Len(text) \in Nat /\ n \in 0..Len(text)
      /\ buffer \in Seq(Char) /\ ch \in Char /\ c \in Char
      /\ Good(text, s) /\ Consumed(s) = Beyond(text, n)
  BY CoreFacts
<1>2. mode = "regex" /\ ch # EOF /\ ch # "[" /\ text' = text /\ start' = start /\ Whole(buffer)
  BY DEF PlainInRegex, EscapeInRegex, EOF, CoreInv
<1>3. n \in 1..Len(text) /\ ch = text[n] /\ from \in 1..Len(text) /\ Upto(ch, n) = n - 1
  BY <1>2, UptoIs DEF ClassInv, Upto
<1>4. /\ HasClass(buffer) => ClassClosed(text, from, n - 1)
      /\ ~HasClass(buffer) => NoneEnds(text, from, n - 1)
  BY <1>2, <1>3 DEF ClassInv, n, from
<1>5. ~MayEnd(text, n)
  BY <1>3 DEF PlainInRegex, EscapeInRegex, MayEnd, NL
<1>6. HasClass(Append(buffer, ch)) <=> HasClass(buffer)
  BY <1>1, <1>2, NoClassBefore
<1> HIDE DEF n, from, c, s
<1>7. ASSUME NEW m \in n..Len(text), \A k \in n + 1..m : ~MayEnd(text, k)
      PROVE  /\ HasClass(buffer) => ClassClosed(text, from, m)
             /\ ~HasClass(buffer) => NoneEnds(text, from, m)
  <2>1. \A k \in n - 1 + 1..m : ~MayEnd(text, k)
    BY <1>3, <1>5, <1>7
  <2>2. from \in Nat /\ from \in Int /\ n - 1 \in Int /\ m \in Int /\ n - 1 <= m
    BY <1>1, <1>3, <1>7
  <2>3. /\ NoneEnds(text, from, n - 1) => NoneEnds(text, from, m)
        /\ ClassClosed(text, from, n - 1) => ClassClosed(text, from, m)
    BY <2>1, <2>2, NoneEndsGrows
  <2> QED
    BY <1>4, <2>3
<1>8. CASE PlainInRegex
  <2>1. Reads("regex", stream) /\ buffer' = Append(buffer, ch)
    BY <1>8 DEF PlainInRegex
  <2>2. /\ HasClass(buffer) => ClassClosed(text, from, n)
        /\ ~HasClass(buffer) => NoneEnds(text, from, n)
    BY <1>3, <1>7
  <2> QED
    BY <1>1, <1>2, <1>3, <1>6, <2>1, <2>2, RegexGoesOn DEF n, from
<1>9. CASE EscapeInRegex
  <2>1. ch = "back" /\ Reads("regex", s) /\ buffer' = buffer \o <<ch, c>>
    BY <1>9 DEF EscapeInRegex, s, c
  <2>2. buffer \o <<ch, c>> = Append(Append(buffer, ch), c)
    BY <1>1
  <2>3. Append(buffer, ch) \in Seq(Char) /\ ~Whole(Append(buffer, ch))
    BY <1>1, <1>2, <2>1, AppendIs
  <2>4. HasClass(Append(Append(buffer, ch), c)) <=> HasClass(buffer)
    BY <1>1, <1>6, <2>3, NoClassBefore
  <2>5. Consumed(s) \in n..Len(text) /\ Consumed(s) <= n + 1
    BY <1>1, <1>3 DEF Beyond
  <2>6. \A k \in n + 1..Consumed(s) : ~MayEnd(text, k)
    <3>1. ASSUME NEW k \in n + 1..Consumed(s) PROVE ~MayEnd(text, k)
      <4>1. k = n + 1
        BY <1>1, <1>3, <2>5, <3>1
      <4>2. k - 1 = n
        BY <1>3, <4>1
      <4> QED
        BY <1>3, <2>1, <4>2 DEF MayEnd
    <3> QED
      BY <3>1
  <2>7. /\ HasClass(buffer) => ClassClosed(text, from, Consumed(s))
        /\ ~HasClass(buffer) => NoneEnds(text, from, Consumed(s))
    BY <1>7, <2>5, <2>6
  <2> QED
    BY <1>1, <1>2, <1>3, <2>1, <2>2, <2>4, <2>7, RegexGoesOn DEF from
<1> QED
  BY <1>8, <1>9

LEMMA StartAndInClass ==
  ASSUME CoreInv, ClassInv, DivideOrRegex \/ CharInClass
  PROVE  ClassInv'
<1> DEFINE n == Consumed(stream)
<1>1. /\ TextOK(text) /\ Good(text, stream) /\ Len(text) \in Nat /\ n \in 0..Len(text)
      /\ buffer \in Seq(Char) /\ ch \in Char
      /\ Good(text, AfterRead(stream)) /\ Consumed(AfterRead(stream)) = Beyond(text, n)
      /\ mode \in Skips => buffer = << >>
  BY CoreFacts
<1>2. CASE DivideOrRegex
  <2> DEFINE s == PutBack(AfterRead(stream), Peeked(stream))
  <2>1. /\ mode = "skip" /\ ch = "/" /\ text' = text /\ buffer' = buffer
        /\ \/ Goto("token", ch, s)
           \/ Reads("regex", s) /\ start' = Place(s)
    BY <1>2 DEF DivideOrRegex, AtSlash, Following
  <2>2. Good(text, s) /\ Consumed(s) = n
    BY CoreFacts
  <2>3. n \in 1..Len(text)
    BY <2>1, UptoIs DEF EOF
  <2> HIDE DEF s
  <2>4. CASE Goto("token", ch, s)
    BY <2>4, ElsewhereNoClass DEF Goto
  <2>5. CASE Reads("regex", s) /\ start' = Place(s)
    <3>1. start'.from = n
      BY <2>2, <2>5 DEF Place
    <3>2. ~HasClass(buffer) /\ NoneEnds(text, n, n)
      BY <1>1, <2>1, <2>3 DEF Skips, HasClass, NoneEnds
    <3> HIDE DEF n
    <3> QED
      BY <1>1, <2>1, <2>2, <2>3, <2>5, <3>1, <3>2, RegexGoesOn
  <2> QED
    BY <2>1, <2>4, <2>5
<1>3. CASE CharInClass
  <2> DEFINE s == IF ch = "back" THEN AfterRead(stream) ELSE stream
  <2>1. /\ mode = "class"
        /\ \/ Return("error", start, s)
           \/ /\ Reads("class", s) /\ text' = text /\ start' = start
              /\ IF ch = "back" THEN TRUE ELSE ch # EOF
    BY <1>3 DEF CharInClass
  <2>2. CASE Return("error", start, s)
    BY <2>2, ElsewhereNoClass DEF Return
  <2>3. CASE /\ Reads("class", s) /\ text' = text /\ start' = start
             /\ IF ch = "back" THEN TRUE ELSE ch # EOF
    <3>1. ch # EOF
      BY <2>3 DEF EOF
    <3>2. n \in 1..Len(text) /\ Upto(ch, n) = n - 1
      BY <2>1, <3>1, UptoIs DEF Upto
    <3>3. PICK a \in start.from + 1..n - 1 : OpensClass(text, start.from, a)
      BY <2>1, <3>2 DEF ClassInv
    <3>4. start.from \in 1..Len(text)
      BY <2>1 DEF ClassInv
    <3>5. Good(text, s) /\ Consumed(s) \in n..Len(text)
      BY <1>1, <3>2 DEF Beyond
    <3>6. a \in start.from + 1..Consumed(s)
      <4> HIDE DEF n, s
      <4> QED
        BY <3>2, <3>3, <3>4, <3>5
    <3> HIDE DEF s
    <3> QED
      BY <1>1, <2>3, <3>3, <3>4, <3>5, <3>6, ClassGoesOn
  <2> QED
    BY <2>1, <2>2, <2>3
<1> QED
  BY <1>2, <1>3

LEMMA OtherwiseNoClass ==
  ASSUME \/ Call(TRUE) \/ Call(FALSE) \/ Skipping \/ Lexeme
         \/ DivideAtEnd \/ AbandonRegex \/ UndoRegex \/ CloseRegex \/ RegexFlag \/ EndRegex
  PROVE  ClassInv'
<1>1. CASE Call(TRUE) \/ Call(FALSE) \/ Skipping
  BY <1>1, ElsewhereNoClass DEF Call, Skipping, SkipSpace, LineComment, SkipLine, BlockComment,
    SkipBlock, EndBlock, EndBlockAtEnd, Reads, Goto, Return
<1>2. CASE \/ DivideAtEnd \/ AbandonRegex \/ UndoRegex \/ CloseRegex \/ RegexFlag \/ EndRegex
  BY <1>2, ElsewhereNoClass DEF DivideAtEnd, AbandonRegex, UndoRegex, CloseRegex, RegexFlag,
    EndRegex, Reads, Goto, Return
<1>3. CASE AtEnd \/ StartWord \/ CharInWord \/ EndWord \/ ThreeSymbol \/ TwoSymbol \/ OneSymbol
           \/ Illegal
  BY <1>3, ElsewhereNoClass DEF AtEnd, StartWord, CharInWord, EndWord, ThreeSymbol, TwoSymbol,
    OneSymbol, Illegal, Reads, Goto, Return
<1>4. CASE StartString \/ CharInString \/ EndString \/ StartNumber
  BY <1>4, ElsewhereNoClass DEF StartString, CharInString, EndString, StartNumber, Reads, Goto,
    Return
<1>5. CASE Radix \/ Octal \/ DigitInRadix \/ EndRadix \/ CharInNumber \/ EndNumber
  BY <1>5, ElsewhereNoClass DEF Radix, Octal, DigitInRadix, EndRadix, CharInNumber, EndNumber,
    Reads, Goto, Return
<1> QED
  BY <1>1, <1>2, <1>3, <1>4, <1>5 DEF Lexeme

LEMMA ClassStep ==
  ASSUME CoreInv, ClassInv, [Next]_vars
  PROVE  ClassInv'
<1>1. CASE UNCHANGED vars
  BY <1>1 DEF ClassInv, vars, local
<1>2. CASE Peek \/ Advance
  BY <1>2, OtherwiseNoClass DEF Peek, Advance
<1>3. CASE Step
  BY <1>3, OtherwiseNoClass, StartAndInClass, PlainAndEscape, OpenAndClose DEF Step, Regex
<1> QED
  BY <1>1, <1>2, <1>3 DEF Next

\* No action changes the text.
LEMMA TextStays == [Next]_vars => text' = text
<1> SUFFICES ASSUME [Next]_vars PROVE text' = text
  OBVIOUS
<1>1. CASE UNCHANGED vars
  BY <1>1 DEF vars
<1>2. CASE Peek \/ Advance
  BY <1>2 DEF Peek, Advance, Call
<1>3. CASE Skipping
  BY <1>3 DEF Skipping, SkipSpace, LineComment, SkipLine, BlockComment, SkipBlock, EndBlock,
    EndBlockAtEnd, Return
<1>4. CASE Regex
  BY <1>4 DEF Regex, DivideAtEnd, DivideOrRegex, PlainInRegex, EscapeInRegex, OpenClass,
    CharInClass, CloseClass, AbandonRegex, UndoRegex, CloseRegex, RegexFlag, EndRegex, Return
<1>5. CASE Lexeme
  BY <1>5 DEF Lexeme, AtEnd, StartWord, CharInWord, EndWord, ThreeSymbol, TwoSymbol, OneSymbol,
    Illegal, StartString, CharInString, EndString, StartNumber, Radix, Octal, DigitInRadix,
    EndRadix, CharInNumber, EndNumber, Return
<1> QED
  BY <1>1, <1>2, <1>3, <1>4, <1>5 DEF Next, Step

\* A regular expression with a class that is given up shows in the text.
LEMMA GivenUpShows ==
  ASSUME CoreInv, ClassInv, GivesUpClass
  PROVE  ClassEnds # {}
<1> DEFINE n == Consumed(stream)
           from == start.from
<1>1. TextOK(text) /\ Len(text) \in Nat /\ n \in 0..Len(text)
  BY CoreFacts
<1>2. mode = "regex" /\ ch \in {EOF, NL} /\ HasClass(buffer) /\ EOF # NL
  BY DEF GivesUpClass, AbandonRegex, EOF, NL
<1>3. /\ ch = EOF => n = Len(text) /\ Upto(ch, n) = n
      /\ ch # EOF => n \in 1..Len(text) /\ text[n] = NL /\ Upto(ch, n) = n - 1
      /\ from \in 1..Len(text) /\ ClassClosed(text, from, Upto(ch, n))
  BY <1>2, UptoIs DEF ClassInv, Upto
<1> HIDE DEF n, from
<1>4. PICK m \in 0..Len(text) : m = Upto(ch, n)
  BY <1>1, <1>3
<1>5. PICK a \in from + 1..m : \E b \in a + 1..m :
        OpensClass(text, from, a) /\ text[b] = "]" /\ NoneEnds(text, b, m)
  BY <1>3, <1>4 DEF ClassClosed
<1>6. PICK b \in a + 1..m : OpensClass(text, from, a) /\ text[b] = "]" /\ NoneEnds(text, b, m)
  BY <1>5
<1>7. /\ from \in 1..a - 1 /\ a \in 2..b - 1 /\ b \in 1..Len(text)
  BY <1>3, <1>4, <1>6
<1>8. NeverClosed(text, b)
  <2> SUFFICES ASSUME NEW k \in b + 1..Len(text), text[k] = "/", MayEnd(text, k)
               PROVE  \E l \in b..k : text[l] = NL
    BY DEF NeverClosed
  <2>1. ~(k <= m)
    BY <1>4, <1>6, <1>7 DEF NoneEnds
  <2>2. ch # EOF /\ n <= k /\ b <= n
    BY <1>1, <1>3, <1>4, <1>6, <1>7, <2>1
  <2> QED
    BY <1>3, <1>7, <2>2
<1> QED
  BY <1>6, <1>7, <1>8 DEF ClassEnds

\* So does a line end in one that is given up: a backslash is in front of it.
NoEscapedLines == \A k \in 2..Len(text) : ~(text[k - 1] = "back" /\ text[k] = NL)

LEMMA LinesShow ==
  ASSUME CoreInv, ClassInv, GivesUpLines, ClassEnds = {}
  PROVE  ~NoEscapedLines
<1> DEFINE n == Consumed(stream)
           from == start.from
<1>1. TextOK(text) /\ Len(text) \in Nat /\ n \in 0..Len(text) /\ buffer \in Seq(Char)
  BY CoreFacts
<1>2. mode = "regex" /\ ch \in {EOF, NL} /\ ~HasClass(buffer) /\ EOF # NL
  BY GivenUpShows DEF GivesUpLines, GivesUpClass, AbandonRegex, EOF, NL
<1>3. /\ ch = EOF => n = Len(text) /\ Upto(ch, n) = n
      /\ ch # EOF => Upto(ch, n) = n - 1
      /\ NoneEnds(text, from, Upto(ch, n))
  BY <1>2, UptoIs DEF ClassInv, Upto
<1>4. /\ InRegex(text, buffer, from, ch, n) /\ Contents(text, buffer, from)
      /\ from \in 1..Len(text) /\ text[from] = "/"
  BY <1>2 DEF CoreInv, InRegex, Contents
<1> HIDE DEF n, from
<1>5. PICK i \in 1..Len(buffer) : buffer[i] = NL
  BY <1>1 DEF GivesUpLines
<1>6. Len(buffer) \in Nat
  BY <1>1
<1>7. PICK k \in 2..Len(text) + 1 : k = from + i
  BY <1>1, <1>4, <1>5, <1>6 DEF Contents
<1>8. k <= Len(text) /\ text[k] = NL
  BY <1>2, <1>4, <1>5, <1>7 DEF Contents, At
<1>9. k \in from + 1..Upto(ch, n)
  BY <1>1, <1>3, <1>4, <1>5, <1>6, <1>7, <1>8 DEF InRegex
<1>10. ~MayEnd(text, k)
  BY <1>3, <1>9 DEF NoneEnds
<1>11. text[k - 1] = "back"
  BY <1>8, <1>10 DEF MayEnd
<1> QED
  BY <1>1, <1>7, <1>8, <1>11 DEF NoEscapedLines

\* The text leaves no class open.
ClassesClosed == ClassEnds = {}

\* Only a text with a class that no slash closes in its line makes tokenizer.cc give up a
\* regular expression with a class, and only one with a backslash in front of a line end
\* any other that has line ends in it.
THEOREM OnlyClassesAreGivenUp ==
  /\ Spec => []~ClassesClosed \/ [][~GivesUpClass]_vars
  /\ Spec => []~(ClassesClosed /\ NoEscapedLines) \/ [][~GivesUpLines]_vars
<1> DEFINE Inv == CoreInv /\ ClassInv
<1>1. Init => Inv
  BY TextsOK, CoreInit DEF Init, ClassInv
<1>2. [Next]_vars => /\ ClassesClosed' <=> ClassesClosed
                     /\ NoEscapedLines' <=> NoEscapedLines
  <2>1. ASSUME text' = text
        PROVE  (ClassesClosed' <=> ClassesClosed) /\ (NoEscapedLines' <=> NoEscapedLines)
    BY <2>1 DEF ClassesClosed, ClassEnds, NoEscapedLines
  <2> QED
    BY <2>1, TextStays
<1>3. ClassesClosed /\ Inv /\ [Next]_vars => [~GivesUpClass]_vars
  BY GivenUpShows DEF ClassesClosed
<1>4. ClassesClosed /\ Inv /\ [Next]_vars => Inv'
  BY <1>3, CoreStep, ClassStep
<1>5. ClassesClosed /\ NoEscapedLines /\ Inv /\ [Next]_vars => [~GivesUpLines]_vars
  BY LinesShow DEF ClassesClosed
<1> HIDE DEF Inv
<1>6. Spec => []~ClassesClosed \/ [][~GivesUpClass]_vars
  BY <1>1, <1>2, <1>3, <1>4, PTL DEF Spec
<1>7. Spec => []~(ClassesClosed /\ NoEscapedLines) \/ [][~GivesUpLines]_vars
  BY <1>1, <1>2, <1>4, <1>5, PTL DEF Spec
<1> QED
  BY <1>6, <1>7, PTL

-------------------------------------------------------------------------------
\* The row and the column of the place behind the first n characters of t.
LineEnds(t, n) == {i \in 1..n : t[i] = NL}
Row(t, n) == Cardinality(LineEnds(t, n))
TrueCol(t, col, n) ==
  \E i \in LineEnds(t, n) \cup {0} : (\A j \in LineEnds(t, n) : j <= i) /\ col = n - i
Located(t, row, col, n) ==
  /\ row = Row(t, n)
  /\ TrueCol(t, col, n) \/ (n < Len(t) /\ t[n + 1] = NL)

LEMMA LocatedIs ==
  ASSUME NEW row, NEW col, NEW n
  PROVE  IsPosition(row, col, n) <=> Located(text, row, col, n)
BY DEF IsPosition, Located, Row, TrueCol, LineEnds

LEMMA RowNext ==
  ASSUME NEW t, NEW n \in Nat
  PROVE  /\ Row(t, n) \in Nat /\ Row(t, 0) = 0
         /\ Row(t, n + 1) = IF t[n + 1] = NL THEN Row(t, n) + 1 ELSE Row(t, n)
<1>1. IsFiniteSet(1..n)
  BY FS_Interval
<1>2. IsFiniteSet(LineEnds(t, n))
  BY <1>1, FS_Subset DEF LineEnds
<1>3. Row(t, n) \in Nat
  BY <1>2, FS_CardinalityType DEF Row
<1>4. Row(t, 0) = 0
  <2>1. LineEnds(t, 0) = {}
    BY DEF LineEnds
  <2> QED
    BY <2>1, FS_EmptySet DEF Row
<1>5. CASE t[n + 1] = NL
  <2>1. LineEnds(t, n + 1) = LineEnds(t, n) \cup {n + 1} /\ n + 1 \notin LineEnds(t, n)
    BY <1>5 DEF LineEnds
  <2> QED
    BY <1>2, <1>3, <1>4, <1>5, <2>1, FS_AddElement DEF Row
<1>6. CASE t[n + 1] # NL
  <2>1. LineEnds(t, n + 1) = LineEnds(t, n)
    BY <1>6 DEF LineEnds
  <2> QED
    BY <1>3, <1>4, <1>6, <2>1 DEF Row
<1> QED
  BY <1>5, <1>6

LEMMA ColNext ==
  ASSUME NEW t, NEW n \in Nat, NEW col
  PROVE  /\ TrueCol(t, col, n) => col \in 0..n
         /\ TrueCol(t, 0, 0)
         /\ t[n + 1] = NL => TrueCol(t, 0, n + 1)
         /\ t[n + 1] # NL /\ TrueCol(t, col, n) => TrueCol(t, col + 1, n + 1)
         /\ t[n + 1] # NL /\ TrueCol(t, col, n + 1) => col >= 1 /\ TrueCol(t, col - 1, n)
<1>1. TrueCol(t, col, n) => col \in 0..n
  BY DEF TrueCol, LineEnds
<1>2. TrueCol(t, 0, 0)
  BY DEF TrueCol, LineEnds
<1>3. ASSUME t[n + 1] = NL PROVE TrueCol(t, 0, n + 1)
  <2>1. n + 1 \in LineEnds(t, n + 1) /\ \A j \in LineEnds(t, n + 1) : j <= n + 1
    BY <1>3 DEF LineEnds
  <2> QED
    BY <2>1 DEF TrueCol
<1>4. ASSUME t[n + 1] # NL, TrueCol(t, col, n) PROVE TrueCol(t, col + 1, n + 1)
  <2>1. LineEnds(t, n + 1) = LineEnds(t, n)
    BY <1>4 DEF LineEnds
  <2>2. PICK i \in LineEnds(t, n) \cup {0} : (\A j \in LineEnds(t, n) : j <= i) /\ col = n - i
    BY <1>4 DEF TrueCol
  <2>3. col + 1 = (n + 1) - i
    BY <2>2 DEF LineEnds
  <2> QED
    BY <2>1, <2>2, <2>3 DEF TrueCol
<1>5. ASSUME t[n + 1] # NL, TrueCol(t, col, n + 1) PROVE col >= 1 /\ TrueCol(t, col - 1, n)
  <2>1. LineEnds(t, n + 1) = LineEnds(t, n)
    BY <1>5 DEF LineEnds
  <2>2. PICK i \in LineEnds(t, n) \cup {0} : (\A j \in LineEnds(t, n) : j <= i) /\ col = (n + 1) - i
    BY <1>5, <2>1 DEF TrueCol
  <2>3. i \in 0..n /\ col - 1 = n - i /\ col >= 1
    BY <2>2 DEF LineEnds
  <2> QED
    BY <2>1, <2>2, <2>3 DEF TrueCol
<1> QED
  BY <1>1, <1>2, <1>3, <1>4, <1>5

-------------------------------------------------------------------------------
\* The position that goes along with the stream.
ColsOK(s) == s.col \in Nat /\ s.lastCol \in Nat
TrueAt(t, s) == s.row = Row(t, Consumed(s)) /\ TrueCol(t, s.col, Consumed(s))
NearAt(t, s) == Located(t, s.row, s.col, Consumed(s))

LEMMA AfterReadPlace ==
  ASSUME TextOK(text), NEW s, Good(text, s), ColsOK(s), NearAt(text, s)
  PROVE  /\ ColsOK(AfterRead(s)) /\ TrueAt(text, AfterRead(s))
         /\ Peeked(s) = NL /\ TrueAt(text, s) => TrueCol(text, AfterRead(s).lastCol, Consumed(s))
<1> DEFINE n == Consumed(s)
           r == AfterRead(s)
<1>1. /\ n \in 0..Len(text) /\ Len(text) \in Nat /\ Peeked(s) = At(text, n + 1)
      /\ Peeked(s) = EOF <=> n = Len(text)
  BY PeekedIs
<1>2. Consumed(r) = Beyond(text, n)
  BY AfterReadIs
<1>3. s.row = Row(text, n) /\ (TrueCol(text, s.col, n) \/ (n < Len(text) /\ text[n + 1] = NL))
  BY DEF NearAt, Located
<1>4. s \in Stream /\ s.row \in Int /\ s.col \in Int
  BY DEF Good, Stream
<1>5. CASE n = Len(text)
  <2>1. r = s /\ Peeked(s) = EOF
    BY <1>1, <1>5 DEF AfterRead
  <2>2. EOF # NL
    BY DEF EOF, NL
  <2> QED
    BY <1>1, <1>2, <1>3, <1>5, <2>1, <2>2 DEF TrueAt
<1>6. CASE n < Len(text)
  <2>1. Consumed(r) = n + 1 /\ Peeked(s) = text[n + 1] /\ Peeked(s) # EOF /\ n \in Nat
    BY <1>1, <1>2, <1>6 DEF Beyond, At
  <2>2. /\ r.row = IF Peeked(s) = NL THEN s.row + 1 ELSE s.row
        /\ r.lastCol = IF Peeked(s) = NL THEN s.col ELSE s.lastCol
        /\ r.col = IF Peeked(s) = NL THEN 0 ELSE s.col + 1
    BY <1>4, <2>1 DEF AfterRead, Stream
  <2>3. r.row = Row(text, n + 1)
    BY <1>3, <2>1, <2>2, RowNext
  <2>4. TrueCol(text, r.col, n + 1)
    BY <1>3, <2>1, <2>2, ColNext
  <2>5. ColsOK(r)
    BY <2>2 DEF ColsOK
  <2> HIDE DEF r
  <2> QED
    BY <2>1, <2>2, <2>3, <2>4, <2>5 DEF TrueAt, r
<1> QED
  BY <1>1, <1>5, <1>6

LEMMA PutBackPlace ==
  ASSUME TextOK(text), NEW s, Good(text, s), ColsOK(s), TrueAt(text, s),
         NEW c \in Char, LastRead(text, c, Consumed(s))
  PROVE  /\ ColsOK(PutBack(s, c)) /\ NearAt(text, PutBack(s, c))
         /\ c # NL => TrueAt(text, PutBack(s, c))
         /\ c = NL /\ TrueCol(text, s.lastCol, Consumed(s) - 1) => TrueAt(text, PutBack(s, c))
<1> DEFINE n == Consumed(s)
           r == PutBack(s, c)
<1>1. s \in Stream /\ s.row \in Int /\ s.col \in Int /\ Len(text) \in Nat
  BY DEF Good, Stream, TextOK
<1>2. Consumed(r) = IF c = EOF THEN n ELSE n - 1
  BY PutBackIs
<1>3. CASE c = EOF
  <2>1. r.row = s.row /\ r.col = s.col /\ r.lastCol = s.lastCol /\ EOF # NL
    BY <1>1, <1>3 DEF PutBack, Stream, EOF, NL
  <2> QED
    BY <1>2, <1>3, <2>1 DEF ColsOK, TrueAt, NearAt, Located
<1>4. CASE c # EOF
  <2>1. n \in 1..Len(text) /\ c = text[n]
    BY <1>4 DEF LastRead
  <2>2. /\ r.row = IF c = NL THEN s.row - 1 ELSE s.row
        /\ r.col = IF c = NL THEN s.lastCol ELSE s.col - 1
        /\ r.lastCol = s.lastCol
    BY <1>1, <1>4 DEF PutBack, Stream
  <2> DEFINE k == n - 1
  <2>3. k \in Nat /\ k + 1 = n /\ Consumed(r) = k /\ k < Len(text)
    BY <1>1, <1>2, <1>4, <2>1
  <2>4. s.row = Row(text, k + 1) /\ TrueCol(text, s.col, k + 1) /\ c = text[k + 1]
    BY <2>1, <2>3 DEF TrueAt
  <2> HIDE DEF k
  <2>5. r.row = Row(text, k)
    <3>1. /\ Row(text, k) \in Nat
          /\ Row(text, k + 1) = IF text[k + 1] = NL THEN Row(text, k) + 1 ELSE Row(text, k)
      BY <2>3, RowNext
    <3> HIDE DEF r
    <3> QED
      BY <2>2, <2>4, <3>1
  <2>6. CASE c = NL
    <3>1. r.col = s.lastCol /\ text[k + 1] = NL
      BY <2>2, <2>4, <2>6
    <3>2. ColsOK(r)
      BY <2>2, <3>1 DEF ColsOK
    <3> HIDE DEF r
    <3>3. NearAt(text, r)
      BY <2>3, <2>5, <3>1 DEF NearAt, Located
    <3> QED
      BY <2>3, <2>5, <2>6, <3>1, <3>2, <3>3 DEF TrueAt, r, k
  <2>7. CASE c # NL
    <3>1. r.col = s.col - 1 /\ text[k + 1] # NL
      BY <2>2, <2>4, <2>7
    <3>2. TrueCol(text, r.col, k) /\ s.col >= 1
      BY <2>3, <2>4, <3>1, ColNext
    <3>3. ColsOK(r)
      BY <2>2, <3>1, <3>2 DEF ColsOK
    <3> HIDE DEF r
    <3> QED
      BY <2>3, <2>5, <2>7, <3>2, <3>3 DEF TrueAt, NearAt, Located, r
  <2> QED
    BY <2>6, <2>7
<1> QED
  BY <1>3, <1>4

LEMMA PutBackAfterReadPlace ==
  ASSUME TextOK(text), NEW s, Good(text, s), ColsOK(s)
  PROVE  LET r == PutBack(AfterRead(s), Peeked(s)) IN
         r.row = s.row /\ r.col = s.col /\ ColsOK(r)
<1> DEFINE a == AfterRead(s)
           r == PutBack(a, Peeked(s))
<1>1. s \in Stream /\ s.row \in Int /\ s.col \in Int
  BY DEF Good, Stream
<1>2. CASE Peeked(s) = EOF
  <2>1. a = s
    BY <1>2 DEF AfterRead
  <2>2. r.row = s.row /\ r.col = s.col /\ r.lastCol = s.lastCol
    BY <1>1, <1>2, <2>1 DEF PutBack, Stream
  <2> QED
    BY <2>2 DEF ColsOK
<1>3. CASE Peeked(s) # EOF
  <2>1. a \in Stream
    BY AfterReadIs DEF Good
  <2>2. /\ a.row = IF Peeked(s) = NL THEN s.row + 1 ELSE s.row
        /\ a.lastCol = IF Peeked(s) = NL THEN s.col ELSE s.lastCol
        /\ a.col = IF Peeked(s) = NL THEN 0 ELSE s.col + 1
    BY <1>1, <1>3 DEF AfterRead, Stream
  <2> HIDE DEF a
  <2>3. /\ r.row = IF Peeked(s) = NL THEN a.row - 1 ELSE a.row
        /\ r.col = IF Peeked(s) = NL THEN a.lastCol ELSE a.col - 1
        /\ r.lastCol = a.lastCol
    BY <1>3, <2>1 DEF PutBack, Stream
  <2> HIDE DEF r
  <2>4. r.row = s.row /\ r.col = s.col
    BY <1>1, <2>2, <2>3
  <2>5. ColsOK(r)
    BY <2>2, <2>3, <2>4 DEF ColsOK
  <2> QED
    BY <2>4, <2>5 DEF r, a
<1> QED
  BY <1>2, <1>3

-------------------------------------------------------------------------------
\* What holds of the position in every state of a run that gives up no regular
\* expression with a class or a line end in it.
Started == {"regex", "class", "flags", "word", "string", "radix", "hex", "bin", "decimal"}
PlacedKinds == {"symbol", "word", "string", "number", "regex"}

StartedAt(t, p) == p.from \in 1..Len(t) /\ t[p.from] # ">" /\ Located(t, p.row, p.col, p.from)

TokenPlaced(t, k) ==
  k.kind \in PlacedKinds =>
    Located(t, k.row, k.col,
            IF SubSeq(t, k.from + 1, k.to) = ShiftAssign THEN k.to ELSE k.from + 1)

PosInv ==
  /\ ColsOK(stream) /\ NearAt(text, stream)
  /\ mode # "idle" => TrueAt(text, stream)
  /\ mode = "regex" /\ ch = NL => TrueCol(text, stream.lastCol, Consumed(stream) - 1)
  /\ mode = "undo" => \A k \in 1..Len(buffer) : buffer[k] # NL
  /\ mode \in Started => StartedAt(text, start)
  /\ mode = "idle" => TokenPlaced(text, token)

LEMMA ShiftHas ==
  ASSUME NEW t, TextOK(t), NEW i \in 1..Len(t), NEW j \in 0..Len(t), SubSeq(t, i, j) = ShiftAssign
  PROVE  j = i + 3 /\ t[i] = ">"
<1>1. Len(t) \in Nat /\ (\A k \in i..j : t[k] \in Char) /\ i \in Int /\ j \in Int
  BY DEF TextOK
<1>2. PICK q : q = SubSeq(t, i, j)
  OBVIOUS
<1>3. /\ Len(q) = IF i <= j THEN j - i + 1 ELSE 0
      /\ \A k \in 1..j - i + 1 : q[k] = t[i + k - 1]
  <2>1. /\ Len(SubSeq(t, i, j)) = IF i <= j THEN j - i + 1 ELSE 0
        /\ \A k \in 1..j - i + 1 : SubSeq(t, i, j)[k] = t[i + k - 1]
    BY ONLY <1>1, SubSeqProperties
  <2> QED
    BY ONLY <1>2, <2>1
<1>4. q = <<">", ">", ">", "=">>
  BY <1>2 DEF ShiftAssign
<1>5. Len(q) = 4 /\ q[1] = ">"
  BY <1>4
<1>6. j = i + 3
  <2>1. ASSUME NEW l, l = IF i <= j THEN j - i + 1 ELSE 0, l = 4
        PROVE  j = i + 3
    BY ONLY <1>1, <2>1
  <2> QED
    BY ONLY <1>3, <1>5, <2>1
<1>7. 1 \in 1..j - i + 1 /\ i + 1 - 1 = i
  BY <1>1, <1>6
<1> QED
  BY <1>3, <1>5, <1>6, <1>7

LEMMA ReturnPlaces ==
  ASSUME CoreInv, NEW k, NEW p, NEW s, ColsOK(s), NearAt(text, s), Return(k, p, s), p.from \in Int,
         k \in PlacedKinds =>
           Located(text, p.row, p.col,
                   IF SubSeq(text, p.from, Consumed(s)) = ShiftAssign THEN Consumed(s) ELSE p.from)
  PROVE  PosInv'
<1>1. /\ token' = [kind |-> k, begin |-> token.to, from |-> p.from - 1, to |-> Consumed(s),
                   row |-> p.row, col |-> p.col]
      /\ stream' = s /\ mode' = "idle" /\ text' = text
  BY DEF Return
<1>2. p.from - 1 + 1 = p.from
  OBVIOUS
<1>3. TokenPlaced(text, token')
  BY <1>1, <1>2 DEF TokenPlaced
<1> QED
  BY <1>1, <1>3 DEF PosInv, Started

\* A token that has been begun, or one that ends near where it begins.
LEMMA ReturnStarted ==
  ASSUME CoreInv, PosInv, mode \in Started, NEW k, NEW s, Good(text, s), ColsOK(s), NearAt(text, s),
         Return(k, start, s)
  PROVE  PosInv'
<1>1. start.from \in 1..Len(text) /\ text[start.from] # ">"
      /\ Located(text, start.row, start.col, start.from)
  BY DEF PosInv, StartedAt
<1>2. TextOK(text) /\ Len(text) \in Nat /\ Consumed(s) \in 0..Len(text)
  BY PeekedIs DEF CoreInv
<1>3. SubSeq(text, start.from, Consumed(s)) # ShiftAssign
  BY <1>1, <1>2, ShiftHas
<1>4. start.from \in Int
  BY <1>1, <1>2
<1> QED
  BY <1>1, <1>3, <1>4, ReturnPlaces

LEMMA ReturnHere ==
  ASSUME CoreInv, PosInv, mode \in {"skip", "token"}, ch # EOF, NEW k, NEW s, Good(text, s),
         ColsOK(s), NearAt(text, s), Consumed(s) # Consumed(stream) + 3,
         Return(k, Place(stream), s)
  PROVE  PosInv'
<1>1. /\ Place(stream).from = Consumed(stream) /\ Place(stream).row = stream.row
      /\ Place(stream).col = stream.col
  BY DEF Place
<1>2. TextOK(text) /\ Len(text) \in Nat /\ Consumed(s) \in 0..Len(text)
  BY PeekedIs DEF CoreInv
<1>3. Consumed(stream) \in 1..Len(text)
  BY DEF CoreInv, LastRead
<1>4. Located(text, stream.row, stream.col, Consumed(stream))
  BY DEF PosInv, NearAt
<1>5. SubSeq(text, Consumed(stream), Consumed(s)) # ShiftAssign
  BY <1>2, <1>3, ShiftHas
<1>6. Consumed(stream) \in Int
  BY <1>2, <1>3
<1> QED
  BY <1>1, <1>4, <1>5, <1>6, ReturnPlaces

LEMMA GotoPlaces ==
  ASSUME text' = text, NEW m, NEW c, NEW s, ColsOK(s), TrueAt(text, s), Goto(m, c, s),
         m \notin {"idle", "undo", "regex"}, m \in Started => StartedAt(text, start')
  PROVE  PosInv'
<1>1. mode' = m /\ ch' = c /\ stream' = s
  BY DEF Goto
<1>2. NearAt(text, s)
  BY DEF NearAt, TrueAt, Located
<1>3. NearAt(text, stream)' /\ TrueAt(text, stream)' /\ ColsOK(stream)'
  BY <1>1, <1>2
<1>4. (mode \in Started => StartedAt(text, start))'
  BY <1>1
<1> QED
  BY <1>1, <1>3, <1>4 DEF PosInv

LEMMA ReadsPlaces ==
  ASSUME TextOK(text), text' = text, NEW m, NEW s, Good(text, s), ColsOK(s), NearAt(text, s),
         Reads(m, s), m \notin {"idle", "undo"}, m = "regex" => TrueAt(text, s),
         m \in Started => StartedAt(text, start')
  PROVE  PosInv'
<1> DEFINE r == AfterRead(s)
<1>1. mode' = m /\ ch' = Peeked(s) /\ stream' = r
  BY DEF Reads, Goto
<1>2. /\ ColsOK(r) /\ TrueAt(text, r)
      /\ Peeked(s) = NL /\ TrueAt(text, s) => TrueCol(text, r.lastCol, Consumed(s))
  BY AfterReadPlace
<1>3. NearAt(text, r)
  BY <1>2 DEF NearAt, TrueAt, Located
<1>4. ASSUME Peeked(s) = NL PROVE Consumed(r) - 1 = Consumed(s)
  <2>1. Consumed(s) \in 0..Len(text) /\ Consumed(s) # Len(text) /\ Len(text) \in Nat
    BY <1>4, PeekedIs DEF NL, EOF
  <2> QED
    BY <2>1, AfterReadIs DEF Beyond
<1>5. NearAt(text, stream)' /\ TrueAt(text, stream)' /\ ColsOK(stream)'
  BY <1>1, <1>2, <1>3
<1>6. (mode \in Started => StartedAt(text, start))'
  BY <1>1
<1>7. (mode = "regex" /\ ch = NL => TrueCol(text, stream.lastCol, Consumed(stream) - 1))'
  BY <1>1, <1>2, <1>4
<1> QED
  BY <1>1, <1>5, <1>6, <1>7 DEF PosInv

LEMMA PosFacts ==
  ASSUME CoreInv, PosInv
  PROVE  /\ ColsOK(stream) /\ NearAt(text, stream)
         /\ ColsOK(AfterRead(stream)) /\ TrueAt(text, AfterRead(stream))
         /\ NearAt(text, AfterRead(stream))
         /\ mode # "idle" =>
              /\ TrueAt(text, stream)
              /\ TrueAt(text, PutBack(AfterRead(stream), Peeked(stream)))
              /\ NearAt(text, PutBack(AfterRead(stream), Peeked(stream)))
              /\ ColsOK(PutBack(AfterRead(stream), Peeked(stream)))
         /\ mode \notin {"idle", "undo"} =>
              ColsOK(PutBack(stream, ch)) /\ NearAt(text, PutBack(stream, ch))
<1>1. /\ TextOK(text) /\ Good(text, stream) /\ ch \in Char /\ ColsOK(stream) /\ NearAt(text, stream)
      /\ mode # "idle" => TrueAt(text, stream)
  BY DEF CoreInv, PosInv
<1>2. ColsOK(AfterRead(stream)) /\ TrueAt(text, AfterRead(stream))
  BY <1>1, AfterReadPlace
<1>3. NearAt(text, AfterRead(stream))
  BY <1>2 DEF NearAt, TrueAt, Located
<1>4. ASSUME mode \notin {"idle", "undo"}
      PROVE  ColsOK(PutBack(stream, ch)) /\ NearAt(text, PutBack(stream, ch))
  <2>1. LastRead(text, ch, Consumed(stream)) /\ TrueAt(text, stream)
    BY <1>1, <1>4 DEF CoreInv
  <2> QED
    BY <1>1, <2>1, PutBackPlace
<1>5. ASSUME mode # "idle"
      PROVE  /\ TrueAt(text, PutBack(AfterRead(stream), Peeked(stream)))
             /\ NearAt(text, PutBack(AfterRead(stream), Peeked(stream)))
             /\ ColsOK(PutBack(AfterRead(stream), Peeked(stream)))
  <2> DEFINE r == PutBack(AfterRead(stream), Peeked(stream))
  <2>1. r.row = stream.row /\ r.col = stream.col /\ ColsOK(r)
    BY <1>1, PutBackAfterReadPlace
  <2>2. Consumed(r) = Consumed(stream)
    BY <1>1, PutBackAfterRead
  <2> HIDE DEF r
  <2>3. TrueAt(text, r)
    BY <1>1, <1>5, <2>1, <2>2 DEF TrueAt
  <2>4. NearAt(text, r)
    BY <2>3 DEF NearAt, TrueAt, Located
  <2> QED
    BY <2>1, <2>3, <2>4 DEF r
<1> QED
  BY <1>1, <1>2, <1>3, <1>4, <1>5

LEMMA AheadPlaces ==
  ASSUME CoreInv, PosInv, mode # "idle"
  PROVE  /\ ColsOK(AfterThird) /\ TrueAt(text, AfterThird) /\ NearAt(text, AfterThird)
         /\ ColsOK(WithoutThird) /\ NearAt(text, WithoutThird)
         /\ ColsOK(WithoutSecond) /\ NearAt(text, WithoutSecond)
<1>1. /\ TextOK(text) /\ Good(text, stream) /\ Good(text, AfterSecond)
      /\ ColsOK(stream) /\ TrueAt(text, stream) /\ NearAt(text, stream)
      /\ ColsOK(AfterSecond) /\ TrueAt(text, AfterSecond) /\ NearAt(text, AfterSecond)
      /\ Second \in Char /\ LastRead(text, Second, Consumed(AfterSecond))
  BY CoreFacts, PosFacts DEF AfterSecond, Second
<1>2. ColsOK(AfterThird) /\ TrueAt(text, AfterThird)
  BY <1>1, AfterReadPlace DEF AfterThird
<1>3. NearAt(text, AfterThird)
  BY <1>2 DEF NearAt, TrueAt, Located
<1> DEFINE r == PutBack(AfterThird, Third)
<1>4. /\ r.row = AfterSecond.row /\ r.col = AfterSecond.col /\ ColsOK(r)
      /\ Good(text, r) /\ Consumed(r) = Consumed(AfterSecond)
  BY <1>1, PutBackAfterReadPlace, PutBackAfterRead DEF AfterThird, Third
<1> HIDE DEF r
<1>5. TrueAt(text, r)
  BY <1>1, <1>4 DEF TrueAt
<1>6. NearAt(text, r)
  BY <1>5 DEF NearAt, TrueAt, Located
<1>7. ColsOK(PutBack(r, Second)) /\ NearAt(text, PutBack(r, Second))
  BY <1>1, <1>4, <1>5, PutBackPlace
<1> QED
  BY <1>2, <1>3, <1>4, <1>6, <1>7 DEF WithoutThird, WithoutSecond, r

LEMMA SkippingPlaces ==
  ASSUME CoreInv, PosInv, Call(TRUE) \/ Call(FALSE) \/ Skipping
  PROVE  PosInv'
<1>1. ASSUME NEW divide, Call(divide) PROVE PosInv'
  BY <1>1, CoreFacts, PosFacts, ReadsPlaces DEF Call, Started
<1>2. ASSUME SkipSpace PROVE PosInv'
  BY <1>2, CoreFacts, PosFacts, ReadsPlaces DEF SkipSpace, Started
<1>3. ASSUME LineComment PROVE PosInv'
  BY <1>3, CoreFacts, PosFacts, GotoPlaces DEF LineComment, Started
<1>4. ASSUME SkipLine PROVE PosInv'
  <2>1. mode = "line" /\ text' = text
    BY <1>4 DEF SkipLine
  <2>2. CASE Goto("skip", ch, stream)
    BY <2>1, <2>2, CoreFacts, PosFacts, GotoPlaces DEF Started
  <2>3. CASE Reads("line", stream)
    BY <2>1, <2>3, CoreFacts, PosFacts, ReadsPlaces DEF Started
  <2>4. Goto("skip", ch, stream) \/ Reads("line", stream)
    BY <1>4 DEF SkipLine
  <2> QED
    BY <2>2, <2>3, <2>4
<1>5. ASSUME BlockComment PROVE PosInv'
  BY <1>5, CoreFacts, PosFacts, ReadsPlaces DEF BlockComment, Started
<1>6. ASSUME SkipBlock PROVE PosInv'
  BY <1>6, CoreFacts, PosFacts, ReadsPlaces DEF SkipBlock, Started
<1>7. ASSUME EndBlock PROVE PosInv'
  BY <1>7, CoreFacts, PosFacts, ReadsPlaces DEF EndBlock, Started
<1>8. ASSUME EndBlockAtEnd PROVE PosInv'
  <2>1. Return("error", Place(stream), stream)
    BY <1>8 DEF EndBlockAtEnd
  <2>2. Place(stream).from = Consumed(stream) /\ Consumed(stream) \in Int
    BY CoreFacts DEF Place
  <2> QED
    BY <2>1, <2>2, PosFacts, ReturnPlaces DEF PlacedKinds
<1> QED
  BY <1>1, <1>2, <1>3, <1>4, <1>5, <1>6, <1>7, <1>8 DEF Skipping

LEMMA UndoReads ==
  ASSUME CoreInv, mode = "undo", buffer # << >>
  PROVE  /\ Len(buffer) \in Nat \ {0} /\ buffer[Len(buffer)] \in Char
         /\ LastRead(text, buffer[Len(buffer)], Consumed(stream))
         /\ LET r == SubSeq(buffer, 1, Len(buffer) - 1) IN
            Len(r) = Len(buffer) - 1 /\ \A i \in 1..Len(r) : r[i] = buffer[i]
<1>1. /\ TextOK(text) /\ buffer \in Seq(Char) /\ Len(text) \in Nat
      /\ Contents(text, buffer, start.from) /\ start.from \in 1..Len(text)
      /\ start.from + Len(buffer) <= Len(text) + 1
  BY CoreFacts DEF CoreInv, InUndo, Contents
<1>2. Consumed(stream) = IF start.from + Len(buffer) <= Len(text) THEN start.from + Len(buffer)
                                                                  ELSE Len(text)
  BY DEF CoreInv, InUndo
<1> DEFINE c == buffer[Len(buffer)]
           r == SubSeq(buffer, 1, Len(buffer) - 1)
<1>3. /\ Len(buffer) \in Nat \ {0} /\ c \in Char /\ c = At(text, start.from + Len(buffer))
      /\ Len(r) = Len(buffer) - 1 /\ \A i \in 1..Len(r) : r[i] = buffer[i]
  BY <1>1, ContentsShrink
<1> HIDE DEF c, r
<1>4. LastRead(text, c, Consumed(stream))
  <2>1. CASE start.from + Len(buffer) <= Len(text)
    BY <1>1, <1>2, <1>3, <2>1 DEF LastRead, At
  <2>2. CASE start.from + Len(buffer) = Len(text) + 1
    BY <1>1, <1>2, <1>3, <2>2 DEF LastRead, At
  <2>3. start.from \in Int /\ Len(buffer) \in Int /\ Len(text) \in Int
    BY <1>1, <1>3
  <2>4. start.from + Len(buffer) <= Len(text) \/ start.from + Len(buffer) = Len(text) + 1
    BY <1>1, <2>3
  <2> QED
    BY <2>1, <2>2, <2>4
<1> QED
  BY <1>3, <1>4 DEF c, r

LEMMA UndoPlaces ==
  ASSUME CoreInv, PosInv, \/ AbandonRegex /\ \A k \in 1..Len(buffer) : buffer[k] # NL
                          \/ UndoRegex
  PROVE  PosInv'
<1>0. /\ TextOK(text) /\ Good(text, stream) /\ ColsOK(stream) /\ NearAt(text, stream)
      /\ mode # "idle" => TrueAt(text, stream)
  BY CoreFacts, PosFacts
<1>1. ASSUME NEW s, ColsOK(s), TrueAt(text, s), mode' = "undo", stream' = s, text' = text,
             \A k \in 1..Len(buffer') : buffer'[k] # NL
      PROVE  PosInv'
  <2>1. NearAt(text, s)
    BY <1>1 DEF NearAt, TrueAt, Located
  <2>2. (NearAt(text, stream) /\ TrueAt(text, stream) /\ ColsOK(stream))'
    BY <1>1, <2>1
  <2> QED
    BY <1>1, <2>2 DEF PosInv, Started
<1>2. ASSUME AbandonRegex, \A k \in 1..Len(buffer) : buffer[k] # NL PROVE PosInv'
  <2>1. /\ mode = "regex" /\ text' = text /\ buffer' = buffer /\ mode' = "undo"
        /\ stream' = IF ch = NL THEN PutBack(stream, NL) ELSE stream
    BY <1>2 DEF AbandonRegex, Goto
  <2>2. CASE ch = NL
    <3>1. TrueCol(text, stream.lastCol, Consumed(stream) - 1) /\ LastRead(text, NL, Consumed(stream))
          /\ NL \in Char
      <4>1. TrueCol(text, stream.lastCol, Consumed(stream) - 1)
        BY <2>1, <2>2 DEF PosInv
      <4>2. LastRead(text, ch, Consumed(stream)) /\ ch \in Char
        BY <2>1 DEF CoreInv
      <4> QED
        BY <2>2, <4>1, <4>2
    <3>2. ColsOK(PutBack(stream, NL)) /\ TrueAt(text, PutBack(stream, NL))
      BY <1>0, <2>1, <3>1, PutBackPlace
    <3> QED
      BY <1>1, <1>2, <2>1, <2>2, <3>2
  <2>3. CASE ch # NL
    BY <1>0, <1>1, <1>2, <2>1, <2>3
  <2> QED
    BY <2>2, <2>3
<1>3. ASSUME UndoRegex PROVE PosInv'
  <2>1. mode = "undo" /\ text' = text /\ \A k \in 1..Len(buffer) : buffer[k] # NL
    BY <1>3 DEF UndoRegex, PosInv
  <2>2. CASE buffer = << >>
    <3>1. Goto("token", ch, stream)
      BY <1>3, <2>2 DEF UndoRegex
    <3> QED
      BY <1>0, <2>1, <3>1, GotoPlaces DEF Started
  <2>3. CASE buffer # << >>
    <3> DEFINE c == buffer[Len(buffer)]
               r == SubSeq(buffer, 1, Len(buffer) - 1)
    <3>1. mode' = "undo" /\ stream' = PutBack(stream, c) /\ buffer' = r
      BY <1>3, <2>3 DEF UndoRegex, Goto
    <3>2. /\ Len(buffer) \in Nat \ {0} /\ c \in Char /\ LastRead(text, c, Consumed(stream))
          /\ Len(r) = Len(buffer) - 1 /\ \A i \in 1..Len(r) : r[i] = buffer[i]
      BY <2>1, <2>3, UndoReads
    <3>3. c # NL
      BY <2>1, <3>2
    <3> HIDE DEF c, r
    <3>4. ColsOK(PutBack(stream, c)) /\ TrueAt(text, PutBack(stream, c))
      BY <1>0, <2>1, <3>2, <3>3, PutBackPlace
    <3>5. \A k \in 1..Len(r) : r[k] # NL
      BY <2>1, <3>2
    <3> QED
      BY <1>1, <2>1, <3>1, <3>4, <3>5
  <2> QED
    BY <2>2, <2>3
<1> QED
  BY <1>2, <1>3

LEMMA StaysStarted ==
  ASSUME PosInv, mode \in Started, start' = start
  PROVE  StartedAt(text, start')
BY DEF PosInv

LEMMA RegexPlaces ==
  ASSUME CoreInv, PosInv, Regex, AbandonRegex => \A k \in 1..Len(buffer) : buffer[k] # NL
  PROVE  PosInv'
<1>1. ASSUME DivideAtEnd PROVE PosInv'
  <2>1. Return("symbol", Place(stream), AfterRead(stream)) /\ mode = "skip" /\ ch # EOF
    BY <1>1 DEF DivideAtEnd, AtSlash, EOF
  <2>2. Consumed(AfterRead(stream)) # Consumed(stream) + 3
    BY CoreFacts DEF Beyond
  <2> QED
    BY <2>1, <2>2, CoreFacts, PosFacts, ReturnHere
<1>2. ASSUME DivideOrRegex PROVE PosInv'
  <2> DEFINE s == PutBack(AfterRead(stream), Peeked(stream))
  <2>1. /\ mode = "skip" /\ ch = "/" /\ text' = text
        /\ \/ Goto("token", ch, s)
           \/ Reads("regex", s) /\ start' = Place(s)
    BY <1>2 DEF DivideOrRegex, AtSlash, Following
  <2>2. /\ TextOK(text) /\ Good(text, s) /\ Consumed(s) = Consumed(stream)
        /\ TrueAt(text, s) /\ NearAt(text, s) /\ ColsOK(s)
    BY <2>1, CoreFacts, PosFacts
  <2>3. LastRead(text, ch, Consumed(stream)) /\ ch # EOF
    BY <2>1 DEF CoreInv, EOF
  <2>4. Consumed(stream) \in 1..Len(text) /\ text[Consumed(stream)] = "/"
    BY <2>1, <2>3 DEF LastRead
  <2> HIDE DEF s
  <2>5. CASE Goto("token", ch, s)
    BY <2>1, <2>2, <2>5, GotoPlaces DEF Started
  <2>6. CASE Reads("regex", s) /\ start' = Place(s)
    <3>1. StartedAt(text, start')
      BY <2>2, <2>4, <2>6 DEF StartedAt, Place, NearAt
    <3> QED
      BY <2>1, <2>2, <2>6, <3>1, ReadsPlaces
  <2> QED
    BY <2>1, <2>5, <2>6
<1>3. ASSUME PlainInRegex PROVE PosInv'
  <2>1. mode = "regex" /\ Reads("regex", stream) /\ text' = text /\ start' = start
    BY <1>3 DEF PlainInRegex
  <2> QED
    BY <2>1, CoreFacts, PosFacts, ReadsPlaces, StaysStarted DEF Started
<1>4. ASSUME EscapeInRegex PROVE PosInv'
  <2>1. mode = "regex" /\ Reads("regex", AfterRead(stream)) /\ text' = text /\ start' = start
    BY <1>4 DEF EscapeInRegex
  <2> QED
    BY <2>1, CoreFacts, PosFacts, ReadsPlaces, StaysStarted DEF Started
<1>5. ASSUME OpenClass PROVE PosInv'
  <2>1. mode = "regex" /\ Reads("class", stream) /\ text' = text /\ start' = start
    BY <1>5 DEF OpenClass
  <2> QED
    BY <2>1, CoreFacts, PosFacts, ReadsPlaces, StaysStarted DEF Started
<1>6. ASSUME CharInClass PROVE PosInv'
  <2> DEFINE s == IF ch = "back" THEN AfterRead(stream) ELSE stream
  <2>1. /\ mode = "class"
        /\ \/ Return("error", start, s)
           \/ Reads("class", s) /\ text' = text /\ start' = start
    BY <1>6 DEF CharInClass
  <2>2. Good(text, s) /\ ColsOK(s) /\ NearAt(text, s)
    BY CoreFacts, PosFacts
  <2> HIDE DEF s
  <2> QED
    BY <2>1, <2>2, CoreFacts, ReadsPlaces, ReturnStarted, StaysStarted DEF Started
<1>7. ASSUME CloseClass PROVE PosInv'
  <2>1. mode = "class" /\ Reads("regex", stream) /\ text' = text /\ start' = start
    BY <1>7 DEF CloseClass
  <2> QED
    BY <2>1, CoreFacts, PosFacts, ReadsPlaces, StaysStarted DEF Started
<1>8. ASSUME CloseRegex PROVE PosInv'
  <2>1. mode = "regex" /\ Reads("flags", stream) /\ text' = text /\ start' = start
    BY <1>8 DEF CloseRegex
  <2> QED
    BY <2>1, CoreFacts, PosFacts, ReadsPlaces, StaysStarted DEF Started
<1>9. ASSUME RegexFlag PROVE PosInv'
  <2>1. mode = "flags" /\ Reads("flags", stream) /\ text' = text /\ start' = start
    BY <1>9 DEF RegexFlag
  <2> QED
    BY <2>1, CoreFacts, PosFacts, ReadsPlaces, StaysStarted DEF Started
<1>10. ASSUME EndRegex PROVE PosInv'
  <2>1. mode = "flags" /\ Return("regex", start, PutBack(stream, ch))
    BY <1>10 DEF EndRegex
  <2> QED
    BY <2>1, CoreFacts, PosFacts, ReturnStarted DEF Started
<1> QED
  BY <1>1, <1>2, <1>3, <1>4, <1>5, <1>6, <1>7, <1>8, <1>9, <1>10, UndoPlaces DEF Regex

\* A token begins at the place of its first character.
LEMMA BeginsHere ==
  ASSUME CoreInv, PosInv, AtToken, ch # EOF, ch # ">", NEW s, NearAt(text, s),
         Consumed(s) = Consumed(stream), start' = Place(s)
  PROVE  StartedAt(text, start')
<1>1. mode \in {"skip", "token"}
  BY DEF AtToken
<1>2. LastRead(text, ch, Consumed(stream))
  BY <1>1 DEF CoreInv
<1>3. Consumed(stream) \in 1..Len(text) /\ text[Consumed(stream)] = ch
  BY <1>2 DEF LastRead
<1> QED
  BY <1>3 DEF StartedAt, Place, NearAt

LEMMA ThreePlaces ==
  ASSUME CoreInv, PosInv, ThreeSymbol
  PROVE  PosInv'
<1> DEFINE n == Consumed(stream)
           fourth == Peeked(AfterThird)
           after == AfterRead(AfterThird)
           back == PutBack(after, fourth)
<1>1. /\ AtToken /\ ch # EOF /\ AtThree /\ mode \in {"skip", "token"} /\ mode # "idle"
      /\ Second # EOF
  BY DEF ThreeSymbol, AtOther, AtToken, AtThree
<1>2. \/ Return("symbol", Place(stream), AfterThird)
      \/ /\ fourth = "=" /\ <<ch, Second, Third>> = <<">", ">", ">">>
         /\ Return("symbol", [Place(after) EXCEPT !.from = n], after)
      \/ Return("symbol", Place(stream), back)
  BY DEF ThreeSymbol
<1>3. /\ TextOK(text) /\ Good(text, stream) /\ n \in 0..Len(text) /\ Len(text) \in Nat
      /\ Good(text, AfterThird) /\ Consumed(AfterThird) = Beyond(text, Consumed(AfterSecond))
      /\ Consumed(AfterSecond) = Beyond(text, n)
      /\ Good(text, AfterSecond)
  BY CoreFacts, AheadIs
<1>4. ColsOK(AfterThird) /\ NearAt(text, AfterThird)
  BY <1>1, AheadPlaces
<1>5. /\ Good(text, after) /\ ColsOK(after) /\ TrueAt(text, after)
      /\ Consumed(after) = Beyond(text, Consumed(AfterThird))
  BY <1>3, <1>4, AfterReadIs, AfterReadPlace
<1>6. NearAt(text, after)
  BY <1>5 DEF NearAt, TrueAt, Located
<1>7. /\ back.row = AfterThird.row /\ back.col = AfterThird.col /\ ColsOK(back)
      /\ Good(text, back) /\ Consumed(back) = Consumed(AfterThird)
  BY <1>3, <1>4, PutBackAfterReadPlace, PutBackAfterRead
<1> HIDE DEF back, after, fourth
<1>8. NearAt(text, back)
  BY <1>4, <1>7 DEF NearAt
<1>9. Consumed(AfterThird) # n + 3 /\ Consumed(back) # n + 3
  BY <1>3, <1>7 DEF Beyond
<1>10. CASE Return("symbol", Place(stream), AfterThird)
  BY <1>1, <1>3, <1>4, <1>9, <1>10, ReturnHere
<1>11. CASE Return("symbol", Place(stream), back)
  BY <1>1, <1>7, <1>8, <1>9, <1>11, ReturnHere
<1>12. CASE /\ fourth = "=" /\ <<ch, Second, Third>> = <<">", ">", ">">>
            /\ Return("symbol", [Place(after) EXCEPT !.from = n], after)
  <2>1. LastRead(text, ch, n)
    BY <1>1 DEF CoreInv
  <2>2. n \in 1..Len(text) /\ text[n] = ">"
    BY <1>1, <1>12, <2>1 DEF LastRead
  <2>3. ch = ">" /\ Second = ">" /\ Third = ">" /\ fourth = "=" /\ "=" # EOF /\ ">" # EOF
    BY <1>12 DEF EOF
  <2>4. /\ Second = At(text, n + 1) /\ Third = At(text, Consumed(AfterSecond) + 1)
        /\ fourth = At(text, Consumed(AfterThird) + 1)
        /\ Consumed(AfterSecond) \in 0..Len(text) /\ Consumed(AfterThird) \in 0..Len(text)
    BY <1>3, PeekedIs DEF Second, Third, fourth
  <2>5. n + 1 <= Len(text) /\ text[n + 1] = ">" /\ Consumed(AfterSecond) = n + 1
    BY <1>3, <2>2, <2>3, <2>4 DEF At, Beyond
  <2>6. n + 2 <= Len(text) /\ text[n + 2] = ">" /\ Consumed(AfterThird) = n + 2
    BY <1>3, <2>2, <2>3, <2>4, <2>5 DEF At, Beyond
  <2>7. n + 3 <= Len(text) /\ text[n + 3] = "=" /\ Consumed(after) = n + 3
    BY <1>3, <1>5, <2>2, <2>3, <2>4, <2>6 DEF At, Beyond
  <2>8. SubSeq(text, n, n + 3) = ShiftAssign
    <3> DEFINE q == SubSeq(text, n, n + 3)
    <3>1. /\ n \in Int /\ n + 3 \in Int /\ n + 3 - n + 1 = 4 /\ n <= n + 3
          /\ \A k \in n..n + 3 : text[k] \in Char
      BY <1>3, <2>2, <2>7 DEF TextOK
    <3>2. /\ q \in Seq(Char) /\ Len(q) = 4
          /\ \A k \in 1..4 : q[k] = text[n + k - 1]
      BY <3>1, SubSeqProperties
    <3>3. n + 1 - 1 = n /\ n + 2 - 1 = n + 1 /\ n + 3 - 1 = n + 2 /\ n + 4 - 1 = n + 3
      BY <3>1
    <3> HIDE DEF q
    <3>4. q[1] = ">" /\ q[2] = ">" /\ q[3] = ">" /\ q[4] = "="
      BY <2>2, <2>5, <2>6, <2>7, <3>2, <3>3
    <3>5. q = <<">", ">", ">", "=">>
      BY <3>2, <3>4
    <3> QED
      BY <3>5 DEF q, ShiftAssign
  <2> DEFINE p == [Place(after) EXCEPT !.from = n]
  <2>9. p.from = n /\ p.row = after.row /\ p.col = after.col /\ n \in Int
    BY <1>3 DEF Place
  <2>10. Located(text, p.row, p.col,
                 IF SubSeq(text, p.from, Consumed(after)) = ShiftAssign THEN Consumed(after)
                                                                        ELSE p.from)
    <3> HIDE DEF p
    <3> QED
      BY <1>6, <2>7, <2>8, <2>9 DEF NearAt
  <2>11. Return("symbol", p, after)
    BY <1>12
  <2> HIDE DEF p
  <2> QED
    BY <1>5, <1>6, <2>9, <2>10, <2>11, ReturnPlaces
<1> QED
  BY <1>2, <1>10, <1>11, <1>12

LEMMA LexemePlaces ==
  ASSUME CoreInv, PosInv, Lexeme
  PROVE  PosInv'
<1>1. ASSUME AtEnd PROVE PosInv'
  <2> DEFINE p == [Place(stream) EXCEPT !.from = Consumed(stream) + 1]
  <2>1. Return("end", p, stream)
    BY <1>1 DEF AtEnd
  <2>2. p.from = Consumed(stream) + 1 /\ Consumed(stream) \in Int
    BY CoreFacts DEF Place
  <2>3. p.from \in Int /\ "end" \notin PlacedKinds
    BY <2>2 DEF PlacedKinds
  <2> HIDE DEF p
  <2> QED
    BY <2>1, <2>3, PosFacts, ReturnPlaces
<1>2. ASSUME StartWord PROVE PosInv'
  <2>1. AtToken /\ ch \in WordStart /\ Reads("word", stream) /\ start' = Place(stream) /\ text' = text
    BY <1>2 DEF StartWord
  <2>2. ch # EOF /\ ch # ">"
    BY <2>1 DEF WordStart, Letters, EOF
  <2>3. StartedAt(text, start')
    BY <2>1, <2>2, PosFacts, BeginsHere
  <2> QED
    BY <2>1, <2>3, CoreFacts, PosFacts, ReadsPlaces
<1>3. ASSUME CharInWord PROVE PosInv'
  <2>1. mode = "word" /\ Reads("word", stream) /\ text' = text /\ start' = start
    BY <1>3 DEF CharInWord
  <2> QED
    BY <2>1, CoreFacts, PosFacts, ReadsPlaces, StaysStarted DEF Started
<1>4. ASSUME EndWord PROVE PosInv'
  <2>1. mode = "word" /\ Return("word", start, PutBack(stream, ch))
    BY <1>4 DEF EndWord
  <2> QED
    BY <2>1, CoreFacts, PosFacts, ReturnStarted DEF Started
<1>5. ASSUME TwoSymbol PROVE PosInv'
  <2>1. Return("symbol", Place(stream), WithoutThird) /\ ch # EOF /\ mode \in {"skip", "token"}
    BY <1>5 DEF TwoSymbol, AtOther, AtToken
  <2>2. /\ Good(text, WithoutThird) /\ Consumed(WithoutThird) # Consumed(stream) + 3
        /\ ColsOK(WithoutThird) /\ NearAt(text, WithoutThird)
    BY <2>1, CoreFacts, AheadIs, AheadPlaces DEF Beyond
  <2> QED
    BY <2>1, <2>2, ReturnHere
<1>6. ASSUME OneSymbol \/ Illegal PROVE PosInv'
  <2>1. /\ \E k : Return(k, Place(stream), WithoutSecond)
        /\ ch # EOF /\ mode \in {"skip", "token"}
    BY <1>6 DEF OneSymbol, Illegal, AtOther, AtToken
  <2>2. /\ Good(text, WithoutSecond) /\ Consumed(WithoutSecond) # Consumed(stream) + 3
        /\ ColsOK(WithoutSecond) /\ NearAt(text, WithoutSecond)
    BY <2>1, CoreFacts, AheadIs, AheadPlaces
  <2> QED
    BY <2>1, <2>2, ReturnHere
<1>7. ASSUME StartString \/ StartNumber PROVE PosInv'
  <2>1. /\ AtToken /\ ch # EOF /\ text' = text /\ start' = Place(WithoutSecond) /\ mode # "idle"
        /\ Reads("string", WithoutSecond) \/ Reads("radix", WithoutSecond)
    BY <1>7 DEF StartString, StartNumber, AtOther, AtToken
  <2>2. ch # ">"
    BY <1>7 DEF StartString, StartNumber, Quotes, Digits, AtNumber
  <2>3. /\ TextOK(text) /\ Good(text, WithoutSecond) /\ Consumed(WithoutSecond) = Consumed(stream)
        /\ ColsOK(WithoutSecond) /\ NearAt(text, WithoutSecond)
    BY <2>1, CoreFacts, AheadIs, AheadPlaces
  <2>4. StartedAt(text, start')
    BY <2>1, <2>2, <2>3, BeginsHere
  <2> QED
    BY <2>1, <2>3, <2>4, ReadsPlaces
<1>8. ASSUME CharInString PROVE PosInv'
  <2>1. mode = "string" /\ text' = text /\ start' = start
    BY <1>8 DEF CharInString
  <2>2. StartedAt(text, start')
    BY <2>1, StaysStarted DEF Started
  <2>3. \/ Goto("string", EOF, AfterRead(stream))
        \/ Reads("string", AfterRead(stream))
        \/ Reads("string", stream)
    BY <1>8 DEF CharInString
  <2> QED
    BY <2>1, <2>2, <2>3, CoreFacts, PosFacts, ReadsPlaces, GotoPlaces
<1>9. ASSUME EndString PROVE PosInv'
  <2>1. mode = "string" /\ \E k : Return(k, start, stream)
    BY <1>9 DEF EndString
  <2> QED
    BY <2>1, CoreFacts, PosFacts, ReturnStarted DEF Started
<1>10. ASSUME Radix PROVE PosInv'
  <2>1. mode = "radix" /\ text' = text /\ start' = start
    BY <1>10 DEF Radix
  <2>2. StartedAt(text, start')
    BY <2>1, StaysStarted DEF Started
  <2>3. \/ Reads("hex", stream) \/ Reads("bin", stream) \/ Goto("decimal", ch, stream)
    BY <1>10 DEF Radix
  <2> QED
    BY <2>1, <2>2, <2>3, CoreFacts, PosFacts, ReadsPlaces, GotoPlaces
<1>11. ASSUME Octal \/ EndRadix \/ EndNumber PROVE PosInv'
  <2>1. mode \in {"radix", "hex", "bin", "decimal"} /\ Return("number", start, PutBack(stream, ch))
    BY <1>11 DEF Octal, EndRadix, EndNumber
  <2> QED
    BY <2>1, CoreFacts, PosFacts, ReturnStarted DEF Started
<1>12. ASSUME DigitInRadix PROVE PosInv'
  <2>1. mode \in {"hex", "bin"} /\ Reads(mode, stream) /\ text' = text /\ start' = start
    BY <1>12 DEF DigitInRadix
  <2> QED
    BY <2>1, CoreFacts, PosFacts, ReadsPlaces, StaysStarted DEF Started
<1>13. ASSUME CharInNumber PROVE PosInv'
  <2>1. /\ mode = "decimal"
        /\ \/ Reads("decimal", stream) /\ text' = text /\ start' = start
           \/ Return("number", start, PutBack(AfterRead(stream), Peeked(stream)))
    BY <1>13 DEF CharInNumber
  <2> QED
    BY <2>1, CoreFacts, PosFacts, ReadsPlaces, ReturnStarted, StaysStarted DEF Started
<1> QED
  BY <1>1, <1>2, <1>3, <1>4, <1>5, <1>6, <1>7, <1>8, <1>9, <1>10, <1>11, <1>12, <1>13, ThreePlaces
     DEF Lexeme

LEMMA PosInit == CoreInv /\ Init => PosInv
<1> SUFFICES ASSUME CoreInv, Init PROVE PosInv
  OBVIOUS
<1>1. /\ stream = [at |-> 1, back |-> << >>, seek |-> 0, row |-> 0, col |-> 0, lastCol |-> 0]
      /\ mode = "idle" /\ token = NoToken
  BY DEF Init
<1>2. Consumed(stream) = 0
  BY <1>1 DEF Consumed
<1>3. Located(text, 0, 0, 0)
  BY RowNext, ColNext DEF Located
<1> QED
  BY <1>1, <1>2, <1>3
     DEF PosInv, NearAt, ColsOK, Started, TokenPlaced, NoToken, PlacedKinds

LEMMA PosStep ==
  ASSUME CoreInv, PosInv, [Next]_vars, [~GivesUpLines]_vars
  PROVE  PosInv'
<1>1. CASE UNCHANGED vars
  BY <1>1 DEF PosInv, vars, local
<1>2. CASE ~UNCHANGED vars
  <2>1. AbandonRegex => \A k \in 1..Len(buffer) : buffer[k] # NL
    <3>1. DOMAIN buffer = 1..Len(buffer)
      BY CoreFacts
    <3> QED
      BY <1>2, <3>1 DEF GivesUpLines
  <2>2. CASE Peek \/ Advance
    BY <2>2, SkippingPlaces DEF Peek, Advance
  <2>3. CASE Step
    BY <2>1, <2>3, SkippingPlaces, RegexPlaces, LexemePlaces DEF Step
  <2> QED
    BY <1>2, <2>2, <2>3 DEF Next
<1> QED
  BY <1>1, <1>2

LEMMA PosIsInvariant ==
  Spec /\ [][~GivesUpClass]_vars /\ [][~GivesUpLines]_vars => [](CoreInv /\ PosInv)
<1>1. CoreInv /\ Init => PosInv
  BY PosInit
<1>2. CoreInv /\ PosInv /\ [Next]_vars /\ [~GivesUpLines]_vars => PosInv'
  BY PosStep
<1> QED
  BY <1>1, <1>2, CoreIsInvariant, PTL DEF Spec

\* The row counts the line ends that tokenizer.cc has read, the column the characters
\* since the last of them, and a token is given the place of its first character,
\* although characters and line ends are put back: in every run that gives up no
\* regular expression with a class or a line end in it.
THEOREM PositionsAreTrue ==
  Spec /\ [][~GivesUpClass]_vars /\ [][~GivesUpLines]_vars => [](PositionIsTrue /\ TokenPosition)
<1>1. ASSUME CoreInv, PosInv PROVE PositionIsTrue /\ TokenPosition
  <2>1. IsPosition(stream.row, stream.col, Consumed(stream))
    BY <1>1, LocatedIs DEF PosInv, NearAt
  <2>2. ASSUME mode = "idle", token.kind \in {"symbol", "word", "string", "number", "regex"}
        PROVE  IsPosition(token.row, token.col,
                          IF Lexed(token.from, token.to) = ShiftAssign THEN token.to
                                                                      ELSE token.from + 1)
    BY <1>1, <2>2, LocatedIs DEF PosInv, TokenPlaced, PlacedKinds, Lexed
  <2> QED
    BY <2>1, <2>2 DEF PositionIsTrue, TokenPosition
<1> QED
  BY <1>1, PosIsInvariant, PTL

SeenInv == seen \subseteq {".", "e"} /\ notRegex \in BOOLEAN

LEMMA SeenStep == SeenInv /\ [Next]_vars => SeenInv'
<1> SUFFICES ASSUME SeenInv, [Next]_vars PROVE SeenInv'
  OBVIOUS
<1>1. CASE UNCHANGED <<seen, notRegex>>
  BY <1>1 DEF SeenInv
<1>2. ASSUME NEW divide \in BOOLEAN, Call(divide) PROVE SeenInv'
  BY <1>2 DEF SeenInv, Call
<1>3. CASE Radix
  BY <1>3 DEF SeenInv, Radix
<1>4. CASE CharInNumber
  <2>1. CASE UNCHANGED seen
    BY <1>4, <2>1 DEF SeenInv, CharInNumber, Return, local
  <2>2. CASE Peeked(stream) \in {".", "e"} /\ seen' = seen \cup {Peeked(stream)}
    BY <1>4, <2>2 DEF SeenInv, CharInNumber, Return, local
  <2>3. CASE \E k, p, s : Return(k, p, s)
    BY <2>3, <1>1 DEF Return, local
  <2>4. \/ UNCHANGED seen
        \/ Peeked(stream) \in {".", "e"} /\ seen' = seen \cup {Peeked(stream)}
        \/ \E k, p, s : Return(k, p, s)
    BY <1>4 DEF CharInNumber
  <2> QED
    BY <2>1, <2>2, <2>3, <2>4
<1>5. Skipping => UNCHANGED <<seen, notRegex>>
  BY DEF Skipping, SkipSpace, LineComment, SkipLine, BlockComment, SkipBlock, EndBlock,
         EndBlockAtEnd, Return, local
<1>6. Regex => UNCHANGED <<seen, notRegex>>
  BY DEF Regex, DivideAtEnd, DivideOrRegex, PlainInRegex, EscapeInRegex, OpenClass, CharInClass,
         CloseClass, AbandonRegex, UndoRegex, CloseRegex, RegexFlag, EndRegex, Return, local
<1>7. Lexeme => Radix \/ CharInNumber \/ UNCHANGED <<seen, notRegex>>
  BY DEF Lexeme, AtEnd, StartWord, CharInWord, EndWord, ThreeSymbol, TwoSymbol, OneSymbol, Illegal,
         StartString, CharInString, EndString, StartNumber, Octal, DigitInRadix, EndRadix,
         EndNumber, Return, local
<1>8. UNCHANGED vars => UNCHANGED <<seen, notRegex>>
  BY DEF vars, local
<1>9. Peek \/ Advance => \E divide \in BOOLEAN : Call(divide)
  BY DEF Peek, Advance
<1> QED
  BY <1>1, <1>2, <1>3, <1>4, <1>5, <1>6, <1>7, <1>8, <1>9 DEF Next, Step

\* The state of tokenizer.cc keeps its types in every such run: the place stays within
\* the text and no column becomes negative by what is put back.
THEOREM TokenizerTypes ==
  Spec /\ [][~GivesUpClass]_vars /\ [][~GivesUpLines]_vars => []TypeOK
<1>1. Init => SeenInv
  BY DEF Init, SeenInv
<1>2. ASSUME CoreInv, PosInv, SeenInv PROVE TypeOK
  <2>1. /\ stream.at \in 1..(Len(text) + 1) /\ stream.seek \in Int
        /\ Consumed(stream) \in 0..Len(text)
    BY <1>2, CoreFacts DEF Good, Stream
  <2>2. stream.col \in Nat /\ stream.lastCol \in Nat
    BY <1>2 DEF PosInv, ColsOK
  <2>3. stream.row \in Nat
    <3>1. stream.row = Row(text, Consumed(stream)) /\ Consumed(stream) \in Nat
      BY <1>2, <2>1 DEF PosInv, NearAt, Located
    <3> QED
      BY <3>1, RowNext
  <2>4. mode \in Modes
    BY <1>2 DEF CoreInv
  <2> QED
    BY <1>2, <2>1, <2>2, <2>3, <2>4 DEF TypeOK, Modes, SeenInv
<1> QED
  BY <1>1, <1>2, SeenStep, PosIsInvariant, PTL DEF Spec

-------------------------------------------------------------------------------
\* The loop that scans a token is behind its first character.
AheadInv ==
  mode \in Started =>
    /\ start.from \in 1..Len(text) /\ start.from <= Consumed(stream)
    /\ ch # EOF => start.from < Consumed(stream)

LEMMA ReadsAhead ==
  ASSUME TextOK(text), text' = text, NEW m, NEW s, Good(text, s), Reads(m, s),
         m \in Started => start'.from \in 1..Len(text) /\ start'.from <= Consumed(s)
  PROVE  AheadInv'
<1>1. mode' = m /\ ch' = Peeked(s) /\ stream' = AfterRead(s)
  BY DEF Reads, Goto
<1>2. /\ Consumed(s) \in 0..Len(text) /\ Len(text) \in Nat
      /\ Peeked(s) = EOF <=> Consumed(s) = Len(text)
      /\ Consumed(AfterRead(s)) = Beyond(text, Consumed(s))
  BY PeekedIs, AfterReadIs
<1>3. ASSUME m \in Started
      PROVE  /\ start'.from \in 1..Len(text) /\ start'.from <= Consumed(AfterRead(s))
             /\ Peeked(s) # EOF => start'.from < Consumed(AfterRead(s))
  BY <1>2, <1>3, PeekedIs DEF Beyond
<1> QED
  BY <1>1, <1>3 DEF AheadInv

LEMMA AheadStep ==
  ASSUME CoreInv, AheadInv, [Next]_vars
  PROVE  AheadInv'
<1>0. /\ TextOK(text) /\ Good(text, stream) /\ Good(text, AfterRead(stream)) /\ Len(text) \in Nat
      /\ Consumed(stream) \in 0..Len(text)
      /\ Consumed(AfterRead(stream)) = Beyond(text, Consumed(stream))
  BY CoreFacts
<1>1. ASSUME mode' \notin Started PROVE AheadInv'
  BY <1>1 DEF AheadInv
<1>2. ASSUME mode \in Started, start' = start, text' = text,
             \E m : Reads(m, stream) \/ Reads(m, AfterRead(stream))
      PROVE  AheadInv'
  <2>1. start.from \in 1..Len(text) /\ start.from <= Consumed(stream)
    BY <1>2 DEF AheadInv
  <2>2. start.from <= Consumed(AfterRead(stream))
    BY <1>0, <2>1 DEF Beyond
  <2> QED
    BY <1>0, <1>2, <2>1, <2>2, ReadsAhead
<1>3. ASSUME AtToken, ch # EOF, NEW m, NEW s, Good(text, s), Consumed(s) = Consumed(stream),
             Reads(m, s), start' = Place(s), text' = text
      PROVE  AheadInv'
  <2>1. Consumed(stream) \in 1..Len(text)
    BY <1>3 DEF AtToken, CoreInv, LastRead
  <2>2. start'.from \in 1..Len(text) /\ start'.from <= Consumed(s)
    BY <1>0, <1>3, <2>1 DEF Place
  <2> QED
    BY <1>0, <1>3, <2>2, ReadsAhead
<1>4. CASE UNCHANGED vars
  BY <1>4 DEF vars, local, AheadInv
<1>5. CASE (\E divide : Call(divide)) \/ Skipping
  <2>1. mode' \in {"skip", "line", "block", "idle"}
    BY <1>5 DEF Call, Skipping, SkipSpace, LineComment, SkipLine, BlockComment, SkipBlock, EndBlock,
                EndBlockAtEnd, Return, Reads, Goto
  <2> QED
    BY <1>1, <2>1 DEF Started
<1>6. CASE Regex
  <2>1. CASE mode' \in {"idle", "token", "undo"}
    BY <1>1, <2>1 DEF Started
  <2>2. CASE DivideOrRegex /\ mode' \notin {"idle", "token", "undo"}
    <3> DEFINE s == PutBack(AfterRead(stream), Peeked(stream))
    <3>1. mode = "skip" /\ ch # EOF /\ Reads("regex", s) /\ start' = Place(s) /\ text' = text
      BY <2>2 DEF DivideOrRegex, AtSlash, Following, EOF, Goto
    <3>2. Good(text, s) /\ Consumed(s) = Consumed(stream)
      BY CoreFacts
    <3>3. Consumed(stream) \in 1..Len(text)
      BY <3>1 DEF CoreInv, LastRead
    <3> HIDE DEF s
    <3>4. start'.from \in 1..Len(text) /\ start'.from <= Consumed(s)
      BY <1>0, <3>1, <3>2, <3>3 DEF Place
    <3> QED
      BY <1>0, <3>1, <3>2, <3>4, ReadsAhead
  <2>3. CASE /\ PlainInRegex \/ EscapeInRegex \/ OpenClass \/ CharInClass \/ CloseClass
                  \/ CloseRegex \/ RegexFlag
             /\ mode' \notin {"idle", "token", "undo"}
    <3>1. mode \in Started /\ start' = start /\ text' = text
      BY <2>3 DEF PlainInRegex, EscapeInRegex, OpenClass, CharInClass, CloseClass, CloseRegex,
                  RegexFlag, Started, Return, local
    <3>2. \E m : Reads(m, stream) \/ Reads(m, AfterRead(stream))
      BY <2>3 DEF PlainInRegex, EscapeInRegex, OpenClass, CharInClass, CloseClass, CloseRegex,
                  RegexFlag, Return
    <3> QED
      BY <1>2, <3>1, <3>2
  <2>4. DivideAtEnd \/ AbandonRegex \/ UndoRegex \/ EndRegex => mode' \in {"idle", "token", "undo"}
    BY DEF DivideAtEnd, AbandonRegex, UndoRegex, EndRegex, Return, Goto
  <2> QED
    BY <1>6, <2>1, <2>2, <2>3, <2>4 DEF Regex
<1>7. CASE Lexeme
  <2>1. CASE mode' = "idle"
    BY <1>1, <2>1 DEF Started
  <2>2. CASE StartWord
    <3>1. AtToken /\ ch # EOF /\ Reads("word", stream) /\ start' = Place(stream) /\ text' = text
      BY <2>2 DEF StartWord, WordStart, Letters, EOF
    <3> QED
      BY <1>0, <1>3, <3>1
  <2>3. CASE StartString \/ StartNumber
    <3>1. /\ AtToken /\ ch # EOF /\ start' = Place(WithoutSecond) /\ text' = text
          /\ \E m : Reads(m, WithoutSecond)
      BY <2>3 DEF StartString, StartNumber, AtOther
    <3>2. Good(text, WithoutSecond) /\ Consumed(WithoutSecond) = Consumed(stream)
      BY CoreFacts, AheadIs
    <3> QED
      BY <1>3, <3>1, <3>2
  <2>4. CASE (CharInWord \/ DigitInRadix \/ CharInNumber) /\ mode' # "idle"
    <3>1. mode \in Started /\ start' = start /\ text' = text /\ \E m : Reads(m, stream)
      BY <2>4 DEF CharInWord, DigitInRadix, CharInNumber, Started, Return
    <3> QED
      BY <1>2, <3>1
  <2>5. CASE CharInString
    <3>1. mode = "string" /\ start' = start /\ text' = text /\ mode \in Started
      BY <2>5 DEF CharInString, Started
    <3>2. \/ Goto("string", EOF, AfterRead(stream))
          \/ \E m : Reads(m, stream) \/ Reads(m, AfterRead(stream))
      BY <2>5 DEF CharInString
    <3>3. CASE Goto("string", EOF, AfterRead(stream))
      <4>1. start.from \in 1..Len(text) /\ start.from <= Consumed(AfterRead(stream))
        BY <1>0, <3>1 DEF AheadInv, Beyond
      <4> QED
        BY <3>1, <3>3, <4>1 DEF AheadInv, Goto
    <3> QED
      BY <1>2, <3>1, <3>2, <3>3
  <2>6. CASE Radix
    <3>1. mode = "radix" /\ start' = start /\ text' = text /\ mode \in Started
      BY <2>6 DEF Radix, Started
    <3>2. Goto("decimal", ch, stream) \/ \E m : Reads(m, stream)
      BY <2>6 DEF Radix
    <3>3. CASE Goto("decimal", ch, stream)
      BY <3>1, <3>3 DEF AheadInv, Goto
    <3> QED
      BY <1>2, <3>1, <3>2, <3>3
  <2>7. AtEnd \/ EndWord \/ ThreeSymbol \/ TwoSymbol \/ OneSymbol \/ Illegal \/ EndString \/ Octal
          \/ EndRadix \/ EndNumber => mode' = "idle"
    BY DEF AtEnd, EndWord, ThreeSymbol, TwoSymbol, OneSymbol, Illegal, EndString, Octal, EndRadix,
           EndNumber, Return
  <2> QED
    BY <1>7, <2>1, <2>2, <2>3, <2>4, <2>5, <2>6, <2>7 DEF Lexeme
<1> QED
  BY <1>4, <1>5, <1>6, <1>7 DEF Next, Step, Peek, Advance

-------------------------------------------------------------------------------
\* By how much the offset is behind the characters read: one for every time the end of
\* the text was put back, which at most two tokens do.
Lag(s) == Consumed(s) - s.seek

SeekOK(t, s) == s.at <= Len(t) => Lag(s) = 0

NoBack(t) == \A k \in 1..Len(t) : t[k] # "back"

\* Between two tokens.
LagBetween(t, s) ==
  /\ Lag(s) \in 0..2
  /\ Lag(s) = 1 => Consumed(s) >= Len(t) - 1
  /\ Lag(s) = 2 => Consumed(s) = Len(t)

\* Within one.
LagWithin(t, s) == Lag(s) \in 0..1 /\ (Lag(s) = 1 => Consumed(s) = Len(t))

Regexes == {"regex", "class", "undo", "flags", "token"}

SeekInv ==
  /\ SeekOK(text, stream)
  /\ NoBack(text) =>
       /\ mode = "idle" => /\ LagBetween(text, stream)
                           /\ token.kind # "none" => Consumed(stream) >= 1 \/ Len(text) = 0
       /\ mode \notin Regexes \cup {"idle"} =>
            \/ LagWithin(text, stream)
            \/ LagBetween(text, stream) /\ mode = "skip" /\ ch = EOF
       /\ mode \in Regexes => Lag(stream) = 0
       /\ mode = "regex" /\ ~HasClass(buffer) => start.from + Len(buffer) <= Len(text)
       /\ mode = "undo" => start.from + Len(buffer) <= Len(text)

LEMMA LagReads ==
  ASSUME TextOK(text), NEW s, Good(text, s), SeekOK(text, s)
  PROVE  /\ Lag(AfterRead(s)) = Lag(s) /\ Lag(s) \in Int
         /\ SeekOK(text, AfterRead(s))
<1>1. /\ Consumed(s) \in 0..Len(text) /\ Len(text) \in Nat
      /\ Peeked(s) = EOF <=> Consumed(s) = Len(text)
      /\ Consumed(AfterRead(s)) = Beyond(text, Consumed(s))
  BY PeekedIs, AfterReadIs
<1>2. s \in Stream /\ s.seek \in Int /\ s.at \in Nat
  BY DEF Good, Stream
<1>3. CASE Peeked(s) = EOF
  BY <1>1, <1>2, <1>3 DEF AfterRead, Lag
<1>4. CASE Peeked(s) # EOF
  <2>1. AfterRead(s).seek = s.seek + 1 /\ AfterRead(s).at >= s.at /\ AfterRead(s).at \in Nat
    BY <1>2, <1>4 DEF AfterRead, Stream
  <2>2. Consumed(AfterRead(s)) = Consumed(s) + 1
    BY <1>1, <1>4, PeekedIs DEF Beyond
  <2>3. Lag(AfterRead(s)) = Lag(s) /\ Lag(s) \in Int
    BY <1>1, <1>2, <2>1, <2>2 DEF Lag
  <2> QED
    BY <1>1, <1>2, <2>1, <2>3 DEF SeekOK
<1> QED
  BY <1>3, <1>4

LEMMA LagPutsBack ==
  ASSUME TextOK(text), NEW s, Good(text, s), SeekOK(text, s),
         NEW c \in Char, LastRead(text, c, Consumed(s))
  PROVE  /\ Lag(PutBack(s, c)) = IF c = EOF THEN Lag(s) + 1 ELSE Lag(s)
         /\ SeekOK(text, PutBack(s, c))
<1>1. /\ Consumed(PutBack(s, c)) = IF c = EOF THEN Consumed(s) ELSE Consumed(s) - 1
      /\ Consumed(s) \in 0..Len(text) /\ Len(text) \in Nat
  BY PutBackIs, PeekedIs
<1>2. /\ s \in Stream /\ s.seek \in Int /\ s.at \in 1..(Len(text) + 1) /\ s.back \in Seq(Char)
      /\ Len(s.back) \in Nat
  BY DEF Good, Stream
<1>3. PutBack(s, c).seek = s.seek - 1 /\ PutBack(s, c).at = s.at
  BY <1>2 DEF PutBack, Stream
<1>4. Lag(PutBack(s, c)) = IF c = EOF THEN Lag(s) + 1 ELSE Lag(s)
  BY <1>1, <1>2, <1>3 DEF Lag
<1>5. CASE c = EOF
  <2>1. Consumed(s) = Len(text)
    BY <1>5 DEF LastRead, TextOK
  <2>2. s.at = Len(text) + 1
    BY <1>1, <1>2, <2>1 DEF Consumed
  <2> QED
    BY <1>1, <1>3, <1>4, <2>2 DEF SeekOK
<1>6. CASE c # EOF
  BY <1>3, <1>4, <1>6 DEF SeekOK
<1> QED
  BY <1>4, <1>5, <1>6

LEMMA LagRereads ==
  ASSUME TextOK(text), NEW s, Good(text, s), SeekOK(text, s)
  PROVE  LET r == PutBack(AfterRead(s), Peeked(s)) IN
         /\ Lag(r) = IF Consumed(s) = Len(text) THEN Lag(s) + 1 ELSE Lag(s)
         /\ SeekOK(text, r)
<1>1. /\ Good(text, AfterRead(s)) /\ LastRead(text, Peeked(s), Consumed(AfterRead(s)))
      /\ Peeked(s) \in Char /\ SeekOK(text, AfterRead(s)) /\ Lag(AfterRead(s)) = Lag(s)
  BY AfterReadIs, PeekedIs, LagReads
<1>2. Peeked(s) = EOF <=> Consumed(s) = Len(text)
  BY PeekedIs
<1> QED
  BY <1>1, <1>2, LagPutsBack

-------------------------------------------------------------------------------
LEMMA ReturnSeeks ==
  ASSUME TextOK(text), NEW k, NEW p, NEW s, Return(k, p, s), SeekOK(text, s),
         NoBack(text) => LagBetween(text, s) /\ (Consumed(s) >= 1 \/ Len(text) = 0)
  PROVE  SeekInv'
<1>1. stream' = s /\ mode' = "idle" /\ text' = text
  BY DEF Return
<1>2. (NoBack(text) => LagBetween(text, stream) /\ (Consumed(stream) >= 1 \/ Len(text) = 0))'
  BY <1>1
<1>3. SeekOK(text, stream)'
  BY <1>1
<1> QED
  BY <1>1, <1>2, <1>3 DEF SeekInv, Regexes

LEMMA GotoSeeks ==
  ASSUME text' = text, NEW m, NEW c, NEW s, Goto(m, c, s), SeekOK(text, s),
         m \notin Regexes \cup {"idle"}, NoBack(text) => LagWithin(text, s)
  PROVE  SeekInv'
<1>1. stream' = s /\ mode' = m /\ text' = text
  BY DEF Goto
<1>2. (NoBack(text) => LagWithin(text, stream))' /\ SeekOK(text, stream)'
  BY <1>1
<1> QED
  BY <1>1, <1>2 DEF SeekInv, Regexes

LEMMA ReadsSeeks ==
  ASSUME TextOK(text), text' = text, NEW m, NEW s, Good(text, s), Reads(m, s), SeekOK(text, s),
         m \notin Regexes \cup {"idle"},
         NoBack(text) => LagBetween(text, s) /\ (Lag(s) = 2 => m = "skip")
  PROVE  SeekInv'
<1>1. stream' = AfterRead(s) /\ mode' = m /\ ch' = Peeked(s)
  BY DEF Reads, Goto
<1>2. /\ Consumed(s) \in 0..Len(text) /\ Len(text) \in Nat
      /\ Consumed(AfterRead(s)) = Beyond(text, Consumed(s))
      /\ SeekOK(text, AfterRead(s)) /\ Lag(AfterRead(s)) = Lag(s)
  BY PeekedIs, AfterReadIs, LagReads
<1>3. Peeked(s) = EOF <=> Consumed(s) = Len(text)
  BY PeekedIs
<1>4. ASSUME NoBack(text)
      PROVE  \/ LagWithin(text, AfterRead(s))
             \/ LagBetween(text, AfterRead(s)) /\ m = "skip" /\ Peeked(s) = EOF
  <2>1. CASE Lag(s) = 2
    BY <1>2, <1>3, <1>4, <2>1 DEF LagBetween, Beyond
  <2>2. CASE Lag(s) \in 0..1
    BY <1>2, <1>4, <2>2 DEF LagBetween, LagWithin, Beyond
  <2> QED
    BY <1>4, <2>1, <2>2 DEF LagBetween
<1>5. SeekOK(text, stream)'
  BY <1>1, <1>2
<1>6. (NoBack(text) => \/ LagWithin(text, stream)
                       \/ LagBetween(text, stream) /\ mode = "skip" /\ ch = EOF)'
  BY <1>1, <1>4
<1> QED
  BY <1>1, <1>5, <1>6 DEF SeekInv, Regexes

\* In front of a character that belongs to a token.
LEMMA SeekFacts ==
  ASSUME CoreInv, AheadInv, SeekInv
  PROVE  /\ SeekOK(text, stream) /\ SeekOK(text, AfterRead(stream))
         /\ Lag(AfterRead(stream)) = Lag(stream)
         /\ mode # "idle" /\ (mode # "skip" \/ ch # EOF) /\ NoBack(text) => LagWithin(text, stream)
         /\ NoBack(text) => LagBetween(text, stream)
         /\ mode \notin {"idle", "undo"} =>
              /\ SeekOK(text, PutBack(stream, ch))
              /\ Consumed(stream) >= 1 \/ Len(text) = 0
         /\ mode \in Started /\ NoBack(text) =>
              /\ LagBetween(text, PutBack(stream, ch)) /\ Consumed(PutBack(stream, ch)) >= 1
<1>1. /\ TextOK(text) /\ Good(text, stream) /\ ch \in Char /\ Len(text) \in Nat
      /\ Consumed(stream) \in 0..Len(text)
  BY CoreFacts
<1>2. SeekOK(text, stream)
  BY DEF SeekInv
<1>3. Lag(AfterRead(stream)) = Lag(stream) /\ SeekOK(text, AfterRead(stream)) /\ Lag(stream) \in Int
  BY <1>1, <1>2, LagReads
<1>4. ASSUME mode # "idle", mode # "skip" \/ ch # EOF, NoBack(text)
      PROVE  LagWithin(text, stream)
  BY <1>4 DEF SeekInv, Regexes, LagWithin
<1>5. ASSUME NoBack(text) PROVE LagBetween(text, stream)
  <2>1. LagWithin(text, stream) => LagBetween(text, stream)
    BY <1>1, <1>3 DEF LagWithin, LagBetween
  <2>2. Lag(stream) = 0 => LagBetween(text, stream)
    BY DEF LagBetween
  <2> QED
    BY <1>5, <2>1, <2>2 DEF SeekInv, Regexes
<1>6. ASSUME mode \notin {"idle", "undo"}
      PROVE  /\ SeekOK(text, PutBack(stream, ch))
             /\ Consumed(stream) >= 1 \/ Len(text) = 0
             /\ LastRead(text, ch, Consumed(stream))
             /\ Lag(PutBack(stream, ch)) = IF ch = EOF THEN Lag(stream) + 1 ELSE Lag(stream)
             /\ Consumed(PutBack(stream, ch)) = IF ch = EOF THEN Consumed(stream) ELSE Consumed(stream) - 1
  <2>1. LastRead(text, ch, Consumed(stream))
    BY <1>6 DEF CoreInv
  <2>2. Consumed(stream) >= 1 \/ Len(text) = 0
    BY <1>1, <2>1 DEF LastRead
  <2> QED
    BY <1>1, <1>2, <2>1, <2>2, LagPutsBack, PutBackIs
<1>7. ASSUME mode \in Started, NoBack(text)
      PROVE  LagBetween(text, PutBack(stream, ch)) /\ Consumed(PutBack(stream, ch)) >= 1
  <2>1. /\ mode \notin {"idle", "undo", "skip"}
        /\ start.from \in 1..Len(text) /\ start.from <= Consumed(stream)
        /\ ch # EOF => start.from < Consumed(stream)
    BY <1>7 DEF AheadInv, Started
  <2>2. LagWithin(text, stream)
    BY <1>4, <1>7, <2>1
  <2>3. CASE ch = EOF
    <3>1. Consumed(stream) = Len(text)
      BY <1>1, <1>6, <2>1, <2>3 DEF LastRead, TextOK
    <3>2. Lag(PutBack(stream, ch)) = Lag(stream) + 1 /\ Consumed(PutBack(stream, ch)) = Consumed(stream)
      BY <1>6, <2>1, <2>3
    <3> QED
      BY <1>1, <1>3, <2>1, <2>2, <3>1, <3>2 DEF LagWithin, LagBetween
  <2>4. CASE ch # EOF
    <3>1. Lag(PutBack(stream, ch)) = Lag(stream) /\ Consumed(PutBack(stream, ch)) = Consumed(stream) - 1
      BY <1>6, <2>1, <2>4
    <3> QED
      BY <1>1, <1>3, <2>1, <2>2, <2>4, <3>1 DEF LagWithin, LagBetween
  <2> QED
    BY <2>3, <2>4
<1> QED
  BY <1>2, <1>3, <1>4, <1>5, <1>6, <1>7

LEMMA GoesOn ==
  ASSUME CoreInv, AheadInv, SeekInv, mode # "idle", mode # "skip" \/ ch # EOF, text' = text,
         NEW m, m \notin Regexes \cup {"idle"}, Reads(m, stream) \/ Reads(m, AfterRead(stream))
  PROVE  SeekInv'
<1>1. /\ TextOK(text) /\ Good(text, stream) /\ Good(text, AfterRead(stream)) /\ Len(text) \in Nat
      /\ Consumed(stream) \in 0..Len(text)
      /\ Consumed(AfterRead(stream)) = Beyond(text, Consumed(stream))
  BY CoreFacts
<1>2. /\ SeekOK(text, stream) /\ SeekOK(text, AfterRead(stream))
      /\ Lag(AfterRead(stream)) = Lag(stream)
      /\ NoBack(text) => LagWithin(text, stream)
  BY SeekFacts
<1>3. ASSUME NoBack(text)
      PROVE  /\ LagBetween(text, stream) /\ Lag(stream) # 2
             /\ LagBetween(text, AfterRead(stream)) /\ Lag(AfterRead(stream)) # 2
  BY <1>1, <1>2, <1>3 DEF LagWithin, LagBetween, Beyond
<1> QED
  BY <1>1, <1>2, <1>3, ReadsSeeks

LEMMA SkippingSeeks ==
  ASSUME CoreInv, AheadInv, SeekInv, Call(TRUE) \/ Call(FALSE) \/ Skipping
  PROVE  SeekInv'
<1>1. ASSUME NEW divide, Call(divide) PROVE SeekInv'
  <2>1. Reads("skip", stream) /\ text' = text
    BY <1>1 DEF Call
  <2> QED
    BY <2>1, CoreFacts, SeekFacts, ReadsSeeks DEF Regexes
<1>2. ASSUME SkipSpace PROVE SeekInv'
  <2>1. mode = "skip" /\ ch # EOF /\ Reads("skip", stream) /\ text' = text
    BY <1>2 DEF SkipSpace, Spaces, EOF, NL
  <2> QED
    BY <2>1, GoesOn DEF Regexes
<1>3. ASSUME LineComment PROVE SeekInv'
  <2>1. mode = "skip" /\ ch # EOF /\ Goto("line", ch, AfterRead(stream)) /\ text' = text
    BY <1>3 DEF LineComment, AtSlash, EOF
  <2>2. NoBack(text) => LagWithin(text, AfterRead(stream))
    BY <2>1, CoreFacts, SeekFacts DEF LagWithin, Beyond
  <2> QED
    BY <2>1, <2>2, SeekFacts, GotoSeeks DEF Regexes
<1>4. ASSUME SkipLine PROVE SeekInv'
  <2>1. /\ mode = "line" /\ text' = text
        /\ Goto("skip", ch, stream) \/ Reads("line", stream)
    BY <1>4 DEF SkipLine
  <2>2. CASE Goto("skip", ch, stream)
    BY <2>1, <2>2, SeekFacts, GotoSeeks DEF Regexes
  <2>3. CASE Reads("line", stream)
    BY <2>1, <2>3, GoesOn DEF Regexes
  <2> QED
    BY <2>1, <2>2, <2>3
<1>5. ASSUME BlockComment PROVE SeekInv'
  <2>1. mode = "skip" /\ ch # EOF /\ Reads("block", AfterRead(stream)) /\ text' = text
    BY <1>5 DEF BlockComment, AtSlash, EOF
  <2> QED
    BY <2>1, GoesOn DEF Regexes
<1>6. ASSUME SkipBlock PROVE SeekInv'
  <2>1. mode = "block" /\ Reads("block", stream) /\ text' = text
    BY <1>6 DEF SkipBlock
  <2> QED
    BY <2>1, GoesOn DEF Regexes
<1>7. ASSUME EndBlock PROVE SeekInv'
  <2>1. mode = "block" /\ Reads("skip", stream) /\ text' = text
    BY <1>7 DEF EndBlock
  <2> QED
    BY <2>1, GoesOn DEF Regexes
<1>8. ASSUME EndBlockAtEnd PROVE SeekInv'
  <2>1. mode = "block" /\ Return("error", Place(stream), stream)
    BY <1>8 DEF EndBlockAtEnd
  <2> QED
    BY <2>1, CoreFacts, SeekFacts, ReturnSeeks
<1> QED
  BY <1>1, <1>2, <1>3, <1>4, <1>5, <1>6, <1>7, <1>8 DEF Skipping

\* Within a regular expression the end of the text is not put back.
LEMMA RegexReads ==
  ASSUME TextOK(text), text' = text, NEW m \in {"regex", "class", "flags"}, NEW s, Good(text, s),
         Reads(m, s), SeekOK(text, s), NoBack(text) => Lag(s) = 0,
         NoBack(text) /\ m = "regex" /\ ~HasClass(buffer)' => start'.from + Len(buffer') <= Len(text)
  PROVE  SeekInv'
<1>1. stream' = AfterRead(s) /\ mode' = m
  BY DEF Reads, Goto
<1>2. SeekOK(text, AfterRead(s)) /\ Lag(AfterRead(s)) = Lag(s)
  BY LagReads
<1>3. SeekOK(text, stream)' /\ (NoBack(text) => Lag(stream) = 0)'
  BY <1>1, <1>2
<1>4. (NoBack(text) /\ mode = "regex" /\ ~HasClass(buffer) => start.from + Len(buffer) <= Len(text))'
  BY <1>1
<1> QED
  BY <1>1, <1>3, <1>4 DEF SeekInv, Regexes

LEMMA RegexSeeks ==
  ASSUME CoreInv, AheadInv, SeekInv, Regex, AbandonRegex => ~HasClass(buffer)
  PROVE  SeekInv'
<1>0. /\ TextOK(text) /\ Good(text, stream) /\ Good(text, AfterRead(stream)) /\ Len(text) \in Nat
      /\ Consumed(stream) \in 0..Len(text) /\ ch \in Char /\ buffer \in Seq(Char)
      /\ Len(buffer) \in Nat /\ Peeked(stream) \in Char
      /\ Consumed(AfterRead(stream)) = Beyond(text, Consumed(stream))
      /\ SeekOK(text, stream) /\ SeekOK(text, AfterRead(stream))
      /\ Lag(AfterRead(stream)) = Lag(stream)
      /\ mode \in Regexes /\ NoBack(text) => Lag(stream) = 0
  BY CoreFacts, SeekFacts DEF SeekInv
<1>1. ASSUME DivideAtEnd PROVE SeekInv'
  <2>1. mode = "skip" /\ ch # EOF /\ Return("symbol", Place(stream), AfterRead(stream))
    BY <1>1 DEF DivideAtEnd, AtSlash, EOF
  <2>2. LastRead(text, ch, Consumed(stream))
    BY <2>1 DEF CoreInv
  <2>3. NoBack(text) => LagBetween(text, AfterRead(stream))
    BY <1>0, <2>1, SeekFacts DEF LagWithin, LagBetween, Beyond
  <2>4. Consumed(AfterRead(stream)) >= 1
    BY <1>0, <2>1, <2>2 DEF LastRead, Beyond
  <2> QED
    BY <1>0, <2>1, <2>3, <2>4, ReturnSeeks
<1>2. ASSUME DivideOrRegex PROVE SeekInv'
  <2> DEFINE s == PutBack(AfterRead(stream), Peeked(stream))
  <2>1. /\ mode = "skip" /\ ch = "/" /\ text' = text /\ buffer' = buffer /\ Peeked(stream) # EOF
        /\ \/ Goto("token", ch, s)
           \/ Reads("regex", s) /\ start' = Place(s)
    BY <1>2 DEF DivideOrRegex, AtSlash, Following
  <2>2. /\ Good(text, s) /\ Consumed(s) = Consumed(stream) /\ Consumed(stream) # Len(text)
        /\ buffer = << >>
    BY <2>1, CoreFacts DEF Skips
  <2>3. Lag(s) = Lag(stream) /\ SeekOK(text, s)
    BY <1>0, <2>2, LagRereads
  <2>4. ch # EOF
    BY <2>1 DEF EOF
  <2>5. NoBack(text) => Lag(s) = 0
    BY <2>1, <2>2, <2>3, <2>4, SeekFacts DEF LagWithin
  <2> HIDE DEF s
  <2>6. CASE Goto("token", ch, s)
    <3>1. mode' = "token" /\ stream' = s
      BY <2>6 DEF Goto
    <3>2. SeekOK(text, stream)' /\ (NoBack(text) => Lag(stream) = 0)'
      BY <2>1, <2>3, <2>5, <3>1
    <3> QED
      BY <3>1, <3>2 DEF SeekInv, Regexes
  <2>7. CASE Reads("regex", s) /\ start' = Place(s)
    <3>1. start'.from + Len(buffer') <= Len(text)
      BY <1>0, <2>1, <2>2, <2>7 DEF Place
    <3> QED
      BY <1>0, <2>1, <2>2, <2>3, <2>5, <2>7, <3>1, RegexReads
  <2> QED
    BY <2>1, <2>6, <2>7
<1>3. ASSUME PlainInRegex PROVE SeekInv'
  <2>1. /\ mode = "regex" /\ ch # EOF /\ Reads("regex", stream) /\ text' = text
        /\ buffer' = Append(buffer, ch) /\ start' = start
    BY <1>3 DEF PlainInRegex
  <2>2. ASSUME ~HasClass(buffer)' PROVE start'.from + Len(buffer') <= Len(text)
    <3>1. ~HasClass(Append(buffer, ch))
      BY <2>1, <2>2 DEF HasClass
    <3>2. InRegex(text, buffer, start.from, ch, Consumed(stream))
      BY <1>0, <2>1, <3>1, NoClassBefore DEF CoreInv
    <3>3. Consumed(stream) = start.from + Len(buffer) + 1 /\ start.from \in Nat
      BY <1>0, <2>1, <3>2 DEF InRegex, Contents
    <3>4. Len(buffer') = Len(buffer) + 1
      BY <1>0, <2>1, AppendProperties
    <3> QED
      BY <1>0, <2>1, <3>3, <3>4
  <2> QED
    BY <1>0, <2>1, <2>2, RegexReads DEF Regexes
<1>4. ASSUME EscapeInRegex PROVE SeekInv'
  <2>1. /\ mode = "regex" /\ ch = "back" /\ Reads("regex", AfterRead(stream)) /\ text' = text
    BY <1>4 DEF EscapeInRegex
  <2>2. ~NoBack(text)
    <3>1. LastRead(text, ch, Consumed(stream)) /\ ch # EOF
      BY <2>1 DEF CoreInv, EOF
    <3> QED
      BY <2>1, <3>1 DEF LastRead, NoBack
  <2> QED
    BY <1>0, <2>1, <2>2, RegexReads
<1>5. ASSUME OpenClass PROVE SeekInv'
  <2>1. mode = "regex" /\ Reads("class", stream) /\ text' = text
    BY <1>5 DEF OpenClass
  <2> QED
    BY <1>0, <2>1, RegexReads DEF Regexes
<1>6. ASSUME CharInClass PROVE SeekInv'
  <2> DEFINE s == IF ch = "back" THEN AfterRead(stream) ELSE stream
  <2>1. /\ mode = "class"
        /\ \/ Return("error", start, s)
           \/ Reads("class", s) /\ text' = text
    BY <1>6 DEF CharInClass
  <2>2. /\ Good(text, s) /\ SeekOK(text, s) /\ NoBack(text) => Lag(s) = 0
    BY <1>0, <2>1 DEF Regexes
  <2>3. Consumed(s) >= 1 \/ Len(text) = 0
    BY <1>0, <2>1, SeekFacts DEF Beyond
  <2>4. Good(text, s) /\ SeekOK(text, s)
    BY <1>0
  <2>5. NoBack(text) => Lag(s) = 0 /\ LagBetween(text, s)
    BY <2>2, <2>4 DEF LagBetween
  <2> HIDE DEF s
  <2> QED
    BY <1>0, <2>1, <2>3, <2>4, <2>5, RegexReads, ReturnSeeks
<1>7. ASSUME CloseClass PROVE SeekInv'
  <2>1. mode = "class" /\ Reads("regex", stream) /\ text' = text /\ buffer' = buffer \o <<ch, ch>>
    BY <1>7 DEF CloseClass
  <2>2. <<ch, ch>> \in Seq(Char) /\ HasClass(buffer)
    BY <1>0, <2>1 DEF CoreInv
  <2>3. HasClass(buffer \o <<ch, ch>>)
    BY <1>0, <2>2, HasClassStays
  <2>4. HasClass(buffer)'
    BY <2>1, <2>3 DEF HasClass
  <2> QED
    BY <1>0, <2>1, <2>4, RegexReads DEF Regexes
<1>8. ASSUME AbandonRegex PROVE SeekInv'
  <2> DEFINE s == IF ch = NL THEN PutBack(stream, NL) ELSE stream
  <2>1. /\ mode = "regex" /\ text' = text /\ buffer' = buffer /\ start' = start /\ ~HasClass(buffer)
        /\ mode' = "undo" /\ stream' = s
    BY <1>8 DEF AbandonRegex, Goto
  <2>2. LastRead(text, ch, Consumed(stream)) /\ NL # EOF
    BY <2>1 DEF CoreInv, NL, EOF
  <2>3. SeekOK(text, s) /\ Lag(s) = Lag(stream)
    <3>1. CASE ch = NL
      BY <1>0, <2>2, <3>1, LagPutsBack
    <3>2. CASE ch # NL
      BY <1>0, <3>2
    <3> QED
      BY <3>1, <3>2
  <2> HIDE DEF s
  <2>4. NoBack(text) => Lag(s) = 0 /\ start.from + Len(buffer) <= Len(text)
    BY <1>0, <2>1, <2>3 DEF SeekInv, Regexes
  <2>5. SeekOK(text, stream)' /\ (NoBack(text) => Lag(stream) = 0)'
    BY <2>1, <2>3, <2>4
  <2> QED
    BY <2>1, <2>4, <2>5 DEF SeekInv, Regexes
<1>9. ASSUME UndoRegex PROVE SeekInv'
  <2>1. mode = "undo" /\ text' = text /\ start' = start
    BY <1>9 DEF UndoRegex
  <2>2. NoBack(text) => Lag(stream) = 0 /\ start.from + Len(buffer) <= Len(text)
    BY <1>0, <2>1 DEF SeekInv, Regexes
  <2>3. CASE buffer = << >>
    <3>1. mode' = "token" /\ stream' = stream
      BY <1>9, <2>3 DEF UndoRegex, Goto
    <3>2. SeekOK(text, stream)' /\ (NoBack(text) => Lag(stream) = 0)'
      BY <1>0, <2>1, <2>2, <3>1
    <3> QED
      BY <3>1, <3>2 DEF SeekInv, Regexes
  <2>4. CASE buffer # << >>
    <3> DEFINE c == buffer[Len(buffer)]
               r == SubSeq(buffer, 1, Len(buffer) - 1)
    <3>1. mode' = "undo" /\ stream' = PutBack(stream, c) /\ buffer' = r
      BY <1>9, <2>4 DEF UndoRegex, Goto
    <3>2. /\ Len(buffer) \in Nat \ {0} /\ c \in Char /\ LastRead(text, c, Consumed(stream))
          /\ Len(r) = Len(buffer) - 1
      BY <2>1, <2>4, UndoReads
    <3>3. c = At(text, start.from + Len(buffer)) /\ start.from \in 1..Len(text)
      BY <1>0, <2>1, <3>2 DEF CoreInv, InUndo, Contents
    <3> HIDE DEF c, r
    <3>4. /\ SeekOK(text, PutBack(stream, c))
          /\ Lag(PutBack(stream, c)) = IF c = EOF THEN Lag(stream) + 1 ELSE Lag(stream)
      BY <1>0, <3>2, LagPutsBack
    <3>5. ASSUME NoBack(text) PROVE c # EOF
      BY <1>0, <2>2, <3>2, <3>3, <3>5 DEF At, TextOK
    <3>6. SeekOK(text, stream)' /\ (NoBack(text) => Lag(stream) = 0)'
      BY <2>1, <2>2, <3>1, <3>4, <3>5
    <3>7. (NoBack(text) => start.from + Len(buffer) <= Len(text))'
      BY <1>0, <2>1, <2>2, <3>1, <3>2, <3>3
    <3> QED
      BY <3>1, <3>6, <3>7 DEF SeekInv, Regexes
  <2> QED
    BY <2>3, <2>4
<1>10. ASSUME CloseRegex \/ RegexFlag PROVE SeekInv'
  <2>1. mode \in {"regex", "flags"} /\ Reads("flags", stream) /\ text' = text
    BY <1>10 DEF CloseRegex, RegexFlag
  <2> QED
    BY <1>0, <2>1, RegexReads DEF Regexes
<1>11. ASSUME EndRegex PROVE SeekInv'
  <2>1. mode = "flags" /\ Return("regex", start, PutBack(stream, ch))
    BY <1>11 DEF EndRegex
  <2> QED
    BY <1>0, <2>1, SeekFacts, ReturnSeeks DEF Started
<1> QED
  BY <1>1, <1>2, <1>3, <1>4, <1>5, <1>6, <1>7, <1>8, <1>9, <1>10, <1>11 DEF Regex

LEMMA AheadSeeks ==
  ASSUME CoreInv, AheadInv, SeekInv, AtToken, ch # EOF
  PROVE  /\ SeekOK(text, AfterThird) /\ SeekOK(text, WithoutThird) /\ SeekOK(text, WithoutSecond)
         /\ Consumed(stream) \in 1..Len(text)
         /\ NoBack(text) =>
              /\ Second # EOF => /\ Lag(stream) = 0 /\ Lag(AfterThird) = 0
                                 /\ LagBetween(text, WithoutThird)
              /\ LagBetween(text, WithoutSecond) /\ Lag(WithoutSecond) # 2
<1> DEFINE n == Consumed(stream)
<1>1. /\ TextOK(text) /\ Good(text, stream) /\ Len(text) \in Nat /\ Second \in Char
      /\ Good(text, AfterSecond) /\ Consumed(AfterSecond) = Beyond(text, n)
      /\ Good(text, AfterThird) /\ Consumed(AfterThird) = Beyond(text, Consumed(AfterSecond))
      /\ Good(text, WithoutThird) /\ Consumed(WithoutThird) = Consumed(AfterSecond)
      /\ Consumed(WithoutSecond) = n
      /\ LastRead(text, Second, Consumed(AfterSecond))
  BY CoreFacts, AheadIs DEF Second, AfterSecond
<1>2. mode \in {"skip", "token"} /\ LastRead(text, ch, n)
  BY DEF AtToken, CoreInv
<1>3. n \in 1..Len(text)
  BY <1>2 DEF LastRead
<1>4. /\ SeekOK(text, stream) /\ SeekOK(text, AfterSecond) /\ Lag(AfterSecond) = Lag(stream)
      /\ NoBack(text) => LagWithin(text, stream)
  BY <1>2, SeekFacts DEF AfterSecond
<1>5. SeekOK(text, AfterThird) /\ Lag(AfterThird) = Lag(stream)
  BY <1>1, <1>4, LagReads DEF AfterThird
<1> DEFINE r == PutBack(AfterThird, Third)
<1>6. /\ SeekOK(text, r)
      /\ Lag(r) = IF Consumed(AfterSecond) = Len(text) THEN Lag(stream) + 1 ELSE Lag(stream)
  BY <1>1, <1>4, LagRereads DEF AfterThird, Third
<1>7. Second = EOF <=> n = Len(text)
  BY <1>1, PeekedIs DEF Second
<1> HIDE DEF r
<1>8. CASE Second = EOF
  <2>1. WithoutThird = AfterThird /\ WithoutSecond = AfterThird
    BY <1>8 DEF WithoutThird, WithoutSecond
  <2>2. NoBack(text) => LagBetween(text, WithoutSecond) /\ Lag(WithoutSecond) # 2
    BY <1>1, <1>3, <1>4, <1>5, <1>7, <1>8, <2>1 DEF LagWithin, LagBetween
  <2> QED
    BY <1>3, <1>5, <1>8, <2>1, <2>2
<1>9. CASE Second # EOF
  <2>1. WithoutThird = r /\ WithoutSecond = PutBack(r, Second) /\ Good(text, r)
        /\ Consumed(r) = Consumed(AfterSecond)
    BY <1>1, <1>9 DEF WithoutThird, WithoutSecond, r
  <2>2. LastRead(text, Second, Consumed(r))
    BY <1>1, <2>1
  <2>3. SeekOK(text, WithoutSecond) /\ Lag(WithoutSecond) = Lag(r)
    BY <1>1, <1>6, <1>9, <2>1, <2>2, LagPutsBack
  <2>4. n < Len(text) /\ Consumed(AfterSecond) = n + 1
    BY <1>1, <1>3, <1>7, <1>9 DEF Beyond
  <2>5. ASSUME NoBack(text)
        PROVE  Lag(stream) = 0 /\ LagBetween(text, r) /\ LagBetween(text, WithoutSecond)
               /\ Lag(WithoutSecond) # 2
    <3>1. Lag(stream) = 0
      BY <1>3, <1>4, <2>4, <2>5 DEF LagWithin
    <3>2. Lag(r) = IF n + 1 = Len(text) THEN 1 ELSE 0
      BY <1>6, <2>4, <3>1
    <3>3. Consumed(r) = n + 1 /\ Consumed(WithoutSecond) = n
      BY <1>1, <2>1, <2>4
    <3> QED
      BY <1>1, <1>3, <2>3, <3>1, <3>2, <3>3 DEF LagBetween
  <2> QED
    BY <1>3, <1>5, <1>6, <2>1, <2>3, <2>5
<1> QED
  BY <1>8, <1>9

LEMMA LexemeSeeks ==
  ASSUME CoreInv, AheadInv, SeekInv, Lexeme
  PROVE  SeekInv'
<1>0. /\ TextOK(text) /\ Good(text, stream) /\ Good(text, AfterRead(stream)) /\ Len(text) \in Nat
      /\ Consumed(stream) \in 0..Len(text)
      /\ Consumed(AfterRead(stream)) = Beyond(text, Consumed(stream))
  BY CoreFacts
<1>1. ASSUME AtEnd PROVE SeekInv'
  <2>1. /\ mode \notin {"idle", "undo"}
        /\ Return("end", [Place(stream) EXCEPT !.from = Consumed(stream) + 1], stream)
    BY <1>1 DEF AtEnd, AtToken
  <2> QED
    BY <1>0, <2>1, SeekFacts, ReturnSeeks
<1>2. ASSUME StartWord PROVE SeekInv'
  <2>1. mode # "idle" /\ ch # EOF /\ Reads("word", stream) /\ text' = text
    BY <1>2 DEF StartWord, AtToken, WordStart, Letters, EOF
  <2> QED
    BY <2>1, GoesOn DEF Regexes
<1>3. ASSUME CharInWord PROVE SeekInv'
  <2>1. mode = "word" /\ Reads("word", stream) /\ text' = text
    BY <1>3 DEF CharInWord
  <2> QED
    BY <2>1, GoesOn DEF Regexes
<1>4. ASSUME mode \in Started, NEW k, Return(k, start, PutBack(stream, ch)) PROVE SeekInv'
  <2>1. mode \notin {"idle", "undo"}
    BY <1>4 DEF Started
  <2> QED
    BY <1>0, <1>4, <2>1, SeekFacts, ReturnSeeks
<1>5. ASSUME ThreeSymbol PROVE SeekInv'
  <2> DEFINE fourth == Peeked(AfterThird)
             after == AfterRead(AfterThird)
             back == PutBack(after, fourth)
  <2>1. /\ AtToken /\ ch # EOF /\ Second # EOF
        /\ \/ Return("symbol", Place(stream), AfterThird)
           \/ Return("symbol", [Place(after) EXCEPT !.from = Consumed(stream)], after)
           \/ Return("symbol", Place(stream), back)
    BY <1>5 DEF ThreeSymbol, AtOther, AtThree
  <2>2. /\ SeekOK(text, AfterThird) /\ Consumed(stream) \in 1..Len(text)
        /\ NoBack(text) => Lag(AfterThird) = 0
    BY <2>1, AheadSeeks
  <2>3. /\ Good(text, AfterThird) /\ Consumed(AfterSecond) = Beyond(text, Consumed(stream))
        /\ Consumed(AfterThird) = Beyond(text, Consumed(AfterSecond))
    BY <1>0, AheadIs
  <2>4. /\ SeekOK(text, after) /\ Lag(after) = Lag(AfterThird)
        /\ Consumed(after) = Beyond(text, Consumed(AfterThird))
    BY <1>0, <2>2, <2>3, LagReads, AfterReadIs
  <2>5. /\ SeekOK(text, back) /\ Consumed(back) = Consumed(AfterThird)
        /\ Lag(back) = IF Consumed(AfterThird) = Len(text) THEN Lag(AfterThird) + 1
                                                           ELSE Lag(AfterThird)
    BY <1>0, <2>2, <2>3, LagRereads, PutBackAfterRead
  <2>6. Consumed(AfterThird) >= 1 /\ Consumed(after) >= 1 /\ Consumed(AfterThird) \in Int
    BY <1>0, <2>2, <2>3, <2>4 DEF Beyond
  <2> HIDE DEF fourth, after, back
  <2>7. NoBack(text) => /\ LagBetween(text, AfterThird) /\ LagBetween(text, after)
                        /\ LagBetween(text, back)
    BY <1>0, <2>2, <2>4, <2>5 DEF LagBetween
  <2> QED
    BY <1>0, <2>1, <2>2, <2>4, <2>5, <2>6, <2>7, ReturnSeeks
<1>6. ASSUME TwoSymbol PROVE SeekInv'
  <2>1. AtToken /\ ch # EOF /\ Second # EOF /\ Return("symbol", Place(stream), WithoutThird)
    BY <1>6 DEF TwoSymbol, AtOther, AtTwo
  <2>2. Consumed(WithoutThird) = Beyond(text, Consumed(stream)) /\ Consumed(stream) >= 1
    BY <1>0, <2>1, AheadIs, AheadSeeks
  <2>3. Consumed(WithoutThird) >= 1
    BY <1>0, <2>2 DEF Beyond
  <2> QED
    BY <1>0, <2>1, <2>3, AheadSeeks, ReturnSeeks
<1>7. ASSUME OneSymbol \/ Illegal PROVE SeekInv'
  <2>1. AtToken /\ ch # EOF /\ \E k : Return(k, Place(stream), WithoutSecond)
    BY <1>7 DEF OneSymbol, Illegal, AtOther
  <2>2. Consumed(WithoutSecond) = Consumed(stream) /\ Consumed(stream) \in 1..Len(text)
    BY <1>0, <2>1, AheadIs, AheadSeeks
  <2>3. Consumed(WithoutSecond) >= 1
    BY <1>0, <2>2
  <2> QED
    BY <1>0, <2>1, <2>3, AheadSeeks, ReturnSeeks
<1>8. ASSUME StartString \/ StartNumber PROVE SeekInv'
  <2>1. /\ AtToken /\ ch # EOF /\ text' = text
        /\ Reads("string", WithoutSecond) \/ Reads("radix", WithoutSecond)
    BY <1>8 DEF StartString, StartNumber, AtOther
  <2> QED
    BY <1>0, <2>1, AheadIs, AheadSeeks, ReadsSeeks DEF Regexes
<1>9. ASSUME CharInString PROVE SeekInv'
  <2>1. /\ mode = "string" /\ text' = text
        /\ \/ Goto("string", EOF, AfterRead(stream))
           \/ Reads("string", AfterRead(stream))
           \/ Reads("string", stream)
    BY <1>9 DEF CharInString
  <2>2. NoBack(text) => LagWithin(text, AfterRead(stream))
    BY <1>0, <2>1, SeekFacts DEF LagWithin, Beyond
  <2>3. CASE Goto("string", EOF, AfterRead(stream))
    BY <2>1, <2>2, <2>3, SeekFacts, GotoSeeks DEF Regexes
  <2>4. CASE Reads("string", AfterRead(stream)) \/ Reads("string", stream)
    BY <2>1, <2>4, GoesOn DEF Regexes
  <2> QED
    BY <2>1, <2>3, <2>4
<1>10. ASSUME EndString PROVE SeekInv'
  <2>1. mode = "string" /\ \E k : Return(k, start, stream)
    BY <1>10 DEF EndString
  <2> QED
    BY <1>0, <2>1, SeekFacts, ReturnSeeks
<1>11. ASSUME Radix PROVE SeekInv'
  <2>1. /\ mode = "radix" /\ text' = text
        /\ Reads("hex", stream) \/ Reads("bin", stream) \/ Goto("decimal", ch, stream)
    BY <1>11 DEF Radix
  <2>2. CASE Goto("decimal", ch, stream)
    BY <2>1, <2>2, SeekFacts, GotoSeeks DEF Regexes
  <2>3. CASE Reads("hex", stream) \/ Reads("bin", stream)
    BY <2>1, <2>3, GoesOn DEF Regexes
  <2> QED
    BY <2>1, <2>2, <2>3
<1>12. ASSUME DigitInRadix PROVE SeekInv'
  <2>1. mode \in {"hex", "bin"} /\ Reads(mode, stream) /\ text' = text
    BY <1>12 DEF DigitInRadix
  <2> QED
    BY <2>1, GoesOn DEF Regexes
<1>13. ASSUME CharInNumber PROVE SeekInv'
  <2> DEFINE r == PutBack(AfterRead(stream), Peeked(stream))
  <2>1. /\ mode = "decimal" /\ ch # EOF
        /\ \/ Reads("decimal", stream) /\ text' = text
           \/ Return("number", start, r)
    BY <1>13 DEF CharInNumber, Decimal, Digits, EOF
  <2>2. CASE Reads("decimal", stream) /\ text' = text
    BY <2>1, <2>2, GoesOn DEF Regexes
  <2>3. CASE Return("number", start, r)
    <3>1. /\ SeekOK(text, r) /\ Consumed(r) = Consumed(stream)
          /\ Lag(r) = IF Consumed(stream) = Len(text) THEN Lag(stream) + 1 ELSE Lag(stream)
      BY <1>0, SeekFacts, LagRereads, PutBackAfterRead
    <3>2. Consumed(stream) >= 1 \/ Len(text) = 0
      BY <2>1, SeekFacts
    <3> HIDE DEF r
    <3>3. NoBack(text) => LagBetween(text, r)
      <4>1. NoBack(text) => LagWithin(text, stream)
        BY <2>1, SeekFacts
      <4> QED
        BY <1>0, <3>1, <4>1 DEF LagWithin, LagBetween
    <3> QED
      BY <1>0, <2>3, <3>1, <3>2, <3>3, ReturnSeeks
  <2> QED
    BY <2>1, <2>2, <2>3
<1>14. EndWord \/ Octal \/ EndRadix \/ EndNumber =>
         mode \in Started /\ \E k : Return(k, start, PutBack(stream, ch))
  BY DEF EndWord, Octal, EndRadix, EndNumber, Started
<1> QED
  BY <1>1, <1>2, <1>3, <1>4, <1>5, <1>6, <1>7, <1>8, <1>9, <1>10, <1>11, <1>12, <1>13, <1>14
     DEF Lexeme

LEMMA SeekStep ==
  ASSUME CoreInv, AheadInv, SeekInv, [Next]_vars, [~GivesUpClass]_vars
  PROVE  SeekInv'
<1>1. CASE UNCHANGED vars
  BY <1>1 DEF SeekInv, vars, local
<1>2. CASE ~UNCHANGED vars
  <2>1. AbandonRegex => ~HasClass(buffer)
    BY <1>2 DEF GivesUpClass
  <2>2. CASE Peek \/ Advance
    BY <2>2, SkippingSeeks DEF Peek, Advance
  <2>3. CASE Step
    BY <2>1, <2>3, SkippingSeeks, RegexSeeks, LexemeSeeks DEF Step
  <2> QED
    BY <1>2, <2>2, <2>3 DEF Next
<1> QED
  BY <1>1, <1>2

-------------------------------------------------------------------------------
\* In every run, whatever it gives up, what the offset misses is the end of the text.
HasEnd(b) == \E i \in 1..Len(b) : b[i] = EOF

Counted(s) == s \in Stream /\ s.at >= 1 /\ SeekOK(text, s) /\ ~HasEnd(s.back)

\* A stream that is the stream or was read on from it.
Later(s) == Counted(s) /\ s.at >= stream.at

CountInv ==
  /\ TextOK(text) /\ Counted(stream) /\ buffer \in Seq(Char) /\ ch \in Char
  /\ mode # "idle" /\ ch = EOF => stream.at > Len(text)
  /\ HasEnd(buffer) => stream.at > Len(text)

LEMMA ReadCounts ==
  ASSUME TextOK(text), NEW s, Counted(s)
  PROVE  /\ Counted(AfterRead(s)) /\ s.at \in Nat /\ AfterRead(s).at \in Nat
         /\ AfterRead(s).at >= s.at /\ Peeked(s) \in Char
         /\ Peeked(s) = EOF => s.at > Len(text)
<1>1. /\ s.back \in Seq(Char) /\ Len(s.back) \in Nat /\ s.at \in Nat /\ s.at >= 1
      /\ s.seek \in Int /\ s.row \in Int /\ s.col \in Int /\ s.lastCol \in Int /\ s \in Stream
      /\ Len(text) \in Nat
  BY DEF Counted, Stream, TextOK
<1>2. Peeked(s) \in Char /\ (Peeked(s) = EOF => s.at > Len(text))
  <2>1. CASE s.back = << >>
    <3>1. CASE s.at <= Len(text)
      <4>1. text[s.at] # EOF /\ text[s.at] \in Char
        BY <1>1, <3>1 DEF TextOK
      <4> QED
        BY <2>1, <3>1, <4>1 DEF Peeked
    <3>2. CASE s.at > Len(text)
      BY <1>1, <2>1, <3>2 DEF Peeked, Char
    <3> QED
      BY <1>1, <3>1, <3>2
  <2>2. CASE s.back # << >>
    <3>1. Len(s.back) \in 1..Len(s.back)
      BY <1>1, <2>2, EmptySeq
    <3>2. s.back[Len(s.back)] # EOF /\ s.back[Len(s.back)] \in Char
      BY <1>1, <3>1 DEF Counted, HasEnd
    <3> QED
      BY <2>2, <3>2 DEF Peeked
  <2> QED
    BY <2>1, <2>2
<1> DEFINE r == AfterRead(s)
           row == IF Peeked(s) = NL THEN s.row + 1 ELSE s.row
           lastCol == IF Peeked(s) = NL THEN s.col ELSE s.lastCol
           col == IF Peeked(s) = NL THEN 0 ELSE s.col + 1
<1>3. row \in Int /\ lastCol \in Int /\ col \in Int /\ s.seek + 1 \in Int /\ s.at + 1 \in Nat
  BY <1>1
<1>4. CASE Peeked(s) = EOF
  BY <1>1, <1>2, <1>4 DEF AfterRead, Counted
<1>5. CASE Peeked(s) # EOF /\ s.back = << >>
  <2>1. r = [s EXCEPT !.back = s.back, !.at = s.at + 1, !.row = row, !.lastCol = lastCol,
                      !.col = col, !.seek = s.seek + 1]
    BY <1>5 DEF AfterRead
  <2> HIDE DEF row, lastCol, col, r
  <2>2. r \in Stream /\ r.back = s.back /\ r.at = s.at + 1 /\ r.seek = s.seek + 1
    BY <1>1, <1>3, <2>1 DEF Stream
  <2>3. SeekOK(text, r)
    BY <1>1, <2>2 DEF Counted, SeekOK, Lag, Consumed
  <2> QED
    BY <1>1, <1>2, <2>2, <2>3 DEF Counted, r
<1>6. CASE Peeked(s) # EOF /\ s.back # << >>
  <2> DEFINE b == SubSeq(s.back, 1, Len(s.back) - 1)
  <2>1. r = [s EXCEPT !.back = b, !.at = s.at, !.row = row, !.lastCol = lastCol,
                      !.col = col, !.seek = s.seek + 1]
    BY <1>6 DEF AfterRead
  <2>2. Len(s.back) \in Nat \ {0}
    BY <1>1, <1>6, EmptySeq
  <2>3. /\ b \in Seq(Char) /\ Len(b) = Len(s.back) - 1
        /\ \A i \in 1..Len(b) : b[i] = s.back[i]
    BY <1>1, <2>2, SubSeqProperties
  <2> HIDE DEF row, lastCol, col, r, b
  <2>4. r \in Stream /\ r.back = b /\ r.at = s.at /\ r.seek = s.seek + 1
    BY <1>1, <1>3, <2>1, <2>3 DEF Stream
  <2>5. SeekOK(text, r)
    BY <1>1, <2>2, <2>3, <2>4 DEF Counted, SeekOK, Lag, Consumed
  <2>6. \A i \in 1..Len(s.back) : s.back[i] # EOF
    BY DEF Counted, HasEnd
  <2>7. ~HasEnd(b)
    BY <1>1, <2>2, <2>3, <2>6 DEF HasEnd
  <2> QED
    BY <1>1, <1>2, <2>4, <2>5, <2>7 DEF Counted, r
<1> QED
  BY <1>4, <1>5, <1>6

LEMMA PutBackCounts ==
  ASSUME TextOK(text), NEW s, Counted(s), NEW c \in Char, c = EOF => s.at > Len(text)
  PROVE  Counted(PutBack(s, c)) /\ PutBack(s, c).at = s.at
<1>1. /\ s.back \in Seq(Char) /\ Len(s.back) \in Nat /\ s.at \in Nat /\ s.at >= 1
      /\ s.seek \in Int /\ s.row \in Int /\ s.col \in Int /\ s.lastCol \in Int /\ s \in Stream
      /\ Len(text) \in Nat
  BY DEF Counted, Stream, TextOK
<1> DEFINE r == PutBack(s, c)
<1>2. CASE c = EOF
  <2>1. r \in Stream /\ r.back = s.back /\ r.at = s.at
    BY <1>1, <1>2 DEF PutBack, Stream
  <2> HIDE DEF r
  <2> QED
    BY <1>1, <1>2, <2>1 DEF Counted, SeekOK, r
<1>3. CASE c # EOF
  <2> DEFINE row == IF c = NL THEN s.row - 1 ELSE s.row
             col == IF c = NL THEN s.lastCol ELSE s.col - 1
  <2>1. row \in Int /\ col \in Int /\ s.seek - 1 \in Int
    BY <1>1
  <2>2. r = [s EXCEPT !.seek = s.seek - 1, !.back = Append(s.back, c), !.row = row, !.col = col]
    BY <1>3 DEF PutBack
  <2>3. /\ Append(s.back, c) \in Seq(Char) /\ Len(Append(s.back, c)) = Len(s.back) + 1
        /\ Append(s.back, c)[Len(s.back) + 1] = c
        /\ \A i \in 1..Len(s.back) : Append(s.back, c)[i] = s.back[i]
    BY <1>1, AppendProperties
  <2> HIDE DEF row, col, r
  <2>4. r \in Stream /\ r.back = Append(s.back, c) /\ r.at = s.at /\ r.seek = s.seek - 1
    BY <1>1, <2>1, <2>2, <2>3 DEF Stream
  <2>5. SeekOK(text, r)
    BY <1>1, <2>3, <2>4 DEF Counted, SeekOK, Lag, Consumed
  <2>6. ~HasEnd(Append(s.back, c))
    BY <1>1, <1>3, <2>3 DEF Counted, HasEnd
  <2> QED
    BY <1>1, <2>4, <2>5, <2>6 DEF Counted, r
<1> QED
  BY <1>2, <1>3

\* The streams that the actions go on with.
LEMMA CountFacts ==
  ASSUME CountInv
  PROVE  /\ Later(stream) /\ Later(AfterRead(stream)) /\ Later(AfterSecond) /\ Later(AfterThird)
         /\ Later(AfterRead(AfterThird))
         /\ Later(PutBack(AfterRead(stream), Peeked(stream)))
         /\ Later(PutBack(AfterRead(AfterThird), Peeked(AfterThird)))
         /\ Later(WithoutThird) /\ Later(WithoutSecond)
         /\ mode # "idle" => Later(PutBack(stream, ch))
<1>1. TextOK(text) /\ Counted(stream) /\ stream.at \in Nat /\ Len(text) \in Nat /\ ch \in Char
  BY ReadCounts DEF CountInv, TextOK
<1>2. ASSUME NEW s, Later(s)
      PROVE  Later(AfterRead(s)) /\ Later(PutBack(AfterRead(s), Peeked(s)))
  <2>1. /\ Counted(s) /\ s.at >= stream.at /\ Counted(AfterRead(s)) /\ s.at \in Nat
        /\ AfterRead(s).at \in Nat /\ AfterRead(s).at >= s.at /\ Peeked(s) \in Char
        /\ Peeked(s) = EOF => s.at > Len(text)
    BY <1>1, <1>2, ReadCounts DEF Later
  <2>2. Peeked(s) = EOF => AfterRead(s).at > Len(text)
    BY <1>1, <2>1
  <2>3. /\ Counted(PutBack(AfterRead(s), Peeked(s)))
        /\ PutBack(AfterRead(s), Peeked(s)).at = AfterRead(s).at
    BY <1>1, <2>1, <2>2, PutBackCounts
  <2> QED
    BY <1>1, <2>1, <2>3 DEF Later
<1>3. Later(stream)
  BY <1>1 DEF Later
<1>4. Later(AfterSecond) /\ Later(AfterThird) /\ Later(PutBack(AfterThird, Third))
  BY <1>2, <1>3 DEF AfterSecond, AfterThird, Third
<1>5. Later(WithoutThird) /\ Later(WithoutSecond)
  <2>1. CASE Second = EOF
    BY <1>4, <2>1 DEF WithoutThird, WithoutSecond
  <2>2. CASE Second # EOF
    <3>1. Counted(WithoutThird) /\ WithoutThird.at >= stream.at /\ WithoutThird = PutBack(AfterThird, Third)
      BY <1>4, <2>2 DEF WithoutThird, Later
    <3>2. Second \in Char
      BY <1>1, ReadCounts DEF Second
    <3>3. Counted(PutBack(WithoutThird, Second)) /\ PutBack(WithoutThird, Second).at = WithoutThird.at
      BY <1>1, <2>2, <3>1, <3>2, PutBackCounts
    <3> QED
      BY <1>1, <2>2, <3>1, <3>3 DEF WithoutSecond, Later
  <2> QED
    BY <2>1, <2>2
<1>6. ASSUME mode # "idle" PROVE Later(PutBack(stream, ch))
  BY <1>1, <1>6, PutBackCounts DEF CountInv, Later
<1> QED
  BY <1>2, <1>3, <1>4, <1>5, <1>6

LEMMA ReturnCounts ==
  ASSUME CountInv, NEW k, NEW p, NEW s, Later(s), Return(k, p, s)
  PROVE  CountInv'
<1>1. /\ text' = text /\ stream' = s /\ mode' = "idle" /\ buffer' = buffer /\ ch' = ch
  BY DEF Return, local
<1>2. Counted(stream)'
  BY <1>1 DEF Later, Counted
<1>3. stream.at \in Nat /\ s.at \in Nat /\ s.at >= stream.at /\ Len(text) \in Nat
  BY ReadCounts DEF CountInv, Later, TextOK
<1> QED
  BY <1>1, <1>2, <1>3 DEF CountInv, HasEnd

LEMMA GotoCounts ==
  ASSUME CountInv, text' = text, NEW m, NEW c \in Char, NEW s, Later(s), Goto(m, c, s),
         c = EOF => s.at > Len(text),
         NEW b \in Seq(Char), buffer' = b, HasEnd(b) => s.at > Len(text)
  PROVE  CountInv'
<1>1. ch' = c /\ stream' = s
  BY DEF Goto
<1>2. Counted(stream)'
  BY <1>1 DEF Later, Counted
<1> QED
  BY <1>1, <1>2 DEF CountInv, HasEnd

LEMMA ReadsCounts ==
  ASSUME CountInv, text' = text, NEW m, NEW s, Later(s), Reads(m, s),
         NEW b \in Seq(Char), buffer' = b, HasEnd(b) => HasEnd(buffer) \/ s.at > Len(text)
  PROVE  CountInv'
<1> DEFINE r == AfterRead(s)
<1>1. TextOK(text) /\ Len(text) \in Nat /\ Counted(s) /\ s.at >= stream.at
  BY DEF CountInv, TextOK, Later
<1>2. /\ Counted(r) /\ s.at \in Nat /\ r.at \in Nat /\ r.at >= s.at /\ Peeked(s) \in Char
      /\ (Peeked(s) = EOF => s.at > Len(text)) /\ stream.at \in Nat
  BY <1>1, ReadCounts DEF CountInv
<1>3. HasEnd(buffer) => stream.at > Len(text)
  BY DEF CountInv
<1>4. Goto(m, Peeked(s), r)
  BY DEF Reads
<1> HIDE DEF r
<1>5. /\ Later(r) /\ (Peeked(s) = EOF => r.at > Len(text))
      /\ (HasEnd(b) => r.at > Len(text))
  BY <1>1, <1>2, <1>3 DEF Later
<1> QED
  BY <1>2, <1>4, <1>5, GotoCounts

LEMMA EndAdded ==
  ASSUME NEW b \in Seq(Char), NEW c \in Char
  PROVE  Append(b, c) \in Seq(Char) /\ (HasEnd(Append(b, c)) <=> HasEnd(b) \/ c = EOF)
<1> DEFINE w == Append(b, c)
<1>1. /\ w \in Seq(Char) /\ Len(w) = Len(b) + 1 /\ Len(b) \in Nat
      /\ (\A i \in 1..Len(b) : w[i] = b[i]) /\ w[Len(b) + 1] = c
  BY AppendProperties
<1> HIDE DEF w
<1>2. HasEnd(w) <=> HasEnd(b) \/ c = EOF
  BY <1>1 DEF HasEnd
<1> QED
  BY <1>1, <1>2 DEF w

\* What is returned, or read without a change of the buffer.
LEMMA PlainCounts ==
  ASSUME CountInv,
         \/ \E k, p : \E s : Later(s) /\ Return(k, p, s)
         \/ text' = text /\ buffer' = buffer /\ \E m, s : Later(s) /\ Reads(m, s)
         \/ text' = text /\ buffer' = buffer /\ mode # "idle" /\ \E m, s : Later(s) /\ Goto(m, ch, s)
  PROVE  CountInv'
<1>1. CASE \E k, p : \E s : Later(s) /\ Return(k, p, s)
  BY <1>1, ReturnCounts
<1>2. /\ buffer \in Seq(Char) /\ ch \in Char /\ (HasEnd(buffer) => stream.at > Len(text))
      /\ stream.at \in Nat /\ Len(text) \in Nat
  BY ReadCounts DEF CountInv, TextOK
<1>3. CASE text' = text /\ buffer' = buffer /\ \E m, s : Later(s) /\ Reads(m, s)
  BY <1>2, <1>3, ReadsCounts
<1>4. CASE text' = text /\ buffer' = buffer /\ mode # "idle" /\ \E m, s : Later(s) /\ Goto(m, ch, s)
  <2>1. PICK m, s : Later(s) /\ Goto(m, ch, s)
    BY <1>4
  <2>2. s.at \in Nat /\ s.at >= stream.at
    BY <2>1, ReadCounts DEF Later, CountInv
  <2>3. ch = EOF => stream.at > Len(text)
    BY <1>4 DEF CountInv
  <2>4. /\ ch = EOF => s.at > Len(text)
        /\ HasEnd(buffer) => s.at > Len(text)
    BY <1>2, <2>2, <2>3
  <2> QED
    BY <1>2, <1>4, <2>1, <2>4, GotoCounts
<1> QED
  BY <1>1, <1>3, <1>4

LEMMA CallCounts ==
  ASSUME CountInv, NEW divide, Call(divide)
  PROVE  CountInv'
<1>1. Reads("skip", stream) /\ text' = text /\ buffer' = << >>
  BY DEF Call
<1>2. << >> \in Seq(Char) /\ ~HasEnd(<< >>)
  BY DEF HasEnd
<1> QED
  BY <1>1, <1>2, CountFacts, ReadsCounts

LEMMA SkippingCounts ==
  ASSUME CountInv, Skipping
  PROVE  CountInv'
<1>1. CASE SkipSpace \/ SkipBlock \/ EndBlock \/ EndBlockAtEnd
  BY <1>1, CountFacts, PlainCounts DEF SkipSpace, SkipBlock, EndBlock, EndBlockAtEnd
<1>2. CASE LineComment
  BY <1>2, CountFacts, PlainCounts DEF LineComment, AtSlash
<1>3. CASE SkipLine
  BY <1>3, CountFacts, PlainCounts DEF SkipLine
<1>4. CASE BlockComment
  BY <1>4, CountFacts, PlainCounts DEF BlockComment
<1> QED
  BY <1>1, <1>2, <1>3, <1>4 DEF Skipping

LEMMA RegexCounts ==
  ASSUME CountInv, Regex
  PROVE  CountInv'
<1>0. /\ buffer \in Seq(Char) /\ ch \in Char /\ TextOK(text) /\ Len(text) \in Nat
      /\ stream.at \in Nat /\ Peeked(stream) \in Char /\ Counted(stream)
      /\ Peeked(stream) = EOF => stream.at > Len(text)
      /\ AfterRead(stream).at \in Nat /\ AfterRead(stream).at >= stream.at
      /\ mode # "idle" /\ ch = EOF => stream.at > Len(text)
      /\ HasEnd(buffer) => stream.at > Len(text)
  BY ReadCounts DEF CountInv, TextOK
<1>1. CASE DivideAtEnd \/ CloseRegex \/ RegexFlag
  BY <1>1, CountFacts, PlainCounts DEF DivideAtEnd, CloseRegex, RegexFlag
<1>2. CASE DivideOrRegex
  <2> DEFINE s == PutBack(AfterRead(stream), Following)
  <2>1. /\ text' = text /\ buffer' = buffer /\ mode # "idle"
        /\ Goto("token", ch, s) \/ Reads("regex", s)
    BY <1>2 DEF DivideOrRegex, AtSlash
  <2>2. Later(s)
    BY CountFacts DEF Following
  <2> HIDE DEF s
  <2> QED
    BY <2>1, <2>2, PlainCounts
<1>3. CASE EndRegex
  BY <1>3, CountFacts, PlainCounts DEF EndRegex
<1>4. CASE PlainInRegex \/ OpenClass
  <2>1. /\ text' = text /\ buffer' = Append(buffer, ch) /\ mode # "idle"
        /\ Reads("regex", stream) \/ Reads("class", stream)
    BY <1>4 DEF PlainInRegex, OpenClass
  <2>2. Append(buffer, ch) \in Seq(Char) /\ (HasEnd(Append(buffer, ch)) => stream.at > Len(text))
    BY <1>0, <2>1, EndAdded
  <2> QED
    BY <2>1, <2>2, CountFacts, ReadsCounts
<1>5. ASSUME mode # "idle", ch # EOF, NEW c \in Char, c = EOF => stream.at > Len(text)
      PROVE  buffer \o <<ch, c>> \in Seq(Char) /\ (HasEnd(buffer \o <<ch, c>>) => stream.at > Len(text))
  <2>1. buffer \o <<ch, c>> = Append(Append(buffer, ch), c)
    BY <1>0
  <2> QED
    BY <1>0, <1>5, <2>1, EndAdded
<1>6. CASE EscapeInRegex
  <2> DEFINE b == buffer \o <<ch, Peeked(stream)>>
             s == AfterRead(stream)
  <2>1. text' = text /\ buffer' = b /\ mode # "idle" /\ ch # EOF /\ Reads("regex", s)
    BY <1>6 DEF EscapeInRegex, EOF
  <2>2. b \in Seq(Char) /\ (HasEnd(b) => stream.at > Len(text))
    BY <1>0, <1>5, <2>1
  <2>3. HasEnd(b) => s.at > Len(text)
    BY <1>0, <2>2
  <2>4. Later(s)
    BY CountFacts
  <2> HIDE DEF b, s
  <2> QED
    BY <2>1, <2>2, <2>3, <2>4, ReadsCounts
<1>7. CASE CharInClass
  <2> DEFINE c == Peeked(stream)
             s == AfterRead(stream)
  <2>1. CASE ch = "back"
    <3>1. \/ Return("error", start, s)
          \/ /\ Reads("class", s) /\ text' = text /\ buffer' = buffer \o <<ch, c>>
             /\ mode # "idle" /\ ch # EOF
      BY <1>7, <2>1 DEF CharInClass, EOF
    <3>2. Later(s)
      BY CountFacts
    <3>3. CASE Return("error", start, s)
      BY <3>2, <3>3, PlainCounts
    <3>4. CASE /\ Reads("class", s) /\ text' = text /\ buffer' = buffer \o <<ch, c>>
               /\ mode # "idle" /\ ch # EOF
      <4>1. buffer \o <<ch, c>> \in Seq(Char) /\ (HasEnd(buffer \o <<ch, c>>) => stream.at > Len(text))
        BY <1>0, <1>5, <3>4
      <4>2. HasEnd(buffer \o <<ch, c>>) => s.at > Len(text)
        BY <1>0, <4>1
      <4> HIDE DEF c, s
      <4> QED
        BY <3>2, <3>4, <4>1, <4>2, ReadsCounts
    <3> QED
      BY <3>1, <3>3, <3>4
  <2>2. CASE ch # "back"
    <3>1. \/ Return("error", start, stream)
          \/ /\ Reads("class", stream) /\ text' = text /\ buffer' = buffer \o <<ch>>
             /\ mode # "idle" /\ ch # EOF
      BY <1>7, <2>2 DEF CharInClass
    <3>2. CASE Return("error", start, stream)
      BY <3>2, CountFacts, PlainCounts
    <3>3. CASE /\ Reads("class", stream) /\ text' = text /\ buffer' = buffer \o <<ch>>
               /\ mode # "idle" /\ ch # EOF
      <4>1. buffer \o <<ch>> = Append(buffer, ch)
        BY <1>0
      <4>2. buffer' = Append(buffer, ch) /\ Append(buffer, ch) \in Seq(Char)
            /\ (HasEnd(Append(buffer, ch)) => stream.at > Len(text))
        BY <1>0, <3>3, <4>1, EndAdded
      <4> QED
        BY <3>3, <4>2, CountFacts, ReadsCounts
    <3> QED
      BY <3>1, <3>2, <3>3
  <2> QED
    BY <2>1, <2>2
<1>8. CASE CloseClass
  <2>1. /\ Reads("regex", stream) /\ text' = text /\ buffer' = buffer \o <<ch, ch>>
        /\ mode # "idle" /\ ch # EOF
    BY <1>8 DEF CloseClass, EOF
  <2> QED
    BY <1>0, <1>5, <2>1, CountFacts, ReadsCounts
<1>9. CASE AbandonRegex
  <2> DEFINE s == IF ch = NL THEN PutBack(stream, NL) ELSE stream
  <2>1. Goto("undo", "/", s) /\ text' = text /\ buffer' = buffer /\ mode # "idle"
    BY <1>9 DEF AbandonRegex
  <2>2. Later(s)
    BY <2>1, CountFacts
  <2>3. s.at \in Nat /\ s.at >= stream.at
    BY <2>2, <1>0, ReadCounts DEF Later
  <2> HIDE DEF s
  <2>4. "/" \in Char /\ "/" # EOF
    BY DEF Char, EOF
  <2>5. HasEnd(buffer) => s.at > Len(text)
    BY <1>0, <2>3
  <2> QED
    BY <1>0, <2>1, <2>2, <2>4, <2>5, GotoCounts
<1>10. CASE UndoRegex
  <2>1. CASE buffer = << >>
    BY <1>10, <2>1, CountFacts, PlainCounts DEF UndoRegex
  <2>2. CASE buffer # << >>
    <3> DEFINE c == buffer[Len(buffer)]
               s == PutBack(stream, c)
               b == SubSeq(buffer, 1, Len(buffer) - 1)
    <3>1. text' = text /\ mode # "idle" /\ Goto("undo", ch, s) /\ buffer' = b
      BY <1>10, <2>2 DEF UndoRegex
    <3>2. Len(buffer) \in Nat \ {0}
      BY <1>0, <2>2, EmptySeq
    <3>3. /\ b \in Seq(Char) /\ Len(b) = Len(buffer) - 1
          /\ \A i \in 1..Len(b) : b[i] = buffer[i]
      BY <1>0, <2>2, FrontIs
    <3> HIDE DEF b
    <3>4. HasEnd(b) => HasEnd(buffer)
      BY <3>2, <3>3 DEF HasEnd
    <3>5. c \in Char /\ (c = EOF => HasEnd(buffer))
      BY <1>0, <3>2 DEF HasEnd
    <3> HIDE DEF c
    <3>6. Counted(s) /\ s.at = stream.at
      BY <1>0, <3>5, PutBackCounts
    <3>7. Later(s) /\ (ch = EOF => s.at > Len(text)) /\ (HasEnd(b) => s.at > Len(text))
      BY <1>0, <3>1, <3>4, <3>6 DEF Later
    <3> HIDE DEF s
    <3> QED
      BY <1>0, <3>1, <3>3, <3>7, GotoCounts
  <2> QED
    BY <2>1, <2>2
<1> QED
  BY <1>1, <1>2, <1>3, <1>4, <1>6, <1>7, <1>8, <1>9, <1>10 DEF Regex

LEMMA LexemeCounts ==
  ASSUME CountInv, Lexeme
  PROVE  CountInv'
<1>1. CASE AtEnd \/ EndString
  BY <1>1, CountFacts, PlainCounts DEF AtEnd, EndString
<1>2. CASE StartWord \/ CharInWord
  <2>1. /\ text' = text /\ mode # "idle" /\ Reads("word", stream)
        /\ buffer' = <<ch>> \/ buffer' = Append(buffer, ch)
    BY <1>2 DEF StartWord, CharInWord, AtToken
  <2>2. << >> \in Seq(Char) /\ ~HasEnd(<< >>) /\ <<ch>> = Append(<< >>, ch)
    BY DEF HasEnd
  <2>3. ch \in Char /\ buffer \in Seq(Char) /\ (ch = EOF => stream.at > Len(text))
    BY <2>1 DEF CountInv
  <2>4. /\ <<ch>> \in Seq(Char) /\ (HasEnd(<<ch>>) => stream.at > Len(text))
        /\ Append(buffer, ch) \in Seq(Char)
        /\ HasEnd(Append(buffer, ch)) => HasEnd(buffer) \/ stream.at > Len(text)
    BY <2>2, <2>3, EndAdded
  <2> QED
    BY <2>1, <2>4, CountFacts, ReadsCounts
<1>3. CASE EndWord \/ Octal \/ EndRadix \/ EndNumber
  <2>1. mode # "idle" /\ \E k, p : Return(k, p, PutBack(stream, ch))
    BY <1>3 DEF EndWord, Octal, EndRadix, EndNumber
  <2> QED
    BY <2>1, CountFacts, PlainCounts
<1>4. CASE ThreeSymbol
  BY <1>4, CountFacts, PlainCounts DEF ThreeSymbol
<1>5. CASE TwoSymbol \/ OneSymbol \/ Illegal
  BY <1>5, CountFacts, PlainCounts DEF TwoSymbol, OneSymbol, Illegal
<1>6. CASE StartString \/ StartNumber
  BY <1>6, CountFacts, PlainCounts DEF StartString, StartNumber
<1>7. CASE CharInString
  <2>1. /\ text' = text /\ buffer' = buffer
        /\ \/ Peeked(stream) = EOF /\ Goto("string", EOF, AfterRead(stream))
           \/ Reads("string", AfterRead(stream)) \/ Reads("string", stream)
    BY <1>7 DEF CharInString
  <2>2. CASE Reads("string", AfterRead(stream)) \/ Reads("string", stream)
    BY <2>1, <2>2, CountFacts, PlainCounts
  <2>3. CASE Peeked(stream) = EOF /\ Goto("string", EOF, AfterRead(stream))
    <3> DEFINE s == AfterRead(stream)
    <3>1. /\ stream.at \in Nat /\ s.at \in Nat /\ s.at >= stream.at /\ stream.at > Len(text)
          /\ Len(text) \in Nat /\ buffer \in Seq(Char)
      BY <2>3, ReadCounts DEF CountInv, TextOK
    <3>2. Later(s) /\ EOF \in Char
      BY CountFacts DEF Char
    <3> HIDE DEF s
    <3>3. s.at > Len(text)
      BY <3>1
    <3>4. Goto("string", EOF, s)
      BY <2>3 DEF s
    <3> QED
      BY <2>1, <3>1, <3>2, <3>3, <3>4, GotoCounts
  <2> QED
    BY <2>1, <2>2, <2>3
<1>8. CASE Radix
  BY <1>8, CountFacts, PlainCounts DEF Radix
<1>9. CASE DigitInRadix
  BY <1>9, CountFacts, PlainCounts DEF DigitInRadix
<1>10. CASE CharInNumber
  BY <1>10, CountFacts, PlainCounts DEF CharInNumber
<1> QED
  BY <1>1, <1>2, <1>3, <1>4, <1>5, <1>6, <1>7, <1>8, <1>9, <1>10 DEF Lexeme

LEMMA CountIsInvariant == Spec => []CountInv
<1>1. Init => CountInv
  <2> SUFFICES ASSUME Init PROVE CountInv
    OBVIOUS
  <2>1. CoreInv
    BY TextsOK, CoreInit
  <2>2. /\ stream = [at |-> 1, back |-> << >>, seek |-> 0, row |-> 0, col |-> 0, lastCol |-> 0]
        /\ mode = "idle" /\ buffer = << >>
    BY DEF Init
  <2>3. stream.at = 1 /\ stream.seek = 0 /\ stream.back = << >>
    BY ONLY <2>2
  <2>4. stream \in Stream
    BY <2>1 DEF CoreInv, Good
  <2>5. Consumed(stream) = 0
    BY <2>2 DEF Consumed
  <2> QED
    BY <2>1, <2>2, <2>3, <2>4, <2>5 DEF CoreInv, CountInv, Counted, SeekOK, Lag, HasEnd
<1>2. CountInv /\ [Next]_vars => CountInv'
  <2> SUFFICES ASSUME CountInv, [Next]_vars PROVE CountInv'
    OBVIOUS
  <2>1. CASE UNCHANGED vars
    BY <2>1 DEF CountInv, Counted, HasEnd, vars, local
  <2>2. CASE Peek \/ Advance
    BY <2>2, CallCounts DEF Peek, Advance
  <2>3. CASE Step
    BY <2>3, SkippingCounts, RegexCounts, LexemeCounts DEF Step
  <2> QED
    BY <2>1, <2>2, <2>3 DEF Next
<1> QED
  BY <1>1, <1>2, PTL DEF Spec

\* The offset of tokenizer.cc, which peek takes to mean that nothing has been read when
\* it is 0, is the number of characters read as long as some text is left, and is not 0
\* behind the first token of a text of more than three characters without escapes: the
\* end of the text is subtracted from it at most twice.
THEOREM PeekingIsStable == Spec => []PeekIsStable
<1>1. CoreInv /\ Init => AheadInv /\ SeekInv
  <2> SUFFICES ASSUME CoreInv, Init PROVE AheadInv /\ SeekInv
    OBVIOUS
  <2>1. /\ stream = [at |-> 1, back |-> << >>, seek |-> 0, row |-> 0, col |-> 0, lastCol |-> 0]
        /\ mode = "idle" /\ token.kind = "none"
    BY DEF Init, NoToken
  <2>2. Consumed(stream) = 0 /\ stream.seek = 0
    BY <2>1 DEF Consumed
  <2>3. Lag(stream) = 0
    BY <2>2 DEF Lag
  <2> QED
    BY <2>1, <2>3 DEF AheadInv, SeekInv, SeekOK, LagBetween, Started, Regexes
<1>2. ASSUME CountInv, ClassesClosed => CoreInv /\ SeekInv
      PROVE  PeekIsStable
  <2> SUFFICES ASSUME mode = "idle", token.kind # "none"
               PROVE  /\ stream.at <= Len(text) => stream.seek = Consumed(stream)
                      /\ Len(text) > 3 /\ ClassesClosed /\ NoBack(text) => stream.seek # 0
    BY DEF PeekIsStable, ClassesClosed, NoBack
  <2>1. stream.at <= Len(text) => stream.seek = Consumed(stream)
    <3>1. stream \in Stream /\ SeekOK(text, stream)
      BY <1>2 DEF CountInv, Counted
    <3>2. stream.seek \in Int /\ Consumed(stream) \in Int
      BY <3>1 DEF Stream, Consumed
    <3> QED
      BY <3>1, <3>2 DEF SeekOK, Lag
  <2>2. ASSUME Len(text) > 3, ClassesClosed, NoBack(text) PROVE stream.seek # 0
    <3>1. /\ Consumed(stream) \in 0..Len(text) /\ Len(text) \in Nat /\ stream.seek \in Int
      BY <1>2, <2>2, CoreFacts DEF Good, Stream
    <3>2. LagBetween(text, stream) /\ Consumed(stream) >= 1
      BY <1>2, <2>2, <3>1 DEF SeekInv
    <3> QED
      BY <2>2, <3>1, <3>2 DEF LagBetween, Lag
  <2> QED
    BY <2>1, <2>2
<1>3. CoreInv /\ AheadInv /\ [Next]_vars => AheadInv'
  BY AheadStep
<1>4. CoreInv /\ AheadInv /\ SeekInv /\ [Next]_vars /\ [~GivesUpClass]_vars => SeekInv'
  BY SeekStep
<1>5. Spec /\ [][~GivesUpClass]_vars => [](CoreInv /\ SeekInv)
  BY <1>1, <1>3, <1>4, CoreIsInvariant, PTL DEF Spec
<1>6. CountInv /\ (ClassesClosed => CoreInv /\ SeekInv) => PeekIsStable
  BY <1>2
<1> QED
  BY <1>5, <1>6, CountIsInvariant, OnlyClassesAreGivenUp, PTL
-------------------------------------------------------------------------------
\* A comment from i to j, and places a to b of the text with nothing but space and
\* whole comments between them.
Comment(t, i, j) ==
  \/ /\ t[i] = "/" /\ t[i + 1] = "/" /\ t[j] = NL
     /\ \A k \in i..j - 1 : t[k] # NL
  \/ /\ t[i] = "/" /\ t[i + 1] = "*" /\ j >= i + 3
     /\ t[j - 1] = "*" /\ t[j] = "/"
     /\ \A k \in i + 3..j - 1 : ~(t[k - 1] = "*" /\ t[k] = "/")

Covered(t, a, b) ==
  /\ 0 <= a /\ a <= b /\ b <= Len(t)
  /\ \A k \in a + 1..b :
       t[k] \in Spaces \/ \E i \in a + 1..k, j \in k..b : Comment(t, i, j)

\* The comments that are being skipped, when n characters are read and c was the last.
LineFrom(t, a, c, n) ==
  \E i \in a + 1..n - 1 :
    /\ Covered(t, a, i - 1) /\ t[i] = "/" /\ t[i + 1] = "/"
    /\ \A k \in i..(IF c = NL THEN n - 1 ELSE n) : t[k] # NL

BlockFrom(t, a, c, last, n) ==
  \E i \in a + 1..n - 1 :
    /\ Covered(t, a, i - 1) /\ t[i] = "/" /\ t[i + 1] = "*"
    /\ c # EOF =>
         /\ n >= i + 2 /\ last = IF n = i + 2 THEN c ELSE t[n - 1]
         /\ \A k \in i + 3..n - 1 : ~(t[k - 1] = "*" /\ t[k] = "/")

CoverInv ==
  /\ token.to \in 0..Len(text)
  /\ mode = "idle" =>
       /\ token.to = Consumed(stream)
       /\ token.kind \notin {"none", "error"} =>
            token.begin \in Int /\ token.from \in Int /\ Covered(text, token.begin, token.from)
  /\ mode = "skip" =>
       Covered(text, token.to,
               IF ch \in Spaces \cup {EOF} THEN Consumed(stream) ELSE Consumed(stream) - 1)
  /\ mode = "line" => LineFrom(text, token.to, ch, Consumed(stream))
  /\ mode = "block" => BlockFrom(text, token.to, ch, mark, Consumed(stream))
  /\ mode = "token" => Covered(text, token.to, Consumed(stream) - 1)
  /\ mode \in Started \cup {"undo"} =>
       start.from \in Int /\ Covered(text, token.to, start.from - 1)

LEMMA CoveredGrows ==
  ASSUME NEW t, NEW a \in Int, NEW b \in Int, NEW c \in Int, Covered(t, a, b), Covered(t, b, c)
  PROVE  Covered(t, a, c)
<1>1. 0 <= a /\ a <= b /\ b <= c /\ c <= Len(t)
  BY DEF Covered
<1>2. ASSUME NEW k \in a + 1..c, t[k] \notin Spaces
      PROVE  \E i \in a + 1..k, j \in k..c : Comment(t, i, j)
  <2>1. CASE k <= b
    <3>1. PICK i \in a + 1..k, j \in k..b : Comment(t, i, j)
      BY <1>2, <2>1 DEF Covered
    <3> QED
      BY <1>1, <3>1
  <2>2. CASE k > b
    <3>1. PICK i \in b + 1..k, j \in k..c : Comment(t, i, j)
      BY <1>2, <2>2 DEF Covered
    <3> QED
      BY <1>1, <3>1
  <2> QED
    BY <2>1, <2>2
<1> QED
  BY <1>1, <1>2 DEF Covered

LEMMA CoveredNothing ==
  ASSUME NEW t, NEW a \in 0..Len(t)
  PROVE  Covered(t, a, a)
BY DEF Covered

LEMMA CoveredSpace ==
  ASSUME NEW t, Len(t) \in Nat, NEW a \in 0..Len(t) - 1, t[a + 1] \in Spaces
  PROVE  Covered(t, a, a + 1)
BY DEF Covered

LEMMA CoveredComment ==
  ASSUME NEW t, Len(t) \in Nat, NEW i \in 1..Len(t), NEW j \in 1..Len(t), i <= j, Comment(t, i, j)
  PROVE  Covered(t, i - 1, j)
<1>1. ASSUME NEW k \in i..j
      PROVE  \E a \in i..k, b \in k..j : Comment(t, a, b)
  BY <1>1
<1> QED
  BY <1>1 DEF Covered

-------------------------------------------------------------------------------
LEMMA ReturnCovers ==
  ASSUME TextOK(text), token.to \in 0..Len(text), NEW k, NEW p, NEW s, Good(text, s), Return(k, p, s),
         k # "error" => p.from \in Int /\ Covered(text, token.to, p.from - 1)
  PROVE  CoverInv'
<1>1. /\ text' = text /\ stream' = s /\ mode' = "idle" /\ token'.kind = k
      /\ token'.begin = token.to /\ token'.from = p.from - 1 /\ token'.to = Consumed(s)
  BY DEF Return
<1>2. Consumed(s) \in 0..Len(text)
  BY PeekedIs
<1> QED
  BY <1>1, <1>2 DEF CoverInv, Started

LEMMA SkipCovers ==
  ASSUME TextOK(text), text' = text, token' = token, token.to \in 0..Len(text), NEW s, Good(text, s),
         Reads("skip", s), Covered(text, token.to, Consumed(s))
  PROVE  CoverInv'
<1> DEFINE n == Consumed(s)
<1>1. mode' = "skip" /\ ch' = Peeked(s) /\ stream' = AfterRead(s)
  BY DEF Reads, Goto
<1>2. /\ n \in 0..Len(text) /\ Len(text) \in Nat
      /\ Peeked(s) = At(text, n + 1)
      /\ Peeked(s) = EOF <=> n = Len(text)
      /\ Consumed(AfterRead(s)) = Beyond(text, n)
  BY PeekedIs, AfterReadIs
<1> HIDE DEF n
<1>3. CASE Peeked(s) = EOF
  BY <1>1, <1>2, <1>3 DEF CoverInv, Started, Beyond, n
<1>4. CASE Peeked(s) # EOF
  <2>1. Consumed(stream') = n + 1 /\ ch' = text[n + 1]
    BY <1>1, <1>2, <1>4 DEF Beyond, At
  <2>2. CASE ch' \in Spaces
    <3>0. n \in 0..Len(text) - 1
      BY <1>2, <1>4
    <3>1. Covered(text, n, n + 1)
      BY <1>2, <2>1, <2>2, <3>0, CoveredSpace
    <3>2. Covered(text, token.to, n + 1)
      BY <1>2, <3>1, CoveredGrows DEF n
    <3> QED
      BY <1>1, <2>1, <2>2, <3>2 DEF CoverInv, Started
  <2>3. CASE ch' \notin Spaces
    <3>1. Consumed(stream') - 1 = n
      BY <1>2, <2>1
    <3>2. Covered(text, token.to, Consumed(stream') - 1)
      BY <3>1 DEF n
    <3> QED
      BY <1>1, <1>4, <2>3, <3>2 DEF CoverInv, Started
  <2> QED
    BY <2>2, <2>3
<1> QED
  BY <1>3, <1>4

LEMMA StartedCovers ==
  ASSUME text' = text, token' = token, token.to \in 0..Len(text),
         mode' \in Started \cup {"undo"}, start'.from \in Int, Covered(text, token.to, start'.from - 1)
  PROVE  CoverInv'
BY DEF CoverInv, Started

\* In front of the character at which a token begins.
LEMMA CoverFacts ==
  ASSUME CoreInv, CoverInv
  PROVE  /\ token.to \in 0..Len(text)
         /\ mode = "skip" /\ ch \in Spaces \cup {EOF} => Covered(text, token.to, Consumed(stream))
         /\ (AtToken \/ AtSlash) /\ ch # EOF => Covered(text, token.to, Consumed(stream) - 1)
         /\ mode \in Started \cup {"undo"} =>
              start.from \in Int /\ Covered(text, token.to, start.from - 1)
<1>1. mode = "token" => ch = "/"
  BY DEF CoreInv
<1> QED
  BY <1>1 DEF CoverInv, AtToken, AtSlash, Spaces, EOF, NL

LEMMA SkippingCovers ==
  ASSUME CoreInv, CoverInv, Call(TRUE) \/ Call(FALSE) \/ Skipping
  PROVE  CoverInv'
<1> DEFINE n == Consumed(stream)
           a == token.to
<1>0. /\ TextOK(text) /\ Good(text, stream) /\ Good(text, AfterRead(stream)) /\ Len(text) \in Nat
      /\ n \in 0..Len(text) /\ a \in 0..Len(text)
      /\ Consumed(AfterRead(stream)) = Beyond(text, n)
      /\ Peeked(stream) = At(text, n + 1)
      /\ Peeked(stream) = EOF <=> n = Len(text)
  BY CoreFacts DEF CoverInv
<1>1. ASSUME NEW divide, Call(divide) PROVE CoverInv'
  <2>1. mode = "idle" /\ Reads("skip", stream) /\ text' = text /\ token' = token
    BY <1>1 DEF Call
  <2>2. Covered(text, a, n)
    BY <1>0, <2>1, CoveredNothing DEF CoverInv
  <2> QED
    BY <1>0, <2>1, <2>2, SkipCovers
<1>2. ASSUME SkipSpace PROVE CoverInv'
  <2>1. mode = "skip" /\ ch \in Spaces /\ Reads("skip", stream) /\ text' = text /\ token' = token
    BY <1>2 DEF SkipSpace
  <2> QED
    BY <1>0, <2>1, SkipCovers, CoverFacts
<1>3. ASSUME LineComment PROVE CoverInv'
  <2>1. /\ AtSlash /\ mode = "skip" /\ ch = "/" /\ Peeked(stream) = "/"
        /\ Goto("line", ch, AfterRead(stream)) /\ text' = text /\ token' = token
    BY <1>3 DEF LineComment, AtSlash, Following
  <2>2. n \in 1..Len(text) /\ text[n] = "/" /\ ch # EOF /\ ch # NL
    BY <2>1 DEF CoreInv, LastRead, EOF, NL
  <2>3. n < Len(text) /\ text[n + 1] = "/" /\ Consumed(AfterRead(stream)) = n + 1
    BY <1>0, <2>1 DEF Beyond, At, EOF
  <2>4. Covered(text, a, n - 1)
    BY <2>1, <2>2, CoverFacts
  <2>5. a <= n - 1
    BY <2>4 DEF Covered
  <2> HIDE DEF n, a
  <2>6. n \in a + 1..n + 1 - 1 /\ \A k \in n..n + 1 : text[k] # NL
    <3>1. \A k \in n..n + 1 : k = n \/ k = n + 1
      BY <1>0
    <3> QED
      BY <1>0, <2>2, <2>3, <2>5, <3>1 DEF NL
  <2>7. LineFrom(text, a, ch, n + 1)
    BY <2>2, <2>3, <2>4, <2>6 DEF LineFrom
  <2>8. mode' = "line" /\ ch' = ch /\ Consumed(stream') = n + 1
    BY <2>1, <2>3 DEF Goto
  <2> QED
    BY <1>0, <2>1, <2>7, <2>8 DEF CoverInv, Started, a
<1>4. ASSUME SkipLine PROVE CoverInv'
  <2>1. mode = "line" /\ text' = text /\ token' = token /\ LastRead(text, ch, n)
    BY <1>4 DEF SkipLine, CoreInv
  <2>2. PICK i \in a + 1..n - 1 :
          /\ Covered(text, a, i - 1) /\ text[i] = "/" /\ text[i + 1] = "/"
          /\ \A k \in i..(IF ch = NL THEN n - 1 ELSE n) : text[k] # NL
    BY <2>1 DEF CoverInv, LineFrom
  <2>3. CASE ch = NL
    <3>1. Goto("skip", ch, stream)
      BY <1>4, <2>3 DEF SkipLine
    <3>2. text[n] = NL /\ n \in 1..Len(text)
      BY <2>1, <2>3 DEF LastRead, NL, EOF
    <3> HIDE DEF n, a
    <3>3. Comment(text, i, n)
      BY <1>0, <2>2, <2>3, <3>2 DEF Comment
    <3>4. i - 1 \in Int /\ n \in Int /\ a \in Int /\ i \in 1..Len(text) /\ n \in 1..Len(text) /\ i <= n
      BY <1>0, <3>2
    <3>5. Covered(text, i - 1, n)
      BY <1>0, <3>3, <3>4, CoveredComment
    <3>6. Covered(text, a, n)
      BY <2>2, <3>4, <3>5, CoveredGrows
    <3>7. mode' = "skip" /\ ch' = NL /\ Consumed(stream') = n
      BY <2>3, <3>1 DEF Goto, n
    <3> QED
      BY <1>0, <2>1, <3>6, <3>7 DEF CoverInv, Started, Spaces, a
  <2>4. CASE ch # NL
    <3>1. Reads("line", stream)
      BY <1>4, <2>4 DEF SkipLine
    <3>2. mode' = "line" /\ ch' = Peeked(stream) /\ Consumed(stream') = Beyond(text, n)
      BY <1>0, <3>1 DEF Reads, Goto
    <3> HIDE DEF n, a
    <3> DEFINE m == Beyond(text, n)
    <3>3. i \in a + 1..m - 1
      BY <1>0 DEF Beyond
    <3>4. ASSUME NEW k \in i..(IF ch' = NL THEN m - 1 ELSE m) PROVE text[k] # NL
      <4>1. CASE k <= n
        BY <1>0, <2>2, <2>4, <4>1
      <4>2. CASE k > n
        BY <1>0, <3>2, <3>4, <4>2 DEF Beyond, At
      <4> QED
        BY <1>0, <4>1, <4>2
    <3>5. LineFrom(text, a, ch', m)
      BY <2>2, <3>3, <3>4 DEF LineFrom
    <3> QED
      BY <1>0, <2>1, <3>2, <3>5 DEF CoverInv, Started, a
  <2> QED
    BY <2>3, <2>4
<1>5. ASSUME BlockComment PROVE CoverInv'
  <2>1. /\ AtSlash /\ mode = "skip" /\ ch = "/" /\ Peeked(stream) = "*" /\ mark' = ch'
        /\ Reads("block", AfterRead(stream)) /\ text' = text /\ token' = token
    BY <1>5 DEF BlockComment, AtSlash, Following
  <2>2. n \in 1..Len(text) /\ text[n] = "/" /\ ch # EOF
    BY <2>1 DEF CoreInv, LastRead, EOF
  <2>3. n < Len(text) /\ text[n + 1] = "*" /\ Consumed(AfterRead(stream)) = n + 1
    BY <1>0, <2>1 DEF Beyond, At, EOF
  <2>4. Covered(text, a, n - 1)
    BY <2>1, <2>2, CoverFacts
  <2>5. a <= n - 1
    BY <2>4 DEF Covered
  <2>6. /\ mode' = "block" /\ ch' = Peeked(AfterRead(stream))
        /\ Consumed(stream') = Beyond(text, n + 1)
        /\ ch' = EOF <=> n + 1 = Len(text)
    BY <1>0, <2>1, <2>3, PeekedIs, AfterReadIs DEF Reads, Goto
  <2> HIDE DEF n, a
  <2>7. ch' # EOF => Consumed(stream') = n + 2
    BY <1>0, <2>3, <2>6 DEF Beyond
  <2>8. n \in a + 1..Consumed(stream') - 1
    BY <1>0, <2>3, <2>5, <2>6 DEF Beyond
  <2>9. \A k \in n + 3..n + 2 - 1 : FALSE
    BY <1>0
  <2>10. BlockFrom(text, a, ch', mark', Consumed(stream'))
    BY <1>0, <2>1, <2>2, <2>3, <2>4, <2>7, <2>8, <2>9 DEF BlockFrom
  <2> QED
    BY <1>0, <2>1, <2>6, <2>10 DEF CoverInv, Started, a
<1>6. ASSUME mode = "block"
      PROVE  /\ LastRead(text, ch, n)
             /\ \E i \in a + 1..n - 1 :
                  /\ Covered(text, a, i - 1) /\ text[i] = "/" /\ text[i + 1] = "*"
                  /\ ch # EOF =>
                       /\ n >= i + 2 /\ mark = IF n = i + 2 THEN ch ELSE text[n - 1]
                       /\ \A k \in i + 3..n - 1 : ~(text[k - 1] = "*" /\ text[k] = "/")
  BY <1>6 DEF CoreInv, CoverInv, BlockFrom
<1>7. ASSUME SkipBlock PROVE CoverInv'
  <2>1. /\ mode = "block" /\ text' = text /\ token' = token /\ mark' = ch /\ Reads("block", stream)
        /\ ch # EOF /\ ~(ch = "/" /\ mark = "*")
    BY <1>7 DEF SkipBlock, BlockEnds
  <2>2. PICK i \in a + 1..n - 1 :
          /\ Covered(text, a, i - 1) /\ text[i] = "/" /\ text[i + 1] = "*"
          /\ n >= i + 2 /\ mark = IF n = i + 2 THEN ch ELSE text[n - 1]
          /\ \A k \in i + 3..n - 1 : ~(text[k - 1] = "*" /\ text[k] = "/")
    BY <1>6, <2>1
  <2>3. n \in 1..Len(text) /\ ch = text[n]
    BY <1>6, <2>1 DEF LastRead
  <2>4. mode' = "block" /\ ch' = Peeked(stream) /\ Consumed(stream') = Beyond(text, n)
    BY <1>0, <2>1 DEF Reads, Goto
  <2> HIDE DEF n, a
  <2> DEFINE m == Beyond(text, n)
  <2>5. i \in a + 1..m - 1
    BY <1>0 DEF Beyond
  <2>6. ASSUME ch' # EOF
        PROVE  /\ m >= i + 2 /\ mark' = (IF m = i + 2 THEN ch' ELSE text[m - 1])
               /\ \A k \in i + 3..m - 1 : ~(text[k - 1] = "*" /\ text[k] = "/")
    <3>1. m = n + 1 /\ m - 1 = n /\ m > i + 2
      BY <1>0, <2>2, <2>4, <2>6 DEF Beyond
    <3>2. ASSUME NEW k \in i + 3..n PROVE ~(text[k - 1] = "*" /\ text[k] = "/")
      <4>1. CASE k = n
        <5>1. mark = text[n - 1]
          BY <1>0, <2>2, <4>1
        <5> QED
          BY <2>1, <2>3, <4>1, <5>1
      <4>2. CASE k < n
        BY <1>0, <2>2, <4>2
      <4> QED
        BY <1>0, <4>1, <4>2
    <3> QED
      BY <1>0, <2>1, <2>3, <3>1, <3>2
  <2>7. BlockFrom(text, a, ch', mark', m)
    BY <2>2, <2>5, <2>6 DEF BlockFrom
  <2> QED
    BY <1>0, <2>1, <2>4, <2>7 DEF CoverInv, Started, a
<1>8. ASSUME EndBlock PROVE CoverInv'
  <2>1. /\ mode = "block" /\ text' = text /\ token' = token /\ Reads("skip", stream)
        /\ Peeked(stream) # EOF
        /\ (ch = "/" /\ mark = "*") \/ ch = EOF
    BY <1>8 DEF EndBlock, BlockEnds
  <2>2. ch # EOF
    BY <1>0, <1>6, <2>1 DEF LastRead, TextOK
  <2>3. PICK i \in a + 1..n - 1 :
          /\ Covered(text, a, i - 1) /\ text[i] = "/" /\ text[i + 1] = "*"
          /\ n >= i + 2 /\ mark = IF n = i + 2 THEN ch ELSE text[n - 1]
          /\ \A k \in i + 3..n - 1 : ~(text[k - 1] = "*" /\ text[k] = "/")
    BY <1>6, <2>1, <2>2
  <2>4. n \in 1..Len(text) /\ ch = text[n]
    BY <1>6, <2>1, <2>2 DEF LastRead
  <2> HIDE DEF n, a
  <2>5. n >= i + 3 /\ text[n - 1] = "*" /\ text[n] = "/"
    BY <1>0, <2>1, <2>2, <2>3, <2>4
  <2>6. Comment(text, i, n)
    BY <2>3, <2>5 DEF Comment
  <2>7. i - 1 \in Int /\ n \in Int /\ a \in Int /\ i \in 1..Len(text) /\ n \in 1..Len(text) /\ i <= n
    BY <1>0, <2>4
  <2>8. Covered(text, a, n)
    BY <1>0, <2>3, <2>6, <2>7, CoveredComment, CoveredGrows
  <2> QED
    BY <1>0, <2>1, <2>8, SkipCovers DEF n, a
<1>9. ASSUME EndBlockAtEnd PROVE CoverInv'
  BY <1>0, <1>9, ReturnCovers DEF EndBlockAtEnd
<1> QED
  BY <1>1, <1>2, <1>3, <1>4, <1>5, <1>7, <1>8, <1>9 DEF Skipping
LEMMA RegexCovers ==
  ASSUME CoreInv, CoverInv, Regex
  PROVE  CoverInv'
<1> DEFINE n == Consumed(stream)
<1>0. /\ TextOK(text) /\ Good(text, stream) /\ Good(text, AfterRead(stream)) /\ Len(text) \in Nat
      /\ n \in 0..Len(text) /\ token.to \in 0..Len(text)
      /\ mode \notin {"idle", "undo"} => Good(text, PutBack(stream, ch))
  BY CoreFacts, CoverFacts
<1>1. ASSUME DivideAtEnd PROVE CoverInv'
  <2>1. Return("symbol", Place(stream), AfterRead(stream)) /\ AtSlash /\ ch # EOF
    BY <1>1 DEF DivideAtEnd, AtSlash, EOF
  <2>2. Covered(text, token.to, n - 1) /\ Place(stream).from = n /\ n \in Int
    BY <1>0, <2>1, CoverFacts DEF Place
  <2> QED
    BY <1>0, <2>1, <2>2, ReturnCovers
<1>2. ASSUME DivideOrRegex PROVE CoverInv'
  <2> DEFINE s == PutBack(AfterRead(stream), Peeked(stream))
  <2>1. /\ AtSlash /\ ch # EOF /\ text' = text /\ token' = token
        /\ \/ Goto("token", ch, s)
           \/ Reads("regex", s) /\ start' = Place(s)
    BY <1>2 DEF DivideOrRegex, AtSlash, Following, EOF
  <2>2. Covered(text, token.to, n - 1) /\ Consumed(s) = n
    BY <2>1, CoreFacts, CoverFacts
  <2> HIDE DEF s
  <2>3. CASE Goto("token", ch, s)
    <3>1. mode' = "token" /\ Consumed(stream') = n
      BY <2>2, <2>3 DEF Goto
    <3> QED
      BY <1>0, <2>1, <2>2, <3>1 DEF CoverInv, Started
  <2>4. CASE Reads("regex", s) /\ start' = Place(s)
    <3>1. mode' = "regex" /\ start'.from = n
      BY <2>2, <2>4 DEF Reads, Goto, Place
    <3> QED
      BY <1>0, <2>1, <2>2, <3>1, StartedCovers DEF Started
  <2> QED
    BY <2>1, <2>3, <2>4
<1>3. ASSUME mode \in Started \cup {"undo"}, mode' \in Started \cup {"undo"}, start' = start,
             text' = text, token' = token
      PROVE  CoverInv'
  BY <1>0, <1>3, CoverFacts, StartedCovers
<1>4. ASSUME PlainInRegex \/ EscapeInRegex \/ OpenClass \/ CloseClass \/ AbandonRegex \/ CloseRegex
               \/ RegexFlag
      PROVE  CoverInv'
  <2>1. /\ mode \in Started /\ mode' \in Started \cup {"undo"} /\ start' = start
        /\ text' = text /\ token' = token
    BY <1>4 DEF PlainInRegex, EscapeInRegex, OpenClass, CloseClass, AbandonRegex, CloseRegex,
                RegexFlag, Started, Reads, Goto
  <2> QED
    BY <1>3, <2>1
<1>5. ASSUME CharInClass PROVE CoverInv'
  <2> DEFINE s == IF ch = "back" THEN AfterRead(stream) ELSE stream
  <2>1. /\ mode = "class"
        /\ \/ Return("error", start, s)
           \/ Reads("class", s) /\ text' = text /\ start' = start /\ token' = token
    BY <1>5 DEF CharInClass
  <2>2. Good(text, s)
    BY <1>0
  <2> HIDE DEF s
  <2> QED
    BY <1>0, <1>3, <2>1, <2>2, ReturnCovers DEF Started, Reads, Goto
<1>6. ASSUME UndoRegex PROVE CoverInv'
  <2>1. /\ mode = "undo" /\ text' = text /\ start' = start /\ token' = token
        /\ InUndo(text, buffer, start.from, n)
    BY <1>6 DEF UndoRegex, CoreInv
  <2>2. CASE buffer = << >>
    <3>1. mode' = "token" /\ stream' = stream
      BY <1>6, <2>2 DEF UndoRegex, Goto
    <3>2. n = start.from
      <4>1. Len(buffer) = 0 /\ start.from \in 1..Len(text)
        BY <2>1, <2>2 DEF InUndo, Contents
      <4>2. start.from + Len(buffer) = start.from
        BY <1>0, <4>1
      <4> QED
        BY <1>0, <2>1, <4>1, <4>2 DEF InUndo
    <3>3. Covered(text, token.to, n - 1)
      BY <2>1, <3>2, CoverFacts
    <3> QED
      BY <1>0, <2>1, <3>1, <3>3 DEF CoverInv, Started
  <2>3. CASE buffer # << >>
    <3>1. mode' = "undo"
      BY <1>6, <2>3 DEF UndoRegex, Goto
    <3> QED
      BY <1>3, <2>1, <3>1
  <2> QED
    BY <2>2, <2>3
<1>7. ASSUME EndRegex PROVE CoverInv'
  <2>1. mode = "flags" /\ Return("regex", start, PutBack(stream, ch))
    BY <1>7 DEF EndRegex
  <2> QED
    BY <1>0, <2>1, CoverFacts, ReturnCovers DEF Started
<1> QED
  BY <1>1, <1>2, <1>4, <1>5, <1>6, <1>7 DEF Regex

LEMMA LexemeCovers ==
  ASSUME CoreInv, CoverInv, Lexeme
  PROVE  CoverInv'
<1> DEFINE n == Consumed(stream)
<1>0. /\ TextOK(text) /\ Good(text, stream) /\ Good(text, AfterRead(stream)) /\ Len(text) \in Nat
      /\ n \in 0..Len(text) /\ token.to \in 0..Len(text)
      /\ mode \notin {"idle", "undo"} => Good(text, PutBack(stream, ch))
      /\ Good(text, PutBack(AfterRead(stream), Peeked(stream)))
  BY CoreFacts, CoverFacts
<1>1. ASSUME AtEnd PROVE CoverInv'
  <2> DEFINE p == [Place(stream) EXCEPT !.from = Consumed(stream) + 1]
  <2>1. mode = "skip" /\ ch = EOF /\ Return("end", p, stream)
    BY <1>1 DEF AtEnd, AtToken, CoreInv, EOF
  <2>2. p.from = n + 1 /\ n + 1 - 1 = n
    BY <1>0 DEF Place
  <2>3. Covered(text, token.to, n)
    BY <2>1, CoverFacts
  <2> HIDE DEF p
  <2>4. p.from \in Int /\ Covered(text, token.to, p.from - 1)
    BY <1>0, <2>2, <2>3
  <2> QED
    BY <1>0, <2>1, <2>4, ReturnCovers
<1>2. ASSUME AtToken, ch # EOF
      PROVE  Covered(text, token.to, n - 1)
  BY <1>2, CoverFacts
<1>3. ASSUME StartWord \/ StartString \/ StartNumber PROVE CoverInv'
  <2>1. /\ AtToken /\ ch # EOF /\ text' = text /\ token' = token /\ mode' \in Started
        /\ start' = Place(stream) \/ start' = Place(WithoutSecond)
    BY <1>3 DEF StartWord, StartString, StartNumber, AtOther, Reads, Goto, Started, WordStart, Letters,
                EOF
  <2>2. start'.from = n
    BY <1>0, <2>1, AheadIs DEF Place
  <2> QED
    BY <1>0, <1>2, <2>1, <2>2, StartedCovers
<1>4. ASSUME mode \in Started, mode' \in Started, start' = start, text' = text, token' = token
      PROVE  CoverInv'
  BY <1>0, <1>4, CoverFacts, StartedCovers
<1>5. ASSUME mode \in Started, NEW k, NEW s, Good(text, s), Return(k, start, s) PROVE CoverInv'
  BY <1>0, <1>5, CoverFacts, ReturnCovers
<1>6. ASSUME CharInWord \/ CharInString \/ Radix \/ DigitInRadix PROVE CoverInv'
  <2>1. /\ mode \in Started /\ mode' \in Started /\ start' = start /\ text' = text /\ token' = token
    BY <1>6 DEF CharInWord, CharInString, Radix, DigitInRadix, Reads, Goto, Started
  <2> QED
    BY <1>4, <2>1
<1>7. ASSUME CharInNumber PROVE CoverInv'
  <2> DEFINE r == PutBack(AfterRead(stream), Peeked(stream))
  <2>1. /\ mode = "decimal"
        /\ \/ Reads("decimal", stream) /\ text' = text /\ start' = start /\ token' = token
           \/ Return("number", start, r)
    BY <1>7 DEF CharInNumber
  <2> HIDE DEF r
  <2> QED
    BY <1>0, <1>4, <1>5, <2>1 DEF Started, Reads, Goto, r
<1>8. ASSUME EndWord \/ EndString \/ Octal \/ EndRadix \/ EndNumber PROVE CoverInv'
  <2>1. mode \in Started /\ \E k : Return(k, start, PutBack(stream, ch)) \/ Return(k, start, stream)
    BY <1>8 DEF EndWord, EndString, Octal, EndRadix, EndNumber, Started
  <2>2. mode \notin {"idle", "undo"}
    BY <2>1 DEF Started
  <2> QED
    BY <1>0, <1>5, <2>1, <2>2
<1>9. ASSUME AtToken, ch # EOF, NEW k, NEW p, NEW s, Good(text, s), Return(k, p, s), p.from = n
      PROVE  CoverInv'
  BY <1>0, <1>2, <1>9, ReturnCovers
<1>10. ASSUME TwoSymbol \/ OneSymbol \/ Illegal PROVE CoverInv'
  <2>1. /\ AtToken /\ ch # EOF
        /\ \E k : \E s \in {WithoutThird, WithoutSecond} : Return(k, Place(stream), s)
    BY <1>10 DEF TwoSymbol, OneSymbol, Illegal, AtOther
  <2>2. Place(stream).from = n
    BY DEF Place
  <2> QED
    BY <1>0, <1>9, <2>1, <2>2, AheadIs
<1>11. ASSUME ThreeSymbol PROVE CoverInv'
  <2> DEFINE fourth == Peeked(AfterThird)
             after == AfterRead(AfterThird)
             back == PutBack(after, fourth)
             p == [Place(after) EXCEPT !.from = Consumed(stream)]
  <2>1. /\ AtToken /\ ch # EOF
        /\ \/ Return("symbol", Place(stream), AfterThird)
           \/ Return("symbol", p, after)
           \/ Return("symbol", Place(stream), back)
    BY <1>11 DEF ThreeSymbol, AtOther
  <2>2. Good(text, AfterThird) /\ Good(text, after) /\ Good(text, back)
    BY <1>0, AheadIs, AfterReadIs, PutBackAfterRead
  <2>3. Place(stream).from = n /\ p.from = n
    BY DEF Place
  <2> HIDE DEF fourth, after, back, p
  <2> QED
    BY <1>9, <2>1, <2>2, <2>3
<1> QED
  BY <1>1, <1>3, <1>6, <1>7, <1>8, <1>10, <1>11 DEF Lexeme

LEMMA CoverStep ==
  ASSUME CoreInv, CoverInv, [Next]_vars
  PROVE  CoverInv'
<1>1. CASE UNCHANGED vars
  BY <1>1 DEF CoverInv, vars, local
<1>2. CASE Peek \/ Advance
  BY <1>2, SkippingCovers DEF Peek, Advance
<1>3. CASE Step
  BY <1>3, SkippingCovers, RegexCovers, LexemeCovers DEF Step
<1> QED
  BY <1>1, <1>2, <1>3 DEF Next

LEMMA PairIs ==
  ASSUME NEW t, TextOK(t), NEW i \in 1..Len(t) - 1
  PROVE  SubSeq(t, i, i + 1) = <<t[i], t[i + 1]>>
<1>1. PICK q : q = SubSeq(t, i, i + 1)
  OBVIOUS
<1>2. Len(t) \in Nat /\ i \in Int /\ i + 1 \in Int /\ \A k \in i..i + 1 : t[k] \in Char
  BY DEF TextOK
<1>3. /\ Len(q) = 2 /\ q \in Seq(Char)
      /\ \A k \in 1..2 : q[k] = t[i + k - 1]
  <2>1. /\ SubSeq(t, i, i + 1) \in Seq(Char)
        /\ Len(SubSeq(t, i, i + 1)) = IF i <= i + 1 THEN i + 1 - i + 1 ELSE 0
        /\ \A k \in 1..i + 1 - i + 1 : SubSeq(t, i, i + 1)[k] = t[i + k - 1]
    BY ONLY <1>2, SubSeqProperties
  <2>2. i <= i + 1 /\ i + 1 - i + 1 = 2
    BY <1>2
  <2> QED
    BY ONLY <1>1, <2>1, <2>2
<1>4. q[1] = t[i] /\ q[2] = t[i + 1]
  <2>1. i + 1 - 1 = i /\ i + 2 - 1 = i + 1
    BY <1>2
  <2> QED
    BY ONLY <1>3, <2>1
<1>5. q = <<q[1], q[2]>>
  BY ONLY <1>3
<1> QED
  BY <1>1, <1>4, <1>5

LEMMA CommentIs ==
  ASSUME TextOK(text), NEW i \in 1..Len(text), NEW j \in 1..Len(text), i <= j, Comment(text, i, j)
  PROVE  IsComment(i, j)
<1>1. Len(text) \in Nat
  BY DEF TextOK
<1>2. ASSUME text[i] = "/", text[i + 1] = "/", text[j] = NL, \A k \in i..j - 1 : text[k] # NL
      PROVE  IsComment(i, j)
  <2>1. i # j
    BY <1>2 DEF NL
  <2>2. i \in 1..Len(text) - 1
    BY <1>1, <2>1
  <2>3. SubSeq(text, i, i + 1) = <<"/", "/">>
    BY <1>2, <2>2, PairIs
  <2>4. i - 1 + 1 = i
    BY <1>1
  <2> QED
    BY <1>2, <2>3, <2>4 DEF IsComment, Lexed
<1>3. ASSUME text[i] = "/", text[i + 1] = "*", j >= i + 3, text[j - 1] = "*", text[j] = "/",
             \A k \in i + 3..j - 1 : ~(text[k - 1] = "*" /\ text[k] = "/")
      PROVE  IsComment(i, j)
  <2>1. SubSeq(text, i, i + 1) = <<"/", "*">>
    BY <1>1, <1>3, PairIs
  <2>2. ASSUME NEW k \in i + 3..j
        PROVE  SubSeq(text, k - 1, k) = <<text[k - 1], text[k]>>
    <3>1. PICK l \in 1..Len(text) - 1 : l = k - 1 /\ l + 1 = k
      BY <1>1
    <3>2. SubSeq(text, l, l + 1) = <<text[l], text[l + 1]>>
      BY PairIs
    <3> QED
      BY <3>1, <3>2
  <2>3. ASSUME NEW k \in i + 3..j - 1 PROVE SubSeq(text, k - 1, k) # <<"*", "/">>
    <3>1. SubSeq(text, k - 1, k) = <<text[k - 1], text[k]>>
      BY <1>1, <2>2
    <3>2. ~(text[k - 1] = "*" /\ text[k] = "/")
      BY <1>3
    <3>3. ASSUME NEW x, NEW y, <<x, y>> = <<"*", "/">> PROVE x = "*" /\ y = "/"
      BY ONLY <3>3
    <3> QED
      BY ONLY <3>1, <3>2, <3>3
  <2>4. SubSeq(text, j - 1, j) = <<"*", "/">>
    BY <1>1, <1>3, <2>2
  <2>5. i - 1 + 1 = i /\ j - 2 + 1 = j - 1 /\ \A k \in i + 3..j - 1 : k - 2 + 1 = k - 1
    BY <1>1
  <2> QED
    BY <1>3, <2>1, <2>3, <2>4, <2>5 DEF IsComment, Lexed
<1> QED
  BY <1>2, <1>3 DEF Comment

\* What tokenizer.cc passes over between two tokens is space, or belongs to a comment that
\* begins behind the one token and has ended where the next begins: on every text that
\* leaves no class open and, on any text, as long as no class is given up.
THEOREM OnlySpaceIsSkipped ==
  /\ Spec => []OnlySpaceBetween
  /\ Spec /\ [][~GivesUpClass]_vars => []SpaceBefore
<1>1. CoreInv /\ Init => CoverInv
  <2> SUFFICES ASSUME CoreInv, Init PROVE CoverInv
    OBVIOUS
  <2>1. /\ stream = [at |-> 1, back |-> << >>, seek |-> 0, row |-> 0, col |-> 0, lastCol |-> 0]
        /\ mode = "idle" /\ token.kind = "none" /\ token.to = 0
    BY DEF Init, NoToken
  <2>2. Consumed(stream) = 0 /\ Len(text) \in Nat
    BY <2>1, CoreFacts DEF Consumed
  <2> QED
    BY <2>1, <2>2 DEF CoverInv, Started
<1>2. ASSUME CoreInv, CoverInv PROVE SpaceBefore
  <2> SUFFICES ASSUME mode = "idle", token.kind \notin {"none", "error"},
                      NEW k \in token.begin + 1..token.from, text[k] \notin Spaces
               PROVE  \E i \in token.begin + 1..k, j \in k..token.from : IsComment(i, j)
    BY DEF SpaceBefore
  <2>1. token.begin \in Int /\ token.from \in Int /\ Covered(text, token.begin, token.from)
    BY <1>2 DEF CoverInv
  <2>2. PICK i \in token.begin + 1..k, j \in k..token.from : Comment(text, i, j)
    BY <2>1 DEF Covered
  <2>3. TextOK(text) /\ Len(text) \in Nat
    BY <1>2, CoreFacts
  <2>4. i \in 1..Len(text) /\ j \in 1..Len(text) /\ i <= j
    BY <2>1, <2>3 DEF Covered
  <2> QED
    BY <2>2, <2>3, <2>4, CommentIs
<1>3. Spec /\ [][~GivesUpClass]_vars => []SpaceBefore
  BY <1>1, <1>2, CoverStep, CoreIsInvariant, PTL DEF Spec
<1>4. ~ClassesClosed \/ SpaceBefore => OnlySpaceBetween
  BY DEF ClassesClosed, OnlySpaceBetween
<1> QED
  BY <1>3, <1>4, OnlyClassesAreGivenUp, PTL
-------------------------------------------------------------------------------
\* A token of each kind at the characters behind i up to j of text t.
SymbolAt(t, i, j) ==
  /\ SubSeq(t, i + 1, j) \in Symbols
  /\ \A k \in j + 1..Len(t) : SubSeq(t, i + 1, k) \notin Symbols

WordAt(t, i, j) ==
  /\ \A k \in i + 1..j : t[k] \in WordChars
  /\ t[i + 1] \notin Digits
  /\ j = Len(t) \/ t[j + 1] \notin WordChars

StringAt(t, i, j) ==
  /\ t[i + 1] \in Quotes /\ j > i + 1
  /\ \A k \in i + 2..j : t[k] = t[i + 1] /\ ~EscapedIn(t, i + 1, k) <=> k = j

NumberAt(t, i, j) ==
  /\ \E k \in i + 1..j : t[k] \in Digits
  /\ \A k \in i + 1..j : t[k] \in HexDigits \cup {".", "x"}
  /\ j < Len(t) /\ t[j + 1] \in Digits => t[i + 2] = "b"

TokenAt(t, kind, i, j) ==
  /\ kind = "symbol" => SymbolAt(t, i, j)
  /\ kind = "word" => WordAt(t, i, j)
  /\ kind = "string" => StringAt(t, i, j)
  /\ kind = "number" => NumberAt(t, i, j)
  /\ kind = "end" => j = Len(t)

\* What the characters of a token that begins at i are, when n are read and c was the last,
\* which is still to be looked at.
InString(t, i, c, delim, n) ==
  /\ delim = t[i] /\ delim \in Quotes
  /\ \A k \in i + 1..Upto(c, n) : ~(t[k] = delim /\ ~EscapedIn(t, i, k))
  /\ c # EOF => ~EscapedIn(t, i, n)

HasDigit(t, i, j) == \E k \in i..j : t[k] \in Digits

InNumber(t, i, j) == \A k \in i..j : t[k] \in HexDigits \cup {".", "x"}

LongInv ==
  LET from == start.from
      n == Consumed(stream)
      upto == Upto(ch, n) IN
  /\ mode = "idle" => TokenAt(text, token.kind, token.from, token.to)
  /\ mode = "word" => text[from] \notin Digits /\ \A k \in from..upto : text[k] \in WordChars
  /\ mode = "string" => InString(text, from, ch, mark, n)
  /\ mode = "radix" =>
       /\ ch # EOF => n = from + 1
       /\ ch = EOF => n = from
       /\ mark = text[from] /\ (mark \in Digits \/ (mark = "." /\ ch \in Digits))
  /\ mode \in {"hex", "bin", "decimal"} => InNumber(text, from, upto)
  /\ mode \in {"hex", "bin"} => text[from] \in Digits
  /\ mode = "bin" => text[from + 1] = "b"
  /\ mode = "decimal" => HasDigit(text, from, upto) \/ ch \in Digits

-------------------------------------------------------------------------------
\* Symbols, by their length.
LEMMA SymbolShapes ==
  ASSUME NEW q \in Symbols
  PROVE  \/ Len(q) = 1 /\ q = <<q[1]>> /\ q[1] \in OneCharacterSymbols
         \/ Len(q) = 2 /\ <<q[1], q[2]>> \in TwoCharacterSymbols
         \/ Len(q) = 3 /\ <<q[1], q[2], q[3]>> \in ThreeCharacterSymbols
         \/ Len(q) = 4 /\ q[1] = ">" /\ q[2] = ">" /\ q[3] = ">" /\ q[4] = "="
<1>1. CASE q \in {<<c>> : c \in OneCharacterSymbols}
  <2>1. PICK c \in OneCharacterSymbols : q = <<c>>
    BY <1>1
  <2> QED
    BY <2>1
<1>2. CASE q \in TwoCharacterSymbols
  <2>1. \E c, d : q = <<c, d>>
    BY <1>2 DEF TwoCharacterSymbols
  <2>2. PICK c, d : q = <<c, d>>
    BY <2>1
  <2>3. Len(q) = 2 /\ q = <<q[1], q[2]>>
    BY ONLY <2>2
  <2> QED
    BY <1>2, <2>3
<1>3. CASE q \in ThreeCharacterSymbols
  <2>1. \E c, d, e : q = <<c, d, e>>
    BY <1>3 DEF ThreeCharacterSymbols
  <2>2. PICK c, d, e : q = <<c, d, e>>
    BY <2>1
  <2>3. Len(q) = 3 /\ q = <<q[1], q[2], q[3]>>
    BY ONLY <2>2
  <2> QED
    BY <1>3, <2>3
<1>4. CASE q = ShiftAssign
  BY <1>4 DEF ShiftAssign
<1> QED
  BY <1>1, <1>2, <1>3, <1>4 DEF Symbols

LEMMA PartOfText ==
  ASSUME NEW t, TextOK(t), NEW i \in 1..Len(t), NEW j \in i..Len(t), NEW q, q = SubSeq(t, i, j)
  PROVE  /\ q \in Seq(Char) /\ Len(q) = j - i + 1
         /\ \A k \in 1..j - i + 1 : q[k] = t[i + k - 1]
<1>1. i \in Int /\ j \in Int /\ i <= j /\ \A k \in i..j : t[k] \in Char
  BY DEF TextOK
<1>2. /\ SubSeq(t, i, j) \in Seq(Char)
      /\ Len(SubSeq(t, i, j)) = IF i <= j THEN j - i + 1 ELSE 0
      /\ \A k \in 1..j - i + 1 : SubSeq(t, i, j)[k] = t[i + k - 1]
  BY ONLY <1>1, SubSeqProperties
<1> QED
  BY <1>1, <1>2

LEMMA PartsOfText ==
  ASSUME NEW t, TextOK(t), NEW i \in 1..Len(t)
  PROVE  /\ SubSeq(t, i, i) = <<t[i]>>
         /\ i + 1 <= Len(t) => SubSeq(t, i, i + 1) = <<t[i], t[i + 1]>>
         /\ i + 2 <= Len(t) => SubSeq(t, i, i + 2) = <<t[i], t[i + 1], t[i + 2]>>
         /\ i + 3 <= Len(t) => SubSeq(t, i, i + 3) = <<t[i], t[i + 1], t[i + 2], t[i + 3]>>
<1>1. Len(t) \in Nat /\ i \in Int
  BY DEF TextOK
<1>2. ASSUME NEW m \in 0..3, i + m <= Len(t), NEW q, q = SubSeq(t, i, i + m)
      PROVE  /\ q \in Seq(Char) /\ Len(q) = m + 1 /\ q[1] = t[i]
             /\ m >= 1 => q[2] = t[i + 1]
             /\ m >= 2 => q[3] = t[i + 2]
             /\ m >= 3 => q[4] = t[i + 3]
  <2>1. i + m \in i..Len(t) /\ i + m - i + 1 = m + 1
    BY <1>1, <1>2
  <2>2. q \in Seq(Char) /\ Len(q) = m + 1 /\ \A k \in 1..m + 1 : q[k] = t[i + k - 1]
    BY <1>2, <2>1, PartOfText
  <2>3. i + 1 - 1 = i /\ i + 2 - 1 = i + 1 /\ i + 3 - 1 = i + 2 /\ i + 4 - 1 = i + 3
    BY <1>1
  <2> QED
    BY ONLY <1>2, <2>2, <2>3
<1>3. SubSeq(t, i, i) = <<t[i]>>
  <2>1. PICK q : q = SubSeq(t, i, i)
    OBVIOUS
  <2>2. i + 0 = i
    BY <1>1
  <2>3. q \in Seq(Char) /\ Len(q) = 1 /\ q[1] = t[i]
    BY <1>1, <1>2, <2>1, <2>2
  <2>4. q = <<q[1]>>
    BY ONLY <2>3
  <2> QED
    BY <2>1, <2>3, <2>4
<1>4. ASSUME i + 1 <= Len(t) PROVE SubSeq(t, i, i + 1) = <<t[i], t[i + 1]>>
  <2>1. PICK q : q = SubSeq(t, i, i + 1)
    OBVIOUS
  <2>2. q \in Seq(Char) /\ Len(q) = 2 /\ q[1] = t[i] /\ q[2] = t[i + 1]
    <3>1. 1 \in 0..3 /\ 1 + 1 = 2 /\ 1 >= 1
      OBVIOUS
    <3> QED
      BY ONLY <1>2, <1>4, <2>1, <3>1
  <2>3. q = <<q[1], q[2]>>
    BY ONLY <2>2
  <2> QED
    BY <2>1, <2>2, <2>3
<1>5. ASSUME i + 2 <= Len(t) PROVE SubSeq(t, i, i + 2) = <<t[i], t[i + 1], t[i + 2]>>
  <2>1. PICK q : q = SubSeq(t, i, i + 2)
    OBVIOUS
  <2>2. q \in Seq(Char) /\ Len(q) = 3 /\ q[1] = t[i] /\ q[2] = t[i + 1] /\ q[3] = t[i + 2]
    BY <1>1, <1>2, <1>5, <2>1
  <2>3. q = <<q[1], q[2], q[3]>>
    BY ONLY <2>2
  <2> QED
    BY <2>1, <2>2, <2>3
<1>6. ASSUME i + 3 <= Len(t) PROVE SubSeq(t, i, i + 3) = <<t[i], t[i + 1], t[i + 2], t[i + 3]>>
  <2>1. PICK q : q = SubSeq(t, i, i + 3)
    OBVIOUS
  <2>2. /\ q \in Seq(Char) /\ Len(q) = 4 /\ q[1] = t[i] /\ q[2] = t[i + 1] /\ q[3] = t[i + 2]
        /\ q[4] = t[i + 3]
    BY <1>1, <1>2, <1>6, <2>1
  <2>3. q = <<q[1], q[2], q[3], q[4]>>
    BY ONLY <2>2
  <2> QED
    BY <2>1, <2>2, <2>3
<1> QED
  BY <1>3, <1>4, <1>5, <1>6

\* A symbol that begins at i is the longest if no longer one does.
LEMMA LongestSymbol ==
  ASSUME NEW t, TextOK(t), NEW i \in 1..Len(t), NEW j \in i..Len(t), SubSeq(t, i, j) \in Symbols,
         j = i /\ i + 1 <= Len(t) => <<t[i], t[i + 1]>> \notin TwoCharacterSymbols,
         j < i + 2 /\ i + 2 <= Len(t) => <<t[i], t[i + 1], t[i + 2]>> \notin ThreeCharacterSymbols,
         j < i + 3 /\ i + 3 <= Len(t) =>
           ~(t[i] = ">" /\ t[i + 1] = ">" /\ t[i + 2] = ">" /\ t[i + 3] = "=")
  PROVE  SymbolAt(t, i - 1, j)
<1>1. Len(t) \in Nat /\ i \in Int /\ j \in Int /\ i - 1 + 1 = i
  BY DEF TextOK
<1>2. ASSUME NEW k \in j + 1..Len(t), SubSeq(t, i, k) \in Symbols PROVE FALSE
  <2>1. PICK q : q = SubSeq(t, i, k)
    OBVIOUS
  <2>2. k \in i..Len(t) /\ k > i
    BY <1>1
  <2>3. PICK m \in Int :
          m = k - i + 1 /\ Len(q) = m /\ \A l \in 1..m : q[l] = t[i + l - 1]
    BY <1>1, <2>1, <2>2, PartOfText
  <2>4. /\ i + 1 - 1 = i /\ i + 2 - 1 = i + 1 /\ i + 3 - 1 = i + 2 /\ i + 4 - 1 = i + 3
        /\ m >= 2 /\ k = i + m - 1 /\ j < k /\ k <= Len(t)
    BY <1>1, <2>2, <2>3
  <2>5. CASE Len(q) = 2 /\ <<q[1], q[2]>> \in TwoCharacterSymbols
    <3>1. m = 2
      BY ONLY <2>3, <2>5
    <3>2. q[1] = t[i] /\ q[2] = t[i + 1]
      BY ONLY <2>3, <2>4, <3>1
    <3>3. j = i /\ i + 1 <= Len(t)
      BY <1>1, <2>4, <3>1
    <3> QED
      BY <2>5, <3>2, <3>3
  <2>6. CASE Len(q) = 3 /\ <<q[1], q[2], q[3]>> \in ThreeCharacterSymbols
    <3>1. m = 3
      BY ONLY <2>3, <2>6
    <3>2. q[1] = t[i] /\ q[2] = t[i + 1] /\ q[3] = t[i + 2]
      BY ONLY <2>3, <2>4, <3>1
    <3>3. j < i + 2 /\ i + 2 <= Len(t)
      BY <1>1, <2>4, <3>1
    <3> QED
      BY <2>6, <3>2, <3>3
  <2>7. CASE Len(q) = 4 /\ q[1] = ">" /\ q[2] = ">" /\ q[3] = ">" /\ q[4] = "="
    <3>1. m = 4
      BY ONLY <2>3, <2>7
    <3>2. q[1] = t[i] /\ q[2] = t[i + 1] /\ q[3] = t[i + 2] /\ q[4] = t[i + 3]
      BY ONLY <2>3, <2>4, <3>1
    <3>3. j < i + 3 /\ i + 3 <= Len(t)
      BY <1>1, <2>4, <3>1
    <3> QED
      BY <2>7, <3>2, <3>3
  <2>8. q \in Symbols /\ Len(q) # 1
    BY <1>1, <1>2, <2>1, <2>3, <2>4
  <2> QED
    BY <2>5, <2>6, <2>7, <2>8, SymbolShapes
<1> QED
  BY <1>1, <1>2 DEF SymbolAt

-------------------------------------------------------------------------------
LEMMA ReturnLong ==
  ASSUME NEW k, NEW p, NEW s, Return(k, p, s), TokenAt(text, k, p.from - 1, Consumed(s))
  PROVE  LongInv'
<1>1. /\ text' = text /\ stream' = s /\ mode' = "idle"
      /\ token'.kind = k /\ token'.from = p.from - 1 /\ token'.to = Consumed(s)
  BY DEF Return
<1> QED
  BY <1>1 DEF LongInv

LEMMA ElsewhereLong ==
  ASSUME mode' \notin {"idle", "word", "string", "radix", "hex", "bin", "decimal"}
  PROVE  LongInv'
BY DEF LongInv

LEMMA OtherLong ==
  ASSUME NEW k \in {"error", "regex", "invalid"}, NEW p, NEW s, Return(k, p, s)
  PROVE  LongInv'
<1>1. TokenAt(text, k, p.from - 1, Consumed(s))
  BY DEF TokenAt
<1> QED
  BY <1>1, ReturnLong

\* What has been read ahead is the text.
LEMMA AheadText ==
  ASSUME CoreInv, AtToken, ch # EOF
  PROVE  LET n == Consumed(stream) IN
         /\ n \in 1..Len(text) /\ text[n] = ch /\ TextOK(text) /\ Len(text) \in Nat
         /\ Second = EOF => n = Len(text)
         /\ Second # EOF =>
              /\ n + 1 <= Len(text) /\ Second = text[n + 1] /\ Consumed(WithoutThird) = n + 1
              /\ Third = EOF => n + 1 = Len(text)
              /\ Third # EOF =>
                   /\ n + 2 <= Len(text) /\ Third = text[n + 2]
                   /\ Consumed(AfterThird) = n + 2 /\ Good(text, AfterThird)
                   /\ Peeked(AfterThird) = At(text, n + 3)
         /\ Good(text, WithoutThird) /\ Good(text, WithoutSecond) /\ Consumed(WithoutSecond) = n
<1> DEFINE n == Consumed(stream)
<1>1. /\ TextOK(text) /\ Good(text, stream) /\ Len(text) \in Nat /\ n \in 0..Len(text)
      /\ Good(text, AfterSecond) /\ Consumed(AfterSecond) = Beyond(text, n)
      /\ Good(text, AfterThird) /\ Consumed(AfterThird) = Beyond(text, Consumed(AfterSecond))
      /\ Good(text, WithoutThird) /\ Consumed(WithoutThird) = Consumed(AfterSecond)
      /\ Good(text, WithoutSecond) /\ Consumed(WithoutSecond) = n
  BY CoreFacts, AheadIs
<1>2. n \in 1..Len(text) /\ text[n] = ch
  <2>1. LastRead(text, ch, n)
    BY DEF AtToken, CoreInv
  <2> QED
    BY <2>1 DEF LastRead
<1>3. Second = At(text, n + 1) /\ (Second = EOF <=> n = Len(text))
  BY <1>1, PeekedIs DEF Second
<1>4. /\ Third = At(text, Consumed(AfterSecond) + 1)
      /\ Third = EOF <=> Consumed(AfterSecond) = Len(text)
  BY <1>1, PeekedIs DEF Third
<1>5. Peeked(AfterThird) = At(text, Consumed(AfterThird) + 1)
  BY <1>1, PeekedIs
<1> HIDE DEF n
<1>6. ASSUME Second # EOF
      PROVE  /\ n + 1 <= Len(text) /\ Second = text[n + 1] /\ Consumed(AfterSecond) = n + 1
             /\ Third = EOF => n + 1 = Len(text)
             /\ Third # EOF =>
                  /\ n + 2 <= Len(text) /\ Third = text[n + 2]
                  /\ Consumed(AfterThird) = n + 2 /\ Peeked(AfterThird) = At(text, n + 3)
  <2>1. n + 1 <= Len(text) /\ Second = text[n + 1] /\ Consumed(AfterSecond) = n + 1
    BY <1>1, <1>2, <1>3, <1>6 DEF At, Beyond
  <2>2. ASSUME Third # EOF
        PROVE  n + 2 <= Len(text) /\ Third = text[n + 2] /\ Consumed(AfterThird) = n + 2
    <3>1. n + 1 + 1 = n + 2 /\ n + 1 < Len(text)
      BY <1>1, <1>2, <1>4, <2>1, <2>2
    <3> QED
      BY <1>1, <1>2, <1>4, <2>1, <2>2, <3>1 DEF At, Beyond
  <2>3. n + 2 + 1 = n + 3
    BY <1>2
  <2> QED
    BY <1>4, <1>5, <2>1, <2>2, <2>3
<1> QED
  BY <1>1, <1>2, <1>3, <1>6 DEF n

LEMMA ThirdIsRead ==
  ASSUME AtThree
  PROVE  Second # EOF /\ Third # EOF /\ <<ch, Second, Third>> \in ThreeCharacterSymbols
<1>1. Second # EOF /\ <<ch, Second, Third>> \in ThreeCharacterSymbols
  BY DEF AtThree
<1>2. Third \in {"=", ">", "."}
  BY <1>1 DEF ThreeCharacterSymbols
<1> QED
  BY <1>1, <1>2 DEF EOF

LEMMA ThreeLong ==
  ASSUME CoreInv, ThreeSymbol
  PROVE  LongInv'
<1> DEFINE n == Consumed(stream)
           fourth == Peeked(AfterThird)
           after == AfterRead(AfterThird)
           back == PutBack(after, fourth)
           p == [Place(after) EXCEPT !.from = Consumed(stream)]
           three == <<text[n], text[n + 1], text[n + 2]>>
<1>1. /\ AtToken /\ ch # EOF /\ AtThree
      /\ \/ /\ <<ch, Second, Third>> # <<">", ">", ">">>
            /\ Return("symbol", Place(stream), AfterThird)
         \/ /\ <<ch, Second, Third>> = <<">", ">", ">">> /\ fourth = "="
            /\ Return("symbol", p, after)
         \/ /\ fourth # "=" /\ Return("symbol", Place(stream), back)
  BY DEF ThreeSymbol, AtOther
<1>2. /\ n \in 1..Len(text) /\ TextOK(text) /\ Len(text) \in Nat
      /\ n + 2 <= Len(text) /\ Consumed(AfterThird) = n + 2 /\ Good(text, AfterThird)
      /\ fourth = At(text, n + 3) /\ text[n] = ch /\ text[n + 1] = Second /\ text[n + 2] = Third
  BY <1>1, AheadText, ThirdIsRead
<1>3. three \in ThreeCharacterSymbols /\ three = <<ch, Second, Third>>
  BY <1>1, <1>2 DEF AtThree
<1>4. /\ Consumed(after) = Beyond(text, n + 2) /\ Consumed(back) = n + 2
  BY <1>2, AfterReadIs, PutBackAfterRead
<1>5. Place(stream).from = n /\ p.from = n
  BY DEF Place
<1>6. n + 2 \in n..Len(text) /\ n + 2 # n /\ ~(n + 2 < n + 2)
  BY <1>2
<1>7. SubSeq(text, n, n + 2) \in Symbols
  BY <1>2, <1>3, PartsOfText DEF Symbols
<1> HIDE DEF n, fourth, after, back, p
<1>8. ASSUME <<ch, Second, Third>> # <<">", ">", ">">> \/ fourth # "="
      PROVE  TokenAt(text, "symbol", n - 1, n + 2)
  <2>1. n + 3 <= Len(text) => ~(text[n] = ">" /\ text[n + 1] = ">" /\ text[n + 2] = ">" /\ text[n + 3] = "=")
    BY <1>2, <1>8 DEF At
  <2>2. SymbolAt(text, n - 1, n + 2)
    BY <1>2, <1>6, <1>7, <2>1, LongestSymbol
  <2> QED
    BY <2>2 DEF TokenAt
<1>9. ASSUME <<ch, Second, Third>> = <<">", ">", ">">>, fourth = "="
      PROVE  TokenAt(text, "symbol", n - 1, Consumed(after))
  <2>1. ch = ">" /\ Second = ">" /\ Third = ">"
    BY <1>9
  <2>2. n + 3 <= Len(text) /\ text[n + 3] = "="
    BY <1>2, <1>9 DEF At, EOF
  <2>3. Consumed(after) = n + 3
    BY <1>2, <1>4, <2>2 DEF Beyond
  <2>4. SubSeq(text, n, n + 3) = <<text[n], text[n + 1], text[n + 2], text[n + 3]>>
    BY <1>2, <2>2, PartsOfText
  <2>5. SubSeq(text, n, n + 3) \in Symbols
    BY <1>2, <2>1, <2>2, <2>4 DEF Symbols, ShiftAssign
  <2>6. n + 3 \in n..Len(text) /\ n + 3 # n /\ ~(n + 3 < n + 2) /\ ~(n + 3 < n + 3)
    BY <1>2, <2>2
  <2>7. SymbolAt(text, n - 1, n + 3)
    BY <1>2, <2>5, <2>6, LongestSymbol
  <2> QED
    BY <2>3, <2>7 DEF TokenAt
<1> QED
  BY <1>1, <1>2, <1>4, <1>5, <1>8, <1>9, ReturnLong

\* What no longer symbol begins with.
LEMMA NotThree ==
  ASSUME CoreInv, AtToken, ch # EOF, ~AtThree
  PROVE  LET n == Consumed(stream) IN
         /\ n + 2 <= Len(text) =>
              <<text[n], text[n + 1], text[n + 2]>> \notin ThreeCharacterSymbols
         /\ n + 3 <= Len(text) =>
              ~(text[n] = ">" /\ text[n + 1] = ">" /\ text[n + 2] = ">" /\ text[n + 3] = "=")
<1> DEFINE n == Consumed(stream)
<1>1. /\ n \in 1..Len(text) /\ Len(text) \in Nat /\ text[n] = ch
      /\ Second = EOF => n = Len(text)
      /\ Second # EOF => /\ Second = text[n + 1]
                         /\ Third = EOF => n + 1 = Len(text)
                         /\ Third # EOF => Third = text[n + 2]
  BY AheadText
<1> HIDE DEF n
<1>2. ASSUME n + 2 <= Len(text)
      PROVE  <<text[n], text[n + 1], text[n + 2]>> \notin ThreeCharacterSymbols
  <2>1. Second # EOF /\ Third # EOF
    BY <1>1, <1>2
  <2> QED
    BY <1>1, <2>1 DEF AtThree
<1>3. <<">", ">", ">">> \in ThreeCharacterSymbols
  BY DEF ThreeCharacterSymbols
<1>4. n + 3 <= Len(text) => n + 2 <= Len(text)
  BY <1>1
<1> QED
  BY <1>2, <1>3, <1>4 DEF n

LEMMA TwoLong ==
  ASSUME CoreInv, TwoSymbol
  PROVE  LongInv'
<1> DEFINE n == Consumed(stream)
<1>1. /\ AtToken /\ ch # EOF /\ Second # EOF /\ ~AtThree /\ <<ch, Second>> \in TwoCharacterSymbols
      /\ Return("symbol", Place(stream), WithoutThird)
  BY DEF TwoSymbol, AtOther, AtTwo
<1>2. /\ n \in 1..Len(text) /\ TextOK(text) /\ Len(text) \in Nat
      /\ n + 1 <= Len(text) /\ Consumed(WithoutThird) = n + 1
      /\ text[n] = ch /\ text[n + 1] = Second
  BY <1>1, AheadText
<1>3. SubSeq(text, n, n + 1) \in Symbols
  BY <1>1, <1>2, PartsOfText DEF Symbols
<1>4. n + 1 \in n..Len(text) /\ n + 1 # n
  BY <1>2
<1>5. SymbolAt(text, n - 1, n + 1)
  BY <1>1, <1>2, <1>3, <1>4, NotThree, LongestSymbol
<1>6. Place(stream).from = n
  BY DEF Place
<1>7. TokenAt(text, "symbol", n - 1, n + 1)
  BY <1>5 DEF TokenAt
<1> HIDE DEF n
<1> QED
  BY <1>1, <1>2, <1>6, <1>7, ReturnLong

LEMMA OneLong ==
  ASSUME CoreInv, OneSymbol \/ DivideAtEnd
  PROVE  LongInv'
<1> DEFINE n == Consumed(stream)
<1>1. CASE OneSymbol
  <2>1. /\ AtToken /\ ch # EOF /\ ~AtThree /\ ~AtTwo /\ ch \in OneCharacterSymbols
        /\ Return("symbol", Place(stream), WithoutSecond)
    BY <1>1 DEF OneSymbol, AtOther
  <2>2. /\ n \in 1..Len(text) /\ TextOK(text) /\ Len(text) \in Nat
        /\ Consumed(WithoutSecond) = n /\ text[n] = ch
        /\ Second = EOF => n = Len(text)
        /\ Second # EOF => text[n + 1] = Second
    BY <2>1, AheadText
  <2>3. SubSeq(text, n, n) \in Symbols
    BY <2>1, <2>2, PartsOfText DEF Symbols
  <2>4. n + 1 <= Len(text) => <<text[n], text[n + 1]>> \notin TwoCharacterSymbols
    BY <2>1, <2>2 DEF AtTwo
  <2>5. n \in n..Len(text)
    BY <2>2
  <2>6. SymbolAt(text, n - 1, n)
    BY <2>1, <2>2, <2>3, <2>4, <2>5, NotThree, LongestSymbol
  <2>7. Place(stream).from = n
    BY DEF Place
  <2>8. TokenAt(text, "symbol", n - 1, n)
    BY <2>6 DEF TokenAt
  <2> HIDE DEF n
  <2> QED
    BY <2>1, <2>2, <2>7, <2>8, ReturnLong
<1>2. CASE DivideAtEnd
  <2>1. /\ AtSlash /\ ch = "/" /\ Peeked(stream) = EOF
        /\ Return("symbol", Place(stream), AfterRead(stream))
    BY <1>2 DEF DivideAtEnd, AtSlash, Following
  <2>2. LastRead(text, ch, n)
    BY <2>1 DEF AtSlash, CoreInv
  <2>3. /\ n \in 1..Len(text) /\ TextOK(text) /\ Len(text) \in Nat /\ text[n] = "/" /\ n = Len(text)
        /\ Consumed(AfterRead(stream)) = n
    BY <2>1, <2>2, CoreFacts DEF LastRead, Beyond, EOF
  <2>4. SubSeq(text, n, n) \in Symbols
    BY <2>3, PartsOfText DEF Symbols, OneCharacterSymbols
  <2>5. n \in n..Len(text) /\ ~(n + 1 <= Len(text)) /\ ~(n + 2 <= Len(text)) /\ ~(n + 3 <= Len(text))
    BY <2>3
  <2>6. SymbolAt(text, n - 1, n)
    BY <2>3, <2>4, <2>5, LongestSymbol
  <2>7. Place(stream).from = n
    BY DEF Place
  <2>8. TokenAt(text, "symbol", n - 1, n)
    BY <2>6 DEF TokenAt
  <2> HIDE DEF n
  <2> QED
    BY <2>1, <2>3, <2>7, <2>8, ReturnLong
<1> QED
  BY <1>1, <1>2

LEMMA WordLong ==
  ASSUME CoreInv, AheadInv, LongInv, StartWord \/ CharInWord \/ EndWord
  PROVE  LongInv'
<1> DEFINE n == Consumed(stream)
           from == start.from
           upto == Upto(ch, n)
<1>0. /\ n \in 0..Len(text) /\ Len(text) \in Nat
      /\ Upto(Peeked(stream), Consumed(AfterRead(stream))) = n
  BY UptoIs
<1>1. ASSUME mode' = "word", text' = text, ch' = Peeked(stream), stream' = AfterRead(stream),
             text[start'.from] \notin Digits, \A k \in start'.from..n : text[k] \in WordChars
      PROVE  LongInv'
  BY <1>0, <1>1 DEF LongInv
<1>2. CASE StartWord
  <2>1. /\ AtToken /\ ch \in WordStart /\ mode' = "word" /\ ch' = Peeked(stream)
        /\ stream' = AfterRead(stream) /\ text' = text /\ start'.from = n
    BY <1>2 DEF StartWord, Reads, Goto, Place
  <2>2. ch # EOF /\ ch \in WordChars /\ ch \notin Digits
    BY <2>1 DEF WordStart, Letters, WordChars, Digits, EOF
  <2>3. n \in 1..Len(text) /\ ch = text[n]
    BY <2>1, <2>2, AheadText
  <2>4. \A k \in n..n : k = n
    BY <1>0
  <2> HIDE DEF n
  <2> QED
    BY <1>1, <2>1, <2>2, <2>3, <2>4
<1>3. ASSUME mode = "word"
      PROVE  /\ text[from] \notin Digits /\ \A k \in from..upto : text[k] \in WordChars
             /\ from \in 1..Len(text) /\ from <= n /\ (ch # EOF => from < n)
             /\ Consumed(PutBack(stream, ch)) = upto
             /\ ch = EOF => n = Len(text)
             /\ ch # EOF => n \in 1..Len(text) /\ ch = text[n]
  BY <1>3, UptoIs DEF LongInv, AheadInv, Started
<1>4. CASE CharInWord
  <2>1. /\ mode = "word" /\ ch \in WordChars /\ mode' = "word" /\ ch' = Peeked(stream)
        /\ stream' = AfterRead(stream) /\ text' = text /\ start' = start
    BY <1>4 DEF CharInWord, Reads, Goto
  <2>2. ch # EOF
    BY <2>1 DEF WordStart, Letters, WordChars, Digits, EOF
  <2>3. upto = n - 1
    BY <2>2 DEF Upto
  <2>4. \A k \in from..n : k \in from..upto \/ k = n
    BY <1>0, <1>3, <2>1, <2>3
  <2> HIDE DEF n, upto
  <2> QED
    BY <1>1, <1>3, <2>1, <2>2, <2>4
<1>5. CASE EndWord
  <2>1. mode = "word" /\ ch \notin WordChars /\ Return("word", start, PutBack(stream, ch))
    BY <1>5 DEF EndWord
  <2>2. upto = Len(text) \/ text[upto + 1] \notin WordChars
    BY <1>0, <1>3, <2>1 DEF Upto
  <2>3. from - 1 + 1 = from
    BY <1>3, <2>1
  <2> HIDE DEF n, upto
  <2>4. WordAt(text, from - 1, upto)
    BY <1>3, <2>1, <2>2, <2>3 DEF WordAt
  <2>5. TokenAt(text, "word", from - 1, upto)
    BY <2>4 DEF TokenAt
  <2> QED
    BY <1>3, <2>1, <2>5, ReturnLong
<1> QED
  BY <1>2, <1>4, <1>5

\* The next turn of a string, when the characters up to m are not its end.
LEMMA StringGoesOn ==
  ASSUME TextOK(text), text' = text, NEW s, Good(text, s), Reads("string", s),
         mark' = text[start'.from], mark' \in Quotes,
         \A k \in start'.from + 1..Consumed(s) :
           ~(text[k] = mark' /\ ~EscapedIn(text, start'.from, k)),
         ~EscapedIn(text, start'.from, Consumed(s) + 1)
  PROVE  LongInv'
<1>1. mode' = "string" /\ ch' = Peeked(s) /\ stream' = AfterRead(s)
  BY DEF Reads, Goto
<1>2. /\ Upto(Peeked(s), Consumed(AfterRead(s))) = Consumed(s)
      /\ Peeked(s) # EOF => Consumed(AfterRead(s)) = Consumed(s) + 1
  BY UptoReads
<1>3. InString(text, start'.from, Peeked(s), mark', Consumed(AfterRead(s)))
  BY <1>2 DEF InString
<1> QED
  BY <1>1, <1>3 DEF LongInv

LEMMA StringLong ==
  ASSUME CoreInv, AheadInv, LongInv, StartString \/ CharInString \/ EndString
  PROVE  LongInv'
<1> DEFINE n == Consumed(stream)
           from == start.from
<1>0. /\ TextOK(text) /\ Good(text, stream) /\ n \in 0..Len(text) /\ Len(text) \in Nat
      /\ Good(text, AfterRead(stream)) /\ Consumed(AfterRead(stream)) = Beyond(text, n)
      /\ Peeked(stream) = EOF <=> n = Len(text)
  BY CoreFacts
<1>1. CASE StartString
  <2>1. /\ AtToken /\ ch # EOF /\ ch \in Quotes /\ text' = text /\ Reads("string", WithoutSecond)
        /\ start'.from = Consumed(WithoutSecond) /\ mark' = ch
    BY <1>1 DEF StartString, AtOther, Place
  <2>2. /\ n \in 1..Len(text) /\ ch = text[n]
        /\ Good(text, WithoutSecond) /\ Consumed(WithoutSecond) = n
    BY <2>1, AheadText
  <2>3. n + 1..n = {} /\ n \in Int
    BY <1>0
  <2>4. ~EscapedIn(text, n, n + 1)
    BY <2>3, NotEscapedFirst
  <2> HIDE DEF n
  <2> QED
    BY <1>0, <2>1, <2>2, <2>3, <2>4, StringGoesOn
<1>2. ASSUME mode = "string", ch # EOF
      PROVE  /\ from \in 1..Len(text) /\ from < n /\ n \in 1..Len(text) /\ ch = text[n]
             /\ mark = text[from] /\ mark \in Quotes /\ ~EscapedIn(text, from, n)
             /\ \A k \in from + 1..n - 1 : ~(text[k] = mark /\ ~EscapedIn(text, from, k))
  <2>1. InString(text, from, ch, mark, n) /\ Upto(ch, n) = n - 1
    BY <1>2 DEF LongInv, Upto
  <2>2. from \in 1..Len(text) /\ from < n /\ n \in 1..Len(text) /\ ch = text[n]
    BY <1>2, UptoIs DEF AheadInv, Started
  <2> HIDE DEF n, from
  <2> QED
    BY <1>2, <2>1, <2>2 DEF InString
<1>3. CASE CharInString
  <2> DEFINE s == AfterRead(stream)
  <2>1. /\ mode = "string" /\ ch # EOF /\ ch # mark /\ text' = text /\ start' = start /\ mark' = mark
        /\ \/ ch # "back" /\ Reads("string", stream)
           \/ ch = "back" /\ Peeked(stream) = EOF /\ Goto("string", EOF, s)
           \/ ch = "back" /\ Peeked(stream) # EOF /\ Reads("string", s)
    BY <1>3 DEF CharInString, StringEnds
  <2>2. \A k \in from + 1..n : ~(text[k] = mark /\ ~EscapedIn(text, from, k))
    <3>1. \A k \in from + 1..n : k \in from + 1..n - 1 \/ k = n
      BY <1>2, <2>1
    <3> HIDE DEF n, from
    <3> QED
      BY <1>2, <2>1, <3>1
  <2>3. EscapedIn(text, from, n + 1) <=> ch = "back"
    BY <1>2, <2>1, EscapedNext
  <2>4. CASE ch # "back" /\ Reads("string", stream)
    <3> HIDE DEF n
    <3> QED
      BY <1>0, <1>2, <2>1, <2>2, <2>3, <2>4, StringGoesOn DEF n
  <2>5. CASE ch = "back" /\ Peeked(stream) = EOF /\ Goto("string", EOF, s)
    <3>1. Consumed(s) = n /\ Upto(EOF, n) = n
      BY <1>0, <2>5 DEF Beyond, Upto
    <3>2. InString(text, from, EOF, mark, Consumed(s))
      BY <1>2, <2>1, <2>2, <3>1 DEF InString
    <3>3. mode' = "string" /\ ch' = EOF /\ stream' = s
      BY <2>5 DEF Goto
    <3> HIDE DEF s
    <3> QED
      BY <2>1, <3>2, <3>3 DEF LongInv
  <2>6. CASE ch = "back" /\ Peeked(stream) # EOF /\ Reads("string", s)
    <3>1. Consumed(s) = n + 1
      BY <1>0, <2>6 DEF Beyond
    <3>2. from \in Int /\ n + 1 \in Int /\ from < n + 1
      BY <1>0, <1>2, <2>1
    <3>3. ~EscapedIn(text, from, n + 1 + 1)
      BY <2>3, <2>6, <3>2, EscapedNext
    <3>4. \A k \in from + 1..n + 1 : k \in from + 1..n \/ k = n + 1
      BY <1>0, <3>2
    <3>5. \A k \in from + 1..n + 1 : ~(text[k] = mark /\ ~EscapedIn(text, from, k))
      <4> HIDE DEF n, from
      <4> QED
        BY <2>2, <2>3, <2>6, <3>4
    <3> HIDE DEF s, n
    <3> QED
      BY <1>0, <1>2, <2>1, <2>6, <3>1, <3>3, <3>5, StringGoesOn DEF s
  <2> QED
    BY <2>1, <2>4, <2>5, <2>6
<1>4. CASE EndString
  <2>1. CASE ch = EOF
    <3>1. Return("error", start, stream)
      BY <1>4, <2>1 DEF EndString
    <3> QED
      BY <3>1, OtherLong
  <2>2. CASE ch # EOF
    <3>1. mode = "string" /\ ch = mark /\ Return("string", start, stream)
      BY <1>4, <2>2 DEF EndString, StringEnds
    <3>2. from - 1 + 1 = from /\ from - 1 + 2 = from + 1 /\ n > from
      BY <1>2, <2>2, <3>1
    <3>3. \A k \in from + 1..n : (k \in from + 1..n - 1 /\ k # n) \/ k = n
      BY <1>2, <2>2, <3>1
    <3> HIDE DEF n, from
    <3>4. \A k \in from + 1..n : text[k] = text[from] /\ ~EscapedIn(text, from, k) <=> k = n
      BY <1>2, <2>2, <3>1, <3>3
    <3>5. StringAt(text, from - 1, n)
      BY <1>2, <2>2, <3>1, <3>2, <3>4 DEF StringAt
    <3>6. TokenAt(text, "string", from - 1, n)
      BY <3>5 DEF TokenAt
    <3> QED
      BY <3>1, <3>6, ReturnLong DEF n, from
  <2> QED
    BY <2>1, <2>2
<1> QED
  BY <1>1, <1>3, <1>4

\* A number that ends behind character j, where no digit follows.
LEMMA NumberReturns ==
  ASSUME NEW from \in 1..Len(text), NEW j \in Int, NEW s, Return("number", start, s),
         start.from = from, Consumed(s) = j, HasDigit(text, from, j), InNumber(text, from, j),
         j < Len(text) => text[j + 1] \notin Digits
  PROVE  LongInv'
<1>1. from - 1 + 1 = from
  OBVIOUS
<1>2. NumberAt(text, from - 1, j)
  BY <1>1 DEF NumberAt, HasDigit, InNumber
<1>3. TokenAt(text, "number", from - 1, j)
  BY <1>2 DEF TokenAt
<1> QED
  BY <1>3, ReturnLong

LEMMA NumberFacts ==
  ASSUME CoreInv, AheadInv, LongInv, mode \in {"radix", "hex", "bin", "decimal"}
  PROVE  LET n == Consumed(stream)
             from == start.from IN
         /\ n \in 0..Len(text) /\ Len(text) \in Nat /\ from \in 1..Len(text) /\ from <= n
         /\ Upto(Peeked(stream), Consumed(AfterRead(stream))) = n
         /\ Peeked(stream) # EOF => n + 1 <= Len(text) /\ Peeked(stream) = text[n + 1]
         /\ Consumed(PutBack(stream, ch)) = Upto(ch, n)
         /\ ch = EOF => n = Len(text) /\ Upto(ch, n) = n
         /\ ch # EOF => n \in 1..Len(text) /\ ch = text[n] /\ from <= n - 1 /\ Upto(ch, n) = n - 1
         /\ mode # "radix" => InNumber(text, from, Upto(ch, n))
         /\ mode \in {"hex", "bin"} => text[from] \in Digits
         /\ mode = "bin" => text[from + 1] = "b"
         /\ mode = "decimal" => HasDigit(text, from, Upto(ch, n)) \/ ch \in Digits
         /\ mode = "radix" =>
              /\ n = IF ch = EOF THEN from ELSE from + 1
              /\ mark = text[from]
              /\ mark \in Digits \/ (mark = "." /\ ch \in Digits)
<1>1. /\ start.from \in 1..Len(text) /\ start.from <= Consumed(stream)
      /\ ch # EOF => start.from < Consumed(stream)
  BY DEF AheadInv, Started
<1>2. ch # EOF => Upto(ch, Consumed(stream)) = Consumed(stream) - 1
  BY DEF Upto
<1>3. ch = EOF => Upto(ch, Consumed(stream)) = Consumed(stream)
  BY DEF Upto
<1> QED
  BY <1>1, <1>2, <1>3, UptoIs DEF LongInv

\* One more character of a number has been looked at.
LEMMA InNumberNext ==
  ASSUME NEW t, NEW i \in Int, NEW j \in Int, i <= j, InNumber(t, i, j - 1),
         t[j] \in HexDigits \cup {".", "x"}
  PROVE  InNumber(t, i, j)
<1>1. \A k \in i..j : k \in i..j - 1 \/ k = j
  OBVIOUS
<1> QED
  BY <1>1 DEF InNumber

LEMMA InNumberOne ==
  ASSUME NEW t, NEW i \in Int, t[i] \in HexDigits \cup {".", "x"}
  PROVE  InNumber(t, i, i)
<1>1. \A k \in i..i : k = i
  OBVIOUS
<1> QED
  BY <1>1 DEF InNumber

LEMMA HasDigitOne ==
  ASSUME NEW t, NEW i \in Int, NEW j \in Int, NEW k \in i..j, t[k] \in Digits
  PROVE  HasDigit(t, i, j)
BY DEF HasDigit

LEMMA StartNumberLong ==
  ASSUME CoreInv, StartNumber
  PROVE  LongInv'
<1> DEFINE n == Consumed(stream)
<1>1. /\ AtToken /\ ch # EOF
      /\ ch \in Digits \/ (ch = "." /\ Second \in Digits)
      /\ mode' = "radix" /\ ch' = Peeked(WithoutSecond) /\ stream' = AfterRead(WithoutSecond)
      /\ text' = text /\ start'.from = Consumed(WithoutSecond) /\ mark' = ch
  BY DEF StartNumber, AtOther, AtNumber, Reads, Goto, Place
<1>2. /\ n \in 1..Len(text) /\ ch = text[n] /\ TextOK(text) /\ Len(text) \in Nat
      /\ Good(text, WithoutSecond) /\ Consumed(WithoutSecond) = n
  BY <1>1, AheadText
<1>3. /\ Peeked(WithoutSecond) = At(text, n + 1) /\ (Peeked(WithoutSecond) = EOF <=> n = Len(text))
      /\ Consumed(AfterRead(WithoutSecond)) = Beyond(text, n)
  BY <1>2, PeekedIs, AfterReadIs
<1>4. Second = Peeked(WithoutSecond)
  BY <1>3, CoreFacts DEF Second
<1>5. Consumed(AfterRead(WithoutSecond)) = IF Peeked(WithoutSecond) = EOF THEN n ELSE n + 1
  BY <1>2, <1>3 DEF Beyond
<1> HIDE DEF n
<1> QED
  BY <1>1, <1>2, <1>4, <1>5 DEF LongInv

LEMMA RadixLong ==
  ASSUME CoreInv, AheadInv, LongInv, Radix \/ Octal
  PROVE  LongInv'
<1> DEFINE n == Consumed(stream)
           from == start.from
<1>1. mode = "radix"
  BY DEF Radix, Octal
<1>2. /\ n \in 0..Len(text) /\ Len(text) \in Nat /\ from \in 1..Len(text)
      /\ Upto(Peeked(stream), Consumed(AfterRead(stream))) = n
      /\ Consumed(PutBack(stream, ch)) = Upto(ch, n)
      /\ Upto(ch, n) = from
      /\ ch # EOF => n = from + 1 /\ n \in 1..Len(text) /\ ch = text[from + 1]
      /\ text[from] \in Digits \/ (text[from] = "." /\ ch \in Digits)
  BY <1>1, NumberFacts
<1>3. InNumber(text, from, from)
  BY <1>2, InNumberOne DEF HexDigits
<1>4. ch \notin Digits => HasDigit(text, from, from)
  BY <1>2, HasDigitOne
<1>5. CASE Octal
  <2>1. ch = "o" /\ Return("number", start, PutBack(stream, ch))
    BY <1>5 DEF Octal
  <2>2. ch # EOF /\ ch \notin Digits
    BY <2>1 DEF EOF, Digits
  <2> HIDE DEF n, from
  <2> QED
    BY <1>2, <1>3, <1>4, <2>1, <2>2, NumberReturns DEF from
<1>6. CASE Radix /\ ch \in {"x", "b"}
  <2>1. /\ mode' = IF ch = "x" THEN "hex" ELSE "bin"
        /\ ch' = Peeked(stream) /\ stream' = AfterRead(stream) /\ text' = text /\ start' = start
    BY <1>6 DEF Radix, Reads, Goto
  <2>2. ch # EOF /\ ch \notin Digits /\ ch \in HexDigits \cup {".", "x"}
    BY <1>6 DEF EOF, Digits, HexDigits
  <2>3. text[from] \in Digits /\ n = from + 1 /\ text[n] = ch
    BY <1>2, <2>2
  <2>4. InNumber(text, from, n)
    <3>1. n - 1 = from /\ from <= n /\ n \in Int /\ from \in Int
      BY <1>2, <2>3
    <3> HIDE DEF n, from
    <3> QED
      BY <1>3, <2>2, <2>3, <3>1, InNumberNext
  <2>5. ch # "x" => ch = "b"
    BY <1>6
  <2> HIDE DEF n
  <2> QED
    BY <1>2, <2>1, <2>3, <2>4, <2>5 DEF LongInv
<1>7. CASE Radix /\ ch \notin {"x", "b"}
  <2>1. mode' = "decimal" /\ ch' = ch /\ stream' = stream /\ text' = text /\ start' = start
    BY <1>7 DEF Radix, Goto
  <2> QED
    BY <1>2, <1>3, <1>4, <2>1 DEF LongInv
<1> QED
  BY <1>5, <1>6, <1>7

LEMMA InRadixLong ==
  ASSUME CoreInv, AheadInv, LongInv, DigitInRadix \/ EndRadix
  PROVE  LongInv'
<1> DEFINE n == Consumed(stream)
           from == start.from
           upto == Upto(ch, n)
<1>1. mode \in {"hex", "bin"}
  BY DEF DigitInRadix, EndRadix
<1>2. /\ n \in 0..Len(text) /\ Len(text) \in Nat /\ from \in 1..Len(text) /\ from <= n
      /\ Upto(Peeked(stream), Consumed(AfterRead(stream))) = n
      /\ Consumed(PutBack(stream, ch)) = upto /\ InNumber(text, from, upto)
      /\ ch = EOF => upto = n /\ n = Len(text)
      /\ ch # EOF => upto = n - 1 /\ n \in 1..Len(text) /\ ch = text[n] /\ from <= n - 1
      /\ text[from] \in Digits /\ (mode = "bin" => text[from + 1] = "b")
  BY <1>1, NumberFacts
<1>3. CASE DigitInRadix
  <2>1. /\ mode' = mode /\ ch' = Peeked(stream) /\ stream' = AfterRead(stream) /\ text' = text
        /\ start' = start /\ ch \in HexDigits
    BY <1>3 DEF DigitInRadix, Reads, Goto, HexDigits
  <2>2. ch # EOF
    BY <2>1 DEF HexDigits, Digits, EOF
  <2>3. InNumber(text, from, n)
    <3> HIDE DEF n, from, upto
    <3> QED
      BY <1>2, <2>1, <2>2, InNumberNext
  <2> HIDE DEF n, upto
  <2> QED
    BY <1>1, <1>2, <2>1, <2>3 DEF LongInv
<1>4. CASE EndRadix
  <2>1. ch \notin Digits /\ Return("number", start, PutBack(stream, ch))
    BY <1>4 DEF EndRadix, HexDigits
  <2>2. upto \in Int /\ from \in from..upto /\ from \in Int
    BY <1>2
  <2>3. upto < Len(text) => text[upto + 1] \notin Digits
    BY <1>2, <2>1
  <2> HIDE DEF n, from, upto
  <2>4. HasDigit(text, from, upto)
    BY <1>2, <2>2, HasDigitOne
  <2> QED
    BY <1>2, <2>1, <2>2, <2>3, <2>4, NumberReturns DEF from
<1> QED
  BY <1>3, <1>4

LEMMA DecimalLong ==
  ASSUME CoreInv, AheadInv, LongInv, CharInNumber \/ EndNumber
  PROVE  LongInv'
<1> DEFINE n == Consumed(stream)
           from == start.from
           upto == Upto(ch, n)
           c == Peeked(stream)
           s == PutBack(AfterRead(stream), c)
<1>1. mode = "decimal"
  BY DEF CharInNumber, EndNumber
<1>2. /\ n \in 0..Len(text) /\ Len(text) \in Nat /\ from \in 1..Len(text) /\ from <= n
      /\ Upto(c, Consumed(AfterRead(stream))) = n
      /\ c # EOF => n + 1 <= Len(text) /\ c = text[n + 1]
      /\ Consumed(PutBack(stream, ch)) = upto /\ InNumber(text, from, upto)
      /\ ch = EOF => upto = n /\ n = Len(text)
      /\ ch # EOF => upto = n - 1 /\ n \in 1..Len(text) /\ ch = text[n] /\ from <= n - 1
      /\ HasDigit(text, from, upto) \/ ch \in Digits
  BY <1>1, NumberFacts
<1>3. c = EOF <=> n = Len(text)
  BY CoreFacts
<1>4. CASE CharInNumber
  <2>1. ch \in Decimal /\ ch # EOF /\ ch \in HexDigits \cup {".", "x"}
    BY <1>4 DEF CharInNumber, Decimal, HexDigits, Digits, EOF
  <2>2. InNumber(text, from, n)
    <3> HIDE DEF n, from, upto
    <3> QED
      BY <1>2, <2>1, InNumberNext
  <2>3. HasDigit(text, from, n)
    <3>1. CASE ch \in Digits
      <4>1. n \in from..n /\ from \in Int /\ n \in Int
        BY <1>2
      <4> HIDE DEF n, from
      <4> QED
        BY <1>2, <2>1, <3>1, <4>1, HasDigitOne
    <3>2. CASE HasDigit(text, from, upto)
      <4>1. PICK k \in from..upto : text[k] \in Digits
        BY <3>2 DEF HasDigit
      <4>2. k \in from..n
        BY <1>2, <2>1
      <4> HIDE DEF n, from
      <4> QED
        BY <4>1, <4>2 DEF HasDigit
    <3> QED
      BY <1>2, <3>1, <3>2
  <2>4. \/ /\ mode' = "decimal" /\ ch' = c /\ stream' = AfterRead(stream)
           /\ text' = text /\ start' = start
        \/ c \notin Digits /\ Return("number", start, s)
    BY <1>4 DEF CharInNumber, Reads, Goto
  <2>5. Consumed(s) = n
    BY CoreFacts
  <2>6. c \notin Digits /\ n < Len(text) => text[n + 1] \notin Digits
    BY <1>2, <1>3
  <2> HIDE DEF n, c, s
  <2>7. ASSUME c \notin Digits, Return("number", start, s) PROVE LongInv'
    <3>1. n \in Int
      BY <1>2
    <3> HIDE DEF from
    <3> QED
      BY <1>2, <2>2, <2>3, <2>5, <2>6, <2>7, <3>1, NumberReturns DEF from
  <2> QED
    BY <1>2, <2>2, <2>3, <2>4, <2>7 DEF LongInv
<1>5. CASE EndNumber
  <2>1. ch \notin Digits /\ Return("number", start, PutBack(stream, ch))
    BY <1>5 DEF EndNumber, Decimal
  <2>2. upto \in Int /\ HasDigit(text, from, upto)
    BY <1>2, <2>1
  <2>3. upto < Len(text) => text[upto + 1] \notin Digits
    BY <1>2, <2>1
  <2> HIDE DEF n, from, upto
  <2> QED
    BY <1>2, <2>1, <2>2, <2>3, NumberReturns DEF from
<1> QED
  BY <1>4, <1>5

LEMMA EndLong ==
  ASSUME CoreInv, AtEnd
  PROVE  LongInv'
<1> DEFINE p == [Place(stream) EXCEPT !.from = Consumed(stream) + 1]
<1>1. mode = "skip" /\ ch = EOF /\ Return("end", p, stream)
  BY DEF AtEnd, AtToken, CoreInv, EOF
<1>2. Consumed(stream) = Len(text)
  BY <1>1, UptoIs
<1>3. TokenAt(text, "end", p.from - 1, Consumed(stream))
  BY <1>2 DEF TokenAt
<1> HIDE DEF p
<1> QED
  BY <1>1, <1>3, ReturnLong

LEMMA LexemeLong ==
  ASSUME CoreInv, AheadInv, LongInv, Lexeme
  PROVE  LongInv'
<1>1. CASE AtEnd \/ StartWord \/ CharInWord \/ EndWord
  BY <1>1, EndLong, WordLong
<1>2. CASE ThreeSymbol \/ TwoSymbol \/ OneSymbol
  BY <1>2, ThreeLong, TwoLong, OneLong
<1>3. CASE Illegal
  <2>1. Return("invalid", Place(stream), WithoutSecond)
    BY <1>3 DEF Illegal
  <2> QED
    BY <2>1, OtherLong
<1>4. CASE StartString \/ CharInString \/ EndString
  BY <1>4, StringLong
<1>5. CASE StartNumber \/ Radix \/ Octal \/ DigitInRadix \/ EndRadix \/ CharInNumber \/ EndNumber
  BY <1>5, StartNumberLong, RadixLong, InRadixLong, DecimalLong
<1> QED
  BY <1>1, <1>2, <1>3, <1>4, <1>5 DEF Lexeme

\* Space, comments and regular expressions promise nothing of what they scan.
LEMMA OtherwiseLong ==
  ASSUME CoreInv, Call(TRUE) \/ Call(FALSE) \/ Skipping \/ Regex
  PROVE  LongInv'
<1>1. CASE Call(TRUE) \/ Call(FALSE) \/ SkipSpace \/ LineComment \/ SkipLine \/ BlockComment
           \/ SkipBlock \/ EndBlock
  <2>1. mode' \in Skips
    BY <1>1 DEF Call, SkipSpace, LineComment, SkipLine, BlockComment, SkipBlock, EndBlock, Reads, Goto,
                Skips
  <2> QED
    BY <2>1, ElsewhereLong DEF Skips
<1>2. CASE EndBlockAtEnd
  <2>1. Return("error", Place(stream), stream)
    BY <1>2 DEF EndBlockAtEnd
  <2> QED
    BY <2>1, OtherLong
<1>3. CASE DivideAtEnd
  BY <1>3, OneLong
<1>4. CASE DivideOrRegex \/ PlainInRegex \/ EscapeInRegex \/ OpenClass \/ CloseClass
           \/ AbandonRegex \/ UndoRegex \/ CloseRegex \/ RegexFlag
  <2>1. mode' \in {"token", "regex", "class", "undo", "flags"}
    BY <1>4 DEF DivideOrRegex, PlainInRegex, EscapeInRegex, OpenClass, CloseClass, AbandonRegex,
                UndoRegex, CloseRegex, RegexFlag, Reads, Goto
  <2> QED
    BY <2>1, ElsewhereLong
<1>5. CASE CharInClass
  <2>1. mode' = "class" \/ \E s : Return("error", start, s)
    BY <1>5 DEF CharInClass, Reads, Goto
  <2> QED
    BY <2>1, ElsewhereLong, OtherLong
<1>6. CASE EndRegex
  <2>1. Return("regex", start, PutBack(stream, ch))
    BY <1>6 DEF EndRegex
  <2> QED
    BY <2>1, OtherLong
<1> QED
  BY <1>1, <1>2, <1>3, <1>4, <1>5, <1>6 DEF Skipping, Regex

LEMMA LongStep ==
  ASSUME CoreInv, AheadInv, LongInv, [Next]_vars
  PROVE  LongInv'
<1>1. CASE UNCHANGED vars
  BY <1>1 DEF LongInv, vars, local
<1>2. CASE Peek \/ Advance
  BY <1>2, OtherwiseLong DEF Peek, Advance
<1>3. CASE Step
  BY <1>3, OtherwiseLong, LexemeLong DEF Step
<1> QED
  BY <1>1, <1>2, <1>3 DEF Next

\* The longest match of advance_internal: every symbol, word, string and number is the
\* longest that begins where it begins, and the end is found at the end of the text only:
\* on every text that leaves no class open and, on any text, as long as no class is
\* given up.
THEOREM TokensAreLongest ==
  /\ Spec => []TokenIsLongest
  /\ Spec /\ [][~GivesUpClass]_vars => []Longest
<1>1. Init => AheadInv /\ LongInv
  <2> SUFFICES ASSUME Init PROVE AheadInv /\ LongInv
    OBVIOUS
  <2>1. mode = "idle" /\ token.kind = "none"
    BY DEF Init, NoToken
  <2> QED
    BY <2>1 DEF AheadInv, LongInv, TokenAt, Started
<1>2. ASSUME CoreInv, LongInv PROVE Longest
  <2> DEFINE i == token.from
             j == token.to
             kind == token.kind
  <2> SUFFICES ASSUME mode = "idle" PROVE IsLongest(kind, i, j)
    BY DEF Longest
  <2>1. TokenAt(text, kind, i, j)
    BY <1>2 DEF LongInv
  <2> HIDE DEF i, j, kind
  <2>2. CASE kind = "symbol"
    BY <2>1, <2>2 DEF TokenAt, SymbolAt, IsLongest, Lexed
  <2>3. CASE kind = "word"
    BY <2>1, <2>3 DEF TokenAt, WordAt, IsLongest
  <2>4. CASE kind = "string"
    <3>1. StringAt(text, i, j)
      BY <2>1, <2>4 DEF TokenAt
    <3> QED
      BY <2>4, <3>1 DEF StringAt, IsLongest
  <2>5. CASE kind = "number"
    BY <2>1, <2>5 DEF TokenAt, NumberAt, IsLongest
  <2>6. CASE kind = "end"
    BY <2>1, <2>6 DEF TokenAt, IsLongest
  <2>7. CASE kind \notin {"symbol", "word", "string", "number", "end"}
    BY <2>7 DEF IsLongest
  <2> QED
    BY <2>2, <2>3, <2>4, <2>5, <2>6, <2>7
<1>3. Spec /\ [][~GivesUpClass]_vars => []Longest
  BY <1>1, <1>2, AheadStep, LongStep, CoreIsInvariant, PTL DEF Spec
<1>4. ~ClassesClosed \/ Longest => TokenIsLongest
  BY DEF ClassesClosed, TokenIsLongest
<1> QED
  BY <1>3, <1>4, OnlyClassesAreGivenUp, PTL
===============================================================================
