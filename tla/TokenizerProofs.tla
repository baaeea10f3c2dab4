--------------------------- MODULE TokenizerProofs ---------------------------
(***************************************************************************)
(* The tokenizer of tokenizer.h, for texts of any length: where spaces are *)
(* does not matter, and words that have an entry with the marker come back *)
(* from their ids as they were typed.                                      *)
(***************************************************************************)
EXTENDS MCEdgeEngine, EdgeEngineProofs, SubsequencesProofs

-----------------------------------------------------------------------------
(***************************************************************************)
(* Words.                                                                  *)
(***************************************************************************)

\* Nothing comes before a text or after it.
LEMMA EmptyConcat ==
  ASSUME NEW C, NEW s \in Seq(C)
  PROVE  <<>> \o s = s /\ s \o <<>> = s
PROOF
  OBVIOUS

\* The characters of a word are those of the text.
LEMMA WordType ==
  ASSUME NEW C, NEW text \in Seq(C), NEW i \in 1..Len(text)
  PROVE  WordAt(text, i) \in Seq(C)
PROOF
  BY AtType DEF WordAt

\* What Words is taken from: the word at every position.
WordsFrom(text) == [i \in DOMAIN text |-> WordAt(text, i)]

\* There is one for every position.
LEMMA WordsFromType ==
  ASSUME NEW C, NEW text \in Seq(C)
  PROVE  /\ WordsFrom(text) \in Seq(Seq(C)) /\ Len(WordsFrom(text)) = Len(text)
         /\ \A i \in 1..Len(text) : WordsFrom(text)[i] = WordAt(text, i)
PROOF
  <1>1. DOMAIN text = 1..Len(text) /\ Len(text) \in Nat
    OBVIOUS
  <1>2. \A i \in 1..Len(text) : WordAt(text, i) \in Seq(C)
    BY WordType
  <1>3. WordsFrom(text) \in [1..Len(text) -> Seq(C)]
    BY <1>1, <1>2 DEF WordsFrom
  <1>. QED
    BY <1>1, <1>3 DEF WordsFrom

\* The words of a text are texts.
LEMMA WordsType ==
  ASSUME NEW C, NEW text \in Seq(C)
  PROVE  Words(text) \in Seq(Seq(C))
PROOF
  <1>1. Words(text) = At(WordsFrom(text), WordStarts(text))
    BY Zenon DEF Words, WordsFrom
  <1>. QED
    BY <1>1, WordsFromType, AtType

\* A text that is cut in two at a space.
CutAtSpace(text, left, right) == text = (left \o <<Space>>) \o right

\* Its characters, before the space, at it and after it.
LEMMA CutShape ==
  ASSUME NEW C, Space \in C, NEW left \in Seq(C), NEW right \in Seq(C),
         NEW text, CutAtSpace(text, left, right)
  PROVE  /\ text \in Seq(C) /\ Len(text) = Len(left) + 1 + Len(right)
         /\ \A i \in 1..Len(left) : text[i] = left[i]
         /\ text[Len(left) + 1] = Space
         /\ \A j \in 1..Len(right) : text[Len(left) + 1 + j] = right[j]
PROOF
  <1>. DEFINE l == left \o <<Space>>
  <1>1. <<Space>> \in Seq(C) /\ Len(<<Space>>) = 1 /\ <<Space>>[1] = Space
    OBVIOUS
  <1>2. l \in Seq(C) /\ Len(l) = Len(left) + 1 /\ l[Len(left) + 1] = Space
    BY <1>1, ConcatShape
  <1>3. \A i \in 1..Len(left) : l[i] = left[i]
    BY <1>1, ConcatShape
  <1>. HIDE DEF l
  <1>4. text = l \o right
    BY DEF CutAtSpace, l
  <1>5. /\ text \in Seq(C) /\ Len(text) = Len(l) + Len(right)
        /\ \A i \in 1..Len(l) : text[i] = l[i]
        /\ \A j \in 1..Len(right) : text[Len(l) + j] = right[j]
    <2>1. /\ l \o right \in Seq(C) /\ Len(l \o right) = Len(l) + Len(right)
          /\ \A i \in 1..Len(l) : (l \o right)[i] = l[i]
          /\ \A j \in 1..Len(right) : (l \o right)[Len(l) + j] = right[j]
      <3>1. l \in Seq(C)
        BY <1>2
      <3>. QED
        BY <3>1, ConcatShape
    <2>. QED
      BY <1>4, <2>1, Zenon
  <1>6. text \in Seq(C) /\ Len(text) = Len(left) + 1 + Len(right)
    BY <1>2, <1>5
  <1>7. ASSUME NEW i \in 1..Len(left) PROVE text[i] = left[i]
    <2>1. i \in 1..Len(l)
      BY <1>2
    <2>. QED
      BY <1>3, <1>5, <2>1
  <1>8. text[Len(left) + 1] = Space
    <2>1. Len(left) + 1 \in 1..Len(l)
      BY <1>2
    <2>. QED
      BY <1>2, <1>5, <2>1
  <1>9. \A j \in 1..Len(right) : text[Len(left) + 1 + j] = right[j]
    BY <1>2, <1>5
  <1>. QED
    BY <1>6, <1>7, <1>8, <1>9

\* The positions of a word: from i up to the next space.
WordFrom(text, i) == {j \in i..Len(text) : \A k \in i..j : text[k] # Space}

\* A word before the cut is one of the left part.
LEMMA WordOfLeft ==
  ASSUME NEW C, Space \in C, NEW left \in Seq(C), NEW right \in Seq(C),
         NEW text, CutAtSpace(text, left, right), NEW i \in 1..Len(left)
  PROVE  WordAt(text, i) = WordAt(left, i)
PROOF
  <1>. DEFINE rest == <<Space>> \o right
  <1>0. Len(left) \in Nat /\ i \in Nat
    OBVIOUS
  <1>1. /\ text \in Seq(C) /\ Len(text) = Len(left) + 1 + Len(right)
        /\ \A j \in 1..Len(left) : text[j] = left[j]
        /\ text[Len(left) + 1] = Space
    BY CutShape
  <1>2. <<Space>> \in Seq(C) /\ rest \in Seq(C)
    OBVIOUS
  <1>3. text = left \o rest
    BY <1>2 DEF CutAtSpace
  <1>. HIDE DEF rest
  <1>4. \A j \in WordFrom(text, i) : j \in 1..Len(left)
    <2>. SUFFICES ASSUME NEW j \in WordFrom(text, i), Len(left) + 1 <= j PROVE FALSE
      BY <1>0, <1>1 DEF WordFrom
    <2>1. j \in Int /\ Len(left) + 1 \in i..j
      BY <1>0, <1>1 DEF WordFrom
    <2>. QED
      BY <1>1, <2>1 DEF WordFrom
  <1>5. KeptAfter({}, left, rest, WordFrom(text, i))
    <2>1. \A j \in 1..Len(rest) : Len(left) + j \notin 1..Len(left)
      BY <1>2
    <2>. QED
      BY <1>4, <2>1 DEF KeptAfter
  <1>6. At(text, WordFrom(text, i)) = At(left, WordFrom(text, i)) \o At(rest, {})
    BY <1>2, <1>3, <1>5, AtJoin
  <1>7. At(rest, {}) = <<>>
    BY <1>2, AtNone
  <1>8. At(left, WordFrom(text, i)) = At(left, WordFrom(left, i))
    <2>1. ASSUME NEW j \in 1..Len(left)
          PROVE  j \in WordFrom(text, i) <=> j \in WordFrom(left, i)
      <3>1. \A k \in i..j : text[k] = left[k]
        BY <1>0, <1>1
      <3>2. j \in i..Len(text) <=> j \in i..Len(left)
        BY <1>0, <1>1
      <3>. QED
        BY <3>1, <3>2 DEF WordFrom
    <2>. QED
      BY <1>0, <2>1, AtCong
  <1>9. At(left, WordFrom(text, i)) \in Seq(C)
    BY AtType
  <1>10. At(text, WordFrom(text, i)) = At(left, WordFrom(left, i))
    BY <1>6, <1>7, <1>8, <1>9, EmptyConcat, Zenon
  <1>. QED
    BY <1>10, Zenon DEF WordAt, WordFrom

\* A word after the cut is one of the right part.
LEMMA WordOfRight ==
  ASSUME NEW C, Space \in C, NEW left \in Seq(C), NEW right \in Seq(C),
         NEW text, CutAtSpace(text, left, right), NEW i \in 1..Len(right)
  PROVE  WordAt(text, Len(left) + 1 + i) = WordAt(right, i)
PROOF
  <1>. DEFINE l == left \o <<Space>>
              o == Len(left) + 1
  <1>0. Len(left) \in Nat /\ i \in Nat /\ Len(right) \in Nat /\ o \in Nat
    OBVIOUS
  <1>1. /\ text \in Seq(C) /\ Len(text) = o + Len(right)
        /\ \A j \in 1..Len(right) : text[o + j] = right[j]
    <2>. HIDE DEF l
    <2>. QED
      BY CutShape
  <1>2. l \in Seq(C) /\ Len(l) = o
    <2>1. <<Space>> \in Seq(C) /\ Len(<<Space>>) = 1
      OBVIOUS
    <2>. QED
      BY <2>1, ConcatShape
  <1>3. text = l \o right
    BY DEF CutAtSpace
  <1>. HIDE DEF l, o
  <1>4. \A j \in 1..Len(l) : j \notin WordFrom(text, o + i)
    BY <1>0, <1>2 DEF WordFrom
  <1>5. KeptAfter(WordFrom(right, i), l, right, WordFrom(text, o + i))
    <2>1. ASSUME NEW j \in 1..Len(right)
          PROVE  j \in WordFrom(right, i) <=> o + j \in WordFrom(text, o + i)
      <3>1. j \in i..Len(right) <=> o + j \in (o + i)..Len(text)
        BY <1>0, <1>1
      <3>2. ASSUME NEW k \in i..j PROVE o + k \in (o + i)..(o + j) /\ text[o + k] = right[k]
        BY <1>0, <1>1
      <3>3. ASSUME NEW k \in (o + i)..(o + j) PROVE k - o \in i..j /\ text[k] = right[k - o]
        <4>1. k - o \in i..j /\ k - o \in 1..Len(right) /\ o + (k - o) = k
          BY <1>0
        <4>. QED
          BY <1>1, <4>1
      <3>4. (\A k \in i..j : right[k] # Space) <=> (\A k \in (o + i)..(o + j) : text[k] # Space)
        BY <3>2, <3>3
      <3>. QED
        BY <3>1, <3>4 DEF WordFrom
    <2>. QED
      BY <1>2, <2>1 DEF KeptAfter
  <1>6. At(text, WordFrom(text, o + i)) = At(l, WordFrom(text, o + i)) \o At(right, WordFrom(right, i))
    BY <1>2, <1>3, <1>5, AtJoin
  <1>7. At(l, WordFrom(text, o + i)) = <<>>
    BY <1>2, <1>4, AtNone
  <1>8. At(right, WordFrom(right, i)) \in Seq(C)
    BY AtType
  <1>9. At(text, WordFrom(text, o + i)) = At(right, WordFrom(right, i))
    BY <1>6, <1>7, <1>8, EmptyConcat, Zenon
  <1>10. WordAt(text, o + i) = WordAt(right, i)
    BY <1>9, Zenon DEF WordAt, WordFrom
  <1>. QED
    BY <1>10 DEF o

-----------------------------------------------------------------------------
(***************************************************************************)
(* Spaces only separate.                                                   *)
(***************************************************************************)

\* Words start at the same places in a text and in its parts.
LEMMA StartsAtCut ==
  ASSUME NEW C, Space \in C, NEW left \in Seq(C), NEW right \in Seq(C),
         NEW text, CutAtSpace(text, left, right)
  PROVE  /\ \A i \in 1..Len(left) : i \in WordStarts(text) <=> i \in WordStarts(left)
         /\ Len(left) + 1 \notin WordStarts(text)
         /\ \A j \in 1..Len(right) :
              Len(left) + 1 + j \in WordStarts(text) <=> j \in WordStarts(right)
PROOF
  <1>1. /\ text \in Seq(C) /\ Len(text) = Len(left) + 1 + Len(right)
        /\ \A i \in 1..Len(left) : text[i] = left[i]
        /\ text[Len(left) + 1] = Space
        /\ \A j \in 1..Len(right) : text[Len(left) + 1 + j] = right[j]
    BY CutShape
  <1>2. Len(left) \in Nat /\ Len(right) \in Nat
    OBVIOUS
  <1>3. ASSUME NEW i \in 1..Len(left)
        PROVE  i \in WordStarts(text) <=> i \in WordStarts(left)
    <2>1. i \in DOMAIN text /\ i \in DOMAIN left /\ text[i] = left[i]
      BY <1>1, <1>2
    <2>2. i # 1 => text[i - 1] = left[i - 1]
      <3>1. i # 1 => i - 1 \in 1..Len(left)
        BY <1>2
      <3>. QED
        BY <1>1, <3>1
    <2>. QED
      BY <2>1, <2>2, Zenon DEF WordStarts
  <1>4. ASSUME NEW j \in 1..Len(right)
        PROVE  Len(left) + 1 + j \in WordStarts(text) <=> j \in WordStarts(right)
    <2>. DEFINE i == Len(left) + 1 + j
    <2>1. i \in DOMAIN text /\ j \in DOMAIN right /\ text[i] = right[j] /\ i # 1
      BY <1>1, <1>2
    <2>2. j = 1 => text[i - 1] = Space
      BY <1>1, <1>2
    <2>3. j # 1 => text[i - 1] = right[j - 1]
      <3>1. j # 1 => j - 1 \in 1..Len(right) /\ Len(left) + 1 + (j - 1) = i - 1
        BY <1>2
      <3>. QED
        BY <1>1, <3>1
    <2>. HIDE DEF i
    <2>4. i \in WordStarts(text) <=> j \in WordStarts(right)
      BY <2>1, <2>2, <2>3, Zenon DEF WordStarts
    <2>. QED
      BY <2>4 DEF i
  <1>. QED
    BY <1>1, <1>3, <1>4 DEF WordStarts

\* The words of a text are those of its parts (tokenizer.h:55: >> skips blanks).
LEMMA WordsAtCut ==
  ASSUME NEW C, Space \in C, NEW left \in Seq(C), NEW right \in Seq(C),
         NEW text, CutAtSpace(text, left, right)
  PROVE  Words(text) = Words(left) \o Words(right)
PROOF
  <1>. DEFINE W == Seq(C)
              all == WordsFrom(text)
              l   == WordsFrom(left)
              r   == WordsFrom(right)
              gap == <<WordAt(text, Len(left) + 1)>>
              o   == Len(left) + 1
              starts == WordStarts(text)
  <1>0. Len(left) \in Nat /\ Len(right) \in Nat /\ o \in Nat
    OBVIOUS
  <1>1. /\ text \in Seq(C) /\ Len(text) = o + Len(right)
    BY CutShape
  <1>2. /\ l \in Seq(W) /\ Len(l) = Len(left)
        /\ \A i \in 1..Len(left) : l[i] = WordAt(left, i)
    BY WordsFromType
  <1>3. /\ r \in Seq(W) /\ Len(r) = Len(right)
        /\ \A i \in 1..Len(right) : r[i] = WordAt(right, i)
    BY WordsFromType
  <1>4. /\ all \in Seq(W) /\ Len(all) = o + Len(right)
        /\ \A i \in 1..o + Len(right) : all[i] = WordAt(text, i)
    BY <1>1, WordsFromType
  <1>5. /\ gap \in Seq(W) /\ Len(gap) = 1 /\ gap[1] = WordAt(text, o)
    <2>1. o \in 1..Len(text)
      BY <1>0, <1>1
    <2>2. WordAt(text, o) \in W
      BY <1>1, <2>1, WordType
    <2>. QED
      BY <2>2
  <1>6. /\ \A i \in 1..Len(left) : i \in starts <=> i \in WordStarts(left)
        /\ o \notin starts
        /\ \A j \in 1..Len(right) : o + j \in starts <=> j \in WordStarts(right)
    BY StartsAtCut
  <1>7. /\ \A i \in 1..Len(left) : WordAt(text, i) = WordAt(left, i)
        /\ \A j \in 1..Len(right) : WordAt(text, o + j) = WordAt(right, j)
    BY WordOfLeft, WordOfRight
  <1>. HIDE DEF W, all, l, r, gap, o, starts
  <1>. DEFINE lg  == l \o gap
              lgr == lg \o r
  <1>8. /\ lg \in Seq(W) /\ Len(lg) = o
        /\ \A i \in 1..Len(left) : lg[i] = l[i]
    <2>1. /\ lg \in Seq(W) /\ Len(lg) = Len(l) + Len(gap) /\ \A i \in 1..Len(l) : lg[i] = l[i]
      BY <1>2, <1>5, ConcatShape
    <2>. QED
      BY <1>2, <1>5, <2>1 DEF o
  <1>. HIDE DEF lg
  <1>9. /\ lgr \in Seq(W) /\ Len(lgr) = o + Len(right)
        /\ \A i \in 1..o : lgr[i] = lg[i]
        /\ \A j \in 1..Len(right) : lgr[o + j] = r[j]
    <2>1. /\ lgr \in Seq(W) /\ Len(lgr) = Len(lg) + Len(r)
          /\ \A i \in 1..Len(lg) : lgr[i] = lg[i]
          /\ \A j \in 1..Len(r) : lgr[Len(lg) + j] = r[j]
      <3>1. lg \in Seq(W) /\ r \in Seq(W)
        BY <1>3, <1>8
      <3>. QED
        BY <3>1, ConcatShape
    <2>. QED
      BY <1>3, <1>8, <2>1
  <1>. HIDE DEF lgr
  <1>10. At(all, starts) = At(lgr, starts)
    <2>1. ASSUME NEW i \in 1..Len(all), i \in starts
          PROVE  all[i] = lgr[i]
      <3>1. i # o /\ i \in Nat /\ i \in 1..o + Len(right) /\ all[i] = WordAt(text, i)
        BY <1>0, <1>4, <1>6, <2>1
      <3>2. CASE i < o
        <4>1. i \in 1..Len(left) /\ i \in 1..o
          BY <1>0, <3>1, <3>2 DEF o
        <4>. QED
          BY <1>2, <1>7, <1>8, <1>9, <3>1, <4>1
      <3>3. CASE o < i
        <4>1. i - o \in 1..Len(right) /\ o + (i - o) = i
          BY <1>0, <3>1, <3>3
        <4>2. lgr[i] = r[i - o] /\ WordAt(text, i) = WordAt(right, i - o)
          BY <1>7, <1>9, <4>1
        <4>. QED
          BY <1>3, <3>1, <4>1, <4>2
      <3>. QED
        BY <1>0, <3>1, <3>2, <3>3
    <2>2. Len(all) = Len(lgr) /\ Len(all) \in Nat
      BY <1>0, <1>4, <1>9
    <2>. QED
      BY <2>1, <2>2, AtCong
  <1>11. At(lgr, starts) = At(lg, starts) \o At(r, WordStarts(right))
    <2>1. KeptAfter(WordStarts(right), lg, r, starts)
      BY <1>3, <1>6, <1>8 DEF KeptAfter
    <2>. QED
      BY <1>3, <1>8, <2>1, AtJoin DEF lgr
  <1>12. At(lg, starts) = At(l, starts) \o At(gap, {})
    <2>1. KeptAfter({}, l, gap, starts)
      BY <1>2, <1>5, <1>6 DEF KeptAfter, o
    <2>. QED
      BY <1>2, <1>5, <2>1, AtJoin DEF lg
  <1>13. At(gap, {}) = <<>>
    BY <1>5, AtNone
  <1>14. At(l, starts) = At(l, WordStarts(left))
    <2>1. \A i \in 1..Len(l) : i \in starts <=> i \in WordStarts(left)
      BY <1>2, <1>6
    <2>2. Len(l) \in Nat
      BY <1>2
    <2>. QED
      BY <2>1, <2>2, AtCong
  <1>15. At(l, starts) \in Seq(W)
    BY <1>2, AtType
  <1>16. At(all, starts) = At(l, WordStarts(left)) \o At(r, WordStarts(right))
    BY <1>10, <1>11, <1>12, <1>13, <1>14, <1>15, EmptyConcat, Zenon
  <1>17. /\ Words(text) = At(all, starts)
         /\ Words(left) = At(l, WordStarts(left))
         /\ Words(right) = At(r, WordStarts(right))
    BY Zenon DEF Words, WordsFrom, all, l, r, starts
  <1>. QED
    BY <1>16, <1>17, Zenon

\* Each word has its id, whatever stands around it.
LEMMA EncodeJoins ==
  ASSUME NEW vocab, NEW C, NEW text \in Seq(C), NEW left \in Seq(C), NEW right \in Seq(C),
         Words(text) = Words(left) \o Words(right),
         Words(left) # <<>>, Words(right) # <<>>
  PROVE  Encode(vocab, text) = Encode(vocab, left) \o Encode(vocab, right)
PROOF
  <1>. DEFINE W == Seq(C)
              T == {TokenId(vocab, w) : w \in W}
              Ids(words) == [n \in 1..Len(words) |-> TokenId(vocab, words[n])]
              a == Words(left)
              b == Words(right)
  <1>1. a \in Seq(W) /\ b \in Seq(W)
    BY WordsType
  <1>. HIDE DEF a, b, W
  <1>2. ASSUME NEW words \in Seq(W)
        PROVE  Ids(words) \in Seq(T) /\ Len(Ids(words)) = Len(words)
    <2>1. \A n \in 1..Len(words) : words[n] \in W
      OBVIOUS
    <2>2. Ids(words) \in [1..Len(words) -> T]
      BY <2>1
    <2>3. Len(words) \in Nat
      OBVIOUS
    <2>. DEFINE i == Ids(words)
    <2>. HIDE DEF i, T
    <2>4. i \in Seq(T) /\ Len(i) = Len(words)
      BY <2>2, <2>3 DEF i
    <2>. QED
      BY <2>4 DEF i
  <1>3. /\ a \o b \in Seq(W) /\ Len(a \o b) = Len(a) + Len(b)
        /\ \A i \in 1..Len(a) : (a \o b)[i] = a[i]
        /\ \A j \in 1..Len(b) : (a \o b)[Len(a) + j] = b[j]
    BY <1>1, ConcatShape
  <1>. DEFINE ab == a \o b
              ia == Ids(a)
              ib == Ids(b)
              iab == Ids(ab)
  <1>4. Len(a) \in Nat /\ Len(b) \in Nat
    BY <1>1
  <1>5. /\ ia \in Seq(T) /\ Len(ia) = Len(a) /\ \A n \in 1..Len(a) : ia[n] = TokenId(vocab, a[n])
    BY <1>1, <1>2
  <1>6. /\ ib \in Seq(T) /\ Len(ib) = Len(b) /\ \A n \in 1..Len(b) : ib[n] = TokenId(vocab, b[n])
    BY <1>1, <1>2
  <1>7. /\ iab \in Seq(T) /\ Len(iab) = Len(a) + Len(b)
        /\ \A n \in 1..Len(a) + Len(b) : iab[n] = TokenId(vocab, ab[n])
    <2>1. ab \in Seq(W) /\ Len(ab) = Len(a) + Len(b)
      BY <1>3
    <2>. HIDE DEF ab
    <2>. QED
      BY <1>2, <2>1
  <1>8. /\ \A i \in 1..Len(a) : ab[i] = a[i]
        /\ \A j \in 1..Len(b) : ab[Len(a) + j] = b[j]
    BY <1>3
  <1>. HIDE DEF ab, ia, ib, iab, Ids, T
  <1>9. /\ ia \o ib \in Seq(T) /\ Len(ia \o ib) = Len(a) + Len(b)
        /\ \A i \in 1..Len(a) : (ia \o ib)[i] = ia[i]
        /\ \A j \in 1..Len(b) : (ia \o ib)[Len(a) + j] = ib[j]
    <2>1. /\ ia \o ib \in Seq(T) /\ Len(ia \o ib) = Len(ia) + Len(ib)
          /\ \A i \in 1..Len(ia) : (ia \o ib)[i] = ia[i]
          /\ \A j \in 1..Len(ib) : (ia \o ib)[Len(ia) + j] = ib[j]
      <3>1. ia \in Seq(T) /\ ib \in Seq(T)
        BY <1>5, <1>6
      <3>. QED
        BY <3>1, ConcatShape
    <2>. QED
      BY <1>5, <1>6, <2>1
  <1>10. ASSUME NEW n \in 1..Len(a) + Len(b)
         PROVE  iab[n] = (ia \o ib)[n]
    <2>1. CASE n <= Len(a)
      <3>1. n \in 1..Len(a)
        BY <1>4, <2>1
      <3>. QED
        BY <1>5, <1>7, <1>8, <1>9, <3>1
    <2>2. CASE ~ (n <= Len(a))
      <3>1. n - Len(a) \in 1..Len(b) /\ Len(a) + (n - Len(a)) = n
        BY <1>4, <2>2
      <3>2. ab[n] = b[n - Len(a)] /\ (ia \o ib)[n] = ib[n - Len(a)]
        BY <1>8, <1>9, <3>1
      <3>. QED
        BY <1>6, <1>7, <3>1, <3>2
    <2>. QED
      BY <2>1, <2>2
  <1>11. iab = ia \o ib
    <2>. DEFINE c == ia \o ib
    <2>1. c \in Seq(T) /\ Len(c) = Len(iab) /\ \A n \in 1..Len(iab) : iab[n] = c[n]
      BY <1>7, <1>9, <1>10
    <2>. HIDE DEF c
    <2>2. iab = c
      BY <1>7, <2>1, SeqEqual
    <2>. QED
      BY <2>2 DEF c
  <1>12. ab # <<>>
    <2>1. Len(a) # 0
      BY <1>1 DEF a
    <2>2. Len(ab) # 0
      BY <1>3, <1>4, <2>1 DEF ab
    <2>. QED
      BY <2>2
  <1>13. /\ Encode(vocab, text) = Ids(ab)
         /\ Encode(vocab, left) = Ids(a)
         /\ Encode(vocab, right) = Ids(b)
    <2>1. Words(text) = ab /\ Words(left) = a /\ Words(right) = b /\ a # <<>> /\ b # <<>>
      BY DEF ab, a, b
    <2>. QED
      BY <1>12, <2>1, Zenon DEF Encode, Ids
  <1>. QED
    BY <1>11, <1>13 DEF ia, ib, iab

\* A text with a space is cut there into what comes before and after it.
LEMMA SpaceCuts ==
  ASSUME NEW C, Space \in C, NEW text \in Seq(C), NEW i \in 1..Len(text), text[i] = Space
  PROVE  /\ SubSeq(text, 1, i - 1) \in Seq(C) /\ SubSeq(text, i + 1, Len(text)) \in Seq(C)
         /\ CutAtSpace(text, SubSeq(text, 1, i - 1), SubSeq(text, i + 1, Len(text)))
PROOF
  <1>. DEFINE left  == SubSeq(text, 1, i - 1)
              right == SubSeq(text, i + 1, Len(text))
              cut   == (left \o <<Space>>) \o right
  <1>0. i \in Nat /\ Len(text) \in Nat
    OBVIOUS
  <1>1. left \in Seq(C) /\ Len(left) = i - 1 /\ \A j \in 1..(i - 1) : left[j] = text[j]
    BY <1>0
  <1>2. /\ right \in Seq(C) /\ Len(right) = Len(text) - i
        /\ \A j \in 1..(Len(text) - i) : right[j] = text[i + j]
    BY <1>0
  <1>. HIDE DEF left, right
  <1>3. /\ cut \in Seq(C) /\ Len(cut) = Len(left) + 1 + Len(right)
        /\ \A j \in 1..Len(left) : cut[j] = left[j]
        /\ cut[Len(left) + 1] = Space
        /\ \A j \in 1..Len(right) : cut[Len(left) + 1 + j] = right[j]
    <2>1. CutAtSpace(cut, left, right)
      BY DEF CutAtSpace
    <2>2. left \in Seq(C) /\ right \in Seq(C)
      BY <1>1, <1>2
    <2>. HIDE DEF cut
    <2>. QED
      BY <2>1, <2>2, CutShape
  <1>. HIDE DEF cut
  <1>4. ASSUME NEW j \in 1..Len(text)
        PROVE  text[j] = cut[j]
    <2>1. CASE j < i
      <3>1. j \in 1..Len(left) /\ j \in 1..(i - 1)
        BY <1>0, <1>1, <2>1
      <3>. QED
        BY <1>1, <1>3, <3>1
    <2>2. CASE j = i
      BY <1>0, <1>1, <1>3, <2>2
    <2>3. CASE i < j
      <3>1. /\ j - i \in 1..Len(right) /\ j - i \in 1..(Len(text) - i)
            /\ Len(left) + 1 + (j - i) = j /\ i + (j - i) = j
        BY <1>0, <1>1, <1>2, <2>3
      <3>. QED
        BY <1>2, <1>3, <3>1
    <2>. QED
      BY <1>0, <2>1, <2>2, <2>3
  <1>5. Len(cut) = Len(text)
    BY <1>0, <1>1, <1>2, <1>3
  <1>6. text = cut
    BY <1>3, <1>4, <1>5, SeqEqual
  <1>. QED
    BY <1>1, <1>2, <1>6, Zenon DEF CutAtSpace, cut, left, right

\* What a request asks is a text, and its ids are those of encode.
LEMMA PromptIsText ==
  ASSUME TypeOK, prompt # NoPrompt
  PROVE  prompt \in Seq(Letters \cup {Space}) /\ Encoding[prompt] = Encode(Vocab, prompt)
PROOF
  <1>1. prompt \in Prompts
    BY DEF TypeOK
  <1>. QED
    BY <1>1, MCAssumption

\* For every vocabulary of the engine and prompts of any length: cutting a prompt at a
\* space cuts its ids (tokenizer.h:49-61).
THEOREM SpacesSeparate == Spec => []SpacesOnlySeparate
PROOF
  <1>1. TypeOK => SpacesOnlySeparate
    <2>. SUFFICES ASSUME TypeOK, prompt # NoPrompt,
                         NEW i \in {i \in DOMAIN prompt : prompt[i] = Space}
                  PROVE  LET left  == SubSeq(prompt, 1, i - 1)
                             right == SubSeq(prompt, i + 1, Len(prompt))
                         IN  CASE Words(left) = <<>>  -> Encoding[prompt] = Encode(Vocab, right)
                               [] Words(right) = <<>> -> Encoding[prompt] = Encode(Vocab, left)
                               [] OTHER -> Encoding[prompt] = Encode(Vocab, left) \o Encode(Vocab, right)
      BY DEF SpacesOnlySeparate
    <2>. DEFINE C     == Letters \cup {Space}
                left  == SubSeq(prompt, 1, i - 1)
                right == SubSeq(prompt, i + 1, Len(prompt))
    <2>1. prompt \in Seq(C) /\ Encoding[prompt] = Encode(Vocab, prompt) /\ Space \in C
      BY PromptIsText
    <2>2. i \in 1..Len(prompt) /\ prompt[i] = Space
      BY <2>1
    <2>. HIDE DEF C
    <2>3. left \in Seq(C) /\ right \in Seq(C) /\ CutAtSpace(prompt, left, right)
      BY <2>1, <2>2, SpaceCuts
    <2>. HIDE DEF left, right
    <2>4. Words(prompt) = Words(left) \o Words(right)
      BY <2>1, <2>3, WordsAtCut
    <2>5. Words(left) \in Seq(Seq(C)) /\ Words(right) \in Seq(Seq(C))
      BY <2>3, WordsType
    <2>6. Words(left) = <<>> => Encode(Vocab, prompt) = Encode(Vocab, right)
      <3>1. Words(left) = <<>> => Words(prompt) = Words(right)
        BY <2>4, <2>5, EmptyConcat, Zenon
      <3>. QED
        BY <3>1, Zenon DEF Encode
    <2>7. Words(right) = <<>> => Encode(Vocab, prompt) = Encode(Vocab, left)
      <3>1. Words(right) = <<>> => Words(prompt) = Words(left)
        BY <2>4, <2>5, EmptyConcat, Zenon
      <3>. QED
        BY <3>1, Zenon DEF Encode
    <2>8. Words(left) # <<>> /\ Words(right) # <<>>
            => Encode(Vocab, prompt) = Encode(Vocab, left) \o Encode(Vocab, right)
      BY <2>1, <2>3, <2>4, EncodeJoins, Zenon
    <2>. QED
      BY <2>1, <2>6, <2>7, <2>8 DEF left, right
  <1>. QED
    BY <1>1, EngineTypes, PTL

-----------------------------------------------------------------------------
(***************************************************************************)
(* Words with a marked entry.                                              *)
(***************************************************************************)

\* An entry that is in the vocabulary has an id: that of its last line.
LEMMA LastLine ==
  ASSUME NEW V, NEW vocab \in Seq(V), NEW entry, IdsOf(vocab, entry) # {}
  PROVE  /\ IdOf(vocab, entry) \in Nat /\ IdOf(vocab, entry) < Len(vocab)
         /\ vocab[IdOf(vocab, entry) + 1] = entry
PROOF
  <1>. DEFINE ids0 == IdsOf(vocab, entry)
              left0 == {Len(vocab) - id : id \in ids0}
  <1>1. Len(vocab) \in Nat /\ DOMAIN vocab = 1..Len(vocab)
    OBVIOUS
  <1>2. ASSUME NEW id \in ids0
        PROVE  id \in Nat /\ id < Len(vocab) /\ vocab[id + 1] = entry
    <2>1. PICK n \in DOMAIN vocab : vocab[n] = entry /\ id = n - 1
      BY DEF IdsOf
    <2>2. n \in 1..Len(vocab) /\ id + 1 = n
      BY <1>1, <2>1
    <2>. QED
      BY <1>1, <2>1, <2>2
  <1>3. \E id \in ids0 : \A other \in ids0 : other <= id
    <2>. HIDE DEF ids0
    <2>1. PICK some \in ids0 : TRUE
      BY DEF ids0
    <2>2. left0 \subseteq Nat /\ Len(vocab) - some \in left0
      BY <1>1, <1>2, <2>1
    <2>3. PICK least \in left0 : \A y \in left0 : least <= y
      BY <2>2, LeastNat
    <2>4. PICK id \in ids0 : least = Len(vocab) - id
      OBVIOUS
    <2>5. ASSUME NEW other \in ids0 PROVE other <= id
      <3>1. Len(vocab) - other \in left0
        OBVIOUS
      <3>2. least <= Len(vocab) - other
        BY <2>3, <3>1
      <3>3. id \in Nat /\ other \in Nat
        BY <1>2
      <3>. QED
        BY <1>1, <2>4, <3>2, <3>3
    <2>. QED
      BY <2>5
  <1>4. IdOf(vocab, entry) \in ids0
    BY <1>3, Zenon DEF IdOf
  <1>. QED
    BY <1>2, <1>4

\* A text without markers.
Plain(text) == \A i \in 1..Len(text) : text[i] # Mark

\* A word without markers, found with one, is a space and the word again.
LEMMA UnmarkWord ==
  ASSUME NEW C, NEW word \in Seq(C), Plain(word)
  PROVE  Unmark(<<Mark>> \o word) = <<Space>> \o word
PROOF
  <1>. DEFINE D == C \cup {Mark, Space}
              m == <<Mark>> \o word
              e == <<Space>> \o word
              u == Unmark(m)
  <1>1. /\ <<Mark>> \in Seq(D) /\ <<Space>> \in Seq(D) /\ word \in Seq(D)
        /\ Len(<<Mark>>) = 1 /\ Len(<<Space>>) = 1 /\ <<Mark>>[1] = Mark /\ <<Space>>[1] = Space
    OBVIOUS
  <1>. HIDE DEF D
  <1>2. /\ m \in Seq(D) /\ Len(m) = Len(word) + 1 /\ m[1] = Mark
        /\ \A i \in 1..Len(word) : m[1 + i] = word[i]
    <2>1. /\ m \in Seq(D) /\ Len(m) = Len(<<Mark>>) + Len(word)
          /\ \A i \in 1..Len(<<Mark>>) : m[i] = <<Mark>>[i]
          /\ \A i \in 1..Len(word) : m[Len(<<Mark>>) + i] = word[i]
      BY <1>1, ConcatShape
    <2>. HIDE DEF m
    <2>. QED
      BY <1>1, <2>1
  <1>3. /\ e \in Seq(D) /\ Len(e) = Len(word) + 1 /\ e[1] = Space
        /\ \A i \in 1..Len(word) : e[1 + i] = word[i]
    <2>1. /\ e \in Seq(D) /\ Len(e) = Len(<<Space>>) + Len(word)
          /\ \A i \in 1..Len(<<Space>>) : e[i] = <<Space>>[i]
          /\ \A i \in 1..Len(word) : e[Len(<<Space>>) + i] = word[i]
      BY <1>1, ConcatShape
    <2>. HIDE DEF e
    <2>. QED
      BY <1>1, <2>1
  <1>. HIDE DEF m, e
  <1>4. DOMAIN m = 1..Len(word) + 1 /\ Len(word) \in Nat
    BY <1>2
  <1>5. /\ u \in Seq(D) /\ Len(u) = Len(word) + 1
        /\ \A i \in 1..Len(word) + 1 : u[i] = IF m[i] = Mark THEN Space ELSE m[i]
    <2>1. \A i \in 1..Len(word) + 1 : m[i] \in D
      BY <1>2
    <2>2. u \in [1..Len(word) + 1 -> D]
      BY <1>4, <2>1 DEF Unmark, D
    <2>3. u \in Seq(D) /\ Len(u) = Len(word) + 1
      <3>. HIDE DEF u
      <3>. QED
        BY <1>4, <2>2
    <2>. QED
      BY <1>4, <2>3 DEF Unmark
  <1>. HIDE DEF u
  <1>6. ASSUME NEW i \in 1..Len(word) + 1
        PROVE  u[i] = e[i]
    <2>1. CASE i = 1
      BY <1>2, <1>3, <1>5, <2>1
    <2>2. CASE i # 1
      <3>1. i - 1 \in 1..Len(word) /\ 1 + (i - 1) = i
        BY <1>4, <2>2
      <3>2. m[i] = word[i - 1] /\ e[i] = word[i - 1] /\ word[i - 1] # Mark
        BY <1>2, <1>3, <3>1 DEF Plain
      <3>. QED
        BY <1>5, <3>2
    <2>. QED
      BY <2>1, <2>2
  <1>7. u = e
    BY <1>3, <1>5, <1>6, SeqEqual
  <1>. QED
    BY <1>7 DEF u, e, m

\* A text without markers has words without markers.
LEMMA PlainWords ==
  ASSUME NEW C, NEW text \in Seq(C), Plain(text), NEW n \in DOMAIN Words(text)
  PROVE  Words(text)[n] \in Seq(C) /\ Plain(Words(text)[n])
PROOF
  <1>1. Words(text) = At(WordsFrom(text), WordStarts(text))
    BY Zenon DEF Words, WordsFrom
  <1>. DEFINE words == Words(text)
              w     == words[n]
  <1>2. words \in Seq(Seq(C))
    BY WordsType
  <1>. HIDE DEF words
  <1>3. n \in 1..Len(words) /\ w \in Seq(C)
    BY <1>2 DEF words
  <1>4. PICK i \in 1..Len(WordsFrom(text)) : w = WordsFrom(text)[i]
    <2>. DEFINE all == WordsFrom(text)
                starts == WordStarts(text)
    <2>1. all \in Seq(Seq(C))
      BY WordsFromType
    <2>2. words = At(all, starts)
      BY <1>1 DEF words
    <2>. HIDE DEF all, starts
    <2>3. n \in 1..Len(At(all, starts))
      BY <1>3, <2>2
    <2>4. \E i \in 1..Len(all) : i \in starts /\ At(all, starts)[n] = all[i]
      BY <2>1, <2>3, AtElem
    <2>5. \E i \in 1..Len(all) : w = all[i]
      BY <2>2, <2>4
    <2>. QED
      BY <2>5, Zenon DEF all
  <1>5. i \in 1..Len(text) /\ w = WordAt(text, i)
    BY <1>4, WordsFromType
  <1>. DEFINE p == {j \in i..Len(text) : \A l \in i..j : text[l] # Space}
  <1>6. w = At(text, p)
    BY <1>5, Zenon DEF WordAt
  <1>. HIDE DEF w, p
  <1>7. ASSUME NEW k \in 1..Len(w)
        PROVE  w[k] # Mark
    <2>1. PICK j \in 1..Len(text) : At(text, p)[k] = text[j]
      BY <1>6, AtElem
    <2>. QED
      BY <1>6, <2>1 DEF Plain
  <1>. QED
    BY <1>3, <1>7 DEF Plain, w, words

\* A line of the vocabulary is no word with a marker if its first character is none.
LEMMA FirstLine ==
  ASSUME NEW C, NEW word \in Seq(C)
  PROVE  Vocab[1] # <<Mark>> \o word
PROOF
  <1>. DEFINE line == <<"u">>
  <1>1. Vocab[1] = IF line # <<>> /\ Last(line) = CR THEN Front(line) ELSE line
    BY DEF Vocab, LoadVocab
  <1>2. line \in Seq({"u"}) /\ Len(line) = 1 /\ line[1] = "u" /\ Front(line) = <<>>
    BY DEF Front
  <1>3. Len(<<Mark>> \o word) # 0 /\ (<<Mark>> \o word)[1] = Mark
    OBVIOUS
  <1>4. "u" # Mark
    BY MCAssumption
  <1>. HIDE DEF line
  <1>. QED
    BY <1>1, <1>2, <1>3, <1>4

\* The vocabulary is a sequence of lines.
LEMMA VocabType == \E V : Vocab \in Seq(V)
PROOF
  <1>. DEFINE V == {Vocab[n] : n \in 1..7}
  <1>1. DOMAIN Vocab = 1..7 /\ Vocab = [n \in 1..7 |-> Vocab[n]]
    BY DEF Vocab, LoadVocab
  <1>2. Vocab \in [1..7 -> V]
    <2>1. \A n \in 1..7 : Vocab[n] \in V
      OBVIOUS
    <2>. HIDE DEF V
    <2>. QED
      BY <1>1, <2>1, Zenon
  <1>. HIDE DEF V
  <1>3. Vocab \in Seq(V)
    <2>1. 7 \in Nat
      OBVIOUS
    <2>. QED
      BY <1>2, <2>1, SeqDef, Zenon
  <1>. QED
    BY <1>3

\* For prompts of any length: words that all have an entry with the marker come back
\* from their ids as they were typed, each after a space, and none has the id of the
\* padding (tokenizer.h:36-47, 63-78).
THEOREM MarkedSurvive == Spec => []MarkedWordsSurvive
PROOF
  <1>1. TypeOK => MarkedWordsSurvive
    <2>. DEFINE words == Words(prompt)
                C     == Letters \cup {Space}
                E(n)  == <<Mark>> \o words[n]
                X     == Encoding[prompt]
    <2>. SUFFICES ASSUME TypeOK, prompt # NoPrompt, words # <<>>, Mark \notin ToSet(prompt),
                         \A n \in DOMAIN words : IdsOf(Vocab, E(n)) # {}
                  PROVE  /\ Decode(Vocab, X) = FlattenSeq([n \in DOMAIN words |-> <<Space>> \o words[n]])
                         /\ Unknown \notin ToSet(X)
      BY Zenon DEF MarkedWordsSurvive
    <2>1. prompt \in Seq(C) /\ X = Encode(Vocab, prompt)
      BY PromptIsText
    <2>2. PICK V : Vocab \in Seq(V)
      BY VocabType
    <2>3. words \in Seq(Seq(C))
      <3>. HIDE DEF C
      <3>. QED
        BY <2>1, WordsType
    <2>4. ASSUME NEW n \in DOMAIN words
          PROVE  words[n] \in Seq(C) /\ Plain(words[n])
      <3>1. prompt \in Seq(C) /\ Plain(prompt)
        BY <2>1 DEF Plain, ToSet
      <3>. HIDE DEF C
      <3>. QED
        BY <3>1, PlainWords, Zenon
    <2>5. X = [n \in 1..Len(words) |-> TokenId(Vocab, words[n])]
      BY <2>1, Zenon DEF Encode
    <2>6. DOMAIN words = 1..Len(words) /\ DOMAIN X = DOMAIN words
      <3>1. DOMAIN words = 1..Len(words)
        <4>. HIDE DEF words
        <4>. QED
          BY <2>3
      <3>. QED
        BY <2>5, <3>1
    <2>7. ASSUME NEW n \in DOMAIN words
          PROVE  /\ X[n] \in Nat /\ X[n] < Len(Vocab) /\ X[n] # Unknown
                 /\ Unmark(Vocab[X[n] + 1]) = <<Space>> \o words[n]
      <3>1. X[n] = IdOf(Vocab, E(n))
        <4>1. X[n] = TokenId(Vocab, words[n])
          BY <2>5, <2>6
        <4>. QED
          BY <4>1, Zenon DEF TokenId
      <3>. HIDE DEF X, words
      <3>2. X[n] \in Nat /\ X[n] < Len(Vocab) /\ Vocab[X[n] + 1] = E(n)
        <4>. HIDE DEF E
        <4>. QED
          BY <2>2, <3>1, LastLine
      <3>3. Unmark(E(n)) = <<Space>> \o words[n]
        <4>. HIDE DEF C
        <4>. QED
          BY <2>4, UnmarkWord
      <3>4. Vocab[1] # E(n)
        <4>. HIDE DEF C
        <4>. QED
          BY <2>4, FirstLine
      <3>5. X[n] # 0
        <4>1. X[n] = 0 => X[n] + 1 = 1
          OBVIOUS
        <4>. HIDE DEF E
        <4>. QED
          BY <3>2, <3>4, <4>1, Zenon
      <3>6. Unmark(Vocab[X[n] + 1]) = <<Space>> \o words[n]
        BY <3>2, <3>3, Zenon
      <3>. QED
        BY <3>2, <3>5, <3>6 DEF Unknown
    <2>8. [n \in DOMAIN X |-> IF X[n] < Len(Vocab) THEN Unmark(Vocab[X[n] + 1]) ELSE <<>>]
            = [n \in DOMAIN words |-> <<Space>> \o words[n]]
      <3>. HIDE DEF X, words
      <3>. QED
        BY <2>6, <2>7, Zenon
    <2>9. Decode(Vocab, X) = FlattenSeq([n \in DOMAIN words |-> <<Space>> \o words[n]])
      <3>. HIDE DEF X, words
      <3>. QED
        BY <2>8, Zenon DEF Decode
    <2>10. Unknown \notin ToSet(X)
      <3>. HIDE DEF X, words
      <3>. QED
        BY <2>6, <2>7, Zenon DEF ToSet
    <2>. QED
      BY <2>9, <2>10
  <1>. QED
    BY <1>1, EngineTypes, PTL
=============================================================================
