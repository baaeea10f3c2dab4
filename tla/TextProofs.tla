----------------------------- MODULE TextProofs -----------------------------
(***************************************************************************)
(* The text functions of the server, for prompts and answers of any        *)
(* length: keys, small talk, scraped turns and the output guardrails.      *)
(***************************************************************************)
EXTENDS MCText, SubsequencesProofs

\* Every token is a string.  No prover here knows that a literal is one, so those that
\* the text functions add or look for are named; they add nothing to STRING.
Symbols == STRING \cup {Blank, NewLine, Apos, Mark, Stop, Colon}
                  \cup {"what", "who", "is", "s", "define", "explain"}
                  \cup {"i", "need", "a", "bit", "more", "specific", "context", "to",
                        "answer", "that", "accurately"}

\* A text: a sequence of tokens.
Texts == Seq(Symbols)

-----------------------------------------------------------------------------
(***************************************************************************)
(* Keys.                                                                   *)
(***************************************************************************)

\* The text in which re.sub puts a blank for white space, before runs of it are cut.
Blanked(s) == [i \in 1..Len(s) |-> IF s[i] \in Spaces THEN Blank ELSE s[i]]

\* m is s with other white space, if any.
SameSpaces(m, s) ==
  /\ m \in Texts /\ Len(m) = Len(s)
  /\ \A i \in 1..Len(s) : m[i] = s[i] \/ (m[i] = Blank /\ s[i] \in Spaces)

LEMMA BlankedSpaces ==
  ASSUME NEW s \in Texts
  PROVE  SameSpaces(Blanked(s), s)
<1>1. Len(s) \in Nat /\ \A i \in 1..Len(s) : s[i] \in Symbols
  BY DEF Texts
<1>2. Blank \in Symbols
  BY DEF Symbols
<1>3. Blanked(s) \in Texts /\ Len(Blanked(s)) = Len(s)
  BY <1>1, <1>2 DEF Blanked, Texts
<1>. QED  BY <1>1, <1>3 DEF SameSpaces, Blanked

\* What each step of normalize_key makes of a text is a text.
LEMMA NormalizeType ==
  ASSUME NEW s \in Texts
  PROVE  /\ StripQuestion(s) \in Texts
         /\ Strip(s) \in Texts
         /\ StripPunct(s) \in Texts
         /\ CollapseBlanks(s) \in Texts
<1>1. CollapseBlanks(s) = At(Blanked(s), RunHeads(s))
  BY DEF CollapseBlanks, Blanked
<1>2. Blanked(s) \in Texts
  BY BlankedSpaces DEF SameSpaces
<1>3. CollapseBlanks(s) \in Texts
  BY <1>1, <1>2, AtType DEF Texts
<1>. QED  BY <1>3, AtType DEF Texts, StripQuestion, Strip, StripPunct

\* None of these tokens is in the text.
Without(toks, s) == \A i \in 1..Len(s) : s[i] \notin toks

\* Once such tokens are dropped there are none.
LEMMA DroppedGone ==
  ASSUME NEW s \in Texts, NEW toks, NEW keep,
         \A i \in 1..Len(s) : i \in keep => s[i] \notin toks
  PROVE  Without(toks, At(s, keep))
<1>. SUFFICES ASSUME NEW k \in 1..Len(At(s, keep)) PROVE At(s, keep)[k] \notin toks
  BY DEF Without
<1>1. PICK i \in 1..Len(s) : i \in keep /\ At(s, keep)[k] = s[i]
  BY AtElem DEF Texts
<1>. QED  BY <1>1

\* Dropping tokens brings none back.
LEMMA WithoutKept ==
  ASSUME NEW s \in Texts, NEW toks, Without(toks, s), NEW keep
  PROVE  Without(toks, At(s, keep))
<1>1. \A i \in 1..Len(s) : i \in keep => s[i] \notin toks
  BY DEF Without
<1>. QED  BY <1>1, DroppedGone

\* Once punctuation is stripped there is none.
LEMMA PunctGone ==
  ASSUME NEW s \in Texts
  PROVE  Without(Punct, StripPunct(s))
BY DroppedGone DEF StripPunct

\* Stripping punctuation where there is none changes nothing.
LEMMA NoPunctSame ==
  ASSUME NEW s \in Texts, Without(Punct, s)
  PROVE  StripPunct(s) = s
BY AtAll DEF StripPunct, Without, Texts

\* No white space next to other white space.
SingleSpaces(s) ==
  \A i \in 1..Len(s) : i > 1 => ~ (s[i] \in Spaces /\ s[i - 1] \in Spaces)

\* Once only the heads of the runs of white space are left, there is one of each.
LEMMA HeadsSingle ==
  ASSUME NEW s \in Texts, NEW m, SameSpaces(m, s)
  PROVE  SingleSpaces(At(m, RunHeads(s)))
<1>. DEFINE keep == RunHeads(s)
            t == At(m, keep)
<1>0. /\ m \in Texts /\ Len(m) = Len(s) /\ Len(s) \in Nat
      /\ \A i \in 1..Len(s) : m[i] \in Spaces => s[i] \in Spaces
  BY DEF SameSpaces, Texts
<1>1. PICK pos : IsEnum(pos, m, keep)
  BY <1>0, AtEnum DEF Texts
<1>2. ASSUME NEW k \in 1..Len(t), k > 1, t[k] \in Spaces, t[k - 1] \in Spaces PROVE FALSE
  <2>. DEFINE i == pos[k - 1]
              j == pos[k]
  <2>1. k - 1 \in 1..Len(t) /\ k - 1 < k /\ k - 1 + 1 = k /\ k <= Len(t)
    BY <1>2
  <2>2. /\ i \in 1..Len(m) /\ j \in 1..Len(m) /\ i < j /\ j \in keep
        /\ t[k - 1] = m[i] /\ t[k] = m[j]
    <3>. HIDE DEF keep
    <3>. QED  BY <1>1, <1>2, <2>1 DEF IsEnum
  <2>3. \A l \in 1..Len(m) : i < l /\ l < j => l \notin keep
    BY <1>0, <1>1, <2>1, EnumNext DEF Texts
  <2>. HIDE DEF i, j, t
  <2>4. i \in 1..Len(s) /\ j \in 1..Len(s) /\ s[i] \in Spaces /\ s[j] \in Spaces /\ j > 1
    BY <1>0, <1>2, <2>2
  <2>5. s[j - 1] \notin Spaces /\ j - 1 \in 1..Len(s)
    BY <2>2, <2>4 DEF RunHeads
  <2>6. j - 1 \in keep
    BY <2>5 DEF RunHeads
  <2>7. i # j - 1
    BY <2>4, <2>5
  <2>8. i < j - 1 /\ j - 1 < j
    BY <2>2, <2>4, <2>7
  <2>. QED  BY <1>0, <2>3, <2>5, <2>6, <2>8
<1>3. SingleSpaces(t)
  <2>. HIDE DEF t
  <2>. QED  BY <1>2 DEF SingleSpaces
<1>. QED  BY <1>3

\* Where no two are neighbours, every position is the head of a run.
LEMMA AllHeads ==
  ASSUME NEW s \in Texts, SingleSpaces(s), NEW m \in Texts, Len(m) = Len(s)
  PROVE  At(m, RunHeads(s)) = m
<1>1. \A i \in 1..Len(m) : i \in RunHeads(s)
  BY DEF SingleSpaces, RunHeads
<1>. QED  BY <1>1, AtAll DEF Texts

\* Collapsed white space is single blanks.
LEMMA BlanksCollapsed ==
  ASSUME NEW s \in Texts
  PROVE  SingleSpaces(CollapseBlanks(s)) /\ Without({NewLine}, CollapseBlanks(s))
<1>1. CollapseBlanks(s) = At(Blanked(s), RunHeads(s))
  BY DEF CollapseBlanks, Blanked
<1>2. SameSpaces(Blanked(s), s)
  BY BlankedSpaces
<1>3. Blanked(s) \in Texts /\ Len(Blanked(s)) = Len(s)
  BY <1>2 DEF SameSpaces
<1>4. Without({NewLine}, Blanked(s))
  <2>1. ASSUME NEW i \in 1..Len(s) PROVE Blanked(s)[i] # NewLine
    BY DEF Blanked, Spaces, Blank, NewLine
  <2>. QED  BY <1>3, <2>1 DEF Without
<1>. QED  BY <1>1, <1>2, <1>3, <1>4, HeadsSingle, WithoutKept

\* Nor does collapsing white space bring other tokens back.
LEMMA CollapseWithout ==
  ASSUME NEW s \in Texts, NEW toks, Blank \notin toks, Without(toks, s)
  PROVE  Without(toks, CollapseBlanks(s))
<1>1. CollapseBlanks(s) = At(Blanked(s), RunHeads(s))
  BY DEF CollapseBlanks, Blanked
<1>2. Blanked(s) \in Texts /\ Len(Blanked(s)) = Len(s)
  BY BlankedSpaces DEF SameSpaces
<1>3. Without(toks, Blanked(s))
  BY <1>2 DEF Without, Blanked
<1>. QED  BY <1>1, <1>2, <1>3, WithoutKept

\* A key has no punctuation and no white space but single blanks (server.py:94-106).
LEMMA KeyCompact ==
  ASSUME NEW s \in Texts
  PROVE  /\ NormalizeKey(s) \in Texts
         /\ Without(Punct, NormalizeKey(s)) /\ Without({NewLine}, NormalizeKey(s))
         /\ IsCompact(NormalizeKey(s))
<1>. DEFINE a == StripQuestion(s)
            b == Strip(a)
            c == StripPunct(b)
            d == CollapseBlanks(c)
<1>1. a \in Texts
  BY NormalizeType
<1>2. b \in Texts
  BY <1>1, NormalizeType
<1>3. c \in Texts /\ Without(Punct, c)
  BY <1>2, NormalizeType, PunctGone
<1>6. NormalizeKey(s) = d
  BY DEF NormalizeKey
<1>. HIDE DEF a, b, c
<1>4. d \in Texts /\ Without(Punct, d)
  <2>1. Blank \notin Punct
    BY DEF Blank, Punct, Apos, Mark
  <2>. QED  BY <1>3, <2>1, NormalizeType, CollapseWithout
<1>5. SingleSpaces(d) /\ Without({NewLine}, d)
  BY <1>3, BlanksCollapsed
<1>. HIDE DEF d
<1>7. IsCompact(d)
  BY <1>4, <1>5 DEF IsCompact, Without, SingleSpaces, Spaces
<1>. QED  BY <1>4, <1>5, <1>6, <1>7

\* A text of white space is normalized to nothing.
LEMMA BlanksVanish ==
  ASSUME NEW s \in Texts, \A i \in 1..Len(s) : s[i] \in Spaces
  PROVE  NormalizeKey(s) = <<>>
<1>. DEFINE a == StripQuestion(s)
<1>1. a \in Texts
  BY NormalizeType
<1>2. \A k \in 1..Len(a) : a[k] \in Spaces
  BY AtElem DEF StripQuestion, Texts
<1>. HIDE DEF a
<1>3. Strip(a) = <<>>
  BY <1>1, <1>2, AtNone DEF Strip, Texts
<1>4. StripPunct(<<>>) = <<>>
  BY AtEmpty DEF StripPunct
<1>5. CollapseBlanks(<<>>) = <<>>
  <2>1. <<>> \in Texts /\ Len(<<>>) = 0
    BY DEF Texts
  <2>2. SingleSpaces(<<>>)
    BY <2>1 DEF SingleSpaces
  <2>3. Blanked(<<>>) \in Texts /\ Len(Blanked(<<>>)) = 0
    BY <2>1, BlankedSpaces DEF SameSpaces
  <2>4. Blanked(<<>>) = <<>>
    BY <2>3 DEF Texts
  <2>5. At(Blanked(<<>>), RunHeads(<<>>)) = Blanked(<<>>)
    BY <2>1, <2>2, <2>3, AllHeads
  <2>6. CollapseBlanks(<<>>) = At(Blanked(<<>>), RunHeads(<<>>))
    BY DEF CollapseBlanks, Blanked
  <2>. QED  BY <2>4, <2>5, <2>6
<1>. QED  BY <1>3, <1>4, <1>5 DEF NormalizeKey, a

\* A key that may be saved is not blank.
LEMMA SavedNotBlank ==
  ASSUME NEW s \in Texts, AcceptsKey(s)
  PROVE  \E i \in 1..Len(NormalizeKey(s)) : NormalizeKey(s)[i] # Blank
<1>. DEFINE k == NormalizeKey(s)
<1>1. k \in Texts
  BY KeyCompact
<1>2. SUFFICES ASSUME \A i \in 1..Len(k) : k[i] = Blank PROVE FALSE
  OBVIOUS
<1>3. NormalizeKey(k) = <<>>
  <2>. HIDE DEF k
  <2>1. \A i \in 1..Len(k) : k[i] \in Spaces
    BY <1>2 DEF Spaces
  <2>. QED  BY <1>1, <2>1, BlanksVanish
<1>. QED  BY <1>3 DEF AcceptsKey, IsCasual, CasualKey

-----------------------------------------------------------------------------
(***************************************************************************)
(* Small talk.                                                             *)
(***************************************************************************)

\* An occurrence of a pattern survives where its tokens are kept, and the tokens it
\* comes next to are no pieces of a word.
LEMMA FoundKept ==
  ASSUME NEW s \in Texts, NEW keep, NEW p, Len(p) \in Nat, Len(p) >= 1, NEW i \in 1..Len(s),
         FoundAt(p, s, i),
         \A x \in i..i + Len(p) - 1 : x \in keep,
         \A j \in 1..i - 1 : j \in keep /\ (\A l \in j + 1..i - 1 : l \notin keep)
                               => ~ IsWord(s[j]),
         \A j \in i + Len(p)..Len(s) :
           j \in keep /\ (\A l \in i + Len(p)..j - 1 : l \notin keep) => ~ IsWord(s[j])
  PROVE  \E o \in 1..Len(At(s, keep)) : o <= i /\ FoundAt(p, At(s, keep), o)
<1>. DEFINE t == At(s, keep)
<1>1. /\ Len(s) \in Nat /\ t \in Texts /\ Len(t) \in Nat
      /\ i + Len(p) - 1 <= Len(s)
      /\ \A n \in 1..Len(p) : s[i + n - 1] = p[n]
  BY AtType DEF Texts, FoundAt, OccursAt
<1>2. PICK m \in Nat : Len(p) = m + 1
  <2>1. Len(p) - 1 \in Nat /\ Len(p) = Len(p) - 1 + 1
    OBVIOUS
  <2>. QED  BY <2>1
<1>3. i + m \in 1..Len(s) /\ i + Len(p) - 1 = i + m /\ i + Len(p) = i + m + 1
  BY <1>1, <1>2
<1>4. PICK pos : IsEnum(pos, s, keep)
  BY AtEnum DEF Texts
<1>5. PICK o \in 1..Len(t) : MovedTo(o, i, m, pos, t)
  <2>1. ASSUME NEW d \in 0..m PROVE i + d \in 1..Len(s) /\ i + d \in keep
    <3>1. i + d \in i..i + Len(p) - 1 /\ i + d <= Len(s)
      BY <1>1, <1>3
    <3>. QED  BY <3>1
  <2>2. KeptBlock(i, m, s, keep)
    BY <2>1 DEF KeptBlock
  <2>. QED  BY <1>4, <2>2, EnumBlock DEF Texts
<1>6. /\ pos \in [1..Len(t) -> 1..Len(s)]
      /\ \A k \in 1..Len(t) : pos[k] \in keep /\ t[k] = s[pos[k]]
      /\ \A k, l \in 1..Len(t) : k < l => pos[k] < pos[l]
      /\ \A k \in 1..Len(t) : \A j \in 1..Len(s) :
           k + 1 <= Len(t) /\ pos[k] < j /\ j < pos[k + 1] => j \notin keep
  BY <1>4, EnumNext DEF IsEnum, Texts
<1>7. pos[o] = i /\ o + m \in 1..Len(t) /\ pos[o + m] = i + m
  <2>1. 0 \in 0..m /\ m \in 0..m /\ o + 0 = o /\ i + 0 = i
    OBVIOUS
  <2>. QED  BY <1>5, <2>1 DEF MovedTo
<1>. HIDE DEF t
<1>8. OccursAt(p, t, o)
  <2>1. o + Len(p) - 1 <= Len(t)
    BY <1>1, <1>2, <1>7
  <2>2. ASSUME NEW n \in 1..Len(p) PROVE t[o + n - 1] = p[n]
    <3>1. n - 1 \in 0..m /\ o + n - 1 = o + (n - 1) /\ i + n - 1 = i + (n - 1)
      BY <1>2
    <3>2. o + (n - 1) \in 1..Len(t) /\ pos[o + (n - 1)] = i + (n - 1)
      BY <1>5, <3>1 DEF MovedTo
    <3>3. t[o + (n - 1)] = s[i + (n - 1)]
      BY <1>6, <3>2
    <3>. QED  BY <1>1, <3>1, <3>3
  <2>. QED  BY <2>1, <2>2 DEF OccursAt
<1>9. ASSUME o > 1 PROVE ~ IsWord(t[o - 1])
  <2>1. o - 1 \in 1..Len(t) /\ o - 1 + 1 = o /\ o - 1 < o /\ o - 1 + 1 <= Len(t)
    BY <1>1, <1>9
  <2>2. PICK j \in 1..Len(s) : j = pos[o - 1]
    BY <1>6, <2>1
  <2>3. j \in keep /\ j < i /\ t[o - 1] = s[j]
    BY <1>6, <1>7, <2>1, <2>2
  <2>4. j \in 1..i - 1
    BY <2>3
  <2>5. ASSUME NEW l \in j + 1..i - 1 PROVE l \notin keep
    <3>1. l \in 1..Len(s) /\ j < l /\ l < i
      BY <1>1
    <3>. QED  BY <1>6, <1>7, <2>1, <2>2, <3>1
  <2>. QED  BY <2>3, <2>4, <2>5
<1>10. ASSUME o + Len(p) <= Len(t) PROVE ~ IsWord(t[o + Len(p)])
  <2>1. PICK e \in 1..Len(t) : e = o + m
    BY <1>7
  <2>2. e + 1 \in 1..Len(t) /\ e < e + 1 /\ e + 1 = o + Len(p) /\ pos[e] = i + m /\ e + 1 <= Len(t)
    BY <1>1, <1>2, <1>7, <1>10, <2>1
  <2>3. PICK j \in 1..Len(s) : j = pos[e + 1]
    BY <1>6, <2>2
  <2>4. j \in keep /\ i + m < j /\ t[e + 1] = s[j]
    BY <1>6, <2>2, <2>3
  <2>5. j \in i + Len(p)..Len(s)
    BY <1>1, <1>3, <2>4
  <2>6. ASSUME NEW l \in i + Len(p)..j - 1 PROVE l \notin keep
    <3>1. l \in 1..Len(s) /\ i + m < l /\ l < j
      BY <1>1, <1>2, <1>3, SMT
    <3>. QED  BY <1>6, <2>2, <2>3, <3>1
  <2>. QED  BY <2>2, <2>4, <2>5, <2>6
<1>11. FoundAt(p, t, o)
  BY <1>8, <1>9, <1>10 DEF FoundAt
<1>. QED  BY <1>5, <1>11 DEF t, MovedTo

\* What a text without marks is made of, where a question prefix covers it.
LEMMA PrefixToken ==
  ASSUME NEW s \in Texts, Without(Punct, s), NEW x \in PrefixTokens(s)
  PROVE  \/ s[x] \in {"define", "explain"}
         \/ s[x] \in {"what", "who"} /\ x + 1 <= Len(s) /\ s[x + 1] = Blank
         \/ s[x] = Blank /\ x > 1 /\ x + 1 <= Len(s) /\ s[x + 1] = "is"
              /\ s[x - 1] \in {"what", "who"}
         \/ s[x] = "is" /\ x > 2 /\ s[x - 1] = Blank /\ s[x - 2] \in {"what", "who"}
<1>1. PICK q \in QuestionPrefixes, j \in 1..x : FoundAt(q, s, j) /\ x < j + Len(q)
  BY DEF PrefixTokens
<1>2. x \in 1..Len(s) /\ j \in 1..x /\ Len(s) \in Nat
  BY DEF PrefixTokens, Texts
<1>3. j + Len(q) - 1 <= Len(s) /\ \A n \in 1..Len(q) : s[j + n - 1] = q[n]
  BY <1>1 DEF FoundAt, OccursAt
<1>4. \A y \in 1..Len(s) : s[y] # Apos
  BY DEF Without, Punct
<1>5. ASSUME NEW w \in {"define", "explain"}, q = <<w>>
      PROVE  s[x] \in {"define", "explain"}
  <2>1. Len(q) = 1 /\ q[1] = w
    BY <1>5
  <2>2. x = j /\ 1 \in 1..Len(q) /\ j + 1 - 1 = j
    BY <1>1, <1>2, <2>1
  <2>. QED  BY <1>3, <2>1, <2>2
<1>6. ASSUME NEW w \in {"what", "who"}, NEW v, q = <<w, Apos, v>> PROVE FALSE
  <2>1. Len(q) = 3 /\ q[2] = Apos
    BY <1>6
  <2>2. 2 \in 1..Len(q) /\ j + 2 - 1 \in 1..Len(s)
    BY <1>2, <1>3, <2>1
  <2>. QED  BY <1>3, <1>4, <2>1, <2>2
<1>7. ASSUME NEW w \in {"what", "who"}, q = <<w, Blank, "is">>
      PROVE  \/ s[x] = w /\ x + 1 <= Len(s) /\ s[x + 1] = Blank
             \/ s[x] = Blank /\ x > 1 /\ x + 1 <= Len(s) /\ s[x + 1] = "is" /\ s[x - 1] = w
             \/ s[x] = "is" /\ x > 2 /\ s[x - 1] = Blank /\ s[x - 2] = w
  <2>1. Len(q) = 3 /\ q[1] = w /\ q[2] = Blank /\ q[3] = "is"
    BY <1>7
  <2>2. s[j] = w /\ s[j + 1] = Blank /\ s[j + 2] = "is" /\ j + 2 <= Len(s)
    <3>1. /\ 1 \in 1..Len(q) /\ 2 \in 1..Len(q) /\ 3 \in 1..Len(q)
          /\ j + 1 - 1 = j /\ j + 2 - 1 = j + 1 /\ j + 3 - 1 = j + 2
      BY <2>1
    <3>. QED  BY <1>3, <2>1, <3>1
  <2>3. x = j \/ x = j + 1 \/ x = j + 2
    BY <1>1, <1>2, <2>1
  <2>4. CASE x = j
    BY <1>2, <2>2, <2>4
  <2>5. CASE x = j + 1
    BY <1>2, <2>2, <2>5
  <2>6. CASE x = j + 2
    <3>1. x - 1 = j + 1 /\ x - 2 = j /\ x > 2
      BY <1>2, <2>6
    <3>. QED  BY <2>2, <2>6, <3>1
  <2>. QED  BY <2>3, <2>4, <2>5, <2>6
<1>8. \/ \E w \in {"define", "explain"} : q = <<w>>
      \/ \E w \in {"what", "who"} : q = <<w, Apos, "s">>
      \/ \E w \in {"what", "who"} : q = <<w, Blank, "is">>
  BY DEF QuestionPrefixes
<1>9. CASE \E w \in {"define", "explain"} : q = <<w>>
  BY <1>5, <1>9
<1>10. CASE \E w \in {"what", "who"} : q = <<w, Apos, "s">>
  BY <1>6, <1>10
<1>11. CASE \E w \in {"what", "who"} : q = <<w, Blank, "is">>
  <2>1. PICK w \in {"what", "who"} : q = <<w, Blank, "is">>
    BY <1>11
  <2>. QED  BY <1>7, <2>1
<1>. QED  BY <1>8, <1>9, <1>10, <1>11

\* What a pattern for small talk is made of: it shares no more with a question prefix
\* than the "is" of "how is" and the "what" of "whats", has single blanks inside, and
\* begins and ends with a piece of a word.
Chatty(p) ==
  /\ Len(p) \in Nat \ {0}
  /\ IsWord(p[1]) /\ IsWord(p[Len(p)])
  /\ \A n \in 1..Len(p) :
       /\ p[n] \notin {"define", "explain", "who"}
       /\ p[n] = "what" => n + 1 <= Len(p) /\ p[n + 1] # Blank
       /\ p[n] = Blank => n > 1 /\ p[n - 1] \notin {"what", Blank}
       /\ p[n] = "is" => n > 2 /\ p[n - 2] = "how"

\* Where a chatty pattern is found, and what its first and last tokens are.
LEMMA PatternTokens ==
  ASSUME NEW p, NEW s \in Texts, NEW i \in 1..Len(s), Chatty(p), FoundAt(p, s, i)
  PROVE  /\ Len(p) \in Nat \ {0} /\ Len(s) \in Nat /\ i + Len(p) - 1 \in 1..Len(s)
         /\ s[i] = p[1] /\ s[i + Len(p) - 1] = p[Len(p)]
         /\ s[i] \notin Spaces /\ s[i + Len(p) - 1] \notin Spaces
         /\ \A x \in i..i + Len(p) - 1 : \E n \in 1..Len(p) : x = i + n - 1 /\ s[x] = p[n]
<1>1. /\ Len(p) \in Nat \ {0} /\ Len(s) \in Nat
      /\ i + Len(p) - 1 <= Len(s)
      /\ \A n \in 1..Len(p) : s[i + n - 1] = p[n]
  BY DEF Texts, Chatty, FoundAt, OccursAt
<1>2. s[i] = p[1] /\ s[i + Len(p) - 1] = p[Len(p)]
  <2>1. 1 \in 1..Len(p) /\ Len(p) \in 1..Len(p) /\ i + 1 - 1 = i
    BY <1>1
  <2>. QED  BY <1>1, <2>1
<1>3. p[1] \notin Spaces /\ p[Len(p)] \notin Spaces
  BY DEF Chatty, IsWord
<1>4. ASSUME NEW x \in i..i + Len(p) - 1
      PROVE  \E n \in 1..Len(p) : x = i + n - 1 /\ s[x] = p[n]
  <2>1. x - i + 1 \in 1..Len(p) /\ x = i + (x - i + 1) - 1
    BY <1>1
  <2>. QED  BY <1>1, <2>1
<1>5. i + Len(p) - 1 \in 1..Len(s)
  BY <1>1
<1>. QED  BY <1>1, <1>2, <1>3, <1>4, <1>5

\* A chatty pattern survives the removal of question prefixes ...
LEMMA ChattyPastQuestion ==
  ASSUME NEW p, NEW s \in Texts, NEW i \in 1..Len(s), Chatty(p), FoundAt(p, s, i),
         Without(Punct, s)
  PROVE  \E o \in 1..Len(StripQuestion(s)) : o <= i /\ FoundAt(p, StripQuestion(s), o)
<1>. DEFINE keep == 1..Len(s) \ PrefixTokens(s)
<1>1. /\ Len(p) \in Nat \ {0} /\ Len(s) \in Nat /\ i + Len(p) - 1 \in 1..Len(s)
      /\ s[i] = p[1] /\ s[i + Len(p) - 1] = p[Len(p)]
      /\ \A x \in i..i + Len(p) - 1 : \E n \in 1..Len(p) : x = i + n - 1 /\ s[x] = p[n]
  BY PatternTokens
<1>2. \A n \in 1..Len(p) :
        /\ p[n] \notin {"define", "explain", "who"}
        /\ p[n] = "what" => n + 1 <= Len(p) /\ p[n + 1] # Blank
        /\ p[n] = Blank => n > 1 /\ p[n - 1] \notin {"what", Blank}
        /\ p[n] = "is" => n > 2 /\ p[n - 2] = "how"
  BY DEF Chatty
<1>3. \A n \in 1..Len(p) : s[i + n - 1] = p[n]
  BY DEF FoundAt, OccursAt
<1>4. ASSUME NEW x \in i..i + Len(p) - 1, x \in PrefixTokens(s) PROVE FALSE
  <2>1. PICK n \in 1..Len(p) : x = i + n - 1 /\ s[x] = p[n]
    BY <1>1
  <2>2. p[n] \notin {"define", "explain", "who"}
    BY <1>2
  <2>3. ASSUME p[n] = "what", s[x + 1] = Blank PROVE FALSE
    <3>1. n + 1 \in 1..Len(p) /\ p[n + 1] # Blank
      BY <1>1, <1>2, <2>3
    <3>2. i + (n + 1) - 1 = x + 1
      BY <2>1
    <3>3. s[i + (n + 1) - 1] = p[n + 1]
      BY <1>3, <3>1
    <3>. QED  BY <2>3, <3>1, <3>2, <3>3
  <2>4. ASSUME p[n] = Blank, s[x - 1] \in {"what", "who"} PROVE FALSE
    <3>1. n - 1 \in 1..Len(p) /\ p[n - 1] # "what"
      BY <1>1, <1>2, <2>4
    <3>2. i + (n - 1) - 1 = x - 1
      BY <2>1
    <3>. QED  BY <1>2, <1>3, <2>4, <3>1, <3>2
  <2>5. ASSUME p[n] = "is", s[x - 2] \in {"what", "who"} PROVE FALSE
    <3>1. n - 2 \in 1..Len(p) /\ p[n - 2] = "how"
      BY <1>1, <1>2, <2>5
    <3>2. i + (n - 2) - 1 = x - 2
      BY <2>1
    <3>. QED  BY <1>3, <2>5, <3>1, <3>2
  <2>. QED  BY <1>4, <2>1, <2>2, <2>3, <2>4, <2>5, PrefixToken
<1>5. \A x \in i..i + Len(p) - 1 : x \in keep
  <2>1. \A x \in i..i + Len(p) - 1 : x \in 1..Len(s)
    BY <1>1
  <2>2. \A x \in i..i + Len(p) - 1 : x \notin PrefixTokens(s)
    BY <1>4
  <2>. QED  BY <2>1, <2>2
<1>6. ASSUME NEW j \in 1..i - 1, j \in keep, \A l \in j + 1..i - 1 : l \notin keep
      PROVE  ~ IsWord(s[j])
  <2>1. i > 1 /\ i - 1 \in 1..Len(s) /\ ~ IsWord(s[i - 1])
    BY DEF FoundAt
  <2>2. CASE j = i - 1
    BY <2>1, <2>2
  <2>3. CASE j # i - 1
    <3>1. i - 1 \in j + 1..i - 1
      BY <2>3
    <3>2. i - 1 \in PrefixTokens(s)
      BY <1>6, <2>1, <3>1
    <3>3. s[i - 1] \notin {"define", "explain", "what", "who", "is"}
      BY <2>1 DEF IsWord, Punct, Spaces, Sign, NewLine, Blank, Apos, Mark
    <3>4. s[i - 1 + 1] = "is"
      BY <3>2, <3>3, PrefixToken
    <3>5. s[i] = "is" /\ 1 \in 1..Len(p)
      BY <1>1, <3>4
    <3>. QED  BY <1>1, <1>2, <3>5
  <2>. QED  BY <2>2, <2>3
<1>7. ASSUME NEW j \in i + Len(p)..Len(s), j \in keep,
             \A l \in i + Len(p)..j - 1 : l \notin keep
      PROVE  ~ IsWord(s[j])
  <2>1. PICK e \in 1..Len(s) : e = i + Len(p)
    BY <1>1
  <2>2. ~ IsWord(s[e]) /\ e - 1 = i + Len(p) - 1
    BY <1>1, <2>1 DEF FoundAt
  <2>3. CASE j = e
    BY <2>2, <2>3
  <2>4. CASE j # e
    <3>1. e \in i + Len(p)..j - 1
      BY <1>1, <2>1, <2>4
    <3>2. e \in PrefixTokens(s)
      BY <1>7, <3>1
    <3>3. s[e] \notin {"define", "explain", "what", "who", "is"}
      BY <2>2 DEF IsWord, Punct, Spaces, Sign, NewLine, Blank, Apos, Mark
    <3>4. s[e - 1] \in {"what", "who"}
      BY <3>2, <3>3, PrefixToken
    <3>5. p[Len(p)] \in {"what", "who"} /\ Len(p) \in 1..Len(p)
      BY <1>1, <2>2, <3>4
    <3>. QED  BY <1>1, <1>2, <3>5
  <2>. QED  BY <2>3, <2>4
<1>8. Len(p) \in Nat /\ Len(p) >= 1
  BY <1>1
<1>. HIDE DEF keep
<1>9. \E o \in 1..Len(At(s, keep)) : o <= i /\ FoundAt(p, At(s, keep), o)
  BY <1>5, <1>6, <1>7, <1>8, FoundKept
<1>. QED  BY <1>9 DEF StripQuestion, keep

\* ... of the blanks at both ends ...
LEMMA ChattyPastStrip ==
  ASSUME NEW p, NEW s \in Texts, NEW i \in 1..Len(s), Chatty(p), FoundAt(p, s, i)
  PROVE  \E o \in 1..Len(Strip(s)) : o <= i /\ FoundAt(p, Strip(s), o)
<1>. DEFINE keep == {x \in 1..Len(s) : /\ \E j \in 1..x : s[j] \notin Spaces
                                       /\ \E j \in x..Len(s) : s[j] \notin Spaces}
<1>1. /\ Len(p) \in Nat \ {0} /\ Len(s) \in Nat /\ i + Len(p) - 1 \in 1..Len(s)
      /\ s[i] \notin Spaces /\ s[i + Len(p) - 1] \notin Spaces
  BY PatternTokens
<1>2. ASSUME NEW x \in i..i + Len(p) - 1 PROVE x \in keep
  <2>1. x \in 1..Len(s) /\ i \in 1..x /\ i + Len(p) - 1 \in x..Len(s)
    BY <1>1
  <2>. QED  BY <1>1, <2>1
<1>3. ASSUME NEW j \in 1..i - 1, j \in keep, \A l \in j + 1..i - 1 : l \notin keep
      PROVE  ~ IsWord(s[j])
  <2>1. i > 1 /\ ~ IsWord(s[i - 1])
    BY DEF FoundAt
  <2>2. PICK e \in 1..j : s[e] \notin Spaces
    BY <1>3
  <2>3. e \in 1..i - 1 /\ i \in i - 1..Len(s) /\ i - 1 \in 1..Len(s)
    BY <2>1, <1>1
  <2>4. i - 1 \in keep
    BY <1>1, <2>2, <2>3
  <2>5. i - 1 \notin j + 1..i - 1
    BY <1>3, <2>4
  <2>6. j = i - 1
    BY <2>5
  <2>. QED  BY <2>1, <2>6
<1>4. ASSUME NEW j \in i + Len(p)..Len(s), j \in keep,
             \A l \in i + Len(p)..j - 1 : l \notin keep
      PROVE  ~ IsWord(s[j])
  <2>1. PICK e \in 1..Len(s) : e = i + Len(p)
    BY <1>1
  <2>2. ~ IsWord(s[e]) /\ e - 1 = i + Len(p) - 1 /\ e <= j
    BY <1>1, <2>1 DEF FoundAt
  <2>3. PICK f \in j..Len(s) : s[f] \notin Spaces
    BY <1>4
  <2>4. f \in e..Len(s) /\ e - 1 \in 1..e
    BY <1>1, <2>1, <2>2
  <2>5. e \in keep
    BY <1>1, <2>2, <2>3, <2>4
  <2>6. e \notin i + Len(p)..j - 1
    BY <1>4, <2>5
  <2>7. j = e
    BY <1>1, <2>1, <2>2, <2>6
  <2>. QED  BY <2>2, <2>7
<1>5. Len(p) \in Nat /\ Len(p) >= 1
  BY <1>1
<1>. HIDE DEF keep
<1>6. \E o \in 1..Len(At(s, keep)) : o <= i /\ FoundAt(p, At(s, keep), o)
  BY <1>2, <1>3, <1>4, <1>5, FoundKept
<1>. QED  BY <1>6 DEF Strip, keep

\* ... and of repeated blanks ...
LEMMA ChattyPastCollapse ==
  ASSUME NEW p, NEW s \in Texts, NEW i \in 1..Len(s), Chatty(p), FoundAt(p, s, i),
         Without({NewLine}, s)
  PROVE  \E o \in 1..Len(CollapseBlanks(s)) : o <= i /\ FoundAt(p, CollapseBlanks(s), o)
<1>. DEFINE keep == {x \in 1..Len(s) : ~ (s[x] \in Spaces /\ x > 1 /\ s[x-1] \in Spaces)}
<1>1. /\ Len(p) \in Nat \ {0} /\ Len(s) \in Nat /\ i + Len(p) - 1 \in 1..Len(s)
      /\ s[i] \notin Spaces /\ s[i + Len(p) - 1] \notin Spaces
      /\ \A x \in i..i + Len(p) - 1 : \E n \in 1..Len(p) : x = i + n - 1 /\ s[x] = p[n]
  BY PatternTokens
<1>0. \A x \in 1..Len(s) : s[x] \in Spaces => s[x] = Blank
  BY DEF Without, Spaces
<1>2. ASSUME NEW x \in i..i + Len(p) - 1 PROVE x \in keep
  <2>1. x \in 1..Len(s)
    BY <1>1
  <2>2. PICK n \in 1..Len(p) : x = i + n - 1 /\ s[x] = p[n]
    BY <1>1
  <2>3. ASSUME p[n] = Blank PROVE s[x - 1] \notin Spaces
    <3>1. n > 1 /\ p[n - 1] # Blank
      BY <2>3 DEF Chatty
    <3>2. n - 1 \in 1..Len(p) /\ i + (n - 1) - 1 = x - 1
      BY <1>1, <2>2, <3>1
    <3>3. s[i + (n - 1) - 1] = p[n - 1]
      BY <3>2 DEF FoundAt, OccursAt
    <3>4. s[x - 1] # Blank /\ x - 1 \in 1..Len(s)
      BY <1>1, <2>1, <3>1, <3>2, <3>3
    <3>. QED  BY <1>0, <3>4
  <2>. QED  BY <1>0, <2>1, <2>2, <2>3
<1>3. ASSUME NEW j \in 1..i - 1, j \in keep, \A l \in j + 1..i - 1 : l \notin keep
      PROVE  ~ IsWord(s[j])
  <2>1. i > 1 /\ ~ IsWord(s[i - 1])
    BY DEF FoundAt
  <2>2. CASE j = i - 1
    BY <2>1, <2>2
  <2>3. CASE j # i - 1
    <3>1. j + 1 \in j + 1..i - 1 /\ j + 1 \in 1..Len(s) /\ j + 1 - 1 = j
      BY <1>1, <2>3
    <3>2. j + 1 \notin keep
      BY <1>3, <3>1
    <3>3. s[j] \in Spaces
      BY <3>1, <3>2
    <3>. QED  BY <3>3 DEF IsWord
  <2>. QED  BY <2>2, <2>3
<1>4. ASSUME NEW j \in i + Len(p)..Len(s), j \in keep,
             \A l \in i + Len(p)..j - 1 : l \notin keep
      PROVE  ~ IsWord(s[j])
  <2>1. PICK e \in 1..Len(s) : e = i + Len(p)
    BY <1>1
  <2>2. ~ IsWord(s[e]) /\ e - 1 = i + Len(p) - 1 /\ e <= j /\ s[e - 1] \notin Spaces
    BY <1>1, <2>1 DEF FoundAt
  <2>3. e \in keep
    BY <2>2
  <2>4. e \notin i + Len(p)..j - 1
    BY <1>4, <2>3
  <2>5. j = e
    BY <1>1, <2>1, <2>2, <2>4
  <2>. QED  BY <2>2, <2>5
<1>5. Len(p) \in Nat /\ Len(p) >= 1
  BY <1>1
<1>. HIDE DEF keep
<1>6. \E o \in 1..Len(At(s, keep)) : o <= i /\ FoundAt(p, At(s, keep), o)
  BY <1>2, <1>3, <1>4, <1>5, FoundKept
<1>7. CollapseBlanks(s) = At(s, keep)
  <2>1. Blanked(s) = s
    BY <1>0, <1>1 DEF Blanked, Texts
  <2>. QED  BY <2>1 DEF CollapseBlanks, Blanked, RunHeads, keep
<1>. QED  BY <1>6, <1>7

\* ... so it survives normalize_key, and moves towards the start if at all.
LEMMA ChattyKept ==
  ASSUME NEW p, NEW k \in Texts, NEW i \in 1..Len(k), Chatty(p), FoundAt(p, k, i),
         Without(Punct, k), Without({NewLine}, k)
  PROVE  \E o \in 1..Len(NormalizeKey(k)) : o <= i /\ FoundAt(p, NormalizeKey(k), o)
<1>. DEFINE a == StripQuestion(k)
            b == Strip(a)
<1>1. a \in Texts /\ Without(Punct, a) /\ Without({NewLine}, a)
  BY NormalizeType, WithoutKept DEF StripQuestion
<1>2. PICK i1 \in 1..Len(a) : i1 <= i /\ FoundAt(p, a, i1)
  BY ChattyPastQuestion
<1>. HIDE DEF a
<1>3. b \in Texts /\ Without(Punct, b) /\ Without({NewLine}, b)
  BY <1>1, NormalizeType, WithoutKept DEF Strip
<1>4. PICK i2 \in 1..Len(b) : i2 <= i1 /\ FoundAt(p, b, i2)
  BY <1>1, <1>2, ChattyPastStrip
<1>. HIDE DEF b
<1>5. PICK i3 \in 1..Len(CollapseBlanks(b)) : i3 <= i2 /\ FoundAt(p, CollapseBlanks(b), i3)
  BY <1>3, <1>4, ChattyPastCollapse
<1>6. NormalizeKey(k) = CollapseBlanks(b)
  BY <1>3, NoPunctSame DEF NormalizeKey, a, b
<1>7. i3 <= i
  <2>1. Len(CollapseBlanks(b)) \in Nat /\ Len(a) \in Nat /\ Len(b) \in Nat /\ Len(k) \in Nat
    BY <1>1, <1>3, NormalizeType DEF Texts
  <2>. QED  BY <1>2, <1>4, <1>5, <2>1
<1>. QED  BY <1>5, <1>6, <1>7

\* The pieces that the patterns are made of: plain ones, and those a question prefix has.
Plain(w) ==
  /\ w # "define" /\ w # "explain" /\ w # "who" /\ w # "what" /\ w # "is"
  /\ w # Blank /\ w # NewLine /\ w # Apos /\ w # Mark /\ w # Sign

\* Patterns of one plain word are chatty; so are the others, of up to four words and
\* of two patterns joined.
LEMMA ChattyOne ==
  ASSUME NEW w, Plain(w)
  PROVE  Chatty(<<w>>)
<1>. DEFINE p == <<w>>
<1>1. Len(p) = 1 /\ p[1] = w
  BY DEF Texts, Plain
<1>. HIDE DEF p
<1>2. \A n \in 1..Len(p) : n = 1
  BY <1>1
<1>3. Chatty(p)
  BY <1>1, <1>2 DEF Chatty, IsWord, Punct, Spaces, Plain
<1>. QED  BY <1>3 DEF p

\* Two words.
LEMMA ChattyTwo ==
  ASSUME NEW a, NEW b, Plain(a), Plain(b)
  PROVE  Chatty(<<a, b>>)
<1>. DEFINE p == <<a, b>>
<1>1. Len(p) = 2 /\ p[1] = a /\ p[2] = b
  BY DEF Texts, Plain
<1>. HIDE DEF p
<1>2. \A n \in 1..Len(p) : n = 1 \/ n = 2
  BY <1>1
<1>3. Chatty(p)
  BY <1>1, <1>2 DEF Chatty, IsWord, Punct, Spaces, Plain
<1>. QED  BY <1>3 DEF p

\* Two words, or one with an apostrophe.
LEMMA ChattyThree ==
  ASSUME NEW a, NEW b \in {Blank, Apos}, NEW c,
         Plain(a) \/ (a = "what" /\ b = Apos), Plain(c) \/ (a = "how" /\ c = "is")
  PROVE  Chatty(<<a, b, c>>)
<1>. DEFINE p == <<a, b, c>>
<1>0. /\ a \notin {"define", "explain", "who", "is"} /\ IsWord(a)
      /\ b \notin {"define", "explain", "who", "what", "is"} /\ (a = "what" => b # Blank)
      /\ c \notin {"define", "explain", "who", "what"} /\ IsWord(c)
      /\ c = "is" => a = "how"
      /\ a # Blank /\ c # Blank
  BY DEF Plain, Blank, Apos, Mark, IsWord, Punct, Spaces, Sign, NewLine
<1>1. Len(p) = 3 /\ p[1] = a /\ p[2] = b /\ p[3] = c
  BY <1>0 DEF Texts
<1>. HIDE DEF p
<1>2. \A n \in 1..Len(p) : n = 1 \/ n = 2 \/ n = 3
  BY <1>1
<1>3. 3 > 2 /\ 3 - 2 = 1 /\ 2 > 1 /\ 2 - 1 = 1 /\ 1 + 1 = 2 /\ 2 <= 3 /\ Len(p) \in Nat \ {0}
  BY <1>1
<1>4. ASSUME NEW n \in 1..Len(p)
      PROVE  /\ p[n] \notin {"define", "explain", "who"}
             /\ p[n] = "what" => n + 1 <= Len(p) /\ p[n + 1] # Blank
             /\ p[n] = Blank => n > 1 /\ p[n - 1] \notin {"what", Blank}
             /\ p[n] = "is" => n > 2 /\ p[n - 2] = "how"
  <2>1. CASE n = 1
    BY <1>0, <1>1, <1>3, <2>1
  <2>2. CASE n = 2
    BY <1>0, <1>1, <1>3, <2>2
  <2>3. CASE n = 3
    BY <1>0, <1>1, <1>3, <2>3
  <2>. QED  BY <1>2, <2>1, <2>2, <2>3
<1>5. Chatty(p)
  BY <1>0, <1>1, <1>3, <1>4 DEF Chatty
<1>. QED  BY <1>5 DEF p

\* "let's start" and "what's up".
LEMMA ChattyFour ==
  ASSUME NEW a, NEW b, NEW c, a = "what" \/ Plain(a), Plain(b), Plain(c)
  PROVE  Chatty(<<a, b, Blank, c>>)
<1>. DEFINE p == <<a, b, Blank, c>>
<1>0. /\ a \notin {"define", "explain", "who", "is"} /\ IsWord(a)
      /\ b \notin {"define", "explain", "who", "what", "is"}
      /\ c \notin {"define", "explain", "who", "what", "is"} /\ IsWord(c)
      /\ Blank \notin {"define", "explain", "who", "what", "is"}
      /\ a # Blank /\ c # Blank /\ b # Blank
  BY DEF Plain, Blank, Apos, Mark, IsWord, Punct, Spaces, Sign, NewLine
<1>1. Len(p) = 4 /\ p[1] = a /\ p[2] = b /\ p[3] = Blank /\ p[4] = c
  BY <1>0 DEF Texts
<1>. HIDE DEF p
<1>2. \A n \in 1..Len(p) : n = 1 \/ n = 2 \/ n = 3 \/ n = 4
  BY <1>1
<1>3. 3 > 1 /\ 3 - 1 = 2 /\ 1 + 1 = 2 /\ 2 <= 4 /\ Len(p) \in Nat \ {0}
  BY <1>1
<1>4. ASSUME NEW n \in 1..Len(p)
      PROVE  /\ p[n] \notin {"define", "explain", "who", "is"}
             /\ p[n] = "what" => n + 1 <= Len(p) /\ p[n + 1] # Blank
             /\ p[n] = Blank => n > 1 /\ p[n - 1] \notin {"what", Blank}
  <2>1. CASE n = 1
    BY <1>0, <1>1, <1>3, <2>1
  <2>2. CASE n = 2
    BY <1>0, <1>1, <2>2
  <2>3. CASE n = 3
    BY <1>0, <1>1, <1>3, <2>3
  <2>4. CASE n = 4
    BY <1>0, <1>1, <2>4
  <2>. QED  BY <1>2, <2>1, <2>2, <2>3, <2>4
<1>5. Chatty(p)
  BY <1>0, <1>1, <1>3, <1>4 DEF Chatty
<1>. QED  BY <1>5 DEF p

\* Two patterns with a blank between them.
LEMMA ChattyJoin ==
  ASSUME NEW S, Blank \in S, NEW p \in Seq(S), NEW q \in Seq(S), Chatty(p), Chatty(q),
         p[Len(p)] # "what"
  PROVE  Chatty(p \o <<Blank>> \o q)
<1>. DEFINE t == p \o <<Blank>> \o q
<1>1. PICK l \in Nat \ {0}, m \in Nat \ {0} : l = Len(p) /\ m = Len(q)
  BY DEF Chatty
<1>2. /\ Len(t) = l + 1 + m /\ t[l + 1] = Blank
      /\ \A n \in 1..l : t[n] = p[n]
      /\ \A n \in 1..m : t[l + 1 + n] = q[n]
  <2>1. <<Blank>> \in Seq(S) /\ Len(<<Blank>>) = 1 /\ <<Blank>>[1] = Blank
    OBVIOUS
  <2>. QED  BY <1>1, <2>1
<1>. HIDE DEF t
<1>3. /\ IsWord(p[1]) /\ IsWord(p[l]) /\ IsWord(q[1]) /\ IsWord(q[m])
      /\ p[l] # Blank /\ q[1] # Blank /\ p[l] # "what"
  BY <1>1 DEF Chatty, IsWord, Spaces
<1>4. ASSUME NEW n \in 1..Len(t)
      PROVE  /\ t[n] \notin {"define", "explain", "who"}
             /\ t[n] = "what" => n + 1 <= Len(t) /\ t[n + 1] # Blank
             /\ t[n] = Blank => n > 1 /\ t[n - 1] \notin {"what", Blank}
             /\ t[n] = "is" => n > 2 /\ t[n - 2] = "how"
  <2>1. CASE n \in 1..l
    <3>1. /\ t[n] = p[n] /\ n <= Len(t)
          /\ p[n] \notin {"define", "explain", "who"}
          /\ p[n] = "what" => n + 1 <= l /\ p[n + 1] # Blank
          /\ p[n] = Blank => n > 1 /\ p[n - 1] \notin {"what", Blank}
          /\ p[n] = "is" => n > 2 /\ p[n - 2] = "how"
      BY <1>1, <1>2, <2>1 DEF Chatty
    <3>2. /\ n + 1 <= l => t[n + 1] = p[n + 1] /\ n + 1 <= Len(t)
          /\ n > 1 => t[n - 1] = p[n - 1]
          /\ n > 2 => t[n - 2] = p[n - 2]
      BY <1>1, <1>2, <2>1
    <3>. QED  BY <3>1, <3>2
  <2>2. CASE n = l + 1
    <3>1. t[n] = Blank /\ n > 1 /\ t[n - 1] = p[l]
      BY <1>1, <1>2, <2>2
    <3>2. t[n] \notin {"define", "explain", "who", "what", "is"}
      BY <3>1 DEF Blank
    <3>. QED  BY <1>3, <3>1, <3>2
  <2>3. CASE n \in l + 2..l + 1 + m
    <3>1. PICK k \in 1..m : n = l + 1 + k
      <4>1. n - l - 1 \in 1..m /\ n = l + 1 + (n - l - 1)
        BY <1>1, <2>3
      <4>. QED  BY <4>1
    <3>2. /\ t[n] = q[k]
          /\ q[k] \notin {"define", "explain", "who"}
          /\ q[k] = "what" => k + 1 <= m /\ q[k + 1] # Blank
          /\ q[k] = Blank => k > 1 /\ q[k - 1] \notin {"what", Blank}
          /\ q[k] = "is" => k > 2 /\ q[k - 2] = "how"
      BY <1>1, <1>2, <3>1 DEF Chatty
    <3>3. k + 1 <= m => t[n + 1] = q[k + 1] /\ n + 1 <= Len(t)
      <4>1. k + 1 <= m => k + 1 \in 1..m /\ n + 1 = l + 1 + (k + 1)
        BY <1>1, <3>1
      <4>. QED  BY <1>1, <1>2, <4>1
    <3>4. k > 1 => t[n - 1] = q[k - 1] /\ n > 1
      <4>1. k > 1 => k - 1 \in 1..m /\ n - 1 = l + 1 + (k - 1)
        BY <1>1, <3>1
      <4>. QED  BY <1>1, <1>2, <3>1, <4>1
    <3>5. k > 2 => t[n - 2] = q[k - 2] /\ n > 2
      <4>1. k > 2 => k - 2 \in 1..m /\ n - 2 = l + 1 + (k - 2)
        BY <1>1, <3>1
      <4>. QED  BY <1>1, <1>2, <3>1, <4>1
    <3>. QED  BY <3>2, <3>3, <3>4, <3>5
  <2>. QED  BY <1>1, <1>2, <2>1, <2>2, <2>3
<1>5. t[1] = p[1] /\ t[Len(t)] = q[m] /\ Len(t) \in Nat \ {0}
  BY <1>1, <1>2
<1>6. Chatty(t)
  BY <1>2, <1>3, <1>4, <1>5 DEF Chatty
<1>. QED  BY <1>6 DEF t

\* Every pattern of small talk is (server.py:112-123).
LEMMA PatternsChatty ==
  \A p \in CasualOpenings \cup CasualPhrases : Chatty(p)
<1>1. /\ Plain("hi") /\ Plain("hello") /\ Plain("hey") /\ Plain("yo")
      /\ Plain("s") /\ Plain("up") /\ Plain("good") /\ Plain("morning")
      /\ Plain("evening") /\ Plain("afternoon") /\ Plain("thank") /\ Plain("you")
      /\ Plain("cool") /\ Plain("nice") /\ Plain("okay") /\ Plain("ok")
      /\ Plain("ready") /\ Plain("proceed") /\ Plain("doing") /\ Plain("great")
      /\ Plain("let") /\ Plain("start") /\ Plain("how") /\ Plain("are")
      /\ Plain("your") /\ Plain("day") /\ Plain("it") /\ Plain("going")
  <2>1. Plain("hi") /\ Plain("hello") /\ Plain("hey") /\ Plain("yo")
    BY DEF Plain, Blank, Apos, Mark, Sign, NewLine
  <2>2. Plain("s") /\ Plain("up") /\ Plain("good") /\ Plain("morning")
    BY DEF Plain, Blank, Apos, Mark, Sign, NewLine
  <2>3. Plain("evening") /\ Plain("afternoon") /\ Plain("thank") /\ Plain("you")
    BY DEF Plain, Blank, Apos, Mark, Sign, NewLine
  <2>4. Plain("cool") /\ Plain("nice") /\ Plain("okay") /\ Plain("ok")
    BY DEF Plain, Blank, Apos, Mark, Sign, NewLine
  <2>5. Plain("ready") /\ Plain("proceed") /\ Plain("doing") /\ Plain("great")
    BY DEF Plain, Blank, Apos, Mark, Sign, NewLine
  <2>6. Plain("let") /\ Plain("start") /\ Plain("how") /\ Plain("are")
    BY DEF Plain, Blank, Apos, Mark, Sign, NewLine
  <2>7. Plain("your") /\ Plain("day") /\ Plain("it") /\ Plain("going")
    BY DEF Plain, Blank, Apos, Mark, Sign, NewLine
  <2>. QED  BY <2>1, <2>2, <2>3, <2>4, <2>5, <2>6, <2>7
<1>2. ASSUME NEW p \in CasualOpenings PROVE Chatty(p)
  <2>1. \/ \E w \in {"hi", "hello", "hey", "yo", "cool", "nice", "okay", "ok", "ready", "proceed"} :
             p = <<w>>
        \/ p = <<"s", "up">> \/ p = <<"thank", "s">>
        \/ \E w \in {"morning", "evening", "afternoon"} : p = <<"good", Blank, w>>
        \/ p = <<"thank", Blank, "you">> \/ p = <<"doing", Blank, "great">>
        \/ p = <<"let", "s", Blank, "start">>
    BY DEF CasualOpenings
  <2>2. ASSUME NEW w \in {"hi", "hello", "hey", "yo", "cool", "nice", "okay", "ok", "ready", "proceed"}
        PROVE  Chatty(<<w>>)
    BY <1>1, ChattyOne
  <2>3. Chatty(<<"s", "up">>) /\ Chatty(<<"thank", "s">>)
    BY <1>1, ChattyTwo
  <2>4. ASSUME NEW w \in {"morning", "evening", "afternoon"} PROVE Chatty(<<"good", Blank, w>>)
    BY <1>1, ChattyThree
  <2>5. Chatty(<<"thank", Blank, "you">>) /\ Chatty(<<"doing", Blank, "great">>)
    BY <1>1, ChattyThree
  <2>6. Chatty(<<"let", "s", Blank, "start">>)
    BY <1>1, ChattyFour
  <2>. QED  BY <2>1, <2>2, <2>3, <2>4, <2>5, <2>6
<1>. DEFINE S == {"how", "is", "are", "s", "you", "your", "day", "it", "going", "what", "up",
                  Blank, Apos}
<1>3. ASSUME NEW how \in {<<"how", Blank, "is">>, <<"how", Blank, "are">>, <<"how", Apos, "s">>},
             NEW whom \in {<<"you">>, <<"your", Blank, "day">>, <<"it", Blank, "going">>}
      PROVE  Chatty(how \o <<Blank>> \o whom)
  <2>1. Chatty(<<"how", Blank, "is">>) /\ Chatty(<<"how", Blank, "are">>)
        /\ Chatty(<<"how", Apos, "s">>)
    BY <1>1, ChattyThree
  <2>2. how \in Seq(S) /\ whom \in Seq(S) /\ Blank \in S
    <3>1. /\ "how" \in S /\ "is" \in S /\ "are" \in S /\ "s" \in S /\ "you" \in S
          /\ "your" \in S /\ "day" \in S /\ "it" \in S /\ "going" \in S
          /\ Blank \in S /\ Apos \in S
      OBVIOUS
    <3>. HIDE DEF S
    <3>2. <<"how", Blank, "is">> \in Seq(S) /\ <<"how", Blank, "are">> \in Seq(S)
          /\ <<"how", Apos, "s">> \in Seq(S)
      BY <3>1
    <3>3. <<"you">> \in Seq(S) /\ <<"your", Blank, "day">> \in Seq(S)
          /\ <<"it", Blank, "going">> \in Seq(S)
      BY <3>1
    <3>. QED  BY <3>1, <3>2, <3>3
  <2>3. how[Len(how)] # "what"
    <3>1. \E b, c : how = <<"how", b, c>> /\ c # "what"
      OBVIOUS
    <3>. QED  BY <3>1
  <2>4. Chatty(<<"you">>) /\ Chatty(<<"your", Blank, "day">>) /\ Chatty(<<"it", Blank, "going">>)
    BY <1>1, ChattyOne, ChattyThree
  <2>5. Chatty(how) /\ Chatty(whom)
    BY <2>1, <2>4
  <2>. HIDE DEF S
  <2>. QED  BY <2>2, <2>3, <2>5, ChattyJoin
<1>4. Chatty(<<"what", Apos, "s", Blank, "up">>)
  <2>. DEFINE p == <<"what", Apos, "s", Blank, "up">>
  <2>1. /\ Len(p) = 5 /\ p[1] = "what" /\ p[2] = Apos /\ p[3] = "s" /\ p[4] = Blank /\ p[5] = "up"
    OBVIOUS
  <2>. HIDE DEF p
  <2>2. \A n \in 1..Len(p) : n = 1 \/ n = 2 \/ n = 3 \/ n = 4 \/ n = 5
    BY <2>1
  <2>3. /\ Apos \notin {"define", "explain", "who", "what", "is", Blank}
        /\ Blank \notin {"define", "explain", "who", "what", "is"}
        /\ IsWord("what") /\ IsWord("up")
    BY DEF Blank, Apos, Mark, IsWord, Punct, Spaces, Sign, NewLine
  <2>4. 4 > 1 /\ 4 - 1 = 3 /\ 1 + 1 = 2 /\ 2 <= 5 /\ Len(p) \in Nat \ {0}
    BY <2>1
  <2>5. ASSUME NEW n \in 1..Len(p)
        PROVE  /\ p[n] \notin {"define", "explain", "who", "is"}
               /\ p[n] = "what" => n + 1 <= Len(p) /\ p[n + 1] # Blank
               /\ p[n] = Blank => n > 1 /\ p[n - 1] \notin {"what", Blank}
    <3>1. CASE n = 1
      BY <2>1, <2>3, <2>4, <3>1
    <3>2. CASE n = 2
      BY <2>1, <2>3, <3>2
    <3>3. CASE n = 3
      BY <1>1, <2>1, <3>3 DEF Plain
    <3>4. CASE n = 4
      BY <1>1, <2>1, <2>3, <2>4, <3>4 DEF Plain
    <3>5. CASE n = 5
      BY <1>1, <2>1, <3>5 DEF Plain
    <3>. QED  BY <2>2, <3>1, <3>2, <3>3, <3>4, <3>5
  <2>6. Chatty(p)
    BY <2>1, <2>3, <2>4, <2>5 DEF Chatty
  <2>. QED  BY <2>6 DEF p
<1>5. Chatty(<<"what", "s", Blank, "up">>)
  BY <1>1, ChattyFour
<1>. QED
  <2>. SUFFICES ASSUME NEW p \in CasualPhrases PROVE Chatty(p)
    BY <1>2
  <2>. DEFINE How  == {<<"how", Blank, "is">>, <<"how", Blank, "are">>, <<"how", Apos, "s">>}
              Whom == {<<"you">>, <<"your", Blank, "day">>, <<"it", Blank, "going">>}
              What == {<<"what", Apos, "s", Blank, "up">>, <<"what", "s", Blank, "up">>}
  <2>1. p \in {how \o <<Blank>> \o whom : how \in How, whom \in Whom} \/ p \in What
    BY SMT DEF CasualPhrases
  <2>2. \A how \in How, whom \in Whom : Chatty(how \o <<Blank>> \o whom)
    BY <1>3
  <2>3. \A q \in What : Chatty(q)
    BY <1>4, <1>5
  <2>. HIDE DEF How, Whom, What, S
  <2>4. p \in What \/ \E how \in How, whom \in Whom : p = how \o <<Blank>> \o whom
    BY <2>1, SMT
  <2>. QED  BY <2>2, <2>3, <2>4, Zenon

\* What is small talk when typed is small talk, or nothing, when it is to be saved.
LEMMA CasualTwice ==
  ASSUME NEW s \in Texts, IsCasual(s)
  PROVE  ~ AcceptsKey(s)
<1>. DEFINE k == NormalizeKey(s)
<1>1. k \in Texts /\ Without(Punct, k) /\ Without({NewLine}, k) /\ CasualKey(k)
  BY KeyCompact DEF IsCasual
<1>. HIDE DEF k
<1>2. CASE k = <<>>
  <2>1. NormalizeKey(k) = <<>>
    BY <1>1, <1>2, BlanksVanish, Len(<<>>) = 0
  <2>. QED  BY <2>1 DEF CasualKey, IsCasual, AcceptsKey, k
<1>3. ASSUME NEW p \in CasualOpenings, FoundAt(p, k, 1) PROVE CasualKey(NormalizeKey(k))
  <2>1. Chatty(p)
    BY PatternsChatty DEF Chatty
  <2>2. 1 \in 1..Len(k)
    BY <1>1, <1>3, <2>1 DEF Chatty, FoundAt, OccursAt, Texts
  <2>3. PICK o \in 1..Len(NormalizeKey(k)) : o <= 1 /\ FoundAt(p, NormalizeKey(k), o)
    BY <1>1, <1>3, <2>1, <2>2, ChattyKept
  <2>4. o = 1
    BY <2>3
  <2>. QED  BY <2>3, <2>4 DEF CasualKey
<1>4. ASSUME NEW p \in CasualPhrases, NEW i \in 1..Len(k), FoundAt(p, k, i)
      PROVE  CasualKey(NormalizeKey(k))
  <2>1. Chatty(p)
    BY PatternsChatty DEF Chatty
  <2>2. \E o \in 1..Len(NormalizeKey(k)) : FoundAt(p, NormalizeKey(k), o)
    BY <1>1, <1>4, <2>1, ChattyKept
  <2>. QED  BY <2>2 DEF CasualKey
<1>5. CasualKey(NormalizeKey(k))
  BY <1>1, <1>2, <1>3, <1>4 DEF CasualKey, AcceptsKey, IsCasual, k
<1>. QED  BY <1>5 DEF IsCasual, AcceptsKey, k

-----------------------------------------------------------------------------
(***************************************************************************)
(* Scraped turns.                                                          *)
(***************************************************************************)

\* The least element of a set of numbers, as Min finds it.
LEMMA MinThere ==
  ASSUME NEW S, S \subseteq Nat, S # {}
  PROVE  Min(S) \in S /\ \A y \in S : Min(S) <= y
BY LeastNat DEF Min

\* A least element is the only one.
LEMMA MinIs ==
  ASSUME NEW S, S \subseteq Nat, NEW x \in S, \A y \in S : x <= y
  PROVE  Min(S) = x
<1>1. Min(S) \in S /\ \A y \in S : Min(S) <= y
  BY MinThere
<1>2. Min(S) <= x /\ x <= Min(S)
  BY <1>1
<1>3. Min(S) \in Nat /\ x \in Nat
  BY <1>1
<1>. QED  BY <1>2, <1>3

\* What a new entry changes of a dictionary: its own key and nothing before it.
LEMMA EntryAdded ==
  ASSUME NEW S, NEW dict \in Seq(S), NEW entry \in S, entry.key \notin KeysIn(dict),
         NEW k
  PROVE  /\ KeysIn(Append(dict, entry)) = KeysIn(dict) \cup {entry.key}
         /\ k \in KeysIn(dict) => ValueOf(Append(dict, entry), k) = ValueOf(dict, k)
         /\ Near(dict, k) # {} =>
              /\ Near(Append(dict, entry), k) # {}
              /\ Min(Near(dict, k)) \in DOMAIN dict
              /\ Min(Near(Append(dict, entry), k)) = Min(Near(dict, k))
              /\ Append(dict, entry)[Min(Near(dict, k))] = dict[Min(Near(dict, k))]
<1>. DEFINE more == Append(dict, entry)
<1>1. PICK n \in Nat : n = Len(dict)
  OBVIOUS
<1>2. /\ DOMAIN dict = 1..n /\ DOMAIN more = 1..n + 1 /\ more[n + 1] = entry
      /\ \A i \in 1..n : more[i] = dict[i]
  BY <1>1
<1>. HIDE DEF more
<1>3. KeysIn(more) = KeysIn(dict) \cup {entry.key}
  <2>1. \A i \in 1..n + 1 : i \in 1..n \/ i = n + 1
    OBVIOUS
  <2>2. 1..n \subseteq 1..n + 1 /\ n + 1 \in 1..n + 1
    OBVIOUS
  <2>. QED  BY <1>2, <2>1, <2>2 DEF KeysIn
<1>4. ASSUME k \in KeysIn(dict) PROVE ValueOf(more, k) = ValueOf(dict, k)
  <2>1. entry.key # k
    BY <1>4
  <2>2. Holding(more, k) = Holding(dict, k)
    <3>1. \A i \in 1..n + 1 : i \in 1..n \/ i = n + 1
      OBVIOUS
    <3>. QED  BY <1>2, <2>1, <3>1 DEF Holding
  <2>3. Min(Holding(dict, k)) \in 1..n
    <3>1. Holding(dict, k) \subseteq Nat /\ Holding(dict, k) # {}
      BY <1>2, <1>4 DEF Holding, KeysIn
    <3>. QED  BY <1>2, <3>1, MinThere DEF Holding
  <2>. QED  BY <1>2, <2>2, <2>3 DEF ValueOf
<1>5. ASSUME Near(dict, k) # {}
      PROVE  /\ Near(more, k) # {}
             /\ Min(Near(dict, k)) \in DOMAIN dict
             /\ Min(Near(more, k)) = Min(Near(dict, k))
             /\ more[Min(Near(dict, k))] = dict[Min(Near(dict, k))]
  <2>1. Near(dict, k) \subseteq 1..n /\ Near(dict, k) \subseteq Near(more, k)
        /\ Near(more, k) \subseteq Near(dict, k) \cup {n + 1}
    <3>1. \A i \in 1..n + 1 : i \in 1..n \/ i = n + 1
      OBVIOUS
    <3>. QED  BY <1>2, <3>1 DEF Near
  <2>2. PICK m \in Near(dict, k) : m = Min(Near(dict, k)) /\ \A y \in Near(dict, k) : m <= y
    BY <1>5, <2>1, MinThere
  <2>3. m \in 1..n /\ m \in Near(more, k) /\ \A y \in Near(more, k) : m <= y
    BY <2>1, <2>2
  <2>4. Min(Near(more, k)) = m
    BY <2>1, <2>3, MinIs
  <2>. QED  BY <1>2, <2>2, <2>3, <2>4
<1>. QED  BY <1>3, <1>4, <1>5 DEF more

\* The reply to k is that of the guide it was, or one of those that a scraped turn with
\* this key may change.
ReplyKept(guide, told, added, k) ==
  \/ Reply(told, k) = Reply(guide, k)
  \/ /\ k \in KeysIn(guide.greetings) \cup KeysIn(guide.acknowledgments)
     /\ added = k /\ Greets(k) /\ k \notin KeysIn(guide.greetings)
  \/ /\ k \notin KeysIn(guide.greetings) \cup KeysIn(guide.acknowledgments)
     /\ \/ Reply(guide, k) = Otherwise
        \/ added \in KeysIn(guide.greetings) \cup KeysIn(guide.acknowledgments) \cup {k}
        \/ Greets(added) /\ Near(guide.greetings, k) = {}

\* A turn that is taken for an acknowledgment ...
LEMMA AcknowledgmentAdded ==
  ASSUME NEW S, NEW guide, NEW told, NEW entry \in S,
         guide.greetings \in Seq(S), guide.acknowledgments \in Seq(S),
         entry.key \notin KeysIn(guide.acknowledgments),
         told.greetings = guide.greetings,
         told.acknowledgments = Append(guide.acknowledgments, entry),
         NEW k
  PROVE  ReplyKept(guide, told, entry.key, k)
<1>. DEFINE gs == guide.greetings
            as == guide.acknowledgments
            more == Append(as, entry)
<1>1. /\ told.greetings = gs /\ told.acknowledgments = more
      /\ KeysIn(more) = KeysIn(as) \cup {entry.key}
      /\ \A x : x \in KeysIn(as) => ValueOf(more, x) = ValueOf(as, x)
      /\ Near(as, k) # {} =>
              /\ Near(more, k) # {}
              /\ Min(Near(more, k)) = Min(Near(as, k))
              /\ more[Min(Near(as, k))] = as[Min(Near(as, k))]
  BY EntryAdded
<1>. HIDE DEF gs, as, more
<1>2. CASE k \in KeysIn(gs)
  <2>1. Reply(told, k) = Reply(guide, k)
    BY <1>1, <1>2 DEF Reply, gs
  <2>. QED  BY <2>1 DEF ReplyKept
<1>3. CASE k \notin KeysIn(gs) /\ k \in KeysIn(as)
  <2>1. Reply(told, k) = Reply(guide, k)
    BY <1>1, <1>3 DEF Reply, gs, as
  <2>. QED  BY <2>1 DEF ReplyKept
<1>4. CASE k \notin KeysIn(gs) /\ k \notin KeysIn(as)
  <2>1. SUFFICES ASSUME entry.key \notin KeysIn(gs) \cup KeysIn(as) \cup {k},
                        Reply(guide, k) # Otherwise
                 PROVE  Reply(told, k) = Reply(guide, k)
    BY <1>4 DEF ReplyKept, gs, as
  <2>2. Reply(guide, k) = NearReply(guide, k) /\ Reply(told, k) = NearReply(told, k)
    BY <1>1, <1>4, <2>1 DEF Reply, gs, as
  <2>3. CASE Near(gs, k) # {}
    <3>. DEFINE g == gs[Min(Near(gs, k))].key
    <3>1. g \in KeysIn(gs)
      <4>1. Near(gs, k) \subseteq DOMAIN gs /\ DOMAIN gs \subseteq Nat
        BY DEF Near, gs
      <4>2. Min(Near(gs, k)) \in DOMAIN gs
        BY <2>3, <4>1, MinThere
      <4>. QED  BY <4>2 DEF KeysIn
    <3>. HIDE DEF g
    <3>2. Merged(told, g) = Merged(guide, g)
      <4>1. g # entry.key
        BY <2>1, <3>1
      <4>. QED  BY <1>1, <4>1 DEF Merged, gs, as
    <3>3. NearReply(guide, k) = Merged(guide, g) /\ NearReply(told, k) = Merged(told, g)
      BY <1>1, <2>3 DEF NearReply, gs, g
    <3>. QED  BY <2>2, <3>2, <3>3
  <2>4. CASE Near(gs, k) = {}
    <3>1. Near(as, k) # {}
      BY <2>1, <2>2, <2>4 DEF NearReply, gs, as
    <3>2. NearReply(guide, k) = as[Min(Near(as, k))].reply
      BY <2>4, <3>1 DEF NearReply, gs, as
    <3>3. NearReply(told, k) = more[Min(Near(more, k))].reply
      BY <1>1, <2>4, <3>1 DEF NearReply, gs
    <3>. QED  BY <1>1, <2>2, <3>1, <3>2, <3>3
  <2>. QED  BY <2>3, <2>4
<1>. QED  BY <1>2, <1>3, <1>4

\* ... and one that is taken for a greeting.
LEMMA GreetingAdded ==
  ASSUME NEW S, NEW guide, NEW told, NEW entry \in S,
         guide.greetings \in Seq(S), guide.acknowledgments \in Seq(S),
         entry.key \notin KeysIn(guide.greetings), Greets(entry.key),
         told.acknowledgments = guide.acknowledgments,
         told.greetings = Append(guide.greetings, entry),
         NEW k
  PROVE  ReplyKept(guide, told, entry.key, k)
<1>. DEFINE gs == guide.greetings
            as == guide.acknowledgments
            more == Append(gs, entry)
<1>1. /\ told.greetings = more /\ told.acknowledgments = as
      /\ KeysIn(more) = KeysIn(gs) \cup {entry.key}
      /\ \A x : x \in KeysIn(gs) => ValueOf(more, x) = ValueOf(gs, x)
      /\ Near(gs, k) # {} =>
              /\ Near(more, k) # {}
              /\ Min(Near(more, k)) = Min(Near(gs, k))
              /\ more[Min(Near(gs, k))] = gs[Min(Near(gs, k))]
  BY EntryAdded
<1>. HIDE DEF gs, as, more
<1>2. CASE k \in KeysIn(gs)
  <2>1. Reply(told, k) = Reply(guide, k)
    BY <1>1, <1>2 DEF Reply, gs
  <2>. QED  BY <2>1 DEF ReplyKept
<1>3. CASE k \notin KeysIn(gs) /\ k \in KeysIn(as)
  <2>1. CASE entry.key = k
    BY <1>3, <2>1 DEF ReplyKept, gs, as
  <2>2. CASE entry.key # k
    <3>1. Reply(told, k) = Reply(guide, k)
      BY <1>1, <1>3, <2>2 DEF Reply, gs, as
    <3>. QED  BY <3>1 DEF ReplyKept
  <2>. QED  BY <2>1, <2>2
<1>4. CASE k \notin KeysIn(gs) /\ k \notin KeysIn(as)
  <2>1. SUFFICES ASSUME entry.key \notin KeysIn(gs) \cup KeysIn(as) \cup {k},
                        Near(gs, k) # {}
                 PROVE  Reply(told, k) = Reply(guide, k)
    BY <1>4 DEF ReplyKept, gs, as
  <2>2. Reply(guide, k) = NearReply(guide, k) /\ Reply(told, k) = NearReply(told, k)
    BY <1>1, <1>4, <2>1 DEF Reply, gs, as
  <2>. DEFINE g == gs[Min(Near(gs, k))].key
  <2>3. g \in KeysIn(gs)
    <3>1. Near(gs, k) \subseteq DOMAIN gs /\ DOMAIN gs \subseteq Nat
      BY DEF Near, gs
    <3>2. Min(Near(gs, k)) \in DOMAIN gs
      BY <2>1, <3>1, MinThere
    <3>. QED  BY <3>2 DEF KeysIn
  <2>4. NearReply(guide, k) = Merged(guide, g)
    BY <2>1 DEF NearReply, gs
  <2>5. NearReply(told, k) = Merged(told, g)
    <3>1. NearReply(told, k) = Merged(told, more[Min(Near(more, k))].key)
      BY <1>1, <2>1 DEF NearReply
    <3>. QED  BY <1>1, <2>1, <3>1
  <2>. HIDE DEF g
  <2>6. Merged(told, g) = Merged(guide, g)
    BY <1>1, <2>3 DEF Merged, gs, as
  <2>. QED  BY <2>2, <2>4, <2>5, <2>6
<1>. QED  BY <1>2, <1>3, <1>4

\* What one turn of the scraper leaves of the hand-written replies.
LEMMA ScrapedKept ==
  ASSUME NEW turn, NEW k
  PROVE  ReplyKept(Guide, Scrape(Guide, turn, "scraped"), ScrapedKey(turn), k)
<1>. DEFINE key   == ScrapedKey(turn)
            entry == Entry(key, "scraped")
            told  == Scrape(Guide, turn, "scraped")
            S     == EntriesIn(Guide) \cup {entry}
<1>0. ASSUME told = Guide PROVE ReplyKept(Guide, told, key, k)
  BY <1>0 DEF ReplyKept
<1>1. Guide \in [greetings : Seq(EntriesIn(Guide)), acknowledgments : Seq(EntriesIn(Guide))]
  BY MCAssumption
<1>2. entry.key = key
  BY DEF Entry
<1>3. /\ Guide.greetings \in Seq(S) /\ Guide.acknowledgments \in Seq(S) /\ entry \in S
      /\ DOMAIN Guide = {"greetings", "acknowledgments"}
  <2>1. Guide.greetings \in Seq(EntriesIn(Guide)) /\ Guide.acknowledgments \in Seq(EntriesIn(Guide))
        /\ DOMAIN Guide = {"greetings", "acknowledgments"}
    BY <1>1
  <2>2. EntriesIn(Guide) \subseteq S
    OBVIOUS
  <2>. HIDE DEF S
  <2>3. Guide.greetings \in Seq(S) /\ Guide.acknowledgments \in Seq(S)
    BY <2>1, <2>2, SeqMonotone
  <2>. QED  BY <2>1, <2>3 DEF S
<1>4. told = IF Fits(key)
             THEN [Guide EXCEPT ![IF Greets(key) THEN "greetings" ELSE "acknowledgments"] =
                     MergeEntry(@, entry)]
             ELSE Guide
  BY DEF Scrape, ScrapedKey
<1>. HIDE DEF key, entry, told, S
<1>5. CASE ~ Fits(key)
  <2>1. ReplyKept(Guide, told, key, k)
    BY <1>0, <1>4, <1>5
  <2>. QED  BY <2>1 DEF told, key
<1>6. CASE Fits(key) /\ Greets(key)
  <2>1. told = [Guide EXCEPT !["greetings"] = MergeEntry(Guide.greetings, entry)]
    BY <1>4, <1>6
  <2>2. CASE key \in KeysIn(Guide.greetings)
    <3>1. MergeEntry(Guide.greetings, entry) = Guide.greetings
      BY <1>2, <2>2 DEF MergeEntry
    <3>2. told = Guide
      BY <1>1, <2>1, <3>1
    <3>. QED  BY <1>0, <3>2 DEF told, key
  <2>3. CASE key \notin KeysIn(Guide.greetings)
    <3>1. MergeEntry(Guide.greetings, entry) = Append(Guide.greetings, entry)
      BY <1>2, <2>3 DEF MergeEntry
    <3>2. /\ told.greetings = Append(Guide.greetings, entry)
          /\ told.acknowledgments = Guide.acknowledgments
      BY <1>3, <2>1, <3>1
    <3>3. ReplyKept(Guide, told, entry.key, k)
      BY <1>2, <1>3, <1>6, <2>3, <3>2, GreetingAdded
    <3>. QED  BY <1>2, <3>3 DEF told, key
  <2>. QED  BY <2>2, <2>3
<1>7. CASE Fits(key) /\ ~ Greets(key)
  <2>1. told = [Guide EXCEPT !["acknowledgments"] = MergeEntry(Guide.acknowledgments, entry)]
    BY <1>4, <1>7
  <2>2. CASE key \in KeysIn(Guide.acknowledgments)
    <3>1. MergeEntry(Guide.acknowledgments, entry) = Guide.acknowledgments
      BY <1>2, <2>2 DEF MergeEntry
    <3>2. told = Guide
      BY <1>1, <2>1, <3>1
    <3>. QED  BY <1>0, <3>2 DEF told, key
  <2>3. CASE key \notin KeysIn(Guide.acknowledgments)
    <3>1. MergeEntry(Guide.acknowledgments, entry) = Append(Guide.acknowledgments, entry)
      BY <1>2, <2>3 DEF MergeEntry
    <3>2. /\ told.acknowledgments = Append(Guide.acknowledgments, entry)
          /\ told.greetings = Guide.greetings
      BY <1>3, <2>1, <3>1
    <3>3. ReplyKept(Guide, told, entry.key, k)
      BY <1>2, <1>3, <2>3, <3>2, AcknowledgmentAdded
    <3>. QED  BY <1>2, <3>3 DEF told, key
  <2>. QED  BY <2>2, <2>3
<1>. QED  BY <1>5, <1>6, <1>7 DEF told, key

-----------------------------------------------------------------------------
(***************************************************************************)
(* Stripping the ends.                                                     *)
(***************************************************************************)

\* Where the first position is kept, the first token is.
LEMMA AtFirst ==
  ASSUME NEW S, NEW s \in Seq(S), Len(s) >= 1, NEW keep, 1 \in keep
  PROVE  Len(At(s, keep)) >= 1 /\ At(s, keep)[1] = s[1]
<1>1. PICK pos : IsEnum(pos, s, keep)
  BY AtEnum
<1>2. 1 \in 1..Len(s) /\ Len(At(s, keep)) \in Nat
  BY AtType
<1>3. 1 <= Len(At(s, keep)) /\ pos[1] <= 1
  BY <1>1, <1>2, EnumNext
<1>4. 1 \in 1..Len(At(s, keep))
  BY <1>2, <1>3
<1>5. pos[1] \in 1..Len(s) /\ At(s, keep)[1] = s[pos[1]]
  BY <1>1, <1>4 DEF IsEnum
<1>6. pos[1] = 1
  BY <1>3, <1>5
<1>. QED  BY <1>3, <1>5, <1>6

\* What is stripped has other tokens than white space at its ends.
LEMMA StripEnds ==
  ASSUME NEW s \in Texts, Len(Strip(s)) >= 1
  PROVE  Strip(s)[1] \notin Spaces /\ Strip(s)[Len(Strip(s))] \notin Spaces
<1>. DEFINE keep == {i \in 1..Len(s) : /\ \E j \in 1..i : s[j] \notin Spaces
                                       /\ \E j \in i..Len(s) : s[j] \notin Spaces}
            t == At(s, keep)
<1>1. t = Strip(s)
  BY DEF Strip
<1>2. Len(t) \in Nat /\ Len(s) \in Nat
  BY AtType DEF Texts
<1>3. PICK pos : IsEnum(pos, s, keep)
  BY AtEnum DEF Texts
<1>4. /\ \A k \in 1..Len(t) : pos[k] \in 1..Len(s) /\ pos[k] \in keep /\ t[k] = s[pos[k]]
      /\ \A k, l \in 1..Len(t) : k < l => pos[k] < pos[l]
      /\ \A i \in 1..Len(s) : i \in keep => \E k \in 1..Len(t) : pos[k] = i
  BY <1>3 DEF IsEnum
<1>5. \A i \in 1..Len(s) : i \in keep => pos[1] <= i
  BY <1>3, EnumNext DEF Texts
<1>7. \A i \in 1..Len(s) : s[i] \notin Spaces => i \in keep
  BY <1>2
<1>. HIDE DEF t
<1>6. 1 \in 1..Len(t) /\ Len(t) \in 1..Len(t)
  BY <1>1, <1>2
<1>8. t[1] \notin Spaces
  <2>1. PICK j \in 1..pos[1] : s[j] \notin Spaces
    BY <1>4, <1>6
  <2>2. j \in 1..Len(s) /\ j <= pos[1] /\ pos[1] \in 1..Len(s)
    BY <1>2, <1>4, <1>6
  <2>3. pos[1] <= j
    BY <1>5, <1>7, <2>1, <2>2
  <2>4. pos[1] = j
    BY <2>2, <2>3
  <2>. QED  BY <1>4, <1>6, <2>1, <2>4
<1>9. t[Len(t)] \notin Spaces
  <2>1. PICK j \in pos[Len(t)]..Len(s) : s[j] \notin Spaces
    BY <1>4, <1>6
  <2>2. j \in 1..Len(s) /\ pos[Len(t)] <= j /\ pos[Len(t)] \in 1..Len(s)
    BY <1>2, <1>4, <1>6
  <2>3. PICK k \in 1..Len(t) : pos[k] = j
    BY <1>4, <1>7, <2>1, <2>2
  <2>4. CASE k < Len(t)
    <3>1. pos[k] < pos[Len(t)]
      BY <1>4, <1>6, <2>4
    <3>. QED  BY <2>2, <2>3, <3>1
  <2>5. CASE k = Len(t)
    BY <1>4, <1>6, <2>1, <2>3, <2>5
  <2>. QED  BY <1>2, <2>4, <2>5
<1>. QED  BY <1>1, <1>8, <1>9

\* A text with other tokens at its ends is stripped already.
LEMMA StripSame ==
  ASSUME NEW s \in Texts, s # <<>> => s[1] \notin Spaces /\ s[Len(s)] \notin Spaces
  PROVE  Strip(s) = s
<1>1. ASSUME NEW i \in 1..Len(s)
      PROVE  (\E j \in 1..i : s[j] \notin Spaces) /\ (\E j \in i..Len(s) : s[j] \notin Spaces)
  <2>1. s # <<>> /\ 1 \in 1..i /\ Len(s) \in i..Len(s)
    BY DEF Texts
  <2>. QED  BY <2>1
<1>. QED  BY <1>1, AtAll DEF Strip, Texts

\* Stripping white space at the ends makes no two neighbours.
LEMMA StripSingle ==
  ASSUME NEW s \in Texts, SingleSpaces(s)
  PROVE  SingleSpaces(Strip(s))
<1>. DEFINE keep == {i \in 1..Len(s) : /\ \E j \in 1..i : s[j] \notin Spaces
                                       /\ \E j \in i..Len(s) : s[j] \notin Spaces}
            t == At(s, keep)
<1>1. PICK pos : IsEnum(pos, s, keep)
  BY AtEnum DEF Texts
<1>2. ASSUME NEW k \in 1..Len(t), k > 1, t[k] \in Spaces, t[k - 1] \in Spaces PROVE FALSE
  <2>. DEFINE i == pos[k - 1]
              j == pos[k]
  <2>1. k - 1 \in 1..Len(t) /\ k - 1 < k /\ k - 1 + 1 = k /\ k <= Len(t)
    BY <1>2
  <2>2. /\ i \in 1..Len(s) /\ j \in 1..Len(s) /\ i < j /\ s[i] \in Spaces /\ s[j] \in Spaces
        /\ i \in keep /\ j \in keep
    BY <1>1, <1>2, <2>1 DEF IsEnum
  <2>3. \A l \in 1..Len(s) : i < l /\ l < j => l \notin keep
    BY <1>1, <2>1, EnumNext DEF Texts
  <2>4. i + 1 \in 1..Len(s) /\ i + 1 <= j /\ i + 1 - 1 = i /\ Len(s) \in Nat
    <3>1. Len(s) \in Nat
      BY DEF Texts
    <3>. HIDE DEF i, j, keep
    <3>. QED  BY <2>2, <3>1
  <2>5. CASE j = i + 1
    BY <2>2, <2>4, <2>5 DEF SingleSpaces
  <2>6. CASE i + 1 < j
    <3>1. PICK x \in 1..i, y \in j..Len(s) : s[x] \notin Spaces /\ s[y] \notin Spaces
      BY <2>2
    <3>. HIDE DEF i, j
    <3>2. x \in 1..i + 1 /\ y \in i + 1..Len(s)
      BY <2>2, <2>4, <2>6
    <3>3. i + 1 \in keep
      BY <2>4, <3>1, <3>2
    <3>4. i < i + 1
      BY <2>2
    <3>. QED  BY <2>3, <2>4, <2>6, <3>3, <3>4
  <2>. HIDE DEF i, j
  <2>. QED  BY <2>2, <2>4, <2>5, <2>6
<1>3. SingleSpaces(t)
  <2>. HIDE DEF t
  <2>. QED  BY <1>2 DEF SingleSpaces
<1>. QED  BY <1>3 DEF Strip

-----------------------------------------------------------------------------
(***************************************************************************)
(* The output guardrails.                                                  *)
(***************************************************************************)

\* No "context:".
NoContext(s) == \A i \in 1..Len(s) : ~ OccursAt(Context, s, i)

\* At most one stop, at the end.
OneStop(s) == \A i \in 1..Len(s) : s[i] = Stop => i = Len(s)

\* What clean_factual_output leaves as it is, when it has three words and no marker.
Stable(s) ==
  /\ s \in Texts /\ Len(s) > 1
  /\ Without({Cjk}, s) /\ NoContext(s) /\ SingleSpaces(s) /\ OneStop(s)
  /\ s[1] \notin Spaces /\ s[Len(s)] = Stop

\* Where "context:" is.
LEMMA ContextAt ==
  ASSUME NEW s \in Texts, NEW i \in 1..Len(s)
  PROVE  OccursAt(Context, s, i) <=> i < Len(s) /\ s[i] = "context" /\ s[i + 1] = Colon
<1>1. Len(Context) = 2 /\ Context[1] = "context" /\ Context[2] = Colon
  BY DEF Context
<1>2. Len(s) \in Nat /\ i + 1 - 1 = i /\ i + 2 - 1 = i + 1 /\ 1 \in 1..2 /\ 2 \in 1..2
  BY DEF Texts
<1>3. \A n \in 1..2 : n = 1 \/ n = 2
  OBVIOUS
<1>. HIDE DEF Context
<1>4. OccursAt(Context, s, i) <=> i + 2 - 1 <= Len(s) /\ s[i + 1 - 1] = "context" /\ s[i + 2 - 1] = Colon
  BY <1>1, <1>2, <1>3 DEF OccursAt
<1>. QED  BY <1>2, <1>4

\* No position is dropped after a "context" that the next kept one does not follow.
Joins(s, keep) ==
  \A i, j \in 1..Len(s) :
    /\ i \in keep /\ j \in keep /\ i < j
    /\ \A l \in 1..Len(s) : i < l /\ l < j => l \notin keep
    => j = i + 1 \/ s[i] # "context"

\* Dropping such tokens makes no "context:".
LEMMA NoContextKept ==
  ASSUME NEW s \in Texts, NoContext(s), NEW keep, Joins(s, keep)
  PROVE  NoContext(At(s, keep))
<1>. DEFINE t == At(s, keep)
<1>1. t \in Texts /\ Len(t) \in Nat
  BY AtType DEF Texts
<1>2. PICK pos : IsEnum(pos, s, keep)
  BY AtEnum DEF Texts
<1>3. ASSUME NEW k \in 1..Len(t), k < Len(t), t[k] = "context", t[k + 1] = Colon PROVE FALSE
  <2>. DEFINE i == pos[k]
              j == pos[k + 1]
  <2>1. k + 1 \in 1..Len(t) /\ k < k + 1 /\ k + 1 <= Len(t)
    BY <1>1, <1>3
  <2>2. /\ i \in 1..Len(s) /\ j \in 1..Len(s) /\ i < j /\ i \in keep /\ j \in keep
        /\ s[i] = "context" /\ s[j] = Colon
    BY <1>2, <1>3, <2>1 DEF IsEnum
  <2>3. \A l \in 1..Len(s) : i < l /\ l < j => l \notin keep
    BY <1>2, <2>1, EnumNext DEF Texts
  <2>. HIDE DEF i, j, t
  <2>4. j = i + 1
    BY <2>2, <2>3 DEF Joins
  <2>5. Len(s) \in Nat
    BY DEF Texts
  <2>6. OccursAt(Context, s, i)
    BY <2>2, <2>4, <2>5, ContextAt
  <2>. QED  BY <2>2, <2>6 DEF NoContext
<1>. HIDE DEF t
<1>4. ASSUME NEW k \in 1..Len(t) PROVE ~ OccursAt(Context, t, k)
  BY <1>1, <1>3, ContextAt
<1>. QED  BY <1>4 DEF NoContext, t

\* A block of positions joins nothing.
LEMMA BlockJoins ==
  ASSUME NEW s \in Texts, NEW keep,
         \A i, j, l \in 1..Len(s) : i \in keep /\ j \in keep /\ i < l /\ l < j => l \in keep
  PROVE  Joins(s, keep)
<1>. SUFFICES ASSUME NEW i \in 1..Len(s), NEW j \in 1..Len(s), i \in keep, j \in keep, i < j,
                     \A l \in 1..Len(s) : i < l /\ l < j => l \notin keep
              PROVE  j = i + 1
  BY DEF Joins
<1>1. CASE i + 1 < j
  <2>1. i + 1 \in 1..Len(s) /\ i < i + 1
    BY <1>1
  <2>. QED  BY <1>1, <2>1
<1>2. CASE ~ (i + 1 < j)
  BY <1>2
<1>. QED  BY <1>1, <1>2

\* Neither strip() nor a sentence makes a "context:".
LEMMA StripNoContext ==
  ASSUME NEW s \in Texts, NoContext(s)
  PROVE  NoContext(Strip(s))
<1>. DEFINE keep == {i \in 1..Len(s) : /\ \E j \in 1..i : s[j] \notin Spaces
                                       /\ \E j \in i..Len(s) : s[j] \notin Spaces}
<1>1. ASSUME NEW i \in 1..Len(s), NEW j \in 1..Len(s), NEW l \in 1..Len(s),
             i \in keep, j \in keep, i < l, l < j
      PROVE  l \in keep
  <2>1. PICK x \in 1..i, y \in j..Len(s) : s[x] \notin Spaces /\ s[y] \notin Spaces
    BY <1>1
  <2>2. x \in 1..l /\ y \in l..Len(s)
    BY <1>1
  <2>. QED  BY <2>1, <2>2
<1>. HIDE DEF keep
<1>2. NoContext(At(s, keep))
  BY <1>1, BlockJoins, NoContextKept
<1>. QED  BY <1>2 DEF Strip, keep

LEMMA SentenceNoContext ==
  ASSUME NEW s \in Texts, NoContext(s), NEW m \in 1..Len(s)
  PROVE  NoContext(SentenceAt(s, m))
<1>. DEFINE keep == {j \in m..Len(s) : \A k \in m..j - 1 : s[k] # Stop}
<1>1. ASSUME NEW i \in 1..Len(s), NEW j \in 1..Len(s), NEW l \in 1..Len(s),
             i \in keep, j \in keep, i < l, l < j
      PROVE  l \in keep
  <2>1. l \in m..Len(s)
    BY <1>1
  <2>2. \A k \in m..l - 1 : k \in m..j - 1
    BY <1>1
  <2>. QED  BY <1>1, <2>1, <2>2
<1>. HIDE DEF keep
<1>2. NoContext(At(s, keep))
  BY <1>1, BlockJoins, NoContextKept
<1>. QED  BY <1>2 DEF SentenceAt, keep

\* The text in which re.sub puts a blank for runs of white space, before they are cut.
Squeezed(s) ==
  [i \in 1..Len(s) |-> IF i < Len(s) /\ {s[i], s[i+1]} \subseteq Spaces THEN Blank ELSE s[i]]

LEMMA SqueezedSpaces ==
  ASSUME NEW s \in Texts
  PROVE  SameSpaces(Squeezed(s), s) /\ SqueezeSpaces(s) = At(Squeezed(s), RunHeads(s))
<1>1. Len(s) \in Nat /\ \A i \in 1..Len(s) : s[i] \in Symbols
  BY DEF Texts
<1>2. Blank \in Symbols
  BY DEF Symbols
<1>3. Squeezed(s) \in Texts /\ Len(Squeezed(s)) = Len(s)
  BY <1>1, <1>2 DEF Squeezed, Texts
<1>4. SameSpaces(Squeezed(s), s)
  BY <1>1, <1>3 DEF SameSpaces, Squeezed
<1>. QED  BY <1>4 DEF SqueezeSpaces, Squeezed

\* Squeezing white space makes no "context:" either: it drops only what follows white
\* space.
LEMMA SqueezeNoContext ==
  ASSUME NEW s \in Texts, NoContext(s)
  PROVE  NoContext(SqueezeSpaces(s))
<1>. DEFINE m == Squeezed(s)
<1>1. /\ m \in Texts /\ Len(m) = Len(s) /\ Len(s) \in Nat
      /\ \A i \in 1..Len(s) : m[i] = s[i] \/ (m[i] = Blank /\ s[i] \in Spaces)
      /\ SqueezeSpaces(s) = At(m, RunHeads(s))
  BY SqueezedSpaces DEF SameSpaces, Texts
<1>. HIDE DEF m
<1>2. "context" # Blank /\ Colon # Blank /\ "context" \notin Spaces
  BY DEF Blank, Colon, Spaces, NewLine
<1>3. NoContext(m)
  <2>. SUFFICES ASSUME NEW i \in 1..Len(m), OccursAt(Context, m, i) PROVE FALSE
    BY DEF NoContext
  <2>1. i < Len(s) /\ m[i] = "context" /\ m[i + 1] = Colon
    BY <1>1, ContextAt
  <2>2. i + 1 \in 1..Len(s) /\ i \in 1..Len(s)
    BY <1>1, <2>1
  <2>3. s[i] = "context" /\ s[i + 1] = Colon
    BY <1>1, <1>2, <2>1, <2>2
  <2>4. OccursAt(Context, s, i)
    BY <2>1, <2>2, <2>3, ContextAt
  <2>. QED  BY <2>2, <2>4 DEF NoContext
<1>4. Joins(m, RunHeads(s))
  <2>. SUFFICES ASSUME NEW i \in 1..Len(m), NEW j \in 1..Len(m),
                       i \in RunHeads(s), j \in RunHeads(s), i < j,
                       \A l \in 1..Len(m) : i < l /\ l < j => l \notin RunHeads(s),
                       m[i] = "context"
                PROVE  j = i + 1
    BY DEF Joins
  <2>1. CASE i + 1 < j
    <3>1. i + 1 \in 1..Len(s) /\ i < i + 1 /\ i + 1 - 1 = i /\ i \in 1..Len(s)
      BY <1>1, <2>1
    <3>2. i + 1 \notin RunHeads(s)
      BY <1>1, <2>1, <3>1
    <3>3. s[i] \in Spaces
      BY <3>1, <3>2 DEF RunHeads
    <3>. QED  BY <1>1, <1>2, <3>1, <3>3
  <2>2. CASE ~ (i + 1 < j)
    BY <1>1, <2>2
  <2>. QED  BY <2>1, <2>2
<1>. QED  BY <1>1, <1>3, <1>4, NoContextKept

\* Dropping tokens leaves at most the one stop, at the end.
LEMMA OneStopKept ==
  ASSUME NEW s \in Texts, OneStop(s), NEW keep
  PROVE  OneStop(At(s, keep))
<1>. DEFINE t == At(s, keep)
<1>1. PICK pos : IsEnum(pos, s, keep)
  BY AtEnum DEF Texts
<1>2. /\ \A k \in 1..Len(t) : pos[k] \in 1..Len(s) /\ t[k] = s[pos[k]]
      /\ \A k, l \in 1..Len(t) : k < l => pos[k] < pos[l]
  BY <1>1 DEF IsEnum
<1>3. Len(t) \in Nat
  BY AtType DEF Texts
<1>. HIDE DEF t
<1>4. ASSUME NEW k \in 1..Len(t), t[k] = Stop, k # Len(t) PROVE FALSE
  <2>1. k < Len(t) /\ Len(t) \in 1..Len(t)
    BY <1>3, <1>4
  <2>2. pos[k] < pos[Len(t)] /\ pos[k] \in 1..Len(s) /\ pos[Len(t)] \in 1..Len(s)
    BY <1>2, <2>1
  <2>3. pos[k] = Len(s)
    BY <1>2, <1>4 DEF OneStop
  <2>. QED  BY <2>2, <2>3
<1>. QED  BY <1>4 DEF OneStop, t

\* A sentence has one stop at most.
LEMMA SentenceOneStop ==
  ASSUME NEW s \in Texts, NEW i \in 1..Len(s)
  PROVE  OneStop(SentenceAt(s, i))
<1>. DEFINE keep == {j \in i..Len(s) : \A k \in i..j - 1 : s[k] # Stop}
            t == At(s, keep)
<1>1. PICK pos : IsEnum(pos, s, keep)
  BY AtEnum DEF Texts
<1>2. /\ \A k \in 1..Len(t) : pos[k] \in 1..Len(s) /\ pos[k] \in keep /\ t[k] = s[pos[k]]
      /\ \A k, l \in 1..Len(t) : k < l => pos[k] < pos[l]
  BY <1>1 DEF IsEnum
<1>3. Len(t) \in Nat /\ t = SentenceAt(s, i)
  BY AtType DEF Texts, SentenceAt
<1>. HIDE DEF t
<1>4. ASSUME NEW k \in 1..Len(t), t[k] = Stop, k # Len(t) PROVE FALSE
  <2>1. k < Len(t) /\ Len(t) \in 1..Len(t)
    BY <1>3, <1>4
  <2>2. PICK a \in 1..Len(s), b \in 1..Len(s) : a = pos[k] /\ b = pos[Len(t)]
    BY <1>2, <2>1
  <2>3. a \in keep /\ b \in keep /\ s[a] = Stop /\ a < b
    BY <1>2, <1>4, <2>1, <2>2
  <2>4. a \in i..b - 1
    BY <2>3
  <2>. QED  BY <2>3, <2>4
<1>. QED  BY <1>3, <1>4 DEF OneStop, t

\* Squeezing white space leaves single white space, no token that was not there but
\* blanks, and at most the one stop.
LEMMA SqueezeKeeps ==
  ASSUME NEW s \in Texts
  PROVE  /\ SqueezeSpaces(s) \in Texts /\ SingleSpaces(SqueezeSpaces(s))
         /\ Without({Cjk}, s) => Without({Cjk}, SqueezeSpaces(s))
         /\ OneStop(s) => OneStop(SqueezeSpaces(s))
<1>. DEFINE m == Squeezed(s)
<1>1. /\ SameSpaces(m, s) /\ m \in Texts /\ Len(m) = Len(s)
      /\ \A i \in 1..Len(s) : m[i] = s[i] \/ (m[i] = Blank /\ s[i] \in Spaces)
      /\ SqueezeSpaces(s) = At(m, RunHeads(s))
  BY SqueezedSpaces DEF SameSpaces
<1>. HIDE DEF m
<1>2. Blank # Cjk /\ Blank # Stop
  BY DEF Blank, Cjk, Stop
<1>3. SqueezeSpaces(s) \in Texts
  BY <1>1, AtType DEF Texts
<1>4. SingleSpaces(SqueezeSpaces(s))
  BY <1>1, HeadsSingle
<1>5. ASSUME Without({Cjk}, s) PROVE Without({Cjk}, SqueezeSpaces(s))
  <2>1. Without({Cjk}, m)
    BY <1>1, <1>2, <1>5 DEF Without
  <2>. QED  BY <1>1, <2>1, WithoutKept
<1>6. ASSUME OneStop(s) PROVE OneStop(SqueezeSpaces(s))
  <2>1. OneStop(m)
    BY <1>1, <1>2, <1>6 DEF OneStop
  <2>. QED  BY <1>1, <2>1, OneStopKept
<1>. QED  BY <1>3, <1>4, <1>5, <1>6

\* Where the first "context:" is, or the end of the text.
CutAt(s, n) ==
  /\ \A i \in 1..n : ~ OccursAt(Context, s, i)
  /\ n < Len(s) => OccursAt(Context, s, n + 1)

\* What is cut is what comes from there on.
LEMMA CutShape ==
  ASSUME NEW s \in Texts
  PROVE  \E n \in 0..Len(s) : CutAt(s, n) /\ CutContext(s) = SubSeq(s, 1, n)
<1>. DEFINE found == {i \in 1..Len(s) : OccursAt(Context, s, i)}
<1>1. Len(s) \in Nat /\ found \subseteq Nat /\ found \subseteq 1..Len(s)
  BY DEF Texts
<1>2. CASE found = {}
  <2>1. CutAt(s, Len(s)) /\ Len(s) \in 0..Len(s)
    BY <1>1, <1>2 DEF CutAt
  <2>2. CutContext(s) = s /\ SubSeq(s, 1, Len(s)) = s
    BY <1>2 DEF CutContext, Texts
  <2>. QED  BY <2>1, <2>2
<1>3. CASE found # {}
  <2>. DEFINE n == Min(found) - 1
  <2>1. CutContext(s) = SubSeq(s, 1, n)
    BY <1>3 DEF CutContext
  <2>2. Min(found) \in found /\ \A i \in found : Min(found) <= i
    <3>. HIDE DEF found
    <3>. QED  BY <1>1, <1>3, MinThere
  <2>3. PICK x \in 1..Len(s) : x = Min(found) /\ OccursAt(Context, s, x)
    BY <2>2
  <2>4. \A i \in 1..Len(s) : OccursAt(Context, s, i) => x <= i
    BY <2>2, <2>3
  <2>5. n = x - 1
    BY <2>3
  <2>. HIDE DEF n, found
  <2>6. n \in 0..Len(s) /\ n + 1 = x /\ \A i \in 1..n : i \in 1..Len(s) /\ ~ (x <= i)
    BY <1>1, <2>3, <2>5
  <2>7. CutAt(s, n)
    BY <2>3, <2>4, <2>6 DEF CutAt
  <2>. QED  BY <2>1, <2>6, <2>7
<1>. QED  BY <1>2, <1>3

\* There is one such place.
LEMMA CutIs ==
  ASSUME NEW s \in Texts, NEW n \in 0..Len(s), CutAt(s, n)
  PROVE  CutContext(s) = SubSeq(s, 1, n)
<1>1. PICK m \in 0..Len(s) : CutAt(s, m) /\ CutContext(s) = SubSeq(s, 1, m)
  BY CutShape
<1>2. CASE m < n
  <2>1. m + 1 \in 1..n /\ m < Len(s)
    BY <1>2
  <2>. QED  BY <1>1, <2>1 DEF CutAt
<1>3. CASE n < m
  <2>1. n + 1 \in 1..m /\ n < Len(s)
    BY <1>3
  <2>. QED  BY <1>1, <2>1 DEF CutAt
<1>4. m = n \/ m < n \/ n < m
  OBVIOUS
<1>. QED  BY <1>1, <1>2, <1>3, <1>4

\* What is left has no "context:".
LEMMA CutNoContext ==
  ASSUME NEW s \in Texts
  PROVE  /\ CutContext(s) \in Texts /\ NoContext(CutContext(s))
         /\ \A toks : Without(toks, s) => Without(toks, CutContext(s))
<1>1. PICK n \in 0..Len(s) : CutAt(s, n) /\ CutContext(s) = SubSeq(s, 1, n)
  BY CutShape
<1>. DEFINE b == SubSeq(s, 1, n)
<1>2. b \in Texts /\ Len(b) = n /\ Len(s) \in Nat /\ \A i \in 1..n : b[i] = s[i] /\ i \in 1..Len(s)
  BY DEF Texts
<1>. HIDE DEF b
<1>3. NoContext(b)
  <2>. SUFFICES ASSUME NEW i \in 1..Len(b), OccursAt(Context, b, i) PROVE FALSE
    BY DEF NoContext
  <2>1. i < Len(b) /\ b[i] = "context" /\ b[i + 1] = Colon
    BY <1>2, ContextAt
  <2>2. i \in 1..n /\ i + 1 \in 1..n /\ i \in 1..Len(s) /\ i < Len(s)
    BY <1>2, <2>1
  <2>3. OccursAt(Context, s, i)
    BY <1>2, <2>1, <2>2, ContextAt
  <2>. QED  BY <1>1, <2>2, <2>3 DEF CutAt
<1>4. \A toks : Without(toks, s) => Without(toks, b)
  BY <1>2 DEF Without
<1>. QED  BY <1>1, <1>2, <1>3, <1>4 DEF b

\* The text that the sentences are taken from.
LEMMA BodyClean ==
  ASSUME NEW s \in Texts
  PROVE  /\ CutContext(StripTags(s)) \in Texts
         /\ Without({Cjk}, CutContext(StripTags(s)))
         /\ NoContext(CutContext(StripTags(s)))
<1>1. StripMarkers(s) \in Texts
  BY AtType DEF StripMarkers, Texts
<1>2. StripTags(s) \in Texts
  BY <1>1, AtType DEF StripTags, StripCjk, Texts
<1>3. Without({Cjk}, StripTags(s))
  BY <1>1, DroppedGone DEF StripTags, StripCjk
<1>. QED  BY <1>2, <1>3, CutNoContext

\* A text that is not made of stops has a sentence.
LEMMA SentenceThere ==
  ASSUME NEW s \in Texts, SentenceStarts(s) = {}
  PROVE  \A i \in 1..Len(s) : s[i] = Stop
<1>. SUFFICES ASSUME NEW i \in 1..Len(s), s[i] # Stop PROVE FALSE
  OBVIOUS
<1>. DEFINE W == {j \in 1..Len(s) : s[j] # Stop}
<1>1. W \subseteq Nat /\ i \in W
  OBVIOUS
<1>2. PICK j \in W : \A k \in W : j <= k
  <2>. HIDE DEF W
  <2>. QED  BY <1>1, LeastNat
<1>3. ~ (j = 1 \/ s[j - 1] = Stop)
  BY DEF SentenceStarts
<1>4. j - 1 \in W
  BY <1>3
<1>. QED  BY <1>2, <1>4

\* The sentence that is chosen, or a text of stops.
LEMMA ChosenForm ==
  ASSUME NEW s \in Texts
  PROVE  \/ \E i \in SentenceStarts(s) : Chosen(s) = Strip(SentenceAt(s, i))
         \/ Chosen(s) = s /\ \A i \in 1..Len(s) : s[i] = Stop
<1>. DEFINE starts == SentenceStarts(s)
            usable == {i \in starts : Usable(SentenceAt(s, i))}
<1>1. starts \subseteq Nat /\ usable \subseteq starts
  BY DEF SentenceStarts
<1>2. ASSUME NEW S, S \subseteq Nat, S # {} PROVE Min(S) \in S
  BY <1>2, MinThere
<1>. HIDE DEF usable
<1>3. CASE usable # {}
  <2>1. Min(usable) \in usable
    BY <1>1, <1>2, <1>3
  <2>2. Chosen(s) = Strip(SentenceAt(s, Min(usable)))
    BY <1>3 DEF Chosen, usable
  <2>. QED  BY <1>1, <2>1, <2>2
<1>4. CASE usable = {} /\ starts # {}
  <2>1. Min(starts) \in starts
    BY <1>1, <1>2, <1>4
  <2>2. Chosen(s) = Strip(SentenceAt(s, Min(starts)))
    BY <1>4 DEF Chosen, usable
  <2>. QED  BY <2>1, <2>2
<1>5. CASE usable = {} /\ starts = {}
  <2>1. Chosen(s) = s
    BY <1>5 DEF Chosen, usable
  <2>. QED  BY <1>5, <2>1, SentenceThere
<1>. QED  BY <1>3, <1>4, <1>5

\* The positions where a word starts.
WordStarts(s) == {i \in 1..Len(s) : s[i] \notin Spaces /\ (i = 1 \/ s[i-1] \in Spaces)}

\* A text has no more words than tokens, and at least as many as any set of their starts.
LEMMA WordCountBound ==
  ASSUME NEW s \in Texts
  PROVE  /\ WordCount(s) \in Nat /\ WordCount(s) <= Len(s)
         /\ \A S : S \subseteq WordStarts(s) => IsFiniteSet(S) /\ Cardinality(S) <= WordCount(s)
<1>1. WordStarts(s) \subseteq 1..Len(s) /\ WordCount(s) = Cardinality(WordStarts(s))
  BY DEF WordStarts, WordCount
<1>2. IsFiniteSet(1..Len(s)) /\ Cardinality(1..Len(s)) = Len(s) /\ Len(s) \in Nat
  <2>1. Len(s) \in Nat /\ 1 \in Int /\ Len(s) \in Int
    BY DEF Texts
  <2>2. IsFiniteSet(1..Len(s)) /\ Cardinality(1..Len(s)) = IF 1 > Len(s) THEN 0 ELSE Len(s) - 1 + 1
    BY <2>1, FS_Interval
  <2>. QED  BY <2>1, <2>2
<1>3. IsFiniteSet(WordStarts(s)) /\ Cardinality(WordStarts(s)) <= Cardinality(1..Len(s))
      /\ Cardinality(WordStarts(s)) \in Nat
  BY <1>1, <1>2, FS_Subset, FS_CardinalityType
<1>. QED  BY <1>1, <1>2, <1>3, FS_Subset

\* Stops alone are one word at most.
LEMMA StopsCount ==
  ASSUME NEW s \in Texts, \A i \in 1..Len(s) : s[i] = Stop
  PROVE  WordCount(s) < 3
<1>1. WordStarts(s) \subseteq {1}
  <2>1. ASSUME NEW i \in 1..Len(s), i # 1, s[i - 1] \in Spaces PROVE FALSE
    <3>1. i - 1 \in 1..Len(s)
      BY <2>1
    <3>. QED  BY <2>1, <3>1 DEF Stop, Blank, NewLine, Spaces
  <2>. QED  BY <2>1 DEF WordStarts
<1>2. IsFiniteSet({1}) /\ Cardinality({1}) = 1
  BY FS_Singleton
<1>3. Cardinality(WordStarts(s)) <= 1
  BY <1>1, <1>2, FS_Subset
<1>4. WordCount(s) = Cardinality(WordStarts(s)) /\ WordCount(s) \in Nat
  BY WordCountBound DEF WordStarts, WordCount
<1>. QED  BY <1>3, <1>4

\* The fallback, token by token.
LEMMA FallbackTokens ==
  /\ Fallback \in Texts /\ Len(Fallback) = 22
  /\ Fallback[1] = "i" /\ Fallback[2] = Blank /\ Fallback[3] = "need" /\ Fallback[4] = Blank
  /\ Fallback[5] = "a" /\ Fallback[6] = Blank /\ Fallback[7] = "bit" /\ Fallback[8] = Blank
  /\ Fallback[9] = "more" /\ Fallback[10] = Blank /\ Fallback[11] = "specific" /\ Fallback[12] = Blank
  /\ Fallback[13] = "context" /\ Fallback[14] = Blank /\ Fallback[15] = "to" /\ Fallback[16] = Blank
  /\ Fallback[17] = "answer" /\ Fallback[18] = Blank /\ Fallback[19] = "that" /\ Fallback[20] = Blank
  /\ Fallback[21] = "accurately" /\ Fallback[22] = Stop
<1>. DEFINE W == {"i", "need", "a", "bit", "more", "specific", "context", "to", "answer", "that",
                  "accurately", Blank, Stop}
<1>1. Len(Fallback) = 22
  BY DEF Fallback
<1>2. /\ Fallback[1] = "i" /\ Fallback[2] = Blank /\ Fallback[3] = "need" /\ Fallback[4] = Blank
  BY DEF Fallback
<1>3. /\ Fallback[5] = "a" /\ Fallback[6] = Blank /\ Fallback[7] = "bit" /\ Fallback[8] = Blank
  BY DEF Fallback
<1>4. /\ Fallback[9] = "more" /\ Fallback[10] = Blank /\ Fallback[11] = "specific" /\ Fallback[12] = Blank
  BY DEF Fallback
<1>5. /\ Fallback[13] = "context" /\ Fallback[14] = Blank /\ Fallback[15] = "to" /\ Fallback[16] = Blank
  BY DEF Fallback
<1>6. /\ Fallback[17] = "answer" /\ Fallback[18] = Blank /\ Fallback[19] = "that" /\ Fallback[20] = Blank
  BY DEF Fallback
<1>7. /\ Fallback[21] = "accurately" /\ Fallback[22] = Stop
  BY DEF Fallback
<1>8. /\ "i" \in W /\ "need" \in W /\ "a" \in W /\ "bit" \in W /\ "more" \in W /\ "specific" \in W
      /\ "context" \in W /\ "to" \in W /\ "answer" \in W /\ "that" \in W /\ "accurately" \in W
      /\ Blank \in W /\ Stop \in W
  OBVIOUS
<1>9. W \subseteq Symbols
  BY DEF Symbols
<1>. HIDE DEF W
<1>10. Fallback \in Seq(W)
  BY <1>8 DEF Fallback
<1>11. Fallback \in Texts
  BY <1>9, <1>10 DEF Texts
<1>. QED  BY <1>1, <1>2, <1>3, <1>4, <1>5, <1>6, <1>7, <1>11

\* The fallback answer is a sentence that needs no cleaning.
LEMMA FallbackStable ==
  Stable(Fallback) /\ ~ (WordCount(Fallback) < 3)
<1>. DEFINE Odd == {1, 3, 5, 7, 9, 11, 13, 15, 17, 19, 21}
            Even == {2, 4, 6, 8, 10, 12, 14, 16, 18, 20}
<1>1. \A i \in 1..22 : i \in Odd \/ i \in Even \/ i = 22
  OBVIOUS
<1>2. \A i \in Even : Fallback[i] = Blank
  BY FallbackTokens
<1>3. ASSUME NEW i \in Odd
      PROVE  Fallback[i] \in {"i", "need", "a", "bit", "more", "specific", "context", "to",
                              "answer", "that", "accurately"}
  BY FallbackTokens, Zenon
<1>4. ASSUME NEW x \in {"i", "need", "a", "bit", "more", "specific", "context", "to",
                        "answer", "that", "accurately"}
      PROVE  x \notin Spaces /\ x # Stop /\ x # Cjk /\ x # Colon
  BY DEF Blank, NewLine, Spaces, Stop, Cjk, Colon
<1>5. Blank # Stop /\ Blank # Cjk /\ Blank # Colon /\ Blank \in Spaces
  BY DEF Blank, Stop, Cjk, Colon, Spaces
<1>6. Stop \notin Spaces /\ Stop # Cjk /\ Stop # Colon
  BY DEF Stop, Blank, NewLine, Spaces, Cjk, Colon
<1>7. \A i \in Odd : /\ Fallback[i] \notin Spaces /\ Fallback[i] # Stop
                     /\ Fallback[i] # Cjk /\ Fallback[i] # Colon
  BY <1>3, <1>4
<1>8. Len(Fallback) = 22 /\ Fallback[22] = Stop /\ Fallback[1] = "i"
  BY FallbackTokens
<1>9. \A i \in Even : i - 1 \in Odd
  OBVIOUS
<1>10. 1 \in Odd
  OBVIOUS
<1>11. \A i \in Odd : i \in 1..22 /\ (i = 1 \/ i - 1 \in Even)
  OBVIOUS
<1>. HIDE DEF Odd, Even
<1>12. Without({Cjk}, Fallback)
  BY <1>1, <1>2, <1>5, <1>6, <1>7, <1>8 DEF Without
<1>13. SingleSpaces(Fallback)
  BY <1>1, <1>2, <1>6, <1>7, <1>8, <1>9 DEF SingleSpaces
<1>14. OneStop(Fallback)
  BY <1>1, <1>2, <1>5, <1>7, <1>8 DEF OneStop
<1>15. Fallback[1] \notin Spaces
  BY <1>7, <1>10
<1>16. NoContext(Fallback)
  <2>1. ASSUME NEW i \in 1..Len(Fallback), Fallback[i] = Colon PROVE FALSE
    BY <1>1, <1>2, <1>5, <1>6, <1>7, <1>8, <2>1
  <2>2. ASSUME NEW i \in 1..Len(Fallback), OccursAt(Context, Fallback, i) PROVE FALSE
    <3>1. Fallback[i + 1] = Colon /\ i < Len(Fallback)
      BY <2>2, FallbackTokens, ContextAt
    <3>2. i + 1 \in 1..Len(Fallback)
      BY <1>8, <3>1
    <3>. QED  BY <2>1, <3>1, <3>2
  <2>. QED  BY <2>2 DEF NoContext
<1>17. Stable(Fallback)
  BY <1>8, <1>12, <1>13, <1>14, <1>15, <1>16, FallbackTokens DEF Stable
<1>19. Odd \subseteq WordStarts(Fallback)
  BY <1>2, <1>5, <1>7, <1>8, <1>11 DEF WordStarts
<1>20. Cardinality({1, 3, 5}) = 3 /\ {1, 3, 5} \subseteq Odd
  <2>1. IsFiniteSet({1}) /\ Cardinality({1}) = 1
    BY FS_Singleton
  <2>2. IsFiniteSet({1, 3}) /\ Cardinality({1, 3}) = 2
    <3>1. {1} \cup {3} = {1, 3} /\ 3 \notin {1}
      OBVIOUS
    <3>. QED  BY <2>1, <3>1, FS_AddElement
  <2>3. IsFiniteSet({1, 3, 5}) /\ Cardinality({1, 3, 5}) = 3
    <3>1. {1, 3} \cup {5} = {1, 3, 5} /\ 5 \notin {1, 3}
      OBVIOUS
    <3>. QED  BY <2>2, <3>1, FS_AddElement
  <2>. QED  BY <2>3 DEF Odd
<1>21. Cardinality({1, 3, 5}) <= WordCount(Fallback) /\ WordCount(Fallback) \in Nat
  <2>1. {1, 3, 5} \subseteq WordStarts(Fallback)
    BY <1>19, <1>20
  <2>. QED  BY <2>1, FallbackTokens, WordCountBound
<1>. QED  BY <1>17, <1>20, <1>21

\* What squeezing, stripping and the full stop make of a sentence.
Finish(c) == EndSentence(Strip(SqueezeSpaces(c)))

\* A chosen sentence, once finished, needs no more cleaning.
LEMMA FinishForm ==
  ASSUME NEW c \in Texts, Without({Cjk}, c), NoContext(c), OneStop(c), Len(Finish(c)) > 1
  PROVE  Stable(Finish(c))
<1>. DEFINE b == SqueezeSpaces(c)
            d == Strip(b)
            e == EndSentence(d)
<1>1. b \in Texts /\ Without({Cjk}, b) /\ NoContext(b) /\ OneStop(b) /\ SingleSpaces(b)
  BY SqueezeKeeps, SqueezeNoContext
<1>2. d \in Texts /\ Without({Cjk}, d) /\ NoContext(d) /\ OneStop(d) /\ SingleSpaces(d)
      /\ (Len(d) >= 1 => d[1] \notin Spaces /\ d[Len(d)] \notin Spaces)
  <2>. HIDE DEF b
  <2>1. d \in Texts /\ Without({Cjk}, d) /\ OneStop(d)
    BY <1>1, NormalizeType, WithoutKept, OneStopKept DEF Strip
  <2>2. SingleSpaces(d) /\ NoContext(d)
    BY <1>1, StripSingle, StripNoContext
  <2>. QED  BY <1>1, <2>1, <2>2, StripEnds
<1>3. e = Finish(c)
  BY DEF Finish
<1>. HIDE DEF b, d
<1>4. Len(d) \in Nat /\ Len(d) >= 1
  <2>1. Len(d) \in Nat
    BY <1>2 DEF Texts
  <2>2. CASE Len(d) = 0
    <3>1. d = <<>>
      BY <1>2, <2>2 DEF Texts
    <3>. QED  BY <1>3, <3>1 DEF EndSentence
  <2>. QED  BY <2>1, <2>2
<1>5. d[1] \notin Spaces /\ d[Len(d)] \notin Spaces /\ Last(d) = d[Len(d)] /\ d # <<>>
  BY <1>2, <1>4 DEF Last
<1>6. CASE d[Len(d)] = Stop
  <2>1. e = d
    BY <1>5, <1>6 DEF EndSentence
  <2>. HIDE DEF e
  <2>. QED  BY <1>2, <1>3, <1>5, <1>6, <2>1 DEF Stable
<1>7. CASE d[Len(d)] # Stop
  <2>1. e = Append(d, Stop)
    BY <1>5, <1>7 DEF EndSentence
  <2>. HIDE DEF e
  <2>2. Stop \in Symbols
    BY DEF Symbols
  <2>3. /\ e \in Texts /\ Len(e) = Len(d) + 1 /\ e[Len(d) + 1] = Stop
        /\ \A i \in 1..Len(d) : e[i] = d[i]
    BY <1>2, <2>1, <2>2 DEF Texts
  <2>4. Stop # Cjk /\ Stop # Colon /\ Stop \notin Spaces
    BY DEF Stop, Cjk, Colon, Blank, NewLine, Spaces
  <2>5. \A i \in 1..Len(e) : i \in 1..Len(d) \/ i = Len(d) + 1
    BY <1>4, <2>3
  <2>6. Without({Cjk}, e)
    BY <1>2, <2>3, <2>4, <2>5 DEF Without
  <2>7. OneStop(e)
    <3>1. ASSUME NEW i \in 1..Len(d), d[i] = Stop PROVE FALSE
      BY <1>2, <1>7, <3>1 DEF OneStop
    <3>. QED  BY <2>3, <2>5, <3>1 DEF OneStop
  <2>8. SingleSpaces(e)
    <3>1. ASSUME NEW i \in 1..Len(e), i > 1, e[i] \in Spaces, e[i - 1] \in Spaces PROVE FALSE
      <4>1. i \in 1..Len(d)
        BY <2>3, <2>4, <2>5, <3>1
      <4>2. i - 1 \in 1..Len(d)
        BY <3>1, <4>1
      <4>. QED  BY <1>2, <2>3, <3>1, <4>1, <4>2 DEF SingleSpaces
    <3>. QED  BY <3>1 DEF SingleSpaces
  <2>9. e[1] \notin Spaces /\ e[Len(e)] = Stop /\ Len(e) > 1
    <3>1. 1 \in 1..Len(d) /\ Len(d) + 1 > 1
      BY <1>4
    <3>. QED  BY <1>5, <2>3, <3>1
  <2>10. NoContext(e)
    <3>. SUFFICES ASSUME NEW i \in 1..Len(e), OccursAt(Context, e, i) PROVE FALSE
      BY DEF NoContext
    <3>1. i < Len(e) /\ e[i] = "context" /\ e[i + 1] = Colon
      BY <2>3, ContextAt
    <3>2. i \in 1..Len(d) /\ i + 1 \in 1..Len(e)
      BY <1>4, <2>3, <3>1
    <3>3. i + 1 \in 1..Len(d)
      BY <2>3, <2>4, <2>5, <3>1, <3>2
    <3>4. i < Len(d) /\ d[i] = "context" /\ d[i + 1] = Colon
      BY <2>3, <3>1, <3>2, <3>3
    <3>5. OccursAt(Context, d, i)
      BY <1>2, <3>2, <3>4, ContextAt
    <3>. QED  BY <1>2, <3>2, <3>5 DEF NoContext
  <2>. QED  BY <1>3, <2>3, <2>6, <2>7, <2>8, <2>9, <2>10 DEF Stable
<1>. QED  BY <1>6, <1>7

\* White space that is single is left as it is.
LEMMA SqueezeSame ==
  ASSUME NEW s \in Texts, SingleSpaces(s)
  PROVE  SqueezeSpaces(s) = s
<1>1. /\ SqueezeSpaces(s) = At(Squeezed(s), RunHeads(s))
      /\ Squeezed(s) \in Texts /\ Len(Squeezed(s)) = Len(s)
  BY SqueezedSpaces DEF SameSpaces
<1>2. ASSUME NEW i \in 1..Len(s) PROVE Squeezed(s)[i] = s[i]
  <2>1. i < Len(s) => i + 1 \in 1..Len(s) /\ i + 1 > 1 /\ i + 1 - 1 = i
    BY DEF Texts
  <2>2. ~ (i < Len(s) /\ {s[i], s[i+1]} \subseteq Spaces)
    BY <2>1 DEF SingleSpaces
  <2>. QED  BY <2>2 DEF Squeezed
<1>3. Squeezed(s) = s
  BY <1>1, <1>2, SeqEqual DEF Texts
<1>. QED  BY <1>1, <1>3, AllHeads

\* The answer is a sentence that the function would not change.
LEMMA AnswerStable ==
  ASSUME NEW a \in Texts
  PROVE  Stable(CleanFactualOutput(a)) /\ ~ (WordCount(CleanFactualOutput(a)) < 3)
<1>. DEFINE body == CutContext(StripTags(a))
            c == Chosen(body)
            e == Finish(c)
<1>1. body \in Texts /\ Without({Cjk}, body) /\ NoContext(body)
  BY BodyClean
<1>2. CleanFactualOutput(a) = IF WordCount(e) < 3 THEN Fallback ELSE e
  BY DEF CleanFactualOutput, FallbackIfShort, Finish
<1>. HIDE DEF body, c, e
<1>3. CASE WordCount(e) < 3
  BY <1>2, <1>3, FallbackStable
<1>4. CASE ~ (WordCount(e) < 3)
  <2>1. ASSUME NEW i \in SentenceStarts(body), c = Strip(SentenceAt(body, i))
        PROVE  Stable(e)
    <3>. DEFINE u == SentenceAt(body, i)
    <3>1. i \in 1..Len(body)
      BY DEF SentenceStarts
    <3>2. u \in Texts /\ Without({Cjk}, u) /\ NoContext(u) /\ OneStop(u)
      <4>1. OneStop(u) /\ NoContext(u)
        BY <1>1, <3>1, SentenceOneStop, SentenceNoContext
      <4>2. u \in Texts /\ Without({Cjk}, u)
        BY <1>1, AtType, WithoutKept DEF SentenceAt, Texts
      <4>. QED  BY <4>1, <4>2
    <3>. HIDE DEF u
    <3>3. c \in Texts /\ Without({Cjk}, c) /\ NoContext(c) /\ OneStop(c)
      <4>1. Strip(u) \in Texts /\ Without({Cjk}, Strip(u)) /\ OneStop(Strip(u))
        BY <3>2, NormalizeType, WithoutKept, OneStopKept DEF Strip
      <4>2. NoContext(Strip(u))
        BY <3>2, StripNoContext
      <4>. QED  BY <2>1, <4>1, <4>2 DEF u
    <3>4. e \in Texts
      <4>1. Strip(SqueezeSpaces(c)) \in Texts
        BY <3>3, SqueezeKeeps, NormalizeType
      <4>2. \A s \in Texts : EndSentence(s) \in Texts
        <5>1. Stop \in Symbols
          BY DEF Symbols
        <5>. QED  BY <5>1 DEF EndSentence, Texts
      <4>. QED  BY <4>1, <4>2 DEF e, Finish
    <3>5. Len(e) > 1
      <4>1. WordCount(e) \in Nat /\ WordCount(e) <= Len(e) /\ Len(e) \in Nat
        BY <3>4, WordCountBound DEF Texts
      <4>. QED  BY <1>4, <4>1
    <3>. QED  BY <3>3, <3>5, FinishForm DEF e
  <2>2. ASSUME c = body, \A i \in 1..Len(body) : body[i] = Stop
        PROVE  FALSE
    <3>0. Stop \notin Spaces
      BY DEF Stop, Blank, NewLine, Spaces
    <3>1. SingleSpaces(body)
      BY <2>2, <3>0 DEF SingleSpaces
    <3>2. SqueezeSpaces(body) = body
      BY <1>1, <3>1, SqueezeSame
    <3>3. Strip(body) = body
      <4>1. body # <<>> => 1 \in 1..Len(body) /\ Len(body) \in 1..Len(body)
        BY <1>1 DEF Texts
      <4>2. body # <<>> => body[1] \notin Spaces /\ body[Len(body)] \notin Spaces
        BY <2>2, <3>0, <4>1
      <4>. QED  BY <1>1, <4>2, StripSame
    <3>4. EndSentence(body) = body
      <4>1. body # <<>> => Last(body) = Stop
        <5>1. body # <<>> => Len(body) \in 1..Len(body)
          BY <1>1 DEF Texts
        <5>. QED  BY <2>2, <5>1 DEF Last
      <4>. QED  BY <4>1 DEF EndSentence
    <3>5. e = body
      BY <2>2, <3>2, <3>3, <3>4 DEF e, Finish
    <3>. QED  BY <1>1, <1>4, <2>2, <3>5, StopsCount
  <2>3. Stable(e)
    BY <1>1, <2>1, <2>2, ChosenForm DEF c
  <2>. QED  BY <1>2, <1>4, <2>3
<1>. QED  BY <1>3, <1>4

\* Such a sentence is left as it is, when it shows no marker.
LEMMA StableUnchanged ==
  ASSUME NEW s, Stable(s), ~ (WordCount(s) < 3), StripMarkers(s) = s
  PROVE  CleanFactualOutput(s) = s
<1>1. /\ s \in Texts /\ Len(s) \in Nat /\ Len(s) > 1 /\ s # <<>>
      /\ s[1] \notin Spaces /\ s[Len(s)] = Stop /\ Stop \notin Spaces
  <2>1. Stop \notin Spaces
    BY DEF Stop, Blank, NewLine, Spaces
  <2>. QED  BY <2>1 DEF Stable, Texts
<1>2. StripTags(s) = s
  <2>1. StripCjk(s) = s
    <3>1. \A i \in 1..Len(s) : s[i] # Cjk
      BY DEF Stable, Without
    <3>. QED  BY <1>1, <3>1, AtAll DEF StripCjk, Texts
  <2>. QED  BY <2>1 DEF StripTags
<1>3. CutContext(s) = s
  <2>1. CutAt(s, Len(s)) /\ Len(s) \in 0..Len(s)
    BY <1>1 DEF CutAt, Stable, NoContext
  <2>2. CutContext(s) = SubSeq(s, 1, Len(s))
    BY <1>1, <2>1, CutIs
  <2>. QED  BY <1>1, <2>2 DEF Texts
<1>4. SentenceStarts(s) = {1}
  <2>1. 1 \in 1..Len(s) /\ s[1] # Stop
    BY <1>1 DEF Stable, OneStop
  <2>2. ASSUME NEW i \in 1..Len(s), i # 1, s[i - 1] = Stop PROVE FALSE
    <3>1. i - 1 \in 1..Len(s)
      BY <2>2
    <3>2. i - 1 = Len(s)
      BY <2>2, <3>1 DEF Stable, OneStop
    <3>. QED  BY <1>1, <3>1, <3>2
  <2>. QED  BY <2>1, <2>2 DEF SentenceStarts
<1>5. SentenceAt(s, 1) = s
  <2>1. ASSUME NEW j \in 1..Len(s), NEW k \in 1..j - 1 PROVE s[k] # Stop
    BY <1>1 DEF Stable, OneStop
  <2>. QED  BY <1>1, <2>1, AtAll DEF SentenceAt, Texts
<1>6. Strip(s) = s
  BY <1>1, StripSame
<1>7. Min({1}) = 1
  BY DEF Min
<1>8. Chosen(s) = s
  <2>. DEFINE usable == {i \in SentenceStarts(s) : Usable(SentenceAt(s, i))}
  <2>1. usable = {} \/ usable = {1}
    BY <1>4
  <2>2. CASE usable = {1}
    BY <1>5, <1>6, <1>7, <2>2 DEF Chosen
  <2>3. CASE usable = {}
    BY <1>4, <1>5, <1>6, <1>7, <2>3 DEF Chosen
  <2>. QED  BY <2>1, <2>2, <2>3
<1>9. SqueezeSpaces(s) = s
  BY <1>1, SqueezeSame DEF Stable
<1>10. EndSentence(s) = s
  BY <1>1 DEF EndSentence, Last
<1>. QED  BY <1>2, <1>3, <1>6, <1>8, <1>9, <1>10 DEF CleanFactualOutput, FallbackIfShort

-----------------------------------------------------------------------------
(***************************************************************************)
(* Markers.                                                                *)
(***************************************************************************)

\* f says up to where the text is matched, for each position.
IsPast(f, s) ==
  /\ f[0] = 0
  /\ \A n \in 1..Len(s) : f[n] = LastMatched(s, n, f[n - 1])

\* The recursive function of StripMarkers exists, and computes what its equation says.
LEMMA PastDef ==
  ASSUME NEW s, Len(s) \in Nat
  PROVE  \E f : IsPast(f, s) /\ StripMarkers(s) = At(s, {n \in 1..Len(s) : n > f[n]})
<1>. DEFINE e(g, n) == IF n = 0 THEN 0 ELSE LastMatched(s, n, g[n - 1])
            E == {m \in Nat : \E g : g = [n \in 0..m |-> e(g, n)]}
<1>1. 0 \in E
  <2>. DEFINE g == [n \in 0..0 |-> 0]
  <2>1. g = [n \in 0..0 |-> e(g, n)]
    BY SMT
  <2>. QED  BY <2>1
<1>2. ASSUME NEW m \in Nat, m \in E PROVE m + 1 \in E
  <2>1. PICK g : g = [n \in 0..m |-> e(g, n)]
    BY <1>2
  <2>. DEFINE h == [n \in 0..m + 1 |-> IF n <= m THEN g[n] ELSE e(g, n)]
  <2>2. ASSUME NEW n \in 0..m + 1 PROVE h[n] = e(h, n)
    <3>1. CASE n <= m
      <4>1. n \in 0..m /\ h[n] = g[n] /\ (n # 0 => h[n - 1] = g[n - 1])
        BY <3>1, SMT
      <4>2. g[n] = e(g, n)
        BY <2>1, <4>1
      <4>. QED  BY <4>1, <4>2
    <3>2. CASE n = m + 1
      <4>1. n # 0 /\ ~ (n <= m) /\ n - 1 = m /\ n - 1 \in 0..m + 1 /\ n - 1 <= m
        BY <3>2
      <4>2. h[n - 1] = g[n - 1]
        BY <4>1
      <4>. QED  BY <4>1, <4>2
    <3>. QED  BY <3>1, <3>2
  <2>3. h = [n \in 0..m + 1 |-> e(h, n)]
    <3>. HIDE DEF e
    <3>. QED  BY <2>2
  <2>4. m + 1 \in Nat
    OBVIOUS
  <2>. QED
    <3>. HIDE DEF h, e
    <3>. QED  BY <2>3, <2>4
<1>3. Len(s) \in E
  <2>. HIDE DEF E
  <2>. QED  BY <1>1, <1>2, NatInduct
<1>. DEFINE f == CHOOSE g : g = [n \in 0..Len(s) |-> e(g, n)]
<1>4. StripMarkers(s) = At(s, {n \in 1..Len(s) : n > f[n]})
  BY Zenon DEF StripMarkers
<1>5. f = [n \in 0..Len(s) |-> e(f, n)]
  <2>1. \E g : g = [n \in 0..Len(s) |-> e(g, n)]
    BY <1>3
  <2>. HIDE DEF e
  <2>. QED  BY <2>1, Zenon
<1>6. IsPast(f, s)
  <2>. HIDE DEF f
  <2>1. f[0] = 0
    BY <1>5
  <2>2. ASSUME NEW n \in 1..Len(s) PROVE f[n] = LastMatched(s, n, f[n - 1])
    <3>1. f[n] = e(f, n)
      <4>1. n \in 0..Len(s)
        OBVIOUS
      <4>. HIDE DEF e
      <4>. QED  BY <1>5, <4>1
    <3>2. n # 0
      OBVIOUS
    <3>. QED  BY <3>1, <3>2, Zenon
  <2>. QED  BY <2>1, <2>2 DEF IsPast
<1>. QED  BY <1>4, <1>6

\* What is matched is in the text.
LEMMA PastWithin ==
  ASSUME NEW s \in Texts, NEW f, IsPast(f, s)
  PROVE  \A n \in 0..Len(s) : f[n] \in 0..Len(s)
<1>. DEFINE T == {n \in Nat : n <= Len(s) => f[n] \in 0..Len(s)}
<1>0. Len(s) \in Nat
  BY DEF Texts
<1>1. 0 \in T
  BY <1>0 DEF IsPast
<1>2. ASSUME NEW n \in Nat, n \in T PROVE n + 1 \in T
  <2>. SUFFICES ASSUME n + 1 <= Len(s) PROVE f[n + 1] \in 0..Len(s)
    OBVIOUS
  <2>1. f[n] \in 0..Len(s) /\ n + 1 \in 1..Len(s) /\ n + 1 - 1 = n
    BY <1>0, <1>2
  <2>2. f[n + 1] = LastMatched(s, n + 1, f[n])
    BY <2>1 DEF IsPast
  <2>3. ASSUME MarkerEnds(s, n + 1) # {} PROVE Min(MarkerEnds(s, n + 1)) \in 1..Len(s)
    <3>1. MarkerEnds(s, n + 1) \subseteq Nat /\ MarkerEnds(s, n + 1) \subseteq 1..Len(s)
      BY <1>0 DEF MarkerEnds
    <3>. QED  BY <2>3, <3>1, MinThere
  <2>. QED  BY <2>1, <2>2, <2>3 DEF LastMatched
<1>3. \A n \in Nat : n \in T
  <2>. HIDE DEF T
  <2>. QED  BY <1>1, <1>2, NatInduct
<1>. QED  BY <1>0, <1>3

\* z starts with p.
Extends(z, p) == Len(p) <= Len(z) /\ \A i \in 1..Len(p) : z[i] = p[i]

\* Where a marker of p ends, it ends in a longer text.
LEMMA EndsExtended ==
  ASSUME NEW p \in Texts, NEW z \in Texts, Extends(z, p), NEW n \in 1..Len(p),
         MarkerEnds(p, n) # {}
  PROVE  MarkerEnds(z, n) # {} /\ Min(MarkerEnds(z, n)) = Min(MarkerEnds(p, n))
<1>. DEFINE x == Min(MarkerEnds(p, n))
<1>0. Len(p) \in Nat /\ Len(z) \in Nat /\ Len(p) <= Len(z) /\ \A i \in 1..Len(p) : z[i] = p[i]
  BY DEF Texts, Extends
<1>1. x \in MarkerEnds(p, n) /\ \A y \in MarkerEnds(p, n) : x <= y
  <2>1. MarkerEnds(p, n) \subseteq Nat
    BY <1>0 DEF MarkerEnds
  <2>. QED  BY <2>1, MinThere
<1>. HIDE DEF x
<1>2. ASSUME NEW j \in 1..Len(p) PROVE j \in MarkerEnds(z, n) <=> j \in MarkerEnds(p, n)
  <2>1. j \in n + 3..Len(p) <=> j \in n + 3..Len(z)
    BY <1>0
  <2>2. j \in n + 3..Len(p) => j - 1 \in 1..Len(p)
    BY <1>0
  <2>3. \A k \in n + 2..j - 2 : k \in 1..Len(p) /\ z[k] = p[k]
    BY <1>0
  <2>4. z[j] = p[j] /\ (j \in n + 3..Len(p) => z[j - 1] = p[j - 1])
    BY <1>0, <2>2
  <2>5. (\A k \in n + 2..j - 2 : z[k] # NewLine) <=> (\A k \in n + 2..j - 2 : p[k] # NewLine)
    BY <2>3
  <2>. QED  BY <2>1, <2>4, <2>5 DEF MarkerEnds
<1>3. x \in 1..Len(p)
  BY <1>0, <1>1 DEF MarkerEnds
<1>4. x \in MarkerEnds(z, n)
  BY <1>1, <1>2, <1>3
<1>5. ASSUME NEW y \in MarkerEnds(z, n) PROVE x <= y
  <2>1. y \in 1..Len(z)
    BY <1>0 DEF MarkerEnds
  <2>2. CASE y <= Len(p)
    BY <1>0, <1>1, <1>2, <2>1, <2>2
  <2>3. CASE y > Len(p)
    BY <1>0, <1>3, <2>1, <2>3
  <2>. QED  BY <1>0, <2>1, <2>2, <2>3
<1>6. MarkerEnds(z, n) \subseteq Nat
  BY <1>0 DEF MarkerEnds
<1>. QED  BY <1>4, <1>5, <1>6, MinIs DEF x

\* Where no marker is open, what follows changes nothing of what is matched.
LEMMA PastExtended ==
  ASSUME NEW p \in Texts, NEW z \in Texts, Extends(z, p), NEW f, NEW g,
         IsPast(f, z), IsPast(g, p), \A n \in 1..Len(p) : n > g[n] => p[n] # Open
  PROVE  \A n \in 0..Len(p) : f[n] = g[n]
<1>. DEFINE T == {n \in Nat : n <= Len(p) => f[n] = g[n]}
<1>0. /\ Len(p) \in Nat /\ Len(z) \in Nat /\ Len(p) <= Len(z)
      /\ \A i \in 1..Len(p) : z[i] = p[i] /\ i \in 1..Len(z)
  BY DEF Texts, Extends
<1>1. 0 \in T
  BY DEF IsPast
<1>2. ASSUME NEW m \in Nat, m \in T PROVE m + 1 \in T
  <2>. SUFFICES ASSUME m + 1 <= Len(p) PROVE f[m + 1] = g[m + 1]
    OBVIOUS
  <2>. DEFINE n == m + 1
              b == g[m]
  <2>1. f[m] = b /\ n \in 1..Len(p) /\ n \in 1..Len(z) /\ n - 1 = m /\ m \in 0..Len(p)
    BY <1>0, <1>2
  <2>2. f[n] = LastMatched(z, n, b) /\ g[n] = LastMatched(p, n, b)
    BY <2>1 DEF IsPast
  <2>3. b \in 0..Len(p)
    BY <2>1, PastWithin
  <2>4. Len(<<Open, Bar>>) = 2 /\ <<Open, Bar>>[1] = Open /\ 1 \in 1..2 /\ n + 1 - 1 = n
    BY <2>1
  <2>. HIDE DEF n, b
  <2>5. CASE Opens(p, n) /\ n > b /\ MarkerEnds(p, n) # {}
    <3>1. Opens(z, n)
      <4>1. n + 2 - 1 <= Len(p) /\ \A k \in 1..2 : n + k - 1 \in 1..Len(p)
        BY <1>0, <2>1, <2>4, <2>5 DEF Opens, OccursAt
      <4>. QED  BY <1>0, <2>4, <2>5, <4>1 DEF Opens, OccursAt
    <3>2. MarkerEnds(z, n) # {} /\ Min(MarkerEnds(z, n)) = Min(MarkerEnds(p, n))
      BY <2>1, <2>5, EndsExtended
    <3>. QED  BY <2>2, <2>5, <3>1, <3>2 DEF LastMatched, n
  <2>6. CASE ~ (Opens(p, n) /\ n > b /\ MarkerEnds(p, n) # {})
    <3>1. g[n] = b
      BY <2>2, <2>6 DEF LastMatched
    <3>2. n > b => z[n] # Open
      BY <1>0, <2>1, <3>1
    <3>3. n > b => ~ Opens(z, n)
      BY <2>4, <3>2 DEF Opens, OccursAt
    <3>4. f[n] = b
      BY <2>2, <3>3 DEF LastMatched
    <3>. QED  BY <3>1, <3>4 DEF n
  <2>. QED  BY <2>5, <2>6
<1>3. \A n \in Nat : n \in T
  <2>. HIDE DEF T
  <2>. QED  BY <1>1, <1>2, NatInduct
<1>. QED  BY <1>0, <1>3

\* Where the first two positions are kept, the first two tokens are.
LEMMA FrontKept ==
  ASSUME NEW s \in Texts, Len(s) >= 2, NEW keep, 1 \in keep, 2 \in keep
  PROVE  Len(At(s, keep)) >= 2 /\ At(s, keep)[1] = s[1] /\ At(s, keep)[2] = s[2]
<1>. DEFINE t == At(s, keep)
<1>1. PICK pos : IsEnum(pos, s, keep)
  BY AtEnum DEF Texts
<1>2. Len(s) \in Nat /\ Len(t) \in Nat
  BY AtType DEF Texts
<1>3. 1 \in 1..Len(s) /\ 1 \in Nat /\ \A d \in 0..1 : d = 0 \/ d = 1
  BY <1>2
<1>4. KeptBlock(1, 1, s, keep)
  BY <1>2, <1>3 DEF KeptBlock
<1>5. PICK o \in 1..Len(t) : MovedTo(o, 1, 1, pos, t)
  BY <1>1, <1>3, <1>4, EnumBlock DEF Texts
<1>. HIDE DEF t
<1>6. o <= 1 /\ 0 \in 0..1 /\ 1 \in 0..1 /\ \A d \in 0..1 : o + d \in 1..Len(t) /\ pos[o + d] = 1 + d
  BY <1>5 DEF MovedTo
<1>7. o = 1
  BY <1>2, <1>6
<1>8. 1 \in 1..Len(t) /\ 2 \in 1..Len(t) /\ pos[1] = 1 /\ pos[2] = 2
  BY <1>6, <1>7
<1>9. \A k \in 1..Len(t) : t[k] = s[pos[k]]
  BY <1>1 DEF IsEnum, t
<1>. QED  BY <1>2, <1>8, <1>9 DEF t

\* "context:" is at the start of the text.
StartsContext(s) == Len(s) >= 2 /\ s[1] = "context" /\ s[2] = Colon

\* Markers are taken out of what follows a text in which none is open without changing
\* what they leave of that text.
LEMMA MarkersSplit ==
  ASSUME NEW p \in Texts, NEW q \in Texts, NoMarkerOpen(p)
  PROVE  \E y \in Texts : /\ StripMarkers(p \o q) = StripMarkers(p) \o y
                          /\ StartsContext(q) => StartsContext(y)
<1>. DEFINE z == p \o q
            m == Len(p)
<1>1. /\ z \in Texts /\ Len(z) = m + Len(q) /\ m \in Nat /\ Len(q) \in Nat
      /\ \A i \in 1..m : z[i] = p[i]
      /\ \A j \in 1..Len(q) : z[m + j] = q[j]
  BY ConcatShape DEF Texts
<1>. HIDE DEF z
<1>2. Extends(z, p)
  BY <1>1 DEF Extends
<1>3. PICK f : IsPast(f, z) /\ StripMarkers(z) = At(z, {n \in 1..Len(z) : n > f[n]})
  <2>1. Len(z) \in Nat
    BY <1>1
  <2>. QED  BY <2>1, PastDef
<1>4. PICK g : IsPast(g, p) /\ StripMarkers(p) = At(p, {n \in 1..m : n > g[n]})
  BY <1>1, PastDef
<1>. DEFINE keep == {n \in 1..Len(z) : n > f[n]}
            own == {n \in 1..m : n > g[n]}
            rest == {j \in 1..Len(q) : m + j > f[m + j]}
<1>5. ASSUME NEW n \in 1..m, n > g[n], p[n] = Open PROVE FALSE
  <2>1. n \in own
    BY <1>5
  <2>. HIDE DEF own
  <2>2. PICK k \in 1..Len(At(p, own)) : At(p, own)[k] = p[n]
    BY <2>1, AtFinds DEF Texts
  <2>3. At(p, own)[k] \in ToSet(At(p, own))
    BY DEF ToSet
  <2>. QED  BY <1>4, <1>5, <2>2, <2>3 DEF NoMarkerOpen, own
<1>6. \A n \in 0..m : f[n] = g[n]
  BY <1>1, <1>2, <1>3, <1>4, <1>5, PastExtended
<1>7. At(p, keep) = StripMarkers(p)
  <2>1. \A n \in 1..Len(p) : n \in keep <=> n \in own
    BY <1>1, <1>6
  <2>. HIDE DEF keep, own
  <2>2. At(p, keep) = At(p, own)
    BY <1>1, <2>1, AtCong
  <2>. QED  BY <1>4, <2>2 DEF own
<1>8. StripMarkers(p \o q) = At(p, keep) \o At(q, rest)
  <2>1. KeptAfter(rest, p, q, keep)
    BY <1>1 DEF KeptAfter
  <2>. HIDE DEF keep, rest
  <2>2. At(p \o q, keep) = At(p, keep) \o At(q, rest)
    BY <2>1, AtJoin DEF Texts
  <2>. QED  BY <1>3, <2>2 DEF z, keep
<1>9. At(q, rest) \in Texts
  BY AtType DEF Texts
<1>10. ASSUME StartsContext(q) PROVE StartsContext(At(q, rest))
  <2>1. Len(q) >= 2 /\ q[1] = "context" /\ q[2] = Colon /\ "context" # Open /\ Colon # Open
    BY <1>10 DEF StartsContext, Open, Colon
  <2>2. ASSUME NEW n \in 1..Len(z), z[n] # Open PROVE f[n] = f[n - 1]
    <3>1. Len(<<Open, Bar>>) = 2 /\ <<Open, Bar>>[1] = Open /\ 1 \in 1..2 /\ n + 1 - 1 = n
      OBVIOUS
    <3>2. ~ Opens(z, n)
      BY <2>2, <3>1 DEF Opens, OccursAt
    <3>. QED  BY <1>3, <3>2 DEF IsPast, LastMatched
  <2>3. f[m] \in 0..m
    BY <1>1, <1>4, <1>6, PastWithin
  <2>4. /\ 1 \in 1..Len(q) /\ 2 \in 1..Len(q) /\ m + 1 \in 1..Len(z) /\ m + 2 \in 1..Len(z)
        /\ m + 1 - 1 = m /\ m + 2 - 1 = m + 1
    BY <1>1, <2>1
  <2>5. f[m + 1] = f[m] /\ f[m + 2] = f[m + 1]
    BY <1>1, <2>1, <2>2, <2>4
  <2>6. 1 \in rest /\ 2 \in rest
    BY <1>1, <2>3, <2>4, <2>5
  <2>. HIDE DEF rest
  <2>. QED  BY <2>1, <2>6, FrontKept DEF StartsContext
<1>. QED  BY <1>7, <1>8, <1>9, <1>10

\* So it is with both kinds of tags.
LEMMA TagsSplit ==
  ASSUME NEW p \in Texts, NEW q \in Texts, NoMarkerOpen(p)
  PROVE  \E y \in Texts : /\ StripTags(p \o q) = StripTags(p) \o y
                          /\ StartsContext(q) => StartsContext(y)
<1>1. PICK y \in Texts : /\ StripMarkers(p \o q) = StripMarkers(p) \o y
                         /\ StartsContext(q) => StartsContext(y)
  BY MarkersSplit
<1>. DEFINE x == StripMarkers(p)
            z == x \o y
            keep == {i \in 1..Len(z) : z[i] # Cjk}
            own == {i \in 1..Len(x) : x[i] # Cjk}
            rest == {j \in 1..Len(y) : y[j] # Cjk}
<1>2. x \in Texts
  BY AtType DEF StripMarkers, Texts
<1>. HIDE DEF x
<1>3. /\ Len(z) = Len(x) + Len(y) /\ Len(x) \in Nat /\ Len(y) \in Nat
      /\ \A i \in 1..Len(x) : z[i] = x[i]
      /\ \A j \in 1..Len(y) : z[Len(x) + j] = y[j]
  BY <1>2, ConcatShape DEF Texts
<1>4. KeptAfter(rest, x, y, keep) /\ \A i \in 1..Len(x) : i \in keep <=> i \in own
  <2>. HIDE DEF z
  <2>. QED  BY <1>3 DEF KeptAfter
<1>5. StripCjk(z) = StripCjk(x) \o StripCjk(y)
  <2>1. StripCjk(z) = At(x \o y, keep) /\ StripCjk(x) = At(x, own) /\ StripCjk(y) = At(y, rest)
    BY DEF StripCjk
  <2>. HIDE DEF keep, own, rest, z
  <2>2. At(x \o y, keep) = At(x, keep) \o At(y, rest)
    BY <1>2, <1>4, AtJoin DEF Texts
  <2>3. At(x, keep) = At(x, own)
    BY <1>2, <1>4, AtCong DEF Texts
  <2>. QED  BY <2>1, <2>2, <2>3
<1>6. StripCjk(y) \in Texts
  BY AtType DEF StripCjk, Texts
<1>7. ASSUME StartsContext(y) PROVE StartsContext(StripCjk(y))
  <2>1. Len(y) >= 2 /\ y[1] = "context" /\ y[2] = Colon /\ "context" # Cjk /\ Colon # Cjk
    BY <1>7 DEF StartsContext, Cjk, Colon
  <2>2. 1 \in rest /\ 2 \in rest
    BY <1>3, <2>1
  <2>3. StripCjk(y) = At(y, rest)
    BY DEF StripCjk
  <2>. HIDE DEF rest
  <2>. QED  BY <2>1, <2>2, <2>3, FrontKept DEF StartsContext
<1>. QED  BY <1>1, <1>5, <1>6, <1>7 DEF StripTags, x

\* A text is its start and the rest.
LEMMA SplitAt ==
  ASSUME NEW s \in Texts, NEW n \in 0..Len(s)
  PROVE  /\ SubSeq(s, 1, n) \in Texts /\ Len(SubSeq(s, 1, n)) = n
         /\ \A i \in 1..n : SubSeq(s, 1, n)[i] = s[i]
         /\ SubSeq(s, n + 1, Len(s)) \in Texts /\ Len(SubSeq(s, n + 1, Len(s))) = Len(s) - n
         /\ \A j \in 1..Len(s) - n : SubSeq(s, n + 1, Len(s))[j] = s[n + j]
         /\ s = SubSeq(s, 1, n) \o SubSeq(s, n + 1, Len(s))
<1>. DEFINE u == SubSeq(s, 1, n)
            v == SubSeq(s, n + 1, Len(s))
<1>1. /\ u \in Texts /\ v \in Texts /\ Len(u) = n /\ Len(v) = Len(s) - n /\ Len(s) \in Nat
      /\ \A i \in 1..n : u[i] = s[i]
      /\ \A j \in 1..Len(s) - n : v[j] = s[n + j]
  BY DEF Texts
<1>2. s = u \o v
  <2>1. /\ u \o v \in Texts /\ Len(u \o v) = Len(s)
        /\ \A i \in 1..n : (u \o v)[i] = s[i]
        /\ \A j \in 1..Len(s) - n : (u \o v)[n + j] = s[n + j]
    <3>. HIDE DEF u, v
    <3>1. u \in Seq(Symbols) /\ v \in Seq(Symbols)
      BY <1>1 DEF Texts
    <3>2. /\ u \o v \in Seq(Symbols) /\ Len(u \o v) = Len(u) + Len(v)
          /\ \A i \in 1..Len(u) : (u \o v)[i] = u[i]
          /\ \A j \in 1..Len(v) : (u \o v)[Len(u) + j] = v[j]
      BY <3>1, ConcatShape
    <3>. QED  BY <1>1, <3>2 DEF Texts
  <2>. HIDE DEF u, v
  <2>2. ASSUME NEW j \in 1..Len(s) PROVE (u \o v)[j] = s[j]
    <3>1. CASE j \in 1..n
      BY <2>1, <3>1
    <3>2. CASE j \notin 1..n
      <4>1. j - n \in 1..Len(s) - n /\ j = n + (j - n)
        BY <1>1, <3>2
      <4>. QED  BY <2>1, <4>1
    <3>. QED  BY <3>1, <3>2
  <2>. QED  BY <2>1, <2>2, SeqEqual DEF Texts
<1>. QED  BY <1>1, <1>2

\* Nothing from "context:" on is looked at.
LEMMA CutAtContext ==
  ASSUME NEW x \in Texts, NEW y \in Texts, StartsContext(y)
  PROVE  CutContext(x \o y) = CutContext(x)
<1>. DEFINE z == x \o y
<1>1. /\ z \in Texts /\ Len(z) = Len(x) + Len(y) /\ Len(x) \in Nat /\ Len(y) \in Nat
      /\ \A i \in 1..Len(x) : z[i] = x[i]
      /\ \A j \in 1..Len(y) : z[Len(x) + j] = y[j]
  BY ConcatShape DEF Texts
<1>2. z[Len(x) + 1] = "context" /\ z[Len(x) + 2] = Colon /\ Len(x) + 2 <= Len(z)
  BY <1>1 DEF StartsContext
<1>3. "context" # Colon
  BY DEF Colon
<1>. HIDE DEF z
<1>4. PICK n \in 0..Len(x) : CutAt(x, n) /\ CutContext(x) = SubSeq(x, 1, n)
  BY CutShape
<1>5. ASSUME NEW i \in 1..Len(x) PROVE OccursAt(Context, z, i) <=> OccursAt(Context, x, i)
  <2>1. i \in 1..Len(z) /\ (i < Len(x) => i + 1 \in 1..Len(x))
    BY <1>1
  <2>2. OccursAt(Context, x, i) <=> i < Len(x) /\ x[i] = "context" /\ x[i + 1] = Colon
    BY ContextAt
  <2>3. OccursAt(Context, z, i) <=> i < Len(z) /\ z[i] = "context" /\ z[i + 1] = Colon
    BY <1>1, <2>1, ContextAt
  <2>4. CASE i < Len(x)
    BY <1>1, <2>1, <2>2, <2>3, <2>4
  <2>5. CASE i = Len(x)
    BY <1>2, <1>3, <2>2, <2>3, <2>5
  <2>. QED  BY <1>1, <2>4, <2>5
<1>6. CutAt(z, n)
  <2>1. \A i \in 1..n : ~ OccursAt(Context, z, i)
    BY <1>4, <1>5 DEF CutAt
  <2>2. CASE n < Len(x)
    <3>1. n + 1 \in 1..Len(x)
      BY <2>2
    <3>. QED  BY <1>4, <1>5, <2>1, <2>2, <3>1 DEF CutAt
  <2>3. CASE n = Len(x)
    <3>1. n + 1 \in 1..Len(z) /\ n + 1 < Len(z) /\ n + 1 + 1 = Len(x) + 2
      BY <1>1, <1>2, <2>3
    <3>2. OccursAt(Context, z, n + 1)
      BY <1>1, <1>2, <2>3, <3>1, ContextAt
    <3>. QED  BY <2>1, <3>2 DEF CutAt
  <2>. QED  BY <2>2, <2>3
<1>7. CutContext(z) = SubSeq(z, 1, n)
  <2>1. n \in 0..Len(z)
    BY <1>1
  <2>. QED  BY <1>1, <1>6, <2>1, CutIs
<1>8. SubSeq(z, 1, n) = SubSeq(x, 1, n)
  <2>1. n \in 0..Len(z) /\ \A i \in 1..n : z[i] = x[i]
    BY <1>1
  <2>2. /\ SubSeq(z, 1, n) \in Texts /\ Len(SubSeq(z, 1, n)) = n
        /\ \A i \in 1..n : SubSeq(z, 1, n)[i] = z[i]
    BY <1>1, <2>1, SplitAt
  <2>3. /\ SubSeq(x, 1, n) \in Texts /\ Len(SubSeq(x, 1, n)) = n
        /\ \A i \in 1..n : SubSeq(x, 1, n)[i] = x[i]
    BY SplitAt
  <2>. QED  BY <2>1, <2>2, <2>3, SeqEqual DEF Texts
<1>. QED  BY <1>4, <1>7, <1>8 DEF z

\* Where no marker is open, "context:" and what follows it do not matter.
LEMMA EchoCut ==
  ASSUME NEW a \in Texts, NEW i \in 1..Len(a), OccursAt(Context, a, i),
         NoMarkerOpen(SubSeq(a, 1, i - 1))
  PROVE  CleanFactualOutput(a) = CleanFactualOutput(SubSeq(a, 1, i - 1))
<1>. DEFINE p == SubSeq(a, 1, i - 1)
            q == SubSeq(a, i - 1 + 1, Len(a))
<1>1. i - 1 \in 0..Len(a) /\ i - 1 + 1 = i /\ Len(a) \in Nat
  BY DEF Texts
<1>2. /\ p \in Texts /\ q \in Texts /\ Len(q) = Len(a) - (i - 1) /\ a = p \o q
      /\ \A j \in 1..Len(a) - (i - 1) : q[j] = a[i - 1 + j]
  BY <1>1, SplitAt
<1>. HIDE DEF p, q
<1>3. StartsContext(q)
  <2>1. i < Len(a) /\ a[i] = "context" /\ a[i + 1] = Colon
    BY ContextAt
  <2>2. 1 \in 1..Len(a) - (i - 1) /\ 2 \in 1..Len(a) - (i - 1) /\ i - 1 + 1 = i /\ i - 1 + 2 = i + 1
    BY <1>1, <2>1
  <2>. QED  BY <1>2, <2>1, <2>2 DEF StartsContext
<1>4. PICK y \in Texts : StripTags(p \o q) = StripTags(p) \o y /\ StartsContext(y)
  BY <1>2, <1>3, TagsSplit DEF p
<1>5. StripTags(p) \in Texts
  <2>1. StripMarkers(p) \in Texts
    BY <1>2, AtType DEF StripMarkers, Texts
  <2>. QED  BY <2>1, AtType DEF StripTags, StripCjk, Texts
<1>6. CutContext(StripTags(a)) = CutContext(StripTags(p))
  BY <1>2, <1>4, <1>5, CutAtContext
<1>. QED  BY <1>6 DEF CleanFactualOutput, p

-----------------------------------------------------------------------------
(***************************************************************************)
(* Settled answers.                                                        *)
(***************************************************************************)

\* What comes after a complete sentence is no part of it.
LEMMA SentenceWithin ==
  ASSUME NEW u \in Texts, NEW v \in Texts, Len(u) >= 1, u[Len(u)] = Stop, NEW i \in 1..Len(u)
  PROVE  SentenceAt(u \o v, i) = SentenceAt(u, i)
<1>. DEFINE z == u \o v
            keep == {j \in i..Len(z) : \A k \in i..j - 1 : z[k] # Stop}
            own == {j \in i..Len(u) : \A k \in i..j - 1 : u[k] # Stop}
<1>1. /\ z \in Texts /\ Len(z) = Len(u) + Len(v) /\ Len(u) \in Nat /\ Len(v) \in Nat
      /\ \A j \in 1..Len(u) : z[j] = u[j]
  BY ConcatShape DEF Texts
<1>. HIDE DEF z
<1>2. ASSUME NEW j \in 1..Len(u) PROVE j \in keep <=> j \in own
  <2>1. \A k \in i..j - 1 : k \in 1..Len(u) /\ z[k] = u[k]
    BY <1>1
  <2>2. j \in i..Len(z) <=> j \in i..Len(u)
    BY <1>1
  <2>. QED  BY <2>1, <2>2
<1>3. ASSUME NEW j \in 1..Len(v) PROVE Len(u) + j \notin keep
  <2>1. Len(u) \in i..Len(u) + j - 1 /\ z[Len(u)] = Stop
    BY <1>1
  <2>. QED  BY <2>1
<1>4. KeptAfter({}, u, v, keep)
  BY <1>3 DEF KeptAfter
<1>5. SentenceAt(z, i) = At(u \o v, keep) /\ SentenceAt(u, i) = At(u, own)
  BY DEF SentenceAt, z
<1>. HIDE DEF keep, own
<1>6. At(u \o v, keep) = At(u, keep) \o At(v, {})
  BY <1>4, AtJoin DEF Texts
<1>7. At(v, {}) = <<>>
  BY AtNone DEF Texts
<1>8. At(u, keep) = At(u, own) /\ At(u, keep) \in Texts
  BY <1>1, <1>2, AtCong, AtType DEF Texts
<1>9. At(u, keep) \o <<>> = At(u, keep)
  BY <1>8 DEF Texts
<1>. QED  BY <1>5, <1>6, <1>7, <1>8, <1>9 DEF z

\* The first usable sentence is complete: what follows does not matter.
LEMMA ChosenFront ==
  ASSUME NEW u \in Texts, NEW v \in Texts, Len(u) >= 1, u[Len(u)] = Stop,
         NEW i \in SentenceStarts(u), Usable(SentenceAt(u, i))
  PROVE  Chosen(u \o v) = Chosen(u)
<1>. DEFINE z == u \o v
            usable(s) == {j \in SentenceStarts(s) : Usable(SentenceAt(s, j))}
            m == Min(usable(u))
<1>1. /\ z \in Texts /\ Len(z) = Len(u) + Len(v) /\ Len(u) \in Nat /\ Len(v) \in Nat
      /\ \A j \in 1..Len(u) : z[j] = u[j] /\ SentenceAt(z, j) = SentenceAt(u, j)
  BY ConcatShape, SentenceWithin DEF Texts
<1>. HIDE DEF z
<1>2. usable(u) \subseteq Nat /\ usable(z) \subseteq Nat /\ i \in usable(u)
  BY DEF SentenceStarts
<1>3. ASSUME NEW j \in 1..Len(u) PROVE j \in usable(z) <=> j \in usable(u)
  <2>1. j = 1 \/ j - 1 \in 1..Len(u)
    BY <1>1
  <2>2. j \in 1..Len(z)
    BY <1>1
  <2>3. j \in SentenceStarts(z) <=> j \in SentenceStarts(u)
    BY <1>1, <2>1, <2>2 DEF SentenceStarts
  <2>. QED  BY <1>1, <2>3
<1>4. m \in usable(u) /\ \A y \in usable(u) : m <= y
  <2>. HIDE DEF usable
  <2>. QED  BY <1>2, MinThere
<1>5. m \in 1..Len(u)
  BY <1>4 DEF SentenceStarts
<1>6. \A y \in usable(z) : y \in 1..Len(z)
  BY DEF SentenceStarts
<1>7. Chosen(u) = Strip(SentenceAt(u, m))
  BY <1>2 DEF Chosen
<1>. HIDE DEF m
<1>8. m \in usable(z)
  <2>. HIDE DEF usable
  <2>. QED  BY <1>3, <1>4, <1>5
<1>9. ASSUME NEW y \in usable(z) PROVE m <= y
  <2>. HIDE DEF usable
  <2>1. CASE y <= Len(u)
    <3>1. y \in 1..Len(u)
      BY <1>6, <2>1
    <3>. QED  BY <1>3, <1>4, <3>1
  <2>2. CASE y > Len(u)
    BY <1>1, <1>5, <1>6, <2>2
  <2>. QED  BY <1>1, <1>6, <2>1, <2>2
<1>10. Min(usable(z)) = m
  <2>. HIDE DEF usable
  <2>. QED  BY <1>2, <1>8, <1>9, MinIs
<1>11. Chosen(z) = Strip(SentenceAt(z, m))
  BY <1>8, <1>10 DEF Chosen
<1>. QED  BY <1>1, <1>5, <1>7, <1>11 DEF z

\* What follows a stop does not change what is cut before it.
LEMMA CutAgrees ==
  ASSUME NEW x \in Texts, NEW y \in Texts,
         NEW e \in 1..Len(CutContext(x)), CutContext(x)[e] = Stop
  PROVE  /\ e \in 0..Len(CutContext(x \o y))
         /\ SubSeq(CutContext(x \o y), 1, e) = SubSeq(CutContext(x), 1, e)
<1>. DEFINE z == x \o y
            b == CutContext(x)
            c == CutContext(z)
<1>1. /\ z \in Texts /\ Len(z) = Len(x) + Len(y) /\ Len(x) \in Nat /\ Len(y) \in Nat
      /\ \A i \in 1..Len(x) : z[i] = x[i]
  BY ConcatShape DEF Texts
<1>. HIDE DEF z
<1>2. PICK n \in 0..Len(x) : CutAt(x, n) /\ b = SubSeq(x, 1, n)
  BY CutShape
<1>3. PICK m \in 0..Len(z) : CutAt(z, m) /\ c = SubSeq(z, 1, m)
  BY <1>1, CutShape
<1>. HIDE DEF b, c
<1>4. b \in Texts /\ Len(b) = n /\ \A i \in 1..n : b[i] = x[i]
  BY <1>2, SplitAt
<1>5. c \in Texts /\ Len(c) = m /\ \A i \in 1..m : c[i] = z[i]
  BY <1>1, <1>3, SplitAt
<1>6. e \in 1..n /\ x[e] = Stop /\ "context" # Stop
  BY <1>4 DEF b, Stop
<1>7. ASSUME m < e PROVE FALSE
  <2>1. m + 1 \in 1..Len(z) /\ m < Len(z) /\ m + 1 \in 1..n /\ m + 1 \in 1..Len(x)
    BY <1>1, <1>6, <1>7
  <2>2. OccursAt(Context, z, m + 1)
    BY <1>3, <2>1 DEF CutAt
  <2>3. m + 1 < Len(z) /\ z[m + 1] = "context" /\ z[m + 1 + 1] = Colon
    BY <1>1, <2>1, <2>2, ContextAt
  <2>4. m + 1 # e
    BY <1>1, <1>6, <2>1, <2>3
  <2>5. m + 1 < Len(x) /\ m + 1 + 1 \in 1..Len(x)
    BY <1>6, <1>7, <2>4
  <2>6. OccursAt(Context, x, m + 1)
    BY <1>1, <2>1, <2>3, <2>5, ContextAt
  <2>. QED  BY <1>2, <2>1, <2>6 DEF CutAt
<1>8. e \in 0..Len(c) /\ e \in 0..Len(b) /\ \A i \in 1..e : c[i] = b[i]
  BY <1>1, <1>4, <1>5, <1>6, <1>7
<1>9. SubSeq(c, 1, e) = SubSeq(b, 1, e)
  <2>1. /\ SubSeq(c, 1, e) \in Texts /\ Len(SubSeq(c, 1, e)) = e
        /\ \A i \in 1..e : SubSeq(c, 1, e)[i] = c[i]
    BY <1>5, <1>8, SplitAt
  <2>2. /\ SubSeq(b, 1, e) \in Texts /\ Len(SubSeq(b, 1, e)) = e
        /\ \A i \in 1..e : SubSeq(b, 1, e)[i] = b[i]
    BY <1>4, <1>8, SplitAt
  <2>. QED  BY <1>8, <2>1, <2>2, SeqEqual DEF Texts
<1>. QED  BY <1>8, <1>9 DEF b, c, z

\* What the model writes after the answer is settled does not change it.
LEMMA SettledStays ==
  ASSUME NEW p \in Texts, NEW q \in Texts, Settled(p)
  PROVE  CleanFactualOutput(p \o q) = CleanFactualOutput(p)
<1>. DEFINE x == StripTags(p)
            b == CutContext(x)
<1>1. PICK y \in Texts : StripTags(p \o q) = x \o y
  BY TagsSplit DEF Settled
<1>. DEFINE c == CutContext(x \o y)
<1>2. x \in Texts
  <2>1. StripMarkers(p) \in Texts
    BY AtType DEF StripMarkers, Texts
  <2>. QED  BY <2>1, AtType DEF StripTags, StripCjk, Texts
<1>3. b \in Texts /\ x \o y \in Texts
  BY <1>2, CutNoContext DEF Texts
<1>4. c \in Texts
  BY <1>3, CutNoContext
<1>5. PICK i \in SentenceStarts(b) : Usable(SentenceAt(b, i)) /\ Last(SentenceAt(b, i)) = Stop
  BY DEF Settled
<1>. HIDE DEF x
<1>6. PICK e \in 1..Len(b) : b[e] = Stop /\ i <= e
  <2>. DEFINE keep == {j \in i..Len(b) : \A k \in i..j - 1 : b[k] # Stop}
              t == At(b, keep)
  <2>1. t = SentenceAt(b, i)
    BY DEF SentenceAt
  <2>2. i \in 1..Len(b) /\ Len(b) \in Nat
    BY <1>3 DEF SentenceStarts, Texts
  <2>3. i \in keep
    BY <2>2
  <2>4. t \in Texts /\ Len(t) \in Nat
    BY <1>3, AtType DEF Texts
  <2>. HIDE DEF keep, b
  <2>5. \E k \in 1..Len(At(b, keep)) : At(b, keep)[k] = b[i]
    BY <1>3, <2>2, <2>3, AtFinds DEF Texts
  <2>6. Len(t) \in 1..Len(At(b, keep))
    BY <2>4, <2>5
  <2>7. PICK e \in 1..Len(b) : e \in keep /\ t[Len(t)] = b[e]
    BY <1>3, <2>6, AtElem DEF Texts
  <2>8. b[e] = Stop
    BY <1>5, <2>1, <2>7 DEF Last
  <2>9. i <= e
    BY <2>2, <2>7 DEF keep
  <2>. QED  BY <2>8, <2>9
<1>. DEFINE u == SubSeq(b, 1, e)
            v == SubSeq(b, e + 1, Len(b))
            w == SubSeq(c, e + 1, Len(c))
<1>7. e \in 0..Len(c) /\ SubSeq(c, 1, e) = u
  BY <1>1, <1>2, <1>6, CutAgrees
<1>. HIDE DEF b, c
<1>8. /\ u \in Texts /\ Len(u) = e /\ v \in Texts /\ b = u \o v
      /\ \A k \in 1..e : u[k] = b[k]
  <2>1. e \in 0..Len(b)
    OBVIOUS
  <2>. QED  BY <1>3, <2>1, SplitAt
<1>9. w \in Texts /\ c = u \o w
  BY <1>4, <1>7, SplitAt
<1>. HIDE DEF u, v, w
<1>10. Len(u) >= 1 /\ u[Len(u)] = Stop /\ i \in 1..Len(u)
  <2>1. i \in 1..Len(b)
    BY <1>5 DEF SentenceStarts
  <2>. QED  BY <1>6, <1>8, <2>1
<1>11. i \in SentenceStarts(u)
  <2>1. i = 1 \/ i - 1 \in 1..e
    BY <1>8, <1>10
  <2>. QED  BY <1>5, <1>8, <1>10, <2>1 DEF SentenceStarts
<1>12. Usable(SentenceAt(u, i))
  BY <1>5, <1>8, <1>10, SentenceWithin
<1>13. Chosen(b) = Chosen(u) /\ Chosen(c) = Chosen(u)
  BY <1>8, <1>9, <1>10, <1>11, <1>12, ChosenFront
<1>14. Chosen(CutContext(StripTags(p \o q))) = Chosen(CutContext(StripTags(p)))
  BY <1>1, <1>13 DEF b, c, x
<1>. QED  BY <1>14 DEF CleanFactualOutput

-----------------------------------------------------------------------------
(***************************************************************************)
(* Questions.                                                              *)
(***************************************************************************)

\* A question prefix: where its pieces are.
LEMMA PrefixShape ==
  ASSUME NEW q \in QuestionPrefixes
  PROVE  /\ q \in Texts /\ Len(q) \in 1..3
         /\ IsWord(q[1]) /\ IsWord(q[Len(q)])
         /\ q[Len(q)] \in {"is", "s", "define", "explain"}
         /\ \A n \in 1..Len(q) : q[n] = Blank => n = 2 /\ q[1] \in {"what", "who"}
<1>1. ASSUME NEW w \in {"define", "explain"}, q = <<w>>
      PROVE  /\ q \in Texts /\ Len(q) \in 1..3
             /\ IsWord(q[1]) /\ IsWord(q[Len(q)])
             /\ q[Len(q)] \in {"is", "s", "define", "explain"}
             /\ \A n \in 1..Len(q) : q[n] = Blank => n = 2 /\ q[1] \in {"what", "who"}
  <2>1. w \in Symbols /\ IsWord(w) /\ w # Blank
    BY DEF Symbols, IsWord, Punct, Spaces, Sign, NewLine, Blank, Apos, Mark
  <2>2. q \in Texts /\ Len(q) = 1 /\ q[1] = w
    BY <1>1, <2>1 DEF Texts
  <2>3. \A n \in 1..Len(q) : n = 1
    BY <2>2
  <2>. QED  BY <2>1, <2>2, <2>3
<1>2. ASSUME NEW w \in {"what", "who"}, NEW x \in {Apos, Blank}, NEW v \in {"is", "s"},
             q = <<w, x, v>>
      PROVE  /\ q \in Texts /\ Len(q) \in 1..3
             /\ IsWord(q[1]) /\ IsWord(q[Len(q)])
             /\ q[Len(q)] \in {"is", "s", "define", "explain"}
             /\ \A n \in 1..Len(q) : q[n] = Blank => n = 2 /\ q[1] \in {"what", "who"}
  <2>1. w \in Symbols /\ x \in Symbols /\ v \in Symbols
    BY DEF Symbols
  <2>2. IsWord(w) /\ IsWord(v) /\ w # Blank /\ v # Blank
    BY DEF IsWord, Punct, Spaces, Sign, NewLine, Blank, Apos, Mark
  <2>3. q \in Texts /\ Len(q) = 3 /\ q[1] = w /\ q[2] = x /\ q[3] = v
    BY <1>2, <2>1 DEF Texts
  <2>4. \A n \in 1..Len(q) : n = 1 \/ n = 2 \/ n = 3
    BY <2>3
  <2>. QED  BY <2>2, <2>3, <2>4
<1>3. \/ \E w \in {"define", "explain"} : q = <<w>>
      \/ \E w \in {"what", "who"} : q = <<w, Apos, "s">> \/ q = <<w, Blank, "is">>
  BY DEF QuestionPrefixes
<1>. QED  BY <1>1, <1>2, <1>3

\* s is a question about t: q, a blank, t and a mark.
IsQuestion(s, q, t) ==
  /\ Len(s) = Len(q) + Len(t) + 2
  /\ \A i \in 1..Len(q) : s[i] = q[i]
  /\ s[Len(q) + 1] = Blank
  /\ \A j \in 1..Len(t) : s[Len(q) + 1 + j] = t[j]
  /\ s[Len(q) + Len(t) + 2] = Mark

\* In a question about a topic, the prefix is all that the pattern covers.
LEMMA PrefixOfQuestion ==
  ASSUME NEW q \in QuestionPrefixes, NEW t \in Texts, IsTopic(t), NEW s \in Texts,
         NEW l \in Nat, NEW n \in Nat, l = Len(q), n = Len(t), IsQuestion(s, q, t)
  PROVE  PrefixTokens(s) = 1..l
<1>1. l >= 1 /\ n >= 1
  BY PrefixShape DEF IsTopic, Texts
<1>0. /\ Len(s) = l + n + 2
      /\ \A i \in 1..l : s[i] = q[i]
      /\ s[l + 1] = Blank
      /\ \A j \in 1..n : s[l + 1 + j] = t[j]
      /\ s[l + n + 2] = Mark
  BY DEF IsQuestion
<1>2. ~ IsWord(Blank) /\ ~ IsWord(Mark)
  BY DEF IsWord, Punct, Spaces
<1>3. FoundAt(q, s, 1)
  <2>1. \A i \in 1..Len(q) : 1 + i - 1 = i
    BY PrefixShape
  <2>2. OccursAt(q, s, 1)
    BY <1>0, <2>1 DEF OccursAt
  <2>3. 1 + Len(q) = l + 1
    OBVIOUS
  <2>. QED  BY <1>0, <1>2, <2>2, <2>3 DEF FoundAt
<1>4. ASSUME NEW i \in 1..l PROVE i \in PrefixTokens(s)
  <2>1. i \in 1..Len(s) /\ 1 \in 1..i /\ i < 1 + Len(q)
    BY <1>0, <1>4
  <2>. QED  BY <1>3, <2>1 DEF PrefixTokens
<1>5. ASSUME NEW x \in PrefixTokens(s) PROVE x \in 1..l
  <2>1. PICK p \in QuestionPrefixes, j \in 1..x : FoundAt(p, s, j) /\ x < j + Len(p)
    BY DEF PrefixTokens
  <2>2. x \in 1..Len(s)
    BY DEF PrefixTokens
  <2>3. PICK m \in 1..3 : m = Len(p)
    BY PrefixShape
  <2>8. j \in Nat /\ j >= 1 /\ x \in Nat /\ m \in Nat /\ m >= 1
    BY <2>2
  <2>4. /\ IsWord(p[1]) /\ IsWord(p[m])
        /\ \A k \in 1..m : p[k] = Blank => k = 2 /\ p[1] \in {"what", "who"}
    BY <2>3, PrefixShape
  <2>5. /\ j + m - 1 <= Len(s) /\ x < j + m
        /\ \A k \in 1..m : s[j + k - 1] = p[k]
        /\ j > 1 => ~ IsWord(s[j - 1])
        /\ j + m <= Len(s) => ~ IsWord(s[j + m])
    BY <2>1, <2>3 DEF FoundAt, OccursAt
  <2>6. s[j] = p[1] /\ s[j + m - 1] = p[m]
    <3>1. 1 \in 1..m /\ m \in 1..m /\ j + 1 - 1 = j
      OBVIOUS
    <3>. QED  BY <2>5, <3>1
  <2>7. ASSUME x > l PROVE FALSE
    <3>1. CASE j <= l
      <4>1. l + 2 - j \in 1..m /\ j + (l + 2 - j) - 1 = l + 1
        BY <1>0, <2>2, <2>5, <2>7, <2>8, <3>1
      <4>2. p[l + 2 - j] = Blank
        BY <1>0, <2>5, <4>1
      <4>3. l + 2 - j = 2 /\ p[1] \in {"what", "who"}
        BY <2>4, <4>1, <4>2
      <4>4. j = l
        BY <2>8, <4>3
      <4>5. s[l] = q[l] /\ q[l] \in {"is", "s", "define", "explain"}
        BY <1>0, <1>1, PrefixShape
      <4>. QED  BY <2>6, <4>3, <4>4, <4>5
    <3>2. CASE j = l + 1
      BY <1>0, <1>2, <2>4, <2>6, <3>2
    <3>3. CASE j > l + 1
      <4>1. PICK y \in Nat \ {0} : j = l + 1 + y
        <5>1. j - (l + 1) \in Nat \ {0} /\ j = l + 1 + (j - (l + 1))
          BY <2>8, <3>3
        <5>. QED  BY <5>1
      <4>2. j + m - 1 # l + n + 2
        BY <1>0, <1>2, <2>4, <2>6
      <4>3. y + m - 1 <= n /\ y \in 1..n
        <5>1. j + m - 1 <= l + n + 2
          BY <1>0, <2>5
        <5>. QED  BY <2>8, <4>1, <4>2, <5>1
      <4>4. ASSUME NEW k \in 1..m PROVE t[y + k - 1] = p[k]
        <5>1. y + k - 1 \in 1..n /\ l + 1 + (y + k - 1) = j + k - 1
          BY <2>8, <4>1, <4>3
        <5>. QED  BY <1>0, <2>5, <5>1
      <4>5. ASSUME y > 1 PROVE ~ IsWord(t[y - 1])
        <5>1. y - 1 \in 1..n /\ l + 1 + (y - 1) = j - 1 /\ j > 1
          BY <2>8, <4>1, <4>3, <4>5
        <5>. QED  BY <1>0, <2>5, <5>1
      <4>6. ASSUME y + m <= n PROVE ~ IsWord(t[y + m])
        <5>1. y + m \in 1..n /\ l + 1 + (y + m) = j + m /\ j + m <= Len(s)
          BY <1>0, <2>8, <4>1, <4>3, <4>6
        <5>. QED  BY <1>0, <2>5, <5>1
      <4>7. FoundAt(p, t, y)
        BY <2>3, <4>3, <4>4, <4>5, <4>6 DEF FoundAt, OccursAt
      <4>8. y \in PrefixTokens(t)
        <5>1. y \in 1..y /\ y < y + Len(p)
          BY <2>3, <2>8
        <5>. QED  BY <4>3, <4>7, <5>1 DEF PrefixTokens
      <4>. QED  BY <4>8 DEF IsTopic
    <3>. QED  BY <3>1, <3>2, <3>3
  <2>. QED  BY <2>2, <2>7
<1>. QED  BY <1>4, <1>5

\* A question about a topic has the topic's key.
LEMMA QuestionKey ==
  ASSUME NEW q \in QuestionPrefixes, NEW t \in Texts, IsTopic(t)
  PROVE  NormalizeKey(q \o <<Blank>> \o t \o <<Mark>>) = NormalizeKey(t)
<1>. DEFINE bl == <<Blank>>
            mk == <<Mark>>
            v == t \o mk
            u == bl \o v
            s == q \o u
<1>1. /\ bl \in Texts /\ Len(bl) = 1 /\ bl[1] = Blank
      /\ mk \in Texts /\ Len(mk) = 1 /\ mk[1] = Mark
  <2>1. Blank \in Symbols /\ Mark \in Symbols
    BY DEF Symbols
  <2>. QED  BY <2>1 DEF Texts
<1>. HIDE DEF bl, mk
<1>2. q \in Texts /\ t \in Texts
  BY PrefixShape
<1>3. PICK l \in Nat, n \in Nat : l = Len(q) /\ n = Len(t)
  BY <1>2 DEF Texts
<1>4. n >= 1 /\ IsWord(t[1]) /\ IsWord(t[n]) /\ PrefixTokens(t) = {}
      /\ t[1] \notin Spaces /\ t[n] \notin Spaces
  BY <1>3 DEF IsTopic, Texts, IsWord
<1>5. v \in Texts /\ Len(v) = n + 1 /\ v[n + 1] = Mark /\ \A j \in 1..n : v[j] = t[j]
  <2>1. /\ t \o mk \in Texts /\ Len(t \o mk) = n + 1
        /\ \A j \in 1..n : (t \o mk)[j] = t[j]
        /\ \A j \in 1..1 : (t \o mk)[n + j] = mk[j]
    <3>1. t \in Seq(Symbols) /\ mk \in Seq(Symbols)
      BY <1>1, <1>2 DEF Texts
    <3>2. /\ t \o mk \in Seq(Symbols) /\ Len(t \o mk) = Len(t) + Len(mk)
          /\ \A j \in 1..Len(t) : (t \o mk)[j] = t[j]
          /\ \A j \in 1..Len(mk) : (t \o mk)[Len(t) + j] = mk[j]
      BY <3>1, ConcatShape
    <3>. QED  BY <1>1, <1>3, <3>2 DEF Texts
  <2>2. 1 \in 1..1
    OBVIOUS
  <2>. QED  BY <1>1, <2>1, <2>2
<1>. HIDE DEF v
<1>6. u \in Texts /\ Len(u) = n + 2 /\ u[1] = Blank /\ \A j \in 1..n + 1 : u[1 + j] = v[j]
  <2>1. /\ bl \o v \in Texts /\ Len(bl \o v) = 1 + (n + 1)
        /\ \A j \in 1..1 : (bl \o v)[j] = bl[j]
        /\ \A j \in 1..n + 1 : (bl \o v)[1 + j] = v[j]
    <3>1. /\ bl \o v \in Texts /\ Len(bl \o v) = Len(bl) + Len(v)
          /\ \A j \in 1..Len(bl) : (bl \o v)[j] = bl[j]
          /\ \A j \in 1..Len(v) : (bl \o v)[Len(bl) + j] = v[j]
      <4>1. bl \in Seq(Symbols) /\ v \in Seq(Symbols)
        BY <1>1, <1>5 DEF Texts
      <4>2. /\ bl \o v \in Seq(Symbols) /\ Len(bl \o v) = Len(bl) + Len(v)
            /\ \A j \in 1..Len(bl) : (bl \o v)[j] = bl[j]
            /\ \A j \in 1..Len(v) : (bl \o v)[Len(bl) + j] = v[j]
        BY <4>1, ConcatShape
      <4>. QED  BY <4>2 DEF Texts
    <3>. QED  BY <1>1, <1>5, <3>1
  <2>2. 1 \in 1..1 /\ 1 + (n + 1) = n + 2
    OBVIOUS
  <2>. QED  BY <1>1, <2>1, <2>2
<1>. HIDE DEF u
<1>7. /\ s \in Texts /\ Len(s) = l + n + 2 /\ \A i \in 1..l : s[i] = q[i]
      /\ \A j \in 1..n + 2 : s[l + j] = u[j]
  BY <1>2, <1>3, <1>6 DEF Texts
<1>. HIDE DEF s
<1>8. q \o <<Blank>> \o t \o <<Mark>> = s
  BY <1>1, <1>2, ConcatAssociative DEF s, u, v, bl, mk, Texts
<1>9. PrefixTokens(s) = 1..l
  <2>1. s[l + 1] = Blank /\ s[l + n + 2] = Mark
    <3>1. 1 \in 1..n + 2 /\ n + 2 \in 1..n + 2 /\ n + 1 \in 1..n + 1 /\ l + (n + 2) = l + n + 2
          /\ 1 + (n + 1) = n + 2
      OBVIOUS
    <3>. QED  BY <1>5, <1>6, <1>7, <3>1
  <2>2. ASSUME NEW j \in 1..n PROVE s[l + 1 + j] = t[j]
    <3>1. 1 + j \in 1..n + 2 /\ j \in 1..n + 1 /\ l + (1 + j) = l + 1 + j
      OBVIOUS
    <3>. QED  BY <1>5, <1>6, <1>7, <3>1
  <2>3. IsQuestion(s, q, t)
    BY <1>3, <1>7, <2>1, <2>2 DEF IsQuestion
  <2>. QED  BY <1>2, <1>3, <1>7, <2>3, PrefixOfQuestion
<1>10. StripQuestion(s) = u
  <2>. DEFINE keep == 1..Len(s) \ PrefixTokens(s)
              rest == 1..n + 2
  <2>1. KeptAfter(rest, q, u, keep)
    <3>1. ASSUME NEW j \in 1..n + 2 PROVE l + j \in keep
      BY <1>7, <1>9
    <3>. QED  BY <1>3, <1>6, <3>1 DEF KeptAfter
  <2>2. \A i \in 1..Len(q) : i \notin keep
    BY <1>3, <1>9
  <2>3. \A i \in 1..Len(u) : i \in rest
    BY <1>6
  <2>. HIDE DEF keep, rest
  <2>4. At(q \o u, keep) = At(q, keep) \o At(u, rest)
    BY <1>2, <1>6, <2>1, AtJoin DEF Texts
  <2>5. At(q, keep) = <<>> /\ At(u, rest) = u
    BY <1>2, <1>6, <2>2, <2>3, AtNone, AtAll DEF Texts
  <2>6. <<>> \o u = u
    BY <1>6 DEF Texts
  <2>. QED  BY <2>4, <2>5, <2>6 DEF StripQuestion, keep, s
<1>11. Strip(u) = v
  <2>. DEFINE keep == {i \in 1..Len(u) : /\ \E j \in 1..i : u[j] \notin Spaces
                                         /\ \E j \in i..Len(u) : u[j] \notin Spaces}
              rest == 1..n + 1
  <2>1. u[2] \notin Spaces /\ u[n + 2] \notin Spaces
    <3>1. 1 \in 1..n /\ 1 \in 1..n + 1 /\ n + 1 \in 1..n + 1 /\ 1 + (n + 1) = n + 2 /\ 1 + 1 = 2
      BY <1>4
    <3>2. Mark \notin Spaces
      BY DEF Mark, Blank, NewLine, Spaces
    <3>. QED  BY <1>4, <1>5, <1>6, <3>1, <3>2
  <2>2. KeptAfter(rest, bl, v, keep)
    <3>1. ASSUME NEW j \in 1..n + 1 PROVE 1 + j \in keep
      <4>1. 1 + j \in 1..Len(u) /\ 2 \in 1..1 + j /\ n + 2 \in 1 + j..Len(u)
        BY <1>6
      <4>. QED  BY <2>1, <4>1
    <3>. QED  BY <1>1, <1>5, <3>1 DEF KeptAfter
  <2>3. \A i \in 1..Len(bl) : i \notin keep
    <3>1. 1 \notin keep
      BY <1>6 DEF Spaces
    <3>. QED  BY <1>1, <3>1
  <2>4. \A i \in 1..Len(v) : i \in rest
    BY <1>5
  <2>. HIDE DEF keep, rest
  <2>5. At(bl \o v, keep) = At(bl, keep) \o At(v, rest)
    BY <1>1, <1>5, <2>2, AtJoin DEF Texts
  <2>6. At(bl, keep) = <<>> /\ At(v, rest) = v
    BY <1>1, <1>5, <2>3, <2>4, AtNone, AtAll DEF Texts
  <2>7. <<>> \o v = v
    BY <1>5 DEF Texts
  <2>. QED  BY <2>5, <2>6, <2>7 DEF Strip, keep, u
<1>12. StripPunct(v) = StripPunct(t)
  <2>. DEFINE keep == {i \in 1..Len(v) : v[i] \notin Punct}
              own  == {i \in 1..Len(t) : t[i] \notin Punct}
  <2>1. KeptAfter({}, t, mk, keep)
    <3>1. n + 1 \notin keep
      BY <1>5 DEF Punct
    <3>. QED  BY <1>1, <1>3, <3>1 DEF KeptAfter
  <2>2. \A i \in 1..Len(t) : i \in keep <=> i \in own
    BY <1>3, <1>5
  <2>. HIDE DEF keep, own
  <2>3. At(t \o mk, keep) = At(t, keep) \o At(mk, {})
    BY <1>1, <1>2, <2>1, AtJoin DEF Texts
  <2>4. At(mk, {}) = <<>>
    BY <1>1, AtNone DEF Texts
  <2>5. At(t, keep) = At(t, own) /\ At(t, keep) \in Texts
    BY <1>2, <1>3, <2>2, AtCong, AtType DEF Texts
  <2>6. At(t, keep) \o <<>> = At(t, keep)
    BY <2>5 DEF Texts
  <2>. QED  BY <2>3, <2>4, <2>5, <2>6 DEF StripPunct, keep, own, v
<1>13. StripQuestion(t) = t
  BY <1>2, <1>4, AtAll DEF StripQuestion, Texts
<1>14. Strip(t) = t
  BY <1>2, <1>3, <1>4, StripSame
<1>. QED  BY <1>8, <1>10, <1>11, <1>12, <1>13, <1>14 DEF NormalizeKey

-----------------------------------------------------------------------------
(***************************************************************************)
(* The theorems.                                                           *)
(***************************************************************************)

\* What is typed and generated is text.
TextInv == prompt \in Texts /\ answer \in Texts /\ pieces \in Nat

\* The prompt and the model's text are sequences of tokens.
THEOREM TextsOnly == Spec => []TextInv
<1>1. Init => TextInv
  BY DEF Init, TextInv, Texts
<1>2. TextInv /\ [Next]_vars => TextInv'
  <2>. SUFFICES ASSUME TextInv, [Next]_vars PROVE TextInv'
    OBVIOUS
  <2>1. CASE Type
    <3>1. PICK tok \in Tokens : prompt' = Append(prompt, tok)
      BY <2>1 DEF Type
    <3>2. tok \in Symbols
      BY MCAssumption DEF Symbols
    <3>. QED  BY <2>1, <3>1, <3>2 DEF Type, TextInv, Texts
  <2>2. CASE Generate
    <3>1. PICK piece \in Pieces : answer' = answer \o piece
      BY <2>2 DEF Generate
    <3>2. piece \in Texts
      <4>1. piece \in Seq(STRING) /\ STRING \subseteq Symbols
        BY MCAssumption DEF Symbols
      <4>. QED  BY <4>1, SeqMonotone DEF Texts
    <3>. QED  BY <2>2, <3>1, <3>2 DEF Generate, TextInv, Texts
  <2>3. CASE UNCHANGED vars
    BY <2>3 DEF TextInv, vars
  <2>. QED  BY <2>1, <2>2, <2>3 DEF Next
<1>. QED  BY <1>1, <1>2, PTL DEF Spec

\* server.py normalize_key: no key holds punctuation or a run of blanks.
THEOREM KeysAreCompact == Spec => []KeyIsCompact
<1>1. TextInv => KeyIsCompact
  BY KeyCompact DEF TextInv, KeyIsCompact, Key
<1>. QED  BY <1>1, TextsOnly, PTL

\* server.py save_to_learned_db: a key that is saved is neither empty nor blank.
THEOREM SavedKeysNotBlank == Spec => []SavedKeyNotBlank
<1>1. TextInv => SavedKeyNotBlank
  BY SavedNotBlank DEF TextInv, SavedKeyNotBlank, Key
<1>. QED  BY <1>1, TextsOnly, PTL

\* server.py:99: a question about a topic and the topic have one key.
THEOREM QuestionsMatchTopics == Spec => []QuestionMatchesTopic
<1>1. TextInv => QuestionMatchesTopic
  BY QuestionKey DEF TextInv, QuestionMatchesTopic, Key
<1>. QED  BY <1>1, TextsOnly, PTL

\* server.py save_to_learned_db: normalizing the key a second time does not let small
\* talk pass.
THEOREM SmallTalkNeverSaved == Spec => []CasualNeverSaved
<1>1. TextInv => CasualNeverSaved
  BY CasualTwice DEF TextInv, CasualNeverSaved
<1>. QED  BY <1>1, TextsOnly, PTL

\* build_convo_reference.py:81: a scraped turn takes no hand-written reply away, but for
\* an acknowledgment of its own key that it turns into a greeting.
THEOREM ManualRepliesAreKept == Spec => []ManualRepliesKept
<1>1. TextInv => ManualRepliesKept
  <2>. SUFFICES ASSUME TextInv, NEW turn \in Turns
                PROVE  ReplyKept(Guide, ScrapedGuide[turn], ScrapedKey(turn), Key)
    BY DEF ManualRepliesKept, ReplyKept, Manual
  <2>1. ScrapedGuide[turn] = Scrape(Guide, turn, "scraped")
    BY DEF ScrapedGuide
  <2>. QED  BY <2>1, ScrapedKept
<1>. QED  BY <1>1, TextsOnly, PTL

\* clean_factual_output: the answer is a sentence of three words or more.
THEOREM AnswersAreSentences == Spec => []AnswerIsSentence
<1>1. TextInv => AnswerIsSentence
  <2>. SUFFICES ASSUME TextInv PROVE AnswerIsSentence
    OBVIOUS
  <2>1. Stable(Answer) /\ ~ (WordCount(Answer) < 3)
    BY AnswerStable DEF TextInv, Answer
  <2>2. WordCount(Answer) \in Nat
    BY <2>1, WordCountBound DEF Stable
  <2>3. Last(Answer) = Stop
    BY <2>1 DEF Stable, Last
  <2>. QED  BY <2>1, <2>2, <2>3 DEF AnswerIsSentence
<1>. QED  BY <1>1, TextsOnly, PTL

\* server.py:453, 202, 408: cleaning a cleaned answer again leaves it as it is, unless
\* it shows a marker.
THEOREM LearnedIsShown == Spec => []LearnedShownUnchanged
<1>1. TextInv => LearnedShownUnchanged
  <2>. SUFFICES ASSUME TextInv PROVE LearnedShownUnchanged
    OBVIOUS
  <2>1. Stable(Answer) /\ ~ (WordCount(Answer) < 3)
    BY AnswerStable DEF TextInv, Answer
  <2>. QED  BY <2>1, StableUnchanged DEF LearnedShownUnchanged
<1>. QED  BY <1>1, TextsOnly, PTL

\* server.py:256-260: no "context:" is shown, and nothing from one on has a say in the
\* answer, unless a marker was open.
THEOREM ContextNotEchoed == Spec => []NoEchoedContext
<1>1. TextInv => NoEchoedContext
  <2>. SUFFICES ASSUME TextInv PROVE NoEchoedContext
    OBVIOUS
  <2>1. NoContext(Answer)
    BY AnswerStable DEF TextInv, Answer, Stable
  <2>2. ~ Occurs(Context, Answer)
    BY <2>1 DEF NoContext, Occurs
  <2>3. ASSUME NEW i \in 1..Len(answer), OccursAt(Context, answer, i),
               NoMarkerOpen(SubSeq(answer, 1, i - 1))
        PROVE  Answer = CleanFactualOutput(SubSeq(answer, 1, i - 1))
    BY <2>3, EchoCut DEF TextInv, Answer
  <2>. QED  BY <2>2, <2>3 DEF NoEchoedContext
<1>. QED  BY <1>1, TextsOnly, PTL

\* server.py:262-285, 451: once a usable sentence is complete and no marker is open, what
\* the model goes on to write does not change the answer.
THEOREM SettledAnswersStay == Spec => []SettledAnswerStays
<1>1. TextInv => SettledAnswerStays
  <2>. SUFFICES ASSUME TextInv, NEW n \in 0..Len(answer), Settled(SubSeq(answer, 1, n))
                PROVE  Answer = CleanFactualOutput(SubSeq(answer, 1, n))
    BY DEF SettledAnswerStays
  <2>. DEFINE p == SubSeq(answer, 1, n)
              q == SubSeq(answer, n + 1, Len(answer))
  <2>1. p \in Texts /\ q \in Texts /\ answer = p \o q
    BY SplitAt DEF TextInv
  <2>. HIDE DEF p, q
  <2>2. CleanFactualOutput(p \o q) = CleanFactualOutput(p)
    BY <2>1, SettledStays DEF p
  <2>. QED  BY <2>1, <2>2 DEF Answer, p
<1>. QED  BY <1>1, TextsOnly, PTL

-----------------------------------------------------------------------------
(***************************************************************************)
(* What KBServer assumes of the text functions.                            *)
(***************************************************************************)

\* The constants of KBServer with the functions of server.py as their values.
Norm       == [t \in Texts |-> NormalizeKey(t)]
CasualKeys == {t \in Texts : CasualKey(t)}
Clean      == [t \in Texts |-> CleanFactualOutput(t)]

\* KeyAssumption and AnswerAssumption of KBServer hold of normalize_key,
\* is_casual_prompt and clean_factual_output (server.py:96-116, 247), for all texts.
THEOREM ServerAssumptionsMet ==
  /\ Norm \in [Texts -> Texts]
  /\ CasualKeys \subseteq Texts
  /\ \A t \in Texts : Norm[t] \in CasualKeys => Norm[Norm[t]] \in CasualKeys
  /\ Clean \in [Texts -> Texts]
<1>1. \A t \in Texts : NormalizeKey(t) \in Texts
  BY KeyCompact
<1>2. \A t \in Texts : CleanFactualOutput(t) \in Texts
  BY AnswerStable DEF Stable
<1>3. ASSUME NEW t \in Texts, Norm[t] \in CasualKeys PROVE Norm[Norm[t]] \in CasualKeys
  <2>1. Norm[t] = NormalizeKey(t) /\ Norm[t] \in Texts
    BY <1>1 DEF Norm
  <2>2. Norm[Norm[t]] = NormalizeKey(NormalizeKey(t)) /\ Norm[Norm[t]] \in Texts
    BY <1>1, <2>1 DEF Norm
  <2>3. IsCasual(t)
    BY <1>3, <2>1 DEF CasualKeys, IsCasual
  <2>4. CasualKey(NormalizeKey(NormalizeKey(t)))
    BY <2>3, CasualTwice DEF AcceptsKey, IsCasual
  <2>. QED  BY <2>2, <2>4 DEF CasualKeys
<1>. QED  BY <1>1, <1>2, <1>3 DEF Norm, CasualKeys, Clean
=============================================================================
