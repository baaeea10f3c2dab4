---------------------------- MODULE OutputGuard ----------------------------
(***************************************************************************)
(* clean_factual_output (server.py): what is left of the model's raw text, *)
(* or of a stored answer, when it is shown or learned.                     *)
(*                                                                         *)
(* Tokens: Stop (. ! or ?), white space, <, |, >, a colon, Cjk (a          *)
(* character between U+4E00 and U+9FFF), and any other token, a piece of a *)
(* word.  Pieces with nothing between them are one word.  Letter case is   *)
(* left out.                                                               *)
(***************************************************************************)
EXTENDS TokenText

Stop  == "."
Open  == "<"
Bar   == "|"
Close == ">"
Colon == ":"
Cjk   == "cjk"

Context == <<"context", Colon>>

\* preamble_patterns and noise_tokens, with the one space they ask for between words.
Preambles ==
  {<<"i", Blank, "will">>, <<"here", Blank, "is">>, <<"i", Blank, "am", Blank, "going">>,
   <<"let", Blank, "me">>, <<"sure">>, <<"okay">>,
   <<"the", Blank, "answer", Blank, "is">>}
Noise ==
  {Context, <<"http">>, <<"www">>, <<"thomas", Blank, "paine">>, <<"plato">>, <<"history">>,
   <<"coined">>}

\* "I need a bit more specific context to answer that accurately."
Fallback ==
  <<"i", Blank, "need", Blank, "a", Blank, "bit", Blank, "more", Blank, "specific",
    Blank, "context", Blank, "to", Blank, "answer", Blank, "that", Blank,
    "accurately", Stop>>

-----------------------------------------------------------------------------
\* A match of <\|.*?\|> may start at i ...
Opens(s, i) == OccursAt(<<Open, Bar>>, s, i)

\* ... and end at these positions: the dot stands for no line break.
MarkerEnds(s, i) ==
  {j \in i + 3..Len(s) : /\ s[j-1] = Bar /\ s[j] = Close
                         /\ \A k \in i + 2..j - 2 : s[k] # NewLine}

\* The last position of the matches that start up to n, when before is the last one of
\* those that start before n.
LastMatched(s, n, before) ==
  IF Opens(s, n) /\ n > before /\ MarkerEnds(s, n) # {} THEN Min(MarkerEnds(s, n)) ELSE before

\* re.sub of the markers by nothing, from left to right.  What is left is not searched
\* again.
StripMarkers(s) ==
  LET past[n \in 0..Len(s)] == IF n = 0 THEN 0 ELSE LastMatched(s, n, past[n - 1])
  IN  At(s, {n \in 1..Len(s) : n > past[n]})

\* re.sub of the CJK characters by nothing.
StripCjk(s) == At(s, {i \in 1..Len(s) : s[i] # Cjk})

\* Both, one after the other.
StripTags(s) == StripCjk(StripMarkers(s))

\* Faulty variant: only the phrase itself is dropped.
DropContextWord(s) == At(s, {i \in 1..Len(s) : ~ OccursAt(Context, s, i)
                                               /\ ~ (i > 1 /\ OccursAt(Context, s, i - 1))})

\* Everything from the first "context:" on is dropped.
CutContext(s) ==
  LET found == {i \in 1..Len(s) : OccursAt(Context, s, i)}
  IN  IF found = {} THEN s ELSE SubSeq(s, 1, Min(found) - 1)

-----------------------------------------------------------------------------
\* re.findall(r'[^.!?]+[.!?]?', s): a sentence starts at the first token after a
\* run of stops (or at the start) and takes at most one stop.
SentenceStarts(s) ==
  {i \in 1..Len(s) : s[i] # Stop /\ (i = 1 \/ s[i-1] = Stop)}

SentenceAt(s, i) == At(s, {j \in i..Len(s) : \A k \in i..j - 1 : s[k] # Stop})

\* A sentence the loop appends to valid_sentences.
Usable(sentence) ==
  LET clean == Strip(sentence)
  IN  /\ clean # <<>>
      /\ \A p \in Preambles : ~ OccursAt(p, clean, 1)
      /\ \A p \in Noise : ~ Occurs(p, clean)

\* Faulty variant: a preamble is cut off the sentence instead of ruling it out.
ChosenWithoutPreamble(s) ==
  LET starts == SentenceStarts(s)
      first  == IF starts = {} THEN s ELSE Strip(SentenceAt(s, Min(starts)))
  IN  At(first, {i \in 1..Len(first) :
                   \A p \in Preambles : OccursAt(p, first, 1) => i > Len(p)})

\* Faulty variant: the last usable sentence.
ChosenLast(s) ==
  LET starts == SentenceStarts(s)
      usable == {i \in starts : Usable(SentenceAt(s, i))}
  IN  IF usable # {} THEN Strip(SentenceAt(s, Max(usable)))
      ELSE IF starts # {} THEN Strip(SentenceAt(s, Min(starts)))
      ELSE s

\* The first usable sentence; the first one if none is usable; else the text itself.
Chosen(s) ==
  LET starts == SentenceStarts(s)
      usable == {i \in starts : Usable(SentenceAt(s, i))}
  IN  IF usable # {} THEN Strip(SentenceAt(s, Min(usable)))
      ELSE IF starts # {} THEN Strip(SentenceAt(s, Min(starts)))
      ELSE s

\* re.sub(r'\s{2,}', ' ', s): a line break on its own stays.
SqueezeSpaces(s) ==
  At([i \in 1..Len(s) |-> IF i < Len(s) /\ {s[i], s[i+1]} \subseteq Spaces THEN Blank
                          ELSE s[i]], RunHeads(s))

\* The full stop is added to a text that does not end in one.
EndSentence(s) == IF s # <<>> /\ Last(s) # Stop THEN Append(s, Stop) ELSE s

\* Faulty variant: only an empty answer is replaced.
FallbackIfEmpty(s) == IF s = <<>> THEN Fallback ELSE s

\* Fewer than three words is no answer.
FallbackIfShort(s) == IF WordCount(s) < 3 THEN Fallback ELSE s

CleanFactualOutput(s) ==
  FallbackIfShort(EndSentence(Strip(SqueezeSpaces(Chosen(CutContext(StripTags(s)))))))
=============================================================================
