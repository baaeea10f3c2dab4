------------------------------ MODULE TextKeys ------------------------------
(***************************************************************************)
(* How server.py turns what a user types into a knowledge-base key, and    *)
(* how it tells small talk and challenges from questions.                  *)
(*                                                                         *)
(* A text is a sequence of tokens: a piece of a word, white space, Apos    *)
(* ('), Mark (any other mark of the class ["?!.,;:]) or Sign (what is      *)
(* neither dropped nor part of a word, like %, - and parentheses).  Pieces *)
(* with nothing between them are one word, and no piece is made of others, *)
(* so a text has one spelling: "whats" is "what" and "s".  Letter case is  *)
(* left out: the prefix pattern is case-insensitive and the result is      *)
(* lower-cased.                                                            *)
(***************************************************************************)
EXTENDS TokenText

Apos  == "'"
Mark  == "?"
Sign  == "%"

Punct == {Apos, Mark}

\* \w, the class of characters that \b looks for.
IsWord(tok) == tok \notin Punct \cup Spaces \cup {Sign}

-----------------------------------------------------------------------------
(***************************************************************************)
(* normalize_key.                                                          *)
(***************************************************************************)

\* \b p \b is found in s at position i.  All patterns begin and end with a piece of a
\* word.
FoundAt(p, s, i) ==
  /\ OccursAt(p, s, i)
  /\ ~ (i > 1 /\ IsWord(s[i - 1]))
  /\ ~ (i + Len(p) <= Len(s) /\ IsWord(s[i + Len(p)]))

\* The alternatives of the pattern \b(what is|what's|who is|who's|define|explain)\b.
\* Two matches never overlap: only the first token of an alternative can begin one.
QuestionPrefixes ==
  {<<"what", Blank, "is">>, <<"what", Apos, "s">>,
   <<"who", Blank, "is">>,  <<"who", Apos, "s">>,
   <<"define">>, <<"explain">>}

\* The positions of s that a match of the pattern covers.
PrefixTokens(s) ==
  {i \in 1..Len(s) : \E p \in QuestionPrefixes, j \in 1..i :
                       i < j + Len(p) /\ FoundAt(p, s, j)}

\* re.sub of the prefixes by nothing.
StripQuestion(s) == At(s, 1..Len(s) \ PrefixTokens(s))

\* re.sub of the marks by nothing: two words with only marks between them become one.
StripPunct(s) == At(s, {i \in 1..Len(s) : s[i] \notin Punct})

\* Faulty variant: blanks are collapsed before the punctuation between them is dropped.
CollapseTooEarly(s) == StripPunct(CollapseBlanks(Strip(StripQuestion(s))))

\* Faulty variant: the ends are stripped before the question prefix is removed.
StripTooEarly(s) == CollapseBlanks(StripPunct(StripQuestion(Strip(s))))

\* strip() runs before the punctuation goes, so a blank next to a mark stays at the edge.
NormalizeKey(s) == CollapseBlanks(StripPunct(Strip(StripQuestion(s))))

-----------------------------------------------------------------------------
(***************************************************************************)
(* is_casual_prompt and is_challenge_prompt.                               *)
(***************************************************************************)

\* CASUAL_PATTERNS: those anchored at the start, and those found anywhere.  The
\* alternatives with an apostrophe are there, but no key can contain one.
CasualOpenings ==
  {<<"hi">>, <<"hello">>, <<"hey">>, <<"yo">>, <<"s", "up">>, <<"good", Blank, "morning">>,
   <<"good", Blank, "evening">>, <<"good", Blank, "afternoon">>, <<"thank", "s">>,
   <<"thank", Blank, "you">>, <<"cool">>, <<"nice">>, <<"okay">>, <<"ok">>, <<"ready">>,
   <<"proceed">>, <<"doing", Blank, "great">>, <<"let", "s", Blank, "start">>}

CasualPhrases ==
  {how \o <<Blank>> \o whom :
     how \in {<<"how", Blank, "is">>, <<"how", Blank, "are">>, <<"how", Apos, "s">>},
     whom \in {<<"you">>, <<"your", Blank, "day">>, <<"it", Blank, "going">>}}
  \cup {<<"what", Apos, "s", Blank, "up">>, <<"what", "s", Blank, "up">>}

\* CHALLENGE_PATTERNS.
ChallengePhrases ==
  {<<"are", Blank, "you", Blank, w>> : w \in {"sure", "certain"}}
  \cup {<<"is", Blank, "that", Blank, w>> : w \in {"correct", "right", "true"}}
  \cup {that \o <<Blank, w>> : that \in {<<"that", Blank, "is">>, <<"that", Apos, "s">>},
                               w \in {"not", "wrong", "incorrect"}}
  \cup {<<"you", Blank, "made", Blank, "a", Blank, "mistake">>,
        <<"you", Blank, "are", Blank, "wrong">>}

\* Whether an already normalized text is small talk.
CasualKey(k) ==
  \/ k = <<>>
  \/ \E p \in CasualOpenings : FoundAt(p, k, 1)
  \/ \E p \in CasualPhrases, i \in 1..Len(k) : FoundAt(p, k, i)

IsCasual(s)    == CasualKey(NormalizeKey(s))
IsChallenge(s) ==
  \E p \in ChallengePhrases, i \in 1..Len(NormalizeKey(s)) : FoundAt(p, NormalizeKey(s), i)

\* Faulty variant: the gate of save_to_learned_db looks at the key as it is.
AcceptsKeyOnce(s) == ~ CasualKey(NormalizeKey(s))

\* Faulty variant: the gate only refuses a key that is empty.
AcceptsNonEmptyKey(s) == NormalizeKey(NormalizeKey(s)) # <<>>

\* The first gate of save_to_learned_db: is_casual_prompt(clean_key) normalizes
\* the key a second time.
AcceptsKey(s) == ~ IsCasual(NormalizeKey(s))
=============================================================================
