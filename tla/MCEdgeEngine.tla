---------------------------- MODULE MCEdgeEngine ----------------------------
(***************************************************************************)
(* A small engine with its tokenizer: a window of three, four tokens, four *)
(* turns.  A client may send any text of at most MaxLen characters.        *)
(***************************************************************************)
EXTENDS EdgeEngine, Tokenizer

CONSTANTS Letters, MaxLen

\* Lines: an entry with the id of the padding, two words that follow a space (one
\* line ends in a carriage return, one is repeated), the stop token, and a word
\* that does not follow one.
Vocab == LoadVocab(<<<<"u">>, <<Mark, "a", CR>>, <<"e">>, <<"b">>, <<Mark, "a", "b">>, <<"a">>,
                     <<Mark, "a">>>>)

MCPrompts == UNION {[1..n -> Letters \cup {Space}] : n \in 0..MaxLen}

MCEncoding == [p \in MCPrompts |-> Encode(Vocab, p)]

\* The engine and its tokenizer: prompts are texts, and their ids are those of encode.
\* The entry with the id of the padding is no word that follows a space.
ASSUME MCAssumption ==
  /\ MaxLen \in Nat
  /\ Prompts \subseteq Seq(Letters \cup {Space})
  /\ Encoding = [p \in Prompts |-> Encode(Vocab, p)]
  /\ Mark # "u"

MCNoPrompt == <<"none", "none">>

MCLevels == {NaN, -2, 0, 1}
MCFloor  == -1

-----------------------------------------------------------------------------
\* Spaces only separate: cutting a prompt at a space cuts its ids, and a part
\* without words adds none -- so where a user puts spaces never moves the window of
\* the engine (tokenizer.h:49-61).
SpacesOnlySeparate ==
  prompt # NoPrompt =>
    \A i \in {i \in DOMAIN prompt : prompt[i] = Space} :
      LET left  == SubSeq(prompt, 1, i - 1)
          right == SubSeq(prompt, i + 1, Len(prompt))
      IN  CASE Words(left) = <<>>  -> Encoding[prompt] = Encode(Vocab, right)
            [] Words(right) = <<>> -> Encoding[prompt] = Encode(Vocab, left)
            [] OTHER -> Encoding[prompt] = Encode(Vocab, left) \o Encode(Vocab, right)

\* What the engine is given is what was typed: a prompt without markers of its own,
\* whose words all have an entry with the marker, decodes to itself, a space before
\* each word (tokenizer.h:40 looks those entries up first).
MarkedWordsSurvive ==
  LET words == Words(prompt)
  IN  (/\ prompt # NoPrompt /\ words # <<>> /\ Mark \notin ToSet(prompt)
       /\ \A n \in DOMAIN words : IdsOf(Vocab, <<Mark>> \o words[n]) # {})
        => /\ Decode(Vocab, Encoding[prompt])
                = FlattenSeq([n \in DOMAIN words |-> <<Space>> \o words[n]])
           /\ Unknown \notin ToSet(Encoding[prompt])
=============================================================================
