----------------------------- MODULE Tokenizer -----------------------------
(***************************************************************************)
(* tokenizer.h: SimpleSSMTokenizer.  A text is a sequence of characters;   *)
(* Space, Mark (the marker of a word that follows a space) and CR are      *)
(* told apart from the rest.  A vocabulary is the sequence of its lines;   *)
(* the id of a line is its position, from zero.                            *)
(***************************************************************************)
EXTENDS Subsequences, SequencesExt

CONSTANTS Space, Mark, CR

ASSUME CharAssumption == Space # Mark /\ Space # CR /\ Mark # CR

Unknown == 0       \* the id of a word without an entry
Hello   == 15496   \* the only id of a text without words

\* load_vocab: a line loses one carriage return at its end.
LoadVocab(file) ==
  [n \in DOMAIN file |->
     IF file[n] # <<>> /\ Last(file[n]) = CR THEN Front(file[n]) ELSE file[n]]

-----------------------------------------------------------------------------
\* The words of a text: its maximal runs without a space.
WordStarts(text) ==
  {i \in DOMAIN text : text[i] # Space /\ (i = 1 \/ text[i - 1] = Space)}

\* The characters from i on, up to the next space.
WordAt(text, i) == At(text, {j \in i..Len(text) : \A k \in i..j : text[k] # Space})

\* Faulty variant: every space ends a word, also one that follows another.
WordsAtSpaces(text) ==
  At([i \in DOMAIN text |-> WordAt(text, i)],
     WordStarts(text) \cup {i \in DOMAIN text : text[i] = Space})

Words(text) == At([i \in DOMAIN text |-> WordAt(text, i)], WordStarts(text))

-----------------------------------------------------------------------------
\* The ids of an entry; of a repeated line, the last one is what token_to_id holds.
IdsOf(vocab, entry) == {n - 1 : n \in {n \in DOMAIN vocab : vocab[n] = entry}}

IdOf(vocab, entry) ==
  CHOOSE id \in IdsOf(vocab, entry) : \A other \in IdsOf(vocab, entry) : other <= id

\* Faulty variant: the entry without the marker is looked up first.
TokenIdPlainFirst(vocab, word) ==
  IF IdsOf(vocab, word) # {} THEN IdOf(vocab, word)
  ELSE IF IdsOf(vocab, <<Mark>> \o word) # {} THEN IdOf(vocab, <<Mark>> \o word)
  ELSE Unknown

\* The entry with the marker is looked up first, then the one without.
TokenId(vocab, word) ==
  IF IdsOf(vocab, <<Mark>> \o word) # {} THEN IdOf(vocab, <<Mark>> \o word)
  ELSE IF IdsOf(vocab, word) # {} THEN IdOf(vocab, word)
  ELSE Unknown

\* encode.
Encode(vocab, text) ==
  LET words == Words(text)
  IN  IF words = <<>> THEN <<Hello>>
      ELSE [n \in 1..Len(words) |-> TokenId(vocab, words[n])]

\* decode: ids without an entry are skipped, and markers become spaces.
Unmark(entry) == [i \in DOMAIN entry |-> IF entry[i] = Mark THEN Space ELSE entry[i]]

Decode(vocab, ids) ==
  FlattenSeq([n \in DOMAIN ids |->
                IF ids[n] < Len(vocab) THEN Unmark(vocab[ids[n] + 1]) ELSE <<>>])
=============================================================================
