------------------------------- MODULE MCText -------------------------------
(***************************************************************************)
(* The text functions of server.py on every prompt of at most MaxTokens    *)
(* tokens, typed token by token, and on every answer of at most MaxPieces  *)
(* pieces, generated piece by piece.                                       *)
(***************************************************************************)
EXTENDS SocialReply, OutputGuard

CONSTANTS
  Tokens, MaxTokens,
  Pieces, MaxPieces,
  Guide,            \* the social guide as written by hand
  Turns             \* turns of dialogues that the scraper may find

EntriesIn(guide) == ToSet(guide.greetings) \cup ToSet(guide.acknowledgments)

ASSUME MCAssumption ==
  /\ MaxTokens \in Nat /\ MaxPieces \in Nat
  /\ Tokens \subseteq STRING
  /\ Pieces \subseteq Seq(STRING)
  /\ Guide \in [greetings : Seq(EntriesIn(Guide)), acknowledgments : Seq(EntriesIn(Guide))]

MCPieces == {<<"a", Blank, "b", Blank, "c">>, <<Blank>>, <<NewLine>>, <<Stop>>,
             <<Open, Bar>>, <<Bar, Close>>, <<Open, Cjk, Bar>>,
             Context, <<"i", Blank, "will">>, <<"history">>}

\* "hi up" is an acknowledgment that the scraper takes for a greeting.
MCGuide ==
  [greetings       |-> <<Entry(<<"hi">>, "greet")>>,
   acknowledgments |-> <<Entry(<<"what", "s", Blank, "up">>, "rise"),
                         Entry(<<"hi", Blank, "up">>, "jump"), Entry(<<"hi">>, "again")>>]

\* "hi up ?", "what's up?", "is hi", "what is", and one that is too short.
MCTurns ==
  {<<"hi", Blank, "up", Blank, Mark>>, <<"what", Apos, "s", Blank, "up", Mark>>,
   <<"is", Blank, "hi">>, <<"what", Blank, "is", Blank>>, <<"s">>}

\* The characters of a key, for keys whose tokens are spelled as they are.
MCFits(key) ==
  LET size == FoldLeft(LAMBDA n, tok : n + Len(tok), 0, key)
  IN  4 <= size /\ size <= 60

VARIABLES prompt, answer, pieces

vars == <<prompt, answer, pieces>>

Init == prompt = <<>> /\ answer = <<>> /\ pieces = 0

Type ==
  /\ Len(prompt) < MaxTokens /\ answer = <<>>
  /\ \E tok \in Tokens : prompt' = Append(prompt, tok)
  /\ UNCHANGED <<answer, pieces>>

Generate ==
  /\ pieces < MaxPieces /\ prompt = <<>>
  /\ \E piece \in Pieces : answer' = answer \o piece
  /\ pieces' = pieces + 1
  /\ UNCHANGED prompt

Next == Type \/ Generate

Spec == Init /\ [][Next]_vars

-----------------------------------------------------------------------------
Key == NormalizeKey(prompt)

\* A key holds no punctuation and no white space but single blanks: what the exact
\* lookup and the UNIQUE constraint of the table rely on (server.py normalize_key).
IsCompact(k) ==
  \A i \in 1..Len(k) : /\ k[i] \notin Punct \cup {NewLine}
                       /\ i > 1 => ~ (k[i] = Blank /\ k[i-1] = Blank)

KeyIsCompact == IsCompact(Key)

\* A key that passes the gate of save_to_learned_db is neither empty nor blank: such a
\* key would occur in every prompt that has a blank (server.py:174, 204).
SavedKeyNotBlank == AcceptsKey(prompt) => \E i \in 1..Len(Key) : Key[i] # Blank

\* A topic: starts and ends with a word, and no question prefix in it.
IsTopic(s) == /\ s # <<>>
              /\ IsWord(s[1]) /\ IsWord(s[Len(s)])
              /\ PrefixTokens(s) = {}

\* server.py:99: a question about a topic has the topic's key -- when the mark
\* follows the last word at once.
QuestionMatchesTopic ==
  IsTopic(prompt) =>
    LET key == Key
    IN  \A p \in QuestionPrefixes : NormalizeKey(p \o <<Blank>> \o prompt \o <<Mark>>) = key

\* What the chat handler takes for small talk is never learned.
CasualNeverSaved == IsCasual(prompt) => ~ AcceptsKey(prompt)

-----------------------------------------------------------------------------
Manual == KeysIn(Guide.greetings) \cup KeysIn(Guide.acknowledgments)

ScrapedKey(turn) == NormalizeText(CleanTurn(turn))

\* The guides that one scraped turn may make of the one written by hand.
ScrapedGuide == [turn \in Turns |-> Scrape(Guide, turn, "scraped")]

\* build_convo_reference.py:81: what is scraped leaves the hand-written replies as they
\* are.  A prompt that has a hand-written key gets that entry's reply as before, unless
\* the turn has the same key, the key is that of an acknowledgment, and the scraper takes
\* it for a greeting, where server.py:132 looks first.  A prompt that got the reply of a
\* near entry gets it as before, unless the turn has its key or a hand-written one, or is
\* taken for a greeting and no hand-written greeting was near.
ManualRepliesKept ==
  LET key == Key
      before == Reply(Guide, key)
  IN  \A turn \in Turns :
        \/ Reply(ScrapedGuide[turn], key) = before
        \/ /\ key \in Manual
           /\ ScrapedKey(turn) = key /\ Greets(key) /\ key \notin KeysIn(Guide.greetings)
        \/ /\ key \notin Manual
           /\ \/ before = Otherwise
              \/ ScrapedKey(turn) \in Manual \cup {key}
              \/ Greets(ScrapedKey(turn)) /\ Near(Guide.greetings, key) = {}

-----------------------------------------------------------------------------
Answer == CleanFactualOutput(answer)

\* The answer is always a sentence of three words or more, whatever the model wrote
\* (server.py:287-293).
AnswerIsSentence == WordCount(Answer) >= 3 /\ Last(Answer) = Stop

\* An answer that shows no marker is shown as it was learned: the chat handler cleans
\* the text it generated, save_to_learned_db cleans it again, and a later
\* knowledge-base hit cleans it a third time (server.py:453, 202, 408).
LearnedShownUnchanged == StripMarkers(Answer) = Answer => CleanFactualOutput(Answer) = Answer

\* Without its markers the text has no "<" left, with which a marker could begin that
\* ends later.
NoMarkerOpen(s) == Open \notin ToSet(StripMarkers(s))

\* "context:" never reaches the answer, and what the model wrote from it on has no say in
\* the answer, unless a marker was open (server.py:256-260).
NoEchoedContext ==
  /\ ~ Occurs(Context, Answer)
  /\ \A i \in 1..Len(answer) :
       LET before == SubSeq(answer, 1, i - 1)
       IN  OccursAt(Context, answer, i) /\ NoMarkerOpen(before)
             => Answer = CleanFactualOutput(before)

\* A usable sentence is complete, and no marker is open.
Settled(s) ==
  LET body == CutContext(StripTags(s))
  IN  /\ NoMarkerOpen(s)
      /\ \E i \in SentenceStarts(body) :
           Usable(SentenceAt(body, i)) /\ Last(SentenceAt(body, i)) = Stop

\* Once the text settles the answer, what the model goes on to write does not change it:
\* where max_tokens cuts the text off makes no difference (server.py:262-285, 451).
SettledAnswerStays ==
  \A n \in 0..Len(answer) :
    LET before == SubSeq(answer, 1, n)
    IN  Settled(before) => Answer = CleanFactualOutput(before)
=============================================================================
