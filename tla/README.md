# Gutenberg SSM Edge Engine: TLA+ models, checks and proofs

This directory models the first-party code of the repository in TLA+. TLC checks the
models on small instances; TLAPS proves the most important properties for every value
of the constants. `PROJECT.json` lists the runs, the faulty variants each property must
catch, the lines each definition stands for, the hazards, the disagreements between the
code and its documentation, and the theorems.

## 1. Inventory

The repository is mostly vendored networking code (`crow_all.h`, `asio/`, `asio-master/`)
and data. Its own code is small: one Python server, one web page, one C++ engine, and
scripts that build and migrate the data.

| Component | State it keeps | Operations | Interacts with |
|---|---|---|---|
| Knowledge-base server, `server.py` | table `knowledge` of `gutenberg_kb.db`; `gutenberg_corrections.json` | `init_db`, `/api/kb/save`, `/api/kb/flag`, `/v1/chat/completions` | SQLite, the reference file, the model, the page |
| Prompt keys and intents, `server.py:44-116` | none (pure) | `normalize_key`, `is_casual_prompt`, `is_challenge_prompt` | every handler |
| Output guardrails, `server.py:247-295` | none (pure) | `clean_factual_output` | chat, save |
| Social replies, `server.py:121-147` | none; reads a JSON file | `get_social_response` | chat |
| Web snippets, `server.py:300-326` | none | `clean_search_query`, `search_web` | chat |
| Shared model, `server.py:348` | the context of one `Llama` object | `create_completion`, plain and streamed | worker threads, streams |
| Chat page, `index.html` | message history, buttons, connection status | send, read the stream, save, flag, poll | the three endpoints |
| C++ engine, `main.cpp` | locals of one request | the decoding loop | ONNX session, tokenizer |
| C++ tokenizer, `tokenizer.h` | two maps, filled once | `load_vocab`, `encode`, `decode` | C++ engine |
| Migration, `migrate_kb.py` | rebuilds `gutenberg_kb.db`, ChromaDB | drop, create, insert, index | the server's database |
| Reference builders, `build_*.py`, `download_wikipedia_kb.py` | the reference JSON files | read, fetch, write back | `init_db`, each other |
| ONNX scripts, `run_ssm.py`, `debug_model.py`, `check_model.py` | none | decoding loop, printing | ONNX session |
| Packaging | none | build, launch | - |

### How the server runs

The handlers are coroutines of one event loop. A handler gives the loop away only at
`await request.json()`, at `asyncio.to_thread` (plain chat) and at `asyncio.sleep` after
each chunk of a streamed chat. Everything in between runs without another handler in
between, but not without a crash in between: a flag rewrites the corrections file in
place and then deletes a row. `init_db` runs before anything is served, inserts the
whole reference file in one transaction, and falls back to two default rows.

### What is hard

- Crashes and failing calls between the two writes of a flag, and inside the rewriting of
  the corrections file.
- A chat that looked its key up, waits for the model, and learns its answer after the key
  was flagged.
- The order of rows: `INSERT OR REPLACE` gives a row a new id, and the fuzzy `LIKE`
  lookup answers from the first match.
- Text functions applied more than once (keys by the chat and again by the save gate,
  answers when generated, learned and looked up) that need not be idempotent, and regular
  expressions whose order, spaces and single passes decide what is left.
- Two dictionaries of the social guide, filled by hand and by a scraper, and read in an
  order of their own.
- Boots that repeat the loading of a file that was edited, cannot be read, or fails half
  way.
- In the C++ engine: windows, floors, NaN, and a loop that must end.
- On the page: several sends at their awaits at once, network chunks that end inside a
  line, connections that break, marks that outlive restarts of the server.
- Between programs: a migrator that drops and rebuilds the table under a server, and
  builders that read a file, fetch for minutes and write all of it back.

### What makes each component correct

- Server: a reported flag is honoured and a reported save is kept and answered, across
  crashes, reboots and failures; only sane rows are learned; every request is answered;
  the loaded file's facts are all there.
- Keys: compact, never empty or blank when saved; a question about a topic has the
  topic's key; small talk is never saved.
- Guardrails: an answer is a sentence of three words or more; without a marker in it, it is
  stable under cleaning again; it is free of echoed context, and does not depend on where
  the model was cut off once it is settled.
- C++ engine: the window is the last eight ids; the answer has no stop token; the loop ends.
- Tokenizer: spaces only separate; known words survive encoding and decoding.
- Social replies: what is scraped takes no hand-written reply away, except in the one way
  described below.
- Page: one answer per prompt, in order and whole unless the network cut a line; buttons
  only under answers; a prompt marked as saved keeps a row, and one marked as flagged is
  not answered from the table.
- Migration: no reader sees half a rebuild; an answer saved meanwhile is only replaced by
  a row of a file with its key; "complete" means complete.
- Builders: no tool takes out a fact it read, and one that has its file to itself loses
  none.

## 2. Modules

| Module | Models |
|---|---|
| `Subsequences`, `SubsequencesProofs` | what is left of a sequence when positions are dropped |
| `TokenText` | texts as sequences of tokens, `strip`, whitespace, words |
| `TextKeys` | `normalize_key`, the patterns, the key gate of `save_to_learned_db` |
| `OutputGuard` | `clean_factual_output`, the length gate of `save_to_learned_db` |
| `SocialReply` | `get_social_response`, and the scraper's cleaning, sorting and merging of a turn |
| `MCText`, `TextProofs` | types prompts token by token, and generates answers piece by piece, for these three |
| `KnowledgeTable`, `KnowledgeTableProofs` | the SQL statements as operators on a sequence of rows |
| `KBServer`, `MCKBServer`, `KBServerProofs` | `init_db` and the handlers |
| `KBContract` | what the knowledge base promises, without files, rows or handlers |
| `Tokenizer`, `TokenizerProofs` | `tokenizer.h` |
| `EdgeEngine`, `MCEdgeEngine`, `EdgeEngineProofs` | the request handler of `main.cpp` |
| `ChatPage`, `ChatPageProofs` | `index.html`, before a server that is `KBContract` |
| `RefBuilders` | the builders of the reference files, hand edits and interruptions |
| `Migration` | `migrate_kb.py` beside a server that boots, serves and dies |
| `Maintenance`, `MCMaintenance`, `MaintenanceProofs` | the two together: the builders write the file that the migrator and the boots read |

`KBServer` takes `Norm`, `CasualKeys`, `ChallengeKeys`, `Like`, `Clean` and `Short` as constants.
`MCKBServer` gives them values as tables of names, and its assumptions `KeyTables` and
`AnswerTables` check the tables against `TextKeys` and `OutputGuard`, so the three modules
compose; `ServerAssumptionsMet` of `TextProofs` shows that the functions themselves, on all
texts, are such constants. `KBContract` joins the server and the page: `KBServer` implements it,
and `ChatPage` moves its server by the contract's actions alone, so what is shown of the page
holds before any server that keeps the contract. In the same way `MCEdgeEngine` computes its
prompts' ids with `Tokenizer`, for every prompt up to a length.

### KBServer and the code

| State | Code |
|---|---|
| `table` | committed rows, in the order of their ids |
| `corrections` | the corrections file: absent, unreadable (`corrupt`), or its flagged keys |
| `phase`, `work`, `todo`, `loaded` | progress of `init_db`, the rows its connection sees, the facts left, the facts of the file |
| `pc`, `req`, `draft`, `raw`, `chunks`, `reply` | the handler of each connection: where it is, its request, the flags it has read, the generated text, chunks sent, its reply |
| `acked`, `saved`, `seen` | history: what clients were told, and when |

| Action | Code |
|---|---|
| `OpenDb`, `LoadFact`, `LoadFails`, `CommitFacts`, `Seed` | `init_db`, statement by statement |
| `Crash` | the process dies; only the database and the file survive |
| `Arrive`, `Deliver`, `Disconnect` | the request comes in; the reply reaches the client, or not |
| `Save` | `save_to_kb_endpoint` after its await |
| `FlagOpens`, `FlagWrites`, `FlagPurges` | `log_and_purge_correction`, cut where a crash or a failing call can cut it; `FlagRefused` and `FlagWriteFails` are its error paths |
| `ChatFails`, `ChatSocial`, `ChatKB`, `ChatModel` | the four ways `generate_response` goes up to its next await |
| `Think`, `ThinkFails`, `Learn` | the worker thread, and the handler after it |
| `StreamChunk`, `StreamEnd` | `event_generator` |

Abstractions: prompts, keys and answers are names. The words of a social reply, the
few-shot prompt and the web snippet are left out, since no state depends on them; the
model may generate any text of `RawOutputs`, or fail. An `HTTPException(400)` raised
inside the `try` becomes a 500, so both are `error`. The delay between the committing
of a boot's seeds and its end is one step.

### EdgeEngine and the code

One worker thread handles requests one after the other; threads share only the session
and the tokenizer's maps, which the handler reads. `ids` is `current_ids`, `generated` is
`generated_token_ids`; `Extend` is a turn of the loop, `Stop` and `Limit` its two ends,
`RunFails` an exception of `session.Run`, `Reject` a request without a usable prompt.
Any logits may come back, NaN and values below the floor included.

### ChatPage and the code

| State | Code |
|---|---|
| `history` | `messageHistory`: for each entry its role and the send it belongs to |
| `disabled` | `sendBtn.disabled`, which nothing consults when Enter is pressed |
| `reader`, `asked`, `shown`, `saveable` | each run of `handleSend`: where it is, `prompt`, `fullResponse` as the lines it came from, `isSaveable` |
| `bar`, `calls` | the buttons under each answer; the requests they made |
| `posted`, `source`, `stream`, `wire`, `said` | each chat request at the server: its last message, who answers, whether it is still written, the lines under way, how many were written |
| `known`, `flagged`, `damaged`, `answered` | the state of `KBContract` |
| `cut`, `seen` | history: whether a chunk ended inside a line; what was marked as flagged at each send |

`Send` is `handleSend` up to its first await, `Read` one turn of its loop, `Finish` and
`Fail` its two ends. A chunk is any prefix of the lines under way; if it ends inside a
line, neither half parses and that line is lost. `Refuse`, `Socialise`, `AnswerFromKB`
and `StartModel`, `Speak`, `Close` are the chat endpoint; a status of 500 has no data
lines, and the page does not look at the status. `ServeFlag` and `ServePurge` are the two
halves of a flag, between which the server may die. A restart breaks what is not
complete. Here a prompt is its own key, and the closing lines of a stream, which carry no
text and no `saveable`, are left out.

### RefBuilders, Migration and the code

`tool`, `data` and `todo` are where a builder is, its dictionary in memory and the topics
left; `file` is each JSON file, which is torn between the emptying and the writing of
`write_text`. `Start` reads, `Skip`, `Fetch` and `Merge` are the turns of the loops,
`OpenForWrite` and `Write` the end; `Kill` may come anywhere and `Edit` is a hand edit.
A fetch may fail, and a search may return an article with any title.

`Migration` cuts `migrate_kb.py` at its commits. `DROP` and `CREATE` are committed by
themselves, since the sqlite3 module opens a transaction only before an INSERT, UPDATE or
DELETE; the transaction begins with the first INSERT (`lock`, `work`) and ends with
`Complete`. `rows` says where each committed row comes from. A boot is cut at the same
places. `laid` is what an open transaction has inserted from a file, and `late` the
answers reported as saved that must still be there: it loses a key when the key is
flagged, when the table is dropped, and when a row of a file is committed under it.
Abstractions: keys are names, so `lower()` and `strip()` are left out; all facts
of a boot go in at once, inside its transaction; a handler's save or purge is one
transaction, and one that finds no table or a lock fails without effect; the migrator
inserts the other categories of the file like facts; a value that raises in the
migrator's loop is left out. `read` is what the file had when it was last whole: a torn
file makes the migrator fail, and it must not pass for an empty one.

### The text modules and the code

A text is a sequence of tokens: pieces of words, white space (a space, or any other), and
the marks a function looks for, single characters where a pattern is made of them. Pieces
with nothing between them are one word, so a pattern can be found inside a word, or not
found because a letter stands next to it, as in the code. `TextKeys` has `Punct` for the
class `['"?!.,;:]` that `normalize_key` drops and `Sign` for what is neither dropped nor
part of a word, such as `%`, `-` and parentheses; `_`, which `\b` counts as part of a
word, is a piece of one. In `OutputGuard` a
marker is its characters `<`, `|` and `|`, `>`: `StripMarkers` goes from left to right
once, a dot matches no line break, and `StripCjk` comes after it, so that a removal may
leave a marker that was not there before. The patterns of `Preambles` and `Noise` have the
one space they ask for and are tested before `SqueezeSpaces`. Left out: letter case, and
which mark a `Stop` or a `Mark` is.

A guide is its two dictionaries as sequences of entries. `Reply` is
`get_social_response` with a guide on disk: the two exact lookups, greetings first, then
the first entry, in the order of the merged dictionary, whose key holds the prompt's or is
held by it, with the acknowledgment's reply where both have the key, then a steerer. Which
random steerer is picked is not told apart. `Scrape` is what a run of the scraper that
found one turn makes of a guide: `CleanTurn` and `NormalizeText` give the key, `Fits` is
the gate of 4 to 60 characters, and `Greets` decides on the dictionary. That a reply has at
most 120 characters is assumed.

## 3. Runs

| Run | Bounds | Shows |
|---|---|---|
| `server` | 2 clients, 2 prompts (one key inside the other), a reference file with an empty value, 2 crashes | `FlagHonoured`, `SavedKept`, `SavedAnswered` |
| `faults` | 2 clients, a question and small talk, a one-word answer, missing fields, 3 kinds of reference file, 1 crash, failing SQLite and file writes | `SavedKept`, `LearnedRowsSane`, `FactsLoaded`, `ImplementsContract` |
| `liveness` | 2 clients, a challenge and a missing prompt, streams of one chunk, 1 crash | `EveryRequestAnswered` |
| `text` | all prompts of at most 5 tokens over 8 tokens; all answers of at most 4 pieces over 10 pieces, two of which are half a marker, and one a marker's beginning with a CJK character in it; a guide of four entries and five scraped turns | `KeyIsCompact`, `SavedKeyNotBlank`, `QuestionMatchesTopic`, `CasualNeverSaved`, `ManualRepliesKept`, `AnswerIsSentence`, `LearnedShownUnchanged`, `NoEchoedContext`, `SettledAnswerStays` |
| `engine` | all prompts of at most 5 characters over 4, a typed word marker among them, window 3, 4 ids, 4 turns | `OnlyTailCounts`, `ReportFits`, `SpacesOnlySeparate`, `MarkedWordsSurvive`, `EveryRequestAnswered` |
| `page` | 2 sends of a question or small talk, streams of at most one piece, 2 clicks, any number of restarts, refusals and breaks | `ButtonsUnderAnswers`, `MarkedKeysKept`, `MarkedFlagsHonoured` |
| `stream` | 2 sends, streams of at most 2 pieces, no clicks | `ShownInOrder`, `WholeUnlessCut`, `HistoryMatches`, `EverySendEnds` |
| `maintenance` | 2 keys, 3 tools, 2 files; 4 tools, edits, migrations and boots started, any of which may be interrupted; any saves and purges | `ToolsKeepWhatTheyRead`, `NothingLostAlone`, `AllOrNothing`, `LateSavesKept`, `CompleteMeansAll` |

Each run also has the type invariant of its module where no other run has it.

Why the bounds are enough. Two clients make every pair of handlers meet, and no handler reads
what a third could have left that a second could not. One crash reaches every point between two
writes; `server` has two, so that a boot can be cut after a crash. Two questions, one of whose
keys occurs in the other, are what exact and fuzzy lookups tell apart. The reference files of
`faults` are none, one that gives a key twice, and one whose second value cannot be bound. Five
tokens hold the longest prefix (three tokens) with a neighbour on each side. Four pieces hold a
sentence, its stop, and the two halves of a marker, or two sentences with a stop between them and
a preamble before one. The guide has one key in both dictionaries, which occurs in others, and an
acknowledgment that the scraper takes for a greeting; the turns are that one, another
acknowledgment, a new greeting, one whose key has a question prefix, and one that is too short.
The engine's window is shorter than, equal to and longer than its prompts, and the limit exceeds
the window, so that the whole prompt leaves it. Two sends make any two answers meet; two pieces
are what a cut can separate; two clicks are both buttons of one answer, one button twice, or one
button of each answer; the marks need no second piece, and the pieces no clicks, hence two runs.
One key of `maintenance` is in the files from the beginning, learned, and the title of an
article, the other is each tool's topic and the seed; four programs are a tool or an edit that
tears or changes the file, a migration, a boot, and one more between any two of them. `server`
and `faults` declare the clients symmetric; they check no liveness property.

### Disagreements the runs show

Each of these runs has one property, which states what a message or a comment says,
and a counterexample.

| Run | What the code does |
|---|---|
| `flag_lost` | a crash during the rewriting of the corrections file loses all flags, and no later flag can be logged |
| `boot_empty` | a value that cannot be bound leaves a fresh database without rows and without the defaults |
| `stream_unlearned` | streamed answers are not learned, and the page only streams |
| `title_overwritten` | the downloader skips topics that are there, and then stores the summary under the article's title as well, over a hand-written fact |

More shows in the models without a run of its own.

- Flags. A purged key is learned again from the next plain chat on it, since the gate
  of `save_to_learned_db` does not look at the flags, and the row then answers prompts
  that contain the key (`Learn`, `AsksKB`). A flag deletes the row of exactly the prompt's
  key, so a wrong answer that the fuzzy lookup found under another key stays in the table,
  although "purged from DB!" is reported (`FlagPurges`).
- Keys. A blank before the question mark stays in the key, "What is x ?" has the key
  "x ", because `strip()` runs before the punctuation is removed (`NormalizeKey`). A prompt
  of signs alone passes the gate: the key `%` or `_` is saved, and since a row's key is the
  pattern of `LIKE`, the row answers every prompt without one of its own (server.py:174,
  204). `SavedKeyNotBlank` only rules out the empty and the blank key.
- Saved answers. `SavedKept` and `MarkedKeysKept` are about keys: after a save is reported,
  or marked on the page, `init_db` may put the reference fact over the answer
  (server.py:77-81), and another answer to the prompt may be saved. Beside a migration
  `LateSavesKept` is about the answers themselves; the `INSERT OR REPLACE` of the migrator
  (migrate_kb.py:67, 81) and of a boot is the one way to replace them.
- Markers. They are removed in one pass, before CJK characters are, so an answer may show one:
  `<中|im_end|> tax is due.` and `<<|a|>|b|> tax is due.` keep a `<|..|>`, which the next cleaning
  takes out, and so does a marker with a line break in it, which the collapsing of blanks may
  turn into a space. `LearnedShownUnchanged` and `NoEchoedContext` name these texts as
  exceptions.
- Preambles. The patterns have one space between their words and run before blanks are
  collapsed: `I  will explain. Tax is a levy.` shows its preamble (server.py:263-287).
  A sentence that was cut off gets a full stop and is shown as if it were complete.
- Short answers. `clean_factual_output` replaces a response of fewer than three words by
  a fallback sentence of eleven, so the gate that asks for three words never refuses
  anything, and the fallback is saved (`FallbackIfShort`).
- Migration. `migrate_kb.py:27` speaks of "safe concurrent reading/writing", but between
  `Drop` and `Create` the server has no table, and until `Complete` it answers from an
  empty one. A boot after a migration puts the reference fact of a key back over the
  learned one, which the migrator had let win. The migrator strips keys but does not
  normalize them, so a row whose key has punctuation is found by no exact lookup and
  deleted by no flag.
- Builders. What is written to a file while a tool fetches, by hand or by another tool, is
  lost when the tool writes; `alone` in `NothingLostAlone` excludes just that.
- Social guide. The scraper takes a turn for a greeting when "hi", "day" or another
  greeting word is anywhere in its key, "nothing" included, and the server looks into the
  greetings first: such a turn hides a hand-written acknowledgment with its key, although
  it is merged "without overwriting existing manual entries"
  (build_convo_reference.py:46, 81, server.py:132). `ManualRepliesKept` names this as the
  one way a hand-written key loses its reply, and how a prompt that got the reply of a
  near entry may get another. A scraped turn with a question prefix in it is under a key
  the server never looks up; and the guide is consulted only for prompts that
  `is_casual_prompt` accepts.
- Page. A cut line is lost without a trace, and the shortened answer is what "Save to KB"
  sends (`cut` in `WholeUnlessCut`).

### Fairness

Only `FairSpec` of `KBServer`, `EdgeEngine` and `ChatPage` is fair. The event loop runs ready
coroutines in turn. A handler's steps can be disabled for a moment, while another handler is
between its two writes, and enabled again; since a ready coroutine stays in the loop's queue,
strong fairness of `Handle(c)` is what the loop gives. The worker thread ends after at most
`max_tokens` tokens, with a text or an exception: weak fairness of `Think(c) \/ ThinkFails(c)`.
Nothing makes clients send or leave, chunks come, or the process crash or boot. In the C++ engine
a worker thread that runs gets on: weak fairness of its own steps. On the page, the browser runs
the continuation of a read that has something to give, chunk, end or error: weak fairness of
`Page(s)`. The server answers a request or its connection is lost, and the model stops after
`max_tokens`: weak fairness of `Answers(s)`. Nothing makes the user type or click, or the model
speak; that a connection breaks is never needed.

`CHECK_DEADLOCK FALSE` is set only where texts are typed up to a bound (`text`) and where
all programs that could be started may have ended (`maintenance`, `title_overwritten`).

## 4. Proofs

All proofs are checked by TLAPS with Z3, Zenon and LS4, from the assumptions named in
the modules (`KeyAssumption`, `AnswerAssumption`, `FileAssumption`, `BoundAssumption`;
`EngineAssumption`, `EncodingAssumption`; `PromptAssumption` and `BoundAssumption` of the
page; `BuilderAssumption`, `MigrationAssumption`, `MaintenanceAssumption`; `CharAssumption`
of the tokenizer and the `MCAssumption` of `MCText` and `MCEdgeEngine`), which TLC evaluates
in the runs. The last conjunct of `KeyAssumption` says something about a text function: a
prompt that is small talk has a key that is small talk. `ServerAssumptionsMet` proves it,
for all texts. Every safety property of the runs that pass is stated by a theorem.

**KBServerProofs.** The inductive invariant `IInv` adds to `TypeOK`:

- `LoopInv`: one handler at a time is between its two writes; only it has flags in
  memory. Without it, two flags could overwrite each other's file.
- `FileInv`: a handler about to write has emptied the file and has its key in memory;
  one about to purge has its key on file.
- `PledgeInv`: what clients were told, *or are about to be told*, is on record or in
  the table, unless the record was lost. `acked` and `saved` alone are not inductive:
  they grow at `Deliver`, from replies that were decided earlier.
- `BootInv`: nothing is served while `init_db` runs, and it works on no fewer keys than
  the table has; otherwise `CommitFacts` could forget a saved key.

From it follow `TypeCorrect`, `FlagsAreHonoured`, `SavesAreKept` and, with `DbFaults`
assumed false, the action property `SavesAreAnswered`. `LearnedIsSane` has an invariant
of its own, `WorkSane` beside `LearnedRowsSane`, since rows reach the table through
`work`. `ServerImplementsContract` shows that under the refinement mapping (`known`
the keys of the table, `flagged` the keys on file or in a handler's memory, `damaged`
whether the file is lost, `answered` the key of each reply from the database) initial
states map to initial states and each step to a step of `KBContract` or a stutter:
opening the file adds a flag, a failed write or a crash during it loses the record,
purging forgets a key that is on record.

For the boot there is `LoadInv`: keys are unique in the table and in the rows the boot
sees, and every fact inserted so far has its row there, unless a later fact of the same
key replaced it. It rests on lemmas that the SQL operators keep keys unique, as the schema
says. `BootLoadsFacts` follows: when the load commits, every key of the file has the text
of its last fact.

**KnowledgeTableProofs** has what the SQL operators return for tables of any length;
`ReplaceKeepsKeys` is the one the server proofs rest on.

**EdgeEngineProofs.** `WindowForgets` (the window after the next token depends only on
the window before it) carries `AnswersDependOnTail`: at every turn the network's input
is what it would be if the last ids of the prompt, padding included, had been the whole
prompt. `EngineTypes` and `ReportsFit` come from the same `LoopInv`.

**ChatPageProofs** has inductive invariants over any number of sends, pieces and
clicks. `SentInv`: a button's request belongs to an answer that was read to its end, so
its key was sent. `MarkInv`: what is marked, *or about to be marked by a response on its
way*, is on record or known, unless the record is lost; `bar` alone is not inductive,
since a mark appears after the server decided. It yields `MarkedKeysAreKept` and
`FlaggedMarksAreTrue`. `BubblesInv` counts: what a bubble shows and what is under way
make up what was written until a line is cut; it yields `BubblesAreWhole` and
`OnlyAnswersHaveButtons`. `PiecesInv` says that both are in order, the first before the
second, and yields `BubblesInOrder`. `HistoryMatches` is inductive with `SentInOrder` (the
sends begin in the order of their numbers), which gives `HistoryIsTrue`. `ServerKeepsContract`
shows that no step of the page's model moves the server in a way `KBContract` does not
allow: with `ServerImplementsContract`, what is proved of the page is proved before
`server.py`.

**MaintenanceProofs**: `BuilderInv` (types, and what a tool read is in its memory) with
`AloneInv` (a tool that has its file to itself is alone at it, and the file has the facts
it read, torn or not) yields `NothingIsLostAlone`. `LockInv` (who holds the lock, and
that its transaction sees all committed rows except those it has inserted from a file)
carries `LateSavesAreKept`: without it a commit could drop a save, or put an older row in
its place. `FreshInv` extends `AllOrNothing` to the rows a boot has in its
transaction, and `HandledInv` (what the migrator went through is in its transaction or
reported as missed) yields `CompletionIsTrue`.

**SubsequencesProofs.** The text functions of the server and of the tokenizer drop tokens
or characters and keep the order of the others, so all are `At(s, keep)`, a function
defined by recursion over the positions of `s`. The library's induction theorems take an
operator, which no prover here can instantiate; `NatInduct` therefore derives induction
over a set from the pigeonhole principle for finite sets, and `KeptDef` and `SeqInduct`
follow. `AtEnum` (the positions kept are
enumerated in increasing order), `AtJoin` (what is kept of two sequences in a row is what
is kept of each), `AtAll` and `AtNone` are what the next two modules rest on; none of them
unfolds the recursion again.

**TextProofs** has the properties of the `text` run for prompts and answers of any length
and any tokens, any guide and any scraped turns. The invariant is `TextInv`: prompt and
answer are sequences of `Symbols`, which is `STRING`, with the literals that the code names
spelled out, since no prover knows that a literal is a string.

- Keys: `KeyCompact` follows the steps of `normalize_key` and what each leaves of the one
  before; `BlanksVanish` shows that a key of blanks normalizes to nothing, so the gate,
  which normalizes again, refuses it; `QuestionKey` computes the positions that the prefix
  pattern covers; `CasualTwice` shows that a match of a small-talk pattern survives a second
  normalization: a pattern found in a key shares no token with a question prefix, has
  single blanks inside, and begins and ends with a word (`Chatty`).
- Social replies: `AcknowledgmentAdded` and `GreetingAdded` say what one more entry at the
  end of a dictionary does to the exact and to the near lookup, for every guide; `Scrape`
  is one of the two, or changes nothing.
- Answers: `Stable` (one stop, at the end, single blanks, no blank at the ends, no
  "context:") holds of every result of `clean_factual_output` (`AnswerStable`) and says
  that the function leaves it alone if there is no marker in it (`StableUnchanged`): this
  is the inductive idea behind `LearnedIsShown`. For `ContextNotEchoed` and
  `SettledAnswersStay` the markers of a text are compared with those of its beginnings:
  `PastExtended` says that the scan from left to right goes the same way up to where the
  beginning ends, and `MarkersSplit` that where no marker is open there, what follows is
  cleaned by itself. `ChosenFront` then shows that a usable sentence that is complete is
  the one chosen, whatever follows.

`ServerAssumptionsMet` shows that the constants of `KBServer` may be these functions on
all texts.

**TokenizerProofs** has the two tokenizer properties for prompts of any length, over any
characters, with any word marker. `WordsAtCut` says that the words of a text cut at a
space are those of its parts, and `EncodeJoins` carries it to the ids, for any
vocabulary: this is `SpacesSeparate`. `LastLine`, `PlainWords` and `UnmarkWord` follow a word
into its id and back, for any vocabulary too; only that the padding's id belongs to no
marked word is a fact about the lines of `Vocab` (`FirstLine`). They yield `MarkedSurvive`.

### Only model-checked

Liveness (`EveryRequestAnswered` twice, `EverySendEnds`): fairness and ENABLED are out of
the prover's reach here.

## 5. Not modelled

- Vendored libraries, build and launch files, and data.
- The shared model (`server.py:348`): worker threads and streams call one `Llama` object
  without a lock. What overlapping calls do is decided inside `llama_cpp`, which is not
  in the repository; `KBServer` lets the model return any text or fail.
- Web snippets (`server.py:300-326`): a string from a remote page for the model's prompt.
  No time is modelled, so that a slow search stalls the event loop does not show either.
- The page's connection badge, which only displays, and its layout.
- The full-text index and the vector collection: `migrate_kb.py` fills them, and no query
  of the repository reads them.
- `build_cot_reference.py`, which writes constants to a file nothing reads, and
  `run_ssm.py`, `debug_model.py` and `check_model.py`, which print.
- The migrator beside the *whole* server: `KBServer` has it only as an SQLite call that
  may fail, so its `SavedKept` holds while no migration runs. `Migration` shows what a
  migration does to saves: those before `Drop` go, those after it stay, unless a file has
  a row of the same key.
