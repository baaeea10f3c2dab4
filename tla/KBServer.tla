------------------------------ MODULE KBServer ------------------------------
(***************************************************************************)
(* server.py: the HTTP handlers of the knowledge base and the chat, the    *)
(* database and the corrections file they share, and the boot that fills   *)
(* the database.                                                           *)
(*                                                                         *)
(* The handlers are coroutines of one event loop.  One runs from an await  *)
(* to the next without another in between, so a handler is one action,     *)
(* except where a crash or a failing write can cut it: the flag handler    *)
(* rewrites a file in place and then the database.  The model runs in a    *)
(* worker thread (plain chat) or chunk by chunk (streamed chat).           *)
(***************************************************************************)
EXTENDS KnowledgeTable, FiniteSets

CONSTANTS
  Conns,          \* connections; one request at a time on each
  Texts,          \* prompts and keys
  Prompts,        \* what requests give as prompt: what users type, or NoText
  Norm,           \* normalize_key
  CasualKeys,     \* the keys CASUAL_PATTERNS match, and the empty one
  ChallengeKeys,  \* the keys CHALLENGE_PATTERNS match
  Like,           \* <<k, j>>: j occurs in k
  Answers,        \* answers, raw and cleaned
  Sent,           \* what save requests give as response: answers, or NoText
  RawOutputs,     \* what the model may generate
  Clean,          \* clean_factual_output
  Short,          \* the answers of fewer than three words
  NoText,         \* a JSON null, or a missing field
  NoAnswer,       \* an empty or null response_text
  BadValue,       \* a JSON value that cannot be bound to a column
  RefFiles,       \* contents of knowledgebasereference.json a boot may find
  Seeds,          \* the two rows of "System Seed"
  MaxChunks,      \* bound: chunks of a streamed answer
  MaxCrashes,     \* bound: how often the process dies
  DbFaults,       \* whether SQLite calls may fail (another writer holds the lock)
  IoFaults        \* whether writing the corrections file may fail

ASSUME KeyAssumption ==
  /\ Prompts \subseteq Texts \cup {NoText}
  /\ Norm \in [Texts -> Texts]
  /\ CasualKeys \subseteq Texts
  /\ ChallengeKeys \subseteq Texts
  /\ NoText \notin Texts
  /\ \A t \in Texts : Norm[t] \in CasualKeys => Norm[Norm[t]] \in CasualKeys

Sources == {"learned", "reference", "seed"}

Rows == [key : Texts, text : Answers \cup {NoAnswer}, source : Sources]

Facts == [key : Texts, text : Answers \cup {NoAnswer, BadValue}]

ASSUME AnswerAssumption ==
  /\ RawOutputs \subseteq Answers
  /\ Sent \subseteq Answers \cup {NoText}
  /\ Clean \in [Answers -> Answers]
  /\ NoText \notin Answers

ASSUME FileAssumption ==
  /\ RefFiles \subseteq [readable : BOOLEAN, facts : Seq(Facts)]
  /\ \A file \in RefFiles : file.readable \/ file.facts = <<>>
  /\ Seeds \in Rows \X Rows
  /\ Seeds[1].source = "seed" /\ Seeds[2].source = "seed"

ASSUME BoundAssumption ==
  /\ MaxChunks \in Nat
  /\ MaxCrashes \in Nat
  /\ DbFaults \in BOOLEAN
  /\ IoFaults \in BOOLEAN

VARIABLES
  table,        \* the committed rows of "knowledge"
  corrections,  \* gutenberg_corrections.json
  phase,        \* where the process is: off, in init_db, or serving
  work,         \* the rows init_db sees, its uncommitted ones included
  todo,         \* the facts init_db has still to insert
  loaded,       \* the facts of this boot's file, none if loading failed
  pc,           \* where the handler of each connection is
  req,          \* the request of each connection
  draft,        \* the flagged prompts a flag handler has in memory
  raw,          \* the text a worker thread generated
  chunks,       \* chunks sent of a streamed answer
  reply,        \* the reply of each connection, and the row it comes from
  crashes,
  acked,        \* history: keys whose flagging was reported to a client
  saved,        \* history: keys whose saving was reported to a client
  seen          \* history: acked, when the request of the connection arrived

bootVars == <<phase, work, todo, loaded, crashes>>
connVars == <<pc, req, draft, raw, chunks, reply, seen>>
history  == <<acked, saved>>
vars == <<table, corrections, bootVars, connVars, history>>

-----------------------------------------------------------------------------
(***************************************************************************)
(* Reading the request, the files and the database.                        *)
(***************************************************************************)

\* A body that is no JSON fails as a null prompt does.  bad_response of a flag is
\* only logged.
ChatRequests == [op : {"chat"}, prompt : Prompts, text : {NoText}, stream : BOOLEAN]
SaveRequests == [op : {"save"}, prompt : Prompts, text : Sent, stream : {FALSE}]
FlagRequests == [op : {"flag"}, prompt : Prompts, text : {NoText}, stream : {FALSE}]

Requests == ChatRequests \cup SaveRequests \cup FlagRequests

NoRequest == [op |-> "none", prompt |-> NoText, text |-> NoText, stream |-> FALSE]

Replies == [kind : {"none", "ok", "error", "social", "kb", "answer"}, from : Texts \cup {NoText}]

NoReply == [kind |-> "none", from |-> NoText]

IsCasual(prompt)    == Norm[prompt] \in CasualKeys
IsChallenge(prompt) == Norm[prompt] \in ChallengeKeys

KeyOf(c) == Norm[req[c].prompt]

\* What search_hybrid_kb makes of the corrections file: an unreadable one is ignored.
FlaggedPrompts == IF corrections.file = "ok" THEN corrections.flagged ELSE {}

\* No handler is between two of its steps without an await between them.
LoopFree == \A c \in Conns : pc[c] \notin {"writing", "purging"}

\* The positions of the rows search_hybrid_kb may answer from; it is one at most.
Hits(key) ==
  {i \in DOMAIN table : IsHit(table, key, Like, i) /\ table[i].text # NoAnswer}

\* Faulty variant: the gate only asks for a key.
AcceptsAnyKey(prompt, text) ==
  /\ prompt # NoText /\ text # NoText
  /\ Clean[text] \notin Short

\* The gate of save_to_learned_db: is_casual_prompt normalizes the key again.
Accepts(prompt, text) ==
  /\ prompt # NoText /\ text # NoText
  /\ ~ IsCasual(Norm[prompt])
  /\ Clean[text] \notin Short

\* Faulty variant: the category is stored in the place of the source.
SavedSwapped(prompt, text) ==
  /\ Accepts(prompt, text)
  /\ table' = InsertOrReplace(table,
                [key |-> Norm[prompt], text |-> Clean[text], source |-> "facts"])

\* Faulty variant: the prompt is stored as it was typed.
SavedRaw(prompt, text) ==
  /\ Accepts(prompt, text)
  /\ table' = InsertOrReplace(table,
                [key |-> prompt, text |-> Clean[text], source |-> "learned"])

\* Faulty variant: a write that SQLite refuses is taken for a save.
SavedUnchecked(prompt, text) ==
  /\ Accepts(prompt, text)
  /\ \/ table' = InsertOrReplace(table,
                   [key |-> Norm[prompt], text |-> Clean[text], source |-> "learned"])
     \/ DbFaults /\ UNCHANGED table

\* save_to_learned_db: the row is replaced and committed, or nothing changes.
Saved(prompt, text) ==
  /\ Accepts(prompt, text)
  /\ table' = InsertOrReplace(table,
                [key |-> Norm[prompt], text |-> Clean[text], source |-> "learned"])

NotSaved(prompt, text) ==
  /\ ~ Accepts(prompt, text) \/ DbFaults
  /\ UNCHANGED table

-----------------------------------------------------------------------------
(***************************************************************************)
(* init_db.  All the inserts of a boot are one transaction.                *)
(***************************************************************************)

Init ==
  /\ table = <<>>
  /\ corrections = [file |-> "absent", flagged |-> {}]
  /\ phase = "off" /\ work = <<>> /\ todo = <<>> /\ loaded = <<>> /\ crashes = 0
  /\ pc = [c \in Conns |-> "idle"]
  /\ req = [c \in Conns |-> NoRequest]
  /\ draft = [c \in Conns |-> {}]
  /\ raw = [c \in Conns |-> NoText]
  /\ chunks = [c \in Conns |-> 0]
  /\ reply = [c \in Conns |-> NoReply]
  /\ seen = [c \in Conns |-> {}]
  /\ acked = {} /\ saved = {}

\* Faulty variant: the table is created afresh.
OpenDbAfresh ==
  /\ phase = "off"
  /\ \E file \in RefFiles :
       /\ phase' = IF file.readable THEN "loading" ELSE "seeding"
       /\ todo' = file.facts
       /\ loaded' = file.facts
  /\ work' = <<>>
  /\ UNCHANGED <<table, corrections, crashes, connVars, history>>

\* The reference file is read; it may have been edited since the last boot.
OpenDb ==
  /\ phase = "off"
  /\ \E file \in RefFiles :
       /\ phase' = IF file.readable THEN "loading" ELSE "seeding"
       /\ todo' = file.facts
       /\ loaded' = file.facts
  /\ work' = table
  /\ UNCHANGED <<table, corrections, crashes, connVars, history>>

LoadFact ==
  /\ phase = "loading" /\ todo # <<>>
  /\ Head(todo).text # BadValue
  /\ work' = InsertOrReplace(work,
               [key |-> Head(todo).key, text |-> Head(todo).text, source |-> "reference"])
  /\ todo' = Tail(todo)
  /\ UNCHANGED <<table, corrections, phase, loaded, crashes, connVars, history>>

\* The exception leaves the rows inserted so far uncommitted, and visible to the count.
LoadFails ==
  /\ phase = "loading"
  /\ DbFaults \/ (todo # <<>> /\ Head(todo).text = BadValue)
  /\ phase' = "seeding"
  /\ todo' = <<>> /\ loaded' = <<>>
  /\ UNCHANGED <<table, corrections, work, crashes, connVars, history>>

CommitFacts ==
  /\ phase = "loading" /\ todo = <<>>
  /\ table' = work
  /\ phase' = "seeding"
  /\ UNCHANGED <<corrections, work, todo, loaded, crashes, connVars, history>>

\* The defaults, if the connection sees no row; closing it rolls back what is not committed.
Seed ==
  /\ phase = "seeding"
  /\ table' = IF work = <<>>
              THEN InsertOrIgnore(InsertOrIgnore(work, Seeds[1]), Seeds[2])
              ELSE table
  /\ work' = table'
  /\ phase' = "up"
  /\ UNCHANGED <<corrections, todo, loaded, crashes, connVars, history>>

\* The process dies, or an SQLite error outside the try block ends the boot.
Crash ==
  /\ phase # "off" /\ crashes < MaxCrashes
  /\ crashes' = crashes + 1
  /\ phase' = "off" /\ work' = <<>> /\ todo' = <<>> /\ loaded' = <<>>
  /\ pc' = [c \in Conns |-> "idle"]
  /\ req' = [c \in Conns |-> NoRequest]
  /\ draft' = [c \in Conns |-> {}]
  /\ raw' = [c \in Conns |-> NoText]
  /\ chunks' = [c \in Conns |-> 0]
  /\ reply' = [c \in Conns |-> NoReply]
  /\ seen' = [c \in Conns |-> {}]
  /\ UNCHANGED <<table, corrections, history>>

-----------------------------------------------------------------------------
(***************************************************************************)
(* The handlers.                                                           *)
(***************************************************************************)

Respond(c, kind, from) ==
  /\ pc' = [pc EXCEPT ![c] = "replying"]
  /\ reply' = [reply EXCEPT ![c] = [kind |-> kind, from |-> from]]

\* The handler starts: it awaits the body of the request.
Arrive(c) ==
  /\ phase = "up" /\ pc[c] = "idle"
  /\ \E r \in Requests : req' = [req EXCEPT ![c] = r]
  /\ pc' = [pc EXCEPT ![c] = "arrived"]
  /\ seen' = [seen EXCEPT ![c] = acked]
  /\ UNCHANGED <<table, corrections, draft, raw, chunks, reply, bootVars, history>>

\* The handler of an operation runs on after the await.
Resumes(c, op) == pc[c] = "arrived" /\ req[c].op = op /\ LoopFree

\* save_to_kb_endpoint.
Save(c) ==
  /\ Resumes(c, "save")
  /\ \/ Saved(req[c].prompt, req[c].text) /\ Respond(c, "ok", NoText)
     \/ NotSaved(req[c].prompt, req[c].text) /\ Respond(c, "error", NoText)
  /\ UNCHANGED <<corrections, req, draft, raw, chunks, seen, bootVars, history>>

\* log_and_purge_correction reads the file and opens it for writing, which empties it.
FlagOpens(c) ==
  /\ Resumes(c, "flag")
  /\ req[c].prompt # NoText /\ corrections.file # "corrupt"
  /\ draft' = [draft EXCEPT ![c] = corrections.flagged \cup {KeyOf(c)}]
  /\ corrections' = [file |-> "corrupt", flagged |-> {}]
  /\ pc' = [pc EXCEPT ![c] = "writing"]
  /\ UNCHANGED <<table, req, raw, chunks, reply, seen, bootVars, history>>

\* No prompt, or a file that cannot be parsed or opened: nothing is flagged.
FlagRefused(c) ==
  /\ Resumes(c, "flag")
  /\ req[c].prompt = NoText \/ corrections.file = "corrupt" \/ IoFaults
  /\ Respond(c, "error", NoText)
  /\ UNCHANGED <<table, corrections, req, draft, raw, chunks, seen, bootVars, history>>

FlagWrites(c) ==
  /\ pc[c] = "writing"
  /\ corrections' = [file |-> "ok", flagged |-> draft[c]]
  /\ draft' = [draft EXCEPT ![c] = {}]
  /\ pc' = [pc EXCEPT ![c] = "purging"]
  /\ UNCHANGED <<table, req, raw, chunks, reply, seen, bootVars, history>>

\* The write fails half way: the file stays as it is.
FlagWriteFails(c) ==
  /\ pc[c] = "writing" /\ IoFaults
  /\ draft' = [draft EXCEPT ![c] = {}]
  /\ Respond(c, "error", NoText)
  /\ UNCHANGED <<table, corrections, req, raw, chunks, seen, bootVars, history>>

\* Faulty variant: every row that mentions the key is deleted.
FlagPurgesWide(c) ==
  /\ pc[c] = "purging"
  /\ \/ /\ table' = SelectSeq(table, LAMBDA row : <<row.key, KeyOf(c)>> \notin Like)
        /\ Respond(c, "ok", NoText)
     \/ DbFaults /\ UNCHANGED table /\ Respond(c, "error", NoText)
  /\ UNCHANGED <<corrections, req, draft, raw, chunks, seen, bootVars, history>>

\* The row of exactly this key, if there is one.
FlagPurges(c) ==
  /\ pc[c] = "purging"
  /\ \/ table' = Delete(table, KeyOf(c)) /\ Respond(c, "ok", NoText)
     \/ DbFaults /\ UNCHANGED table /\ Respond(c, "error", NoText)
  /\ UNCHANGED <<corrections, req, draft, raw, chunks, seen, bootVars, history>>

-----------------------------------------------------------------------------
\* A prompt that is null fails.  A missing one counts as empty, which is small talk.
ChatFails(c) ==
  /\ Resumes(c, "chat")
  /\ req[c].prompt = NoText
  /\ Respond(c, "error", NoText)
  /\ UNCHANGED <<table, corrections, req, draft, raw, chunks, seen, bootVars, history>>

ChatSocial(c) ==
  /\ Resumes(c, "chat")
  /\ req[c].prompt # NoText =>
       IsCasual(req[c].prompt) /\ ~ IsChallenge(req[c].prompt)
  /\ Respond(c, "social", NoText)
  /\ UNCHANGED <<table, corrections, req, draft, raw, chunks, seen, bootVars, history>>

\* Faulty variant: the corrections file is not consulted.
AsksUnflagged(c) ==
  /\ req[c].prompt # NoText
  /\ ~ IsCasual(req[c].prompt) /\ ~ IsChallenge(req[c].prompt)

\* The search may answer: the prompt is a question and is not flagged.
AsksKB(c) ==
  /\ req[c].prompt # NoText
  /\ ~ IsCasual(req[c].prompt) /\ ~ IsChallenge(req[c].prompt)
  /\ KeyOf(c) \notin FlaggedPrompts

ChatKB(c) ==
  /\ Resumes(c, "chat")
  /\ AsksKB(c)
  /\ \E i \in Hits(KeyOf(c)) : Respond(c, "kb", table[i].key)
  /\ UNCHANGED <<table, corrections, req, draft, raw, chunks, seen, bootVars, history>>

\* No answer from the database: the few-shot prompt is built and the model runs.
ChatModel(c) ==
  /\ Resumes(c, "chat")
  /\ req[c].prompt # NoText
  /\ IsCasual(req[c].prompt) => IsChallenge(req[c].prompt)
  /\ ~ AsksKB(c) \/ Hits(KeyOf(c)) = {} \/ DbFaults
  /\ pc' = [pc EXCEPT ![c] = IF req[c].stream THEN "streaming" ELSE "thinking"]
  /\ UNCHANGED <<table, corrections, req, draft, raw, chunks, reply, seen, bootVars, history>>

\* llm.create_completion in a worker thread of asyncio.to_thread.
Think(c) ==
  /\ pc[c] = "thinking"
  /\ \E text \in RawOutputs : raw' = [raw EXCEPT ![c] = text]
  /\ pc' = [pc EXCEPT ![c] = "generated"]
  /\ UNCHANGED <<table, corrections, req, draft, chunks, reply, seen, bootVars, history>>

ThinkFails(c) ==
  /\ pc[c] = "thinking"
  /\ Respond(c, "error", NoText)
  /\ UNCHANGED <<table, corrections, req, draft, raw, chunks, seen, bootVars, history>>

\* Faulty variant: the model is asked again when the key is there already.
LearnAnew(c) ==
  /\ pc[c] = "generated" /\ LoopFree
  /\ \/ /\ KeyOf(c) \in KeysOf(table)
        /\ pc' = [pc EXCEPT ![c] = "thinking"]
        /\ UNCHANGED <<table, reply>>
     \/ /\ KeyOf(c) \notin KeysOf(table)
        /\ Saved(req[c].prompt, Clean[raw[c]]) \/ NotSaved(req[c].prompt, Clean[raw[c]])
        /\ Respond(c, "answer", NoText)
  /\ raw' = [raw EXCEPT ![c] = NoText]
  /\ UNCHANGED <<corrections, req, draft, chunks, seen, bootVars, history>>

\* The handler resumes after the await and learns the cleaned answer, if it can.
Learn(c) ==
  /\ pc[c] = "generated" /\ LoopFree
  /\ Saved(req[c].prompt, Clean[raw[c]]) \/ NotSaved(req[c].prompt, Clean[raw[c]])
  /\ Respond(c, "answer", NoText)
  /\ raw' = [raw EXCEPT ![c] = NoText]
  /\ UNCHANGED <<corrections, req, draft, chunks, seen, bootVars, history>>

\* event_generator: a chunk is sent and the coroutine sleeps.
StreamChunk(c) ==
  /\ pc[c] = "streaming" /\ LoopFree
  /\ chunks[c] < MaxChunks
  /\ chunks' = [chunks EXCEPT ![c] = @ + 1]
  /\ UNCHANGED <<table, corrections, pc, req, draft, raw, reply, seen, bootVars, history>>

\* The model stops, or fails, which looks the same: nothing is learned.
StreamEnd(c) ==
  /\ pc[c] = "streaming" /\ LoopFree
  /\ Respond(c, "answer", NoText)
  /\ chunks' = [chunks EXCEPT ![c] = 0]
  /\ UNCHANGED <<table, corrections, req, draft, raw, seen, bootVars, history>>

-----------------------------------------------------------------------------
\* The connection is ready for another request.
Release(c) ==
  /\ pc' = [pc EXCEPT ![c] = "idle"]
  /\ req' = [req EXCEPT ![c] = NoRequest]
  /\ chunks' = [chunks EXCEPT ![c] = 0]
  /\ reply' = [reply EXCEPT ![c] = NoReply]
  /\ seen' = [seen EXCEPT ![c] = {}]
  /\ UNCHANGED <<table, corrections, draft, raw, bootVars>>

\* The reply reaches the client.
Deliver(c) ==
  /\ pc[c] = "replying" /\ LoopFree
  /\ Release(c)
  /\ acked' = IF reply[c].kind = "ok" /\ req[c].op = "flag"
              THEN acked \cup {KeyOf(c)} ELSE acked
  /\ saved' = IF reply[c].kind = "ok" /\ req[c].op = "save"
              THEN saved \cup {KeyOf(c)} ELSE saved

\* The client is gone: a stream is cancelled, a reply is lost.
Disconnect(c) ==
  /\ pc[c] \in {"replying", "streaming"} /\ LoopFree
  /\ Release(c)
  /\ UNCHANGED history

-----------------------------------------------------------------------------
Boot == OpenDb \/ LoadFact \/ LoadFails \/ CommitFacts \/ Seed

\* The steps the server takes by itself for connection c.
Handle(c) ==
  \/ Save(c) \/ FlagOpens(c) \/ FlagRefused(c) \/ FlagWrites(c) \/ FlagWriteFails(c)
  \/ FlagPurges(c) \/ ChatFails(c) \/ ChatSocial(c) \/ ChatKB(c) \/ ChatModel(c)
  \/ Learn(c) \/ StreamEnd(c) \/ Deliver(c)

Next ==
  \/ Boot \/ Crash
  \/ \E c \in Conns : \/ Arrive(c) \/ Handle(c) \/ Think(c) \/ ThinkFails(c)
                      \/ StreamChunk(c) \/ Disconnect(c)

Spec == Init /\ [][Next]_vars

\* The event loop runs the coroutines that are ready in turn, so one that is again
\* and again able to run does; the model stops after max_tokens.
Fairness ==
  /\ \A c \in Conns : SF_vars(Handle(c)) /\ WF_vars(Think(c) \/ ThinkFails(c))

FairSpec == Spec /\ Fairness

-----------------------------------------------------------------------------
(***************************************************************************)
(* Properties.                                                             *)
(***************************************************************************)

\* Every variable has its type.
TypeOK ==
  /\ table \in Seq(Rows)
  /\ corrections \in [file : {"absent", "corrupt", "ok"}, flagged : SUBSET Texts]
  /\ phase \in {"off", "loading", "seeding", "up"}
  /\ work \in Seq(Rows)
  /\ todo \in Seq(Facts) /\ loaded \in Seq(Facts)
  /\ pc \in [Conns -> {"idle", "arrived", "writing", "purging", "thinking", "generated",
                       "streaming", "replying"}]
  /\ req \in [Conns -> Requests \cup {NoRequest}]
  /\ draft \in [Conns -> SUBSET Texts]
  /\ raw \in [Conns -> RawOutputs \cup {NoText}]
  /\ chunks \in [Conns -> 0..MaxChunks]
  /\ reply \in [Conns -> Replies]
  /\ crashes \in 0..MaxCrashes
  /\ acked \subseteq Texts /\ saved \subseteq Texts
  /\ seen \in [Conns -> SUBSET Texts]

\* The corrections file was lost: a crash or a failed write left it empty.  No code
\* repairs it.
Damaged == corrections.file = "corrupt" /\ \A c \in Conns : pc[c] # "writing"

\* The flagged prompts: the file's, or those about to be written to it.
Logged == {key \in Texts : key \in corrections.flagged \/ \E c \in Conns : key \in draft[c]}

\* What the database learned is no small talk and no answer of fewer than three
\* words, whatever path it came by (save_to_learned_db, server.py:204).
SaneRow(row) == row.source = "learned" => row.key \notin CasualKeys /\ row.text \notin Short

LearnedRowsSane == \A i \in DOMAIN table : SaneRow(table[i])

\* A chat that was sent after a client had been told its prompt is flagged is not
\* answered from the database, across crashes and reboots, as long as the
\* corrections file is not lost (search_hybrid_kb, server.py:160).
FlagHonoured ==
  \A c \in Conns :
    reply[c].kind = "kb" => KeyOf(c) \notin seen[c] \/ Damaged

\* A key whose saving a client was told of stays in the database, across failed
\* boots, crashes and other keys' flags, until that key is flagged.
SavedKept ==
  \A key \in saved : key \in KeysOf(table) \cup Logged \/ Damaged

\* The value a fact of the reference file has: the last one the file gives its key.
LastFact(facts, key) ==
  LET at == CHOOSE i \in DOMAIN facts :
              /\ facts[i].key = key
              /\ \A j \in (i + 1)..Len(facts) : facts[j].key # key
  IN  facts[at].text

\* When a boot has reported the reference file as loaded and is done, each key of
\* the file has one row, with the file's last value for it (init_db).
FactsLoaded ==
  [][Seed => \A n \in DOMAIN loaded :
               \E i \in DOMAIN table' :
                 /\ table'[i].key = loaded[n].key
                 /\ table'[i].text = LastFact(loaded, loaded[n].key)
                 /\ \A j \in DOMAIN table' : table'[j].key = loaded[n].key => j = i]_vars

\* A question whose key was reported as saved is answered from the database and
\* not by the model, unless its key was flagged, a challenge, or given an empty
\* value by a later reference file.  Without SQLite faults.
SavedAnswered ==
  [][\A c \in Conns :
       (ChatModel(c) /\ ~ IsChallenge(req[c].prompt) /\ KeyOf(c) \in saved)
         => \/ KeyOf(c) \in Logged \/ Damaged
            \/ \E i \in DOMAIN table : table[i].key = KeyOf(c) /\ table[i].text = NoAnswer]_vars

\* Every request is answered, unless the client leaves or the process dies.
EveryRequestAnswered ==
  \A c \in Conns : pc[c] = "arrived" ~> pc[c] \in {"replying", "idle"}

-----------------------------------------------------------------------------
\* The contract this server implements.  A flag counts from the moment its handler
\* has it in memory.
AnsweredKey(c) == IF reply[c].kind = "kb" THEN KeyOf(c) ELSE NoText

Contract == INSTANCE KBContract WITH
  Clients  <- Conns,
  Keys     <- Texts,
  Nothing  <- NoText,
  known    <- KeysOf(table),
  flagged  <- Logged,
  damaged  <- Damaged,
  answered <- [c \in Conns |-> AnsweredKey(c)]

\* The server implements the contract.
ImplementsContract == Contract!Spec

-----------------------------------------------------------------------------
(***************************************************************************)
(* The inductive invariant.                                                *)
(***************************************************************************)

Busy(c) == pc[c] \in {"writing", "purging"}

\* One handler at a time is between its two writes, and only it has flags in memory.
LoopInv ==
  /\ \A c, d \in Conns : Busy(c) /\ Busy(d) => c = d
  /\ \A c \in Conns : draft[c] # {} => pc[c] = "writing"
  /\ \A c \in Conns : Busy(c) => req[c].op = "flag" /\ req[c].prompt \in Texts
  /\ \A c \in Conns : reply[c].kind # "none" => pc[c] = "replying"
  /\ \A c \in Conns : reply[c].kind \in {"ok", "kb"} => req[c].prompt \in Texts
  /\ \A c \in Conns : pc[c] = "generated" => raw[c] \in RawOutputs

\* The corrections file, and what a flag handler has still to do.
FileInv ==
  /\ corrections.file # "ok" => corrections.flagged = {}
  /\ \A c \in Conns : pc[c] = "writing" => corrections.file = "corrupt" /\ KeyOf(c) \in draft[c]
  /\ \A c \in Conns :
       pc[c] = "purging" => corrections.file = "ok" /\ KeyOf(c) \in corrections.flagged

\* What clients were told, or are about to be told, was flagged or saved.
FlagPledge(key) ==
  key \in acked \/ \E c \in Conns : reply[c].kind = "ok" /\ req[c].op = "flag" /\ key = KeyOf(c)
SavePledge(key) ==
  key \in saved \/ \E c \in Conns : reply[c].kind = "ok" /\ req[c].op = "save" /\ key = KeyOf(c)

PledgeInv ==
  /\ \A key \in Texts : FlagPledge(key) => key \in Logged \/ Damaged
  /\ \A key \in Texts : SavePledge(key) => key \in KeysOf(table) \/ key \in Logged \/ Damaged
  /\ \A c \in Conns : seen[c] \subseteq acked

\* init_db works on no fewer keys than the database has, while nothing is served.
BootInv ==
  /\ phase # "up" => \A c \in Conns : pc[c] = "idle"
  /\ phase \in {"loading", "seeding"} => KeysOf(table) \subseteq KeysOf(work)

\* What init_db has inserted is as sane as what it found.
WorkSane == \A i \in DOMAIN work : SaneRow(work[i])

IInv == TypeOK /\ LoopInv /\ FileInv /\ PledgeInv /\ BootInv /\ FlagHonoured

-----------------------------------------------------------------------------
(***************************************************************************)
(* What the documentation says and the code does not do.                   *)
(***************************************************************************)

\* index.html:148 "Flagged & Logged": a flag reported as logged is still on record.
AckedFlagLogged == acked \subseteq Logged

\* server.py:87 "Fallback default if empty": a booted server has a knowledge base.
BootedNotEmpty == [][Seed => table' # <<>>]_vars

\* USAGE.txt:17: a question the model answered is in the database from then on.
AnsweredIsLearned ==
  [][\A c \in Conns :
       ( /\ pc[c] \in {"generated", "streaming"} /\ pc'[c] = "replying"
         /\ ~ IsCasual(req[c].prompt)
         /\ pc[c] = "streaming" => chunks[c] > 0 )
       => KeyOf(c) \in KeysOf(table')]_vars
=============================================================================
