---------------------------- MODULE RefBuilders ----------------------------
(***************************************************************************)
(* The tools that build the reference files: build_kb_reference.py ("kb")  *)
(* and download_wikipedia_kb.py ("bulk") for the knowledge base,           *)
(* build_convo_reference.py ("convo") for the social guide.                *)
(*                                                                         *)
(* Each reads its file, fetches for seconds or minutes, and writes the     *)
(* whole file back.  Nothing keeps two of them, or a tool and an editor,   *)
(* from working on one file at the same time.                              *)
(*                                                                         *)
(* A file is a JSON object: a function from keys to values.  A value is    *)
(* "manual", written by hand, or "fetched".                                *)
(***************************************************************************)
EXTENDS Naturals, Sequences, FiniteSets

CONSTANTS
  Keys,        \* the keys of facts and of greetings
  Topics,      \* AUTO_FETCH_TOPICS, WIKI_SEED_TOPICS: keys of each tool, in order
  Titles,      \* the titles of articles that a search may return
  HandWritten, \* the keys the files begin with
  MaxOps       \* bound: tools, edits and other programs started

Tools == {"kb", "bulk", "convo"}
Files == {"reference", "guide"}

ASSUME BuilderAssumption ==
  /\ Topics \in [Tools -> Seq(Keys)]
  /\ Titles \subseteq Keys /\ HandWritten \subseteq Keys
  /\ MaxOps \in Nat

VARIABLES
  file,   \* each file; a torn one keeps the facts it had when it was last whole
  tool,   \* where each tool is
  data,   \* what each tool has in memory
  todo,   \* the topics it has still to look at
  base,   \* history: what it read
  alone,  \* history: whether nothing else touched its file since
  ops     \* the number of programs started

fileVars    == <<file, base, alone>>
builderVars == <<file, tool, data, todo, base, alone>>

FileOf(t) == IF t = "convo" THEN "guide" ELSE "reference"

Values == {"manual", "fetched"}

Facts == UNION {[S -> Values] : S \in SUBSET Keys}

Empty == [k \in {} |-> "manual"]

\* facts, with value under each of the keys.
With(facts, keys, value) ==
  [k \in DOMAIN facts \cup keys |-> IF k \in keys THEN value ELSE facts[k]]

BuilderInit ==
  /\ file = [f \in Files |-> [state |-> "whole", facts |-> With(Empty, HandWritten, "manual")]]
  /\ tool = [t \in Tools |-> "idle"]
  /\ data = [t \in Tools |-> Empty]
  /\ todo = [t \in Tools |-> <<>>]
  /\ base = [t \in Tools |-> Empty]
  /\ alone = [t \in Tools |-> TRUE]

Busy(f) == {t \in Tools : FileOf(t) = f /\ tool[t] # "idle"}

Reads(t, facts) ==
  /\ tool[t] = "idle" /\ ops < MaxOps /\ ops' = ops + 1
  /\ tool' = [tool EXCEPT ![t] = "fetching"]
  /\ data' = [data EXCEPT ![t] = facts]
  /\ todo' = [todo EXCEPT ![t] = Topics[t]]
  /\ base' = [base EXCEPT ![t] = facts]
  /\ alone' = [u \in Tools |-> IF u = t THEN Busy(FileOf(t)) = {}
                               ELSE alone[u] /\ u \notin Busy(FileOf(t))]
  /\ UNCHANGED file

\* Faulty variant: a file that cannot be read is taken for one that is not there.
StartTorn(t) ==
  LET found == file[FileOf(t)]
  IN  Reads(t, IF found.state = "whole" THEN found.facts ELSE Empty)

\* The file is read.  An unreadable one raises; a missing one is an empty one,
\* except for "kb", which gives up.
Start(t) ==
  LET found == file[FileOf(t)]
  IN  \/ found.state = "whole" /\ Reads(t, found.facts)
      \/ found.state = "absent" /\ t # "kb" /\ Reads(t, Empty)

Proceed(t, facts) ==
  /\ tool[t] = "fetching"
  /\ data' = [data EXCEPT ![t] = facts]
  /\ UNCHANGED <<tool, fileVars, ops>>

\* The next topic is there, or cannot be fetched.
Skip(t) ==
  /\ t # "convo" /\ todo[t] # <<>>
  /\ todo' = [todo EXCEPT ![t] = Tail(@)]
  /\ Proceed(t, data[t])

\* Faulty variant: a title is stored even when it is empty.
UnderAnyTitle(t, k) ==
  IF t = "bulk" THEN {{k, title} : title \in Titles \cup {k, ""}} ELSE {{k}}

\* The keys an answer for topic k is stored under: the bulk downloader also takes
\* the title of the article, whatever is there.
Under(t, k) == IF t = "bulk" THEN {{k, title} : title \in Titles \cup {k}} ELSE {{k}}

Fetch(t) ==
  /\ t # "convo" /\ todo[t] # <<>> /\ Head(todo[t]) \notin DOMAIN data[t]
  /\ todo' = [todo EXCEPT ![t] = Tail(@)]
  /\ \E keys \in Under(t, Head(todo[t])) : Proceed(t, With(data[t], keys, "fetched"))

\* Faulty variant: what was scraped replaces what is there.
MergeOver(t) ==
  /\ t = "convo" /\ todo[t] # <<>>
  /\ todo' = [todo EXCEPT ![t] = <<>>]
  /\ \E scraped \in SUBSET {todo[t][i] : i \in DOMAIN todo[t]} :
       Proceed(t, With(data[t], scraped, "fetched"))

\* One request brings some of the turns, or none; they are merged in.
Merge(t) ==
  /\ t = "convo" /\ todo[t] # <<>>
  /\ todo' = [todo EXCEPT ![t] = <<>>]
  /\ \E scraped \in SUBSET {todo[t][i] : i \in DOMAIN todo[t]} :
       Proceed(t, With(data[t], scraped \ DOMAIN data[t], "fetched"))

\* write_text empties the file before it writes.
OpenForWrite(t) ==
  /\ tool[t] = "fetching" /\ todo[t] = <<>>
  /\ tool' = [tool EXCEPT ![t] = "writing"]
  /\ file' = [file EXCEPT ![FileOf(t)].state = "torn"]
  /\ UNCHANGED <<data, todo, base, alone, ops>>

\* Back to where every run of a tool begins.
Idle(t) ==
  /\ tool' = [tool EXCEPT ![t] = "idle"]
  /\ data' = [data EXCEPT ![t] = Empty]
  /\ base' = [base EXCEPT ![t] = Empty]
  /\ todo' = [todo EXCEPT ![t] = <<>>]
  /\ alone' = [alone EXCEPT ![t] = TRUE]
  /\ UNCHANGED ops

Write(t) ==
  /\ tool[t] = "writing"
  /\ file' = [file EXCEPT ![FileOf(t)] = [state |-> "whole", facts |-> data[t]]]
  /\ Idle(t)

\* The tool is interrupted.
Kill(t) == tool[t] # "idle" /\ Idle(t) /\ UNCHANGED file

\* What an editor finds in a file: a torn one has lost its facts.
Found(f) == IF file[f].state = "torn" THEN Empty ELSE file[f].facts

\* Somebody edits a file by hand, or removes it.
Edit(f) ==
  /\ ops < MaxOps /\ ops' = ops + 1
  /\ \/ \E k \in Keys :
          file' = [file EXCEPT ![f] = [state |-> "whole", facts |-> With(Found(f), {k}, "manual")]]
     \/ file' = [file EXCEPT ![f] = [state |-> "absent", facts |-> Empty]]
  /\ alone' = [t \in Tools |-> alone[t] /\ t \notin Busy(f)]
  /\ UNCHANGED <<tool, data, todo, base>>

BuilderNext ==
  \/ \E t \in Tools : \/ Start(t) \/ Skip(t) \/ Fetch(t) \/ Merge(t)
                      \/ OpenForWrite(t) \/ Write(t) \/ Kill(t)
  \/ \E f \in Files : Edit(f)

-----------------------------------------------------------------------------
BuilderTypeOK ==
  /\ file \in [Files -> [state : {"absent", "torn", "whole"}, facts : Facts]]
  /\ tool \in [Tools -> {"idle", "fetching", "writing"}]
  /\ data \in [Tools -> Facts]
  /\ \A t \in Tools : todo[t] \in Seq(Keys)
  /\ base \in [Tools -> Facts]
  /\ alone \in [Tools -> BOOLEAN]
  /\ ops \in 0..MaxOps

\* The topic builder and the scraper keep every value they read, and the downloader
\* every key: build_convo_reference.py:81 "Merge scraped data without overwriting
\* existing manual entries".
ToolsKeepWhatTheyRead ==
  \A t \in Tools : \A k \in DOMAIN base[t] :
    k \in DOMAIN data[t] /\ (t # "bulk" => data[t][k] = base[t][k])

\* A run that had its file to itself takes no fact out of it, even after another run
\* was interrupted while it wrote (build_kb_reference.py:64, download_wikipedia_kb.py:111,
\* build_convo_reference.py:90).
NothingLostAlone ==
  [][\A t \in Tools :
       tool[t] = "writing" /\ tool'[t] = "idle" /\ alone[t] /\ file'[FileOf(t)].state = "whole"
         => DOMAIN file[FileOf(t)].facts \subseteq DOMAIN file'[FileOf(t)].facts]_<<builderVars, ops>>

\* download_wikipedia_kb.py:96 "Skip if fact already exists in JSON": a fact that is
\* there keeps its value.
ExistingFactsKept ==
  \A k \in DOMAIN base["bulk"] : data["bulk"][k] = base["bulk"][k]
=============================================================================
