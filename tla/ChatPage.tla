------------------------------ MODULE ChatPage ------------------------------
(***************************************************************************)
(* index.html: the chat page, and the server as the page sees it.          *)
(*                                                                         *)
(* Every press of Send or Enter runs handleSend once more; several may be  *)
(* at their awaits at the same time, and each has a bubble, a text and an  *)
(* action bar of its own.  The response is an event stream: lines, one for *)
(* each piece of the answer, that the network delivers in chunks which may *)
(* end anywhere.  The closing lines of a stream carry no text and leave    *)
(* the page as it is, so they are left out.                                *)
(*                                                                         *)
(* The knowledge base behind the endpoints is KBContract, which KBServer   *)
(* implements.  Prompts are their own keys here.                           *)
(***************************************************************************)
EXTENDS Naturals, Sequences

CONSTANTS
  Prompts,     \* what the user types, and the keys of the knowledge base
  Like,        \* <<k, j>>: an answer stored for j may be given for k
  SmallTalk,   \* the prompts that get a social reply
  Nothing,     \* no prompt
  MaxSends,    \* bound: prompts sent
  MaxPieces,   \* bound: pieces of a streamed answer
  MaxCalls     \* bound: clicks on the buttons under an answer

ASSUME PromptAssumption ==
  /\ SmallTalk \subseteq Prompts
  /\ Nothing \notin Prompts

ASSUME BoundAssumption == MaxSends \in Nat /\ MaxPieces \in Nat /\ MaxCalls \in Nat

VARIABLES
  history,    \* messageHistory
  disabled,   \* sendBtn.disabled
  reader,     \* where each handleSend is
  asked,      \* prompt of each handleSend
  shown,      \* fullResponse
  saveable,   \* isSaveable
  bar,        \* the buttons under each answer
  calls,      \* the requests the buttons made, in order
  posted,     \* the last message of each chat request
  source,     \* what the server answers with
  stream,     \* whether the server still writes the response
  wire,       \* the lines the page has still to read
  known, flagged, damaged, answered,   \* the knowledge base
  said,       \* history: how many pieces the server wrote
  cut,        \* history: whether a chunk ended inside a line
  seen        \* history: the prompts marked as flagged when each one was sent

pageVars   == <<history, disabled, reader, asked, shown, saveable>>
barVars    == <<bar, calls>>
streamVars == <<posted, source, stream, wire, said>>
kbVars     == <<known, flagged, damaged, answered>>
vars == <<pageVars, barVars, streamVars, kbVars, cut, seen>>

Sends == 1..MaxSends

Contract == INSTANCE KBContract WITH Clients <- Sends, Keys <- Prompts

-----------------------------------------------------------------------------
Message(role, s) == [role |-> role, of |-> s]

\* A line of the stream: piece n of the answer to s.
Line(s, n, mark, text) == [of |-> s, n |-> n, saveable |-> mark, text |-> text]

Lines == [of : Sends, n : Nat, saveable : {"true", "false"}, text : {"word", "blank"}]

NoBar  == [save |-> "none", flag |-> "none"]
FreshBar == [save |-> "ready", flag |-> "ready"]

\* The prompt the server takes from the request: the content of the last message.
Question(s) == asked[posted[s].of]

\* fullResponse.trim() is not empty.
HasText(lines) == \E i \in DOMAIN lines : lines[i].text = "word"

Init ==
  /\ history = <<>> /\ disabled = FALSE
  /\ reader = [s \in Sends |-> "unsent"]
  /\ asked = [s \in Sends |-> Nothing]
  /\ shown = [s \in Sends |-> <<>>]
  /\ saveable = [s \in Sends |-> "true"]
  /\ bar = [s \in Sends |-> NoBar] /\ calls = <<>>
  /\ posted = [s \in Sends |-> Message("user", s)]
  /\ source = [s \in Sends |-> "none"]
  /\ stream = [s \in Sends |-> "none"]
  /\ wire = [s \in Sends |-> <<>>]
  /\ said = [s \in Sends |-> 0]
  /\ Contract!Init
  /\ cut = [s \in Sends |-> FALSE]
  /\ seen = [s \in Sends |-> {}]

-----------------------------------------------------------------------------
(***************************************************************************)
(* handleSend.                                                             *)
(***************************************************************************)

\* Up to the first await.  Enter sends whether the Send button is disabled or not.
Send(s) ==
  /\ reader[s] = "unsent"
  /\ \A t \in 1..(s - 1) : reader[t] # "unsent"
  /\ \E p \in Prompts : asked' = [asked EXCEPT ![s] = p]
  /\ history' = Append(history, Message("user", s))
  /\ posted' = [posted EXCEPT ![s] = history'[Len(history')]]
  /\ reader' = [reader EXCEPT ![s] = "reading"]
  /\ disabled' = TRUE
  /\ stream' = [stream EXCEPT ![s] = "pending"]
  /\ seen' = [seen EXCEPT ![s] = {asked[t] : t \in {t \in Sends : bar[t].flag = "marked"}}]
  /\ UNCHANGED <<shown, saveable, barVars, source, wire, said, kbVars, cut>>

\* Faulty variant: isSaveable is assigned even when no line of the chunk says it.
ReadUndefined(s) ==
  /\ reader[s] = "reading"
  /\ \E n \in 1..Len(wire[s]), whole \in BOOLEAN :
       LET lines == SubSeq(wire[s], 1, IF whole THEN n ELSE n - 1)
       IN  /\ shown' = [shown EXCEPT ![s] = @ \o lines]
           /\ saveable' = [saveable EXCEPT ![s] =
                             IF lines = <<>> THEN "undefined" ELSE lines[Len(lines)].saveable]
           /\ wire' = [wire EXCEPT ![s] = SubSeq(@, n + 1, Len(@))]
           /\ cut' = [cut EXCEPT ![s] = @ \/ ~ whole]
  /\ UNCHANGED <<history, disabled, reader, asked, barVars, posted, source, stream, said,
                 kbVars, seen>>

\* Faulty variant: all sends share one fullResponse.
ReadShared(s) ==
  /\ reader[s] = "reading"
  /\ \E n \in 1..Len(wire[s]), whole \in BOOLEAN :
       LET lines == SubSeq(wire[s], 1, IF whole THEN n ELSE n - 1)
       IN  /\ shown' = [t \in Sends |-> IF reader[t] = "reading" THEN shown[t] \o lines
                                                                ELSE shown[t]]
           /\ wire' = [wire EXCEPT ![s] = SubSeq(@, n + 1, Len(@))]
           /\ cut' = [cut EXCEPT ![s] = @ \/ ~ whole]
  /\ UNCHANGED <<history, disabled, reader, asked, saveable, barVars, posted, source, stream,
                 said, kbVars, seen>>

\* A chunk arrives: some lines, and perhaps the end or the beginning of another one.
\* Neither half of a line that was cut parses, so that line is lost.
Read(s) ==
  /\ reader[s] = "reading"
  /\ \E n \in 1..Len(wire[s]), whole \in BOOLEAN :
       LET lines == SubSeq(wire[s], 1, IF whole THEN n ELSE n - 1)
       IN  /\ shown' = [shown EXCEPT ![s] = @ \o lines]
           /\ saveable' = [saveable EXCEPT ![s] =
                             IF lines = <<>> THEN @ ELSE lines[Len(lines)].saveable]
           /\ wire' = [wire EXCEPT ![s] = SubSeq(@, n + 1, Len(@))]
           /\ cut' = [cut EXCEPT ![s] = @ \/ ~ whole]
  /\ UNCHANGED <<history, disabled, reader, asked, barVars, posted, source, stream, said,
                 kbVars, seen>>

Ends(s, buttons) ==
  /\ reader[s] = "reading" /\ stream[s] = "closed"
  /\ history' = Append(history, Message("assistant", s))
  /\ bar' = [bar EXCEPT ![s] = IF buttons THEN FreshBar ELSE @]
  /\ reader' = [reader EXCEPT ![s] = "done"]
  /\ disabled' = FALSE
  /\ UNCHANGED <<asked, shown, saveable, calls, streamVars, kbVars, cut, seen>>

\* Faulty variant: the loop ends at the server's last chunk, read or not.
FinishEarly(s) == Ends(s, HasText(shown[s]) /\ saveable[s] # "false")

\* Faulty variant: every answer gets buttons.
FinishUnasked(s) == wire[s] = <<>> /\ Ends(s, HasText(shown[s]))

\* Faulty variant: the loop ends when the closing line was read, which may have been cut.
FinishAtMark(s) == wire[s] = <<>> /\ ~ cut[s] /\ Ends(s, HasText(shown[s]) /\ saveable[s] # "false")

\* The response ends: the answer goes to the history, the buttons appear.
Finish(s) == wire[s] = <<>> /\ Ends(s, HasText(shown[s]) /\ saveable[s] # "false")

\* Faulty variant: the error message goes to the history.
FailPushes(s) ==
  /\ reader[s] = "reading" /\ stream[s] = "broken"
  /\ history' = Append(history, Message("assistant", s))
  /\ reader' = [reader EXCEPT ![s] = "failed"]
  /\ disabled' = FALSE
  /\ wire' = [wire EXCEPT ![s] = <<>>]
  /\ UNCHANGED <<asked, shown, saveable, barVars, posted, source, stream, said, kbVars, cut,
                 seen>>

\* fetch or a read is rejected: the bubble says that the engine cannot be reached.
Fail(s) ==
  /\ reader[s] = "reading" /\ stream[s] = "broken"
  /\ reader' = [reader EXCEPT ![s] = "failed"]
  /\ disabled' = FALSE
  /\ wire' = [wire EXCEPT ![s] = <<>>]
  /\ UNCHANGED <<history, asked, shown, saveable, barVars, posted, source, stream, said,
                 kbVars, cut, seen>>

-----------------------------------------------------------------------------
(***************************************************************************)
(* The chat endpoint, as far as a page that asks for a stream sees it.     *)
(***************************************************************************)

Respond(s, from, state, lines) ==
  /\ stream[s] = "pending"
  /\ source' = [source EXCEPT ![s] = from]
  /\ stream' = [stream EXCEPT ![s] = state]
  /\ wire' = [wire EXCEPT ![s] = lines]
  /\ said' = [said EXCEPT ![s] = Len(lines)]
  /\ UNCHANGED <<pageVars, barVars, posted, cut, seen>>

\* A status of 500 has a body without data lines, and the page does not look at it.
Refuse(s) == Respond(s, "error", "closed", <<>>) /\ UNCHANGED kbVars

Socialise(s) ==
  /\ Respond(s, "social", "closed", <<Line(s, 1, "false", "word")>>)
  /\ Question(s) \in SmallTalk
  /\ UNCHANGED kbVars

AnswerFromKB(s) ==
  /\ Respond(s, "kb", "closed", <<Line(s, 1, "true", "word")>>)
  /\ Question(s) \notin SmallTalk
  /\ answered' = [answered EXCEPT ![s] = Question(s)]
  /\ Contract!Answer(s)

\* No hit, a challenge, or a failing search: the model streams.
StartModel(s) ==
  /\ Respond(s, "model", "open", <<>>)
  /\ Question(s) \notin SmallTalk
  /\ UNCHANGED kbVars

Speak(s) ==
  /\ stream[s] = "open" /\ said[s] < MaxPieces
  /\ said' = [said EXCEPT ![s] = @ + 1]
  /\ \E text \in {"word", "blank"} :
       wire' = [wire EXCEPT ![s] = Append(@, Line(s, said'[s], "true", text))]
  /\ UNCHANGED <<pageVars, barVars, posted, source, stream, kbVars, cut, seen>>

\* The model stops, or fails, which looks the same.
Close(s) ==
  /\ stream[s] = "open"
  /\ stream' = [stream EXCEPT ![s] = "closed"]
  /\ UNCHANGED <<pageVars, barVars, posted, source, wire, said, kbVars, cut, seen>>

\* The connection of a request is lost.
Break(s) ==
  /\ reader[s] = "reading" /\ stream[s] # "broken"
  /\ stream' = [stream EXCEPT ![s] = "broken"]
  /\ UNCHANGED <<pageVars, barVars, posted, source, wire, said, kbVars, cut, seen>>

-----------------------------------------------------------------------------
(***************************************************************************)
(* The buttons and their endpoints.                                        *)
(***************************************************************************)

\* A click is possible until the button is marked, an earlier click pending or not.
Click(s, button) ==
  /\ bar[s][button] = "ready" /\ Len(calls) < MaxCalls
  /\ calls' = Append(calls, [op |-> button, of |-> s, status |-> "sent"])
  /\ UNCHANGED <<pageVars, bar, streamVars, kbVars, cut, seen>>

Becomes(i, status) ==
  /\ calls' = [calls EXCEPT ![i].status = status]
  /\ UNCHANGED <<pageVars, bar, streamVars, answered, cut, seen>>

KeyOf(i) == asked[calls[i].of]

\* save_to_kb_endpoint.
ServeSave(i) ==
  /\ calls[i].op = "save" /\ calls[i].status = "sent"
  /\ \/ /\ Becomes(i, "ok")
        /\ known' = known \cup {KeyOf(i)}
        /\ Contract!Store
     \/ Becomes(i, "failed") /\ UNCHANGED kbVars

\* Faulty variant: the row goes, and nothing is put on record.
ServeFlagUnlogged(i) ==
  /\ calls[i].op = "flag" /\ calls[i].status = "sent"
  /\ Becomes(i, "ok")
  /\ known' = known \ {KeyOf(i)}
  /\ UNCHANGED <<flagged, damaged>>

\* flag_error_endpoint: the record first, then the row.
ServeFlag(i) ==
  /\ calls[i].op = "flag" /\ calls[i].status = "sent"
  /\ \/ /\ Becomes(i, "logged")
        /\ flagged' = flagged \cup {KeyOf(i)}
        /\ Contract!Flag
     \/ Becomes(i, "failed") /\ UNCHANGED kbVars

ServePurge(i) ==
  /\ calls[i].status = "logged"
  /\ \/ /\ Becomes(i, "ok")
        /\ known' = known \ {KeyOf(i)}
        /\ IF KeyOf(i) \in known THEN Contract!Forget ELSE UNCHANGED kbVars
     \/ Becomes(i, "failed") /\ UNCHANGED kbVars

\* Faulty variant: the mark appears whatever the status of the response.
ReturnsUnchecked(i) ==
  /\ calls[i].status \in {"ok", "failed"}
  /\ calls' = [calls EXCEPT ![i].status = "over"]
  /\ bar' = [bar EXCEPT ![calls[i].of][calls[i].op] = "marked"]
  /\ UNCHANGED <<pageVars, streamVars, kbVars, cut, seen>>

\* The response of a button's request: if it is ok the button is marked and disabled.
Returns(i) ==
  /\ calls[i].status \in {"ok", "failed"}
  /\ calls' = [calls EXCEPT ![i].status = "over"]
  /\ bar' = IF calls[i].status = "ok"
            THEN [bar EXCEPT ![calls[i].of][calls[i].op] = "marked"] ELSE bar
  /\ UNCHANGED <<pageVars, streamVars, kbVars, cut, seen>>

-----------------------------------------------------------------------------
(***************************************************************************)
(* What happens to the server apart from this page's requests.             *)
(***************************************************************************)

\* It stores answers: at a boot, or for another client.
StoresElsewhere ==
  /\ \E p \in Prompts : known' = known \cup {p}
  /\ Contract!Store
  /\ UNCHANGED <<pageVars, barVars, streamVars, cut, seen>>

LosesRecord ==
  /\ Contract!Lose
  /\ UNCHANGED <<pageVars, barVars, streamVars, cut, seen>>

\* It restarts: responses that are not complete break off, and requests are lost.  Those
\* of the complete responses that are arriving still reach the buttons.
Restart ==
  /\ Contract!Restart
  /\ stream' = [s \in Sends |-> IF stream[s] \in {"pending", "open"} THEN "broken" ELSE stream[s]]
  /\ \E arriving \in SUBSET {i \in DOMAIN calls : calls[i].status \in {"ok", "failed"}} :
       calls' = [i \in DOMAIN calls |-> IF i \in arriving THEN calls[i]
                                        ELSE [calls[i] EXCEPT !.status = "over"]]
  /\ UNCHANGED <<pageVars, bar, posted, source, wire, said, cut, seen>>

Answers(s) ==
  Refuse(s) \/ Socialise(s) \/ AnswerFromKB(s) \/ StartModel(s) \/ Close(s)

Page(s) == Read(s) \/ Finish(s) \/ Fail(s)

Next ==
  \/ \E s \in Sends : \/ Send(s) \/ Page(s) \/ Answers(s) \/ Speak(s) \/ Break(s)
                      \/ \E button \in {"save", "flag"} : Click(s, button)
  \/ \E i \in DOMAIN calls : ServeSave(i) \/ ServeFlag(i) \/ ServePurge(i) \/ Returns(i)
  \/ StoresElsewhere \/ LosesRecord \/ Restart

Spec == Init /\ [][Next]_vars

\* The page's event loop runs what is ready; the server answers every request or loses
\* the connection, and the model stops after max_tokens.
Fairness == \A s \in Sends : WF_vars(Page(s)) /\ WF_vars(Answers(s))

FairSpec == Spec /\ Fairness

-----------------------------------------------------------------------------
(***************************************************************************)
(* Properties.                                                             *)
(***************************************************************************)

\* Every variable has its type.
TypeOK ==
  /\ history \in Seq([role : {"user", "assistant"}, of : Sends])
  /\ disabled \in BOOLEAN
  /\ reader \in [Sends -> {"unsent", "reading", "done", "failed"}]
  /\ asked \in [Sends -> Prompts \cup {Nothing}]
  /\ shown \in [Sends -> Seq(Lines)]
  /\ saveable \in [Sends -> {"true", "false"}]
  /\ bar \in [Sends -> [save : {"none", "ready", "marked"}, flag : {"none", "ready", "marked"}]]
  /\ calls \in Seq([op : {"save", "flag"}, of : Sends,
                    status : {"sent", "logged", "ok", "failed", "over"}])
  /\ posted \in [Sends -> [role : {"user", "assistant"}, of : Sends]]
  /\ source \in [Sends -> {"none", "error", "social", "kb", "model"}]
  /\ stream \in [Sends -> {"none", "pending", "open", "closed", "broken"}]
  /\ wire \in [Sends -> Seq(Lines)]
  /\ said \in [Sends -> Nat]
  /\ known \subseteq Prompts /\ flagged \subseteq Prompts /\ damaged \in BOOLEAN
  /\ answered \in [Sends -> Prompts \cup {Nothing}]
  /\ cut \in [Sends -> BOOLEAN]
  /\ seen \in [Sends -> SUBSET (Prompts \cup {Nothing})]

\* What a bubble shows was written for its own prompt, in the order it was written
\* and no piece twice, however many answers are read at once (index.html:180-198).
ShownInOrder ==
  \A s \in Sends :
    LET text == shown[s] \o wire[s]
    IN  \A i \in DOMAIN text : /\ text[i].of = s /\ text[i].n <= said[s]
                               /\ \A j \in 1..(i - 1) : text[j].n < text[i].n

\* A bubble that is done shows all that the server wrote, and so does what its buttons
\* send, unless a chunk ended inside a line (index.html:183-195).
WholeUnlessCut ==
  \A s \in Sends : (reader[s] = "done" /\ ~ cut[s]) => Len(shown[s]) = said[s]

\* Only answers of the model and of the knowledge base have buttons, and so only they
\* reach the save and flag endpoints: no social reply and no error does
\* (index.html:116, server.py:398).
ButtonsUnderAnswers ==
  \A s \in Sends :
    (bar[s] # NoBar \/ \E i \in DOMAIN calls : calls[i].of = s)
      => source[s] \in {"kb", "model"} /\ Question(s) \notin SmallTalk

InHistory(message) == \E i \in DOMAIN history : history[i] = message

\* The history holds each prompt once, in the order they were sent, and after each prompt
\* that was answered, and only there, one answer (index.html:166, 199).
HistoryMatches ==
  /\ \A s \in Sends : /\ InHistory(Message("user", s)) <=> reader[s] # "unsent"
                      /\ InHistory(Message("assistant", s)) <=> reader[s] = "done"
  /\ \A i \in DOMAIN history :
       \A j \in 1..(i - 1) :
         /\ history[j].role = "user" /\ history[i].role = "user" => history[j].of < history[i].of
         /\ history[j].of = history[i].of => history[j].role = "user" /\ history[i].role = "assistant"

\* The prompt of an answer marked as saved keeps a row in the knowledge base, or is on
\* record as wrong, as long as the record is not lost (index.html:130-133).  Whether the
\* row still has that answer is not stated: a boot or a later save may replace it.
MarkedKeysKept ==
  \A s \in Sends : bar[s].save = "marked" => asked[s] \in known \cup flagged \/ damaged

\* A prompt sent after its answer was marked as flagged is not answered from the
\* knowledge base, as long as the record of flags is not lost (index.html:146-149).
MarkedFlagsHonoured ==
  \A s \in Sends : source[s] = "kb" => asked[s] \notin seen[s] \/ damaged

\* Every answer is read to its end or given up, cut lines and all (index.html:180-206).
EverySendEnds == \A s \in Sends : reader[s] = "reading" ~> reader[s] \in {"done", "failed"}
=============================================================================
