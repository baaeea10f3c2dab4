-------------------------- MODULE ChatPageProofs ---------------------------
(***************************************************************************)
(* Proofs about the chat page: for any prompts, any number of prompts sent *)
(* at once, of pieces and of clicks, and any chunks.                       *)
(***************************************************************************)
EXTENDS ChatPage, SequenceTheorems, TLAPS

-----------------------------------------------------------------------------
(***************************************************************************)
(* Types.                                                                  *)
(***************************************************************************)

\* What one chunk moves from the wire to the bubble.
LEMMA ChunkIsLines ==
  ASSUME NEW w \in Seq(Lines), NEW n \in 1..Len(w), NEW whole \in BOOLEAN
  PROVE  /\ SubSeq(w, 1, IF whole THEN n ELSE n - 1) \in Seq(Lines)
         /\ SubSeq(w, n + 1, Len(w)) \in Seq(Lines)
  OBVIOUS

LEMMA TypesBegin == Init => TypeOK
<1> SUFFICES ASSUME Init PROVE TypeOK
  OBVIOUS
<1>1. /\ wire \in [Sends -> Seq(Lines)] /\ shown \in [Sends -> Seq(Lines)]
      /\ history \in Seq([role : {"user", "assistant"}, of : Sends])
      /\ calls \in Seq([op : {"save", "flag"}, of : Sends,
                        status : {"sent", "logged", "ok", "failed", "over"}])
  BY DEF Init
<1>2. /\ posted \in [Sends -> [role : {"user", "assistant"}, of : Sends]]
      /\ bar \in [Sends -> [save : {"none", "ready", "marked"}, flag : {"none", "ready", "marked"}]]
  BY DEF Init, Message, NoBar
<1>3. /\ known = {} /\ flagged = {} /\ damaged = FALSE
      /\ answered = [s \in Sends |-> Nothing]
  BY DEF Init, Contract!Init
<1> QED
  BY <1>1, <1>2, <1>3 DEF Init, TypeOK

LEMMA SendTypes ==
  ASSUME TypeOK, NEW s \in Sends, Send(s)
  PROVE  TypeOK'
<1> USE DEF TypeOK
<1>1. Message("user", s) \in [role : {"user", "assistant"}, of : Sends]
  BY DEF Message
<1>2. /\ history' \in Seq([role : {"user", "assistant"}, of : Sends])
      /\ history'[Len(history')] = Message("user", s)
  BY <1>1 DEF Send
<1>3. posted' \in [Sends -> [role : {"user", "assistant"}, of : Sends]]
  BY <1>1, <1>2 DEF Send
<1>4. asked' \in [Sends -> Prompts \cup {Nothing}]
  BY DEF Send
<1>5. seen' \in [Sends -> SUBSET (Prompts \cup {Nothing})]
  BY DEF Send
<1>6. /\ reader' \in [Sends -> {"unsent", "reading", "done", "failed"}]
      /\ disabled' \in BOOLEAN
      /\ stream' \in [Sends -> {"none", "pending", "open", "closed", "broken"}]
  BY DEF Send
<1> QED
  BY <1>2, <1>3, <1>4, <1>5, <1>6 DEF Send, barVars, kbVars

LEMMA ReadTypes ==
  ASSUME TypeOK, NEW s \in Sends, Read(s)
  PROVE  TypeOK'
<1> USE DEF TypeOK
<1>1. PICK n \in 1..Len(wire[s]), whole \in BOOLEAN :
        LET lines == SubSeq(wire[s], 1, IF whole THEN n ELSE n - 1)
        IN  /\ shown' = [shown EXCEPT ![s] = @ \o lines]
            /\ saveable' = [saveable EXCEPT ![s] =
                              IF lines = <<>> THEN @ ELSE lines[Len(lines)].saveable]
            /\ wire' = [wire EXCEPT ![s] = SubSeq(@, n + 1, Len(@))]
            /\ cut' = [cut EXCEPT ![s] = @ \/ ~ whole]
  BY Zenon DEF Read
<1> DEFINE lines == SubSeq(wire[s], 1, IF whole THEN n ELSE n - 1)
<1>2. lines \in Seq(Lines) /\ SubSeq(wire[s], n + 1, Len(wire[s])) \in Seq(Lines)
  BY ChunkIsLines
<1>3. shown' \in [Sends -> Seq(Lines)] /\ wire' \in [Sends -> Seq(Lines)]
  <2>1. shown[s] \o lines \in Seq(Lines)
    BY <1>2
  <2> QED
    BY <1>1, <1>2, <2>1
<1>4. saveable' \in [Sends -> {"true", "false"}]
  <2>1. lines # <<>> => lines[Len(lines)] \in Lines
    BY <1>2
  <2>2. lines # <<>> => lines[Len(lines)].saveable \in {"true", "false"}
    BY <2>1 DEF Lines
  <2> QED
    BY <1>1, <2>2
<1>5. cut' \in [Sends -> BOOLEAN]
  BY <1>1
<1> QED
  BY <1>3, <1>4, <1>5 DEF Read, barVars, kbVars

LEMMA EndTypes ==
  ASSUME TypeOK, NEW s \in Sends, Finish(s) \/ Fail(s)
  PROVE  TypeOK'
<1> USE DEF TypeOK
<1>1. CASE Finish(s)
  <2>1. PICK buttons \in BOOLEAN : Ends(s, buttons)
    BY <1>1 DEF Finish
  <2>2. Message("assistant", s) \in [role : {"user", "assistant"}, of : Sends]
    BY DEF Message
  <2>3. history' \in Seq([role : {"user", "assistant"}, of : Sends])
    BY <2>1, <2>2 DEF Ends
  <2>4. bar' \in [Sends -> [save : {"none", "ready", "marked"}, flag : {"none", "ready", "marked"}]]
    BY <2>1 DEF Ends, FreshBar
  <2> QED
    BY <2>1, <2>3, <2>4 DEF Ends, streamVars, kbVars
<1>2. CASE Fail(s)
  <2>1. <<>> \in Seq(Lines)
    OBVIOUS
  <2> QED
    BY <1>2, <2>1 DEF Fail, barVars, kbVars
<1> QED
  BY <1>1, <1>2

\* The server's response to one prompt.
LEMMA RespondTypes ==
  ASSUME TypeOK, NEW s \in Sends, NEW from \in {"error", "social", "kb", "model"},
         NEW state \in {"open", "closed"}, NEW lines \in Seq(Lines),
         Respond(s, from, state, lines),
         known' \subseteq Prompts, flagged' \subseteq Prompts, damaged' \in BOOLEAN,
         answered' \in [Sends -> Prompts \cup {Nothing}]
  PROVE  TypeOK'
<1>1. Len(lines) \in Nat
  OBVIOUS
<1> QED
  BY <1>1 DEF TypeOK, Respond, pageVars, barVars

LEMMA AnswersTypes ==
  ASSUME TypeOK, NEW s \in Sends, Answers(s) \/ Speak(s) \/ Break(s)
  PROVE  TypeOK'
<1>1. /\ known \subseteq Prompts /\ flagged \subseteq Prompts /\ damaged \in BOOLEAN
      /\ answered \in [Sends -> Prompts \cup {Nothing}]
      /\ <<>> \in Seq(Lines)
      /\ <<Line(s, 1, "false", "word")>> \in Seq(Lines)
      /\ <<Line(s, 1, "true", "word")>> \in Seq(Lines)
  BY DEF TypeOK, Line, Lines
<1>2. CASE Refuse(s) \/ Socialise(s) \/ StartModel(s)
  BY <1>1, <1>2, RespondTypes DEF Refuse, Socialise, StartModel, kbVars
<1>3. CASE AnswerFromKB(s)
  <2>1. /\ UNCHANGED <<known, flagged, damaged>>
        /\ answered' \in [Sends -> Prompts \cup {Nothing}]
    BY <1>1, <1>3 DEF AnswerFromKB, Contract!Answer
  <2> QED
    BY <1>1, <1>3, <2>1, RespondTypes DEF AnswerFromKB
<1>4. CASE Speak(s)
  <2>1. said' \in [Sends -> Nat]
    BY <1>4 DEF Speak, TypeOK
  <2>2. PICK text \in {"word", "blank"} :
          wire' = [wire EXCEPT ![s] = Append(@, Line(s, said'[s], "true", text))]
    BY <1>4 DEF Speak
  <2>3. Line(s, said'[s], "true", text) \in Lines
    BY <2>1 DEF Line, Lines
  <2>4. wire' \in [Sends -> Seq(Lines)]
    BY <2>2, <2>3 DEF TypeOK
  <2> QED
    BY <1>4, <2>1, <2>4 DEF Speak, TypeOK, pageVars, barVars, kbVars
<1>5. CASE Close(s) \/ Break(s)
  <2>1. stream' \in [Sends -> {"none", "pending", "open", "closed", "broken"}]
    <3>1. stream \in [Sends -> {"none", "pending", "open", "closed", "broken"}]
      BY DEF TypeOK
    <3>2. \/ stream' = [stream EXCEPT ![s] = "closed"]
          \/ stream' = [stream EXCEPT ![s] = "broken"]
      BY <1>5 DEF Close, Break
    <3> QED
      BY <3>1, <3>2
  <2>2. UNCHANGED <<pageVars, barVars, posted, source, wire, said, kbVars, cut, seen>>
    BY <1>5 DEF Close, Break
  <2> QED
    BY <2>1, <2>2 DEF TypeOK, pageVars, barVars, kbVars
<1> QED
  BY <1>2, <1>3, <1>4, <1>5 DEF Answers

Call == [op : {"save", "flag"}, of : Sends, status : {"sent", "logged", "ok", "failed", "over"}]

LEMMA ClickTypes ==
  ASSUME TypeOK, NEW s \in Sends, NEW button \in {"save", "flag"}, Click(s, button)
  PROVE  TypeOK'
<1>1. [op |-> button, of |-> s, status |-> "sent"] \in Call
  BY DEF Call
<1>2. calls' \in Seq(Call)
  BY <1>1 DEF Click, TypeOK, Call
<1> QED
  BY <1>2 DEF Click, TypeOK, Call, pageVars, streamVars, kbVars

\* A call that changes its status is a call.
LEMMA StatusIsCall ==
  ASSUME TypeOK, NEW i \in DOMAIN calls, NEW status \in {"ok", "logged", "failed", "over"}
  PROVE  /\ [calls EXCEPT ![i].status = status] \in Seq(Call)
         /\ DOMAIN [calls EXCEPT ![i].status = status] = DOMAIN calls
         /\ \A j \in DOMAIN calls \ {i} : [calls EXCEPT ![i].status = status][j] = calls[j]
         /\ [calls EXCEPT ![i].status = status][i]
              = [op |-> calls[i].op, of |-> calls[i].of, status |-> status]
<1>1. calls \in Seq(Call)
  BY DEF TypeOK, Call
<1>2. calls[i] \in Call
  BY <1>1
<1>3. [calls[i] EXCEPT !.status = status]
        = [op |-> calls[i].op, of |-> calls[i].of, status |-> status]
  BY <1>2 DEF Call
<1>4. [op |-> calls[i].op, of |-> calls[i].of, status |-> status] \in Call
  BY <1>2 DEF Call
<1>5. [calls EXCEPT ![i].status = status] = [calls EXCEPT ![i] = [calls[i] EXCEPT !.status = status]]
  OBVIOUS
<1> QED
  BY <1>1, <1>3, <1>4, <1>5

LEMMA CallsAreCalls ==
  ASSUME TypeOK, NEW i \in DOMAIN calls
  PROVE  /\ calls[i] \in Call
         /\ calls[i].of \in Sends /\ calls[i].op \in {"save", "flag"}
         /\ calls[i].status \in {"sent", "logged", "ok", "failed", "over"}
<1>1. calls \in Seq(Call)
  BY DEF TypeOK, Call
<1>2. calls[i] \in Call
  BY <1>1
<1> QED
  BY <1>2 DEF Call

\* The key of a call is a prompt: its answer has buttons, so it was sent.
SentInv ==
  /\ \A s \in Sends : reader[s] # "unsent" => asked[s] \in Prompts
  /\ \A s \in Sends : reader[s] # "done" => bar[s] = NoBar
  /\ \A i \in DOMAIN calls : reader[calls[i].of] = "done"
  /\ \A s \in Sends : reader[s] = "unsent" => source[s] = "none" /\ stream[s] = "none"
  /\ \A s \in Sends : posted[s].of = s

LEMMA CallTypes ==
  ASSUME TypeOK, SentInv, NEW i \in DOMAIN calls,
         ServeSave(i) \/ ServeFlag(i) \/ ServePurge(i) \/ Returns(i)
  PROVE  TypeOK'
<1>2. calls[i].of \in Sends /\ calls[i].op \in {"save", "flag"}
  BY CallsAreCalls
<1>3. KeyOf(i) \in Prompts
  BY <1>2 DEF SentInv, KeyOf
<1>4. CASE ServeSave(i) \/ ServeFlag(i) \/ ServePurge(i)
  <2>1. PICK status \in {"ok", "logged", "failed", "over"} : Becomes(i, status)
    BY <1>4 DEF ServeSave, ServeFlag, ServePurge
  <2>2. calls' \in Seq(Call)
    <3>1. calls' = [calls EXCEPT ![i].status = status]
      BY <2>1 DEF Becomes
    <3>2. [calls EXCEPT ![i].status = status] \in Seq(Call)
      BY StatusIsCall
    <3> QED
      BY <3>1, <3>2
  <2>3. known' \subseteq Prompts /\ flagged' \subseteq Prompts /\ damaged' \in BOOLEAN
    BY <1>3, <1>4 DEF ServeSave, ServeFlag, ServePurge, Contract!Store, Contract!Flag,
                      Contract!Forget, kbVars, TypeOK
  <2>4. UNCHANGED <<pageVars, bar, streamVars, answered, cut, seen>>
    BY <2>1 DEF Becomes
  <2> QED
    BY <2>2, <2>3, <2>4 DEF TypeOK, Call, pageVars, streamVars
<1>5. CASE Returns(i)
  <2>1. calls' \in Seq(Call)
    <3>1. calls' = [calls EXCEPT ![i].status = "over"]
      BY <1>5 DEF Returns
    <3>2. [calls EXCEPT ![i].status = "over"] \in Seq(Call)
      BY StatusIsCall
    <3> QED
      BY <3>1, <3>2
  <2>2. bar' \in [Sends -> [save : {"none", "ready", "marked"}, flag : {"none", "ready", "marked"}]]
    <3>1. bar \in [Sends -> [save : {"none", "ready", "marked"}, flag : {"none", "ready", "marked"}]]
      BY DEF TypeOK
    <3>2. bar' = bar \/ bar' = [bar EXCEPT ![calls[i].of][calls[i].op] = "marked"]
      BY <1>5 DEF Returns
    <3>3. CASE calls[i].op = "save"
      BY <1>2, <3>1, <3>2, <3>3
    <3>4. CASE calls[i].op = "flag"
      BY <1>2, <3>1, <3>2, <3>4
    <3> QED
      BY <1>2, <3>3, <3>4
  <2>3. UNCHANGED <<pageVars, streamVars, kbVars, cut, seen>>
    BY <1>5 DEF Returns
  <2> QED
    BY <2>1, <2>2, <2>3 DEF TypeOK, Call, pageVars, streamVars, kbVars
<1> QED
  BY <1>4, <1>5

LEMMA ElsewhereTypes ==
  ASSUME TypeOK, StoresElsewhere \/ LosesRecord \/ Restart
  PROVE  TypeOK'
<1>1. CASE StoresElsewhere
  BY <1>1 DEF StoresElsewhere, Contract!Store, TypeOK, pageVars, barVars, streamVars
<1>2. CASE LosesRecord
  BY <1>2 DEF LosesRecord, Contract!Lose, TypeOK, pageVars, barVars, streamVars
<1>3. CASE Restart
  <2>1. calls' \in Seq(Call)
    <3>1. calls \in Seq(Call)
      BY DEF TypeOK, Call
    <3>2. ASSUME NEW i \in DOMAIN calls
          PROVE  [calls[i] EXCEPT !.status = "over"] \in Call
      <4>1. calls[i] \in Call
        BY <3>1
      <4> QED
        BY <4>1 DEF Call
    <3> QED
      BY <1>3, <3>1, <3>2 DEF Restart
  <2>2. stream' \in [Sends -> {"none", "pending", "open", "closed", "broken"}]
    BY <1>3 DEF Restart, TypeOK
  <2>3. /\ known' \subseteq Prompts /\ flagged' \subseteq Prompts /\ damaged' \in BOOLEAN
        /\ answered' \in [Sends -> Prompts \cup {Nothing}]
    BY <1>3 DEF Restart, Contract!Restart, TypeOK
  <2>4. UNCHANGED <<pageVars, bar, posted, source, wire, said, cut, seen>>
    BY <1>3 DEF Restart
  <2> QED
    BY <2>1, <2>2, <2>3, <2>4 DEF TypeOK, Call, pageVars
<1> QED
  BY <1>1, <1>2, <1>3

\* Every step keeps the types.
LEMMA TypesKept == TypeOK /\ SentInv /\ [Next]_vars => TypeOK'
<1> SUFFICES ASSUME TypeOK, SentInv, [Next]_vars PROVE TypeOK'
  OBVIOUS
<1>1. CASE UNCHANGED vars
  BY <1>1 DEF vars, pageVars, barVars, streamVars, kbVars, TypeOK
<1> QED
  BY <1>1, SendTypes, ReadTypes, EndTypes, AnswersTypes, ClickTypes, CallTypes, ElsewhereTypes
     DEF Next, Page

-----------------------------------------------------------------------------
(***************************************************************************)
(* Prompts are sent before anything is known of them.                      *)
(***************************************************************************)

LEMMA SentBegins == Init => SentInv
  BY DEF Init, SentInv, Message

\* What a step on a sent prompt leaves as it was.
LEMMA SendSent ==
  ASSUME TypeOK, SentInv, NEW s \in Sends, Send(s)
  PROVE  SentInv'
<1>1. /\ reader[s] = "unsent" /\ reader' = [reader EXCEPT ![s] = "reading"]
      /\ stream' = [stream EXCEPT ![s] = "pending"]
      /\ \E p \in Prompts : asked' = [asked EXCEPT ![s] = p]
      /\ UNCHANGED <<bar, calls, source>>
  BY DEF Send, barVars
<1>2. /\ reader \in [Sends -> {"unsent", "reading", "done", "failed"}]
      /\ asked \in [Sends -> Prompts \cup {Nothing}]
      /\ stream \in [Sends -> {"none", "pending", "open", "closed", "broken"}]
      /\ posted \in [Sends -> [role : {"user", "assistant"}, of : Sends]]
  BY DEF TypeOK
<1>3. posted' = [posted EXCEPT ![s] = Message("user", s)]
  <2>1. Message("user", s) \in [role : {"user", "assistant"}, of : Sends]
    BY DEF Message
  <2>2. history'[Len(history')] = Message("user", s)
    BY <2>1 DEF Send, TypeOK
  <2> QED
    BY <2>2 DEF Send
<1>4. \A t \in Sends : posted'[t].of = t
  BY <1>2, <1>3 DEF SentInv, Message
<1>5. \A i \in DOMAIN calls : calls[i].of \in Sends
  BY CallsAreCalls
<1> QED
  BY <1>1, <1>2, <1>4, <1>5 DEF SentInv

LEMMA OthersSent ==
  ASSUME TypeOK, SentInv, NEW s \in Sends, Page(s) \/ Answers(s) \/ Speak(s) \/ Break(s)
  PROVE  SentInv'
<1>1. /\ reader \in [Sends -> {"unsent", "reading", "done", "failed"}]
      /\ bar \in [Sends -> [save : {"none", "ready", "marked"}, flag : {"none", "ready", "marked"}]]
      /\ stream \in [Sends -> {"none", "pending", "open", "closed", "broken"}]
      /\ source \in [Sends -> {"none", "error", "social", "kb", "model"}]
  BY DEF TypeOK
<1>0. \A i \in DOMAIN calls : calls[i].of \in Sends
  BY CallsAreCalls
<1>2. UNCHANGED <<asked, posted, calls>>
  BY DEF Page, Read, Finish, Ends, Fail, Answers, Refuse, Socialise, AnswerFromKB, StartModel,
         Respond, Close, Speak, Break, pageVars, barVars, streamVars
<1>3. CASE Page(s)
  <2>1. /\ reader[s] = "reading"
        /\ \A t \in Sends \ {s} : reader'[t] = reader[t] /\ bar'[t] = bar[t]
        /\ reader'[s] # "unsent" /\ (reader'[s] # "done" => bar'[s] = bar[s])
        /\ UNCHANGED <<source, stream>>
    BY <1>1, <1>3 DEF Page, Read, Finish, Ends, Fail, barVars, streamVars
  <2> QED
    BY <1>0, <1>1, <1>2, <2>1 DEF SentInv
<1>4. CASE Answers(s) \/ Speak(s) \/ Break(s)
  <2>1. /\ UNCHANGED <<reader, bar>>
        /\ \A t \in Sends \ {s} : source'[t] = source[t] /\ stream'[t] = stream[t]
    BY <1>1, <1>4 DEF Answers, Refuse, Socialise, AnswerFromKB, StartModel,
         Respond, Close, Speak, Break, pageVars, barVars
  <2>2. stream[s] # "none" \/ reader[s] # "unsent"
    BY <1>4 DEF Answers, Refuse, Socialise, AnswerFromKB, StartModel,
         Respond, Close, Speak, Break
  <2>3. reader[s] # "unsent"
    BY <2>2 DEF SentInv
  <2> QED
    BY <1>0, <1>1, <1>2, <2>1, <2>3 DEF SentInv
<1> QED
  BY <1>3, <1>4

\* What an action on the buttons leaves as it was.
LEMMA CallsStay ==
  ASSUME TypeOK, NEW i \in DOMAIN calls,
         ServeSave(i) \/ ServeFlag(i) \/ ServePurge(i) \/ Returns(i)
  PROVE  /\ DOMAIN calls' = DOMAIN calls
         /\ \A j \in DOMAIN calls : calls'[j].op = calls[j].op /\ calls'[j].of = calls[j].of
         /\ \A j \in DOMAIN calls \ {i} : calls'[j] = calls[j]
<1>1. PICK status \in {"ok", "logged", "failed", "over"} :
        calls' = [calls EXCEPT ![i].status = status]
  BY DEF ServeSave, ServeFlag, ServePurge, Returns, Becomes
<1>2. /\ DOMAIN calls' = DOMAIN calls
      /\ \A j \in DOMAIN calls \ {i} : calls'[j] = calls[j]
      /\ calls'[i] = [op |-> calls[i].op, of |-> calls[i].of, status |-> status]
  BY <1>1, StatusIsCall
<1> QED
  BY <1>2

LEMMA ClickAdds ==
  ASSUME TypeOK, NEW s \in Sends, NEW button \in {"save", "flag"},
         calls' = Append(calls, [op |-> button, of |-> s, status |-> "sent"])
  PROVE  /\ DOMAIN calls' = DOMAIN calls \cup {Len(calls) + 1}
         /\ \A i \in DOMAIN calls : calls'[i] = calls[i]
         /\ calls'[Len(calls) + 1] = [op |-> button, of |-> s, status |-> "sent"]
<1>1. calls \in Seq(Call)
  BY DEF TypeOK, Call
<1>2. [op |-> button, of |-> s, status |-> "sent"] \in Call
  BY DEF Call
<1> QED
  BY <1>1, <1>2

LEMMA ClickSent ==
  ASSUME TypeOK, SentInv, NEW s \in Sends, NEW button \in {"save", "flag"}, Click(s, button)
  PROVE  SentInv'
<1>1. UNCHANGED <<reader, asked, posted, bar, source, stream>>
  BY DEF Click, pageVars, streamVars
<1>2. reader[s] = "done"
  BY DEF Click, SentInv, NoBar
<1>3. /\ DOMAIN calls' = DOMAIN calls \cup {Len(calls) + 1}
      /\ \A i \in DOMAIN calls : calls'[i] = calls[i]
      /\ calls'[Len(calls) + 1].of = s
  <2>1. calls' = Append(calls, [op |-> button, of |-> s, status |-> "sent"])
    BY DEF Click
  <2> QED
    BY <2>1, ClickAdds
<1> QED
  BY <1>1, <1>2, <1>3 DEF SentInv

LEMMA CallSent ==
  ASSUME TypeOK, SentInv, NEW i \in DOMAIN calls,
         ServeSave(i) \/ ServeFlag(i) \/ ServePurge(i) \/ Returns(i)
  PROVE  SentInv'
<1>1. UNCHANGED <<reader, asked, posted, source, stream>>
  BY DEF ServeSave, ServeFlag, ServePurge, Returns, Becomes, pageVars, streamVars
<1>2. \A j \in DOMAIN calls' : j \in DOMAIN calls /\ calls'[j].of = calls[j].of
  BY CallsStay
<1>3. ASSUME NEW s \in Sends, reader[s] # "done" PROVE bar'[s] = bar[s]
  <2>1. calls[i].of # s
    BY <1>3 DEF SentInv
  <2>2. bar \in [Sends -> [save : {"none", "ready", "marked"}, flag : {"none", "ready", "marked"}]]
    BY DEF TypeOK
  <2> QED
    BY <2>1, <2>2 DEF ServeSave, ServeFlag, ServePurge, Returns, Becomes
<1> QED
  BY <1>1, <1>2, <1>3 DEF SentInv

LEMMA ElsewhereSent ==
  ASSUME TypeOK, SentInv, StoresElsewhere \/ LosesRecord \/ Restart
  PROVE  SentInv'
<1>1. UNCHANGED <<reader, asked, posted, bar, source>>
  BY DEF StoresElsewhere, LosesRecord, Restart, pageVars, barVars, streamVars
<1>2. \A j \in DOMAIN calls' : j \in DOMAIN calls /\ calls'[j].of = calls[j].of
  <2>1. CASE UNCHANGED calls
    BY <2>1
  <2>2. CASE Restart
    <3>1. \A j \in DOMAIN calls : calls[j] \in Call
      BY CallsAreCalls
    <3> QED
      BY <2>2, <3>1 DEF Restart, Call
  <2> QED
    BY <2>1, <2>2 DEF StoresElsewhere, LosesRecord, barVars
<1>3. \A s \in Sends : stream[s] = "none" => stream'[s] = "none"
  <2>1. CASE UNCHANGED stream
    BY <2>1
  <2>2. CASE Restart
    BY <2>2 DEF Restart
  <2> QED
    BY <2>1, <2>2 DEF StoresElsewhere, LosesRecord, streamVars
<1> QED
  BY <1>1, <1>2, <1>3 DEF SentInv

LEMMA SentKept == TypeOK /\ SentInv /\ [Next]_vars => SentInv'
<1> SUFFICES ASSUME TypeOK, SentInv, [Next]_vars PROVE SentInv'
  OBVIOUS
<1>1. CASE UNCHANGED vars
  BY <1>1 DEF vars, pageVars, barVars, streamVars, SentInv
<1> QED
  BY <1>1, SendSent, OthersSent, ClickSent, CallSent, ElsewhereSent DEF Next

\* Every variable of the page keeps its type (index.html:159-212).
THEOREM TypeCorrect == Spec => []TypeOK
<1>1. Init => TypeOK /\ SentInv
  BY TypesBegin, SentBegins
<1>2. TypeOK /\ SentInv /\ [Next]_vars => TypeOK' /\ SentInv'
  BY TypesKept, SentKept
<1> QED
  BY <1>1, <1>2, PTL DEF Spec

-----------------------------------------------------------------------------
(***************************************************************************)
(* What the buttons say.  A mark is made from a response, so the invariant *)
(* must also speak of the requests on their way.                           *)
(***************************************************************************)

OnRecord(p) == p \in flagged \/ damaged
Kept(p)     == p \in known \/ OnRecord(p)

MarkInv ==
  /\ \A s \in Sends : bar[s].flag = "marked" => OnRecord(asked[s])
  /\ \A s \in Sends : bar[s].save = "marked" => Kept(asked[s])
  /\ \A i \in DOMAIN calls : calls[i].status = "logged" => calls[i].op = "flag"
  /\ \A i \in DOMAIN calls : calls[i].op = "flag" /\ calls[i].status \in {"logged", "ok"}
                               => OnRecord(asked[calls[i].of])
  /\ \A i \in DOMAIN calls : calls[i].op = "save" /\ calls[i].status = "ok"
                               => Kept(asked[calls[i].of])
  /\ \A s \in Sends : \A p \in seen[s] : OnRecord(p)
  /\ MarkedFlagsHonoured

LEMMA MarksBegin == Init => MarkInv
  BY DEF Init, MarkInv, NoBar, MarkedFlagsHonoured

\* What is on record stays there, unless the record is lost.
LEMMA RecordStays ==
  ASSUME TypeOK, SentInv, MarkInv, [Next]_vars, NEW p
  PROVE  /\ OnRecord(p) => OnRecord(p)'
         /\ Kept(p) => Kept(p)'
<1>1. CASE UNCHANGED kbVars
  BY <1>1 DEF kbVars, OnRecord, Kept
<1>2. CASE \E s \in Sends : AnswerFromKB(s)
  BY <1>2 DEF AnswerFromKB, Contract!Answer, OnRecord, Kept
<1>3. ASSUME NEW i \in DOMAIN calls, ServeSave(i)
      PROVE  (OnRecord(p) => OnRecord(p)') /\ (Kept(p) => Kept(p)')
  BY <1>3 DEF ServeSave, Contract!Store, kbVars, OnRecord, Kept
<1>4. ASSUME NEW i \in DOMAIN calls, ServeFlag(i)
      PROVE  (OnRecord(p) => OnRecord(p)') /\ (Kept(p) => Kept(p)')
  BY <1>4 DEF ServeFlag, Contract!Flag, kbVars, OnRecord, Kept
<1>5. ASSUME NEW i \in DOMAIN calls, ServePurge(i)
      PROVE  (OnRecord(p) => OnRecord(p)') /\ (Kept(p) => Kept(p)')
  <2>1. OnRecord(KeyOf(i))
    BY <1>5, CallsAreCalls DEF ServePurge, MarkInv, KeyOf
  <2> QED
    BY <1>5, <2>1 DEF ServePurge, Contract!Forget, kbVars, OnRecord, Kept
<1>6. CASE StoresElsewhere \/ LosesRecord \/ Restart
  BY <1>6 DEF StoresElsewhere, LosesRecord, Restart, Contract!Store, Contract!Lose,
              Contract!Restart, OnRecord, Kept
<1> QED
  BY <1>1, <1>2, <1>3, <1>4, <1>5, <1>6
     DEF vars, Next, Send, Page, Read, Finish, Ends, Fail, Answers, Refuse, Socialise,
         StartModel, Close, Speak, Break, Click, Returns

LEMMA SendMarks ==
  ASSUME TypeOK, SentInv, MarkInv, NEW s \in Sends, Send(s)
  PROVE  MarkInv'
<1>1. /\ UNCHANGED <<bar, calls, source, known, flagged, damaged>>
      /\ reader[s] = "unsent" /\ source[s] = "none" /\ bar[s] = NoBar
      /\ \A t \in Sends \ {s} : asked'[t] = asked[t] /\ seen'[t] = seen[t]
  BY DEF Send, SentInv, TypeOK, barVars, kbVars
<1>2. \A i \in DOMAIN calls : calls[i].of \in Sends \ {s}
  BY <1>1, CallsAreCalls DEF SentInv
<1>3. \A p \in seen'[s] : OnRecord(p)
  <2>1. seen'[s] = {asked[t] : t \in {t \in Sends : bar[t].flag = "marked"}}
    BY DEF Send, TypeOK
  <2> QED
    BY <2>1 DEF MarkInv
<1> QED
  BY <1>1, <1>2, <1>3 DEF MarkInv, MarkedFlagsHonoured, OnRecord, Kept, NoBar

LEMMA PageMarks ==
  ASSUME TypeOK, SentInv, MarkInv, NEW s \in Sends,
         Page(s) \/ Refuse(s) \/ Socialise(s) \/ StartModel(s) \/ Close(s) \/ Speak(s) \/ Break(s)
  PROVE  MarkInv'
<1>1. UNCHANGED <<asked, calls, seen, known, flagged, damaged>>
  BY DEF Page, Read, Finish, Ends, Fail, Refuse, Socialise, StartModel, Respond, Close,
         Speak, Break, pageVars, barVars, streamVars, kbVars
<1>2. \A t \in Sends : bar'[t] = bar[t] \/ bar'[t] = FreshBar
  <2>1. bar' = bar \/ bar' = [bar EXCEPT ![s] = FreshBar] \/ bar' = [bar EXCEPT ![s] = @]
    BY DEF Page, Read, Finish, Ends, Fail, Refuse, Socialise, StartModel, Respond, Close,
           Speak, Break, barVars
  <2> QED
    BY <2>1 DEF TypeOK
<1>3. \A t \in Sends : source'[t] = "kb" => source[t] = "kb"
  <2>1. source' = source \/ \E from \in {"error", "social", "model"} : source' = [source EXCEPT ![s] = from]
    BY DEF Page, Read, Finish, Ends, Fail, Refuse, Socialise, StartModel, Respond, Close,
           Speak, Break, streamVars
  <2> QED
    BY <2>1 DEF TypeOK
<1>4. \A i \in DOMAIN calls : calls[i].of \in Sends
  BY CallsAreCalls
<1> QED
  BY <1>1, <1>2, <1>3, <1>4 DEF MarkInv, MarkedFlagsHonoured, OnRecord, Kept, FreshBar

LEMMA AnswerMarks ==
  ASSUME TypeOK, SentInv, MarkInv, NEW s \in Sends, AnswerFromKB(s)
  PROVE  MarkInv'
<1>1. /\ UNCHANGED <<asked, bar, calls, seen, known, flagged, damaged>>
      /\ source' = [source EXCEPT ![s] = "kb"]
  BY DEF AnswerFromKB, Respond, Contract!Answer, pageVars, barVars
<1>2. Question(s) \notin flagged
  <2>1. /\ \E k \in Prompts \ flagged : answered' = [answered EXCEPT ![s] = k]
        /\ answered' = [answered EXCEPT ![s] = Question(s)]
    BY DEF AnswerFromKB, Contract!Answer
  <2>2. s \in DOMAIN answered
    BY DEF TypeOK
  <2> QED
    BY <2>1, <2>2
<1>3. Question(s) = asked[s]
  BY DEF Question, SentInv
<1>4. asked[s] \notin seen[s] \/ damaged
  BY <1>2, <1>3 DEF MarkInv, OnRecord
<1>5. MarkedFlagsHonoured'
  BY <1>1, <1>4 DEF MarkInv, MarkedFlagsHonoured, TypeOK
<1> QED
  BY <1>1, <1>5 DEF MarkInv, OnRecord, Kept

LEMMA ClickMarks ==
  ASSUME TypeOK, SentInv, MarkInv, NEW s \in Sends, NEW button \in {"save", "flag"},
         Click(s, button)
  PROVE  MarkInv'
<1>1. UNCHANGED <<asked, bar, seen, source, known, flagged, damaged>>
  BY DEF Click, pageVars, streamVars, kbVars
<1>2. calls' = Append(calls, [op |-> button, of |-> s, status |-> "sent"])
  BY DEF Click
<1>3. /\ DOMAIN calls' = DOMAIN calls \cup {Len(calls) + 1}
      /\ \A i \in DOMAIN calls : calls'[i] = calls[i]
      /\ calls'[Len(calls) + 1].status = "sent"
  BY <1>2, ClickAdds
<1> QED
  BY <1>1, <1>3 DEF MarkInv, MarkedFlagsHonoured, OnRecord, Kept

LEMMA ServeMarks ==
  ASSUME TypeOK, SentInv, MarkInv, [Next]_vars, NEW i \in DOMAIN calls,
         ServeSave(i) \/ ServeFlag(i) \/ ServePurge(i)
  PROVE  MarkInv'
<1>1. /\ UNCHANGED <<asked, bar, seen, source>>
      /\ damaged' = damaged
  BY DEF ServeSave, ServeFlag, ServePurge, Becomes, pageVars, streamVars, kbVars,
         Contract!Store, Contract!Flag, Contract!Forget
<1>2. \A p : (OnRecord(p) => OnRecord(p)') /\ (Kept(p) => Kept(p)')
  BY RecordStays
<1>3. calls[i].of \in Sends /\ calls[i] \in Call
  BY CallsAreCalls
<1>5. /\ DOMAIN calls' = DOMAIN calls
      /\ \A j \in DOMAIN calls : calls'[j].op = calls[j].op /\ calls'[j].of = calls[j].of
      /\ \A j \in DOMAIN calls \ {i} : calls'[j] = calls[j]
  BY CallsStay
<1>4. /\ calls'[i].status \in {"logged", "ok", "failed"}
      /\ calls'[i].status = "logged" => calls[i].op = "flag"
      /\ calls[i].op = "flag" /\ calls'[i].status \in {"logged", "ok"}
           => OnRecord(asked[calls[i].of])'
      /\ calls[i].op = "save" /\ calls'[i].status = "ok" => Kept(asked[calls[i].of])'
  <2>1. ASSUME NEW status \in {"ok", "logged", "failed", "over"}, Becomes(i, status)
        PROVE  calls'[i].status = status
    <3>1. calls' = [calls EXCEPT ![i].status = status]
      BY <2>1 DEF Becomes
    <3>2. [calls EXCEPT ![i].status = status][i]
            = [op |-> calls[i].op, of |-> calls[i].of, status |-> status]
      BY StatusIsCall
    <3> QED
      BY <3>1, <3>2
  <2>2. CASE Becomes(i, "failed")
    <3>1. calls'[i].status = "failed"
      BY <2>1, <2>2
    <3> QED
      BY <3>1
  <2>3. CASE calls[i].op = "save" /\ Becomes(i, "ok") /\ KeyOf(i) \in known'
    <3>1. calls'[i].status = "ok"
      BY <2>1, <2>3
    <3>2. Kept(asked[calls[i].of])'
      BY <1>1, <1>5, <2>3 DEF KeyOf, Kept
    <3> QED
      BY <2>3, <3>1, <3>2
  <2>4. CASE calls[i].op = "flag" /\ Becomes(i, "logged") /\ KeyOf(i) \in flagged'
    <3>1. calls'[i].status = "logged"
      BY <2>1, <2>4
    <3>2. OnRecord(asked[calls[i].of])'
      BY <1>1, <1>5, <2>4 DEF KeyOf, OnRecord
    <3> QED
      BY <2>4, <3>1, <3>2
  <2>5. CASE ServePurge(i) /\ Becomes(i, "ok")
    <3>1. calls'[i].status = "ok"
      BY <2>1, <2>5
    <3>2. calls[i].op = "flag" /\ OnRecord(asked[calls[i].of])
      BY <1>3, <2>5 DEF ServePurge, MarkInv
    <3>3. OnRecord(asked[calls[i].of])'
      BY <1>1, <1>2, <1>5, <3>2 DEF OnRecord
    <3> QED
      BY <3>1, <3>2, <3>3
  <2> QED
    BY <2>2, <2>3, <2>4, <2>5 DEF ServeSave, ServeFlag, ServePurge
<1>6. /\ \A s \in Sends : bar'[s].flag = "marked" => OnRecord(asked[s])'
      /\ \A s \in Sends : bar'[s].save = "marked" => Kept(asked[s])'
      /\ \A s \in Sends : \A p \in seen'[s] : OnRecord(p)'
      /\ MarkedFlagsHonoured'
  BY <1>1, <1>2 DEF MarkInv, MarkedFlagsHonoured, OnRecord, Kept
<1>7. \A j \in DOMAIN calls' :
        /\ calls'[j].status = "logged" => calls'[j].op = "flag"
        /\ calls'[j].op = "flag" /\ calls'[j].status \in {"logged", "ok"}
             => OnRecord(asked[calls[j].of])'
        /\ calls'[j].op = "save" /\ calls'[j].status = "ok" => Kept(asked[calls[j].of])'
  <2> TAKE j \in DOMAIN calls'
  <2>1. CASE j = i
    BY <1>1, <1>4, <1>5, <2>1 DEF OnRecord, Kept
  <2>2. CASE j # i
    BY <1>1, <1>2, <1>5, <2>2 DEF MarkInv, OnRecord, Kept
  <2> QED
    BY <2>1, <2>2
<1> QED
  BY <1>6, <1>7 DEF MarkInv

LEMMA ReturnMarks ==
  ASSUME TypeOK, SentInv, MarkInv, NEW i \in DOMAIN calls, Returns(i)
  PROVE  MarkInv'
<1>1. UNCHANGED <<asked, seen, source, known, flagged, damaged>>
  BY DEF Returns, pageVars, streamVars, kbVars
<1>2. /\ calls[i].of \in Sends /\ calls[i].op \in {"save", "flag"}
      /\ calls'[i].status = "over"
  <2>1. calls' = [calls EXCEPT ![i].status = "over"]
    BY DEF Returns
  <2>2. [calls EXCEPT ![i].status = "over"][i]
          = [op |-> calls[i].op, of |-> calls[i].of, status |-> "over"]
    BY StatusIsCall
  <2> QED
    BY <2>1, <2>2, CallsAreCalls
<1>3. /\ DOMAIN calls' = DOMAIN calls
      /\ \A j \in DOMAIN calls : calls'[j].op = calls[j].op /\ calls'[j].of = calls[j].of
      /\ \A j \in DOMAIN calls \ {i} : calls'[j] = calls[j]
  BY CallsStay
<1>4. \A s \in Sends :
        /\ bar'[s].flag = "marked" => OnRecord(asked[s])
        /\ bar'[s].save = "marked" => Kept(asked[s])
  <2>1. bar \in [Sends -> [save : {"none", "ready", "marked"}, flag : {"none", "ready", "marked"}]]
    BY DEF TypeOK
  <2>2. CASE bar' = bar
    BY <2>2 DEF MarkInv
  <2>3. CASE calls[i].status = "ok" /\ calls[i].op = "flag"
    <3>1. bar' = [bar EXCEPT ![calls[i].of]["flag"] = "marked"]
      BY <2>3 DEF Returns
    <3>2. OnRecord(asked[calls[i].of])
      BY <2>3 DEF MarkInv
    <3> QED
      BY <1>2, <2>1, <3>1, <3>2 DEF MarkInv
  <2>4. CASE calls[i].status = "ok" /\ calls[i].op = "save"
    <3>1. bar' = [bar EXCEPT ![calls[i].of]["save"] = "marked"]
      BY <2>4 DEF Returns
    <3>2. Kept(asked[calls[i].of])
      BY <2>4 DEF MarkInv
    <3> QED
      BY <1>2, <2>1, <3>1, <3>2 DEF MarkInv
  <2> QED
    BY <1>2, <2>2, <2>3, <2>4 DEF Returns
<1> QED
  BY <1>1, <1>2, <1>3, <1>4 DEF MarkInv, MarkedFlagsHonoured, OnRecord, Kept

LEMMA ElsewhereMarks ==
  ASSUME TypeOK, SentInv, MarkInv, [Next]_vars, StoresElsewhere \/ LosesRecord \/ Restart
  PROVE  MarkInv'
<1>1. UNCHANGED <<asked, bar, seen, source>>
  BY DEF StoresElsewhere, LosesRecord, Restart, pageVars, barVars, streamVars
<1>2. \A p : (OnRecord(p) => OnRecord(p)') /\ (Kept(p) => Kept(p)')
  BY RecordStays
<1>3. damaged => damaged'
  BY DEF StoresElsewhere, LosesRecord, Restart, Contract!Store, Contract!Lose, Contract!Restart
<1>4. \A j \in DOMAIN calls' : j \in DOMAIN calls /\ (calls'[j] = calls[j] \/ calls'[j].status = "over")
  <2>1. CASE UNCHANGED calls
    BY <2>1
  <2>2. CASE Restart
    <3>1. \A j \in DOMAIN calls : calls[j] \in Call
      BY CallsAreCalls
    <3> QED
      BY <2>2, <3>1 DEF Restart, Call
  <2> QED
    BY <2>1, <2>2 DEF StoresElsewhere, LosesRecord, barVars
<1> QED
  BY <1>1, <1>2, <1>3, <1>4 DEF MarkInv, MarkedFlagsHonoured, OnRecord, Kept

LEMMA MarksKept == TypeOK /\ SentInv /\ MarkInv /\ [Next]_vars => MarkInv'
<1> SUFFICES ASSUME TypeOK, SentInv, MarkInv, [Next]_vars PROVE MarkInv'
  OBVIOUS
<1>1. CASE UNCHANGED vars
  BY <1>1 DEF vars, pageVars, barVars, streamVars, kbVars, MarkInv, MarkedFlagsHonoured,
              OnRecord, Kept
<1> QED
  BY <1>1, SendMarks, PageMarks, AnswerMarks, ClickMarks, ServeMarks, ReturnMarks,
     ElsewhereMarks DEF Next, Answers

LEMMA MarksAlways == Spec => []MarkInv
<1>1. Init => TypeOK /\ SentInv /\ MarkInv
  BY TypesBegin, SentBegins, MarksBegin
<1>2. TypeOK /\ SentInv /\ MarkInv /\ [Next]_vars => TypeOK' /\ SentInv' /\ MarkInv'
  BY TypesKept, SentKept, MarksKept
<1> QED
  BY <1>1, <1>2, PTL DEF Spec

\* The key of an answer the page marks as saved is in the knowledge base or on record as
\* wrong, whatever was sent, clicked, restarted or lost in between (index.html:130-133).
THEOREM MarkedKeysAreKept == Spec => []MarkedKeysKept
<1>1. MarkInv => MarkedKeysKept
  BY DEF MarkInv, MarkedKeysKept, Kept, OnRecord
<1> QED
  BY <1>1, MarksAlways, PTL

\* A prompt sent after its answer was marked as flagged is not answered from the
\* knowledge base, unless the record of flags was lost (index.html:146-149, server.py:160).
THEOREM FlaggedMarksAreTrue == Spec => []MarkedFlagsHonoured
<1>1. MarkInv => MarkedFlagsHonoured
  BY DEF MarkInv
<1> QED
  BY <1>1, MarksAlways, PTL

-----------------------------------------------------------------------------
(***************************************************************************)
(* What a bubble shows: all that was written, and buttons only under what  *)
(* the model or the knowledge base wrote.                                  *)
(***************************************************************************)

BubbleInv(s) ==
  /\ stream[s] \in {"none", "pending"} => source[s] = "none"
  /\ stream[s] = "open" => source[s] = "model"
  /\ source[s] \in {"none", "error"} => shown[s] = <<>> /\ wire[s] = <<>>
  /\ source[s] = "social" =>
       /\ \A i \in DOMAIN wire[s] : wire[s][i].saveable = "false"
       /\ shown[s] # <<>> => saveable[s] = "false"
  /\ source[s] \in {"kb", "model"} => asked[s] \notin SmallTalk
  /\ reader[s] = "done" => stream[s] = "closed" /\ wire[s] = <<>>
  /\ reader[s] # "failed" /\ ~ cut[s] => Len(shown[s]) + Len(wire[s]) = said[s]
  /\ bar[s] # NoBar => source[s] \in {"kb", "model"}

BubblesInv ==
  /\ \A s \in Sends : BubbleInv(s)
  /\ \A i \in DOMAIN calls : bar[calls[i].of] # NoBar

LEMMA BubblesBegin == Init => BubblesInv
<1> SUFFICES ASSUME Init PROVE BubblesInv
  OBVIOUS
<1>1. calls = <<>>
  BY DEF Init
<1>2. ASSUME NEW s \in Sends PROVE BubbleInv(s)
  BY DEF Init, BubbleInv, NoBar
<1> QED
  BY <1>1, <1>2 DEF BubblesInv

\* A bubble nothing happens to stays as it is.
LEMMA BubbleStays ==
  ASSUME NEW t, BubbleInv(t),
         stream'[t] = stream[t], source'[t] = source[t], shown'[t] = shown[t],
         wire'[t] = wire[t], saveable'[t] = saveable[t], asked'[t] = asked[t],
         reader'[t] = reader[t], cut'[t] = cut[t], said'[t] = said[t], bar'[t] = bar[t]
  PROVE  BubbleInv(t)'
  BY DEF BubbleInv

LEMMA SendBubble ==
  ASSUME TypeOK, SentInv, NEW s \in Sends, BubbleInv(s), Send(s)
  PROVE  /\ BubbleInv(s)'
         /\ \A t \in Sends \ {s} : BubbleInv(t) => BubbleInv(t)'
<1>1. /\ UNCHANGED <<source, shown, wire, saveable, cut, said, bar>>
      /\ reader[s] = "unsent" /\ source[s] = "none" /\ bar[s] = NoBar
      /\ reader'[s] = "reading" /\ stream'[s] = "pending"
      /\ \A t \in Sends \ {s} : /\ asked'[t] = asked[t] /\ reader'[t] = reader[t]
                                /\ stream'[t] = stream[t]
  BY DEF Send, SentInv, TypeOK, barVars
<1> QED
  BY <1>1, BubbleStays DEF BubbleInv

LEMMA PiecesMoved ==
  ASSUME NEW a \in Nat, NEW b \in Nat, NEW n \in Nat
  PROVE  (a + n) + (b - n) = a + b
  OBVIOUS

LEMMA PieceAdded ==
  ASSUME NEW a \in Nat, NEW b \in Nat
  PROVE  a + (b + 1) = (a + b) + 1
  OBVIOUS

\* The sequences a chunk is cut into.
LEMMA ChunkLengths ==
  ASSUME NEW w \in Seq(Lines), NEW n \in 1..Len(w), NEW whole \in BOOLEAN,
         NEW lines, lines = SubSeq(w, 1, IF whole THEN n ELSE n - 1)
  PROVE  /\ lines \in Seq(Lines)
         /\ whole => Len(lines) = n
         /\ \A i \in DOMAIN lines : i \in DOMAIN w /\ lines[i] = w[i]
         /\ SubSeq(w, n + 1, Len(w)) \in Seq(Lines)
         /\ Len(SubSeq(w, n + 1, Len(w))) = Len(w) - n
         /\ \A i \in DOMAIN SubSeq(w, n + 1, Len(w)) :
              n + i \in DOMAIN w /\ SubSeq(w, n + 1, Len(w))[i] = w[n + i]
  OBVIOUS

LEMMA ReadBubble ==
  ASSUME TypeOK, SentInv, NEW s \in Sends, BubbleInv(s), Read(s)
  PROVE  /\ BubbleInv(s)'
         /\ \A t \in Sends \ {s} : BubbleInv(t) => BubbleInv(t)'
<1>1. PICK n \in 1..Len(wire[s]), whole \in BOOLEAN :
        LET lines == SubSeq(wire[s], 1, IF whole THEN n ELSE n - 1)
        IN  /\ shown' = [shown EXCEPT ![s] = @ \o lines]
            /\ saveable' = [saveable EXCEPT ![s] =
                              IF lines = <<>> THEN @ ELSE lines[Len(lines)].saveable]
            /\ wire' = [wire EXCEPT ![s] = SubSeq(@, n + 1, Len(@))]
            /\ cut' = [cut EXCEPT ![s] = @ \/ ~ whole]
  BY Zenon DEF Read
<1> DEFINE lines == SubSeq(wire[s], 1, IF whole THEN n ELSE n - 1)
           rest  == SubSeq(wire[s], n + 1, Len(wire[s]))
<1>2. /\ wire[s] \in Seq(Lines) /\ shown[s] \in Seq(Lines)
      /\ shown \in [Sends -> Seq(Lines)] /\ wire \in [Sends -> Seq(Lines)]
      /\ saveable \in [Sends -> {"true", "false"}] /\ cut \in [Sends -> BOOLEAN]
      /\ said \in [Sends -> Nat]
  BY DEF TypeOK
<1>3. /\ shown'[s] = shown[s] \o lines /\ wire'[s] = rest
      /\ cut'[s] = (cut[s] \/ ~ whole)
      /\ saveable'[s] = IF lines = <<>> THEN saveable[s] ELSE lines[Len(lines)].saveable
      /\ \A t \in Sends \ {s} : /\ shown'[t] = shown[t] /\ wire'[t] = wire[t]
                                /\ saveable'[t] = saveable[t] /\ cut'[t] = cut[t]
  BY <1>1, <1>2
<1>4. /\ lines \in Seq(Lines) /\ rest \in Seq(Lines)
      /\ whole => Len(lines) = n
      /\ Len(rest) = Len(wire[s]) - n
      /\ \A i \in DOMAIN lines : i \in DOMAIN wire[s] /\ lines[i] = wire[s][i]
      /\ \A i \in DOMAIN rest : n + i \in DOMAIN wire[s] /\ rest[i] = wire[s][n + i]
  BY <1>2, ChunkLengths
<1>5. /\ UNCHANGED <<asked, reader, stream, source, said, bar>>
      /\ reader[s] = "reading"
  BY DEF Read, barVars
<1>6. source[s] \notin {"none", "error"}
  BY <1>2 DEF BubbleInv
<1>7. Len(shown'[s]) = Len(shown[s]) + Len(lines)
  BY <1>2, <1>3, <1>4
<1>8. ~ cut'[s] => Len(shown'[s]) + Len(wire'[s]) = said'[s]
  <2>1. ~ cut'[s] => Len(lines) = n /\ Len(shown[s]) + Len(wire[s]) = said[s]
    BY <1>3, <1>4, <1>5 DEF BubbleInv
  <2>2. Len(wire[s]) \in Nat /\ Len(shown[s]) \in Nat /\ n \in Nat
    BY <1>2
  <2>3. Len(wire'[s]) = Len(wire[s]) - n /\ said'[s] = said[s]
    BY <1>3, <1>4, <1>5
  <2> SUFFICES ASSUME ~ cut'[s]
               PROVE  Len(shown'[s]) + Len(wire'[s]) = said'[s]
    OBVIOUS
  <2>4. Len(shown'[s]) + Len(wire'[s]) = (Len(shown[s]) + n) + (Len(wire[s]) - n)
    BY <1>7, <2>1, <2>3
  <2>5. (Len(shown[s]) + n) + (Len(wire[s]) - n) = Len(shown[s]) + Len(wire[s])
    BY <2>2, PiecesMoved
  <2> QED
    BY <2>1, <2>3, <2>4, <2>5
<1>9. source[s] = "social" =>
        /\ \A i \in DOMAIN wire'[s] : wire'[s][i].saveable = "false"
        /\ shown'[s] # <<>> => saveable'[s] = "false"
  <2> SUFFICES ASSUME source[s] = "social"
               PROVE  /\ \A i \in DOMAIN rest : rest[i].saveable = "false"
                      /\ shown'[s] # <<>> => saveable'[s] = "false"
    BY <1>3
  <2>1. \A i \in DOMAIN wire[s] : wire[s][i].saveable = "false"
    BY DEF BubbleInv
  <2>2. \A i \in DOMAIN rest : rest[i].saveable = "false"
    BY <1>4, <2>1
  <2>3. CASE lines = <<>>
    <3>1. shown'[s] = shown[s]
      BY <1>2, <1>3, <2>3, ConcatEmptySeq
    <3> QED
      BY <1>3, <2>2, <2>3, <3>1 DEF BubbleInv
  <2>4. CASE lines # <<>>
    <3>1. Len(lines) \in DOMAIN lines
      BY <1>4, <2>4
    <3> QED
      BY <1>3, <1>4, <2>1, <2>2, <2>4, <3>1
  <2> QED
    BY <2>3, <2>4
<1>10. BubbleInv(s)'
  BY <1>5, <1>6, <1>8, <1>9 DEF BubbleInv
<1> QED
  BY <1>3, <1>5, <1>10, BubbleStays

LEMMA EndBubble ==
  ASSUME TypeOK, SentInv, NEW s \in Sends, BubbleInv(s), Finish(s) \/ Fail(s)
  PROVE  /\ BubbleInv(s)'
         /\ \A t \in Sends \ {s} : BubbleInv(t) => BubbleInv(t)'
<1>1. /\ UNCHANGED <<asked, shown, saveable, source, stream, said, cut>>
      /\ reader[s] = "reading"
      /\ bar[s] = NoBar
  BY DEF Finish, Fail, Ends, streamVars, SentInv
<1>2. CASE Finish(s)
  <2>1. /\ stream[s] = "closed" /\ wire[s] = <<>> /\ wire' = wire
        /\ reader' = [reader EXCEPT ![s] = "done"]
        /\ bar' = [bar EXCEPT ![s] = IF HasText(shown[s]) /\ saveable[s] # "false"
                                     THEN FreshBar ELSE @]
    BY <1>2 DEF Finish, Ends, streamVars
  <2>2. /\ reader'[s] = "done"
        /\ \A t \in Sends \ {s} : reader'[t] = reader[t] /\ bar'[t] = bar[t]
        /\ bar'[s] # NoBar => HasText(shown[s]) /\ saveable[s] # "false"
    BY <1>1, <2>1 DEF TypeOK
  <2>3. HasText(shown[s]) => shown[s] # <<>>
    BY DEF HasText
  <2>4. source[s] \in {"none", "error", "social", "kb", "model"}
    BY DEF TypeOK
  <2>5. bar'[s] # NoBar => source[s] \in {"kb", "model"}
    BY <2>2, <2>3, <2>4 DEF BubbleInv
  <2>6. BubbleInv(s)'
    BY <1>1, <2>1, <2>2, <2>5 DEF BubbleInv
  <2> QED
    BY <1>1, <2>1, <2>2, <2>6, BubbleStays
<1>3. CASE Fail(s)
  <2>1. /\ reader' = [reader EXCEPT ![s] = "failed"] /\ wire' = [wire EXCEPT ![s] = <<>>]
        /\ bar' = bar
    BY <1>3 DEF Fail, barVars
  <2>2. /\ reader'[s] = "failed" /\ wire'[s] = <<>>
        /\ \A t \in Sends \ {s} : reader'[t] = reader[t] /\ wire'[t] = wire[t]
    BY <2>1 DEF TypeOK
  <2>3. \A i \in DOMAIN wire'[s] : wire'[s][i].saveable = "false"
    BY <2>2
  <2>4. BubbleInv(s)'
    BY <1>1, <2>1, <2>2, <2>3 DEF BubbleInv
  <2> QED
    BY <1>1, <2>1, <2>2, <2>4, BubbleStays
<1> QED
  BY <1>2, <1>3

LEMMA RespondBubble ==
  ASSUME TypeOK, SentInv, NEW s \in Sends, BubbleInv(s),
         NEW from \in {"error", "social", "kb", "model"},
         NEW state \in {"open", "closed"}, NEW lines \in Seq(Lines),
         Respond(s, from, state, lines),
         state = "open" => from = "model",
         from = "error" => lines = <<>>,
         from = "social" => \A i \in DOMAIN lines : lines[i].saveable = "false",
         from \in {"kb", "model"} => Question(s) \notin SmallTalk
  PROVE  /\ BubbleInv(s)'
         /\ \A t \in Sends \ {s} : BubbleInv(t) => BubbleInv(t)'
<1>1. /\ UNCHANGED <<asked, shown, saveable, reader, bar, cut>>
      /\ stream[s] = "pending"
      /\ source' = [source EXCEPT ![s] = from] /\ stream' = [stream EXCEPT ![s] = state]
      /\ wire' = [wire EXCEPT ![s] = lines] /\ said' = [said EXCEPT ![s] = Len(lines)]
  BY DEF Respond, pageVars, barVars
<1>2. /\ source'[s] = from /\ stream'[s] = state /\ wire'[s] = lines /\ said'[s] = Len(lines)
      /\ \A t \in Sends \ {s} : /\ source'[t] = source[t] /\ stream'[t] = stream[t]
                                /\ wire'[t] = wire[t] /\ said'[t] = said[t]
  BY <1>1 DEF TypeOK
<1>3. shown[s] = <<>> /\ source[s] = "none"
  BY <1>1 DEF BubbleInv
<1>4. Question(s) = asked[s]
  BY DEF Question, SentInv
<1>5. bar[s] = NoBar /\ reader[s] # "done"
  BY <1>1, <1>3 DEF BubbleInv
<1>6. Len(<<>>) = 0 /\ 0 + Len(lines) = Len(lines)
  OBVIOUS
<1>7. BubbleInv(s)'
  BY <1>1, <1>2, <1>3, <1>4, <1>5, <1>6 DEF BubbleInv
<1> QED
  BY <1>1, <1>2, <1>7, BubbleStays

LEMMA AnswersBubble ==
  ASSUME TypeOK, SentInv, NEW s \in Sends, BubbleInv(s),
         Refuse(s) \/ Socialise(s) \/ AnswerFromKB(s) \/ StartModel(s)
  PROVE  /\ BubbleInv(s)'
         /\ \A t \in Sends \ {s} : BubbleInv(t) => BubbleInv(t)'
<1>1. /\ <<>> \in Seq(Lines)
      /\ <<Line(s, 1, "false", "word")>> \in Seq(Lines)
      /\ <<Line(s, 1, "true", "word")>> \in Seq(Lines)
      /\ \A i \in DOMAIN <<Line(s, 1, "false", "word")>> :
           <<Line(s, 1, "false", "word")>>[i].saveable = "false"
  BY DEF Line, Lines
<1>2. CASE Refuse(s)
  BY <1>1, <1>2, RespondBubble DEF Refuse
<1>3. CASE Socialise(s)
  BY <1>1, <1>3, RespondBubble DEF Socialise
<1>4. CASE AnswerFromKB(s)
  BY <1>1, <1>4, RespondBubble DEF AnswerFromKB
<1>5. CASE StartModel(s)
  BY <1>1, <1>5, RespondBubble DEF StartModel
<1> QED
  BY <1>2, <1>3, <1>4, <1>5

LEMMA StreamBubble ==
  ASSUME TypeOK, SentInv, NEW s \in Sends, BubbleInv(s), Speak(s) \/ Close(s) \/ Break(s)
  PROVE  /\ BubbleInv(s)'
         /\ \A t \in Sends \ {s} : BubbleInv(t) => BubbleInv(t)'
<1>1. UNCHANGED <<asked, shown, saveable, reader, bar, source, cut>>
  BY DEF Speak, Close, Break, pageVars, barVars
<1>2. CASE Speak(s)
  <2>1. PICK text \in {"word", "blank"} :
          wire' = [wire EXCEPT ![s] = Append(@, Line(s, said'[s], "true", text))]
    BY <1>2 DEF Speak
  <2>2. /\ stream[s] = "open" /\ stream' = stream
        /\ said' = [said EXCEPT ![s] = @ + 1]
    BY <1>2 DEF Speak
  <2>3. /\ wire'[s] = Append(wire[s], Line(s, said'[s], "true", text))
        /\ said'[s] = said[s] + 1
        /\ \A t \in Sends \ {s} : wire'[t] = wire[t] /\ said'[t] = said[t]
    BY <2>1, <2>2 DEF TypeOK
  <2>4. Len(wire'[s]) = Len(wire[s]) + 1 /\ Len(wire[s]) \in Nat /\ Len(shown[s]) \in Nat
    BY <2>3 DEF TypeOK
  <2>5. source[s] = "model" /\ reader[s] # "done"
    BY <2>2 DEF BubbleInv
  <2>7. reader'[s] # "failed" /\ ~ cut'[s] => Len(shown'[s]) + Len(wire'[s]) = said'[s]
    <3>1. reader[s] # "failed" /\ ~ cut[s] => Len(shown[s]) + Len(wire[s]) = said[s]
      BY DEF BubbleInv
    <3>2. Len(shown[s]) + (Len(wire[s]) + 1) = (Len(shown[s]) + Len(wire[s])) + 1
      BY <2>4, PieceAdded
    <3>3. Len(shown'[s]) + Len(wire'[s]) = Len(shown[s]) + (Len(wire[s]) + 1)
      BY <1>1, <2>4
    <3>4. reader'[s] = reader[s] /\ cut'[s] = cut[s]
      BY <1>1
    <3> QED
      BY <2>3, <3>1, <3>2, <3>3, <3>4
  <2>6. BubbleInv(s)'
    BY <1>1, <2>2, <2>5, <2>7 DEF BubbleInv
  <2> QED
    BY <1>1, <2>2, <2>3, <2>6, BubbleStays
<1>3. CASE Close(s)
  <2>1. /\ stream'[s] = "closed" /\ UNCHANGED <<wire, said>>
        /\ \A t \in Sends \ {s} : stream'[t] = stream[t]
    BY <1>3 DEF Close, TypeOK
  <2> QED
    BY <1>1, <2>1, BubbleStays DEF BubbleInv
<1>4. CASE Break(s)
  <2>1. /\ stream'[s] = "broken" /\ reader[s] = "reading" /\ UNCHANGED <<wire, said>>
        /\ \A t \in Sends \ {s} : stream'[t] = stream[t]
    BY <1>4 DEF Break, TypeOK
  <2> QED
    BY <1>1, <2>1, BubbleStays DEF BubbleInv
<1> QED
  BY <1>2, <1>3, <1>4

\* The buttons' calls and the rest of the server change no bubble but its marks.
LEMMA OtherBubble ==
  ASSUME TypeOK, SentInv, NEW s \in Sends, BubbleInv(s),
         UNCHANGED <<pageVars, posted, source, wire, said, cut>>,
         stream'[s] = stream[s] \/ (stream[s] \in {"pending", "open"} /\ stream'[s] = "broken"),
         bar'[s] # NoBar => bar[s] # NoBar
  PROVE  BubbleInv(s)'
  BY DEF BubbleInv, pageVars

LEMMA BarsKept ==
  ASSUME TypeOK, SentInv, BubblesInv, NEW i \in DOMAIN calls, Returns(i)
  PROVE  \A s \in Sends : bar'[s] # NoBar <=> bar[s] # NoBar
<1>1. bar \in [Sends -> [save : {"none", "ready", "marked"}, flag : {"none", "ready", "marked"}]]
  BY DEF TypeOK
<1>2. calls[i].of \in Sends /\ calls[i].op \in {"save", "flag"} /\ bar[calls[i].of] # NoBar
  BY CallsAreCalls DEF BubblesInv
<1>3. bar' = bar \/ bar' = [bar EXCEPT ![calls[i].of][calls[i].op] = "marked"]
  BY DEF Returns
<1>4. CASE calls[i].op = "save"
  BY <1>1, <1>2, <1>3, <1>4 DEF NoBar
<1>5. CASE calls[i].op = "flag"
  BY <1>1, <1>2, <1>3, <1>5 DEF NoBar
<1> QED
  BY <1>2, <1>4, <1>5

LEMMA BubblesKept == TypeOK /\ SentInv /\ BubblesInv /\ [Next]_vars => BubblesInv'
<1> SUFFICES ASSUME TypeOK, SentInv, BubblesInv, [Next]_vars PROVE BubblesInv'
  OBVIOUS
<1>1. \A s \in Sends : BubbleInv(s)
  BY DEF BubblesInv
<1>2. ASSUME NEW s \in Sends, Send(s) \/ Page(s) \/ Answers(s) \/ Speak(s) \/ Break(s)
      PROVE  BubblesInv'
  <2>1. \A t \in Sends : BubbleInv(t)'
    <3>1. CASE Send(s)
      BY <1>1, <3>1, SendBubble
    <3>2. CASE Read(s)
      BY <1>1, <3>2, ReadBubble
    <3>3. CASE Finish(s) \/ Fail(s)
      BY <1>1, <3>3, EndBubble
    <3>4. CASE Refuse(s) \/ Socialise(s) \/ AnswerFromKB(s) \/ StartModel(s)
      BY <1>1, <3>4, AnswersBubble
    <3>5. CASE Speak(s) \/ Close(s) \/ Break(s)
      BY <1>1, <3>5, StreamBubble
    <3> QED
      BY <1>2, <3>1, <3>2, <3>3, <3>4, <3>5 DEF Page, Answers
  <2>2. calls' = calls
    BY <1>2 DEF Send, Page, Read, Finish, Fail, Ends, Answers, Refuse, Socialise, AnswerFromKB,
                StartModel, Respond, Speak, Close, Break, barVars
  <2>3. \A t \in Sends : bar[t] # NoBar => bar'[t] # NoBar
    <3>1. bar' = bar \/ bar' = [bar EXCEPT ![s] = FreshBar] \/ bar' = [bar EXCEPT ![s] = @]
      BY <1>2 DEF Send, Page, Read, Finish, Fail, Ends, Answers, Refuse, Socialise, AnswerFromKB,
                  StartModel, Respond, Speak, Close, Break, barVars
    <3>2. /\ bar \in [Sends -> [save : {"none", "ready", "marked"}, flag : {"none", "ready", "marked"}]]
          /\ FreshBar # NoBar
      BY DEF TypeOK, FreshBar, NoBar
    <3> QED
      BY <3>1, <3>2
  <2> QED
    BY <2>1, <2>2, <2>3, CallsAreCalls DEF BubblesInv
<1>3. ASSUME NEW s \in Sends, NEW button \in {"save", "flag"}, Click(s, button)
      PROVE  BubblesInv'
  <2>1. UNCHANGED <<pageVars, bar, streamVars, cut>> /\ bar[s] # NoBar
    BY <1>3 DEF Click, NoBar
  <2>2. calls' = Append(calls, [op |-> button, of |-> s, status |-> "sent"])
    BY <1>3 DEF Click
  <2>3. /\ DOMAIN calls' = DOMAIN calls \cup {Len(calls) + 1}
        /\ \A i \in DOMAIN calls : calls'[i] = calls[i]
        /\ calls'[Len(calls) + 1].of = s
    BY <2>2, ClickAdds
  <2>4. \A t \in Sends : BubbleInv(t)'
    BY <1>1, <2>1, OtherBubble DEF streamVars
  <2> QED
    BY <2>1, <2>3, <2>4 DEF BubblesInv
<1>4. ASSUME NEW i \in DOMAIN calls,
             ServeSave(i) \/ ServeFlag(i) \/ ServePurge(i) \/ Returns(i)
      PROVE  BubblesInv'
  <2>1. UNCHANGED <<pageVars, streamVars, cut>>
    BY <1>4 DEF ServeSave, ServeFlag, ServePurge, Returns, Becomes
  <2>2. \A s \in Sends : bar'[s] # NoBar <=> bar[s] # NoBar
    BY <1>4, BarsKept DEF ServeSave, ServeFlag, ServePurge, Becomes
  <2>3. \A t \in Sends : BubbleInv(t)'
    BY <1>1, <2>1, <2>2, OtherBubble DEF streamVars
  <2>4. \A j \in DOMAIN calls' : j \in DOMAIN calls /\ calls'[j].of = calls[j].of
    BY <1>4, CallsStay
  <2> QED
    BY <2>2, <2>3, <2>4, CallsAreCalls DEF BubblesInv
<1>5. CASE StoresElsewhere \/ LosesRecord \/ Restart
  <2>1. UNCHANGED <<pageVars, bar, posted, source, wire, said, cut>>
    BY <1>5 DEF StoresElsewhere, LosesRecord, Restart, barVars, streamVars
  <2>2. \A s \in Sends : \/ stream'[s] = stream[s]
                         \/ stream[s] \in {"pending", "open"} /\ stream'[s] = "broken"
    BY <1>5 DEF StoresElsewhere, LosesRecord, Restart, streamVars
  <2>3. \A t \in Sends : BubbleInv(t)'
    BY <1>1, <2>1, <2>2, OtherBubble
  <2>4. \A j \in DOMAIN calls' : j \in DOMAIN calls /\ calls'[j].of = calls[j].of
    <3>1. CASE UNCHANGED calls
      BY <3>1
    <3>2. CASE Restart
      <4>1. \A j \in DOMAIN calls : calls[j] \in Call
        BY CallsAreCalls
      <4> QED
        BY <3>2, <4>1 DEF Restart, Call
    <3> QED
      BY <1>5, <3>1, <3>2 DEF StoresElsewhere, LosesRecord, barVars
  <2> QED
    BY <2>1, <2>3, <2>4 DEF BubblesInv
<1>6. CASE UNCHANGED vars
  <2>1. UNCHANGED <<pageVars, bar, calls, streamVars, cut>>
    BY <1>6 DEF vars, barVars
  <2>2. \A t \in Sends : BubbleInv(t)'
    BY <1>1, <2>1, OtherBubble DEF streamVars
  <2> QED
    BY <2>1, <2>2 DEF BubblesInv
<1> QED
  BY <1>2, <1>3, <1>4, <1>5, <1>6 DEF Next

LEMMA BubblesAlways == Spec => [](TypeOK /\ SentInv /\ BubblesInv)
<1>1. Init => TypeOK /\ SentInv /\ BubblesInv
  BY TypesBegin, SentBegins, BubblesBegin
<1>2. TypeOK /\ SentInv /\ BubblesInv /\ [Next]_vars => TypeOK' /\ SentInv' /\ BubblesInv'
  BY TypesKept, SentKept, BubblesKept
<1> QED
  BY <1>1, <1>2, PTL DEF Spec

\* However many answers are read at once, a bubble that is done shows every piece the server
\* wrote, unless a chunk ended inside a line (index.html:180-198).
THEOREM BubblesAreWhole == Spec => []WholeUnlessCut
<1>1. TypeOK /\ BubblesInv => WholeUnlessCut
  <2> SUFFICES ASSUME TypeOK, BubblesInv, NEW s \in Sends, reader[s] = "done", ~ cut[s]
               PROVE  Len(shown[s]) = said[s]
    BY DEF WholeUnlessCut
  <2>1. wire[s] = <<>> /\ Len(shown[s]) + Len(wire[s]) = said[s]
    BY DEF BubblesInv, BubbleInv
  <2>2. Len(shown[s]) \in Nat
    BY DEF TypeOK
  <2>3. Len(<<>>) = 0
    OBVIOUS
  <2> QED
    BY <2>1, <2>2, <2>3
<1> QED
  BY <1>1, BubblesAlways, PTL

\* No social reply and no error gets buttons, so none reaches the save and flag
\* endpoints (index.html:116, server.py:398).
THEOREM OnlyAnswersHaveButtons == Spec => []ButtonsUnderAnswers
<1>1. TypeOK /\ SentInv /\ BubblesInv => ButtonsUnderAnswers
  <2> SUFFICES ASSUME TypeOK, SentInv, BubblesInv, NEW s \in Sends,
                      bar[s] # NoBar \/ \E i \in DOMAIN calls : calls[i].of = s
               PROVE  source[s] \in {"kb", "model"} /\ Question(s) \notin SmallTalk
    BY DEF ButtonsUnderAnswers
  <2>1. bar[s] # NoBar
    BY DEF BubblesInv
  <2>2. source[s] \in {"kb", "model"} /\ asked[s] \notin SmallTalk
    BY <2>1 DEF BubblesInv, BubbleInv
  <2> QED
    BY <2>2 DEF Question, SentInv
<1> QED
  BY <1>1, BubblesAlways, PTL

-----------------------------------------------------------------------------
(***************************************************************************)
(* The order of the pieces.                                                *)
(***************************************************************************)

InOrder(lines) == \A i, j \in DOMAIN lines : i < j => lines[i].n < lines[j].n

PiecesInv(s) ==
  /\ \A i \in DOMAIN shown[s] : shown[s][i].of = s /\ shown[s][i].n <= said[s]
  /\ \A i \in DOMAIN wire[s] : wire[s][i].of = s /\ wire[s][i].n <= said[s]
  /\ InOrder(shown[s]) /\ InOrder(wire[s])
  /\ \A i \in DOMAIN shown[s], j \in DOMAIN wire[s] : shown[s][i].n < wire[s][j].n

LEMMA ConcatIs ==
  ASSUME NEW a \in Seq(Lines), NEW c \in Seq(Lines)
  PROVE  /\ a \o c \in Seq(Lines) /\ Len(a \o c) = Len(a) + Len(c)
         /\ Len(a) \in Nat /\ Len(c) \in Nat
         /\ DOMAIN a = 1..Len(a) /\ DOMAIN c = 1..Len(c) /\ DOMAIN (a \o c) = 1..Len(a \o c)
         /\ \A k \in 1..Len(a) : (a \o c)[k] = a[k]
         /\ \A k \in (Len(a) + 1)..(Len(a) + Len(c)) : (a \o c)[k] = c[k - Len(a)]
  OBVIOUS

\* Where the lines of a bubble and of the wire come from when a chunk arrives.
LEMMA ChunkMoves ==
  ASSUME NEW a \in Seq(Lines), NEW w \in Seq(Lines), NEW n \in 1..Len(w), NEW m \in (n - 1)..n,
         NEW b, b = a \o SubSeq(w, 1, m),
         NEW v, v = SubSeq(w, n + 1, Len(w))
  PROVE  /\ \A k \in DOMAIN b :
              \/ k \in DOMAIN a /\ b[k] = a[k]
              \/ /\ k > Len(a) /\ k - Len(a) <= n
                 /\ k - Len(a) \in DOMAIN w /\ b[k] = w[k - Len(a)]
         /\ \A k \in DOMAIN v : n + k \in DOMAIN w /\ v[k] = w[n + k] /\ k \in Nat \ {0}
         /\ DOMAIN a = 1..Len(a) /\ Len(a) \in Nat /\ DOMAIN b \subseteq Nat
<1> DEFINE c == SubSeq(w, 1, m)
<1>1. m \in 0..n /\ n \in 1..Len(w) /\ Len(w) \in Nat
  OBVIOUS
<1>2. c \in Seq(Lines) /\ Len(c) = m /\ \A i \in 1..m : i \in DOMAIN w /\ c[i] = w[i]
  BY <1>1
<1>3. /\ Len(b) = Len(a) + m /\ b \in Seq(Lines)
      /\ \A k \in 1..Len(a) : b[k] = a[k]
      /\ \A k \in (Len(a) + 1)..(Len(a) + m) : b[k] = c[k - Len(a)]
      /\ DOMAIN b = 1..Len(b) /\ DOMAIN a = 1..Len(a) /\ Len(a) \in Nat
  BY <1>1, <1>2, ConcatIs
<1>4. ASSUME NEW k \in DOMAIN b
      PROVE  \/ k \in DOMAIN a /\ b[k] = a[k]
             \/ /\ k > Len(a) /\ k - Len(a) <= n
                /\ k - Len(a) \in DOMAIN w /\ b[k] = w[k - Len(a)]
  <2>1. k \in 1..(Len(a) + m) /\ Len(a) \in Nat
    BY <1>3
  <2>2. CASE k <= Len(a)
    BY <1>3, <2>1, <2>2
  <2>3. CASE k > Len(a)
    <3>1. k - Len(a) \in 1..m
      BY <1>1, <2>1, <2>3
    <3>2. k \in (Len(a) + 1)..(Len(a) + m)
      BY <1>1, <2>1, <2>3
    <3> QED
      BY <1>1, <1>2, <1>3, <2>3, <3>1, <3>2
  <2> QED
    BY <2>1, <2>2, <2>3
<1>5. \A k \in DOMAIN v : n + k \in DOMAIN w /\ v[k] = w[n + k] /\ k \in Nat \ {0}
  OBVIOUS
<1>6. DOMAIN a = 1..Len(a) /\ Len(a) \in Nat /\ DOMAIN b \subseteq Nat
  BY <1>3
<1> QED
  BY <1>4, <1>5, <1>6

LEMMA ReadPieces ==
  ASSUME TypeOK, NEW s \in Sends, PiecesInv(s), Read(s)
  PROVE  PiecesInv(s)'
<1>1. PICK n \in 1..Len(wire[s]), whole \in BOOLEAN :
        LET lines == SubSeq(wire[s], 1, IF whole THEN n ELSE n - 1)
        IN  /\ shown' = [shown EXCEPT ![s] = @ \o lines]
            /\ saveable' = [saveable EXCEPT ![s] =
                              IF lines = <<>> THEN @ ELSE lines[Len(lines)].saveable]
            /\ wire' = [wire EXCEPT ![s] = SubSeq(@, n + 1, Len(@))]
            /\ cut' = [cut EXCEPT ![s] = @ \/ ~ whole]
  BY Zenon DEF Read
<1> DEFINE a == shown[s]  w == wire[s]  b == shown'[s]  v == wire'[s]
<1> DEFINE m == IF whole THEN n ELSE n - 1
<1>2. /\ a \in Seq(Lines) /\ w \in Seq(Lines) /\ n \in 1..Len(w) /\ m \in (n - 1)..n
      /\ b = a \o SubSeq(w, 1, m) /\ v = SubSeq(w, n + 1, Len(w))
  <2>1. shown \in [Sends -> Seq(Lines)] /\ wire \in [Sends -> Seq(Lines)]
    BY DEF TypeOK
  <2>2. a \in Seq(Lines) /\ w \in Seq(Lines)
    BY <2>1
  <2>3. n \in 1..Len(w)
    BY <1>1
  <2>4. m \in (n - 1)..n
    <3>1. n \in Nat
      BY <2>2, <2>3
    <3> QED
      BY <3>1
  <2>5. shown' = [shown EXCEPT ![s] = @ \o SubSeq(wire[s], 1, m)]
    BY <1>1, Zenon
  <2>6. wire' = [wire EXCEPT ![s] = SubSeq(@, n + 1, Len(@))]
    BY <1>1, Zenon
  <2>7. b = a \o SubSeq(w, 1, m)
    BY <2>1, <2>5, Zenon
  <2>8. v = SubSeq(w, n + 1, Len(w))
    BY <2>1, <2>6, Zenon
  <2> QED
    BY <2>2, <2>3, <2>4, <2>7, <2>8
<1> HIDE DEF m, a, w, b, v
<1>3. /\ \A k \in DOMAIN b :
           \/ k \in DOMAIN a /\ b[k] = a[k]
           \/ /\ k > Len(a) /\ k - Len(a) <= n
              /\ k - Len(a) \in DOMAIN w /\ b[k] = w[k - Len(a)]
      /\ \A k \in DOMAIN v : n + k \in DOMAIN w /\ v[k] = w[n + k] /\ k \in Nat \ {0}
      /\ DOMAIN a = 1..Len(a) /\ Len(a) \in Nat /\ DOMAIN b \subseteq Nat
  BY <1>2, ChunkMoves
<1>4. said' = said
  BY DEF Read
<1> USE DEF a, w, b, v
<1>5. \A k \in DOMAIN b : b[k].of = s /\ b[k].n <= said'[s]
  BY <1>3, <1>4 DEF PiecesInv
<1>6. \A k \in DOMAIN v : v[k].of = s /\ v[k].n <= said'[s]
  BY <1>3, <1>4 DEF PiecesInv
<1>7. InOrder(b)
  <2> SUFFICES ASSUME NEW i \in DOMAIN b, NEW j \in DOMAIN b, i < j PROVE b[i].n < b[j].n
    BY DEF InOrder
  <2>1. CASE i \in DOMAIN a /\ b[i] = a[i] /\ j \in DOMAIN a /\ b[j] = a[j]
    BY <2>1 DEF PiecesInv, InOrder
  <2>2. CASE i \in DOMAIN a /\ b[i] = a[i] /\ j - Len(a) \in DOMAIN w /\ b[j] = w[j - Len(a)]
    BY <2>2 DEF PiecesInv
  <2>3. CASE /\ i - Len(a) \in DOMAIN w /\ b[i] = w[i - Len(a)]
             /\ j - Len(a) \in DOMAIN w /\ b[j] = w[j - Len(a)]
    <3>1. i - Len(a) < j - Len(a)
      BY <1>3
    <3> QED
      BY <2>3, <3>1 DEF PiecesInv, InOrder
  <2>4. ~ (i > Len(a) /\ j \in DOMAIN a)
    BY <1>3
  <2> QED
    BY <1>3, <2>1, <2>2, <2>3, <2>4
<1>8. InOrder(v)
  <2> SUFFICES ASSUME NEW i \in DOMAIN v, NEW j \in DOMAIN v, i < j PROVE v[i].n < v[j].n
    BY DEF InOrder
  <2>1. n + i < n + j
    BY <1>3
  <2> QED
    BY <1>3, <2>1 DEF PiecesInv, InOrder
<1>9. \A i \in DOMAIN b, j \in DOMAIN v : b[i].n < v[j].n
  <2> SUFFICES ASSUME NEW i \in DOMAIN b, NEW j \in DOMAIN v PROVE b[i].n < v[j].n
    OBVIOUS
  <2>1. n + j \in DOMAIN w /\ v[j] = w[n + j] /\ j \in Nat \ {0}
    BY <1>3
  <2>2. CASE i \in DOMAIN a /\ b[i] = a[i]
    BY <2>1, <2>2 DEF PiecesInv
  <2>3. CASE i - Len(a) <= n /\ i - Len(a) \in DOMAIN w /\ b[i] = w[i - Len(a)]
    <3>1. i - Len(a) < n + j
      BY <1>3, <2>1, <2>3
    <3> QED
      BY <2>1, <2>3, <3>1 DEF PiecesInv, InOrder
  <2> QED
    BY <1>3, <2>2, <2>3
<1> QED
  BY <1>5, <1>6, <1>7, <1>8, <1>9 DEF PiecesInv, InOrder

LEMMA SpeakPieces ==
  ASSUME TypeOK, NEW s \in Sends, PiecesInv(s), Speak(s)
  PROVE  PiecesInv(s)'
<1>1. PICK text \in {"word", "blank"} :
        wire' = [wire EXCEPT ![s] = Append(@, Line(s, said'[s], "true", text))]
  BY DEF Speak
<1> DEFINE a == shown[s]  w == wire[s]  v == wire'[s]  last == Line(s, said'[s], "true", text)
<1>2. /\ said'[s] = said[s] + 1 /\ said[s] \in Nat /\ shown' = shown
      /\ w \in Seq(Lines) /\ a \in Seq(Lines) /\ v = Append(w, last)
  BY <1>1 DEF Speak, TypeOK, pageVars
<1>3. last \in Lines /\ last.of = s /\ last.n = said'[s]
  BY <1>2 DEF Line, Lines
<1>4. /\ DOMAIN v = DOMAIN w \cup {Len(w) + 1} /\ v[Len(w) + 1] = last
      /\ \A i \in DOMAIN w : v[i] = w[i] /\ i \in Nat /\ i < Len(w) + 1
      /\ Len(w) \in Nat
  BY <1>2, <1>3
<1>5. /\ \A i \in DOMAIN w : w[i].n \in Nat /\ w[i].n <= said[s]
      /\ \A i \in DOMAIN a : a[i].n \in Nat /\ a[i].n <= said[s]
  <2>1. /\ \A i \in DOMAIN w : w[i] \in Lines
        /\ \A i \in DOMAIN a : a[i] \in Lines
    BY <1>2
  <2> QED
    BY <2>1 DEF PiecesInv, Lines
<1>6. /\ \A i \in DOMAIN w : w[i].n < said'[s]
      /\ \A i \in DOMAIN a : a[i].n < said'[s]
  BY <1>2, <1>5
<1>7. \A i \in DOMAIN v : v[i].of = s /\ v[i].n <= said'[s]
  BY <1>2, <1>3, <1>4, <1>6, <1>5 DEF PiecesInv
<1>8. InOrder(v)
  BY <1>3, <1>4, <1>6 DEF PiecesInv, InOrder
<1>9. \A i \in DOMAIN a, j \in DOMAIN v : a[i].n < v[j].n
  BY <1>3, <1>4, <1>6 DEF PiecesInv
<1>10. \A i \in DOMAIN a : a[i].of = s /\ a[i].n <= said'[s]
  BY <1>2, <1>5 DEF PiecesInv
<1> QED
  BY <1>2, <1>7, <1>8, <1>9, <1>10 DEF PiecesInv, InOrder

LEMMA PiecesStay ==
  ASSUME NEW t, PiecesInv(t), shown'[t] = shown[t], said'[t] = said[t],
         wire'[t] = wire[t] \/ wire'[t] = <<>>
  PROVE  PiecesInv(t)'
  BY DEF PiecesInv, InOrder

LEMMA AnswerPieces ==
  ASSUME TypeOK, NEW s \in Sends, BubbleInv(s),
         Refuse(s) \/ Socialise(s) \/ AnswerFromKB(s) \/ StartModel(s)
  PROVE  PiecesInv(s)'
<1> DEFINE none == <<>>
           one(mark) == <<Line(s, 1, mark, "word")>>
<1>1. ASSUME NEW from, NEW state, NEW lines, Respond(s, from, state, lines)
      PROVE  /\ shown[s] = <<>> /\ shown' = shown
             /\ wire'[s] = lines /\ said'[s] = Len(lines)
  <2>1. /\ stream[s] = "pending" /\ shown' = shown
        /\ wire' = [wire EXCEPT ![s] = lines] /\ said' = [said EXCEPT ![s] = Len(lines)]
    BY <1>1 DEF Respond, pageVars
  <2> QED
    BY <2>1 DEF BubbleInv, TypeOK
<1>2. /\ shown[s] = <<>> /\ shown' = shown /\ said'[s] = Len(wire'[s])
      /\ wire'[s] = none \/ \E mark \in {"false", "true"} : wire'[s] = one(mark)
  <2>1. CASE Refuse(s)
    BY <1>1, <2>1 DEF Refuse
  <2>2. CASE Socialise(s)
    BY <1>1, <2>2 DEF Socialise
  <2>3. CASE AnswerFromKB(s)
    BY <1>1, <2>3 DEF AnswerFromKB
  <2>4. CASE StartModel(s)
    BY <1>1, <2>4 DEF StartModel
  <2> QED
    BY <2>1, <2>2, <2>3, <2>4
<1>3. /\ Len(wire'[s]) \in Nat
      /\ \A i \in DOMAIN wire'[s] :
           i = 1 /\ wire'[s][i].of = s /\ wire'[s][i].n = 1 /\ Len(wire'[s]) = 1
  <2>1. CASE wire'[s] = none
    BY <2>1
  <2>2. ASSUME NEW mark \in {"false", "true"}, wire'[s] = one(mark)
        PROVE  /\ Len(wire'[s]) = 1 /\ DOMAIN wire'[s] = {1}
               /\ wire'[s][1].of = s /\ wire'[s][1].n = 1
    BY <2>2 DEF Line
  <2> QED
    BY <1>2, <2>1, <2>2
<1>5. DOMAIN shown'[s] = {}
  BY <1>2
<1> QED
  BY <1>2, <1>3, <1>5 DEF PiecesInv, InOrder

LEMMA PiecesKept ==
  ASSUME TypeOK, SentInv, BubblesInv, \A t \in Sends : PiecesInv(t), [Next]_vars
  PROVE  \A t \in Sends : PiecesInv(t)'
<1>1. ASSUME NEW s \in Sends, Read(s) PROVE \A t \in Sends : PiecesInv(t)'
  <2>1. \A t \in Sends \ {s} : shown'[t] = shown[t] /\ wire'[t] = wire[t] /\ said'[t] = said[t]
    BY <1>1 DEF Read, TypeOK
  <2> QED
    BY <1>1, <2>1, ReadPieces, PiecesStay
<1>2. ASSUME NEW s \in Sends, Speak(s) PROVE \A t \in Sends : PiecesInv(t)'
  <2>1. \A t \in Sends \ {s} : shown'[t] = shown[t] /\ wire'[t] = wire[t] /\ said'[t] = said[t]
    BY <1>2 DEF Speak, TypeOK, pageVars
  <2> QED
    BY <1>2, <2>1, SpeakPieces, PiecesStay
<1>3. ASSUME NEW s \in Sends, Refuse(s) \/ Socialise(s) \/ AnswerFromKB(s) \/ StartModel(s)
      PROVE  \A t \in Sends : PiecesInv(t)'
  <2>1. \A t \in Sends \ {s} : shown'[t] = shown[t] /\ wire'[t] = wire[t] /\ said'[t] = said[t]
    BY <1>3 DEF Refuse, Socialise, AnswerFromKB, StartModel, Respond, TypeOK, pageVars
  <2> QED
    BY <1>3, <2>1, AnswerPieces, PiecesStay DEF BubblesInv
<1>4. ASSUME NEW s \in Sends, Fail(s) PROVE \A t \in Sends : PiecesInv(t)'
  <2>1. \A t \in Sends : /\ shown'[t] = shown[t] /\ said'[t] = said[t]
                         /\ wire'[t] = wire[t] \/ wire'[t] = <<>>
    BY <1>4 DEF Fail, TypeOK
  <2> QED
    BY <2>1, PiecesStay
<1>5. CASE UNCHANGED <<shown, wire, said>>
  BY <1>5, PiecesStay
<1> QED
  BY <1>1, <1>2, <1>3, <1>4, <1>5
     DEF Next, vars, Page, Answers, Send, Finish, Ends, Close, Break, Click, ServeSave, ServeFlag,
         ServePurge, Becomes, Returns, StoresElsewhere, LosesRecord, Restart, pageVars, streamVars

\* However many answers are read at once, a bubble holds its own answer's pieces, in the
\* order they were written and none twice (index.html:180-198).
THEOREM BubblesInOrder == Spec => []ShownInOrder
<1> DEFINE Pieces == \A t \in Sends : PiecesInv(t)
<1>1. Init => Pieces
  BY DEF Init, PiecesInv, InOrder
<1>2. TypeOK /\ SentInv /\ BubblesInv /\ Pieces /\ [Next]_vars => Pieces'
  BY PiecesKept
<1>3. TypeOK /\ Pieces => ShownInOrder
  <2> SUFFICES ASSUME TypeOK, Pieces, NEW s \in Sends,
                      NEW i \in DOMAIN (shown[s] \o wire[s])
               PROVE  /\ (shown[s] \o wire[s])[i].of = s /\ (shown[s] \o wire[s])[i].n <= said[s]
                      /\ \A j \in 1..(i - 1) :
                           (shown[s] \o wire[s])[j].n < (shown[s] \o wire[s])[i].n
    BY DEF ShownInOrder
  <2> DEFINE a == shown[s]  w == wire[s]  b == a \o w
  <2>1. a \in Seq(Lines) /\ w \in Seq(Lines) /\ PiecesInv(s)
    BY DEF TypeOK
  <2>2. /\ \A k \in DOMAIN b : \/ k \in DOMAIN a /\ b[k] = a[k]
                               \/ k - Len(a) \in DOMAIN w /\ b[k] = w[k - Len(a)] /\ k > Len(a)
        /\ DOMAIN a = 1..Len(a) /\ Len(a) \in Nat /\ DOMAIN b = 1..Len(b) /\ Len(b) \in Nat
    <3>1. /\ DOMAIN b = 1..Len(b) /\ Len(b) = Len(a) + Len(w)
          /\ Len(a) \in Nat /\ Len(w) \in Nat
          /\ DOMAIN a = 1..Len(a) /\ DOMAIN w = 1..Len(w)
          /\ \A k \in 1..Len(a) : b[k] = a[k]
          /\ \A k \in (Len(a) + 1)..(Len(a) + Len(w)) : b[k] = w[k - Len(a)]
      BY <2>1, ConcatIs
    <3> HIDE DEF b, a, w
    <3>2. ASSUME NEW k \in DOMAIN b
          PROVE  \/ k \in DOMAIN a /\ b[k] = a[k]
                 \/ k - Len(a) \in DOMAIN w /\ b[k] = w[k - Len(a)] /\ k > Len(a)
      <4>1. CASE k <= Len(a)
        BY <3>1, <4>1
      <4>2. CASE k > Len(a)
        BY <3>1, <4>2
      <4> QED
        BY <3>1, <4>1, <4>2
    <3> QED
      BY <3>1, <3>2
  <2>5. /\ i \in DOMAIN b
        /\ \A k \in DOMAIN a : a[k].of = s /\ a[k].n <= said[s]
        /\ \A k \in DOMAIN w : w[k].of = s /\ w[k].n <= said[s]
    BY <2>1 DEF PiecesInv
  <2>6. /\ InOrder(a) /\ InOrder(w)
        /\ \A k \in DOMAIN a, l \in DOMAIN w : a[k].n < w[l].n
    BY <2>1 DEF PiecesInv
  <2> HIDE DEF a, w, b
  <2>3. b[i].of = s /\ b[i].n <= said[s]
    BY <2>2, <2>5
  <2>4. ASSUME NEW j \in 1..(i - 1) PROVE b[j].n < b[i].n
    <3>1. j \in DOMAIN b /\ j < i /\ j \in Nat /\ i \in Nat
      BY <2>2, <2>5
    <3>2. CASE i \in DOMAIN a /\ b[i] = a[i]
      <4>1. j \in DOMAIN a /\ b[j] = a[j]
        BY <2>2, <3>1, <3>2
      <4> QED
        BY <2>6, <3>1, <3>2, <4>1 DEF InOrder
    <3>3. CASE i - Len(a) \in DOMAIN w /\ b[i] = w[i - Len(a)]
      <4>1. CASE j \in DOMAIN a /\ b[j] = a[j]
        BY <2>6, <3>3, <4>1
      <4>2. CASE j - Len(a) \in DOMAIN w /\ b[j] = w[j - Len(a)]
        <5>1. j - Len(a) < i - Len(a)
          BY <2>2, <3>1
        <5> QED
          BY <2>6, <3>3, <4>2, <5>1 DEF InOrder
      <4> QED
        BY <2>2, <3>1, <4>1, <4>2
    <3> QED
      BY <2>2, <2>5, <3>2, <3>3
  <2> QED
    BY <2>3, <2>4 DEF a, w, b
<1> QED
  BY <1>1, <1>2, <1>3, BubblesAlways, PTL DEF Spec

-----------------------------------------------------------------------------
(***************************************************************************)
(* The history: prompts are sent in the order of their numbers, so a new   *)
(* one comes after all that are there.                                     *)
(***************************************************************************)

SentInOrder == \A s, t \in Sends : s < t /\ reader[s] = "unsent" => reader[t] = "unsent"

Entries == [role : {"user", "assistant"}, of : Sends]

\* A message that is not in the history yet, and not out of turn, may be pushed.
LEMMA PushKeeps ==
  ASSUME TypeOK, HistoryMatches, NEW role \in {"user", "assistant"}, NEW s \in Sends,
         history' = Append(history, Message(role, s)),
         \A t \in Sends : reader'[t] # "unsent" <=> reader[t] # "unsent" \/ (role = "user" /\ t = s),
         \A t \in Sends : reader'[t] = "done" <=> reader[t] = "done" \/ (role = "assistant" /\ t = s),
         role = "user" => /\ reader[s] = "unsent"
                          /\ \A t \in Sends : reader[t] # "unsent" => t < s,
         role = "assistant" => reader[s] = "reading"
  PROVE  HistoryMatches'
<1> DEFINE h == history  g == history'  n == Len(history) + 1
<1>1. h \in Seq(Entries) /\ Message(role, s) \in Entries
  BY DEF TypeOK, Entries, Message
<1>2. /\ DOMAIN h = 1..Len(h) /\ Len(h) \in Nat /\ DOMAIN g = 1..n
      /\ \A i \in 1..Len(h) : h[i] \in Entries /\ g[i] = h[i]
      /\ g[n] = Message(role, s)
  BY <1>1
<1>3. \A i \in 1..Len(h) : /\ h[i] = Message(h[i].role, h[i].of)
                            /\ h[i].of \in Sends /\ h[i].role \in {"user", "assistant"}
  BY <1>2 DEF Entries, Message
<1>4. g[n].role = role /\ g[n].of = s
  BY <1>2 DEF Message
<1> HIDE DEF h, g, n
<1>5. ASSUME NEW i \in 1..Len(h)
      PROVE  /\ h[i].role = "user" => reader[h[i].of] # "unsent"
             /\ h[i].role = "assistant" => reader[h[i].of] = "done"
  <2>1. InHistory(Message(h[i].role, h[i].of))
    BY <1>2, <1>3 DEF InHistory, h
  <2> QED
    BY <1>3, <2>1 DEF HistoryMatches
<1>6. ASSUME NEW m PROVE InHistory(m)' <=> InHistory(m) \/ m = Message(role, s)
  <2>1. \A i \in DOMAIN g : i \in 1..Len(h) \/ i = n
    BY <1>2 DEF n, h
  <2>2. n \in DOMAIN g /\ \A i \in DOMAIN h : i \in DOMAIN g
    BY <1>2 DEF n, h
  <2>3. (\E i \in DOMAIN g : g[i] = m) <=> (\E i \in DOMAIN h : h[i] = m) \/ m = Message(role, s)
    BY <1>2, <2>1, <2>2
  <2> QED
    BY <2>3 DEF InHistory, g, h
<1>7. ASSUME NEW t \in Sends
      PROVE  /\ InHistory(Message("user", t))' <=> reader'[t] # "unsent"
             /\ InHistory(Message("assistant", t))' <=> reader'[t] = "done"
  <2>1. ASSUME NEW r \in {"user", "assistant"}
        PROVE  InHistory(Message(r, t))' <=> InHistory(Message(r, t)) \/ (r = role /\ t = s)
    <3>1. /\ Message(r, t).role = r /\ Message(r, t).of = t
          /\ Message(role, s).role = role /\ Message(role, s).of = s
      BY DEF Message
    <3>2. Message(r, t) = Message(role, s) <=> (r = role /\ t = s)
      BY <3>1
    <3>3. InHistory(Message(r, t))' <=> InHistory(Message(r, t)) \/ Message(r, t) = Message(role, s)
      BY <1>6
    <3> QED
      BY <3>2, <3>3
  <2>2. /\ InHistory(Message("user", t)) <=> reader[t] # "unsent"
        /\ InHistory(Message("assistant", t)) <=> reader[t] = "done"
    BY DEF HistoryMatches
  <2> QED
    BY <2>1, <2>2
<1>8. ASSUME NEW i \in DOMAIN g, NEW j \in 1..(i - 1)
      PROVE  /\ g[j].role = "user" /\ g[i].role = "user" => g[j].of < g[i].of
             /\ g[j].of = g[i].of => g[j].role = "user" /\ g[i].role = "assistant"
  <2>1. j \in 1..Len(h) /\ g[j] = h[j]
    BY <1>2 DEF n, h
  <2>2. CASE i \in 1..Len(h)
    BY <1>2, <2>1, <2>2 DEF HistoryMatches, h
  <2>3. CASE i = n
    BY <1>3, <1>4, <1>5, <2>1, <2>3
  <2> QED
    BY <1>2, <2>2, <2>3 DEF n, h
<1>9. \A t \in Sends : /\ (InHistory(Message("user", t)) <=> reader[t] # "unsent")'
                        /\ (InHistory(Message("assistant", t)) <=> reader[t] = "done")'
  BY <1>7
<1> QED
  BY <1>8, <1>9 DEF HistoryMatches, g

\* Steps that push nothing, send nothing and end no answer.
LEMMA HistoryStays ==
  ASSUME HistoryMatches, SentInOrder, history' = history,
         \A t \in Sends : /\ reader'[t] = "unsent" <=> reader[t] = "unsent"
                          /\ reader'[t] = "done" <=> reader[t] = "done"
  PROVE  HistoryMatches' /\ SentInOrder'
<1>1. \A m : InHistory(m)' <=> InHistory(m)
  BY DEF InHistory
<1>2. \A t \in Sends : /\ (InHistory(Message("user", t)) <=> reader[t] # "unsent")'
                        /\ (InHistory(Message("assistant", t)) <=> reader[t] = "done")'
  BY <1>1 DEF HistoryMatches
<1>3. HistoryMatches'
  BY <1>2 DEF HistoryMatches
<1> QED
  BY <1>3 DEF SentInOrder

LEMMA HistoryKept ==
  TypeOK /\ HistoryMatches /\ SentInOrder /\ [Next]_vars => HistoryMatches' /\ SentInOrder'
<1> SUFFICES ASSUME TypeOK, HistoryMatches, SentInOrder, [Next]_vars
             PROVE  HistoryMatches' /\ SentInOrder'
  OBVIOUS
<1>0. reader \in [Sends -> {"unsent", "reading", "done", "failed"}] /\ Sends \subseteq Nat
  BY DEF TypeOK, Sends
<1>1. CASE \E s \in Sends : Send(s)
  <2>1. PICK s \in Sends : Send(s)
    BY <1>1
  <2>2. /\ reader[s] = "unsent" /\ reader' = [reader EXCEPT ![s] = "reading"]
        /\ \A t \in 1..(s - 1) : reader[t] # "unsent"
        /\ history' = Append(history, Message("user", s))
    BY <2>1 DEF Send
  <2>3. \A t \in Sends : reader[t] # "unsent" => t < s
    BY <1>0, <2>2 DEF SentInOrder
  <2>4. HistoryMatches'
    BY <1>0, <2>2, <2>3, PushKeeps
  <2>5. ASSUME NEW t \in Sends, NEW u \in Sends, t < u, reader'[t] = "unsent"
        PROVE  reader'[u] = "unsent"
    <3>1. t # s /\ reader[t] = "unsent"
      BY <1>0, <2>2, <2>5
    <3>2. u # s
      BY <1>0, <2>2, <2>5, <3>1 DEF Sends
    <3> QED
      BY <1>0, <2>2, <2>5, <3>1, <3>2 DEF SentInOrder
  <2> QED
    BY <2>4, <2>5 DEF SentInOrder
<1>2. CASE \E s \in Sends : Finish(s)
  <2>1. PICK s \in Sends : Finish(s)
    BY <1>2
  <2>2. /\ reader[s] = "reading" /\ reader' = [reader EXCEPT ![s] = "done"]
        /\ history' = Append(history, Message("assistant", s))
    BY <2>1 DEF Finish, Ends
  <2>3. HistoryMatches'
    BY <1>0, <2>2, PushKeeps
  <2> QED
    BY <1>0, <2>2, <2>3 DEF SentInOrder
<1>3. CASE \E s \in Sends : Fail(s)
  <2>1. PICK s \in Sends : Fail(s)
    BY <1>3
  <2>2. /\ reader[s] = "reading" /\ reader' = [reader EXCEPT ![s] = "failed"]
        /\ history' = history
    BY <2>1 DEF Fail
  <2> QED
    BY <1>0, <2>2, HistoryStays
<1>4. CASE UNCHANGED <<history, reader>>
  BY <1>4, HistoryStays
<1> QED
  BY <1>1, <1>2, <1>3, <1>4
     DEF Next, vars, Page, Answers, Read, Refuse, Socialise, AnswerFromKB, StartModel, Respond,
         Close, Speak, Break, Click, ServeSave, ServeFlag, ServePurge, Becomes, Returns,
         StoresElsewhere, LosesRecord, Restart, pageVars

\* However sends and answers overlap, the history has every prompt once, in the order
\* they were sent, and after each answered prompt one answer (index.html:166, 199).
THEOREM HistoryIsTrue == Spec => []HistoryMatches
<1>1. Init => HistoryMatches /\ SentInOrder
  BY DEF Init, HistoryMatches, InHistory, SentInOrder
<1>2. TypeOK /\ HistoryMatches /\ SentInOrder /\ [Next]_vars => HistoryMatches' /\ SentInOrder'
  BY HistoryKept
<1> QED
  BY <1>1, <1>2, BubblesAlways, PTL DEF Spec

-----------------------------------------------------------------------------
(***************************************************************************)
(* The server behind the page.                                             *)
(***************************************************************************)

\* A step of one send is one of the contract, or leaves the knowledge base alone.
LEMMA SendKeepsContract ==
  ASSUME NEW s \in Sends,
         \/ Send(s) \/ Page(s) \/ Answers(s) \/ Speak(s) \/ Break(s)
         \/ \E button \in {"save", "flag"} : Click(s, button)
  PROVE  Contract!Next \/ UNCHANGED kbVars
PROOF
  <1>1. CASE AnswerFromKB(s)
    BY <1>1 DEF AnswerFromKB, Contract!Next
  <1>2. CASE Send(s) \/ Speak(s) \/ Break(s) \/ \E button \in {"save", "flag"} : Click(s, button)
    BY <1>2, Zenon DEF Send, Speak, Break, Click
  <1>3. CASE Page(s)
    BY <1>3, Zenon DEF Page, Read, Finish, Fail, Ends
  <1>4. CASE Refuse(s) \/ Socialise(s) \/ StartModel(s) \/ Close(s)
    BY <1>4, Zenon DEF Refuse, Socialise, StartModel, Close
  <1> QED
    BY <1>1, <1>2, <1>3, <1>4, Zenon DEF Answers

\* So is a step of a button's request: a save stores, a flag flags before it forgets.
LEMMA CallKeepsContract ==
  ASSUME NEW i \in DOMAIN calls, ServeSave(i) \/ ServeFlag(i) \/ ServePurge(i) \/ Returns(i)
  PROVE  Contract!Next \/ UNCHANGED kbVars
PROOF
  <1>1. CASE ServeSave(i)
    BY <1>1, Zenon DEF ServeSave, Contract!Next
  <1>2. CASE ServeFlag(i)
    BY <1>2, Zenon DEF ServeFlag, Contract!Next
  <1>3. CASE ServePurge(i)
    BY <1>3, Zenon DEF ServePurge, Contract!Next
  <1>4. CASE Returns(i)
    BY <1>4, Zenon DEF Returns
  <1> QED
    BY <1>1, <1>2, <1>3, <1>4

\* The page and its user see a server that keeps the contract, and nothing else of it;
\* so what is proved of the page holds before every server that implements it, and
\* server.py does (ServerImplementsContract of KBServerProofs).
THEOREM ServerKeepsContract == Spec => Contract!Spec
PROOF
  <1>1. Init => Contract!Init
    BY DEF Init
  <1>2. [Next]_vars => [Contract!Next]_(Contract!vars)
    <2> SUFFICES ASSUME [Next]_vars PROVE Contract!Next \/ UNCHANGED kbVars
      BY DEF kbVars, Contract!vars
    <2>1. CASE \E s \in Sends :
                 \/ Send(s) \/ Page(s) \/ Answers(s) \/ Speak(s) \/ Break(s)
                 \/ \E button \in {"save", "flag"} : Click(s, button)
      BY <2>1, SendKeepsContract, Zenon
    <2>2. CASE \E i \in DOMAIN calls : ServeSave(i) \/ ServeFlag(i) \/ ServePurge(i) \/ Returns(i)
      BY <2>2, CallKeepsContract, Zenon
    <2>3. CASE StoresElsewhere \/ LosesRecord \/ Restart
      BY <2>3, Zenon DEF StoresElsewhere, LosesRecord, Restart, Contract!Next
    <2>4. CASE UNCHANGED vars
      BY <2>4 DEF vars
    <2> QED
      BY <2>1, <2>2, <2>3, <2>4, Zenon DEF Next
  <1> QED
    BY <1>1, <1>2, PTL DEF Spec, Contract!Spec
=============================================================================
