--------------------------- MODULE KBServerProofs ---------------------------
(***************************************************************************)
(* Theorems about KBServer, for any set of connections, prompts, answers   *)
(* and reference files.                                                    *)
(***************************************************************************)
EXTENDS KBServer, KnowledgeTableProofs

-----------------------------------------------------------------------------
(***************************************************************************)
(* Types.                                                                  *)
(***************************************************************************)

\* What a request carries.
LEMMA RequestType ==
  ASSUME TypeOK, NEW c \in Conns
  PROVE  req[c].prompt \in Texts \cup {NoText} /\ req[c].text \in Answers \cup {NoText}
PROOF
  <1>1. req[c] \in Requests \cup {NoRequest}
    BY DEF TypeOK
  <1>2. \A r \in ChatRequests : r.prompt \in Prompts /\ r.text = NoText
    BY DEF ChatRequests
  <1>3. \A r \in SaveRequests : r.prompt \in Prompts /\ r.text \in Sent
    BY DEF SaveRequests
  <1>4. \A r \in FlagRequests : r.prompt \in Prompts /\ r.text = NoText
    BY DEF FlagRequests
  <1>5. NoRequest.prompt = NoText /\ NoRequest.text = NoText
    BY DEF NoRequest
  <1> QED
    BY <1>1, <1>2, <1>3, <1>4, <1>5, KeyAssumption, AnswerAssumption DEF Requests

\* The key of a request with a prompt is a text.
LEMMA KeyType ==
  ASSUME TypeOK, NEW c \in Conns, req[c].prompt # NoText
  PROVE  req[c].prompt \in Texts /\ KeyOf(c) \in Texts
  BY RequestType, KeyAssumption DEF KeyOf

\* A save leaves a table, whose new row is the prompt's.
LEMMA SavedTable ==
  ASSUME TypeOK, NEW prompt \in Texts \cup {NoText}, NEW text \in Answers \cup {NoText},
         Saved(prompt, text)
  PROVE  /\ table' \in Seq(Rows)
         /\ KeysOf(table') = KeysOf(table) \cup {Norm[prompt]}
         /\ \A i \in DOMAIN table' :
              \/ /\ table'[i].key = Norm[prompt] /\ table'[i].key \notin CasualKeys
                 /\ table'[i].text \notin Short
              \/ \E j \in DOMAIN table : table'[i] = table[j]
PROOF
  <1> DEFINE row == [key |-> Norm[prompt], text |-> Clean[text], source |-> "learned"]
  <1>1. prompt \in Texts /\ text \in Answers /\ table' = InsertOrReplace(table, row)
    BY DEF Saved, Accepts
  <1>2. row \in Rows
    BY <1>1, KeyAssumption, AnswerAssumption DEF Rows, Sources
  <1>3. Norm[prompt] \notin CasualKeys /\ Clean[text] \notin Short
    BY <1>1, KeyAssumption DEF Saved, Accepts, IsCasual
  <1>4. table \in Seq(Rows)
    BY DEF TypeOK
  <1> HIDE DEF row
  <1>5. /\ InsertOrReplace(table, row) \in Seq(Rows)
        /\ KeysOf(InsertOrReplace(table, row)) = KeysOf(table) \cup {row.key}
        /\ \A i \in DOMAIN InsertOrReplace(table, row) :
             \/ InsertOrReplace(table, row)[i] = row
             \/ \E j \in DOMAIN table : InsertOrReplace(table, row)[i] = table[j]
    BY <1>2, <1>4, ReplaceKeepsKeys
  <1> QED
    BY <1>1, <1>3, <1>5 DEF row

\* Loading a fact does the same to the rows init_db sees.
LEMMA LoadedTable ==
  ASSUME TypeOK, LoadFact
  PROVE  /\ work' \in Seq(Rows) /\ todo' \in Seq(Facts)
         /\ KeysOf(work) \subseteq KeysOf(work')
         /\ \A i \in DOMAIN work' :
              work'[i].source = "reference" \/ \E j \in DOMAIN work : work'[i] = work[j]
PROOF
  <1> DEFINE row == [key |-> Head(todo).key, text |-> Head(todo).text, source |-> "reference"]
  <1>1. Head(todo) \in Facts /\ Tail(todo) \in Seq(Facts)
    BY DEF TypeOK, LoadFact
  <1>2. row \in Rows
    BY <1>1 DEF LoadFact, Rows, Facts, Sources
  <1>3. work \in Seq(Rows) /\ work' = InsertOrReplace(work, row) /\ todo' = Tail(todo)
    BY DEF TypeOK, LoadFact
  <1>4. row.source = "reference"
    OBVIOUS
  <1> HIDE DEF row
  <1>5. /\ InsertOrReplace(work, row) \in Seq(Rows)
        /\ KeysOf(InsertOrReplace(work, row)) = KeysOf(work) \cup {row.key}
        /\ \A i \in DOMAIN InsertOrReplace(work, row) :
             \/ InsertOrReplace(work, row)[i] = row
             \/ \E j \in DOMAIN work : InsertOrReplace(work, row)[i] = work[j]
    BY <1>2, <1>3, ReplaceKeepsKeys
  <1> QED
    BY <1>1, <1>3, <1>4, <1>5

\* The rows the seeding leaves are the old ones or the defaults.
LEMMA SeededTable ==
  ASSUME TypeOK, Seed
  PROVE  /\ table' \in Seq(Rows) /\ work' = table'
         /\ work = <<>> \/ table' = table
         /\ \A i \in DOMAIN table' :
              \/ table'[i] \in {Seeds[1], Seeds[2]}
              \/ \E j \in DOMAIN table : table'[i] = table[j]
PROOF
  <1>1. work' = table' /\ table \in Seq(Rows) /\ work \in Seq(Rows)
    BY DEF TypeOK, Seed
  <1>2. CASE work # <<>>
    BY <1>1, <1>2 DEF Seed
  <1>3. CASE work = <<>>
    <2> DEFINE first  == Seeds[1]
               second == Seeds[2]
               once   == InsertOrIgnore(work, first)
    <2>1. first \in Rows /\ second \in Rows
      BY FileAssumption
    <2>2. table' = InsertOrIgnore(once, second)
      BY <1>3 DEF Seed
    <2>3. \A j \in DOMAIN work : FALSE
      <3>1. DOMAIN work = 1..Len(work) /\ Len(work) = 0
        BY <1>1, <1>3
      <3> QED
        BY <3>1
    <2> HIDE DEF first, second
    <2>4. /\ once \in Seq(Rows)
          /\ KeysOf(once) = KeysOf(work) \cup {first.key}
          /\ \A i \in DOMAIN once : once[i] = first \/ \E j \in DOMAIN work : once[i] = work[j]
      <3>1. work \in Seq(Rows)
        BY <1>1
      <3>2. first \in Rows
        BY <2>1
      <3> QED
        BY <3>1, <3>2, IgnoreKeepsKeys
    <2> HIDE DEF once
    <2>5. /\ InsertOrIgnore(once, second) \in Seq(Rows)
          /\ KeysOf(InsertOrIgnore(once, second)) = KeysOf(once) \cup {second.key}
          /\ \A i \in DOMAIN InsertOrIgnore(once, second) :
               \/ InsertOrIgnore(once, second)[i] = second
               \/ \E j \in DOMAIN once : InsertOrIgnore(once, second)[i] = once[j]
      <3>1. once \in Seq(Rows)
        BY <2>4
      <3>2. second \in Rows
        BY <2>1
      <3> QED
        BY <3>1, <3>2, IgnoreKeepsKeys
    <2>6. \A i \in DOMAIN table' : table'[i] \in {first, second}
      BY <2>2, <2>3, <2>4, <2>5
    <2> QED
      BY <1>1, <1>3, <2>2, <2>5, <2>6 DEF first, second
  <1> QED
    BY <1>2, <1>3

\* A reply is due.
LEMMA RespondType ==
  ASSUME TypeOK, NEW c \in Conns, NEW kind \in {"ok", "error", "social", "kb", "answer"},
         NEW from \in Texts \cup {NoText}, Respond(c, kind, from)
  PROVE  pc'    \in [Conns -> {"idle", "arrived", "writing", "purging", "thinking", "generated",
                               "streaming", "replying"}]
         /\ reply' \in [Conns -> Replies]
  BY DEF TypeOK, Respond, Replies

-----------------------------------------------------------------------------
\* Every step keeps every variable in its type.
LEMMA TypeStep ==
  ASSUME TypeOK, LoopInv, [Next]_vars
  PROVE  TypeOK'
PROOF
  <1> USE KeyAssumption, AnswerAssumption, FileAssumption, BoundAssumption
  <1>1. CASE OpenDb
    BY <1>1 DEF OpenDb, TypeOK, connVars, history
  <1>2. CASE LoadFact
    BY <1>2, LoadedTable DEF LoadFact, TypeOK, connVars, history
  <1>3. CASE LoadFails
    BY <1>3 DEF LoadFails, TypeOK, connVars, history
  <1>4. CASE CommitFacts
    BY <1>4 DEF CommitFacts, TypeOK, connVars, history
  <1>5. CASE Seed
    BY <1>5, SeededTable DEF Seed, TypeOK, connVars, history
  <1>6. CASE Crash
    BY <1>6 DEF Crash, TypeOK, history, NoRequest, NoReply, Replies
  <1>7. ASSUME NEW c \in Conns, Arrive(c) PROVE TypeOK'
    BY <1>7 DEF Arrive, TypeOK, bootVars, history
  <1>8. ASSUME NEW c \in Conns, Save(c) PROVE TypeOK'
    <2>1. req[c].prompt \in Texts \cup {NoText} /\ req[c].text \in Answers \cup {NoText}
      BY RequestType
    <2>2. table' \in Seq(Rows)
      BY <1>8, <2>1, SavedTable DEF Save, NotSaved, TypeOK
    <2>3. \E kind \in {"ok", "error"} : Respond(c, kind, NoText)
      BY <1>8 DEF Save
    <2> QED
      BY <1>8, <2>2, <2>3, RespondType DEF Save, TypeOK, bootVars, history
  <1>9. ASSUME NEW c \in Conns, FlagOpens(c) PROVE TypeOK'
    BY <1>9, KeyType DEF FlagOpens, TypeOK, bootVars, history
  <1>10. ASSUME NEW c \in Conns, FlagRefused(c) PROVE TypeOK'
    BY <1>10 DEF FlagRefused, Respond, TypeOK, bootVars, history, Replies
  <1>11. ASSUME NEW c \in Conns, FlagWrites(c) PROVE TypeOK'
    BY <1>11 DEF FlagWrites, TypeOK, bootVars, history
  <1>12. ASSUME NEW c \in Conns, FlagWriteFails(c) PROVE TypeOK'
    BY <1>12 DEF FlagWriteFails, Respond, TypeOK, bootVars, history, Replies
  <1>13. ASSUME NEW c \in Conns, FlagPurges(c) PROVE TypeOK'
    <2>1. table' \in Seq(Rows)
      BY <1>13, DeleteRows DEF FlagPurges, TypeOK
    <2>2. \E kind \in {"ok", "error"} : Respond(c, kind, NoText)
      BY <1>13 DEF FlagPurges
    <2> QED
      BY <1>13, <2>1, <2>2, RespondType DEF FlagPurges, TypeOK, bootVars, history
  <1>14. ASSUME NEW c \in Conns, ChatFails(c) \/ ChatSocial(c) PROVE TypeOK'
    <2>1. \E kind \in {"error", "social"} : Respond(c, kind, NoText)
      BY <1>14 DEF ChatFails, ChatSocial
    <2> QED
      BY <1>14, <2>1, RespondType DEF ChatFails, ChatSocial, TypeOK, bootVars, history
  <1>15. ASSUME NEW c \in Conns, ChatKB(c) PROVE TypeOK'
    <2>1. PICK i \in DOMAIN table : Respond(c, "kb", table[i].key)
      BY <1>15 DEF ChatKB, Hits
    <2>2. table \in Seq(Rows)
      BY DEF TypeOK
    <2>3. table[i] \in Rows
      BY <2>1, <2>2
    <2>4. table[i].key \in Texts
      BY <2>3 DEF Rows
    <2> QED
      BY <1>15, <2>1, <2>4, RespondType DEF ChatKB, TypeOK, bootVars, history
  <1>16. ASSUME NEW c \in Conns, ChatModel(c) PROVE TypeOK'
    BY <1>16 DEF ChatModel, TypeOK, bootVars, history
  <1>17. ASSUME NEW c \in Conns, Think(c) PROVE TypeOK'
    BY <1>17 DEF Think, TypeOK, bootVars, history
  <1>18. ASSUME NEW c \in Conns, ThinkFails(c) PROVE TypeOK'
    BY <1>18 DEF ThinkFails, Respond, TypeOK, bootVars, history, Replies
  <1>19. ASSUME NEW c \in Conns, Learn(c) PROVE TypeOK'
    <2>1. req[c].prompt \in Texts \cup {NoText} /\ raw[c] \in RawOutputs
      BY <1>19, RequestType DEF Learn, LoopInv
    <2>2. Clean[raw[c]] \in Answers
      BY <2>1
    <2>3. table' \in Seq(Rows)
      BY <1>19, <2>1, <2>2, SavedTable DEF Learn, NotSaved, TypeOK
    <2>4. Respond(c, "answer", NoText)
      BY <1>19 DEF Learn
    <2> QED
      BY <1>19, <2>3, <2>4, RespondType DEF Learn, TypeOK, bootVars, history
  <1>20. ASSUME NEW c \in Conns, StreamChunk(c) PROVE TypeOK'
    BY <1>20 DEF StreamChunk, TypeOK, bootVars, history
  <1>21. ASSUME NEW c \in Conns, StreamEnd(c) PROVE TypeOK'
    BY <1>21 DEF StreamEnd, Respond, TypeOK, bootVars, history, Replies
  <1>22. ASSUME NEW c \in Conns, Deliver(c) PROVE TypeOK'
    <2>1. reply[c].kind = "ok" => KeyOf(c) \in Texts
      BY KeyType DEF LoopInv
    <2>2. acked' \subseteq Texts /\ saved' \subseteq Texts
      BY <1>22, <2>1 DEF Deliver, TypeOK
    <2> QED
      BY <1>22, <2>2 DEF Deliver, Release, TypeOK, bootVars, NoRequest, NoReply, Replies
  <1>23. ASSUME NEW c \in Conns, Disconnect(c) PROVE TypeOK'
    BY <1>23 DEF Disconnect, Release, TypeOK, bootVars, history, NoRequest, NoReply, Replies
  <1>24. CASE UNCHANGED vars
    BY <1>24 DEF vars, bootVars, connVars, history, TypeOK
  <1> QED
    BY <1>1, <1>2, <1>3, <1>4, <1>5, <1>6, <1>7, <1>8, <1>9, <1>10, <1>11, <1>12, <1>13,
       <1>14, <1>15, <1>16, <1>17, <1>18, <1>19, <1>20, <1>21, <1>22, <1>23, <1>24
       DEF Next, Boot, Handle

-----------------------------------------------------------------------------
(***************************************************************************)
(* The safety invariants.                                                  *)
(***************************************************************************)

\* Who holds the event loop.
LEMMA LoopStep ==
  ASSUME TypeOK, LoopInv, [Next]_vars
  PROVE  LoopInv'
PROOF
  <1>1. CASE OpenDb
    BY <1>1 DEF OpenDb, TypeOK, LoopInv, Busy, LoopFree, connVars
  <1>2. CASE LoadFact
    BY <1>2 DEF LoadFact, TypeOK, LoopInv, Busy, LoopFree, connVars
  <1>3. CASE LoadFails
    BY <1>3 DEF LoadFails, TypeOK, LoopInv, Busy, LoopFree, connVars
  <1>4. CASE CommitFacts
    BY <1>4 DEF CommitFacts, TypeOK, LoopInv, Busy, LoopFree, connVars
  <1>5. CASE Seed
    BY <1>5 DEF Seed, TypeOK, LoopInv, Busy, LoopFree, connVars
  <1>6. CASE Crash
    BY <1>6 DEF Crash, TypeOK, LoopInv, Busy, LoopFree, NoReply
  <1>7. ASSUME NEW c \in Conns, Arrive(c) PROVE LoopInv'
    BY <1>7 DEF Arrive, TypeOK, LoopInv, Busy, LoopFree
  <1>8. ASSUME NEW c \in Conns, Save(c) PROVE LoopInv'
    <2>1. \/ Respond(c, "ok", NoText) /\ req[c].prompt \in Texts
          \/ Respond(c, "error", NoText)
      BY <1>8, RequestType DEF Save, Saved, Accepts
    <2>2. pc[c] = "arrived" /\ UNCHANGED <<req, draft, raw>>
      BY <1>8 DEF Save, Resumes
    <2>3. \E kind \in {"ok", "error"} :
            Respond(c, kind, NoText) /\ (kind = "ok" => req[c].prompt \in Texts)
      BY <2>1
    <2> QED
      BY <2>2, <2>3 DEF TypeOK, LoopInv, Busy, Respond
  <1>9. ASSUME NEW c \in Conns, FlagOpens(c) PROVE LoopInv'
    BY <1>9, RequestType DEF FlagOpens, TypeOK, LoopInv, Busy, LoopFree, Resumes
  <1>10. ASSUME NEW c \in Conns, FlagRefused(c) PROVE LoopInv'
    BY <1>10 DEF FlagRefused, TypeOK, LoopInv, Busy, LoopFree, Respond, Resumes
  <1>11. ASSUME NEW c \in Conns, FlagWrites(c) PROVE LoopInv'
    BY <1>11 DEF FlagWrites, TypeOK, LoopInv, Busy, LoopFree
  <1>12. ASSUME NEW c \in Conns, FlagWriteFails(c) PROVE LoopInv'
    BY <1>12 DEF FlagWriteFails, TypeOK, LoopInv, Busy, LoopFree, Respond
  <1>13. ASSUME NEW c \in Conns, FlagPurges(c) PROVE LoopInv'
    BY <1>13 DEF FlagPurges, TypeOK, LoopInv, Busy, LoopFree, Respond
  <1>14. ASSUME NEW c \in Conns, ChatFails(c) PROVE LoopInv'
    BY <1>14 DEF ChatFails, TypeOK, LoopInv, Busy, LoopFree, Respond, Resumes
  <1>15. ASSUME NEW c \in Conns, ChatSocial(c) PROVE LoopInv'
    BY <1>15 DEF ChatSocial, TypeOK, LoopInv, Busy, LoopFree, Respond, Resumes
  <1>16. ASSUME NEW c \in Conns, ChatKB(c) PROVE LoopInv'
    <2>1. req[c].prompt \in Texts
      BY <1>16, RequestType DEF ChatKB, AsksKB
    <2>2. \E from \in Texts \cup {NoText} : Respond(c, "kb", from)
      <3>1. PICK i \in DOMAIN table : Respond(c, "kb", table[i].key)
        BY <1>16 DEF ChatKB, Hits
      <3>2. table \in Seq(Rows)
        BY DEF TypeOK
      <3>3. table[i] \in Rows
        BY <3>1, <3>2
      <3>4. table[i].key \in Texts
        BY <3>3 DEF Rows
      <3> QED
        BY <3>1, <3>4
    <2> QED
      BY <1>16, <2>1, <2>2 DEF ChatKB, TypeOK, LoopInv, Busy, Respond, Resumes
  <1>17. ASSUME NEW c \in Conns, ChatModel(c) PROVE LoopInv'
    BY <1>17 DEF ChatModel, TypeOK, LoopInv, Busy, LoopFree, Resumes
  <1>18. ASSUME NEW c \in Conns, Think(c) PROVE LoopInv'
    BY <1>18 DEF Think, TypeOK, LoopInv, Busy, LoopFree
  <1>19. ASSUME NEW c \in Conns, ThinkFails(c) PROVE LoopInv'
    BY <1>19 DEF ThinkFails, TypeOK, LoopInv, Busy, LoopFree, Respond
  <1>20. ASSUME NEW c \in Conns, Learn(c) PROVE LoopInv'
    BY <1>20 DEF Learn, TypeOK, LoopInv, Busy, LoopFree, Respond
  <1>21. ASSUME NEW c \in Conns, StreamChunk(c) PROVE LoopInv'
    BY <1>21 DEF StreamChunk, TypeOK, LoopInv, Busy, LoopFree
  <1>22. ASSUME NEW c \in Conns, StreamEnd(c) PROVE LoopInv'
    BY <1>22 DEF StreamEnd, TypeOK, LoopInv, Busy, LoopFree, Respond
  <1>23. ASSUME NEW c \in Conns, Deliver(c) PROVE LoopInv'
    BY <1>23 DEF Deliver, TypeOK, LoopInv, Busy, LoopFree, Release, NoReply
  <1>24. ASSUME NEW c \in Conns, Disconnect(c) PROVE LoopInv'
    BY <1>24 DEF Disconnect, TypeOK, LoopInv, Busy, LoopFree, Release, NoReply
  <1>25. CASE UNCHANGED vars
    BY <1>25 DEF vars, bootVars, connVars, TypeOK, LoopInv, Busy, LoopFree
  <1> QED
    BY <1>1, <1>2, <1>3, <1>4, <1>5, <1>6, <1>7, <1>8, <1>9, <1>10, <1>11,
       <1>12, <1>13, <1>14, <1>15, <1>16, <1>17, <1>18, <1>19, <1>20, <1>21,
       <1>22, <1>23, <1>24, <1>25 DEF Next, Boot, Handle

\* Nothing is served while init_db runs, and it forgets no key.
LEMMA BootStep ==
  ASSUME TypeOK, LoopInv, BootInv, [Next]_vars
  PROVE  BootInv'
PROOF
  <1>1. CASE OpenDb
    BY <1>1 DEF OpenDb, connVars, BootInv, connVars
  <1>2. CASE LoadFact
    <2>1. UNCHANGED <<table, phase, pc>>
      BY <1>2 DEF LoadFact, connVars
    <2>2. KeysOf(work) \subseteq KeysOf(work')
      BY <1>2, LoadedTable
    <2> QED
      BY <2>1, <2>2 DEF BootInv
  <1>3. CASE LoadFails
    BY <1>3 DEF LoadFails, BootInv, connVars
  <1>4. CASE CommitFacts
    BY <1>4 DEF CommitFacts, BootInv, connVars
  <1>5. CASE Seed
    BY <1>5 DEF Seed, BootInv, connVars
  <1>6. CASE Crash
    BY <1>6 DEF Crash, BootInv
  <1>7. ASSUME NEW c \in Conns,
               Arrive(c) \/ Handle(c) \/ Think(c) \/ ThinkFails(c) \/ StreamChunk(c) \/ Disconnect(c)
        PROVE  BootInv'
    <2>1. pc[c] # "idle" \/ phase = "up"
      BY <1>7 DEF Arrive, Handle, Save, FlagOpens, FlagRefused, FlagWrites, FlagWriteFails,
                  FlagPurges, ChatFails, ChatSocial, ChatKB, ChatModel, Learn, StreamEnd, Deliver,
                  Resumes, Think, ThinkFails, StreamChunk, Disconnect
    <2>2. UNCHANGED phase
      BY <1>7 DEF Arrive, Handle, Save, FlagOpens, FlagRefused, FlagWrites, FlagWriteFails,
                  FlagPurges, ChatFails, ChatSocial, ChatKB, ChatModel, Learn, StreamEnd, Deliver,
                  Release, Think, ThinkFails, StreamChunk, Disconnect, bootVars
    <2> QED
      BY <2>1, <2>2 DEF BootInv
  <1>8. CASE UNCHANGED vars
    BY <1>8 DEF vars, bootVars, connVars, BootInv
  <1> QED
    BY <1>1, <1>2, <1>3, <1>4, <1>5, <1>6, <1>7, <1>8 DEF Next, Boot

\* The step leaves the corrections file alone, and no flag handler gets to it.
FileQuiet ==
  /\ UNCHANGED <<corrections, draft>>
  /\ \A c \in Conns : pc'[c] = "writing" <=> pc[c] = "writing"
  /\ \A c \in Conns : pc'[c] = "purging" => pc[c] = "purging"
  /\ \A c \in Conns : pc[c] \in {"writing", "purging"} => req'[c] = req[c]

\* The steps of a connection that neither write the corrections file nor begin or end
\* an answer from the database.
Silent(c) ==
  \/ Arrive(c) \/ Save(c) \/ FlagRefused(c) \/ FlagPurges(c) \/ ChatFails(c) \/ ChatSocial(c)
  \/ ChatModel(c) \/ Think(c) \/ ThinkFails(c) \/ Learn(c) \/ StreamChunk(c) \/ StreamEnd(c)

\* Which steps leave the corrections file and the flags in memory alone.
LEMMA FileSteps ==
  ASSUME TypeOK, LoopInv, BootInv, [Next]_vars
  PROVE  /\ Boot \/ UNCHANGED vars => FileQuiet
         /\ \A c \in Conns : Silent(c) \/ ChatKB(c) \/ Deliver(c) \/ Disconnect(c) => FileQuiet
         /\ \/ FileQuiet \/ Crash
            \/ \E c \in Conns : FlagOpens(c) \/ FlagWrites(c) \/ FlagWriteFails(c)
PROOF
  <1>1. CASE Boot \/ UNCHANGED vars
    BY <1>1 DEF Boot, OpenDb, LoadFact, LoadFails, CommitFacts, Seed, FileQuiet, vars, connVars
  <1>2. ASSUME NEW c \in Conns,
               \/ Save(c) \/ FlagRefused(c) \/ FlagPurges(c) \/ ChatFails(c) \/ ChatSocial(c)
               \/ ChatKB(c) \/ ThinkFails(c) \/ Learn(c) \/ StreamEnd(c)
        PROVE  FileQuiet
    <2>1. /\ pc[c] # "writing" /\ UNCHANGED <<corrections, draft, req>>
          /\ pc' = [pc EXCEPT ![c] = "replying"]
      BY <1>2 DEF Save, FlagRefused, FlagPurges, ChatFails, ChatSocial, ChatKB, ThinkFails,
                  Learn, StreamEnd, Respond, Resumes
    <2> QED
      BY <2>1 DEF FileQuiet, TypeOK
  <1>3. ASSUME NEW c \in Conns, Arrive(c) PROVE FileQuiet
    BY <1>3 DEF Arrive, FileQuiet, TypeOK
  <1>4. ASSUME NEW c \in Conns, ChatModel(c) \/ Think(c) \/ StreamChunk(c) PROVE FileQuiet
    BY <1>4 DEF ChatModel, Think, StreamChunk, Resumes, FileQuiet, TypeOK
  <1>5. ASSUME NEW c \in Conns, Deliver(c) \/ Disconnect(c) PROVE FileQuiet
    BY <1>5 DEF Deliver, Disconnect, Release, FileQuiet, TypeOK
  <1> QED
    BY <1>1, <1>2, <1>3, <1>4, <1>5 DEF Next, Handle, Silent

\* A lost corrections file stays lost, and what is logged stays logged until then.
LEMMA LoggedStep ==
  ASSUME TypeOK, LoopInv, BootInv, FileInv, [Next]_vars
  PROVE  /\ Damaged => Damaged'
         /\ \A key \in Logged : key \in Logged' \/ Damaged'
PROOF
  <1>1. CASE FileQuiet
    BY <1>1 DEF FileQuiet, Damaged, Logged
  <1>2. CASE Crash
    BY <1>2 DEF Crash, Damaged, Logged, FileInv, LoopInv, TypeOK
  <1>3. ASSUME NEW c \in Conns, FlagOpens(c)
        PROVE  ~ Damaged /\ \A key \in Logged : key \in Logged'
    <2>1. corrections.file # "corrupt" /\ \A d \in Conns : draft[d] = {}
      BY <1>3 DEF FlagOpens, Resumes, LoopFree, LoopInv
    <2>2. draft'[c] = corrections.flagged \cup {KeyOf(c)}
      BY <1>3 DEF FlagOpens, TypeOK
    <2> QED
      BY <2>1, <2>2 DEF Damaged, Logged
  <1>4. ASSUME NEW c \in Conns, FlagWrites(c)
        PROVE  ~ Damaged /\ \A key \in Logged : key \in Logged'
    <2>1. pc[c] = "writing" /\ corrections.flagged = {}
          /\ \A d \in Conns : d # c => draft[d] = {}
      BY <1>4 DEF FlagWrites, FileInv, LoopInv, Busy
    <2>2. corrections'.flagged = draft[c]
      BY <1>4 DEF FlagWrites
    <2> QED
      BY <2>1, <2>2 DEF Damaged, Logged
  <1>5. ASSUME NEW c \in Conns, FlagWriteFails(c) PROVE Damaged'
    <2>1. pc[c] = "writing" /\ corrections'.file = "corrupt"
      BY <1>5 DEF FlagWriteFails, FileInv
    <2>2. \A d \in Conns : pc'[d] # "writing"
      BY <1>5, <2>1 DEF FlagWriteFails, Respond, LoopInv, Busy, TypeOK
    <2> QED
      BY <2>1, <2>2 DEF Damaged
  <1> QED
    BY <1>1, <1>2, <1>3, <1>4, <1>5, FileSteps

\* The corrections file and the handler that rewrites it.
LEMMA FileStep ==
  ASSUME TypeOK, LoopInv, BootInv, FileInv, [Next]_vars
  PROVE  FileInv'
PROOF
  <1>1. CASE FileQuiet
    BY <1>1 DEF FileQuiet, FileInv, KeyOf, TypeOK
  <1>2. CASE Crash
    BY <1>2 DEF Crash, FileInv
  <1>3. ASSUME NEW c \in Conns, FlagOpens(c) PROVE FileInv'
    BY <1>3 DEF FlagOpens, Resumes, LoopFree, FileInv, KeyOf, TypeOK
  <1>4. ASSUME NEW c \in Conns, FlagWrites(c) PROVE FileInv'
    BY <1>4 DEF FlagWrites, FileInv, LoopInv, Busy, KeyOf, TypeOK
  <1>5. ASSUME NEW c \in Conns, FlagWriteFails(c) PROVE FileInv'
    BY <1>5 DEF FlagWriteFails, Respond, FileInv, LoopInv, Busy, KeyOf, TypeOK
  <1> QED
    BY <1>1, <1>2, <1>3, <1>4, <1>5, FileSteps

\* No step takes a key out of the database, but a purge of a logged key.
LEMMA KnownStep ==
  ASSUME TypeOK, LoopInv, BootInv, FileInv, [Next]_vars
  PROVE  \/ KeysOf(table) \subseteq KeysOf(table')
         \/ \E c \in Conns : /\ FlagPurges(c)
                             /\ KeyOf(c) \in Logged
                             /\ KeysOf(table) \ {KeyOf(c)} \subseteq KeysOf(table')
                             /\ KeysOf(table') \subseteq KeysOf(table)
PROOF
  <1> DEFINE Kept == KeysOf(table) \subseteq KeysOf(table')
  <1>1. table \in Seq(Rows)
    BY DEF TypeOK
  <1>2. ASSUME UNCHANGED table PROVE Kept
    BY <1>2
  <1>3. CASE CommitFacts
    BY <1>3 DEF CommitFacts, BootInv
  <1>4. CASE Seed
    <2>1. CASE table' = table
      BY <2>1
    <2>2. CASE work = <<>>
      <3>1. work \in Seq(Rows) /\ Len(work) = 0
        BY <2>2 DEF TypeOK
      <3>2. KeysOf(work) = {}
        BY <3>1 DEF KeysOf
      <3>3. KeysOf(table) \subseteq KeysOf(work)
        BY <1>4 DEF Seed, BootInv
      <3> QED
        BY <3>2, <3>3
    <2> QED
      BY <1>4, <2>1, <2>2, SeededTable
  <1>5. ASSUME NEW c \in Conns, Save(c) PROVE Kept
    <2>1. CASE Saved(req[c].prompt, req[c].text)
      BY <2>1, RequestType, SavedTable
    <2>2. CASE UNCHANGED table
      BY <2>2
    <2> QED
      BY <1>5, <2>1, <2>2 DEF Save, NotSaved
  <1>6. ASSUME NEW c \in Conns, Learn(c) PROVE Kept
    <2>1. Clean[raw[c]] \in Answers
      BY <1>6, AnswerAssumption DEF Learn, LoopInv
    <2>2. CASE Saved(req[c].prompt, Clean[raw[c]])
      BY <2>1, <2>2, RequestType, SavedTable
    <2>3. CASE UNCHANGED table
      BY <2>3
    <2> QED
      BY <1>6, <2>2, <2>3 DEF Learn, NotSaved
  <1>7. ASSUME NEW c \in Conns, FlagPurges(c)
        PROVE  /\ KeyOf(c) \in Logged
               /\ KeysOf(table) \ {KeyOf(c)} \subseteq KeysOf(table')
               /\ KeysOf(table') \subseteq KeysOf(table)
    <2>1. KeyOf(c) \in Logged
      BY <1>7, KeyType, KeyAssumption DEF FlagPurges, FileInv, LoopInv, Busy, Logged
    <2>2. table' = Delete(table, KeyOf(c)) \/ table' = table
      BY <1>7 DEF FlagPurges
    <2> QED
      BY <1>1, <2>1, <2>2, DeleteKeys
  <1>8. ASSUME \/ OpenDb \/ LoadFact \/ LoadFails \/ Crash \/ UNCHANGED vars
               \/ \E c \in Conns :
                    \/ Arrive(c) \/ FlagOpens(c) \/ FlagRefused(c) \/ FlagWrites(c)
                    \/ FlagWriteFails(c) \/ ChatFails(c) \/ ChatSocial(c) \/ ChatKB(c)
                    \/ ChatModel(c) \/ Think(c) \/ ThinkFails(c) \/ StreamChunk(c)
                    \/ StreamEnd(c) \/ Deliver(c) \/ Disconnect(c)
        PROVE  UNCHANGED table
    BY <1>8 DEF OpenDb, LoadFact, LoadFails, Crash, vars, Arrive, FlagOpens, FlagRefused,
                FlagWrites, FlagWriteFails, ChatFails, ChatSocial, ChatKB, ChatModel, Think,
                ThinkFails, StreamChunk, StreamEnd, Deliver, Disconnect, Release
  <1> QED
    BY <1>2, <1>3, <1>4, <1>5, <1>6, <1>7, <1>8 DEF Next, Boot, Handle

\* What becomes of the reply of a connection.
LEMMA ReplyStep ==
  ASSUME TypeOK, LoopInv, [Next]_vars, NEW c \in Conns
  PROVE  \/ /\ reply'[c] = reply[c]
            /\ reply[c].kind # "none" => req'[c] = req[c] /\ seen'[c] = seen[c]
         \/ reply'[c].kind \in {"none", "error", "social", "answer"}
         \/ Save(c) /\ Saved(req[c].prompt, req[c].text) /\ req'[c] = req[c]
         \/ FlagPurges(c) /\ req'[c] = req[c]
         \/ ChatKB(c) /\ reply'[c].kind = "kb" /\ req'[c] = req[c] /\ seen'[c] = seen[c]
PROOF
  <1> DEFINE Same == /\ reply'[c] = reply[c]
                     /\ reply[c].kind # "none" => req'[c] = req[c] /\ seen'[c] = seen[c]
             Other == reply'[c].kind \in {"none", "error", "social", "answer"}
  <1>1. CASE Boot \/ UNCHANGED vars
    BY <1>1 DEF Boot, OpenDb, LoadFact, LoadFails, CommitFacts, Seed, vars, connVars
  <1>2. CASE Crash
    BY <1>2 DEF Crash, NoReply
  <1>3. ASSUME NEW d \in Conns,
               Arrive(d) \/ FlagOpens(d) \/ FlagWrites(d) \/ ChatModel(d) \/ Think(d) \/ StreamChunk(d)
        PROVE  Same
    BY <1>3 DEF Arrive, FlagOpens, FlagWrites, ChatModel, Think, StreamChunk, LoopInv, TypeOK
  <1>4. ASSUME NEW d \in Conns, NEW kind, NEW from, Respond(d, kind, from), UNCHANGED <<req, seen>>
        PROVE  /\ d # c => Same
               /\ d = c => reply'[c].kind = kind /\ req'[c] = req[c] /\ seen'[c] = seen[c]
    BY <1>4 DEF Respond, TypeOK
  <1>5. ASSUME NEW d \in Conns,
               \/ FlagRefused(d) \/ FlagWriteFails(d) \/ ChatFails(d) \/ ChatSocial(d)
               \/ ThinkFails(d) \/ Learn(d) \/ StreamEnd(d)
        PROVE  Same \/ Other
    <2>1. /\ UNCHANGED <<req, seen>>
          /\ \E kind \in {"error", "social", "answer"} : Respond(d, kind, NoText)
      BY <1>5 DEF FlagRefused, FlagWriteFails, ChatFails, ChatSocial, ThinkFails, Learn, StreamEnd
    <2> QED
      BY <2>1, <1>4
  <1>6. ASSUME NEW d \in Conns, Save(d)
        PROVE  Same \/ Other \/ (Save(c) /\ Saved(req[c].prompt, req[c].text) /\ req'[c] = req[c])
    <2>1. UNCHANGED <<req, seen>>
      BY <1>6 DEF Save
    <2>2. CASE Saved(req[d].prompt, req[d].text) /\ Respond(d, "ok", NoText)
      BY <1>4, <1>6, <2>1, <2>2
    <2>3. CASE Respond(d, "error", NoText)
      BY <1>4, <2>1, <2>3
    <2> QED
      BY <1>6, <2>2, <2>3 DEF Save
  <1>7. ASSUME NEW d \in Conns, FlagPurges(d)
        PROVE  Same \/ (FlagPurges(c) /\ req'[c] = req[c])
    <2>1. UNCHANGED <<req, seen>> /\ \E kind \in {"ok", "error"} : Respond(d, kind, NoText)
      BY <1>7 DEF FlagPurges
    <2> QED
      BY <1>4, <1>7, <2>1
  <1>8. ASSUME NEW d \in Conns, ChatKB(d)
        PROVE  \/ Same
               \/ ChatKB(c) /\ reply'[c].kind = "kb" /\ req'[c] = req[c] /\ seen'[c] = seen[c]
    <2>1. UNCHANGED <<req, seen>> /\ \E i \in DOMAIN table : Respond(d, "kb", table[i].key)
      BY <1>8 DEF ChatKB, Hits
    <2> QED
      BY <1>4, <1>8, <2>1
  <1>9. ASSUME NEW d \in Conns, Deliver(d) \/ Disconnect(d) PROVE Same \/ Other
    BY <1>9 DEF Deliver, Disconnect, Release, NoReply, TypeOK
  <1> QED
    BY <1>1, <1>2, <1>3, <1>5, <1>6, <1>7, <1>8, <1>9 DEF Next, Handle

\* What clients have been told grows when a reply is delivered, and only then.
LEMMA HistoryStep ==
  ASSUME TypeOK, [Next]_vars
  PROVE  /\ \A key : key \in acked' =>
              key \in acked \/ \E c \in Conns : reply[c].kind = "ok" /\ req[c].op = "flag" /\ key = KeyOf(c)
         /\ \A key : key \in saved' =>
              key \in saved \/ \E c \in Conns : reply[c].kind = "ok" /\ req[c].op = "save" /\ key = KeyOf(c)
         /\ acked \subseteq acked'
         /\ \A c \in Conns : seen'[c] \in {{}, acked, seen[c]}
PROOF
  <1>1. CASE Boot \/ UNCHANGED vars
    BY <1>1 DEF Boot, OpenDb, LoadFact, LoadFails, CommitFacts, Seed, vars, connVars, history
  <1>2. CASE Crash
    BY <1>2 DEF Crash, history
  <1>3. ASSUME NEW c \in Conns, Arrive(c) PROVE UNCHANGED history /\ seen' = [seen EXCEPT ![c] = acked]
    BY <1>3 DEF Arrive, history
  <1>4. ASSUME NEW c \in Conns,
               \/ Save(c) \/ FlagOpens(c) \/ FlagRefused(c) \/ FlagWrites(c) \/ FlagWriteFails(c)
               \/ FlagPurges(c) \/ ChatFails(c) \/ ChatSocial(c) \/ ChatKB(c) \/ ChatModel(c)
               \/ Think(c) \/ ThinkFails(c) \/ Learn(c) \/ StreamChunk(c) \/ StreamEnd(c)
        PROVE  UNCHANGED <<history, seen>>
    BY <1>4 DEF Save, FlagOpens, FlagRefused, FlagWrites, FlagWriteFails, FlagPurges, ChatFails,
                ChatSocial, ChatKB, ChatModel, Think, ThinkFails, Learn, StreamChunk, StreamEnd
  <1>5. ASSUME NEW c \in Conns, Disconnect(c)
        PROVE  UNCHANGED history /\ seen' = [seen EXCEPT ![c] = {}]
    BY <1>5 DEF Disconnect, Release
  <1>6. ASSUME NEW c \in Conns, Deliver(c)
        PROVE  /\ \/ acked' = acked
                  \/ reply[c].kind = "ok" /\ req[c].op = "flag" /\ acked' = acked \cup {KeyOf(c)}
               /\ \/ saved' = saved
                  \/ reply[c].kind = "ok" /\ req[c].op = "save" /\ saved' = saved \cup {KeyOf(c)}
               /\ seen' = [seen EXCEPT ![c] = {}]
    BY <1>6 DEF Deliver, Release
  <1> QED
    BY <1>1, <1>2, <1>3, <1>4, <1>5, <1>6 DEF Next, Handle, TypeOK, history

\* A flag or a save is only pledged by the step that has done it.
LEMMA NewPledges ==
  ASSUME TypeOK, LoopInv, [Next]_vars, NEW key
  PROVE  /\ FlagPledge(key)' => FlagPledge(key) \/ \E c \in Conns : FlagPurges(c) /\ key = KeyOf(c)
         /\ SavePledge(key)' =>
              \/ SavePledge(key)
              \/ \E c \in Conns : Saved(req[c].prompt, req[c].text) /\ key = KeyOf(c)
PROOF
  <1>1. ASSUME NEW c \in Conns, reply'[c].kind = "ok"
        PROVE  /\ req'[c] = req[c]
               /\ \/ reply[c] = reply'[c]
                  \/ req[c].op = "save" /\ Saved(req[c].prompt, req[c].text)
                  \/ req[c].op = "flag" /\ FlagPurges(c)
    <2>1. Save(c) => req[c].op = "save"
      BY DEF Save, Resumes
    <2>2. FlagPurges(c) => req[c].op = "flag"
      BY DEF FlagPurges, LoopInv, Busy
    <2> QED
      BY <1>1, <2>1, <2>2, ReplyStep
  <1>2. ASSUME NEW c \in Conns, reply'[c].kind = "ok"
        PROVE  KeyOf(c)' = KeyOf(c)
    BY <1>1, <1>2 DEF KeyOf
  <1>3. ASSUME FlagPledge(key)'
        PROVE  FlagPledge(key) \/ \E c \in Conns : FlagPurges(c) /\ key = KeyOf(c)
    <2>1. CASE key \in acked'
      BY <2>1, HistoryStep DEF FlagPledge
    <2>2. ASSUME NEW c \in Conns, reply'[c].kind = "ok", req'[c].op = "flag", key = KeyOf(c)'
          PROVE  FlagPledge(key) \/ (FlagPurges(c) /\ key = KeyOf(c))
      BY <1>1, <1>2, <2>2 DEF FlagPledge
    <2> QED
      BY <1>3, <2>1, <2>2 DEF FlagPledge
  <1>4. ASSUME SavePledge(key)'
        PROVE  SavePledge(key) \/ \E c \in Conns : Saved(req[c].prompt, req[c].text) /\ key = KeyOf(c)
    <2>1. CASE key \in saved'
      BY <2>1, HistoryStep DEF SavePledge
    <2>2. ASSUME NEW c \in Conns, reply'[c].kind = "ok", req'[c].op = "save", key = KeyOf(c)'
          PROVE  SavePledge(key) \/ (Saved(req[c].prompt, req[c].text) /\ key = KeyOf(c))
      BY <1>1, <1>2, <2>2 DEF SavePledge
    <2> QED
      BY <1>4, <2>1, <2>2 DEF SavePledge
  <1> QED
    BY <1>3, <1>4

\* What clients are told, or about to be told, was flagged is logged, and what was
\* saved is known or logged.
LEMMA PledgeStep ==
  ASSUME TypeOK, LoopInv, BootInv, FileInv, PledgeInv, [Next]_vars
  PROVE  PledgeInv'
PROOF
  <1>1. ASSUME NEW key \in Texts, FlagPledge(key)' PROVE key \in Logged' \/ Damaged'
    <2>1. CASE FlagPledge(key)
      BY <2>1, LoggedStep DEF PledgeInv
    <2>2. ASSUME NEW c \in Conns, FlagPurges(c), key = KeyOf(c) PROVE key \in Logged'  \/ Damaged'
      <3>1. key \in Logged
        BY <2>2 DEF FlagPurges, FileInv, Logged
      <3> QED
        BY <3>1, LoggedStep
    <2> QED
      BY <1>1, <2>1, <2>2, NewPledges
  <1>2. ASSUME NEW key \in Texts, SavePledge(key)'
        PROVE  key \in KeysOf(table') \/ key \in Logged' \/ Damaged'
    <2>1. CASE SavePledge(key)
      <3>1. key \in KeysOf(table) \/ key \in Logged \/ Damaged
        BY <2>1 DEF PledgeInv
      <3>2. key \in KeysOf(table) => key \in KeysOf(table') \/ key \in Logged
        BY KnownStep
      <3> QED
        BY <3>1, <3>2, LoggedStep
    <2>2. ASSUME NEW c \in Conns, Saved(req[c].prompt, req[c].text), key = KeyOf(c)
          PROVE  key \in KeysOf(table')
      BY <2>2, RequestType, SavedTable DEF KeyOf
    <2> QED
      BY <1>2, <2>1, <2>2, NewPledges
  <1>3. \A c \in Conns : seen'[c] \subseteq acked'
    BY HistoryStep DEF PledgeInv
  <1> QED
    BY <1>1, <1>2, <1>3 DEF PledgeInv

\* A prompt whose flag was acknowledged before the request came is not answered from
\* the database.
LEMMA FlagHonouredStep ==
  ASSUME TypeOK, LoopInv, BootInv, FileInv, PledgeInv, FlagHonoured, [Next]_vars
  PROVE  FlagHonoured'
PROOF
  <1> SUFFICES ASSUME NEW c \in Conns, reply'[c].kind = "kb"
               PROVE  KeyOf(c)' \notin seen'[c] \/ Damaged'
    BY DEF FlagHonoured
  <1>1. req'[c] = req[c] /\ seen'[c] = seen[c] /\ (reply[c] = reply'[c] \/ ChatKB(c))
    <2>1. ~ (Save(c) /\ reply'[c].kind = "kb")
      BY DEF Save, Respond, TypeOK
    <2>2. ~ (FlagPurges(c) /\ reply'[c].kind = "kb")
      BY DEF FlagPurges, Respond, TypeOK
    <2> QED
      BY <2>1, <2>2, ReplyStep
  <1>2. KeyOf(c)' = KeyOf(c)
    BY <1>1 DEF KeyOf
  <1>3. CASE reply[c] = reply'[c]
    BY <1>1, <1>2, <1>3, LoggedStep DEF FlagHonoured
  <1>4. CASE ChatKB(c)
    <2>1. KeyOf(c) \in Texts /\ KeyOf(c) \notin FlaggedPrompts /\ LoopFree
      BY <1>4, KeyType DEF ChatKB, AsksKB, Resumes
    <2>2. \A d \in Conns : draft[d] = {}
      BY <2>1 DEF LoopFree, LoopInv
    <2>3. KeyOf(c) \notin Logged
      BY <2>1, <2>2 DEF Logged, FlaggedPrompts, FileInv
    <2>4. KeyOf(c) \in seen[c] => Damaged
      BY <2>1, <2>3 DEF PledgeInv, FlagPledge
    <2> QED
      BY <1>1, <1>2, <2>4, LoggedStep
  <1> QED
    BY <1>1, <1>3, <1>4

-----------------------------------------------------------------------------
\* The invariant holds before the first boot.
LEMMA InitInv ==
  ASSUME Init
  PROVE  IInv
  BY KeyAssumption, AnswerAssumption, FileAssumption, BoundAssumption
     DEF Init, IInv, TypeOK, LoopInv, Busy, FileInv, PledgeInv, FlagPledge, SavePledge, BootInv,
         FlagHonoured, NoRequest, NoReply, Replies

\* The inductive invariant: what every state of the server has.
THEOREM InductiveInvariant == Spec => []IInv
PROOF
  <1>1. IInv /\ [Next]_vars => IInv'
    BY TypeStep, LoopStep, BootStep, FileStep, PledgeStep, FlagHonouredStep DEF IInv
  <1> QED
    BY <1>1, InitInv, PTL DEF Spec

\* Every variable has its type in every state of the server.
THEOREM TypeCorrect == Spec => []TypeOK
  BY InductiveInvariant, PTL DEF IInv

\* A chat sent after the client was told that its prompt is flagged is not answered
\* from the database, as long as the corrections file is not lost.
THEOREM FlagsAreHonoured == Spec => []FlagHonoured
  BY InductiveInvariant, PTL DEF IInv

\* A key a client was told is saved stays in the database until it is flagged.
THEOREM SavesAreKept == Spec => []SavedKept
PROOF
  <1>1. IInv => SavedKept
    BY DEF IInv, PledgeInv, SavePledge, SavedKept, TypeOK
  <1> QED
    BY <1>1, InductiveInvariant, PTL

\* As long as SQLite works, a question whose saving was reported is answered from the
\* database, unless its key was flagged or given an empty value.
THEOREM SavesAreAnswered ==
  ASSUME DbFaults = FALSE
  PROVE  Spec => SavedAnswered
PROOF
  <1>1. ASSUME IInv, NEW c \in Conns, ChatModel(c), ~ IsChallenge(req[c].prompt), KeyOf(c) \in saved
        PROVE  \/ KeyOf(c) \in Logged \/ Damaged
               \/ \E i \in DOMAIN table : table[i].key = KeyOf(c) /\ table[i].text = NoAnswer
    <2>1. KeyOf(c) \in Texts
      BY <1>1, KeyType DEF ChatModel, IInv
    <2>2. KeyOf(c) \in KeysOf(table) \/ KeyOf(c) \in Logged \/ Damaged
      BY <1>1, <2>1 DEF IInv, PledgeInv, SavePledge
    <2>3. CASE KeyOf(c) \in FlaggedPrompts
      BY <2>1, <2>3 DEF FlaggedPrompts, Logged
    <2>4. CASE KeyOf(c) \in KeysOf(table) /\ KeyOf(c) \notin FlaggedPrompts
      <3>1. Hits(KeyOf(c)) = {}
        BY <1>1, <2>4 DEF ChatModel, AsksKB
      <3>2. PICK i \in DOMAIN table : table[i].key = KeyOf(c)
        BY <2>4 DEF KeysOf
      <3>3. table[i].text = NoAnswer
        BY <3>1, <3>2 DEF Hits, IsHit
      <3> QED
        BY <3>2, <3>3
    <2> QED
      BY <2>2, <2>3, <2>4
  <1>2. IInv => \A c \in Conns :
          (ChatModel(c) /\ ~ IsChallenge(req[c].prompt) /\ KeyOf(c) \in saved)
            => \/ KeyOf(c) \in Logged \/ Damaged
               \/ \E i \in DOMAIN table : table[i].key = KeyOf(c) /\ table[i].text = NoAnswer
    BY <1>1
  <1> QED
    BY <1>2, InductiveInvariant, PTL DEF Spec, SavedAnswered

-----------------------------------------------------------------------------
\* No step brings a learned row that is small talk or too short.
LEMMA SaneStep ==
  ASSUME TypeOK, LoopInv, LearnedRowsSane, WorkSane, [Next]_vars
  PROVE  LearnedRowsSane' /\ WorkSane'
PROOF
  <1>1. ASSUME UNCHANGED <<table, work>> PROVE LearnedRowsSane' /\ WorkSane'
    BY <1>1 DEF LearnedRowsSane, WorkSane
  <1>2. ASSUME NEW prompt \in Texts \cup {NoText}, NEW text \in Answers \cup {NoText},
               Saved(prompt, text) \/ NotSaved(prompt, text), UNCHANGED work
        PROVE  LearnedRowsSane' /\ WorkSane'
    <2>1. CASE Saved(prompt, text)
      <3>1. \A i \in DOMAIN table' : SaneRow(table'[i])
        BY <2>1, SavedTable DEF LearnedRowsSane, SaneRow
      <3> QED
        BY <1>2, <3>1 DEF LearnedRowsSane, WorkSane
    <2>2. CASE NotSaved(prompt, text)
      BY <1>1, <1>2, <2>2 DEF NotSaved
    <2> QED
      BY <1>2, <2>1, <2>2
  <1>3. CASE OpenDb
    BY <1>3 DEF OpenDb, LearnedRowsSane, WorkSane
  <1>4. CASE LoadFact
    <2>1. \A i \in DOMAIN work' : SaneRow(work'[i])
      BY <1>4, LoadedTable DEF WorkSane, SaneRow
    <2> QED
      BY <1>4, <2>1 DEF LoadFact, LearnedRowsSane, WorkSane
  <1>5. CASE CommitFacts
    BY <1>5 DEF CommitFacts, LearnedRowsSane, WorkSane
  <1>6. CASE Seed
    <2>1. \A i \in DOMAIN table' : SaneRow(table'[i])
      BY <1>6, SeededTable, FileAssumption DEF LearnedRowsSane, SaneRow
    <2> QED
      BY <1>6, <2>1, SeededTable DEF LearnedRowsSane, WorkSane
  <1>7. CASE Crash
    BY <1>7 DEF Crash, LearnedRowsSane, WorkSane
  <1>8. ASSUME NEW c \in Conns, Save(c) PROVE LearnedRowsSane' /\ WorkSane'
    BY <1>2, <1>8, RequestType DEF Save, bootVars
  <1>9. ASSUME NEW c \in Conns, Learn(c) PROVE LearnedRowsSane' /\ WorkSane'
    <2>1. Clean[raw[c]] \in Answers
      BY <1>9, AnswerAssumption DEF Learn, LoopInv
    <2> QED
      BY <1>2, <1>9, <2>1, RequestType DEF Learn, bootVars
  <1>10. ASSUME NEW c \in Conns, FlagPurges(c) PROVE LearnedRowsSane' /\ WorkSane'
    <2>1. table \in Seq(Rows)
      BY DEF TypeOK
    <2>2. \A i \in DOMAIN Delete(table, KeyOf(c)) : SaneRow(Delete(table, KeyOf(c))[i])
      BY <2>1, DeleteRows DEF LearnedRowsSane
    <2> QED
      BY <1>10, <2>2 DEF FlagPurges, LearnedRowsSane, WorkSane, bootVars
  <1>11. ASSUME \/ LoadFails \/ UNCHANGED vars
                \/ \E c \in Conns :
                     \/ Arrive(c) \/ FlagOpens(c) \/ FlagRefused(c) \/ FlagWrites(c)
                     \/ FlagWriteFails(c) \/ ChatFails(c) \/ ChatSocial(c) \/ ChatKB(c)
                     \/ ChatModel(c) \/ Think(c) \/ ThinkFails(c) \/ StreamChunk(c)
                     \/ StreamEnd(c) \/ Deliver(c) \/ Disconnect(c)
         PROVE  UNCHANGED <<table, work>>
    BY <1>11 DEF LoadFails, vars, bootVars, Arrive, FlagOpens, FlagRefused, FlagWrites,
                 FlagWriteFails, ChatFails, ChatSocial, ChatKB, ChatModel, Think, ThinkFails,
                 StreamChunk, StreamEnd, Deliver, Disconnect, Release
  <1> QED
    BY <1>1, <1>3, <1>4, <1>5, <1>6, <1>7, <1>8, <1>9, <1>10, <1>11 DEF Next, Boot, Handle

\* What the server learned is no small talk and no answer of fewer than three words.
THEOREM LearnedIsSane == Spec => []LearnedRowsSane
PROOF
  <1>1. Init => LearnedRowsSane /\ WorkSane
    BY DEF Init, LearnedRowsSane, WorkSane
  <1>2. IInv /\ LearnedRowsSane /\ WorkSane /\ [Next]_vars => (LearnedRowsSane /\ WorkSane)'
    BY SaneStep DEF IInv
  <1> QED
    BY <1>1, <1>2, InductiveInvariant, PTL DEF Spec

-----------------------------------------------------------------------------
(***************************************************************************)
(* The server implements the contract.                                     *)
(***************************************************************************)

AnsweredKeys == [c \in Conns |-> AnsweredKey(c)]

\* How a step that touches the corrections file changes what is logged.
LEMMA ContractFile ==
  ASSUME IInv, [Next]_vars
  PROVE  /\ FileQuiet => Logged' = Logged /\ Damaged' = Damaged
         /\ \A c \in Conns : FlagOpens(c) =>
              ~ Damaged /\ ~ Damaged' /\ KeyOf(c) \in Texts /\ Logged' = Logged \cup {KeyOf(c)}
         /\ \A c \in Conns : FlagWrites(c) => ~ Damaged /\ ~ Damaged' /\ Logged' = Logged
         /\ \A c \in Conns : FlagWriteFails(c) => Damaged' /\ Logged' = {}
         /\ Crash => \/ Logged' = Logged /\ Damaged' = Damaged
                     \/ Logged' = {} /\ Damaged'
PROOF
  <1> USE DEF IInv
  <1>1. FileQuiet => Logged' = Logged /\ Damaged' = Damaged
    BY DEF FileQuiet, Logged, Damaged
  <1>2. ASSUME NEW c \in Conns, FlagOpens(c)
        PROVE  ~ Damaged /\ ~ Damaged' /\ KeyOf(c) \in Texts /\ Logged' = Logged \cup {KeyOf(c)}
    <2>1. corrections.file # "corrupt" /\ \A d \in Conns : draft[d] = {}
      BY <1>2 DEF FlagOpens, Resumes, LoopFree, LoopInv
    <2>2. draft' = [draft EXCEPT ![c] = corrections.flagged \cup {KeyOf(c)}] /\ corrections'.flagged = {}
      BY <1>2 DEF FlagOpens
    <2>3. draft \in [Conns -> SUBSET Texts]
      BY DEF TypeOK
    <2>4. KeyOf(c) \in Texts
      BY <1>2, KeyType DEF FlagOpens
    <2>5. Logged' = Logged \cup {KeyOf(c)}
      BY <2>1, <2>2, <2>3, <2>4 DEF Logged
    <2>6. pc'[c] = "writing"
      BY <1>2 DEF FlagOpens, TypeOK
    <2> QED
      BY <2>1, <2>4, <2>5, <2>6 DEF Damaged
  <1>3. ASSUME NEW c \in Conns, FlagWrites(c)
        PROVE  ~ Damaged /\ ~ Damaged' /\ Logged' = Logged
    <2>1. pc[c] = "writing" /\ corrections.flagged = {} /\ \A d \in Conns : d # c => draft[d] = {}
      BY <1>3 DEF FlagWrites, FileInv, LoopInv, Busy
    <2>2. /\ corrections'.flagged = draft[c] /\ corrections'.file = "ok"
          /\ draft' = [draft EXCEPT ![c] = {}]
      BY <1>3 DEF FlagWrites
    <2>3. draft \in [Conns -> SUBSET Texts]
      BY DEF TypeOK
    <2>4. Logged' = Logged
      BY <2>1, <2>2, <2>3 DEF Logged
    <2> QED
      BY <2>1, <2>2, <2>4 DEF Damaged
  <1>4. ASSUME NEW c \in Conns, FlagWriteFails(c) PROVE Damaged' /\ Logged' = {}
    <2>1. pc[c] = "writing" /\ corrections' = corrections
      BY <1>4 DEF FlagWriteFails
    <2>2. corrections'.file = "corrupt" /\ corrections'.flagged = {}
      BY <2>1 DEF FileInv
    <2>3. \A d \in Conns : d # c => pc[d] # "writing" /\ draft[d] = {}
      BY <2>1 DEF LoopInv, Busy
    <2>4. (\A d \in Conns : pc'[d] # "writing") /\ \A d \in Conns : draft'[d] = {}
      BY <1>4, <2>3 DEF FlagWriteFails, Respond, TypeOK
    <2> QED
      BY <2>2, <2>4 DEF Damaged, Logged
  <1>5. ASSUME Crash
        PROVE  (Logged' = Logged /\ Damaged' = Damaged) \/ (Logged' = {} /\ Damaged')
    <2>1. /\ corrections' = corrections
          /\ \A d \in Conns : pc'[d] = "idle" /\ draft'[d] = {}
      BY <1>5 DEF Crash
    <2>2. CASE \E c \in Conns : pc[c] = "writing"
      BY <2>1, <2>2 DEF Damaged, Logged, FileInv
    <2>3. CASE \A c \in Conns : pc[c] # "writing"
      BY <2>1, <2>3 DEF Damaged, Logged, LoopInv
    <2> QED
      BY <2>2, <2>3
  <1> QED
    BY <1>1, <1>2, <1>3, <1>4, <1>5

\* Only an answer from the database, its delivery and a crash show to the contract's
\* clients.
LEMMA ContractReplies ==
  ASSUME IInv, [Next]_vars
  PROVE  /\ Boot \/ UNCHANGED vars => AnsweredKeys' = AnsweredKeys
         /\ Crash => AnsweredKeys' = [c \in Conns |-> NoText]
         /\ \A c \in Conns :
              /\ Silent(c) \/ FlagOpens(c) \/ FlagWrites(c) \/ FlagWriteFails(c)
                   => AnsweredKeys' = AnsweredKeys
              /\ ChatKB(c) => /\ AnsweredKeys[c] = NoText
                              /\ AnsweredKeys' = [AnsweredKeys EXCEPT ![c] = KeyOf(c)]
              /\ Deliver(c) \/ Disconnect(c)
                   => AnsweredKeys' = [AnsweredKeys EXCEPT ![c] = NoText]
PROOF
  <1> USE DEF IInv
  <1>1. ASSUME \A d \in Conns :
                 \/ reply'[d] = reply[d] /\ (reply[d].kind = "kb" => req'[d] = req[d])
                 \/ reply[d].kind # "kb" /\ reply'[d].kind # "kb"
        PROVE  AnsweredKeys' = AnsweredKeys
    BY <1>1 DEF AnsweredKeys, AnsweredKey, KeyOf
  <1>2. ASSUME NEW c \in Conns, NEW kind, NEW from, kind # "kb", pc[c] # "replying",
               Respond(c, kind, from), UNCHANGED req
        PROVE  AnsweredKeys' = AnsweredKeys
    <2>1. reply[c].kind = "none"
      BY <1>2 DEF LoopInv
    <2> QED
      BY <1>1, <1>2, <2>1 DEF Respond, TypeOK
  <1>3. ASSUME Boot \/ UNCHANGED vars PROVE AnsweredKeys' = AnsweredKeys
    BY <1>1, <1>3 DEF Boot, OpenDb, LoadFact, LoadFails, CommitFacts, Seed, vars, connVars
  <1>4. ASSUME Crash PROVE AnsweredKeys' = [c \in Conns |-> NoText]
    BY <1>4 DEF Crash, NoReply, AnsweredKeys, AnsweredKey
  <1>5. ASSUME NEW c \in Conns, Arrive(c) PROVE AnsweredKeys' = AnsweredKeys
    <2>1. reply[c].kind = "none" /\ reply' = reply /\ \A d \in Conns : d # c => req'[d] = req[d]
      BY <1>5 DEF Arrive, LoopInv, TypeOK
    <2> QED
      BY <1>1, <2>1
  <1>6. ASSUME NEW c \in Conns,
               FlagOpens(c) \/ FlagWrites(c) \/ ChatModel(c) \/ Think(c) \/ StreamChunk(c)
        PROVE  AnsweredKeys' = AnsweredKeys
    BY <1>1, <1>6 DEF FlagOpens, FlagWrites, ChatModel, Think, StreamChunk
  <1>7. ASSUME NEW c \in Conns,
               \/ Save(c) \/ FlagRefused(c) \/ FlagWriteFails(c) \/ FlagPurges(c) \/ ChatFails(c)
               \/ ChatSocial(c) \/ ThinkFails(c) \/ Learn(c) \/ StreamEnd(c)
        PROVE  AnsweredKeys' = AnsweredKeys
    <2>1. pc[c] # "replying" /\ UNCHANGED req
      BY <1>7 DEF Save, FlagRefused, FlagWriteFails, FlagPurges, ChatFails, ChatSocial,
                  ThinkFails, Learn, StreamEnd, Resumes
    <2>2. \E kind \in {"ok", "error", "social", "answer"} : Respond(c, kind, NoText)
      BY <1>7 DEF Save, FlagRefused, FlagWriteFails, FlagPurges, ChatFails, ChatSocial,
                  ThinkFails, Learn, StreamEnd
    <2> QED
      BY <1>2, <2>1, <2>2
  <1>8. ASSUME NEW c \in Conns, ChatKB(c)
        PROVE  /\ AnsweredKeys[c] = NoText
               /\ AnsweredKeys' = [AnsweredKeys EXCEPT ![c] = KeyOf(c)]
    <2>1. reply[c].kind = "none" /\ UNCHANGED req
      BY <1>8 DEF ChatKB, Resumes, LoopInv
    <2>2. \E i \in DOMAIN table : reply' = [reply EXCEPT ![c] = [kind |-> "kb", from |-> table[i].key]]
      BY <1>8 DEF ChatKB, Hits, Respond
    <2>3. reply \in [Conns -> Replies]
      BY DEF TypeOK
    <2>4. reply'[c].kind = "kb" /\ \A d \in Conns : d # c => reply'[d] = reply[d]
      BY <2>2, <2>3
    <2>5. AnsweredKey(c) = NoText /\ AnsweredKey(c)' = KeyOf(c)
      BY <2>1, <2>4 DEF AnsweredKey, KeyOf
    <2>6. \A d \in Conns : d # c => AnsweredKey(d)' = AnsweredKey(d)
      BY <2>1, <2>4 DEF AnsweredKey, KeyOf
    <2> QED
      BY <2>5, <2>6 DEF AnsweredKeys
  <1>9. ASSUME NEW c \in Conns, Deliver(c) \/ Disconnect(c)
        PROVE  AnsweredKeys' = [AnsweredKeys EXCEPT ![c] = NoText]
    <2>1. /\ reply' = [reply EXCEPT ![c] = NoReply]
          /\ req' = [req EXCEPT ![c] = NoRequest]
      BY <1>9 DEF Deliver, Disconnect, Release
    <2>2. reply \in [Conns -> Replies] /\ req \in [Conns -> Requests \cup {NoRequest}]
      BY DEF TypeOK
    <2> QED
      BY <2>1, <2>2 DEF AnsweredKeys, AnsweredKey, KeyOf, NoReply
  <1> QED
    BY <1>3, <1>4, <1>5, <1>6, <1>7, <1>8, <1>9 DEF Silent

\* The keys of a table are texts.
LEMMA KnownType ==
  ASSUME NEW t \in Seq(Rows)
  PROVE  KeysOf(t) \subseteq Texts
PROOF
  <1>1. \A i \in DOMAIN t : t[i] \in Rows
    OBVIOUS
  <1> QED
    BY <1>1 DEF KeysOf, Rows

\* Every step of the server is a step of the contract or changes nothing it shows.
LEMMA ContractStep ==
  ASSUME IInv, TypeOK', [Next]_vars
  PROVE  [Contract!Next]_(Contract!vars)
PROOF
  <1> DEFINE KnownSame == KeysOf(table') = KeysOf(table)
             FileSame  == Logged' = Logged /\ Damaged' = Damaged
             ReplySame == AnsweredKeys' = AnsweredKeys
             Goal      == [Contract!Next]_(Contract!vars)
  <1> USE DEF AnsweredKeys
  <1>1. ASSUME KeysOf(table) \subseteq KeysOf(table'), FileSame, ReplySame PROVE Goal
    <2>1. KeysOf(table') \subseteq Texts
      BY KnownType DEF TypeOK
    <2>2. Contract!Store
      BY <1>1, <2>1 DEF Contract!Store
    <2> QED
      BY <2>2 DEF Contract!Next
  <1>2. ASSUME NEW c \in Conns, FlagPurges(c) PROVE Goal
    <2>1. FileSame /\ ReplySame
      BY <1>2, ContractFile, ContractReplies, FileSteps DEF IInv, Silent
    <2>2. CASE KeysOf(table) \subseteq KeysOf(table')
      BY <1>1, <2>1, <2>2
    <2>3. ASSUME NEW key \in Logged, KeysOf(table) \ {key} \subseteq KeysOf(table'),
                 KeysOf(table') \subseteq KeysOf(table), ~ (KeysOf(table) \subseteq KeysOf(table'))
          PROVE  Goal
      <3>1. key \in KeysOf(table) /\ KeysOf(table') = KeysOf(table) \ {key}
        BY <2>3
      <3>2. Contract!Forget
        BY <2>1, <2>3, <3>1 DEF Contract!Forget
      <3> QED
        BY <3>2 DEF Contract!Next
    <2> QED
      BY <2>2, <2>3, KnownStep DEF IInv
  <1>3. ASSUME ~ \E c \in Conns : FlagPurges(c)
        PROVE  KeysOf(table) \subseteq KeysOf(table')
    BY <1>3, KnownStep DEF IInv
  <1>4. CASE Boot \/ UNCHANGED vars
    <2>1. FileSame /\ ReplySame
      BY <1>4, ContractFile, ContractReplies, FileSteps DEF IInv
    <2> QED
      BY <1>1, <1>2, <1>3, <2>1
  <1>5. ASSUME NEW c \in Conns, Silent(c) PROVE Goal
    <2>1. FileSame /\ ReplySame
      BY <1>5, ContractFile, ContractReplies, FileSteps DEF IInv
    <2> QED
      BY <1>1, <1>2, <1>3, <2>1
  <1>6. CASE Crash
    <2>1. KnownSame
      BY <1>6 DEF Crash
    <2>2. AnsweredKeys' = [c \in Conns |-> NoText]
      BY <1>6, ContractReplies
    <2>3. FileSame \/ (Logged' = {} /\ Damaged')
      BY <1>6, ContractFile
    <2>4. Contract!Restart
      BY <2>1, <2>2, <2>3 DEF Contract!Restart, Damaged
    <2> QED
      BY <2>4 DEF Contract!Next
  <1>7. ASSUME NEW c \in Conns, FlagOpens(c) PROVE Goal
    <2>1. KnownSame
      BY <1>7 DEF FlagOpens
    <2>2. ReplySame
      BY <1>7, ContractReplies
    <2>3. ~ Damaged /\ ~ Damaged' /\ KeyOf(c) \in Texts /\ Logged' = Logged \cup {KeyOf(c)}
      BY <1>7, ContractFile
    <2>4. Damaged' = Damaged
      BY <2>3 DEF Damaged
    <2>5. Contract!Flag
      BY <2>1, <2>2, <2>3, <2>4 DEF Contract!Flag
    <2> QED
      BY <2>5 DEF Contract!Next
  <1>8. ASSUME NEW c \in Conns, FlagWrites(c) PROVE Goal
    <2>1. KnownSame /\ ReplySame
      BY <1>8, ContractReplies DEF FlagWrites
    <2>2. Logged' = Logged /\ Damaged' = Damaged
      BY <1>8, ContractFile DEF Damaged
    <2> QED
      BY <1>1, <2>1, <2>2
  <1>9. ASSUME NEW c \in Conns, FlagWriteFails(c) PROVE Goal
    <2>1. KnownSame /\ ReplySame
      BY <1>9, ContractReplies DEF FlagWriteFails
    <2>2. Logged' = {} /\ Damaged' = TRUE
      BY <1>9, ContractFile DEF Damaged
    <2>3. Contract!Lose
      BY <2>1, <2>2 DEF Contract!Lose
    <2> QED
      BY <2>3 DEF Contract!Next
  <1>10. ASSUME NEW c \in Conns, ChatKB(c) PROVE Goal
    <2>1. KnownSame
      BY <1>10 DEF ChatKB
    <2>2. FileSame
      BY <1>10, ContractFile, FileSteps DEF IInv
    <2>3. KeyOf(c) \in Texts /\ KeyOf(c) \notin Logged
      <3>1. KeyOf(c) \in Texts /\ KeyOf(c) \notin FlaggedPrompts /\ LoopFree
        BY <1>10, KeyType DEF ChatKB, AsksKB, Resumes, IInv
      <3>2. \A d \in Conns : draft[d] = {}
        BY <3>1 DEF LoopFree, LoopInv, IInv
      <3> QED
        BY <3>1, <3>2 DEF Logged, FlaggedPrompts, FileInv, IInv
    <2>4. \E j \in KeysOf(table) : j = KeyOf(c) \/ <<KeyOf(c), j>> \in Like
      BY <1>10 DEF ChatKB, Hits, IsHit, KeysOf
    <2>5. AnsweredKeys[c] = NoText /\ AnsweredKeys' = [AnsweredKeys EXCEPT ![c] = KeyOf(c)]
      BY <1>10, ContractReplies
    <2>6. Contract!Answer(c)
      BY <2>1, <2>2, <2>3, <2>4, <2>5 DEF Contract!Answer
    <2> QED
      BY <2>6 DEF Contract!Next
  <1>11. ASSUME NEW c \in Conns, Deliver(c) \/ Disconnect(c) PROVE Goal
    <2>1. KnownSame
      BY <1>11 DEF Deliver, Disconnect, Release
    <2>2. FileSame
      BY <1>11, ContractFile, FileSteps DEF IInv
    <2>3. AnsweredKeys' = [AnsweredKeys EXCEPT ![c] = NoText]
      BY <1>11, ContractReplies
    <2>4. Contract!Done(c)
      BY <2>1, <2>2, <2>3 DEF Contract!Done
    <2> QED
      BY <2>4 DEF Contract!Next
  <1> QED
    BY <1>4, <1>5, <1>6, <1>7, <1>8, <1>9, <1>10, <1>11 DEF Next, Handle, Silent

\* The server implements the contract: only flagged keys are forgotten, and no key on
\* record as flagged is answered from the database.
THEOREM ServerImplementsContract == Spec => ImplementsContract
PROOF
  <1>1. Init => Contract!Init
    BY KeyAssumption DEF Init, Contract!Init, KeysOf, Logged, Damaged, AnsweredKey, NoReply
  <1>2. IInv /\ IInv' /\ [Next]_vars => [Contract!Next]_(Contract!vars)
    BY ContractStep DEF IInv
  <1> QED
    BY <1>1, <1>2, InductiveInvariant, PTL DEF Spec, ImplementsContract, Contract!Spec

-----------------------------------------------------------------------------
(***************************************************************************)
(* A boot loads the reference file: for files of any length, over any      *)
(* table, with crashes and failures in between.  prompt_key is UNIQUE in   *)
(* the schema; that the statements keep it so is proved here.              *)
(***************************************************************************)

\* No two rows have the same key.
Unique(t) == \A i, j \in DOMAIN t : t[i].key = t[j].key => i = j

\* The table has the row of a fact.
HasRow(t, fact) == \E i \in DOMAIN t : t[i].key = fact.key /\ t[i].text = fact.text

-----------------------------------------------------------------------------
(***************************************************************************)
(* The statements.                                                         *)
(***************************************************************************)

\* DELETE keeps keys unique, takes the key away and leaves the rows of the others.
LEMMA DeleteUnique ==
  ASSUME NEW R, NEW t \in Seq(R), Unique(t), NEW k
  PROVE  /\ Unique(Delete(t, k))
         /\ k \notin KeysOf(Delete(t, k))
         /\ \A j \in DOMAIN t : t[j].key # k => \E i \in DOMAIN Delete(t, k) : Delete(t, k)[i] = t[j]
<1>1. CASE k \notin KeysOf(t)
  BY <1>1 DEF Delete
<1>2. CASE k \in KeysOf(t)
  <2> DEFINE d == Delete(t, k)
  <2>1. PICK at \in 1..Len(t) :
          /\ t[at].key = k
          /\ Len(t) \in Nat \ {0}
          /\ d = [i \in 1..(Len(t) - 1) |-> IF i < at THEN t[i] ELSE t[i + 1]]
    BY <1>2, DeleteShape
  <2> DEFINE from(i) == IF i < at THEN i ELSE i + 1
  <2>2. /\ DOMAIN d = 1..(Len(t) - 1) /\ DOMAIN t = 1..Len(t)
        /\ \A i \in DOMAIN d : from(i) \in DOMAIN t /\ from(i) # at /\ d[i] = t[from(i)]
        /\ \A i, j \in DOMAIN d : from(i) = from(j) => i = j
    BY <2>1
  <2>3. ASSUME NEW j \in DOMAIN t, t[j].key # k PROVE \E i \in DOMAIN d : d[i] = t[j]
    <3> DEFINE i == IF j < at THEN j ELSE j - 1
    <3>1. i \in DOMAIN d /\ from(i) = j
      BY <2>1, <2>2, <2>3
    <3> QED
      BY <2>2, <3>1
  <2> HIDE DEF d, from
  <2>4. Unique(d)
    BY <2>2 DEF Unique
  <2>5. k \notin KeysOf(d)
    BY <2>1, <2>2 DEF Unique, KeysOf
  <2> QED
    BY <2>3, <2>4, <2>5 DEF d
<1> QED
  BY <1>1, <1>2

\* Appending a row of a new key.
LEMMA AppendUnique ==
  ASSUME NEW R, NEW t \in Seq(R), Unique(t), NEW row \in R, row.key \notin KeysOf(t)
  PROVE  /\ Unique(Append(t, row))
         /\ \E i \in DOMAIN Append(t, row) : Append(t, row)[i] = row
         /\ \A j \in DOMAIN t : \E i \in DOMAIN Append(t, row) : Append(t, row)[i] = t[j]
<1> DEFINE a == Append(t, row)
<1>1. /\ DOMAIN a = DOMAIN t \cup {Len(t) + 1}
      /\ a[Len(t) + 1] = row
      /\ \A i \in DOMAIN t : a[i] = t[i]
  OBVIOUS
<1> HIDE DEF a
<1>2. Unique(a)
  BY <1>1 DEF Unique, KeysOf
<1> QED
  BY <1>1, <1>2 DEF a

\* INSERT OR REPLACE keeps keys unique; the row is there, and the rows of other keys are.
LEMMA ReplaceUnique ==
  ASSUME NEW R, NEW t \in Seq(R), Unique(t), NEW row \in R
  PROVE  /\ Unique(InsertOrReplace(t, row))
         /\ \E i \in DOMAIN InsertOrReplace(t, row) : InsertOrReplace(t, row)[i] = row
         /\ \A j \in DOMAIN t : t[j].key # row.key =>
              \E i \in DOMAIN InsertOrReplace(t, row) : InsertOrReplace(t, row)[i] = t[j]
<1> DEFINE k == row.key  d == Delete(t, k)
<1> HIDE DEF k
<1>1. d \in Seq(R)
  BY DeleteRows
<1>2. /\ Unique(d) /\ k \notin KeysOf(d)
      /\ \A j \in DOMAIN t : t[j].key # k => \E i \in DOMAIN d : d[i] = t[j]
  BY DeleteUnique
<1>3. InsertOrReplace(t, row) = Append(d, row)
  BY DEF InsertOrReplace, k
<1> HIDE DEF d
<1> USE DEF k
<1>4. /\ Unique(Append(d, row))
      /\ \E i \in DOMAIN Append(d, row) : Append(d, row)[i] = row
      /\ \A j \in DOMAIN d : \E i \in DOMAIN Append(d, row) : Append(d, row)[i] = d[j]
  BY <1>1, <1>2, AppendUnique
<1>5. ASSUME NEW j \in DOMAIN t, t[j].key # row.key
      PROVE  \E i \in DOMAIN Append(d, row) : Append(d, row)[i] = t[j]
  <2>1. PICK l \in DOMAIN d : d[l] = t[j]
    BY <1>2, <1>5
  <2> QED
    BY <1>4, <2>1
<1> QED
  BY <1>3, <1>4, <1>5

LEMMA IgnoreUnique ==
  ASSUME NEW R, NEW t \in Seq(R), Unique(t), NEW row \in R
  PROVE  Unique(InsertOrIgnore(t, row))
<1>1. CASE row.key \in KeysOf(t)
  BY <1>1 DEF InsertOrIgnore
<1>2. CASE row.key \notin KeysOf(t)
  BY <1>2, AppendUnique DEF InsertOrIgnore
<1> QED
  BY <1>1, <1>2

-----------------------------------------------------------------------------
(***************************************************************************)
(* The loading.                                                            *)
(***************************************************************************)

\* facts[m] is the last of the first k facts with its key.
Latest(facts, m, k) == \A j \in (m + 1)..k : facts[j].key # facts[m].key

\* t has the last value of each key of the first k facts.
Covers(t, facts, k) ==
  \A n \in 1..k : \E m \in 1..k :
    facts[m].key = facts[n].key /\ Latest(facts, m, k) /\ HasRow(t, facts[m])

LoadInv ==
  /\ Unique(table) /\ Unique(work)
  /\ phase = "loading" =>
       \E k \in 0..Len(loaded) :
         /\ Len(todo) = Len(loaded) - k
         /\ \A i \in 1..Len(todo) : todo[i] = loaded[k + i]
         /\ Covers(work, loaded, k)
  /\ phase = "seeding" => \/ loaded = <<>>
                          \/ table = work /\ Covers(table, loaded, Len(loaded))

LEMMA LoadBegins == Init => LoadInv
  BY DEF Init, LoadInv, Unique

\* A handler leaves the keys of the table unique.
LEMMA HandlerUnique ==
  ASSUME TypeOK, Unique(table), NEW c \in Conns,
         Save(c) \/ Learn(c) \/ FlagPurges(c)
  PROVE  Unique(table')
<1>1. table \in Seq(Rows) /\ req[c].prompt \in Texts \cup {NoText}
  BY RequestType DEF TypeOK
<1>2. ASSUME NEW prompt, NEW text, Saved(prompt, text)
      PROVE  Unique(table')
  <2> DEFINE row == [key |-> Norm[prompt], text |-> Clean[text], source |-> "learned"]
  <2>1. table' = InsertOrReplace(table, row)
    BY <1>2 DEF Saved
  <2>2. row \in {row}
    OBVIOUS
  <2> HIDE DEF row
  <2>3. table \in Seq(Rows \cup {row}) /\ row \in Rows \cup {row}
    BY <1>1
  <2>4. Unique(InsertOrReplace(table, row))
    BY <2>3, ReplaceUnique
  <2> QED
    BY <2>1, <2>4
<1>3. CASE Save(c)
  BY <1>2, <1>3 DEF Save, NotSaved
<1>4. CASE Learn(c)
  BY <1>2, <1>4 DEF Learn, NotSaved
<1>5. CASE FlagPurges(c)
  <2>1. Unique(Delete(table, KeyOf(c)))
    BY <1>1, DeleteUnique
  <2> QED
    BY <1>5, <2>1 DEF FlagPurges
<1> QED
  BY <1>3, <1>4, <1>5

LEMMA LoadFactKept ==
  ASSUME TypeOK, LoadInv, LoadFact
  PROVE  LoadInv'
<1>1. PICK k \in 0..Len(loaded) :
        /\ Len(todo) = Len(loaded) - k
        /\ \A i \in 1..Len(todo) : todo[i] = loaded[k + i]
        /\ Covers(work, loaded, k)
  BY DEF LoadFact, LoadInv
<1>2. /\ todo \in Seq(Facts) /\ loaded \in Seq(Facts) /\ work \in Seq(Rows)
      /\ todo # <<>> /\ todo' = Tail(todo) /\ UNCHANGED <<table, phase, loaded>>
      /\ phase = "loading"
  BY DEF LoadFact, TypeOK
<1> DEFINE fact == Head(todo)
           row  == [key |-> fact.key, text |-> fact.text, source |-> "reference"]
<1>3. /\ Len(loaded) \in Nat /\ k + 1 \in 1..Len(loaded) /\ k \in Nat
      /\ fact = loaded[k + 1] /\ fact \in Facts
  BY <1>1, <1>2
<1>4. /\ Len(todo') = Len(loaded) - (k + 1)
      /\ \A i \in 1..Len(todo') : todo'[i] = loaded[(k + 1) + i]
  <2>1. Len(todo') = Len(todo) - 1 /\ \A i \in 1..Len(todo') : todo'[i] = todo[i + 1]
    BY <1>2
  <2>2. \A i \in 1..Len(todo') : i + 1 \in 1..Len(todo) /\ k + (i + 1) = (k + 1) + i
    BY <1>1, <1>2, <1>3, <2>1
  <2> QED
    BY <1>1, <1>3, <2>1, <2>2
<1>5. work' = InsertOrReplace(work, row) /\ row \in Rows
  BY <1>3 DEF LoadFact, Rows, Facts, Sources
<1>6. row.key = fact.key /\ row.text = fact.text
  OBVIOUS
<1> HIDE DEF row, fact
<1>7. /\ Unique(work')
      /\ \E i \in DOMAIN work' : work'[i] = row
      /\ \A j \in DOMAIN work : work[j].key # row.key => \E i \in DOMAIN work' : work'[i] = work[j]
  BY <1>2, <1>5, ReplaceUnique DEF LoadInv
<1>8. Covers(work', loaded, k + 1)
  <2> SUFFICES ASSUME NEW n \in 1..(k + 1)
               PROVE  \E m \in 1..(k + 1) : /\ loaded[m].key = loaded[n].key
                                            /\ Latest(loaded, m, k + 1)
                                            /\ HasRow(work', loaded[m])
    BY DEF Covers
  <2>1. CASE loaded[n].key = fact.key
    <3>1. HasRow(work', loaded[k + 1])
      BY <1>3, <1>6, <1>7 DEF HasRow
    <3>2. Latest(loaded, k + 1, k + 1)
      BY <1>3 DEF Latest
    <3> QED
      BY <1>3, <2>1, <3>1, <3>2
  <2>2. CASE loaded[n].key # fact.key
    <3>1. n \in 1..k
      BY <1>3, <2>2
    <3>2. PICK m \in 1..k : /\ loaded[m].key = loaded[n].key
                            /\ Latest(loaded, m, k) /\ HasRow(work, loaded[m])
      BY <1>1, <3>1 DEF Covers
    <3>3. Latest(loaded, m, k + 1)
      <4>1. \A j \in (m + 1)..(k + 1) : j \in (m + 1)..k \/ j = k + 1
        BY <1>3
      <4> QED
        BY <1>3, <2>2, <3>2, <4>1 DEF Latest
    <3>4. HasRow(work', loaded[m])
      BY <1>6, <1>7, <2>2, <3>2 DEF HasRow
    <3>5. m \in 1..(k + 1)
      BY <1>3
    <3> QED
      BY <3>2, <3>3, <3>4, <3>5
  <2> QED
    BY <2>1, <2>2
<1>9. k + 1 \in 0..Len(loaded)
  BY <1>3
<1> QED
  BY <1>2, <1>4, <1>7, <1>8, <1>9 DEF LoadInv

LEMMA SeedKept ==
  ASSUME TypeOK, LoadInv, Seed
  PROVE  LoadInv'
<1>1. Unique(table')
  <2>1. CASE work # <<>>
    BY <2>1 DEF Seed, LoadInv
  <2>2. CASE work = <<>>
    <3> DEFINE first == Seeds[1]  second == Seeds[2]  once == InsertOrIgnore(work, first)
    <3>1. first \in Rows /\ second \in Rows /\ work \in Seq(Rows) /\ Unique(work)
      BY FileAssumption DEF TypeOK, LoadInv
    <3>2. table' = InsertOrIgnore(once, second)
      BY <2>2 DEF Seed
    <3> HIDE DEF first, second
    <3>3. once \in Seq(Rows) /\ Unique(once)
      BY <3>1, IgnoreKeepsKeys, IgnoreUnique
    <3> HIDE DEF once
    <3> QED
      BY <3>1, <3>2, <3>3, IgnoreUnique
  <2> QED
    BY <2>1, <2>2
<1>2. work' = table' /\ phase' = "up"
  BY DEF Seed
<1> QED
  BY <1>1, <1>2 DEF LoadInv

LEMMA BootKept ==
  ASSUME TypeOK, LoadInv, OpenDb \/ LoadFails \/ CommitFacts \/ Crash
  PROVE  LoadInv'
<1>1. CASE OpenDb
  <2>1. PICK file \in RefFiles :
          /\ phase' = IF file.readable THEN "loading" ELSE "seeding"
          /\ todo' = file.facts /\ loaded' = file.facts
    BY <1>1 DEF OpenDb
  <2>2. table' = table /\ work' = table
    BY <1>1 DEF OpenDb
  <2>3. /\ file.facts \in Seq(Facts)
        /\ file.readable \in BOOLEAN
        /\ ~ file.readable => file.facts = <<>>
    BY FileAssumption
  <2>4. /\ 0 \in 0..Len(loaded') /\ Len(todo') = Len(loaded') - 0
        /\ \A i \in 1..Len(todo') : todo'[i] = loaded'[0 + i]
    BY <2>1, <2>3
  <2>5. Covers(work', loaded', 0)
    BY DEF Covers
  <2> QED
    BY <2>1, <2>2, <2>3, <2>4, <2>5 DEF LoadInv
<1>2. CASE LoadFails
  BY <1>2 DEF LoadFails, LoadInv
<1>3. CASE CommitFacts
  <2>1. /\ phase = "loading" /\ todo = <<>> /\ phase' = "seeding"
        /\ table' = work /\ UNCHANGED <<work, loaded>>
    BY <1>3 DEF CommitFacts
  <2>2. PICK k \in 0..Len(loaded) :
          Len(todo) = Len(loaded) - k /\ Covers(work, loaded, k)
    BY <2>1 DEF LoadInv
  <2>3. k = Len(loaded)
    <3>1. Len(todo) = 0 /\ Len(loaded) \in Nat
      BY <2>1 DEF TypeOK
    <3> QED
      BY <2>2, <3>1
  <2> QED
    BY <2>1, <2>2, <2>3 DEF LoadInv
<1>4. CASE Crash
  BY <1>4 DEF Crash, LoadInv, Unique
<1> QED
  BY <1>1, <1>2, <1>3, <1>4

LEMMA LoadKept == IInv /\ LoadInv /\ [Next]_vars => LoadInv'
<1> SUFFICES ASSUME TypeOK, BootInv, LoadInv, [Next]_vars PROVE LoadInv'
  BY DEF IInv
<1>1. CASE Boot \/ Crash
  BY <1>1, LoadFactKept, SeedKept, BootKept DEF Boot
<1>2. CASE UNCHANGED vars
  BY <1>2 DEF vars, bootVars, LoadInv
<1>3. ASSUME NEW c \in Conns,
             Arrive(c) \/ Handle(c) \/ Think(c) \/ ThinkFails(c) \/ StreamChunk(c) \/ Disconnect(c)
      PROVE  LoadInv'
  <2>1. phase = "up" /\ UNCHANGED <<phase, work, loaded, todo>>
    <3>1. pc[c] # "idle" \/ phase = "up"
      BY <1>3 DEF Arrive, Handle, Save, FlagOpens, FlagRefused, FlagWrites, FlagWriteFails,
                  FlagPurges, ChatFails, ChatSocial, ChatKB, ChatModel, Learn, StreamEnd, Deliver,
                  Resumes, Think, ThinkFails, StreamChunk, Disconnect
    <3>2. UNCHANGED bootVars
      BY <1>3 DEF Arrive, Handle, Save, FlagOpens, FlagRefused, FlagWrites, FlagWriteFails,
                  FlagPurges, ChatFails, ChatSocial, ChatKB, ChatModel, Learn, StreamEnd, Deliver,
                  Release, Think, ThinkFails, StreamChunk, Disconnect, bootVars
    <3> QED
      BY <3>1, <3>2 DEF BootInv, bootVars
  <2>2. Unique(table')
    <3>1. CASE UNCHANGED table
      BY <3>1 DEF LoadInv
    <3>2. CASE Save(c) \/ Learn(c) \/ FlagPurges(c)
      BY <3>2, HandlerUnique DEF LoadInv
    <3> QED
      BY <1>3, <3>1, <3>2
         DEF Arrive, Handle, FlagOpens, FlagRefused, FlagWrites, FlagWriteFails, ChatFails,
             ChatSocial, ChatKB, ChatModel, StreamEnd, Deliver, Release, Think, ThinkFails,
             StreamChunk, Disconnect
  <2> QED
    BY <2>1, <2>2 DEF LoadInv
<1> QED
  BY <1>1, <1>2, <1>3 DEF Next

\* The last fact of a key is the one its value comes from.
LEMMA LatestIsLast ==
  ASSUME NEW facts \in Seq(Facts), NEW m \in 1..Len(facts), Latest(facts, m, Len(facts))
  PROVE  LastFact(facts, facts[m].key) = facts[m].text
<1> DEFINE Last(i) == /\ facts[i].key = facts[m].key
                      /\ \A j \in (i + 1)..Len(facts) : facts[j].key # facts[m].key
<1>1. DOMAIN facts = 1..Len(facts) /\ Len(facts) \in Nat
  OBVIOUS
<1>2. m \in DOMAIN facts /\ Last(m)
  BY <1>1 DEF Latest
<1>3. \A i \in DOMAIN facts : Last(i) => i = m
  BY <1>1, <1>2
<1>4. (CHOOSE i \in DOMAIN facts : Last(i)) = m
  BY <1>2, <1>3
<1> QED
  BY <1>4 DEF LastFact

\* A boot that reports its reference file as loaded leaves, for each key of the file, one
\* row with the file's last value, whatever the table held and whatever else had crashed
\* or failed before (init_db).
THEOREM BootLoadsFacts == Spec => FactsLoaded
<1>1. Init => LoadInv
  BY LoadBegins
<1>2. IInv /\ LoadInv /\ [Next]_vars => LoadInv'
  BY LoadKept
<1>3. ASSUME TypeOK, LoadInv, Seed, NEW n \in DOMAIN loaded
      PROVE  \E i \in DOMAIN table' :
               /\ table'[i].key = loaded[n].key
               /\ table'[i].text = LastFact(loaded, loaded[n].key)
               /\ \A j \in DOMAIN table' : table'[j].key = loaded[n].key => j = i
  <2>1. loaded \in Seq(Facts) /\ n \in 1..Len(loaded) /\ loaded # <<>>
    BY <1>3 DEF TypeOK
  <2>2. table = work /\ Covers(table, loaded, Len(loaded)) /\ Unique(table)
    BY <1>3, <2>1 DEF LoadInv, Seed
  <2>3. PICK m \in 1..Len(loaded) : /\ loaded[m].key = loaded[n].key
                                    /\ Latest(loaded, m, Len(loaded)) /\ HasRow(table, loaded[m])
    BY <2>1, <2>2 DEF Covers
  <2>4. PICK i \in DOMAIN table : table[i].key = loaded[m].key /\ table[i].text = loaded[m].text
    BY <2>3 DEF HasRow
  <2>5. table' = table
    BY <1>3, <2>2, <2>4 DEF Seed
  <2>6. LastFact(loaded, loaded[n].key) = loaded[m].text
    BY <2>1, <2>3, LatestIsLast
  <2> QED
    BY <2>2, <2>3, <2>4, <2>5, <2>6 DEF Unique
<1>4. TypeOK /\ LoadInv /\ [Next]_vars =>
        [Seed => \A n \in DOMAIN loaded :
                   \E i \in DOMAIN table' :
                     /\ table'[i].key = loaded[n].key
                     /\ table'[i].text = LastFact(loaded, loaded[n].key)
                     /\ \A j \in DOMAIN table' : table'[j].key = loaded[n].key => j = i]_vars
  BY <1>3
<1>5. IInv => TypeOK
  BY DEF IInv
<1> QED
  BY <1>1, <1>2, <1>4, <1>5, InductiveInvariant, PTL DEF Spec, FactsLoaded
=============================================================================
