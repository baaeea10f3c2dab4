------------------------- MODULE MaintenanceProofs -------------------------
(***************************************************************************)
(* Proofs about the builders, the migrator and the boots: for any keys,    *)
(* topics, titles, files and any number of programs started.               *)
(***************************************************************************)
EXTENDS Maintenance, SequenceTheorems, TLAPS

-----------------------------------------------------------------------------
(***************************************************************************)
(* The operators on files and on tables.                                   *)
(***************************************************************************)

\* A file with some keys written is a file, with these keys and the old ones.
LEMMA WithIsFacts ==
  ASSUME NEW facts \in Facts, NEW keys \in SUBSET Keys, NEW value \in Values
  PROVE  /\ With(facts, keys, value) \in Facts
         /\ DOMAIN With(facts, keys, value) = DOMAIN facts \cup keys
         /\ \A k \in DOMAIN facts \ keys : With(facts, keys, value)[k] = facts[k]
<1>1. PICK S \in SUBSET Keys : facts \in [S -> Values]
  BY DEF Facts
<1>2. With(facts, keys, value) \in [S \cup keys -> Values]
  BY <1>1 DEF With
<1>3. S \cup keys \in SUBSET Keys
  OBVIOUS
<1>4. With(facts, keys, value) \in Facts
  BY <1>2, <1>3 DEF Facts
<1> QED
  BY <1>4 DEF With

LEMMA EmptyIsFacts == Empty \in Facts /\ DOMAIN Empty = {}
<1>1. Empty \in [{} -> Values]
  BY DEF Empty, Values
<1> QED
  BY <1>1 DEF Facts, Empty

\* A table with some keys inserted is a table, with these keys and the old ones.
LEMMA PutIsTable ==
  ASSUME NEW table \in Tables, NEW keys \in SUBSET RowKeys, NEW source \in Sources
  PROVE  /\ Put(table, keys, source) \in Tables
         /\ DOMAIN Put(table, keys, source) = DOMAIN table \cup keys
         /\ \A k \in keys : Put(table, keys, source)[k] = source
         /\ \A k \in DOMAIN table \ keys : Put(table, keys, source)[k] = table[k]
<1>1. PICK S \in SUBSET RowKeys : table \in [S -> Sources]
  BY DEF Tables
<1>2. Put(table, keys, source) \in [S \cup keys -> Sources]
  BY <1>1 DEF Put
<1>3. S \cup keys \in SUBSET RowKeys
  OBVIOUS
<1>4. Put(table, keys, source) \in Tables
  BY <1>2, <1>3 DEF Tables
<1> QED
  BY <1>4 DEF Put

LEMMA NoRowsIsTable == NoRows \in Tables /\ DOMAIN NoRows = {}
<1>1. NoRows \in [{} -> Sources]
  BY DEF NoRows, Sources
<1> QED
  BY <1>1 DEF Tables, NoRows

\* A table is a function from keys to sources.
LEMMA TableDomain ==
  ASSUME NEW table \in Tables
  PROVE  DOMAIN table \subseteq RowKeys /\ \A k \in DOMAIN table : table[k] \in Sources
  BY DEF Tables

LEMMA FactsDomain == ASSUME NEW facts \in Facts PROVE DOMAIN facts \subseteq Keys
  BY DEF Facts

-----------------------------------------------------------------------------
(***************************************************************************)
(* The builders.                                                           *)
(***************************************************************************)

\* The builders keep their types and what they read.
BuilderInv == BuilderTypeOK /\ ToolsKeepWhatTheyRead

\* The invariant of the builders holds when everything begins.
LEMMA BuildersBegin == Init => BuilderInv
<1> SUFFICES ASSUME Init PROVE BuilderInv
  OBVIOUS
<1> USE BuilderAssumption
<1>1. With(Empty, HandWritten, "manual") \in Facts
  BY EmptyIsFacts, WithIsFacts DEF Values
<1>2. file \in [Files -> [state : {"absent", "torn", "whole"}, facts : Facts]]
  BY <1>1 DEF Init, BuilderInit
<1>3. \A t \in Tools : todo[t] \in Seq(Keys)
  BY DEF Init, BuilderInit
<1>4. BuilderTypeOK
  BY <1>2, <1>3, EmptyIsFacts DEF Init, BuilderInit, BuilderTypeOK
<1>5. ToolsKeepWhatTheyRead
  BY EmptyIsFacts DEF Init, BuilderInit, ToolsKeepWhatTheyRead
<1> QED
  BY <1>4, <1>5 DEF BuilderInv

LEMMA StartKeeps ==
  ASSUME BuilderInv, NEW t \in Tools, Start(t)
  PROVE  BuilderInv'
<1> USE BuilderAssumption DEF BuilderInv
<1>1. FileOf(t) \in Files
  BY DEF FileOf, Files
<1>2. PICK facts \in Facts : Reads(t, facts)
  BY <1>1, EmptyIsFacts DEF Start, BuilderTypeOK
<1>3. /\ tool' = [tool EXCEPT ![t] = "fetching"]
      /\ data' = [data EXCEPT ![t] = facts]
      /\ todo' = [todo EXCEPT ![t] = Topics[t]]
      /\ base' = [base EXCEPT ![t] = facts]
      /\ alone' \in [Tools -> BOOLEAN]
      /\ ops' = ops + 1 /\ ops < MaxOps
      /\ UNCHANGED file
  BY <1>2, Zenon DEF Reads, BuilderTypeOK
<1>4. BuilderTypeOK'
  BY <1>3 DEF BuilderTypeOK
<1>5. ToolsKeepWhatTheyRead'
  BY <1>3 DEF BuilderTypeOK, ToolsKeepWhatTheyRead
<1> QED
  BY <1>4, <1>5
LEMMA FetchingKeeps ==
  ASSUME BuilderInv, NEW t \in Tools, Skip(t) \/ Fetch(t) \/ Merge(t)
  PROVE  BuilderInv'
<1> USE BuilderAssumption DEF BuilderInv
<1>1. /\ todo[t] \in Seq(Keys) /\ data[t] \in Facts /\ base[t] \in Facts
      /\ todo[t] # <<>>
  BY DEF BuilderTypeOK, Skip, Fetch, Merge
<1>2. Head(todo[t]) \in Keys /\ Tail(todo[t]) \in Seq(Keys)
  BY <1>1
\* The tool holds other facts: with all keys it had and, unless it is the downloader,
\* all values.
<1>3. \E facts \in Facts :
        /\ Proceed(t, facts)
        /\ DOMAIN data[t] \subseteq DOMAIN facts
        /\ t # "bulk" => \A k \in DOMAIN data[t] : facts[k] = data[t][k]
        /\ \E rest \in Seq(Keys) : todo' = [todo EXCEPT ![t] = rest]
  <2>1. CASE Skip(t)
    BY <1>1, <1>2, <2>1 DEF Skip
  <2>2. CASE Fetch(t)
    <3>1. PICK keys \in Under(t, Head(todo[t])) : Proceed(t, With(data[t], keys, "fetched"))
      BY <2>2 DEF Fetch
    <3>2. keys \in SUBSET Keys
      BY <1>2 DEF Under
    <3>3. t # "bulk" => keys = {Head(todo[t])}
      BY DEF Under
    <3>4. Head(todo[t]) \notin DOMAIN data[t] /\ todo' = [todo EXCEPT ![t] = Tail(@)]
      BY <2>2 DEF Fetch
    <3>5. "fetched" \in Values
      BY DEF Values
    <3>6. /\ With(data[t], keys, "fetched") \in Facts
          /\ DOMAIN With(data[t], keys, "fetched") = DOMAIN data[t] \cup keys
          /\ \A k \in DOMAIN data[t] \ keys : With(data[t], keys, "fetched")[k] = data[t][k]
      BY <1>1, <3>2, <3>5, WithIsFacts
    <3> QED
      BY <1>2, <3>1, <3>3, <3>4, <3>6
  <2>3. CASE Merge(t)
    <3>1. PICK scraped \in SUBSET {todo[t][i] : i \in DOMAIN todo[t]} :
            Proceed(t, With(data[t], scraped \ DOMAIN data[t], "fetched"))
      BY <2>3 DEF Merge
    <3> DEFINE keys == scraped \ DOMAIN data[t]
    <3>2. keys \in SUBSET Keys
      BY <1>1
    <3>3. todo' = [todo EXCEPT ![t] = <<>>] /\ <<>> \in Seq(Keys)
      BY <2>3 DEF Merge
    <3>4. "fetched" \in Values
      BY DEF Values
    <3>5. /\ With(data[t], keys, "fetched") \in Facts
          /\ DOMAIN With(data[t], keys, "fetched") = DOMAIN data[t] \cup keys
          /\ \A k \in DOMAIN data[t] \ keys : With(data[t], keys, "fetched")[k] = data[t][k]
      <4>1. data[t] \in Facts
        BY <1>1
      <4> HIDE DEF keys
      <4> QED
        BY ONLY <3>2, <3>4, <4>1, WithIsFacts
    <3> QED
      BY <3>1, <3>3, <3>5
  <2> QED
    BY <2>1, <2>2, <2>3
<1>4. PICK facts \in Facts :
        /\ Proceed(t, facts)
        /\ DOMAIN data[t] \subseteq DOMAIN facts
        /\ t # "bulk" => \A k \in DOMAIN data[t] : facts[k] = data[t][k]
        /\ \E rest \in Seq(Keys) : todo' = [todo EXCEPT ![t] = rest]
  BY <1>3
<1>5. PICK rest \in Seq(Keys) : todo' = [todo EXCEPT ![t] = rest]
  BY <1>4
<1>6. BuilderTypeOK'
  BY <1>4, <1>5 DEF BuilderTypeOK, Proceed, fileVars
<1>7. ToolsKeepWhatTheyRead'
  BY <1>4 DEF BuilderTypeOK, ToolsKeepWhatTheyRead, Proceed, fileVars
<1> QED
  BY <1>6, <1>7

LEMMA WritingKeeps ==
  ASSUME BuilderInv, NEW t \in Tools, OpenForWrite(t) \/ Write(t) \/ Kill(t)
  PROVE  BuilderInv'
<1> USE DEF BuilderInv
<1>1. FileOf(t) \in Files
  BY DEF FileOf, Files
<1>2. CASE OpenForWrite(t)
  <2>1. file' \in [Files -> [state : {"absent", "torn", "whole"}, facts : Facts]]
    BY <1>1, <1>2 DEF OpenForWrite, BuilderTypeOK
  <2>2. BuilderTypeOK'
    BY <1>2, <2>1 DEF OpenForWrite, BuilderTypeOK
  <2>3. ToolsKeepWhatTheyRead'
    BY <1>2 DEF OpenForWrite, ToolsKeepWhatTheyRead
  <2> QED
    BY <2>2, <2>3
<1>3. CASE Write(t) \/ Kill(t)
  <2>1. Idle(t)
    BY <1>3 DEF Write, Kill
  <2>2. file' \in [Files -> [state : {"absent", "torn", "whole"}, facts : Facts]]
    BY <1>1, <1>3 DEF Write, Kill, BuilderTypeOK
  <2>3. BuilderTypeOK'
    BY <2>1, <2>2, EmptyIsFacts DEF Idle, BuilderTypeOK
  <2>4. ToolsKeepWhatTheyRead'
    BY <2>1, EmptyIsFacts DEF Idle, ToolsKeepWhatTheyRead, BuilderTypeOK
  <2> QED
    BY <2>3, <2>4
<1> QED
  BY <1>2, <1>3

LEMMA EditKeeps ==
  ASSUME BuilderInv, NEW f \in Files, Edit(f)
  PROVE  BuilderInv'
<1> USE BuilderAssumption DEF BuilderInv
<1>1. \E facts \in Facts, state \in {"absent", "whole"} :
        file' = [file EXCEPT ![f] = [state |-> state, facts |-> facts]]
  <2>1. ASSUME NEW k \in Keys PROVE With(Found(f), {k}, "manual") \in Facts
    BY EmptyIsFacts, WithIsFacts DEF BuilderTypeOK, Values, Found
  <2> QED
    BY <2>1, EmptyIsFacts DEF Edit
<1>2. BuilderTypeOK'
  BY <1>1 DEF Edit, BuilderTypeOK
<1>3. ToolsKeepWhatTheyRead'
  BY DEF Edit, ToolsKeepWhatTheyRead
<1> QED
  BY <1>2, <1>3

\* Every step of the project keeps the invariant of the builders.
LEMMA BuildersKeep == BuilderInv /\ [Next]_vars => BuilderInv'
<1> SUFFICES ASSUME BuilderInv, [Next]_vars PROVE BuilderInv'
  OBVIOUS
<1>1. CASE BuilderNext
  BY <1>1, StartKeeps, FetchingKeeps, WritingKeeps, EditKeeps DEF BuilderNext
<1>2. CASE Launch
  BY <1>2, BuilderAssumption DEF Launch, builderVars, BuilderInv, BuilderTypeOK, ToolsKeepWhatTheyRead
<1>3. CASE UNCHANGED <<builderVars, ops>>
  BY <1>3 DEF builderVars, BuilderInv, BuilderTypeOK, ToolsKeepWhatTheyRead
<1> QED
  BY <1>1, <1>2, <1>3 DEF Next, vars

\* Whatever runs at the same time and is interrupted, the topic builder and the
\* scraper keep every value they read, and the downloader every key.
THEOREM ToolsKeepFacts == Spec => []ToolsKeepWhatTheyRead
<1>1. BuilderInv => ToolsKeepWhatTheyRead
  BY DEF BuilderInv
<1> QED
  BY <1>1, BuildersBegin, BuildersKeep, PTL DEF Spec

\* A tool that had its file to itself is the only one at work on it, and the file has
\* the facts the tool read; a file that is not there has none.
AloneInv ==
  /\ \A t \in Tools :
       tool[t] # "idle" /\ alone[t]
         => Busy(FileOf(t)) = {t} /\ file[FileOf(t)].facts = base[t]
  /\ \A f \in Files : file[f].state = "absent" => file[f].facts = Empty

LEMMA AloneBegins == Init => AloneInv
  BY DEF Init, BuilderInit, AloneInv, Busy

LEMMA StartLeavesAlone ==
  ASSUME BuilderInv, AloneInv, NEW t \in Tools, Start(t)
  PROVE  AloneInv'
<1>1. FileOf(t) \in Files
  BY DEF FileOf, Files
<1>2. Reads(t, file[FileOf(t)].facts)
  BY <1>1 DEF Start, AloneInv
<1>3. /\ tool[t] = "idle"
      /\ tool' = [tool EXCEPT ![t] = "fetching"]
      /\ base' = [base EXCEPT ![t] = file[FileOf(t)].facts]
      /\ alone' = [u \in Tools |-> IF u = t THEN Busy(FileOf(t)) = {}
                                   ELSE alone[u] /\ u \notin Busy(FileOf(t))]
      /\ UNCHANGED file
  BY <1>2, Zenon DEF Reads
<1>4. tool \in [Tools -> {"idle", "fetching", "writing"}] /\ base \in [Tools -> Facts]
  BY DEF BuilderInv, BuilderTypeOK
<1>5. \A f \in Files : Busy(f)' = IF f = FileOf(t) THEN Busy(f) \cup {t} ELSE Busy(f)
  BY <1>3, <1>4 DEF Busy
<1>6. ASSUME NEW u \in Tools, tool'[u] # "idle", alone'[u]
      PROVE  Busy(FileOf(u))' = {u} /\ file'[FileOf(u)].facts = base'[u]
  <2>1. FileOf(u) \in Files
    BY DEF FileOf, Files
  <2>2. CASE u = t
    <3>1. Busy(FileOf(t)) = {}
      BY <1>3, <1>6, <2>2
    <3> QED
      BY <1>1, <1>3, <1>4, <1>5, <2>2, <3>1
  <2>3. CASE u # t
    <3>1. alone[u] /\ u \notin Busy(FileOf(t)) /\ tool[u] # "idle"
      BY <1>3, <1>4, <1>6, <2>3
    <3>2. Busy(FileOf(u)) = {u} /\ file[FileOf(u)].facts = base[u]
      BY <3>1 DEF AloneInv
    <3>3. FileOf(u) # FileOf(t)
      BY <3>1 DEF Busy
    <3> QED
      BY <1>3, <1>4, <1>5, <2>1, <2>3, <3>2, <3>3
  <2> QED
    BY <2>2, <2>3
<1> QED
  BY <1>3, <1>6 DEF AloneInv

LEMMA RunLeavesAlone ==
  ASSUME BuilderInv, AloneInv, NEW t \in Tools,
         Skip(t) \/ Fetch(t) \/ Merge(t) \/ OpenForWrite(t)
  PROVE  AloneInv'
<1>1. /\ tool[t] # "idle" /\ tool'[t] # "idle"
      /\ tool \in [Tools -> {"idle", "fetching", "writing"}]
      /\ \A u \in Tools \ {t} : tool'[u] = tool[u]
      /\ UNCHANGED <<base, alone>>
  BY DEF Skip, Fetch, Merge, OpenForWrite, Proceed, fileVars, BuilderInv, BuilderTypeOK
<1>2. \A f \in Files : /\ file'[f].facts = file[f].facts
                       /\ file'[f].state = "absent" => file[f].state = "absent"
  <2>1. CASE OpenForWrite(t)
    <3>1. FileOf(t) \in Files
      BY DEF FileOf, Files
    <3>2. file \in [Files -> [state : {"absent", "torn", "whole"}, facts : Facts]]
      BY DEF BuilderInv, BuilderTypeOK
    <3>3. file' = [file EXCEPT ![FileOf(t)].state = "torn"]
      BY <2>1 DEF OpenForWrite
    <3>4. /\ file'[FileOf(t)].state = "torn"
          /\ file'[FileOf(t)].facts = file[FileOf(t)].facts
          /\ \A f \in Files \ {FileOf(t)} : file'[f] = file[f]
      BY <3>1, <3>2, <3>3
    <3> QED
      BY <3>4
  <2>2. CASE UNCHANGED file
    BY <2>2
  <2> QED
    BY <2>1, <2>2 DEF Skip, Fetch, Merge, Proceed, fileVars
<1>3. \A f \in Files : Busy(f)' = Busy(f)
  BY <1>1 DEF Busy
<1>4. \A u \in Tools : FileOf(u) \in Files
  BY DEF FileOf, Files
<1> QED
  BY <1>1, <1>2, <1>3, <1>4 DEF AloneInv

LEMMA EndLeavesAlone ==
  ASSUME BuilderInv, AloneInv, NEW t \in Tools, Write(t) \/ Kill(t)
  PROVE  AloneInv'
<1>1. /\ tool[t] # "idle"
      /\ tool' = [tool EXCEPT ![t] = "idle"]
      /\ alone' = [alone EXCEPT ![t] = TRUE]
      /\ base' = [base EXCEPT ![t] = Empty]
  BY DEF Write, Kill, Idle
<1>2. /\ tool \in [Tools -> {"idle", "fetching", "writing"}]
      /\ base \in [Tools -> Facts] /\ alone \in [Tools -> BOOLEAN]
      /\ file \in [Files -> [state : {"absent", "torn", "whole"}, facts : Facts]]
  BY DEF BuilderInv, BuilderTypeOK
<1>3. FileOf(t) \in Files
  BY DEF FileOf, Files
<1>4. \A f \in Files : /\ f # FileOf(t) => file'[f] = file[f]
                       /\ file'[f].state = "absent" => file'[f] = file[f]
  BY <1>2, <1>3 DEF Write, Kill
<1>5. \A f \in Files : Busy(f)' = Busy(f) \ {t}
  BY <1>1, <1>2 DEF Busy
<1>6. ASSUME NEW u \in Tools, tool'[u] # "idle", alone'[u]
      PROVE  Busy(FileOf(u))' = {u} /\ file'[FileOf(u)].facts = base'[u]
  <2>1. u # t /\ tool[u] # "idle" /\ alone[u] /\ base'[u] = base[u]
    BY <1>1, <1>2, <1>6
  <2>2. Busy(FileOf(u)) = {u} /\ file[FileOf(u)].facts = base[u]
    BY <2>1 DEF AloneInv
  <2>3. FileOf(u) # FileOf(t)
    BY <1>1, <2>1, <2>2 DEF Busy
  <2>4. FileOf(u) \in Files
    BY DEF FileOf, Files
  <2> QED
    BY <1>4, <1>5, <2>1, <2>2, <2>3, <2>4
<1> QED
  BY <1>4, <1>6 DEF AloneInv

\* An edit writes one key by hand, or removes the file.
LEMMA EditWrites ==
  ASSUME BuilderInv, NEW f \in Files, Edit(f)
  PROVE  /\ \A g \in Files \ {f} : file'[g] = file[g]
         /\ \/ /\ file'[f].state = "whole"
               /\ \E k \in Keys : file'[f].facts = With(Found(f), {k}, "manual")
            \/ file'[f].state = "absent" /\ file'[f].facts = Empty
<1>1. file \in [Files -> [state : {"absent", "torn", "whole"}, facts : Facts]]
  BY DEF BuilderInv, BuilderTypeOK
<1>2. CASE \E k \in Keys :
             file' = [file EXCEPT ![f] = [state |-> "whole", facts |-> With(Found(f), {k}, "manual")]]
  <2>1. PICK k \in Keys :
          file' = [file EXCEPT ![f] = [state |-> "whole", facts |-> With(Found(f), {k}, "manual")]]
    BY <1>2
  <2>2. file'[f] = [state |-> "whole", facts |-> With(Found(f), {k}, "manual")]
    BY <1>1, <2>1
  <2> QED
    BY <1>1, <2>1, <2>2
<1>3. CASE file' = [file EXCEPT ![f] = [state |-> "absent", facts |-> Empty]]
  <2>1. file'[f] = [state |-> "absent", facts |-> Empty]
    BY <1>1, <1>3
  <2> QED
    BY <1>1, <1>3, <2>1
<1> QED
  BY <1>2, <1>3 DEF Edit

LEMMA EditLeavesAlone ==
  ASSUME BuilderInv, AloneInv, NEW f \in Files, Edit(f)
  PROVE  AloneInv'
<1>1. /\ UNCHANGED <<tool, base>>
      /\ alone' = [t \in Tools |-> alone[t] /\ t \notin Busy(f)]
  BY DEF Edit
<1>2. file \in [Files -> [state : {"absent", "torn", "whole"}, facts : Facts]]
  BY DEF BuilderInv, BuilderTypeOK
<1>3. \A g \in Files : /\ g # f => file'[g] = file[g]
                       /\ g = f => file'[g].state # "absent" \/ file'[g].facts = Empty
  BY EditWrites
<1>4. \A g \in Files : Busy(g)' = Busy(g)
  BY <1>1 DEF Busy
<1>5. ASSUME NEW u \in Tools, tool'[u] # "idle", alone'[u]
      PROVE  Busy(FileOf(u))' = {u} /\ file'[FileOf(u)].facts = base'[u]
  <2>1. tool[u] # "idle" /\ alone[u] /\ u \notin Busy(f)
    BY <1>1, <1>5
  <2>2. FileOf(u) \in Files /\ FileOf(u) # f
    BY <2>1 DEF FileOf, Files, Busy
  <2> QED
    BY <1>1, <1>3, <1>4, <2>1, <2>2 DEF AloneInv
<1> QED
  BY <1>3, <1>5 DEF AloneInv

LEMMA AloneKept == BuilderInv /\ AloneInv /\ [Next]_vars => AloneInv'
<1> SUFFICES ASSUME BuilderInv, AloneInv, [Next]_vars PROVE AloneInv'
  OBVIOUS
<1>1. CASE BuilderNext
  BY <1>1, StartLeavesAlone, RunLeavesAlone, EndLeavesAlone, EditLeavesAlone DEF BuilderNext
<1>2. CASE UNCHANGED builderVars
  BY <1>2 DEF builderVars, AloneInv, Busy
<1> QED
  BY <1>1, <1>2 DEF Next, Launch, vars

\* What a step in which the only tool of a file stops writing does to its facts.
LEMMA NothingLostByStep ==
  ASSUME BuilderInv, AloneInv, [Next]_vars,
         NEW t \in Tools, tool[t] = "writing", tool'[t] = "idle", alone[t],
         file'[FileOf(t)].state = "whole"
  PROVE  DOMAIN file[FileOf(t)].facts \subseteq DOMAIN file'[FileOf(t)].facts
<1>1. /\ Busy(FileOf(t)) = {t} /\ file[FileOf(t)].facts = base[t]
      /\ FileOf(t) \in Files
  BY DEF AloneInv, FileOf, Files
<1>2. file \in [Files -> [state : {"absent", "torn", "whole"}, facts : Facts]]
  BY DEF BuilderInv, BuilderTypeOK
<1>3. CASE file'[FileOf(t)].facts = file[FileOf(t)].facts
  BY <1>3
<1>4. ASSUME NEW u \in Tools, Write(u), FileOf(u) = FileOf(t)
      PROVE  DOMAIN file[FileOf(t)].facts \subseteq DOMAIN file'[FileOf(t)].facts
  <2>1. u = t
    BY <1>1, <1>4 DEF Write, Busy
  <2>2. file'[FileOf(t)].facts = data[t]
    BY <1>1, <1>2, <1>4, <2>1 DEF Write
  <2> QED
    BY <1>1, <2>2 DEF BuilderInv, ToolsKeepWhatTheyRead
<1>5. ~ Edit(FileOf(t))
  BY DEF Edit
<1>6. ASSUME ~ \E u \in Tools : Write(u) /\ FileOf(u) = FileOf(t)
      PROVE  file'[FileOf(t)].facts = file[FileOf(t)].facts
  <2>1. CASE \E u \in Tools : Start(u) \/ Skip(u) \/ Fetch(u) \/ Merge(u) \/ OpenForWrite(u)
                              \/ Kill(u)
    BY <1>1, <1>2, <2>1 DEF Start, Reads, Skip, Fetch, Merge, Proceed, fileVars, OpenForWrite, Kill
  <2>2. CASE \E u \in Tools : Write(u)
    BY <1>1, <1>2, <1>6, <2>2 DEF Write
  <2>3. CASE \E f \in Files : Edit(f)
    BY <1>1, <1>2, <1>5, <2>3 DEF Edit
  <2>4. CASE UNCHANGED builderVars
    BY <2>4 DEF builderVars
  <2> QED
    BY <2>1, <2>2, <2>3, <2>4 DEF Next, BuilderNext, Launch, vars
<1> QED
  BY <1>3, <1>4, <1>5, <1>6

\* A run of a tool that had its file to itself takes no fact out of it, even when the
\* file was torn by an earlier run.
THEOREM NothingIsLostAlone == Spec => NothingLostAlone
<1>1. BuilderInv /\ AloneInv /\ [Next]_vars
        => [\A t \in Tools :
              tool[t] = "writing" /\ tool'[t] = "idle" /\ alone[t]
                /\ file'[FileOf(t)].state = "whole"
                => DOMAIN file[FileOf(t)].facts \subseteq DOMAIN file'[FileOf(t)].facts]_<<builderVars, ops>>
  BY NothingLostByStep
<1> QED
  BY <1>1, BuildersBegin, BuildersKeep, AloneBegins, AloneKept, PTL DEF Spec, NothingLostAlone

-----------------------------------------------------------------------------
(***************************************************************************)
(* The migrator and the server.                                            *)
(***************************************************************************)

Rebuilding == {"create", "find reference", "reference", "learned"}

\* The keys the migrator has gone through, those it missed aside.
Handled ==
  CASE mig = "reference" -> read \ (entries \cup missed)
    [] mig = "learned"   -> (read \cup (LearnedFile \ entries)) \ missed
    [] OTHER             -> {}

\* A transaction belongs to a program that is inserting into a table that exists, and
\* sees all committed rows except those it has inserted from a file.
LockInv ==
  /\ lock = "migrator" => mig \in {"reference", "learned"}
  /\ lock = "boot" <=> phase = "loading"
  /\ lock # "none" => /\ exists /\ DOMAIN rows \subseteq DOMAIN work
                     /\ \A k \in DOMAIN rows \ laid : work[k] = rows[k]
  /\ mig \in {"find reference", "reference", "learned"} => exists

\* While the migrator works, no boot has its rows either.
FreshInv ==
  mig \in Rebuilding
    => /\ \A k \in DOMAIN rows : rows[k] \notin {"reference", "learned"}
       /\ lock = "boot" => \A k \in DOMAIN work : work[k] \notin {"reference", "learned"}

\* What the migrator has gone through is in its transaction.
HandledInv ==
  /\ Handled # {} => lock = "migrator" /\ Handled \subseteq DOMAIN work
  /\ mig = "learned" => \A k \in LearnedFile \ (entries \cup missed) : work[k] = "learned"

MigInv == BuilderTypeOK /\ MigrationTypeOK /\ LockInv /\ LateSavesKept

\* The invariant of the migration holds when everything begins.
LEMMA MigrationBegins == Init => MigInv /\ FreshInv /\ HandledInv
<1> SUFFICES ASSUME Init PROVE MigInv /\ FreshInv /\ HandledInv
  OBVIOUS
<1>1. rows \in Tables
  BY NoRowsIsTable, PutIsTable, MigrationAssumption DEF Init, MigrationInit, Sources
<1>2. MigrationTypeOK
  BY <1>1, NoRowsIsTable DEF Init, MigrationInit, MigrationTypeOK
<1>3. LockInv /\ LateSavesKept /\ FreshInv /\ HandledInv
  BY DEF Init, MigrationInit, LockInv, LateSavesKept, FreshInv, HandledInv, Handled, Rebuilding
<1> QED
  BY <1>2, <1>3, BuildersBegin DEF MigInv, BuilderInv

\* The steps of the migrator.
MigratorStep ==
  \/ MigStart \/ Drop \/ Create \/ FindReference(file["reference"]) \/ FindLearned
  \/ Complete \/ MigDies
  \/ \E k \in RowKeys : Insert(k) \/ InsertLocked(k)

\* The steps of the server.
ServerStep ==
  \/ BootCreates \/ BootInserts(file["reference"]) \/ BootLoadsNothing(file["reference"])
  \/ BootCommits \/ BootCounts \/ BootSeeds \/ ServerDies
  \/ \E k \in RowKeys : Save(k) \/ Purge(k)

\* The two are all that touches the database.
LEMMA StepsOfMigration ==
  [Next]_vars => MigratorStep \/ ServerStep \/ UNCHANGED migrationVars
  BY DEF Next, Launch, MigrationStep, MigratorStep, ServerStep, vars

\* The reference file has keys of the table.
LEMMA FoundFacts ==
  BuilderTypeOK => DOMAIN file["reference"].facts \subseteq RowKeys
<1> SUFFICES ASSUME BuilderTypeOK PROVE DOMAIN file["reference"].facts \subseteq RowKeys
  OBVIOUS
<1>1. file["reference"].facts \in Facts
  BY DEF BuilderTypeOK, Files
<1> QED
  BY <1>1, FactsDomain, MaintenanceAssumption

LEMMA MigratorKeeps ==
  ASSUME MigInv, MigratorStep
  PROVE  MigrationTypeOK' /\ LockInv' /\ LateSavesKept'
<1> USE DEF MigInv, MigrationTypeOK, LockInv, LateSavesKept
<1>1. CASE MigStart
  BY <1>1 DEF MigStart, dbVars, bootVars
<1>2. CASE Drop
  BY <1>2, NoRowsIsTable DEF Drop, bootVars
<1>3. CASE Create
  BY <1>3, NoRowsIsTable DEF Create, bootVars
<1>4. CASE FindReference(file["reference"])
  BY <1>4, FoundFacts DEF FindReference, dbVars, bootVars
<1>5. CASE FindLearned
  BY <1>5, MigrationAssumption DEF FindLearned, dbVars, bootVars
<1>6. ASSUME NEW k \in RowKeys, Insert(k)
      PROVE  MigrationTypeOK' /\ LockInv' /\ LateSavesKept'
  <2>1. Transaction \in Tables /\ DOMAIN rows \subseteq DOMAIN Transaction
    BY <1>6 DEF Insert, Transaction
  <2>2. mig \in Sources
    BY <1>6 DEF Insert, Sources
  <2>3. work' \in Tables /\ DOMAIN rows \subseteq DOMAIN work'
        /\ \A j \in DOMAIN rows \ laid' : work'[j] = rows[j]
    <3>1. /\ Put(Transaction, {k}, mig) \in Tables
          /\ DOMAIN Put(Transaction, {k}, mig) = DOMAIN Transaction \cup {k}
      <4>1. {k} \in SUBSET RowKeys
        OBVIOUS
      <4> QED
        BY ONLY <2>1, <2>2, <4>1, PutIsTable
    <3>2. work' = Put(Transaction, {k}, mig) /\ laid' = laid \cup {k}
      BY <1>6 DEF Insert
    <3>3. \A j \in DOMAIN rows \ laid : Transaction[j] = rows[j]
      BY <1>6 DEF Insert, Transaction
    <3>4. \A j \in DOMAIN Transaction \ {k} : Put(Transaction, {k}, mig)[j] = Transaction[j]
      BY ONLY DEF Put
    <3> QED
      BY <2>1, <3>1, <3>2, <3>3, <3>4
  <2> QED
    BY <1>6, <2>3 DEF Insert, bootVars
<1>7. ASSUME NEW k \in RowKeys, InsertLocked(k)
      PROVE  MigrationTypeOK' /\ LockInv' /\ LateSavesKept'
  BY <1>7 DEF InsertLocked, dbVars, bootVars
<1>8. CASE Complete
  BY <1>8, NoRowsIsTable DEF Complete, Transaction, bootVars
<1>9. CASE MigDies
  BY <1>9, NoRowsIsTable DEF MigDies, bootVars
<1> QED
  BY <1>1, <1>2, <1>3, <1>4, <1>5, <1>6, <1>7, <1>8, <1>9 DEF MigratorStep

LEMMA ServerKeeps ==
  ASSUME MigInv, ServerStep
  PROVE  MigrationTypeOK' /\ LockInv' /\ LateSavesKept'
<1> USE DEF MigInv, MigrationTypeOK, LockInv, LateSavesKept
<1>1. CASE BootCreates
  BY <1>1 DEF BootCreates, migVars
<1>2. CASE BootInserts(file["reference"])
  <2>1. PICK keys \in SUBSET RowKeys : keys = DOMAIN file["reference"].facts
    BY FoundFacts
  <2>2. /\ Put(rows, keys, "boot") \in Tables
        /\ DOMAIN Put(rows, keys, "boot") = DOMAIN rows \cup keys
    <3>1. rows \in Tables /\ "boot" \in Sources
      BY DEF Sources
    <3> QED
      BY ONLY <3>1, PutIsTable
  <2>3. \A k \in DOMAIN rows \ keys : Put(rows, keys, "boot")[k] = rows[k]
    BY ONLY DEF Put
  <2> QED
    BY <1>2, <2>1, <2>2, <2>3 DEF BootInserts, migVars
<1>3. CASE BootLoadsNothing(file["reference"])
  BY <1>3 DEF BootLoadsNothing, dbVars, migVars
<1>4. CASE BootCommits
  BY <1>4, NoRowsIsTable DEF BootCommits, migVars
<1>5. CASE BootCounts
  BY <1>5 DEF BootCounts, dbVars, migVars
<1>6. CASE BootSeeds
  <2> DEFINE new == Seeds \ DOMAIN rows
  <2>1. /\ Put(rows, new, "seed") \in Tables
        /\ DOMAIN Put(rows, new, "seed") = DOMAIN rows \cup new
    <3>1. rows \in Tables /\ new \in SUBSET RowKeys /\ "seed" \in Sources
      BY MigrationAssumption DEF Sources
    <3> HIDE DEF new
    <3> QED
      BY ONLY <3>1, PutIsTable
  <2>2. \A k \in DOMAIN rows : Put(rows, new, "seed")[k] = rows[k]
    BY ONLY DEF Put
  <2> QED
    BY <1>6, <2>1, <2>2 DEF BootSeeds, migVars
<1>7. CASE ServerDies
  BY <1>7, NoRowsIsTable DEF ServerDies, migVars
<1>8. ASSUME NEW k \in RowKeys, Save(k)
      PROVE  MigrationTypeOK' /\ LockInv' /\ LateSavesKept'
  <2>1. /\ Put(rows, {k}, "saved") \in Tables
        /\ DOMAIN Put(rows, {k}, "saved") = DOMAIN rows \cup {k}
    <3>1. rows \in Tables /\ {k} \in SUBSET RowKeys /\ "saved" \in Sources
      BY DEF Sources
    <3> QED
      BY ONLY <3>1, PutIsTable
  <2>2. /\ Put(rows, {k}, "saved")[k] = "saved"
        /\ \A j \in DOMAIN rows \ {k} : Put(rows, {k}, "saved")[j] = rows[j]
    BY ONLY DEF Put
  <2> QED
    BY <1>8, <2>1, <2>2 DEF Save, migVars, bootVars
<1>9. ASSUME NEW k \in RowKeys, Purge(k)
      PROVE  MigrationTypeOK' /\ LockInv' /\ LateSavesKept'
  <2>1. [j \in DOMAIN rows \ {k} |-> rows[j]] \in Tables
    <3>1. PICK S \in SUBSET RowKeys : rows \in [S -> Sources]
      BY DEF Tables
    <3>2. [j \in DOMAIN rows \ {k} |-> rows[j]] \in [S \ {k} -> Sources]
      BY <3>1
    <3>3. S \ {k} \in SUBSET RowKeys
      OBVIOUS
    <3> QED
      BY <3>2, <3>3 DEF Tables
  <2> QED
    BY <1>9, <2>1 DEF Purge, migVars, bootVars
<1> QED
  BY <1>1, <1>2, <1>3, <1>4, <1>5, <1>6, <1>7, <1>8, <1>9 DEF ServerStep

\* Every step of the project keeps the invariant of the migration.
LEMMA MigrationKeeps == BuilderInv /\ MigInv /\ [Next]_vars => MigInv'
<1> SUFFICES ASSUME BuilderInv, MigInv, [Next]_vars PROVE MigInv'
  OBVIOUS
<1>1. BuilderTypeOK'
  BY BuildersKeep DEF BuilderInv
<1>2. CASE UNCHANGED migrationVars
  BY <1>1, <1>2 DEF migrationVars, dbVars, migVars, bootVars, MigInv, MigrationTypeOK, LockInv,
                    LateSavesKept
<1> QED
  BY <1>1, <1>2, StepsOfMigration, MigratorKeeps, ServerKeeps DEF MigInv

\* Types, and no rows without a table.
THEOREM TypeCorrect == Spec => []TypeOK
<1>1. MigInv => TypeOK
  BY DEF MigInv, TypeOK
<1> QED
  BY <1>1, MigrationBegins, BuildersBegin, BuildersKeep, MigrationKeeps, PTL DEF Spec

\* An answer reported as saved beside the migrator and the boots stays the row of its
\* key, unless one of them commits a row of its file under the same key.
THEOREM LateSavesAreKept == Spec => []LateSavesKept
<1>1. MigInv => LateSavesKept
  BY DEF MigInv
<1> QED
  BY <1>1, MigrationBegins, BuildersBegin, BuildersKeep, MigrationKeeps, PTL DEF Spec

\* The rows a boot or a handler writes are not the migrator's.
LEMMA FreshKept == MigInv /\ FreshInv /\ [Next]_vars => FreshInv'
<1> SUFFICES ASSUME MigInv, FreshInv, [Next]_vars PROVE FreshInv'
  OBVIOUS
<1> USE DEF FreshInv, Rebuilding
<1>1. rows \in Tables /\ work \in Tables /\ LockInv
  BY DEF MigInv, MigrationTypeOK
<1>2. CASE MigStart
  BY <1>2 DEF MigStart
<1>3. CASE Drop \/ Create
  BY <1>1, <1>3, NoRowsIsTable DEF Drop, Create, LockInv
<1>4. CASE FindReference(file["reference"]) \/ FindLearned
  BY <1>4 DEF FindReference, FindLearned, dbVars
<1>5. ASSUME NEW k \in RowKeys, Insert(k) \/ InsertLocked(k) PROVE FreshInv'
  BY <1>5 DEF Insert, InsertLocked, dbVars
<1>6. CASE Complete \/ MigDies
  BY <1>6 DEF Complete, MigDies
<1>7. CASE BootInserts(file["reference"])
  BY <1>1, <1>7 DEF BootInserts, Put, migVars
<1>8. CASE BootSeeds
  BY <1>1, <1>8 DEF BootSeeds, Put, migVars
<1>9. ASSUME NEW k \in RowKeys, Save(k) \/ Purge(k) PROVE FreshInv'
  BY <1>1, <1>9 DEF Save, Purge, Put, migVars
<1>10. CASE BootCommits
  BY <1>1, <1>10 DEF BootCommits, LockInv, migVars
<1>11. CASE ServerDies
  BY <1>1, <1>11 DEF ServerDies, LockInv, migVars
<1>12. CASE BootCreates \/ BootLoadsNothing(file["reference"]) \/ BootCounts
  BY <1>12 DEF BootCreates, BootLoadsNothing, BootCounts, dbVars, migVars
<1>13. CASE UNCHANGED migrationVars
  BY <1>13 DEF migrationVars, dbVars, migVars
<1> QED
  BY <1>2, <1>3, <1>4, <1>5, <1>6, <1>7, <1>8, <1>9, <1>10, <1>11, <1>12, <1>13, StepsOfMigration
     DEF MigratorStep, ServerStep

\* Nobody sees half a rebuild.
THEOREM RebuildIsAtomic == Spec => []AllOrNothing
<1>1. FreshInv => AllOrNothing
  BY DEF FreshInv, AllOrNothing, Rebuilding
<1> QED
  BY <1>1, MigrationBegins, BuildersBegin, BuildersKeep, MigrationKeeps, FreshKept, PTL DEF Spec

\* An INSERT handles one key, and the transaction has it.
LEMMA InsertHandles ==
  ASSUME MigInv, HandledInv, NEW k \in RowKeys, Insert(k)
  PROVE  HandledInv'
<1>1. /\ mig \in {"reference", "learned"} /\ UNCHANGED <<mig, missed, read>>
      /\ entries' = entries \ {k} /\ lock' = "migrator"
      /\ work' = Put(Transaction, {k}, mig)
  BY DEF Insert
<1>2. /\ Transaction \in Tables /\ DOMAIN Transaction \subseteq DOMAIN work'
      /\ k \in DOMAIN work' /\ work'[k] = mig
      /\ \A j \in DOMAIN Transaction \ {k} : work'[j] = Transaction[j]
  BY <1>1 DEF Transaction, MigInv, MigrationTypeOK, Put
<1>3. Handled \subseteq DOMAIN Transaction
  BY DEF HandledInv, Transaction
<1>4. Handled' \subseteq Handled \cup {k}
  BY <1>1 DEF Handled
<1>5. ASSUME mig' = "learned", NEW j \in LearnedFile \ (entries' \cup missed')
      PROVE  work'[j] = "learned"
  <2>1. CASE j = k
    BY <1>1, <1>2, <1>5, <2>1
  <2>2. CASE j # k
    <3>1. mig = "learned" /\ j \in LearnedFile \ (entries \cup missed)
      BY <1>1, <1>5, <2>2
    <3>2. j \in Handled
      BY <3>1 DEF Handled
    <3>3. lock = "migrator" /\ work[j] = "learned" /\ j \in DOMAIN work
      BY <3>1, <3>2 DEF HandledInv
    <3> QED
      BY <1>2, <2>2, <3>3 DEF Transaction
  <2> QED
    BY <2>1, <2>2
<1> QED
  BY <1>1, <1>2, <1>3, <1>4, <1>5 DEF HandledInv

\* The transaction holds all that the migrator has gone through.
LEMMA HandledKept == BuilderInv /\ MigInv /\ HandledInv /\ [Next]_vars => HandledInv'
<1> SUFFICES ASSUME BuilderInv, MigInv, HandledInv, [Next]_vars PROVE HandledInv'
  OBVIOUS
<1>1. LockInv
  BY DEF MigInv
<1>2. CASE MigStart \/ Drop \/ Create \/ Complete \/ MigDies
  BY <1>2 DEF MigStart, Drop, Create, Complete, MigDies, HandledInv, Handled
<1>3. CASE FindReference(file["reference"])
  BY <1>3 DEF FindReference, dbVars, HandledInv, Handled
<1>4. CASE FindLearned
  <2>1. /\ mig = "reference" /\ entries = {} /\ mig' = "learned" /\ entries' = LearnedFile
        /\ UNCHANGED <<lock, work, missed, read>>
    BY <1>4 DEF FindLearned, dbVars
  <2>2. Handled' = Handled
    BY <2>1 DEF Handled
  <2> QED
    BY <2>1, <2>2 DEF HandledInv
<1>5. ASSUME NEW k \in RowKeys, InsertLocked(k) PROVE HandledInv'
  <2>1. /\ mig \in {"reference", "learned"} /\ lock = "boot"
        /\ entries' = entries \ {k} /\ missed' = missed \cup {k}
        /\ UNCHANGED <<mig, read, lock, work>>
    BY <1>5 DEF InsertLocked, dbVars
  <2>2. Handled' \subseteq Handled
    BY <2>1 DEF Handled
  <2> QED
    BY <2>1, <2>2 DEF HandledInv
<1>6. CASE ServerStep
  <2>1. UNCHANGED <<mig, entries, missed, read>>
    BY <1>6 DEF ServerStep, BootCreates, BootInserts, BootLoadsNothing, BootCommits, BootCounts,
                BootSeeds, ServerDies, Save, Purge, migVars
  <2>2. lock = "migrator" => UNCHANGED <<lock, work>>
    BY <1>1, <1>6 DEF ServerStep, BootCreates, BootInserts, BootLoadsNothing, BootCommits, BootCounts,
                BootSeeds, ServerDies, Save, Purge, dbVars, LockInv
  <2>3. Handled' = Handled
    BY <2>1 DEF Handled
  <2>4. CASE lock = "migrator"
    BY <2>1, <2>2, <2>3, <2>4 DEF HandledInv
  <2>5. CASE lock # "migrator"
    <3>1. Handled = {}
      BY <2>5 DEF HandledInv
    <3>2. mig = "learned" => LearnedFile \ (entries \cup missed) = {}
      BY <3>1 DEF Handled
    <3> QED
      BY <2>1, <2>3, <3>1, <3>2 DEF HandledInv
  <2> QED
    BY <2>4, <2>5
<1>7. CASE UNCHANGED migrationVars
  BY <1>7 DEF migrationVars, dbVars, migVars, HandledInv, Handled
<1> QED
  BY <1>2, <1>3, <1>4, <1>5, <1>6, <1>7, InsertHandles, StepsOfMigration DEF MigratorStep

\* A step that completes a migration commits all it has gone through.
LEMMA CompletingCommitsAll ==
  ASSUME MigInv, HandledInv, [Next]_vars, outcome' = "complete", outcome # "complete"
  PROVE  /\ (read \cup LearnedFile) \ missed \subseteq DOMAIN rows'
         /\ \A k \in LearnedFile \ missed : rows'[k] = "learned"
<1>1. Complete
  BY StepsOfMigration DEF MigratorStep, ServerStep, MigStart, Drop, Create, FindReference,
     FindLearned, Insert, InsertLocked, MigDies, BootCreates, BootInserts, BootLoadsNothing,
     BootCommits, BootCounts, BootSeeds, ServerDies, Save, Purge, migVars, migrationVars
<1>2. mig = "learned" /\ entries = {} /\ rows' = Transaction
  BY <1>1 DEF Complete
<1>3. Handled = (read \cup LearnedFile) \ missed
  BY <1>2 DEF Handled
<1>4. CASE Handled = {}
  BY <1>3, <1>4
<1>5. CASE Handled # {}
  BY <1>2, <1>3, <1>5 DEF HandledInv, Transaction
<1> QED
  BY <1>4, <1>5

\* A migration that reports that it is complete has committed every row it read,
\* except those it reported as missed; the learned answer wins.
THEOREM CompletionIsTrue == Spec => CompleteMeansAll
<1>1. MigInv /\ HandledInv /\ [Next]_vars
        => [outcome' = "complete" /\ outcome # "complete"
              => /\ (read \cup LearnedFile) \ missed \subseteq DOMAIN rows'
                 /\ \A k \in LearnedFile \ missed : rows'[k] = "learned"]_migrationVars
  BY CompletingCommitsAll
<1> QED
  BY <1>1, MigrationBegins, BuildersBegin, BuildersKeep, MigrationKeeps, HandledKept, PTL
     DEF Spec, CompleteMeansAll
=============================================================================
