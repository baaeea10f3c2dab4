-------------------------- MODULE EdgeEngineProofs --------------------------
(***************************************************************************)
(* The decoding loop of main.cpp, for any window, vocabulary, limit and    *)
(* network.                                                                *)
(***************************************************************************)
EXTENDS EdgeEngine, SequenceTheorems, TLAPS

\* The window has Window ids; each is the one at its distance from the end, or padding.
LEMMA WindowShape ==
  ASSUME NEW s \in Seq(Nat)
  PROVE  /\ WindowOf(s) \in Seq(Nat) /\ Len(WindowOf(s)) = Window
         /\ \A n \in 1..Window :
              WindowOf(s)[n] = IF n <= Window - Len(s) THEN Pad ELSE s[n - (Window - Len(s))]
PROOF
  <1>1. Window \in Nat \ {0} /\ Len(s) \in Nat
    BY EngineAssumption
  <1>2. CASE Len(s) >= Window
    <2> DEFINE w == SubSeq(s, Len(s) - Window + 1, Len(s))
    <2>1. WindowOf(s) = w
      BY <1>2 DEF WindowOf
    <2>2. w \in Seq(Nat) /\ Len(w) = Window
      BY <1>1, <1>2
    <2>3. \A n \in 1..Window : w[n] = s[n - (Window - Len(s))] /\ ~ (n <= Window - Len(s))
      BY <1>1, <1>2
    <2> QED
      BY <2>1, <2>2, <2>3
  <1>3. CASE ~ (Len(s) >= Window)
    <2> DEFINE w == [n \in 1..Window |->
                       IF n <= Window - Len(s) THEN Pad ELSE s[n - (Window - Len(s))]]
    <2>1. WindowOf(s) = w
      BY <1>3 DEF WindowOf
    <2>2. w \in [1..Window -> Nat]
      BY <1>1, <1>3 DEF Pad
    <2>3. w \in Seq(Nat) /\ Len(w) = Window
      BY <1>1, <2>2
    <2> QED
      BY <2>1, <2>3
  <1> QED
    BY <1>2, <1>3

\* Appending to the second of two sequences appends to the whole.
LEMMA AppendLast ==
  ASSUME NEW s \in Seq(Nat), NEW t \in Seq(Nat), NEW x \in Nat
  PROVE  /\ s \o Append(t, x) = Append(s \o t, x)
         /\ s \o t \in Seq(Nat)
PROOF
  <1> DEFINE a == s \o Append(t, x)
             b == Append(s \o t, x)
  <1>1. s \o t \in Seq(Nat) /\ Append(t, x) \in Seq(Nat)
    OBVIOUS
  <1>2. a \in Seq(Nat) /\ b \in Seq(Nat)
    BY <1>1
  <1>3. Len(a) = Len(s) + Len(t) + 1 /\ Len(b) = Len(s) + Len(t) + 1
    BY <1>1
  <1>4. \A n \in 1..Len(a) : a[n] = b[n]
    BY <1>1, <1>3
  <1> HIDE DEF a, b
  <1>5. a = b
    BY <1>2, <1>3, <1>4, SeqEqual
  <1> QED
    BY <1>1, <1>5 DEF a, b

\* Only the window of the ids matters to the window after the next token, so the
\* loop may forget the rest (main.cpp:52-57, 86).
LEMMA WindowForgets ==
  ASSUME NEW s \in Seq(Nat), NEW x \in Nat
  PROVE  WindowOf(Append(s, x)) = WindowOf(Append(WindowOf(s), x))
PROOF
  <1> DEFINE w == WindowOf(s)
             a == Append(s, x)
             b == Append(w, x)
  <1>1. Window \in Nat \ {0} /\ Len(s) \in Nat
    BY EngineAssumption
  <1>2. w \in Seq(Nat) /\ Len(w) = Window
    BY WindowShape
  <1>3. \A n \in 1..Window :
          w[n] = IF n <= Window - Len(s) THEN Pad ELSE s[n - (Window - Len(s))]
    BY WindowShape
  <1> HIDE DEF w
  <1>4. a \in Seq(Nat) /\ Len(a) = Len(s) + 1 /\ b \in Seq(Nat) /\ Len(b) = Window + 1
    BY <1>2
  <1>5. /\ \A n \in 1..Len(s) : a[n] = s[n]
        /\ a[Len(s) + 1] = x
        /\ \A n \in 1..Window : b[n] = w[n]
        /\ b[Window + 1] = x
    BY <1>1, <1>2
  <1> HIDE DEF a, b
  <1>6. /\ WindowOf(a) \in Seq(Nat) /\ Len(WindowOf(a)) = Window
        /\ \A n \in 1..Window :
             WindowOf(a)[n] = IF n <= Window - Len(a) THEN Pad ELSE a[n - (Window - Len(a))]
    BY <1>4, WindowShape
  <1>7. /\ WindowOf(b) \in Seq(Nat) /\ Len(WindowOf(b)) = Window
        /\ \A n \in 1..Window :
             WindowOf(b)[n] = IF n <= Window - Len(b) THEN Pad ELSE b[n - (Window - Len(b))]
    BY <1>4, WindowShape
  <1>8. ASSUME NEW n \in 1..Window
        PROVE  WindowOf(a)[n] = WindowOf(b)[n]
    <2>1. WindowOf(b)[n] = b[n + 1]
      BY <1>1, <1>4, <1>7
    <2>2. CASE n = Window
      <3>1. ~ (n <= Window - Len(a)) /\ n - (Window - Len(a)) = Len(s) + 1
        BY <1>1, <1>4, <2>2
      <3>2. WindowOf(a)[n] = a[n - (Window - Len(a))]
        BY <1>6, <3>1
      <3> QED
        BY <1>5, <2>1, <2>2, <3>1, <3>2
    <2>3. CASE n # Window
      <3>1. n + 1 \in 1..Window /\ b[n + 1] = w[n + 1]
        BY <1>1, <1>5, <2>3
      <3> DEFINE m == n + 1
                 k == m - (Window - Len(s))
      <3>2. m \in 1..Window /\ w[m] = IF m <= Window - Len(s) THEN Pad ELSE s[k]
        BY <1>3, <3>1
      <3>3. (n <= Window - Len(a) <=> m <= Window - Len(s)) /\ n - (Window - Len(a)) = k
        BY <1>1, <1>4
      <3>4. WindowOf(a)[n] = IF m <= Window - Len(s) THEN Pad ELSE a[k]
        BY <1>6, <3>3
      <3>5. ~ (m <= Window - Len(s)) => k \in 1..Len(s)
        BY <1>1, <3>1
      <3> HIDE DEF k
      <3>6. ~ (m <= Window - Len(s)) => a[k] = s[k]
        BY <1>5, <3>5
      <3> QED
        BY <2>1, <3>1, <3>2, <3>4, <3>6
    <2> QED
      BY <2>2, <2>3
  <1> QED
    BY <1>6, <1>7, <1>8, SeqEqual DEF a, b, w

\* The window of a window is itself.
LEMMA WindowTwice ==
  ASSUME NEW s \in Seq(Nat)
  PROVE  WindowOf(WindowOf(s)) = WindowOf(s)
PROOF
  <1>1. Window \in Nat \ {0}
    BY EngineAssumption
  <1>2. WindowOf(s) \in Seq(Nat) /\ Len(WindowOf(s)) = Window
    BY WindowShape
  <1> DEFINE w == WindowOf(s)
  <1> HIDE DEF w
  <1>3. w \in Seq(Nat) /\ Len(w) = Window
    BY <1>2 DEF w
  <1>4. SubSeq(w, Len(w) - Window + 1, Len(w)) = w
    BY <1>1, <1>3
  <1>5. WindowOf(w) = w
    BY <1>1, <1>3, <1>4 DEF WindowOf
  <1> QED
    BY <1>5 DEF w

\* The scan yields a token whatever the logits are, NaN included (main.cpp:76-83).
LEMMA ScanYieldsToken == AnyNext \subseteq Tokens
PROOF
  <1>1. ASSUME NEW logits
        PROVE  NextToken(logits) \subseteq Tokens
    BY EngineAssumption DEF NextToken, Largest, Above, Tokens
  <1> QED
    BY <1>1 DEF AnyNext

-----------------------------------------------------------------------------
\* The types hold at the start, and every step keeps them.
LEMMA InitType == Init => TypeOK
PROOF
  BY EngineAssumption DEF Init, TypeOK

\* One step keeps the types.
LEMMA StepType == TypeOK /\ [Next]_vars => TypeOK'
PROOF
  <1> SUFFICES ASSUME TypeOK, [Next]_vars PROVE TypeOK'
    OBVIOUS
  <1>1. CASE Receive
    BY <1>1, EncodingAssumption DEF Receive, TypeOK
  <1>2. CASE Reject
    BY <1>2 DEF Reject, TypeOK
  <1>3. CASE Extend
    <2>1. PICK next \in Tokens : ids' = Append(ids, next) /\ generated' = Append(generated, next)
      BY <1>3, ScanYieldsToken DEF Extend
    <2>2. next \in Tokens /\ next \in Nat
      BY DEF Tokens
    <2>3. ids' \in Seq(Nat)
      BY <2>1, <2>2 DEF TypeOK
    <2>4. generated' \in Seq(Tokens) /\ Len(generated') <= MaxNew
      BY <1>3, <2>1, <2>2, EngineAssumption DEF TypeOK, Extend
    <2> QED
      BY <1>3, <2>3, <2>4 DEF Extend, TypeOK
  <1>4. CASE Stop \/ Limit \/ RunFails
    BY <1>4 DEF Stop, Limit, RunFails, Reply, TypeOK
  <1>5. CASE Respond
    BY <1>5, EngineAssumption DEF Respond, TypeOK
  <1>6. CASE UNCHANGED vars
    BY <1>6 DEF vars, TypeOK
  <1> QED
    BY <1>1, <1>2, <1>3, <1>4, <1>5, <1>6 DEF Next

\* For every engine: the variables have their types and no answer is longer than
\* max_new_tokens (the loop bound of main.cpp:49).
THEOREM EngineTypes == Spec => []TypeOK
PROOF
  BY InitType, StepType, PTL DEF Spec

-----------------------------------------------------------------------------
\* Between its start and its reply, and only then, a request has a prompt; before
\* it, nothing is generated.
Bookkeeping ==
  /\ phase = "running" => prompt \in Prompts
  /\ phase = "idle" => prompt = NoPrompt /\ generated = <<>>

LoopInv == TypeOK /\ Bookkeeping /\ OnlyTailCounts /\ ReportFits

\* The loop invariant holds at the start, and every step keeps it.
LEMMA InitLoop == Init => LoopInv
PROOF
  BY InitType DEF Init, LoopInv, Bookkeeping, OnlyTailCounts, ReportFits

\* One turn of the loop appends the same token to the ids and to the answer.
LEMMA StepLoop == LoopInv /\ [Next]_vars => LoopInv'
PROOF
  <1> SUFFICES ASSUME LoopInv, [Next]_vars PROVE LoopInv'
    OBVIOUS
  <1>0. TypeOK /\ TypeOK'
    BY StepType DEF LoopInv
  <1>1. CASE Receive
    <2>1. PICK p \in Prompts : prompt' = p /\ ids' = Encoding[p] /\ generated' = <<>>
      BY <1>1 DEF Receive, LoopInv, Bookkeeping
    <2>2. Encoding[p] \in Seq(Nat) /\ WindowOf(Encoding[p]) \in Seq(Nat)
      BY EncodingAssumption, WindowShape
    <2>3. Encoding[p] \o <<>> = Encoding[p] /\ WindowOf(Encoding[p]) \o <<>> = WindowOf(Encoding[p])
      BY <2>2
    <2>4. WindowOf(WindowOf(Encoding[p])) = WindowOf(Encoding[p])
      BY <2>2, WindowTwice
    <2>5. OnlyTailCounts'
      BY <2>1, <2>3, <2>4 DEF OnlyTailCounts
    <2>6. ReportFits'
      BY <2>1, <2>3 DEF ReportFits
    <2>7. Bookkeeping'
      BY <1>1, <2>1 DEF Receive, Bookkeeping
    <2> QED
      BY <1>0, <2>5, <2>6, <2>7 DEF LoopInv
  <1>2. CASE Reject
    BY <1>0, <1>2 DEF Reject, LoopInv, Bookkeeping, OnlyTailCounts, ReportFits
  <1>3. CASE Extend
    <2>1. PICK next \in Tokens :
            /\ next \notin {Eos, 0}
            /\ ids' = Append(ids, next) /\ generated' = Append(generated, next)
      BY <1>3, ScanYieldsToken DEF Extend
    <2>2. next \in Nat /\ next \in Tokens
      BY DEF Tokens
    <2>3. prompt \in Prompts /\ prompt' = prompt /\ phase = "running" /\ phase' = "running"
      BY <1>3 DEF Extend, LoopInv, Bookkeeping
    <2> DEFINE start == Encoding[prompt]
               tail  == WindowOf(start)
    <2>4. start \in Seq(Nat) /\ tail \in Seq(Nat)
      BY <2>3, EncodingAssumption, WindowShape
    <2> HIDE DEF start, tail
    <2>5. ids \in Seq(Nat) /\ generated \in Seq(Nat)
      <3>1. generated \in Seq(Tokens) /\ Tokens \subseteq Nat
        BY <1>0 DEF TypeOK, Tokens
      <3>2. Seq(Tokens) \subseteq Seq(Nat)
        BY <3>1, SeqMonotonic
      <3> QED
        BY <1>0, <3>1, <3>2 DEF TypeOK
    <2>6. /\ start \o Append(generated, next) = Append(start \o generated, next)
          /\ tail \o Append(generated, next) = Append(tail \o generated, next)
          /\ tail \o generated \in Seq(Nat)
      BY <2>2, <2>4, <2>5, AppendLast
    <2>7. OnlyTailCounts'
      <3>1. WindowOf(ids) = WindowOf(tail \o generated)
        BY <2>3 DEF LoopInv, OnlyTailCounts, start, tail
      <3>2. WindowOf(Append(ids, next)) = WindowOf(Append(WindowOf(ids), next))
        BY <2>2, <2>5, WindowForgets
      <3>3. WindowOf(Append(tail \o generated, next))
              = WindowOf(Append(WindowOf(tail \o generated), next))
        BY <2>2, <2>6, WindowForgets
      <3>4. WindowOf(ids') = WindowOf(tail \o generated')
        BY <2>1, <2>6, <3>1, <3>2, <3>3
      <3> QED
        BY <2>3, <3>4 DEF OnlyTailCounts, start, tail
    <2>8. ReportFits'
      <3>1. ids = start \o generated
        BY <2>3, EncodingAssumption DEF LoopInv, ReportFits, start
      <3>2. ids' = start \o generated'
        BY <2>1, <2>6, <3>1
      <3>3. \A n \in DOMAIN generated' : generated'[n] \notin {Eos, 0}
        <4>1. \A n \in DOMAIN generated : generated[n] \notin {Eos, 0}
          BY DEF LoopInv, ReportFits
        <4> QED
          BY <2>1, <2>5, <4>1
      <3> QED
        BY <2>3, <3>2, <3>3 DEF ReportFits, start
    <2>9. Bookkeeping'
      BY <2>3 DEF Bookkeeping
    <2> QED
      BY <1>0, <2>7, <2>8, <2>9 DEF LoopInv
  <1>4. CASE Stop \/ Limit \/ RunFails
    BY <1>0, <1>4 DEF Stop, Limit, RunFails, Reply, LoopInv, Bookkeeping, OnlyTailCounts, ReportFits
  <1>5. CASE Respond
    BY <1>0, <1>5 DEF Respond, LoopInv, Bookkeeping, OnlyTailCounts, ReportFits
  <1>6. CASE UNCHANGED vars
    BY <1>0, <1>6 DEF vars, LoopInv, Bookkeeping, OnlyTailCounts, ReportFits
  <1> QED
    BY <1>1, <1>2, <1>3, <1>4, <1>5, <1>6 DEF Next

\* For every engine: the loop invariant of the handler (main.cpp:46-88) holds.
THEOREM LoopInvariant == Spec => []LoopInv
PROOF
  BY InitLoop, StepLoop, PTL DEF Spec

\* For every engine and every prompt: the network never sees more of a prompt than
\* its last Window ids, so nothing before them bears on the answer.
THEOREM AnswersDependOnTail == Spec => []OnlyTailCounts
PROOF
  <1>1. LoopInv => OnlyTailCounts
    BY DEF LoopInv
  <1> QED
    BY <1>1, LoopInvariant, PTL

\* For every engine: the token count reported is the prompt's and the answer's, and
\* no stop token or padding is in an answer.
THEOREM ReportsFit == Spec => []ReportFits
PROOF
  <1>1. LoopInv => ReportFits
    BY DEF LoopInv
  <1> QED
    BY <1>1, LoopInvariant, PTL
=============================================================================
