----------------------------- MODULE EdgeEngine -----------------------------
(***************************************************************************)
(* main.cpp: one worker thread of the C++ engine, answering requests one   *)
(* after the other.  The threads share the session and the tokenizer,      *)
(* which the handler only reads, so each behaves as if it were alone.      *)
(*                                                                         *)
(* The network is external: Session.Run may return any logits, or throw.   *)
(***************************************************************************)
EXTENDS Integers, Sequences

CONSTANTS
  Prompts,    \* the prompts of requests
  NoPrompt,
  Encoding,   \* tokenizer.encode: the ids of a prompt
  VocabSize,  \* the tokens the network tells apart: 0..VocabSize-1
  Eos,        \* 102
  Window,     \* 8: the network's input length
  MaxNew,     \* 20: max_new_tokens
  Levels,     \* the values of logits, NaN perhaps among them
  NaN,
  Floor       \* -1e9

Pad == 0

Tokens == 0..(VocabSize - 1)

ASSUME EngineAssumption ==
  /\ VocabSize \in Nat \ {0}
  /\ Eos \in Nat
  /\ Window \in Nat \ {0}
  /\ MaxNew \in Nat
  /\ Levels \subseteq Int \cup {NaN}
  /\ Floor \in Int
  /\ NaN \notin Int

ASSUME EncodingAssumption ==
  /\ Encoding \in [Prompts -> Seq(Nat)]
  /\ NoPrompt \notin Prompts

VARIABLES
  phase,      \* idle, running, or replying
  prompt,     \* the prompt of the request
  ids,        \* current_ids
  generated,  \* generated_token_ids
  status      \* of the response: none yet, 200, 400 or 500

vars == <<phase, prompt, ids, generated, status>>

-----------------------------------------------------------------------------
\* Faulty variant: the padding is put after the tokens.
PaddedRight(seq) ==
  IF Len(seq) >= Window
  THEN SubSeq(seq, Len(seq) - Window + 1, Len(seq))
  ELSE [n \in 1..Window |-> IF n <= Len(seq) THEN seq[n] ELSE Pad]

\* window_ids: the last Window ids, padded on the left.
WindowOf(seq) ==
  IF Len(seq) >= Window
  THEN SubSeq(seq, Len(seq) - Window + 1, Len(seq))
  ELSE [n \in 1..Window |->
          IF n <= Window - Len(seq) THEN Pad ELSE seq[n - (Window - Len(seq))]]

\* The scan for next_token: the first of the largest logits above the floor; no
\* comparison with NaN holds, and if none is above the floor, it is zero.
Above(logits) == {v \in Tokens : logits[v] # NaN /\ logits[v] > Floor}

\* The tokens none of whose rivals is larger, or as large and earlier.
Largest(logits) ==
  {v \in Above(logits) :
     \A w \in Above(logits) : logits[w] < logits[v] \/ (logits[w] = logits[v] /\ v <= w)}

\* Faulty variant: if no logit is above the floor, there is no token.
NextOrNone(logits) == IF Above(logits) = {} THEN {-1} ELSE Largest(logits)

\* Its one element is next_token.
NextToken(logits) == IF Above(logits) = {} THEN {0} ELSE Largest(logits)

\* What session.Run and the scan may come to.
AnyNext == UNION {NextToken(logits) : logits \in [Tokens -> Levels]}

-----------------------------------------------------------------------------
Init ==
  /\ phase = "idle" /\ prompt = NoPrompt
  /\ ids = <<>> /\ generated = <<>> /\ status = "none"

Receive ==
  /\ phase = "idle"
  /\ \E p \in Prompts : prompt' = p /\ ids' = Encoding[p]
  /\ phase' = "running"
  /\ UNCHANGED <<generated, status>>

\* No JSON or no prompt: 400.  A prompt that is no string: s() throws.
Reject ==
  /\ phase = "idle"
  /\ phase' = "replying" /\ status' \in {"400", "500"}
  /\ UNCHANGED <<prompt, ids, generated>>

Reply(code) == phase' = "replying" /\ status' = code /\ UNCHANGED <<prompt, ids, generated>>

\* A turn of the loop whose token is not a stop token.
Extend ==
  /\ phase = "running" /\ Len(generated) < MaxNew
  /\ \E next \in AnyNext :
       /\ next \notin {Eos, 0}
       /\ ids' = Append(ids, next)
       /\ generated' = Append(generated, next)
  /\ UNCHANGED <<phase, prompt, status>>

\* Faulty variant: the stop token is noticed once it is appended.
StopAppended ==
  /\ phase = "running" /\ Len(generated) < MaxNew
  /\ \E next \in AnyNext :
       /\ next \in {Eos, 0}
       /\ ids' = Append(ids, next)
       /\ generated' = Append(generated, next)
  /\ phase' = "replying" /\ status' = "200"
  /\ UNCHANGED prompt

Stop ==
  /\ phase = "running" /\ Len(generated) < MaxNew
  /\ \E next \in AnyNext : next \in {Eos, 0}
  /\ Reply("200")

\* Faulty variant: at the limit the oldest ids are dropped and the loop goes on.
LimitStartsOver ==
  /\ phase = "running" /\ Len(generated) = MaxNew
  /\ ids' = WindowOf(ids) /\ generated' = <<>>
  /\ UNCHANGED <<phase, prompt, status>>

Limit ==
  /\ phase = "running" /\ Len(generated) = MaxNew
  /\ Reply("200")

\* Session.Run throws, for instance on an id the network does not have.
RunFails ==
  /\ phase = "running" /\ Len(generated) < MaxNew
  /\ Reply("500")

\* The response is sent and the locals of the handler are gone.
Respond ==
  /\ phase = "replying"
  /\ phase' = "idle" /\ prompt' = NoPrompt
  /\ ids' = <<>> /\ generated' = <<>> /\ status' = "none"

Next == Receive \/ Reject \/ Extend \/ Stop \/ Limit \/ RunFails \/ Respond

Spec == Init /\ [][Next]_vars

\* The handler never waits: a worker thread that runs gets on with it.
FairSpec == Spec /\ WF_vars(Extend \/ Stop \/ Limit \/ RunFails \/ Respond)

-----------------------------------------------------------------------------
\* Every variable has its type; an answer has at most max_new_tokens tokens.
TypeOK ==
  /\ phase \in {"idle", "running", "replying"}
  /\ prompt \in Prompts \cup {NoPrompt}
  /\ ids \in Seq(Nat)
  /\ generated \in Seq(Tokens) /\ Len(generated) <= MaxNew
  /\ status \in {"none", "200", "400", "500"}

\* The network is given nothing of a prompt but its last Window ids: at every turn
\* its input is what it would be if those, padding included, had been the prompt.
\* So what a user wrote before them, and unknown words at the start, which have the
\* id of the padding, cannot make a difference to the answer (main.cpp:50-57).
OnlyTailCounts ==
  phase = "running" => WindowOf(ids) = WindowOf(WindowOf(Encoding[prompt]) \o generated)

\* What is reported fits together: tokens_processed counts the prompt and the
\* tokens that are shown, and no stop token is among those (main.cpp:85-99).
ReportFits ==
  /\ prompt # NoPrompt => ids = Encoding[prompt] \o generated
  /\ \A n \in DOMAIN generated : generated[n] \notin {Eos, 0}

\* Every request is answered: the loop ends, whatever the network says.
EveryRequestAnswered == phase = "running" ~> phase = "replying"
=============================================================================
