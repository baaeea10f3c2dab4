----------------------------- MODULE KBContract -----------------------------
(***************************************************************************)
(* What the knowledge base of server.py promises, without files, rows or   *)
(* handlers: keys are learned, flagged keys are not answered from, and     *)
(* only flagged keys are forgotten -- until the record of flags is lost.   *)
(***************************************************************************)
CONSTANTS
  Clients,
  Keys,
  Like,    \* <<k, j>>: an answer stored for j may be given for k
  Nothing

VARIABLES
  known,     \* the keys an answer is stored for
  flagged,   \* the keys on record as wrong
  damaged,   \* whether that record was lost
  answered   \* the key a client is being answered from the knowledge base

vars == <<known, flagged, damaged, answered>>

Init ==
  /\ known = {} /\ flagged = {} /\ damaged = FALSE
  /\ answered = [c \in Clients |-> Nothing]

\* A boot or a client stores answers.
Store ==
  /\ known \subseteq known' /\ known' \subseteq Keys
  /\ UNCHANGED <<flagged, damaged, answered>>

Flag ==
  /\ ~ damaged
  /\ \E k \in Keys : flagged' = flagged \cup {k}
  /\ UNCHANGED <<known, damaged, answered>>

Forget ==
  /\ \E k \in known : (k \in flagged \/ damaged) /\ known' = known \ {k}
  /\ UNCHANGED <<flagged, damaged, answered>>

\* c is answered for k from what is known of j.
Answer(c) ==
  /\ answered[c] = Nothing
  /\ \E k \in Keys \ flagged, j \in known :
       /\ j = k \/ <<k, j>> \in Like
       /\ answered' = [answered EXCEPT ![c] = k]
  /\ UNCHANGED <<known, flagged, damaged>>

Done(c) ==
  /\ answered' = [answered EXCEPT ![c] = Nothing]
  /\ UNCHANGED <<known, flagged, damaged>>

\* The record of flags is lost, for good.
Lose ==
  /\ flagged' = {} /\ damaged' = TRUE
  /\ UNCHANGED <<known, answered>>

\* A restart breaks every connection off; it may lose the record.
Restart ==
  /\ answered' = [c \in Clients |-> Nothing]
  /\ \/ UNCHANGED <<flagged, damaged>>
     \/ flagged' = {} /\ damaged' = TRUE
  /\ UNCHANGED known

Next ==
  \/ Store \/ Flag \/ Forget \/ Lose \/ Restart
  \/ \E c \in Clients : Answer(c) \/ Done(c)

Spec == Init /\ [][Next]_vars
=============================================================================
