----------------------------- MODULE TokenText -----------------------------
(***************************************************************************)
(* Texts as sequences of tokens, and the string operations server.py       *)
(* applies to them.  Blank is a space, and NewLine any other white space.  *)
(* What the other tokens are, the modules that extend this one say.        *)
(***************************************************************************)
EXTENDS Subsequences, FiniteSetsExt, SequencesExt

Blank   == " "
NewLine == "nl"
Spaces  == {Blank, NewLine}

\* p occurs in s at position i.
OccursAt(p, s, i) ==
  /\ i + Len(p) - 1 <= Len(s)
  /\ \A n \in 1..Len(p) : s[i + n - 1] = p[n]

Occurs(p, s) == \E i \in 1..Len(s) : OccursAt(p, s, i)

\* str.strip(): what has only white space before it, or after it, goes.
Strip(s) ==
  At(s, {i \in 1..Len(s) : /\ \E j \in 1..i : s[j] \notin Spaces
                           /\ \E j \in i..Len(s) : s[j] \notin Spaces})

\* The positions outside of white space, and the first one of each run of it.
RunHeads(s) == {i \in 1..Len(s) : ~ (s[i] \in Spaces /\ i > 1 /\ s[i-1] \in Spaces)}

\* re.sub(r'\s+', ' ', s).
CollapseBlanks(s) ==
  At([i \in 1..Len(s) |-> IF s[i] \in Spaces THEN Blank ELSE s[i]], RunHeads(s))

\* len(s.split()): the maximal runs of other tokens.
WordCount(s) ==
  Cardinality({i \in 1..Len(s) : s[i] \notin Spaces /\ (i = 1 \/ s[i-1] \in Spaces)})
=============================================================================
