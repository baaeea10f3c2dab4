------------------------ MODULE KnowledgeTableProofs ------------------------
(***************************************************************************)
(* What the operations on the table return, for tables of any length.      *)
(***************************************************************************)
EXTENDS KnowledgeTable, TLAPS

\* Deleting a key from a table with a row of it leaves the other rows, in order.
LEMMA DeleteShape ==
  ASSUME NEW R, NEW t \in Seq(R), NEW k, k \in KeysOf(t)
  PROVE  \E at \in 1..Len(t) :
           /\ t[at].key = k
           /\ Len(t) \in Nat \ {0}
           /\ Delete(t, k) = [i \in 1..(Len(t) - 1) |-> IF i < at THEN t[i] ELSE t[i + 1]]
PROOF
  <1> DEFINE at == CHOOSE i \in DOMAIN t : t[i].key = k
  <1>1. at \in DOMAIN t /\ t[at].key = k
    BY DEF KeysOf
  <1>2. DOMAIN t = 1..Len(t) /\ Len(t) \in Nat
    OBVIOUS
  <1>3. Delete(t, k) = [i \in 1..(Len(t) - 1) |-> IF i < at THEN t[i] ELSE t[i + 1]]
    BY DEF Delete
  <1> QED
    BY <1>1, <1>2, <1>3

\* DELETE leaves a table, none of whose rows is new (it keeps init_db's and the
\* handlers' rows as they are).
LEMMA DeleteRows ==
  ASSUME NEW R, NEW t \in Seq(R), NEW k
  PROVE  /\ Delete(t, k) \in Seq(R)
         /\ \A i \in DOMAIN Delete(t, k) : \E j \in DOMAIN t : Delete(t, k)[i] = t[j]
PROOF
  <1>1. CASE k \notin KeysOf(t)
    BY <1>1 DEF Delete
  <1>2. CASE k \in KeysOf(t)
    <2>1. PICK at \in 1..Len(t) :
            /\ t[at].key = k
            /\ Len(t) \in Nat \ {0}
            /\ Delete(t, k) = [i \in 1..(Len(t) - 1) |-> IF i < at THEN t[i] ELSE t[i + 1]]
      BY <1>2, DeleteShape
    <2>2. \A i \in 1..(Len(t) - 1) : i \in 1..Len(t) /\ i + 1 \in 1..Len(t)
      BY <2>1
    <2>3. \A i \in 1..(Len(t) - 1) : Delete(t, k)[i] \in R
      BY <2>1, <2>2
    <2>4. Delete(t, k) \in [1..(Len(t) - 1) -> R] /\ Len(t) - 1 \in Nat
      BY <2>1, <2>3
    <2>5. Delete(t, k) \in Seq(R)
      BY <2>4
    <2>6. ASSUME NEW i \in DOMAIN Delete(t, k)
          PROVE  \E j \in DOMAIN t : Delete(t, k)[i] = t[j]
      <3>1. i \in 1..(Len(t) - 1) /\ i \in DOMAIN t /\ i + 1 \in DOMAIN t
        BY <2>1, <2>2
      <3>2. Delete(t, k)[i] = IF i < at THEN t[i] ELSE t[i + 1]
        BY <2>1, <3>1
      <3> QED
        BY <3>1, <3>2
    <2> QED
      BY <2>5, <2>6
  <1> QED
    BY <1>1, <1>2

\* DELETE takes away no key but the given one, and adds none.
LEMMA DeleteKeys ==
  ASSUME NEW R, NEW t \in Seq(R), NEW k
  PROVE  /\ KeysOf(t) \ {k} \subseteq KeysOf(Delete(t, k))
         /\ KeysOf(Delete(t, k)) \subseteq KeysOf(t)
PROOF
  <1>1. KeysOf(Delete(t, k)) \subseteq KeysOf(t)
    BY DeleteRows DEF KeysOf
  <1>2. ASSUME k \in KeysOf(t), NEW j \in DOMAIN t, t[j].key # k
        PROVE  t[j].key \in KeysOf(Delete(t, k))
    <2>1. PICK at \in 1..Len(t) :
            /\ t[at].key = k
            /\ Len(t) \in Nat \ {0}
            /\ Delete(t, k) = [i \in 1..(Len(t) - 1) |-> IF i < at THEN t[i] ELSE t[i + 1]]
      BY <1>2, DeleteShape
    <2>2. j \in 1..Len(t) /\ j # at
      BY <1>2, <2>1
    <2> DEFINE i == IF j < at THEN j ELSE j - 1
    <2>3. i \in 1..(Len(t) - 1) /\ (i < at <=> j < at)
      BY <2>1, <2>2
    <2>4. Delete(t, k)[i] = t[j]
      BY <2>1, <2>2, <2>3
    <2>5. i \in DOMAIN Delete(t, k)
      BY <2>1, <2>3
    <2> QED
      BY <2>4, <2>5 DEF KeysOf
  <1>3. KeysOf(t) \ {k} \subseteq KeysOf(Delete(t, k))
    <2>1. CASE k \in KeysOf(t)
      BY <1>2, <2>1 DEF KeysOf
    <2>2. CASE k \notin KeysOf(t)
      BY <2>2 DEF Delete
    <2> QED
      BY <2>1, <2>2
  <1> QED
    BY <1>1, <1>3

\* Appending a row adds it, and its key, to what the table holds.
LEMMA AppendRow ==
  ASSUME NEW R, NEW t \in Seq(R), NEW row \in R
  PROVE  /\ Append(t, row) \in Seq(R)
         /\ KeysOf(Append(t, row)) = KeysOf(t) \cup {row.key}
         /\ \A i \in DOMAIN Append(t, row) :
              Append(t, row)[i] = row \/ \E j \in DOMAIN t : Append(t, row)[i] = t[j]
PROOF
  <1>1. /\ Append(t, row) \in Seq(R)
        /\ DOMAIN t = 1..Len(t) /\ Len(t) \in Nat
        /\ DOMAIN Append(t, row) = 1..(Len(t) + 1)
    OBVIOUS
  <1>2. \A i \in 1..Len(t) : Append(t, row)[i] = t[i]
    BY <1>1
  <1>3. Append(t, row)[Len(t) + 1] = row
    BY <1>1
  <1>4. \A i \in 1..(Len(t) + 1) : i \in 1..Len(t) \/ i = Len(t) + 1
    BY <1>1
  <1>5. 1..Len(t) \subseteq 1..(Len(t) + 1) /\ Len(t) + 1 \in 1..(Len(t) + 1)
    BY <1>1
  <1>6. KeysOf(Append(t, row)) = KeysOf(t) \cup {row.key}
    BY <1>1, <1>2, <1>3, <1>4, <1>5 DEF KeysOf
  <1> QED
    BY <1>1, <1>2, <1>3, <1>4, <1>6

\* INSERT OR REPLACE forgets no key: the table has those it had and the row's, and
\* no row but the old ones and the new one.
THEOREM ReplaceKeepsKeys ==
  ASSUME NEW R, NEW t \in Seq(R), NEW row \in R
  PROVE  /\ InsertOrReplace(t, row) \in Seq(R)
         /\ KeysOf(InsertOrReplace(t, row)) = KeysOf(t) \cup {row.key}
         /\ \A i \in DOMAIN InsertOrReplace(t, row) :
              \/ InsertOrReplace(t, row)[i] = row
              \/ \E j \in DOMAIN t : InsertOrReplace(t, row)[i] = t[j]
PROOF
  <1> DEFINE rest == Delete(t, row.key)
  <1>1. rest \in Seq(R) /\ \A i \in DOMAIN rest : \E j \in DOMAIN t : rest[i] = t[j]
    BY DeleteRows
  <1>2. KeysOf(t) \ {row.key} \subseteq KeysOf(rest) /\ KeysOf(rest) \subseteq KeysOf(t)
    BY DeleteKeys
  <1>3. InsertOrReplace(t, row) = Append(rest, row)
    BY DEF InsertOrReplace
  <1> HIDE DEF rest
  <1>4. /\ Append(rest, row) \in Seq(R)
        /\ KeysOf(Append(rest, row)) = KeysOf(rest) \cup {row.key}
        /\ \A i \in DOMAIN Append(rest, row) :
             Append(rest, row)[i] = row \/ \E j \in DOMAIN rest : Append(rest, row)[i] = rest[j]
    BY <1>1, AppendRow
  <1> QED
    BY <1>1, <1>2, <1>3, <1>4

\* INSERT OR IGNORE forgets no key either.
LEMMA IgnoreKeepsKeys ==
  ASSUME NEW R, NEW t \in Seq(R), NEW row \in R
  PROVE  /\ InsertOrIgnore(t, row) \in Seq(R)
         /\ KeysOf(InsertOrIgnore(t, row)) = KeysOf(t) \cup {row.key}
         /\ \A i \in DOMAIN InsertOrIgnore(t, row) :
              \/ InsertOrIgnore(t, row)[i] = row
              \/ \E j \in DOMAIN t : InsertOrIgnore(t, row)[i] = t[j]
PROOF
  <1>1. CASE row.key \in KeysOf(t)
    BY <1>1 DEF InsertOrIgnore
  <1>2. CASE row.key \notin KeysOf(t)
    BY <1>2, AppendRow DEF InsertOrIgnore
  <1> QED
    BY <1>1, <1>2
=============================================================================
