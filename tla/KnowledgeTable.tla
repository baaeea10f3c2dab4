--------------------------- MODULE KnowledgeTable ---------------------------
(***************************************************************************)
(* The table "knowledge" of gutenberg_kb.db: a sequence of rows in the     *)
(* order of their ids, which is the order a scan visits them in.           *)
(* prompt_key is UNIQUE and ids only grow, so a replaced row is the last.  *)
(***************************************************************************)
EXTENDS Naturals, Sequences

KeysOf(table) == {table[i].key : i \in DOMAIN table}

\* DELETE ... WHERE prompt_key = key.
Delete(table, key) ==
  IF key \in KeysOf(table)
  THEN LET at == CHOOSE i \in DOMAIN table : table[i].key = key
       IN  [i \in 1..(Len(table) - 1) |-> IF i < at THEN table[i] ELSE table[i + 1]]
  ELSE table

InsertOrIgnore(table, row) ==
  IF row.key \in KeysOf(table) THEN table ELSE Append(table, row)

\* Faulty variant: the row that is there is kept.
InsertUnlessThere(table, row) == InsertOrIgnore(table, row)

InsertOrReplace(table, row) == Append(Delete(table, row.key), row)

\* Row i is the one a search for key returns: the row of that key or, when there
\* is none, the first row whose key occurs in it.  like holds the pairs <<k, j>>
\* with k LIKE '%' || j || '%'.
IsHit(table, key, like, i) ==
  \/ table[i].key = key
  \/ /\ key \notin KeysOf(table)
     /\ <<key, table[i].key>> \in like
     /\ \A j \in 1..(i - 1) : <<key, table[j].key>> \notin like
=============================================================================
