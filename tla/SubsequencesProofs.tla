------------------------- MODULE SubsequencesProofs -------------------------
(***************************************************************************)
(* What At does to a sequence of any length.  The induction theorems of    *)
(* the library take an operator, which no prover here instantiates, so     *)
(* induction is stated over a set and derived from the pigeonhole          *)
(* principle for finite sets.                                              *)
(***************************************************************************)
EXTENDS Subsequences, SequenceTheorems, FiniteSetTheorems, TLAPS

\* Induction on the naturals, over a set: if a natural were missing, those up to it that
\* are missing could be counted down into one fewer place.
LEMMA NatInduct ==
  ASSUME NEW S, 0 \in S, \A n \in Nat : n \in S => n + 1 \in S
  PROVE  \A n \in Nat : n \in S
<1>. SUFFICES ASSUME NEW n \in Nat, n \notin S PROVE FALSE
  OBVIOUS
<1>. DEFINE T == {k \in 0..n : k \notin S}
            U == T \ {n}
            f == [k \in T |-> k - 1]
<1>1. IsFiniteSet(T) /\ n \in T
  <2>1. IsFiniteSet(0..n)
    BY FS_Interval, 0 \in Int, n \in Int
  <2>. QED  BY <2>1, FS_Subset, T \subseteq 0..n, SMT
<1>2. IsFiniteSet(U) /\ Cardinality(U) = Cardinality(T) - 1 /\ Cardinality(T) \in Nat
  BY <1>1, FS_RemoveElement, FS_CardinalityType
<1>3. f \in [T -> U]
  BY SMT
<1>4. Cardinality(U) < Cardinality(T)
  BY <1>2
<1>5. PICK x \in T, y \in T : x # y /\ f[x] = f[y]
  <2>. HIDE DEF T, U, f
  <2>. QED  BY <1>1, <1>2, <1>3, <1>4, FS_PigeonHole
<1>. QED  BY <1>5

\* f says what At has kept after each position.
IsKept(f, s, keep) ==
  /\ f[0] = <<>>
  /\ \A n \in 1..Len(s) : f[n] = IF n \in keep THEN Append(f[n - 1], s[n]) ELSE f[n - 1]

\* The recursive function of At exists, and computes what its equation says.
LEMMA KeptDef ==
  ASSUME NEW s, Len(s) \in Nat, NEW keep
  PROVE  \E f : IsKept(f, s, keep) /\ At(s, keep) = f[Len(s)]
<1>. DEFINE e(g, n) == IF n = 0 THEN <<>>
                       ELSE IF n \in keep THEN Append(g[n - 1], s[n]) ELSE g[n - 1]
            E == {m \in Nat : \E g : g = [n \in 0..m |-> e(g, n)]}
<1>1. 0 \in E
  <2>. DEFINE g == [n \in 0..0 |-> <<>>]
  <2>1. g = [n \in 0..0 |-> e(g, n)]
    BY SMT
  <2>. QED  BY <2>1
<1>2. ASSUME NEW m \in Nat, m \in E PROVE m + 1 \in E
  <2>1. PICK g : g = [n \in 0..m |-> e(g, n)]
    BY <1>2
  <2>. DEFINE h == [n \in 0..m + 1 |-> IF n <= m THEN g[n] ELSE e(g, n)]
  <2>2. ASSUME NEW n \in 0..m + 1 PROVE h[n] = e(h, n)
    <3>1. CASE n <= m
      <4>1. n \in 0..m /\ h[n] = g[n] /\ (n # 0 => h[n - 1] = g[n - 1])
        BY <3>1, SMT
      <4>2. g[n] = e(g, n)
        BY <2>1, <4>1
      <4>. QED  BY <4>1, <4>2
    <3>2. CASE n = m + 1
      <4>1. n # 0 /\ ~ (n <= m) /\ n - 1 = m /\ n - 1 \in 0..m + 1 /\ n - 1 <= m
        BY <3>2
      <4>2. h[n - 1] = g[n - 1]
        BY <4>1
      <4>. QED  BY <4>1, <4>2
    <3>. QED  BY <3>1, <3>2
  <2>3. h = [n \in 0..m + 1 |-> e(h, n)]
    <3>. HIDE DEF e
    <3>. QED  BY <2>2
  <2>4. m + 1 \in Nat
    OBVIOUS
  <2>. QED
    <3>. HIDE DEF h, e
    <3>. QED  BY <2>3, <2>4
<1>3. Len(s) \in E
  <2>. HIDE DEF E
  <2>. QED  BY <1>1, <1>2, NatInduct
<1>. DEFINE f == CHOOSE g : g = [n \in 0..Len(s) |-> e(g, n)]
<1>4. At(s, keep) = f[Len(s)]
  BY Zenon DEF At
<1>5. f = [n \in 0..Len(s) |-> e(f, n)]
  <2>1. \E g : g = [n \in 0..Len(s) |-> e(g, n)]
    BY <1>3
  <2>. HIDE DEF e
  <2>. QED  BY <2>1, Zenon
<1>6. IsKept(f, s, keep)
  <2>. HIDE DEF f
  <2>1. f[0] = <<>>
    BY <1>5
  <2>2. ASSUME NEW n \in 1..Len(s)
        PROVE  f[n] = IF n \in keep THEN Append(f[n - 1], s[n]) ELSE f[n - 1]
    <3>1. f[n] = e(f, n)
      <4>1. n \in 0..Len(s)
        OBVIOUS
      <4>. HIDE DEF e
      <4>. QED  BY <1>5, <4>1
    <3>2. n # 0
      OBVIOUS
    <3>. QED  BY <3>1, <3>2, Zenon
  <2>. QED  BY <2>1, <2>2 DEF IsKept
<1>. QED  BY <1>4, <1>6

\* Induction on sequences, by appending.
LEMMA SeqInduct ==
  ASSUME NEW S, NEW T, <<>> \in T,
         \A s \in Seq(S), x \in S : s \in T => Append(s, x) \in T
  PROVE  \A s \in Seq(S) : s \in T
<1>. DEFINE N == {n \in Nat : \A s \in Seq(S) : Len(s) = n => s \in T}
<1>1. 0 \in N
  BY \A s \in Seq(S) : Len(s) = 0 => s = <<>>
<1>2. ASSUME NEW n \in Nat, n \in N PROVE n + 1 \in N
  <2>. SUFFICES ASSUME NEW s \in Seq(S), Len(s) = n + 1 PROVE s \in T
    OBVIOUS
  <2>. DEFINE front == [i \in 1..n |-> s[i]]
  <2>1. front \in Seq(S) /\ Len(front) = n /\ s[n + 1] \in S
    BY \A i \in 1..n + 1 : s[i] \in S
  <2>2. s = Append(front, s[n + 1])
    BY <2>1
  <2>. QED  BY <1>2, <2>1, <2>2
<1>. QED
  <2>1. \A n \in Nat : n \in N
    <3>. HIDE DEF N
    <3>. QED  BY <1>1, <1>2, NatInduct
  <2>. QED  BY <2>1

\* What is known of two sequences in a row.
LEMMA ConcatShape ==
  ASSUME NEW S, NEW s \in Seq(S), NEW t \in Seq(S)
  PROVE  /\ s \o t \in Seq(S) /\ Len(s \o t) = Len(s) + Len(t)
         /\ \A i \in 1..Len(s) : (s \o t)[i] = s[i]
         /\ \A j \in 1..Len(t) : (s \o t)[Len(s) + j] = t[j]
OBVIOUS

\* A sequence over a set is one over a larger set.
LEMMA SeqMonotone ==
  ASSUME NEW S, NEW T, S \subseteq T, NEW s \in Seq(S)
  PROVE  s \in Seq(T)
OBVIOUS

\* Nothing is kept of nothing.
LEMMA AtEmpty ==
  ASSUME NEW keep PROVE At(<<>>, keep) = <<>>
<1>1. PICK f : IsKept(f, <<>>, keep) /\ At(<<>>, keep) = f[Len(<<>>)]
  BY KeptDef, Len(<<>>) \in Nat
<1>. QED  BY <1>1 DEF IsKept

\* What is kept after a position depends on nothing that comes later, and on nothing
\* that is dropped.
LEMMA KeptSame ==
  ASSUME NEW s, NEW t, Len(s) \in Nat, Len(t) \in Nat, NEW keep, NEW kept, NEW f, NEW g,
         IsKept(f, s, keep), IsKept(g, t, kept), Len(s) <= Len(t),
         \A i \in 1..Len(s) : (i \in keep <=> i \in kept) /\ (i \in keep => s[i] = t[i])
  PROVE  f[Len(s)] = g[Len(s)]
<1>. DEFINE E == {m \in Nat : m <= Len(s) => f[m] = g[m]}
<1>1. 0 \in E
  BY DEF IsKept
<1>2. ASSUME NEW m \in Nat, m \in E PROVE m + 1 \in E
  <2>. SUFFICES ASSUME m + 1 <= Len(s) PROVE f[m + 1] = g[m + 1]
    OBVIOUS
  <2>1. m + 1 \in 1..Len(s) /\ m + 1 \in 1..Len(t) /\ f[m] = g[m] /\ m + 1 - 1 = m
    BY <1>2
  <2>2. f[m + 1] = IF m + 1 \in keep THEN Append(f[m], s[m + 1]) ELSE f[m]
    BY <2>1 DEF IsKept
  <2>3. g[m + 1] = IF m + 1 \in kept THEN Append(g[m], t[m + 1]) ELSE g[m]
    BY <2>1 DEF IsKept
  <2>. QED  BY <2>1, <2>2, <2>3
<1>3. \A m \in Nat : m \in E
  <2>. HIDE DEF E
  <2>. QED  BY <1>1, <1>2, NatInduct
<1>. QED  BY <1>3

\* At looks at the kept positions only.
LEMMA AtCong ==
  ASSUME NEW s, NEW t, Len(s) \in Nat, Len(s) = Len(t), NEW keep, NEW kept,
         \A i \in 1..Len(s) : (i \in keep <=> i \in kept) /\ (i \in keep => s[i] = t[i])
  PROVE  At(s, keep) = At(t, kept)
<1>1. PICK f : IsKept(f, s, keep) /\ At(s, keep) = f[Len(s)]
  BY KeptDef
<1>2. PICK g : IsKept(g, t, kept) /\ At(t, kept) = g[Len(t)]
  BY KeptDef
<1>. QED  BY <1>1, <1>2, KeptSame

\* A new last element is kept or not; the rest stays as it was.
LEMMA AtAppend ==
  ASSUME NEW S, NEW s \in Seq(S), NEW x \in S, NEW keep
  PROVE  At(Append(s, x), keep)
           = IF Len(s) + 1 \in keep THEN Append(At(s, keep), x) ELSE At(s, keep)
<1>. DEFINE t == Append(s, x)
<1>1. /\ Len(s) \in Nat /\ Len(t) = Len(s) + 1 /\ t[Len(s) + 1] = x
      /\ \A i \in 1..Len(s) : s[i] = t[i]
  OBVIOUS
<1>. HIDE DEF t
<1>2. PICK f : IsKept(f, s, keep) /\ At(s, keep) = f[Len(s)]
  BY <1>1, KeptDef
<1>3. PICK g : IsKept(g, t, keep) /\ At(t, keep) = g[Len(t)]
  BY <1>1, KeptDef
<1>4. f[Len(s)] = g[Len(s)]
  BY <1>1, <1>2, <1>3, KeptSame
<1>5. Len(s) + 1 \in 1..Len(t) /\ Len(s) + 1 - 1 = Len(s)
  BY <1>1
<1>6. g[Len(t)] = IF Len(s) + 1 \in keep THEN Append(g[Len(s)], x) ELSE g[Len(s)]
  BY <1>1, <1>3, <1>5 DEF IsKept
<1>. QED  BY <1>2, <1>3, <1>4, <1>6 DEF t

\* What is kept is a sequence over the same set.
LEMMA AtType ==
  ASSUME NEW S, NEW s \in Seq(S), NEW keep
  PROVE  At(s, keep) \in Seq(S)
<1>. DEFINE T == {t \in Seq(S) : At(t, keep) \in Seq(S)}
<1>1. <<>> \in T
  <2>1. At(<<>>, keep) = <<>>
    BY AtEmpty
  <2>2. <<>> \in Seq(S)
    OBVIOUS
  <2>. QED  BY <2>1, <2>2, Zenon
<1>2. ASSUME NEW t \in Seq(S), NEW x \in S, t \in T PROVE Append(t, x) \in T
  <2>1. At(Append(t, x), keep) \in {Append(At(t, keep), x), At(t, keep)}
    BY AtAppend
  <2>2. At(t, keep) \in Seq(S) /\ Append(t, x) \in Seq(S)
    BY <1>2
  <2>. QED  BY <2>1, <2>2
<1>. QED
  <2>1. s \in T
    <3>. HIDE DEF T
    <3>. QED  BY <1>1, <1>2, SeqInduct
  <2>. QED  BY <2>1

\* A sequence of which every position is kept is unchanged.
LEMMA AtAll ==
  ASSUME NEW S, NEW s \in Seq(S), NEW keep, \A i \in 1..Len(s) : i \in keep
  PROVE  At(s, keep) = s
<1>. DEFINE T == {t \in Seq(S) : At(t, 1..Len(t)) = t}
<1>1. <<>> \in T
  BY AtEmpty
<1>2. ASSUME NEW t \in Seq(S), NEW x \in S, t \in T PROVE Append(t, x) \in T
  <2>1. /\ At(Append(t, x), 1..Len(t) + 1) = Append(At(t, 1..Len(t) + 1), x)
        /\ At(t, 1..Len(t) + 1) = At(t, 1..Len(t))
        /\ At(t, 1..Len(t)) = t
    <3>1. Len(t) + 1 \in 1..Len(t) + 1
      OBVIOUS
    <3>2. At(t, 1..Len(t) + 1) = At(t, 1..Len(t))
      <4>1. \A i \in 1..Len(t) : i \in 1..Len(t) + 1
        OBVIOUS
      <4>. QED  BY <4>1, AtCong
    <3>. QED  BY <1>2, <3>1, <3>2, AtAppend
  <2>. QED  BY <2>1
<1>3. At(s, 1..Len(s)) = s
  <2>1. s \in T
    <3>. HIDE DEF T
    <3>. QED  BY <1>1, <1>2, SeqInduct
  <2>. QED  BY <2>1
<1>. QED  BY <1>3, AtCong

\* Of a sequence of which no position is kept, nothing is left.
LEMMA AtNone ==
  ASSUME NEW S, NEW s \in Seq(S), NEW keep, \A i \in 1..Len(s) : i \notin keep
  PROVE  At(s, keep) = <<>>
<1>. DEFINE T == {t \in Seq(S) : At(t, {}) = <<>>}
<1>1. <<>> \in T
  BY AtEmpty
<1>2. ASSUME NEW t \in Seq(S), NEW x \in S, t \in T PROVE Append(t, x) \in T
  BY <1>2, AtAppend
<1>3. At(s, {}) = <<>>
  <2>1. s \in T
    <3>. HIDE DEF T
    <3>. QED  BY <1>1, <1>2, SeqInduct
  <2>. QED  BY <2>1
<1>. QED  BY <1>3, AtCong

\* rest is what keep keeps of t, where t follows s.
KeptAfter(rest, s, t, keep) == \A j \in 1..Len(t) : j \in rest <=> Len(s) + j \in keep

\* What is kept of two sequences in a row is what is kept of each.
THEOREM AtJoin ==
  ASSUME NEW S, NEW s \in Seq(S), NEW t \in Seq(S), NEW keep, NEW rest,
         KeptAfter(rest, s, t, keep)
  PROVE  At(s \o t, keep) = At(s, keep) \o At(t, rest)
<1>. DEFINE K(u) == {j \in 1..Len(u) : Len(s) + j \in keep}
            T == {u \in Seq(S) : At(s \o u, keep) = At(s, keep) \o At(u, K(u))}
<1>1. <<>> \in T
  <2>1. s \o <<>> = s /\ At(<<>>, K(<<>>)) = <<>> /\ At(s, keep) \in Seq(S)
    BY AtEmpty, AtType
  <2>. QED  BY <2>1
<1>2. ASSUME NEW u \in Seq(S), NEW x \in S, u \in T PROVE Append(u, x) \in T
  <2>1. s \o Append(u, x) = Append(s \o u, x) /\ s \o u \in Seq(S)
    OBVIOUS
  <2>2. At(s \o Append(u, x), keep) =
          IF Len(s) + Len(u) + 1 \in keep THEN Append(At(s \o u, keep), x) ELSE At(s \o u, keep)
    <3>1. Len(s \o u) = Len(s) + Len(u)
      OBVIOUS
    <3>2. At(Append(s \o u, x), keep) = IF Len(s \o u) + 1 \in keep
                                        THEN Append(At(s \o u, keep), x) ELSE At(s \o u, keep)
      BY <2>1, AtAppend
    <3>. QED  BY <2>1, <3>1, <3>2
  <2>3. At(u, K(Append(u, x))) = At(u, K(u))
    <3>1. \A j \in 1..Len(u) : j \in K(Append(u, x)) <=> j \in K(u)
      OBVIOUS
    <3>. HIDE DEF K
    <3>. QED  BY <3>1, AtCong
  <2>4. Len(u) + 1 \in K(Append(u, x)) <=> Len(s) + Len(u) + 1 \in keep
    OBVIOUS
  <2>5. At(Append(u, x), K(Append(u, x))) =
          IF Len(s) + Len(u) + 1 \in keep THEN Append(At(u, K(u)), x) ELSE At(u, K(u))
    <3>. HIDE DEF K
    <3>. QED  BY <2>3, <2>4, AtAppend
  <2>6. At(u, K(u)) \in Seq(S) /\ At(s, keep) \in Seq(S)
    BY AtType
  <2>7. At(s \o u, keep) = At(s, keep) \o At(u, K(u))
    BY <1>2
  <2>8. At(s, keep) \o Append(At(u, K(u)), x) = Append(At(s, keep) \o At(u, K(u)), x)
    <3>. HIDE DEF K
    <3>. QED  BY <2>6
  <2>. QED
    <3>. HIDE DEF K
    <3>1. At(s \o Append(u, x), keep) = At(s, keep) \o At(Append(u, x), K(Append(u, x)))
      BY <2>2, <2>5, <2>7, <2>8
    <3>. QED  BY <3>1
<1>3. At(s \o t, keep) = At(s, keep) \o At(t, K(t))
  <2>1. t \in T
    <3>. HIDE DEF T
    <3>. QED  BY <1>1, <1>2, SeqInduct
  <2>. QED  BY <2>1
<1>4. At(t, K(t)) = At(t, rest)
  <2>1. \A j \in 1..Len(t) : j \in K(t) <=> j \in rest
    BY DEF KeptAfter
  <2>. HIDE DEF K
  <2>. QED  BY <2>1, AtCong
<1>. HIDE DEF K
<1>. QED  BY <1>3, <1>4

\* pos lists the kept positions, in order: what is at k came from pos[k].
IsEnum(pos, s, keep) ==
  /\ pos \in [1..Len(At(s, keep)) -> 1..Len(s)]
  /\ \A k \in 1..Len(At(s, keep)) : pos[k] \in keep /\ At(s, keep)[k] = s[pos[k]]
  /\ \A k, l \in 1..Len(At(s, keep)) : k < l => pos[k] < pos[l]
  /\ \A i \in 1..Len(s) : i \in keep => \E k \in 1..Len(At(s, keep)) : pos[k] = i

\* There is such a list.
LEMMA AtEnum ==
  ASSUME NEW S, NEW s \in Seq(S), NEW keep
  PROVE  \E pos : IsEnum(pos, s, keep)
<1>. DEFINE T == {t \in Seq(S) : \E pos : IsEnum(pos, t, keep)}
<1>1. <<>> \in T
  <2>1. At(<<>>, keep) = <<>> /\ <<>> \in Seq(S)
    BY AtEmpty
  <2>2. IsEnum([k \in {} |-> 1], <<>>, keep)
    <3>. DEFINE u == <<>>
                q == [k \in {} |-> 1]
    <3>1. Len(At(u, keep)) = 0 /\ Len(u) = 0 /\ 1..0 = {}
      BY <2>1
    <3>2. q \in [1..0 -> 1..0]
      BY <3>1
    <3>3. \A k \in 1..0 : FALSE
      OBVIOUS
    <3>. HIDE DEF u, q
    <3>4. IsEnum(q, u, keep)
      BY <3>1, <3>2, <3>3 DEF IsEnum
    <3>. QED  BY <3>4 DEF u, q
  <2>. QED  BY <2>1, <2>2
<1>2. ASSUME NEW t \in Seq(S), NEW x \in S, t \in T PROVE Append(t, x) \in T
  <2>1. PICK pos : IsEnum(pos, t, keep)
    BY <1>2
  <2>. DEFINE u == Append(t, x)
              n == Len(At(t, keep))
  <2>2. /\ u \in Seq(S) /\ Len(u) = Len(t) + 1 /\ u[Len(t) + 1] = x
        /\ \A i \in 1..Len(t) : u[i] = t[i]
    OBVIOUS
  <2>3. At(t, keep) \in Seq(S) /\ n \in Nat
    BY AtType
  <2>4. CASE Len(t) + 1 \notin keep
    <3>1. At(u, keep) = At(t, keep)
      BY <2>4, AtAppend
    <3>2. IsEnum(pos, u, keep)
      <4>. HIDE DEF u
      <4>1. /\ pos \in [1..n -> 1..Len(t)]
            /\ \A k \in 1..n : pos[k] \in keep /\ At(t, keep)[k] = t[pos[k]]
            /\ \A k, l \in 1..n : k < l => pos[k] < pos[l]
            /\ \A i \in 1..Len(t) : i \in keep => \E k \in 1..n : pos[k] = i
        BY <2>1 DEF IsEnum
      <4>2. Len(At(u, keep)) = n
        BY <3>1
      <4>. HIDE DEF n
      <4>3. pos \in [1..n -> 1..Len(u)]
        BY <2>2, <4>1
      <4>4. \A k \in 1..n : pos[k] \in keep /\ At(u, keep)[k] = u[pos[k]]
        BY <2>2, <3>1, <4>1
      <4>5. \A i \in 1..Len(u) : i \in keep => \E k \in 1..n : pos[k] = i
        BY <2>2, <2>4, <4>1
      <4>. QED  BY <4>1, <4>2, <4>3, <4>4, <4>5 DEF IsEnum
    <3>. QED  BY <2>2, <3>2
  <2>5. CASE Len(t) + 1 \in keep
    <3>. DEFINE q == [k \in 1..n + 1 |-> IF k <= n THEN pos[k] ELSE Len(t) + 1]
    <3>1. At(u, keep) = Append(At(t, keep), x)
      BY <2>5, AtAppend
    <3>2. /\ Len(At(u, keep)) = n + 1 /\ At(u, keep)[n + 1] = x
          /\ \A k \in 1..n : At(u, keep)[k] = At(t, keep)[k]
      <4>. HIDE DEF u
      <4>. QED  BY <2>3, <3>1
    <3>3. IsEnum(q, u, keep)
      <4>. HIDE DEF u
      <4>0. /\ pos \in [1..n -> 1..Len(t)]
            /\ \A k \in 1..n : pos[k] \in keep /\ At(t, keep)[k] = t[pos[k]]
            /\ \A k, l \in 1..n : k < l => pos[k] < pos[l]
            /\ \A i \in 1..Len(t) : i \in keep => \E k \in 1..n : pos[k] = i
        BY <2>1 DEF IsEnum
      <4>. HIDE DEF n
      <4>01. /\ q \in [1..n + 1 -> 1..Len(u)] /\ q[n + 1] = Len(t) + 1
             /\ \A k \in 1..n : q[k] = pos[k] /\ pos[k] \in 1..Len(t)
        BY <2>2, <2>3, <4>0
      <4>. HIDE DEF q
      <4>1. ASSUME NEW k \in 1..n + 1
            PROVE  q[k] \in keep /\ At(u, keep)[k] = u[q[k]]
        <5>1. CASE k = n + 1
          BY <2>2, <2>5, <3>2, <4>01, <5>1
        <5>2. CASE k \in 1..n
          <6>1. /\ pos[k] \in keep /\ At(t, keep)[k] = t[pos[k]]
                /\ q[k] = pos[k] /\ pos[k] \in 1..Len(t)
            BY <4>0, <4>01, <5>2
          <6>2. At(u, keep)[k] = At(t, keep)[k] /\ u[pos[k]] = t[pos[k]]
            BY <2>2, <3>2, <5>2, <6>1
          <6>. QED  BY <6>1, <6>2
        <5>. QED  BY <2>3, <5>1, <5>2
      <4>2. ASSUME NEW k \in 1..n + 1, NEW l \in 1..n + 1, k < l
            PROVE  q[k] < q[l]
        <5>1. k \in 1..n
          BY <2>3, <4>2
        <5>2. CASE l = n + 1
          BY <4>01, <5>1, <5>2
        <5>3. CASE l \in 1..n
          BY <4>0, <4>01, <4>2, <5>1, <5>3
        <5>. QED  BY <2>3, <5>2, <5>3
      <4>3. ASSUME NEW i \in 1..Len(u), i \in keep
            PROVE  \E k \in 1..n + 1 : q[k] = i
        <5>1. CASE i = Len(t) + 1
          BY <2>3, <4>01, <5>1
        <5>2. CASE i \in 1..Len(t)
          <6>1. PICK k \in 1..n : pos[k] = i
            BY <4>0, <4>3, <5>2
          <6>2. k \in 1..n + 1 /\ q[k] = i
            BY <2>3, <4>01, <6>1
          <6>. QED  BY <6>2
        <5>. QED  BY <2>2, <5>1, <5>2
      <4>. QED  BY <3>2, <4>01, <4>1, <4>2, <4>3 DEF IsEnum
    <3>. QED  BY <2>2, <3>3
  <2>. QED  BY <2>4, <2>5
<1>. QED
  <2>1. s \in T
    <3>. HIDE DEF T
    <3>. QED  BY <1>1, <1>2, SeqInduct
  <2>. QED  BY <2>1

\* No position is kept further to the right than it was.
LEMMA EnumAhead ==
  ASSUME NEW S, NEW s \in Seq(S), NEW keep, NEW pos, IsEnum(pos, s, keep)
  PROVE  \A k \in 1..Len(At(s, keep)) : k <= pos[k]
<1>. DEFINE n == Len(At(s, keep))
            E == {m \in Nat : m \in 1..n => m <= pos[m]}
<1>1. /\ n \in Nat /\ pos \in [1..n -> 1..Len(s)]
      /\ \A k, l \in 1..n : k < l => pos[k] < pos[l]
  BY AtType DEF IsEnum
<1>. HIDE DEF n
<1>2. 0 \in E
  OBVIOUS
<1>3. ASSUME NEW m \in Nat, m \in E PROVE m + 1 \in E
  <2>. SUFFICES ASSUME m + 1 \in 1..n PROVE m + 1 <= pos[m + 1]
    OBVIOUS
  <2>1. pos[m + 1] \in 1..Len(s)
    BY <1>1
  <2>2. CASE m = 0
    BY <2>1, <2>2
  <2>3. CASE m # 0
    <3>1. m \in 1..n /\ m < m + 1
      BY <1>1, <2>3
    <3>2. pos[m] \in 1..Len(s) /\ pos[m] < pos[m + 1] /\ m <= pos[m]
      BY <1>1, <1>3, <3>1
    <3>. QED  BY <2>1, <3>2
  <2>. QED  BY <2>2, <2>3
<1>4. \A m \in Nat : m \in E
  <2>. HIDE DEF E
  <2>. QED  BY <1>2, <1>3, NatInduct
<1>5. \A k \in 1..n : k \in Nat
  BY <1>1
<1>. QED  BY <1>4, <1>5 DEF n

\* Nothing that is kept lies between two neighbours, and nothing before the first.
LEMMA EnumNext ==
  ASSUME NEW S, NEW s \in Seq(S), NEW keep, NEW pos, IsEnum(pos, s, keep)
  PROVE  /\ \A k \in 1..Len(At(s, keep)) : \A i \in 1..Len(s) :
              k + 1 <= Len(At(s, keep)) /\ pos[k] < i /\ i < pos[k + 1] => i \notin keep
         /\ \A i \in 1..Len(s) : i \in keep => 1 <= Len(At(s, keep)) /\ pos[1] <= i
<1>. DEFINE n == Len(At(s, keep))
<1>1. /\ n \in Nat /\ pos \in [1..n -> 1..Len(s)]
      /\ \A k, l \in 1..n : k < l => pos[k] < pos[l]
      /\ \A i \in 1..Len(s) : i \in keep => \E k \in 1..n : pos[k] = i
  BY AtType DEF IsEnum
<1>. HIDE DEF n
<1>2. ASSUME NEW k \in 1..n, NEW i \in 1..Len(s),
             k + 1 <= n, pos[k] < i, i < pos[k + 1], i \in keep
      PROVE  FALSE
  <2>1. PICK l \in 1..n : pos[l] = i
    BY <1>1, <1>2
  <2>2. k + 1 \in 1..n
    BY <1>1, <1>2
  <2>3. pos[k] \in 1..Len(s) /\ pos[k + 1] \in 1..Len(s)
    BY <1>1, <2>2
  <2>4. ~ (l < k) /\ l # k
    BY <1>1, <1>2, <2>1, <2>3
  <2>5. ~ (k + 1 < l) /\ l # k + 1
    BY <1>1, <1>2, <2>1, <2>2, <2>3
  <2>. QED  BY <1>1, <2>4, <2>5
<1>3. ASSUME NEW i \in 1..Len(s), i \in keep PROVE 1 <= n /\ pos[1] <= i
  <2>1. PICK l \in 1..n : pos[l] = i
    BY <1>1, <1>3
  <2>2. 1 <= n /\ 1 \in 1..n
    BY <1>1
  <2>3. pos[1] \in 1..Len(s)
    BY <1>1, <2>2
  <2>4. CASE l = 1
    BY <2>1, <2>2, <2>3, <2>4
  <2>5. CASE 1 < l
    BY <1>1, <2>1, <2>2, <2>3, <2>5
  <2>. QED  BY <1>1, <2>4, <2>5
<1>. QED  BY <1>2, <1>3 DEF n

\* The m positions of s that follow i are kept, and i is.
KeptBlock(i, m, s, keep) == \A d \in 0..m : i + d \in 1..Len(s) /\ i + d \in keep

\* They are those that follow o now.
MovedTo(o, i, m, pos, t) ==
  o <= i /\ \A d \in 0..m : o + d \in 1..Len(t) /\ pos[o + d] = i + d

\* A block of kept positions stays a block, and moves to the left if at all.
LEMMA EnumBlock ==
  ASSUME NEW S, NEW s \in Seq(S), NEW keep, NEW pos, IsEnum(pos, s, keep),
         NEW i \in 1..Len(s), NEW m \in Nat,
         KeptBlock(i, m, s, keep)
  PROVE  \E o \in 1..Len(At(s, keep)) : MovedTo(o, i, m, pos, At(s, keep))
<1>. DEFINE n == Len(At(s, keep))
<1>1. /\ n \in Nat /\ pos \in [1..n -> 1..Len(s)]
      /\ \A k, l \in 1..n : k < l => pos[k] < pos[l]
      /\ \A j \in 1..Len(s) : j \in keep => \E k \in 1..n : pos[k] = j
  BY AtType DEF IsEnum
<1>2. \A k \in 1..n : k <= pos[k]
  BY EnumAhead
<1>. HIDE DEF n
<1>3. PICK o \in 1..n : pos[o] = i
  <2>1. 0 \in 0..m /\ i + 0 = i
    OBVIOUS
  <2>2. i \in keep
    BY <2>1 DEF KeptBlock
  <2>. QED  BY <1>1, <2>2
<1>. DEFINE E == {d \in Nat : d <= m => o + d \in 1..n /\ pos[o + d] = i + d}
<1>4. 0 \in E
  BY <1>3
<1>5. ASSUME NEW d \in Nat, d \in E PROVE d + 1 \in E
  <2>. SUFFICES ASSUME d + 1 <= m PROVE o + (d + 1) \in 1..n /\ pos[o + (d + 1)] = i + (d + 1)
    OBVIOUS
  <2>1. o + d \in 1..n /\ pos[o + d] = i + d
    BY <1>5
  <2>2. PICK k \in 1..n : pos[k] = i + (d + 1)
    <3>1. d + 1 \in 0..m
      OBVIOUS
    <3>2. i + (d + 1) \in 1..Len(s) /\ i + (d + 1) \in keep
      BY <3>1 DEF KeptBlock
    <3>. QED  BY <1>1, <3>2
  <2>3. ~ (k < o + d) /\ k # o + d
    BY <1>1, <2>1, <2>2
  <2>4. o + (d + 1) \in 1..n /\ o + (d + 1) <= k
    BY <1>1, <2>1, <2>3
  <2>5. pos[o + (d + 1)] \in 1..Len(s) /\ pos[o + d] < pos[o + (d + 1)]
    BY <1>1, <2>1, <2>4
  <2>6. pos[o + (d + 1)] <= pos[k]
    <3>1. CASE o + (d + 1) = k
      BY <2>5, <3>1
    <3>2. CASE o + (d + 1) < k
      BY <1>1, <2>2, <2>4, <2>5, <3>2
    <3>. QED  BY <1>1, <2>4, <3>1, <3>2
  <2>. QED  BY <1>1, <2>1, <2>2, <2>4, <2>5, <2>6
<1>6. \A d \in Nat : d \in E
  <2>. HIDE DEF E
  <2>. QED  BY <1>4, <1>5, NatInduct
<1>7. \A d \in 0..m : o + d \in 1..n /\ pos[o + d] = i + d
  BY <1>6
<1>8. o <= i
  BY <1>2, <1>3
<1>. QED  BY <1>7, <1>8 DEF n, MovedTo

\* What is kept was there.
LEMMA AtElem ==
  ASSUME NEW S, NEW s \in Seq(S), NEW keep, NEW k \in 1..Len(At(s, keep))
  PROVE  \E i \in 1..Len(s) : i \in keep /\ At(s, keep)[k] = s[i]
<1>1. PICK pos : IsEnum(pos, s, keep)
  BY AtEnum
<1>. QED  BY <1>1 DEF IsEnum

\* What was there and is kept is found.
LEMMA AtFinds ==
  ASSUME NEW S, NEW s \in Seq(S), NEW keep, NEW i \in 1..Len(s), i \in keep
  PROVE  \E k \in 1..Len(At(s, keep)) : At(s, keep)[k] = s[i]
<1>1. PICK pos : IsEnum(pos, s, keep)
  BY AtEnum
<1>2. PICK k \in 1..Len(At(s, keep)) : pos[k] = i
  BY <1>1 DEF IsEnum
<1>. QED  BY <1>1, <1>2 DEF IsEnum

\* Every set of naturals that is not empty has a least element.
LEMMA LeastNat ==
  ASSUME NEW S, S \subseteq Nat, NEW x \in S
  PROVE  \E least \in S : \A y \in S : least <= y
<1>. SUFFICES ASSUME \A least \in S : \E y \in S : ~ (least <= y) PROVE FALSE
  OBVIOUS
<1>. DEFINE E == {n \in Nat : \A y \in S : n <= y}
<1>1. 0 \in E
  OBVIOUS
<1>2. ASSUME NEW n \in Nat, n \in E PROVE n + 1 \in E
  <2>1. \A y \in S : y \in Nat /\ n <= y
    BY <1>2
  <2>2. n \notin S
    BY <2>1
  <2>. QED  BY <2>1, <2>2
<1>3. x + 1 \in E
  <2>1. \A n \in Nat : n \in E
    <3>. HIDE DEF E
    <3>. QED  BY <1>1, <1>2, NatInduct
  <2>2. x + 1 \in Nat
    OBVIOUS
  <2>. QED  BY <2>1, <2>2
<1>. QED
  <2>1. x \in Nat /\ x + 1 <= x
    BY <1>3
  <2>. QED  BY <2>1
=============================================================================
