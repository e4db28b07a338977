----------------------------- MODULE SearchProofs -----------------------------
(***************************************************************************)
(* Proofs about a search that asks a model, and about its pages. For any    *)
(* evidence, budgets, corpus, stream and citations, the numbers of an answer*)
(* name the sources the model was shown, the budgets hold and are used, an  *)
(* error ends the stream, and what is cited exists. For any corpus, settings*)
(* and words of the model, and however the searches overlap, each section of*)
(* the evidence is there once and in the order of the queries, the verdict  *)
(* is about what is returned, demoting loses nothing, and the calls of the  *)
(* model are counted. For any ranking, reader and edits, the pages show what*)
(* the filter selects, each once and none skipped.                          *)
(***************************************************************************)
EXTENDS Answering, Retrieval, SearchPaging, WellFoundedInduction, TLAPS

AnswerSpec == AnswerInit /\ [][AnswerNext]_answerVars

-----------------------------------------------------------------------------
(* Sequences that are computed one element after the other. *)

\* What holds of zero and of the next of each number holds of all of them.
LEMMA NatSetInduction ==
    ASSUME NEW S, 0 \in S, \A n \in Nat : n \in S => n + 1 \in S
    PROVE  Nat \subseteq S
<1>1. SUFFICES ASSUME Nat \ S # {}
               PROVE  FALSE
  OBVIOUS
<1>2. IsWellFoundedOn(OpToRel(<, Nat), Nat)
  BY NatLessThanWellFounded
<1>3. \E x \in Nat \ S : \A y \in Nat \ S : ~(<<y, x>> \in OpToRel(<, Nat))
  BY <1>1, <1>2, WFMin
<1>4. \A x, y \in Nat : y < x => <<y, x>> \in OpToRel(<, Nat)
  BY Zenon DEF OpToRel
<1>5. PICK x \in Nat \ S : \A y \in Nat \ S : ~(y < x)
  BY Zenon, <1>3, <1>4
<1>6. x # 0 /\ x - 1 \in Nat /\ x - 1 < x /\ (x - 1) + 1 = x
  BY <1>1, <1>5
<1> QED
  BY <1>5, <1>6

\* What is appended comes last.
LEMMA Appended ==
    ASSUME NEW T, NEW s \in Seq(T), NEW x \in T
    PROVE  /\ Append(s, x) \in Seq(T) /\ Len(Append(s, x)) = Len(s) + 1 /\ Append(s, x)[Len(s) + 1] = x
           /\ \A i \in 1 .. Len(s) : Append(s, x)[i] = s[i]
  OBVIOUS

\* One after the other, what each of a list of sequences adds to those before.
FlatteningOf(ss, n, f) == f = [i \in 1 .. n |-> IF i = 1 THEN ss[1] ELSE f[i - 1] \o ss[i]]

\* There is such a list of sums, and its members are sequences.
LEMMA FlatteningExists ==
    ASSUME NEW T, NEW ss, Len(ss) \in Nat, \A i \in 1 .. Len(ss) : ss[i] \in Seq(T)
    PROVE  \E f \in [1 .. Len(ss) -> Seq(T)] : FlatteningOf(ss, Len(ss), f)
<1> DEFINE S == {n \in Nat : n <= Len(ss) => \E f \in [1 .. n -> Seq(T)] : FlatteningOf(ss, n, f)}
<1>1. 0 \in S
  <2>1. 1 .. 0 = {}
    OBVIOUS
  <2>2. [i \in {} |-> <<>>] \in [{} -> Seq(T)]
    OBVIOUS
  <2>3. FlatteningOf(ss, 0, [i \in {} |-> <<>>])
    BY <2>1 DEF FlatteningOf
  <2> QED
    BY <2>1, <2>2, <2>3
<1>2. ASSUME NEW n \in Nat, n \in S
      PROVE  n + 1 \in S
  <2> SUFFICES ASSUME n + 1 <= Len(ss)
               PROVE  \E f \in [1 .. n + 1 -> Seq(T)] : FlatteningOf(ss, n + 1, f)
    OBVIOUS
  <2>1. PICK g \in [1 .. n -> Seq(T)] : FlatteningOf(ss, n, g)
    BY <1>2
  <2> DEFINE h == [i \in 1 .. n + 1 |-> IF i = n + 1 THEN (IF n = 0 THEN ss[1] ELSE g[n] \o ss[n + 1]) ELSE g[i]]
  <2>2. n # 0 => g[n] \in Seq(T)
    OBVIOUS
  <2>3. ss[1] \in Seq(T) /\ ss[n + 1] \in Seq(T)
    OBVIOUS
  <2>4. n # 0 => g[n] \o ss[n + 1] \in Seq(T)
    BY <2>2, <2>3
  <2>5. h \in [1 .. n + 1 -> Seq(T)]
    BY <2>3, <2>4
  <2>6. \A i \in 1 .. n + 1 : h[i] = IF i = 1 THEN ss[1] ELSE h[i - 1] \o ss[i]
    <3> SUFFICES ASSUME NEW i \in 1 .. n + 1
                 PROVE  h[i] = IF i = 1 THEN ss[1] ELSE h[i - 1] \o ss[i]
      OBVIOUS
    <3>1. CASE i = n + 1
      BY <3>1
    <3>2. CASE i # n + 1
      <4>1. i \in 1 .. n /\ h[i] = g[i] /\ (i # 1 => i - 1 \in 1 .. n /\ h[i - 1] = g[i - 1])
        BY <3>2
      <4>2. g[i] = IF i = 1 THEN ss[1] ELSE g[i - 1] \o ss[i]
        BY <2>1, <4>1 DEF FlatteningOf
      <4> QED
        BY <4>1, <4>2
    <3> QED
      BY <3>1, <3>2
  <2>7. FlatteningOf(ss, n + 1, h)
    BY <2>5, <2>6 DEF FlatteningOf
  <2> QED
    BY <2>5, <2>7
<1> HIDE DEF S
<1>3. Len(ss) \in S
  BY <1>1, <1>2, NatSetInduction
<1> QED
  BY <1>3 DEF S

\* Each element of a list of sequences, one sequence after the other.
FlatAt(ss, n, flat, p) ==
    /\ p \in [1 .. Len(flat) -> 1 .. n]
    /\ \A m \in 1 .. Len(flat) : \E k \in 1 .. Len(ss[p[m]]) : flat[m] = ss[p[m]][k]
    /\ \A m, k \in 1 .. Len(flat) : m < k => p[m] <= p[k]
    /\ \A i \in 1 .. n : \A k \in 1 .. Len(ss[i]) : \E m \in 1 .. Len(flat) : p[m] = i /\ flat[m] = ss[i][k]

Flat(T, ss, n, flat) == flat \in Seq(T) /\ \E p : FlatAt(ss, n, flat, p)

\* A concatenation has the one, then the other.
LEMMA Concatenated ==
    ASSUME NEW T, NEW s \in Seq(T), NEW t \in Seq(T)
    PROVE  /\ s \o t \in Seq(T) /\ Len(s \o t) = Len(s) + Len(t)
           /\ \A i \in 1 .. Len(s) : (s \o t)[i] = s[i]
           /\ \A i \in 1 .. Len(t) : (s \o t)[Len(s) + i] = t[i]
  OBVIOUS

\* The next sequence comes after those before it.
LEMMA FlattensOn ==
    ASSUME NEW T, NEW ss, NEW n \in Nat, ss[n + 1] \in Seq(T), NEW flat, Flat(T, ss, n, flat)
    PROVE  Flat(T, ss, n + 1, flat \o ss[n + 1])
<1> DEFINE t == ss[n + 1]
           next == flat \o t
           N == Len(flat)
           M == Len(t)
<1>1. PICK p : FlatAt(ss, n, flat, p)
  BY DEF Flat
<1>2. flat \in Seq(T) /\ N \in Nat /\ M \in Nat
  BY DEF Flat
<1>3. 1 .. n + 1 = 1 .. n \union {n + 1} /\ \A j \in 1 .. n : j < n + 1
  OBVIOUS
<1>4. /\ next \in Seq(T) /\ Len(next) = N + M /\ \A i \in 1 .. N : next[i] = flat[i]
      /\ \A i \in 1 .. M : next[N + i] = t[i]
  BY <1>2, Concatenated
<1> HIDE DEF next
<1>5. \A m \in 1 .. N + M : m \in 1 .. N \/ (m \notin 1 .. N /\ m - N \in 1 .. M /\ N + (m - N) = m)
  BY <1>2
<1>6. \A m \in 1 .. N : m \in 1 .. N + M
  BY <1>2
<1>7. \A k \in 1 .. M : N + k \in 1 .. N + M /\ N + k \notin 1 .. N
  BY <1>2
<1> DEFINE q == [m \in 1 .. N + M |-> IF m \in 1 .. N THEN p[m] ELSE n + 1]
<1>8. \A m \in 1 .. N : p[m] \in 1 .. n /\ q[m] = p[m]
  BY <1>1, <1>6 DEF FlatAt
<1>9. \A m \in 1 .. N + M : m \notin 1 .. N => q[m] = n + 1
  OBVIOUS
<1>10. q \in [1 .. N + M -> 1 .. n + 1]
  BY <1>1, <1>3, <1>5, <1>8
<1> HIDE DEF q
<1>11. \A m \in 1 .. N + M : \E k \in 1 .. Len(ss[q[m]]) : next[m] = ss[q[m]][k]
  <2> SUFFICES ASSUME NEW m \in 1 .. N + M
               PROVE  \E k \in 1 .. Len(ss[q[m]]) : next[m] = ss[q[m]][k]
    OBVIOUS
  <2>1. CASE m \in 1 .. N
    <3>1. \E k \in 1 .. Len(ss[p[m]]) : flat[m] = ss[p[m]][k]
      BY <1>1, <2>1 DEF FlatAt
    <3> QED
      BY <1>4, <1>8, <2>1, <3>1
  <2>2. CASE m \notin 1 .. N
    <3>1. q[m] = n + 1 /\ m - N \in 1 .. M /\ N + (m - N) = m
      BY <1>5, <1>9, <2>2
    <3>2. next[N + (m - N)] = t[m - N]
      BY <1>4, <3>1
    <3> QED
      BY <3>1, <3>2
  <2> QED
    BY <2>1, <2>2
<1>12. \A m, k \in 1 .. N + M : m < k => q[m] <= q[k]
  <2> SUFFICES ASSUME NEW m \in 1 .. N + M, NEW k \in 1 .. N + M, m < k
               PROVE  q[m] <= q[k]
    OBVIOUS
  <2>1. CASE k \in 1 .. N
    <3>1. m \in 1 .. N
      BY <1>2, <2>1
    <3>2. p[m] <= p[k]
      BY <1>1, <2>1, <3>1 DEF FlatAt
    <3> QED
      BY <1>8, <2>1, <3>1, <3>2
  <2>2. CASE k \notin 1 .. N
    <3>1. q[k] = n + 1 /\ q[m] \in 1 .. n + 1
      BY <1>9, <1>10, <2>2
    <3> QED
      BY <3>1
  <2> QED
    BY <2>1, <2>2
<1>13. \A i \in 1 .. n + 1 : \A k \in 1 .. Len(ss[i]) : \E m \in 1 .. N + M : q[m] = i /\ next[m] = ss[i][k]
  <2> SUFFICES ASSUME NEW i \in 1 .. n + 1, NEW k \in 1 .. Len(ss[i])
               PROVE  \E m \in 1 .. N + M : q[m] = i /\ next[m] = ss[i][k]
    OBVIOUS
  <2>1. CASE i \in 1 .. n
    <3>1. PICK m \in 1 .. N : p[m] = i /\ flat[m] = ss[i][k]
      BY <1>1, <2>1 DEF FlatAt
    <3> QED
      BY <1>4, <1>6, <1>8, <3>1
  <2>2. CASE i = n + 1
    <3>1. k \in 1 .. M
      BY <2>2
    <3>2. next[N + k] = t[k] /\ q[N + k] = n + 1 /\ N + k \in 1 .. N + M
      BY <1>4, <1>7, <1>9, <3>1
    <3> QED
      BY <2>2, <3>2
  <2> QED
    BY <1>3, <2>1, <2>2
<1>14. FlatAt(ss, n + 1, next, q)
  <2> DEFINE L == N + M
  <2>1. Len(next) = L
    BY <1>4
  <2>2. /\ q \in [1 .. L -> 1 .. n + 1]
        /\ \A m \in 1 .. L : \E k \in 1 .. Len(ss[q[m]]) : next[m] = ss[q[m]][k]
        /\ \A m, k \in 1 .. L : m < k => q[m] <= q[k]
        /\ \A i \in 1 .. n + 1 : \A k \in 1 .. Len(ss[i]) : \E m \in 1 .. L : q[m] = i /\ next[m] = ss[i][k]
    BY <1>10, <1>11, <1>12, <1>13
  <2> HIDE DEF L, N, M, t
  <2> QED
    BY <2>1, <2>2 DEF FlatAt
<1> QED
  BY <1>4, <1>14 DEF Flat, next

\* What a list of sequences is flattened to has their elements, one sequence
\* after the other.
LEMMA Flattened ==
    ASSUME NEW T, NEW ss, Len(ss) \in Nat, \A i \in 1 .. Len(ss) : ss[i] \in Seq(T), ss = <<>> <=> Len(ss) = 0
    PROVE  Flat(T, ss, Len(ss), FlattenSeq(ss))
<1>0. Flat(T, ss, 0, <<>>)
  <2>1. Len(<<>>) = 0 /\ 1 .. 0 = {}
    OBVIOUS
  <2>2. FlatAt(ss, 0, <<>>, [m \in {} |-> 0])
    BY <2>1 DEF FlatAt
  <2> QED
    BY <2>2 DEF Flat
<1>1. CASE Len(ss) = 0
  BY <1>0, <1>1 DEF FlattenSeq
<1>2. CASE Len(ss) # 0
  <2> DEFINE F == CHOOSE f : f = [i \in 1 .. Len(ss) |-> IF i = 1 THEN ss[i] ELSE f[i - 1] \o ss[i]]
  <2>1. PICK g \in [1 .. Len(ss) -> Seq(T)] : FlatteningOf(ss, Len(ss), g)
    BY FlatteningExists
  <2>2. g = [i \in 1 .. Len(ss) |-> IF i = 1 THEN ss[i] ELSE g[i - 1] \o ss[i]]
    BY <2>1 DEF FlatteningOf
  <2>3. F = [i \in 1 .. Len(ss) |-> IF i = 1 THEN ss[i] ELSE F[i - 1] \o ss[i]]
    BY <2>2
  <2>4. FlattenSeq(ss) = F[Len(ss)]
    BY <1>2 DEF FlattenSeq
  <2> HIDE DEF F
  <2> DEFINE S == {n \in Nat : n \in 1 .. Len(ss) => Flat(T, ss, n, F[n])}
  <2>5. 0 \in S
    OBVIOUS
  <2>6. ASSUME NEW n \in Nat, n \in S
        PROVE  n + 1 \in S
    <3> SUFFICES ASSUME n + 1 \in 1 .. Len(ss)
                 PROVE  Flat(T, ss, n + 1, F[n + 1])
      OBVIOUS
    <3>1. F[n + 1] = IF n = 0 THEN ss[n + 1] ELSE F[n] \o ss[n + 1]
      <4>1. F[n + 1] = IF n + 1 = 1 THEN ss[n + 1] ELSE F[(n + 1) - 1] \o ss[n + 1]
        BY <2>3
      <4>2. (n + 1 = 1 <=> n = 0) /\ (n + 1) - 1 = n
        OBVIOUS
      <4> QED
        BY <4>1, <4>2
    <3>2. ss[n + 1] \in Seq(T)
      OBVIOUS
    <3>3. CASE n = 0
      <4>1. Flat(T, ss, n + 1, <<>> \o ss[n + 1])
        BY <1>0, <3>2, <3>3, FlattensOn
      <4>2. <<>> \o ss[n + 1] = ss[n + 1]
        BY <3>2
      <4> QED
        BY <3>1, <3>3, <4>1, <4>2
    <3>4. CASE n # 0
      <4>1. Flat(T, ss, n, F[n])
        BY <2>6, <3>4
      <4> QED
        BY <3>1, <3>2, <3>4, <4>1, FlattensOn
    <3> QED
      BY <3>3, <3>4
  <2> HIDE DEF S
  <2>7. Len(ss) \in S
    BY <2>5, <2>6, NatSetInduction
  <2> QED
    BY <1>2, <2>4, <2>7 DEF S
<1> QED
  BY <1>1, <1>2

\* Some numbers have a least one.
LEMMA LeastNumber ==
    ASSUME NEW S, S \intersect Nat # {}
    PROVE  \E x \in S \intersect Nat : \A y \in S \intersect Nat : ~(y < x)
<1>1. IsWellFoundedOn(OpToRel(<, Nat), Nat)
  BY NatLessThanWellFounded
<1>2. \E x \in S \intersect Nat : \A y \in S \intersect Nat : ~(<<y, x>> \in OpToRel(<, Nat))
  BY <1>1, WFMin
<1>3. \A x, y \in Nat : y < x => <<y, x>> \in OpToRel(<, Nat)
  BY Zenon DEF OpToRel
<1> QED
  BY Zenon, <1>2, <1>3

-----------------------------------------------------------------------------
(* What there is of a set in a sequence. *)

TakenNext(s, S, taken, i) == IF s[i] \in S THEN Append(taken, s[i]) ELSE taken

TakenOf(s, S, n, f) == f = [i \in 0 .. n |-> IF i = 0 THEN <<>> ELSE TakenNext(s, S, f[i - 1], i)]

\* The members of S at the i first places of s, place by place.
TakenAt(s, S, i, taken, f) ==
    /\ Len(taken) <= i /\ f \in [1 .. Len(taken) -> 1 .. i]
    /\ \A m \in 1 .. Len(taken) : taken[m] = s[f[m]] /\ s[f[m]] \in S
    /\ \A m, n \in 1 .. Len(taken) : m < n => f[m] < f[n]
    /\ \A j \in 1 .. i : s[j] \in S => \E m \in 1 .. Len(taken) : f[m] = j

Taken(T, s, S, i, taken) == taken \in Seq(T) /\ \E f : TakenAt(s, S, i, taken, f)

\* The next element is taken when it is in the set.
LEMMA TakesOn ==
    ASSUME NEW T, NEW s \in Seq(T), NEW S, NEW i \in Nat, i + 1 <= Len(s), NEW taken, Taken(T, s, S, i, taken)
    PROVE  Taken(T, s, S, i + 1, TakenNext(s, S, taken, i + 1))
<1> DEFINE x == s[i + 1]
           next == TakenNext(s, S, taken, i + 1)
           N == Len(taken)
<1>1. PICK f : TakenAt(s, S, i, taken, f)
  BY DEF Taken
<1>2. x \in T /\ taken \in Seq(T) /\ N \in Nat
  BY DEF Taken
<1>3. 1 .. i + 1 = 1 .. i \union {i + 1} /\ i + 1 \notin 1 .. i /\ \A j \in 1 .. i : j < i + 1
  OBVIOUS
<1>4. CASE x \in S
  <2>1. next = Append(taken, x)
    BY <1>4 DEF TakenNext
  <2> HIDE DEF x
  <2>2. next \in Seq(T) /\ Len(next) = N + 1 /\ next[N + 1] = x /\ \A m \in 1 .. N : next[m] = taken[m]
    <3>1. /\ Append(taken, x) \in Seq(T) /\ Len(Append(taken, x)) = N + 1 /\ Append(taken, x)[N + 1] = x
          /\ \A m \in 1 .. N : Append(taken, x)[m] = taken[m]
      BY <1>2, Appended
    <3> HIDE DEF next, N
    <3> QED
      BY <2>1, <3>1
  <2> USE DEF x
  <2> HIDE DEF next
  <2>3. \A m \in 1 .. N + 1 : m \in 1 .. N \/ m = N + 1
    BY <1>2
  <2>4. N + 1 \in 1 .. N + 1 /\ N + 1 \notin 1 .. N /\ \A m \in 1 .. N : m \in 1 .. N + 1 /\ m # N + 1
    BY <1>2
  <2> DEFINE g == [m \in 1 .. N + 1 |-> IF m = N + 1 THEN i + 1 ELSE f[m]]
  <2>5. \A m \in 1 .. N : f[m] \in 1 .. i /\ taken[m] = s[f[m]] /\ s[f[m]] \in S
    BY <1>1 DEF TakenAt
  <2>6. g[N + 1] = i + 1 /\ \A m \in 1 .. N : g[m] = f[m]
    BY <2>4
  <2>7. g \in [1 .. N + 1 -> 1 .. i + 1]
    BY <1>3, <2>3, <2>5
  <2> HIDE DEF g
  <2>8. \A m \in 1 .. N + 1 : next[m] = s[g[m]] /\ s[g[m]] \in S
    <3> SUFFICES ASSUME NEW m \in 1 .. N + 1
                 PROVE  next[m] = s[g[m]] /\ s[g[m]] \in S
      OBVIOUS
    <3>1. CASE m \in 1 .. N
      BY <2>2, <2>5, <2>6, <3>1
    <3>2. CASE m = N + 1
      BY <1>4, <2>2, <2>6, <3>2
    <3> QED
      BY <2>3, <3>1, <3>2
  <2>9. \A m, n \in 1 .. N + 1 : m < n => g[m] < g[n]
    <3> SUFFICES ASSUME NEW m \in 1 .. N + 1, NEW n \in 1 .. N + 1, m < n
                 PROVE  g[m] < g[n]
      OBVIOUS
    <3>1. m \in 1 .. N
      BY <1>2
    <3>2. CASE n \in 1 .. N
      <4>1. f[m] < f[n]
        BY <1>1, <3>1, <3>2 DEF TakenAt
      <4> QED
        BY <2>6, <3>1, <3>2, <4>1
    <3>3. CASE n = N + 1
      BY <1>3, <2>5, <2>6, <3>1, <3>3
    <3> QED
      BY <2>3, <3>2, <3>3
  <2>10. \A j \in 1 .. i + 1 : s[j] \in S => \E m \in 1 .. N + 1 : g[m] = j
    <3> SUFFICES ASSUME NEW j \in 1 .. i + 1, s[j] \in S
                 PROVE  \E m \in 1 .. N + 1 : g[m] = j
      OBVIOUS
    <3>1. CASE j \in 1 .. i
      <4>1. PICK m \in 1 .. N : f[m] = j
        BY <1>1, <3>1 DEF TakenAt
      <4> QED
        BY <2>4, <2>6, <4>1
    <3>2. CASE j = i + 1
      BY <2>4, <2>6, <3>2
    <3> QED
      BY <1>3, <3>1, <3>2
  <2>11. TakenAt(s, S, i + 1, next, g)
    <3> DEFINE M == N + 1
    <3>1. Len(next) = M /\ M <= i + 1
      BY <1>1, <1>2, <2>2 DEF TakenAt
    <3>2. /\ g \in [1 .. M -> 1 .. i + 1]
          /\ \A m \in 1 .. M : next[m] = s[g[m]] /\ s[g[m]] \in S
          /\ \A m, n \in 1 .. M : m < n => g[m] < g[n]
          /\ \A j \in 1 .. i + 1 : s[j] \in S => \E m \in 1 .. M : g[m] = j
      BY <2>7, <2>8, <2>9, <2>10
    <3> HIDE DEF M, N
    <3> QED
      BY <3>1, <3>2 DEF TakenAt
  <2> QED
    BY <2>2, <2>11 DEF Taken, next
<1>5. CASE x \notin S
  <2>1. next = taken
    BY <1>5 DEF TakenNext
  <2>2. N <= i + 1 /\ f \in [1 .. N -> 1 .. i + 1]
    BY <1>1, <1>2, <1>3 DEF TakenAt
  <2>3. \A j \in 1 .. i + 1 : s[j] \in S => \E m \in 1 .. N : f[m] = j
    <3> SUFFICES ASSUME NEW j \in 1 .. i + 1, s[j] \in S
                 PROVE  j \in 1 .. i
      BY <1>1 DEF TakenAt
    <3> QED
      BY <1>3, <1>5
  <2>4. TakenAt(s, S, i + 1, taken, f)
    BY <1>1, <2>2, <2>3 DEF TakenAt
  <2>5. Taken(T, s, S, i + 1, taken)
    BY <1>2, <2>4 DEF Taken
  <2> QED
    BY <2>1, <2>5
<1> QED
  BY <1>4, <1>5

\* What there is of a set in a sequence is computed one element after the other.
LEMMA AmongSteps ==
    ASSUME NEW T, NEW s \in Seq(T), NEW S
    PROVE  \E F : /\ Among(s, S) = F[Len(s)] /\ F[0] = <<>>
                  /\ \A i \in 1 .. Len(s) : F[i] = TakenNext(s, S, F[i - 1], i)
<1> DEFINE F == CHOOSE f : f = [i \in 0 .. Len(s) |->
                   IF i = 0 THEN <<>> ELSE IF s[i] \in S THEN Append(f[i - 1], s[i]) ELSE f[i - 1]]
           E == {n \in Nat : n <= Len(s) => \E f : TakenOf(s, S, n, f)}
<1>1. Among(s, S) = F[Len(s)]
  BY DEF Among
<1>2. 0 \in E
  <2>1. TakenOf(s, S, 0, [i \in 0 .. 0 |-> <<>>])
    BY DEF TakenOf
  <2> QED
    BY <2>1
<1>3. ASSUME NEW n \in Nat, n \in E
      PROVE  n + 1 \in E
  <2> SUFFICES ASSUME n + 1 <= Len(s)
               PROVE  \E f : TakenOf(s, S, n + 1, f)
    OBVIOUS
  <2>1. PICK g : TakenOf(s, S, n, g)
    BY <1>3
  <2> DEFINE h == [i \in 0 .. n + 1 |-> IF i = n + 1 THEN TakenNext(s, S, g[n], n + 1) ELSE g[i]]
  <2>2. \A i \in 0 .. n + 1 : h[i] = IF i = 0 THEN <<>> ELSE TakenNext(s, S, h[i - 1], i)
    <3> SUFFICES ASSUME NEW i \in 0 .. n + 1
                 PROVE  h[i] = IF i = 0 THEN <<>> ELSE TakenNext(s, S, h[i - 1], i)
      OBVIOUS
    <3>1. CASE i = n + 1
      <4>1. i # 0 /\ i - 1 = n /\ n \in 0 .. n + 1 /\ n # n + 1
        BY <3>1
      <4>2. h[i] = TakenNext(s, S, g[n], i) /\ h[i - 1] = g[n]
        BY <3>1, <4>1
      <4> QED
        BY <4>1, <4>2
    <3>2. CASE i # n + 1
      <4>1. i \in 0 .. n /\ h[i] = g[i] /\ (i # 0 => i - 1 \in 0 .. n /\ h[i - 1] = g[i - 1])
        BY <3>2
      <4>2. g[i] = IF i = 0 THEN <<>> ELSE TakenNext(s, S, g[i - 1], i)
        BY <2>1, <4>1 DEF TakenOf
      <4> QED
        BY <4>1, <4>2
    <3> QED
      BY <3>1, <3>2
  <2>3. h = [i \in 0 .. n + 1 |-> h[i]]
    OBVIOUS
  <2> HIDE DEF h
  <2>4. TakenOf(s, S, n + 1, h)
    BY <2>2, <2>3 DEF TakenOf
  <2> QED
    BY <2>4
<1> HIDE DEF E, F
<1>4. Len(s) \in E
  BY <1>2, <1>3, NatSetInduction
<1>5. TakenOf(s, S, Len(s), F)
  <2>1. PICK g : TakenOf(s, S, Len(s), g)
    BY <1>4 DEF E
  <2>2. g = [i \in 0 .. Len(s) |->
               IF i = 0 THEN <<>> ELSE IF s[i] \in S THEN Append(g[i - 1], s[i]) ELSE g[i - 1]]
    BY <2>1 DEF TakenOf, TakenNext
  <2>3. F = [i \in 0 .. Len(s) |->
               IF i = 0 THEN <<>> ELSE IF s[i] \in S THEN Append(F[i - 1], s[i]) ELSE F[i - 1]]
    BY <2>2 DEF F
  <2> QED
    BY <2>3 DEF TakenOf, TakenNext
<1>6. F[0] = <<>> /\ \A i \in 1 .. Len(s) : F[i] = TakenNext(s, S, F[i - 1], i)
  <2>1. \A i \in 0 .. Len(s) : F[i] = IF i = 0 THEN <<>> ELSE TakenNext(s, S, F[i - 1], i)
    BY <1>5 DEF TakenOf
  <2> QED
    BY <2>1
<1> QED
  BY <1>1, <1>6

\* Among takes the members of S, in their order.
LEMMA AmongRight ==
    ASSUME NEW T, NEW s \in Seq(T), NEW S
    PROVE  Taken(T, s, S, Len(s), Among(s, S))
<1>1. PICK F : /\ Among(s, S) = F[Len(s)] /\ F[0] = <<>>
               /\ \A i \in 1 .. Len(s) : F[i] = TakenNext(s, S, F[i - 1], i)
  BY AmongSteps
<1> DEFINE R == {n \in Nat : n <= Len(s) => Taken(T, s, S, n, F[n])}
<1>2. 0 \in R
  <2>1. Len(<<>>) = 0 /\ 1 .. 0 = {}
    OBVIOUS
  <2>2. TakenAt(s, S, 0, <<>>, [m \in {} |-> 0])
    BY <2>1 DEF TakenAt
  <2>3. Taken(T, s, S, 0, <<>>)
    BY <2>2 DEF Taken
  <2> QED
    BY <1>1, <2>3 DEF R
<1>3. ASSUME NEW n \in Nat, n \in R
      PROVE  n + 1 \in R
  <2> SUFFICES ASSUME n + 1 <= Len(s)
               PROVE  Taken(T, s, S, n + 1, F[n + 1])
    BY DEF R
  <2>1. Taken(T, s, S, n, F[n])
    BY <1>3 DEF R
  <2>2. F[n + 1] = TakenNext(s, S, F[n], n + 1)
    <3>1. n + 1 \in 1 .. Len(s) /\ (n + 1) - 1 = n
      OBVIOUS
    <3> QED
      BY <1>1, <3>1
  <2> QED
    BY <2>1, <2>2, TakesOn
<1> HIDE DEF R
<1>4. Len(s) \in R
  BY <1>2, <1>3, NatSetInduction
<1> QED
  BY <1>1, <1>4 DEF R

-----------------------------------------------------------------------------
(* The citations. *)

\* What is cited once the i first numbers of an answer are read.
CitesNext(a, sources, cited, i) ==
    IF a[i] \in 1 .. sources \ ToSet(cited) THEN Append(cited, a[i]) ELSE cited

CitedOf(a, sources, n, f) ==
    f = [i \in 0 .. n |-> IF i = 0 THEN <<>> ELSE CitesNext(a, sources, f[i - 1], i)]

\* The numbers of sources among the i first, each once, in order of first citation.
CitesFirst(a, sources, i, cited) ==
    /\ cited \in Seq(Nat)
    /\ \A m \in 1 .. Len(cited) : cited[m] \in 1 .. sources /\ \E j \in 1 .. i : a[j] = cited[m]
    /\ \A j \in 1 .. i : a[j] \in 1 .. sources => \E m \in 1 .. Len(cited) : cited[m] = a[j]
    /\ \A m, n \in 1 .. Len(cited) :
           m < n => \E k \in 1 .. i : a[k] = cited[m] /\ \A j \in 1 .. k : a[j] # cited[n]

\* The next number is cited when it is that of a source and is met for the first
\* time.
LEMMA CitesOn ==
    ASSUME NEW a \in Seq(Nat), NEW sources \in Nat, NEW i \in Nat, i + 1 <= Len(a), NEW cited,
           CitesFirst(a, sources, i, cited)
    PROVE  CitesFirst(a, sources, i + 1, CitesNext(a, sources, cited, i + 1))
<1> DEFINE x == a[i + 1]
           next == CitesNext(a, sources, cited, i + 1)
<1>1. x \in Nat /\ cited \in Seq(Nat) /\ Len(cited) \in Nat
  BY DEF CitesFirst
<1>2. DOMAIN cited = 1 .. Len(cited) /\ ToSet(cited) = {cited[m] : m \in 1 .. Len(cited)}
  BY <1>1 DEF ToSet
<1>3. 1 .. i + 1 = 1 .. i \union {i + 1}
  OBVIOUS
<1>4. CASE x \in 1 .. sources \ ToSet(cited)
  <2>1. next = Append(cited, x)
    BY <1>4 DEF CitesNext
  <2> HIDE DEF x
  <2>2. next \in Seq(Nat) /\ Len(next) = Len(cited) + 1 /\ next[Len(cited) + 1] = x
    <3>1. /\ Append(cited, x) \in Seq(Nat) /\ Len(Append(cited, x)) = Len(cited) + 1
          /\ Append(cited, x)[Len(cited) + 1] = x
      BY <1>1, Appended
    <3> QED
      BY <2>1, <3>1
  <2>3. \A m \in 1 .. Len(cited) : next[m] = cited[m]
    <3>1. \A m \in 1 .. Len(cited) : Append(cited, x)[m] = cited[m]
      BY <1>1, Appended
    <3> QED
      BY <2>1, <3>1
  <2> USE DEF x
  <2> HIDE DEF next
  <2>4. \A m \in 1 .. Len(next) : m \in 1 .. Len(cited) \/ m = Len(cited) + 1
    BY <1>1, <2>2
  <2>5. \A m \in 1 .. Len(next) : next[m] \in 1 .. sources /\ \E j \in 1 .. i + 1 : a[j] = next[m]
    <3> SUFFICES ASSUME NEW m \in 1 .. Len(next)
                 PROVE  next[m] \in 1 .. sources /\ \E j \in 1 .. i + 1 : a[j] = next[m]
      OBVIOUS
    <3>1. CASE m \in 1 .. Len(cited)
      <4>1. next[m] = cited[m]
        BY <2>3, <3>1
      <4>2. cited[m] \in 1 .. sources /\ \E j \in 1 .. i : a[j] = cited[m]
        BY <3>1 DEF CitesFirst
      <4> QED
        BY ONLY <1>3, <4>1, <4>2
    <3>2. CASE m = Len(cited) + 1
      BY <1>3, <1>4, <2>2, <3>2
    <3> QED
      BY <2>4, <3>1, <3>2
  <2>6. \A j \in 1 .. i + 1 : a[j] \in 1 .. sources => \E m \in 1 .. Len(next) : next[m] = a[j]
    <3> SUFFICES ASSUME NEW j \in 1 .. i + 1, a[j] \in 1 .. sources
                 PROVE  \E m \in 1 .. Len(next) : next[m] = a[j]
      OBVIOUS
    <3>1. Len(cited) + 1 \in 1 .. Len(next) /\ \A m \in 1 .. Len(cited) : m \in 1 .. Len(next)
      BY <1>1, <2>2
    <3>2. CASE j = i + 1
      BY <2>2, <3>1, <3>2
    <3>3. CASE j \in 1 .. i
      <4>1. PICK m \in 1 .. Len(cited) : cited[m] = a[j]
        BY <3>3 DEF CitesFirst
      <4> QED
        BY <2>3, <3>1, <4>1
    <3> QED
      BY <1>3, <3>2, <3>3
  <2>7. \A m, n \in 1 .. Len(next) :
           m < n => \E k \in 1 .. i + 1 : a[k] = next[m] /\ \A j \in 1 .. k : a[j] # next[n]
    <3> SUFFICES ASSUME NEW m \in 1 .. Len(next), NEW n \in 1 .. Len(next), m < n
                 PROVE  \E k \in 1 .. i + 1 : a[k] = next[m] /\ \A j \in 1 .. k : a[j] # next[n]
      OBVIOUS
    <3>1. m \in 1 .. Len(cited) /\ next[m] = cited[m]
      <4>1. Len(cited) \in Nat /\ Len(next) = Len(cited) + 1
        BY <1>1, <2>2
      <4>2. m \in 1 .. Len(cited)
        BY <4>1
      <4> QED
        BY <2>3, <4>2
    <3>2. CASE n \in 1 .. Len(cited)
      <4>1. PICK k \in 1 .. i : a[k] = cited[m] /\ \A j \in 1 .. k : a[j] # cited[n]
        BY <3>1, <3>2 DEF CitesFirst
      <4>2. k \in 1 .. i + 1 /\ next[n] = cited[n]
        BY <2>3, <3>2
      <4> QED
        BY <3>1, <4>1, <4>2
    <3>3. CASE n = Len(cited) + 1
      <4>1. PICK k \in 1 .. i : a[k] = cited[m]
        BY <3>1 DEF CitesFirst
      <4>2. next[n] = x /\ x \in 1 .. sources /\ k \in 1 .. i + 1
        BY <1>4, <2>2, <3>3
      <4>3. \A j \in 1 .. i : a[j] # x
        <5> SUFFICES ASSUME NEW j \in 1 .. i, a[j] = x
                     PROVE  FALSE
          OBVIOUS
        <5>1. PICK p \in 1 .. Len(cited) : cited[p] = x
          BY <4>2 DEF CitesFirst
        <5> QED
          BY <1>2, <1>4, <5>1
      <4>4. \A j \in 1 .. k : j \in 1 .. i
        OBVIOUS
      <4> QED
        BY <3>1, <4>1, <4>2, <4>3, <4>4
    <3> QED
      BY <2>4, <3>2, <3>3
  <2> QED
    BY <2>2, <2>5, <2>6, <2>7 DEF CitesFirst, next
<1>5. CASE x \notin 1 .. sources \ ToSet(cited)
  <2>1. next = cited
    BY <1>5 DEF CitesNext
  <2>2. x \in 1 .. sources => \E m \in 1 .. Len(cited) : cited[m] = x
    BY <1>2, <1>5
  <2>3. \A j \in 1 .. i + 1 : a[j] \in 1 .. sources => \E m \in 1 .. Len(cited) : cited[m] = a[j]
    BY <1>3, <2>2 DEF CitesFirst
  <2>4. CitesFirst(a, sources, i + 1, cited)
    BY <1>3, <2>3 DEF CitesFirst
  <2> QED
    BY <2>1, <2>4
<1> QED
  BY <1>4, <1>5

\* The citations of an answer are those of its sources, each once, in the order
\* of the first citation.
LEMMA CitationsRight ==
    ASSUME NEW a \in Seq(Nat), NEW sources \in Nat
    PROVE  CitesFirst(a, sources, Len(a), Citations(a, sources))
<1> DEFINE F == CHOOSE f : f = [i \in 0 .. Len(a) |->
                   IF i = 0 THEN <<>>
                   ELSE IF a[i] \in 1 .. sources \ ToSet(f[i - 1]) THEN Append(f[i - 1], a[i]) ELSE f[i - 1]]
           S == {n \in Nat : n <= Len(a) => \E f : CitedOf(a, sources, n, f)}
           R == {n \in Nat : n <= Len(a) => CitesFirst(a, sources, n, F[n])}
<1>1. Citations(a, sources) = F[Len(a)]
  BY DEF Citations
<1>2. 0 \in S
  <2>1. CitedOf(a, sources, 0, [i \in 0 .. 0 |-> <<>>])
    BY DEF CitedOf
  <2> QED
    BY <2>1
<1>3. ASSUME NEW n \in Nat, n \in S
      PROVE  n + 1 \in S
  <2> SUFFICES ASSUME n + 1 <= Len(a)
               PROVE  \E f : CitedOf(a, sources, n + 1, f)
    OBVIOUS
  <2>1. PICK g : CitedOf(a, sources, n, g)
    BY <1>3
  <2> DEFINE h == [i \in 0 .. n + 1 |-> IF i = n + 1 THEN CitesNext(a, sources, g[n], n + 1) ELSE g[i]]
  <2>2. \A i \in 0 .. n + 1 : h[i] = IF i = 0 THEN <<>> ELSE CitesNext(a, sources, h[i - 1], i)
    <3> SUFFICES ASSUME NEW i \in 0 .. n + 1
                 PROVE  h[i] = IF i = 0 THEN <<>> ELSE CitesNext(a, sources, h[i - 1], i)
      OBVIOUS
    <3>1. CASE i = n + 1
      <4>1. i # 0 /\ i - 1 = n /\ n \in 0 .. n + 1 /\ n # n + 1
        BY <3>1
      <4>2. h[i] = CitesNext(a, sources, g[n], i) /\ h[i - 1] = g[n]
        BY <3>1, <4>1
      <4> QED
        BY <4>1, <4>2
    <3>2. CASE i # n + 1
      <4>1. i \in 0 .. n /\ h[i] = g[i] /\ (i # 0 => i - 1 \in 0 .. n /\ h[i - 1] = g[i - 1])
        BY <3>2
      <4>2. g[i] = IF i = 0 THEN <<>> ELSE CitesNext(a, sources, g[i - 1], i)
        BY <2>1, <4>1 DEF CitedOf
      <4> QED
        BY <4>1, <4>2
    <3> QED
      BY <3>1, <3>2
  <2>3. h = [i \in 0 .. n + 1 |-> h[i]]
    OBVIOUS
  <2> HIDE DEF h
  <2>4. CitedOf(a, sources, n + 1, h)
    BY <2>2, <2>3 DEF CitedOf
  <2> QED
    BY <2>4
<1> HIDE DEF S, R, F
<1>4. Len(a) \in S
  BY <1>2, <1>3, NatSetInduction
<1>5. CitedOf(a, sources, Len(a), F)
  <2>1. PICK g : CitedOf(a, sources, Len(a), g)
    BY <1>4 DEF S
  <2>2. g = [i \in 0 .. Len(a) |->
               IF i = 0 THEN <<>>
               ELSE IF a[i] \in 1 .. sources \ ToSet(g[i - 1]) THEN Append(g[i - 1], a[i]) ELSE g[i - 1]]
    BY <2>1 DEF CitedOf, CitesNext
  <2>3. F = [i \in 0 .. Len(a) |->
               IF i = 0 THEN <<>>
               ELSE IF a[i] \in 1 .. sources \ ToSet(F[i - 1]) THEN Append(F[i - 1], a[i]) ELSE F[i - 1]]
    BY <2>2 DEF F
  <2> QED
    BY <2>3 DEF CitedOf, CitesNext
<1>6. F[0] = <<>> /\ \A i \in 1 .. Len(a) : F[i] = CitesNext(a, sources, F[i - 1], i)
  <2>1. \A i \in 0 .. Len(a) : F[i] = IF i = 0 THEN <<>> ELSE CitesNext(a, sources, F[i - 1], i)
    BY <1>5 DEF CitedOf
  <2>2. 0 \in 0 .. Len(a)
    OBVIOUS
  <2>3. F[0] = <<>>
    BY ONLY <2>1, <2>2
  <2>4. ASSUME NEW i \in 1 .. Len(a)
        PROVE  F[i] = CitesNext(a, sources, F[i - 1], i)
    <3>1. i \in 0 .. Len(a) /\ i # 0
      BY <2>4
    <3> QED
      BY ONLY <2>1, <3>1
  <2> QED
    BY ONLY <2>3, <2>4
<1>7. 0 \in R
  <2>1. CitesFirst(a, sources, 0, <<>>)
    BY DEF CitesFirst
  <2> QED
    BY <1>6, <2>1 DEF R
<1>8. ASSUME NEW n \in Nat, n \in R
      PROVE  n + 1 \in R
  <2> SUFFICES ASSUME n + 1 <= Len(a)
               PROVE  CitesFirst(a, sources, n + 1, F[n + 1])
    BY DEF R
  <2>1. CitesFirst(a, sources, n, F[n])
    BY <1>8 DEF R
  <2>2. F[n + 1] = CitesNext(a, sources, F[n], n + 1)
    <3>1. n + 1 \in 1 .. Len(a) /\ (n + 1) - 1 = n
      OBVIOUS
    <3> QED
      BY <1>6, <3>1
  <2> QED
    BY <2>1, <2>2, CitesOn
<1>9. Len(a) \in R
  BY <1>7, <1>8, NatSetInduction
<1> QED
  BY <1>1, <1>9 DEF R

-----------------------------------------------------------------------------
(* The prompt and the stream. *)

AnswerSteps == {"new", "number", "call", "stream", "noSources", "answerFailed"}
NumberedAs == [number : Nat, section : ToSet(Listed), words : 1 .. MaxWordsOfOne]

AnswerTyped ==
    /\ answerStep \in AnswerSteps
    /\ answerStep # "new" => given \in Evidences /\ lengths \in Lengths /\ place <= Len(Listed) + 1
    /\ answerStep = "new" => place = 1 /\ numbered = <<>>
    /\ place \in Nat \ {0} /\ used \in Nat
    /\ numbered \in Seq(NumberedAs)

StreamTyped ==
    /\ stream \in Seq({"text", "silent", "error"})
    /\ sending \in {"none", "text", "error"}
    /\ channel \in {"open", "closed"}
    /\ received \in Seq({"text", "error"})

\* A source has the number of its place, and stands where its section stood, before
\* the section to number next.
NumberedAt(n) ==
    /\ numbered[n].number = n
    /\ \E j \in 1 .. place - 1 : Listed[j] = numbered[n].section
    /\ \A m \in 1 .. n - 1 : \E i, j \in 1 .. place - 1 :
           i < j /\ Listed[i] = numbered[m].section /\ Listed[j] = numbered[n].section

NumberedSoFar == \A n \in 1 .. Len(numbered) : NumberedAt(n)

BudgetsSoFar == Len(numbered) <= MaxSources /\ used <= MaxWordsOfAll

HasWords(section) == section \in DOMAIN lengths /\ lengths[section] > 0

\* No section that has words was passed over.
NonePassedOver ==
    \A i \in 1 .. place - 1 :
        HasWords(Listed[i]) => \E n \in 1 .. Len(numbered) : numbered[n].section = Listed[i]

OverWhenDone == answerStep \in {"call", "noSources"} => place > Len(Listed) \/ Full

PromptInv == AnswerTyped /\ NumberedSoFar /\ BudgetsSoFar /\ NonePassedOver /\ OverWhenDone
StreamInv == StreamTyped /\ ErrorIsLast
AnswerInv == PromptInv /\ StreamInv

\* The sections of the results are one list.
LEMMA ListedIsSeq ==
    ASSUME NEW results \in Evidences
    PROVE  \E T : FlattenSeq([i \in DOMAIN results |-> results[i].sections]) \in Seq(T)
<1> DEFINE ss == [i \in DOMAIN results |-> results[i].sections]
           T == UNION {ToSet(results[i].sections) : i \in DOMAIN results}
<1>1. results \in Seq(ToSet(results)) /\ \A r \in ToSet(results) : r.sections \in Seq(ToSet(r.sections))
  BY AnsweringAssumption
<1>2. Len(results) \in Nat /\ DOMAIN results = 1 .. Len(results)
  BY <1>1
<1>3. DOMAIN ss = 1 .. Len(results)
  BY <1>2
<1>4. \A i \in 1 .. Len(results) : ss[i] \in Seq(T)
  <2> SUFFICES ASSUME NEW i \in 1 .. Len(results)
               PROVE  results[i].sections \in Seq(T)
    BY <1>2
  <2>1. results[i].sections \in Seq(ToSet(results[i].sections))
    BY <1>1, <1>2 DEF ToSet
  <2>2. ToSet(results[i].sections) \subseteq T
    BY <1>2
  <2> HIDE DEF T
  <2> QED
    BY <2>1, <2>2
<1>5. ss \in Seq(Seq(T)) /\ Len(ss) = Len(results)
  <2> HIDE DEF T
  <2> QED
    BY <1>2, <1>3, <1>4
<1> HIDE DEF ss, T
<1>7. ss = <<>> <=> Len(ss) = 0
  BY <1>5
<1>8. FlattenSeq(ss) \in Seq(T)
  BY <1>2, <1>4, <1>5, <1>7, Flattened DEF Flat
<1> QED
  BY <1>8 DEF ss

\* Before anything is asked nothing is numbered.
LEMMA AnswerStarts == AnswerInit => AnswerInv
<1> SUFFICES ASSUME AnswerInit
             PROVE  AnswerInv
  OBVIOUS
<1>1. AnswerTyped /\ NumberedSoFar /\ NonePassedOver /\ OverWhenDone
  BY DEF AnswerInit, AnswerTyped, AnswerSteps, NumberedSoFar, NonePassedOver, OverWhenDone
<1>2. BudgetsSoFar
  BY AnsweringAssumption DEF AnswerInit, BudgetsSoFar
<1>3. StreamTyped /\ ErrorIsLast
  BY DEF AnswerInit, StreamTyped, ErrorIsLast
<1> QED
  BY <1>1, <1>2, <1>3 DEF AnswerInv, PromptInv, StreamInv

\* A step that leaves the prompt alone, and ends the numbering only when it is over.
LEMMA PromptKept ==
    ASSUME PromptInv, UNCHANGED <<given, lengths, place, used, numbered>>, answerStep' \in AnswerSteps,
           answerStep # "new" \/ answerStep' = "new", answerStep' # "new" \/ answerStep = "new",
           answerStep' \in {"call", "noSources"} => (answerStep' = answerStep \/ place > Len(Listed) \/ Full)
    PROVE  PromptInv'
<1>1. Listed' = Listed /\ (Full' <=> Full)
  BY DEF Listed, Full
<1>2. AnswerTyped'
  BY <1>1 DEF PromptInv, AnswerTyped, NumberedAs
<1>3. NumberedSoFar' /\ BudgetsSoFar' /\ NonePassedOver'
  BY <1>1 DEF PromptInv, NumberedSoFar, NumberedAt, BudgetsSoFar, NonePassedOver, HasWords
<1>4. OverWhenDone'
  BY <1>1 DEF PromptInv, OverWhenDone
<1> QED
  BY <1>2, <1>3, <1>4 DEF PromptInv

\* The words of a section that fit are some as long as there are words and room.
LEMMA WordsFit ==
    ASSUME AnswerTyped, ~Full, answerStep # "new", NEW section \in DOMAIN lengths
    PROVE  /\ WordsFor(section) \in Nat /\ WordsFor(section) <= MaxWordsOfOne
           /\ used + WordsFor(section) <= MaxWordsOfAll
           /\ lengths[section] > 0 <=> WordsFor(section) > 0
<1>1. lengths[section] \in Nat
  BY AnsweringAssumption DEF AnswerTyped
<1>2. MaxWordsOfOne \in Nat \ {0} /\ MaxWordsOfAll \in Nat \ {0} /\ used \in Nat /\ used < MaxWordsOfAll
  BY AnsweringAssumption DEF AnswerTyped, Full
<1> QED
  BY <1>1, <1>2 DEF WordsFor, Smaller

\* A section is numbered: it comes after those that were.
LEMMA OneMoreSource ==
    ASSUME PromptInv, NumberNext, HasWords(Listed[place])
    PROVE  PromptInv'
<1> DEFINE s == Listed[place]
           r == [number |-> Len(numbered) + 1, section |-> s, words |-> WordsFor(s)]
           N == Len(numbered)
<1>0. /\ answerStep = "number" /\ answerStep' = "number" /\ place <= Len(Listed) /\ ~Full /\ place' = place + 1
      /\ given' = given /\ lengths' = lengths
  BY DEF NumberNext
<1>1. Listed' = Listed
  BY <1>0 DEF Listed
<1>2. /\ place \in Nat \ {0} /\ used \in Nat /\ numbered \in Seq(NumberedAs) /\ N \in Nat /\ given \in Evidences
      /\ lengths \in Lengths
  BY <1>0 DEF PromptInv, AnswerTyped
<1>3. Len(Listed) \in Nat /\ DOMAIN Listed = 1 .. Len(Listed) /\ s \in ToSet(Listed) /\ place \in DOMAIN Listed
  <2>1. PICK T : Listed \in Seq(T)
    BY <1>2, ListedIsSeq DEF Listed
  <2>2. Len(Listed) \in Nat /\ DOMAIN Listed = 1 .. Len(Listed)
    BY <2>1
  <2> QED
    BY <1>0, <1>2, <2>2 DEF ToSet
<1>4. WordsFor(s) \in 1 .. MaxWordsOfOne /\ used + WordsFor(s) <= MaxWordsOfAll
  <2>1. /\ WordsFor(s) \in Nat /\ WordsFor(s) <= MaxWordsOfOne /\ used + WordsFor(s) <= MaxWordsOfAll
        /\ WordsFor(s) > 0
    BY <1>0, WordsFit DEF PromptInv, HasWords
  <2>2. MaxWordsOfOne \in Nat
    BY AnsweringAssumption
  <2> QED
    BY <2>1, <2>2
<1>5. numbered' = Append(numbered, r)
  BY <1>4 DEF NumberNext, Numbering, HasWords
<1>6. r \in NumberedAs
  BY <1>2, <1>3, <1>4 DEF NumberedAs
<1>7. /\ numbered' \in Seq(NumberedAs) /\ Len(numbered') = N + 1 /\ numbered'[N + 1] = r
      /\ \A n \in 1 .. N : numbered'[n] = numbered[n]
  <2> HIDE DEF r
  <2> QED
    BY <1>2, <1>5, <1>6, Appended
<1>8. used' = used + WordsFor(s)
  <2>1. numbered' # numbered /\ Last(numbered') = r
    BY <1>2, <1>7 DEF Last
  <2>2. used' = used + Last(numbered').words
    BY <2>1 DEF NumberNext
  <2> QED
    BY <2>1, <2>2
<1>9. r.number = N + 1 /\ r.section = s
  OBVIOUS
<1> HIDE DEF r, s
<1>10. AnswerTyped'
  <2>1. used' \in Nat
    BY <1>2, <1>4, <1>8
  <2>2. place' \in Nat \ {0} /\ place' <= Len(Listed) + 1
    BY <1>0, <1>2, <1>3
  <2>3. (numbered \in Seq(NumberedAs))'
    BY <1>1, <1>7 DEF NumberedAs
  <2> QED
    BY <1>0, <1>1, <1>2, <2>1, <2>2, <2>3 DEF AnswerTyped, AnswerSteps
<1>11. BudgetsSoFar'
  <2>1. N < MaxSources
    BY <1>0, <1>2, AnsweringAssumption DEF Full
  <2> QED
    BY <1>2, <1>4, <1>7, <1>8, <2>1, AnsweringAssumption DEF BudgetsSoFar
<1>12. \A n \in 1 .. N + 1 : n \in 1 .. N \/ n = N + 1
  BY <1>2
<1>13. \A j \in 1 .. place - 1 : j \in 1 .. place' - 1 /\ j < place
  BY <1>0, <1>2
<1>14. place \in 1 .. place' - 1
  BY <1>0, <1>2
<1>15. \A m \in 1 .. N : \E j \in 1 .. place - 1 : Listed[j] = numbered[m].section
  BY DEF PromptInv, NumberedSoFar, NumberedAt
<1>16. NumberedSoFar'
  <2> SUFFICES ASSUME NEW n \in 1 .. N + 1
               PROVE  NumberedAt(n)'
    BY <1>7 DEF NumberedSoFar
  <2>1. CASE n \in 1 .. N
    <3>1. numbered'[n] = numbered[n] /\ \A m \in 1 .. n - 1 : numbered'[m] = numbered[m]
      BY <1>2, <1>7, <2>1
    <3>2. /\ numbered[n].number = n
          /\ \E j \in 1 .. place - 1 : Listed[j] = numbered[n].section
          /\ \A m \in 1 .. n - 1 : \E i, j \in 1 .. place - 1 :
                 i < j /\ Listed[i] = numbered[m].section /\ Listed[j] = numbered[n].section
      BY <2>1 DEF PromptInv, NumberedSoFar, NumberedAt
    <3>3. \A m \in 1 .. n - 1 : \E i, j \in 1 .. place' - 1 :
             i < j /\ Listed[i] = numbered'[m].section /\ Listed[j] = numbered'[n].section
      BY <1>13, <3>1, <3>2
    <3> QED
      BY <1>1, <1>13, <3>1, <3>2, <3>3 DEF NumberedAt
  <2>2. CASE n = N + 1
    <3>1. numbered'[n].number = n /\ Listed[place] = numbered'[n].section
      BY <1>7, <1>9, <2>2 DEF s
    <3>2. \A m \in 1 .. n - 1 : \E i \in 1 .. place' - 1 : i < place /\ Listed[i] = numbered'[m].section
      <4> SUFFICES ASSUME NEW m \in 1 .. n - 1
                   PROVE  \E i \in 1 .. place' - 1 : i < place /\ Listed[i] = numbered'[m].section
        OBVIOUS
      <4>1. m \in 1 .. N
        BY <1>2, <2>2
      <4>2. PICK j \in 1 .. place - 1 : Listed[j] = numbered[m].section
        BY <1>15, <4>1
      <4> QED
        BY <1>7, <1>13, <4>1, <4>2
    <3> QED
      BY <1>1, <1>14, <3>1, <3>2 DEF NumberedAt
  <2> QED
    BY <1>12, <2>1, <2>2
<1>17. NonePassedOver'
  <2> SUFFICES ASSUME NEW i \in 1 .. place' - 1, HasWords(Listed[i])
               PROVE  \E n \in 1 .. N + 1 : numbered'[n].section = Listed[i]
    BY <1>0, <1>1, <1>7 DEF NonePassedOver, HasWords
  <2>1. CASE i \in 1 .. place - 1
    <3>1. PICK n \in 1 .. N : numbered[n].section = Listed[i]
      BY <2>1 DEF PromptInv, NonePassedOver
    <3>2. n \in 1 .. N + 1
      BY <1>2
    <3> QED
      BY <1>7, <3>1, <3>2
  <2>2. CASE i = place
    <3>1. N + 1 \in 1 .. N + 1
      BY <1>2
    <3> QED
      BY <1>7, <1>9, <2>2, <3>1 DEF s
  <2>3. i \in 1 .. place - 1 \/ i = place
    BY <1>0, <1>2
  <2> QED
    BY <2>1, <2>2, <2>3
<1>18. OverWhenDone'
  BY <1>0 DEF OverWhenDone
<1> QED
  BY <1>10, <1>11, <1>16, <1>17, <1>18 DEF PromptInv

\* A section that the store has lost, or an empty one, takes no number.
LEMMA SectionSkipped ==
    ASSUME PromptInv, NumberNext, ~HasWords(Listed[place])
    PROVE  PromptInv'
<1>0. /\ answerStep = "number" /\ answerStep' = "number" /\ place <= Len(Listed) /\ ~Full /\ place' = place + 1
      /\ given' = given /\ lengths' = lengths
  BY DEF NumberNext
<1>1. Listed' = Listed
  BY <1>0 DEF Listed
<1>2. ~(Listed[place] \in DOMAIN lengths /\ WordsFor(Listed[place]) > 0)
  BY <1>0, WordsFit DEF PromptInv, HasWords
<1>3. numbered' = numbered /\ used' = used
  <2>1. numbered' = numbered
    BY <1>2 DEF NumberNext, Numbering
  <2> QED
    BY <2>1 DEF NumberNext, PromptInv, AnswerTyped
<1>4. /\ place \in Nat \ {0} /\ given \in Evidences /\ lengths \in Lengths
  BY <1>0 DEF PromptInv, AnswerTyped
<1>5. Len(Listed) \in Nat
  <2>1. PICK T : Listed \in Seq(T)
    BY <1>4, ListedIsSeq DEF Listed
  <2> QED
    BY <2>1
<1>6. AnswerTyped'
  <2>1. (numbered \in Seq(NumberedAs))'
    BY <1>1, <1>3 DEF PromptInv, AnswerTyped, NumberedAs
  <2>2. place' \in Nat \ {0} /\ place' <= Len(Listed) + 1
    BY <1>0, <1>4, <1>5
  <2> QED
    BY <1>0, <1>1, <1>3, <1>4, <2>1, <2>2 DEF PromptInv, AnswerTyped, AnswerSteps
<1>7. BudgetsSoFar'
  BY <1>3 DEF PromptInv, BudgetsSoFar
<1>8. \A j \in 1 .. place - 1 : j \in 1 .. place' - 1
  BY <1>0, <1>4
<1>9. NumberedSoFar'
  <2> SUFFICES ASSUME NEW n \in 1 .. Len(numbered)
               PROVE  NumberedAt(n)'
    BY <1>3 DEF NumberedSoFar
  <2>1. NumberedAt(n)
    BY DEF PromptInv, NumberedSoFar
  <2> QED
    BY <1>1, <1>3, <1>8, <2>1 DEF NumberedAt
<1>10. NonePassedOver'
  <2>1. \A i \in 1 .. place' - 1 : i \in 1 .. place - 1 \/ i = place
    BY <1>0, <1>4
  <2> QED
    BY <1>0, <1>1, <1>3, <2>1 DEF PromptInv, NonePassedOver, HasWords
<1>11. OverWhenDone'
  BY <1>0 DEF OverWhenDone
<1> QED
  BY <1>6, <1>7, <1>9, <1>10, <1>11 DEF PromptInv

\* What is asked is answered from its own results.
LEMMA AskedAnew ==
    ASSUME PromptInv, NEW results \in Evidences, NEW words \in Lengths, AskAnswer(results, words)
    PROVE  PromptInv'
<1>1. /\ answerStep = "new" /\ answerStep' = "number" /\ given' = results /\ lengths' = words
      /\ UNCHANGED <<place, used, numbered>>
  BY DEF AskAnswer
<1>2. place = 1 /\ numbered = <<>> /\ used \in Nat
  BY <1>1 DEF PromptInv, AnswerTyped
<1>3. (Len(Listed) \in Nat)'
  <2>1. PICK T : FlattenSeq([i \in DOMAIN results |-> results[i].sections]) \in Seq(T)
    BY ListedIsSeq
  <2>2. Listed' \in Seq(T)
    BY <1>1, <2>1 DEF Listed
  <2> QED
    BY <2>2
<1>4. AnswerTyped'
  BY <1>1, <1>2, <1>3 DEF AnswerTyped, AnswerSteps
<1>5. NumberedSoFar' /\ NonePassedOver'
  BY <1>1, <1>2 DEF NumberedSoFar, NonePassedOver
<1>6. BudgetsSoFar' /\ OverWhenDone'
  BY <1>1 DEF PromptInv, BudgetsSoFar, OverWhenDone
<1> QED
  BY <1>4, <1>5, <1>6 DEF PromptInv

\* The numbering ends when the list or a budget does; nothing else changes it.
LEMMA PromptNext ==
    ASSUME PromptInv, [AnswerNext]_answerVars
    PROVE  PromptInv'
<1>1. ASSUME NEW results \in Evidences, NEW words \in Lengths, AskAnswer(results, words)
      PROVE  PromptInv'
  BY <1>1, AskedAnew
<1>2. CASE NumberNext
  BY <1>2, OneMoreSource, SectionSkipped
<1>3. CASE NumberingOver
  <2>1. answerStep = "number" /\ answerStep' \in {"noSources", "call"} /\ (place > Len(Listed) \/ Full)
    BY <1>3 DEF NumberingOver
  <2>2. UNCHANGED <<given, lengths, place, used, numbered>>
    BY <1>3 DEF NumberingOver
  <2> QED
    BY <2>1, <2>2, PromptKept DEF AnswerSteps
<1>4. CASE AnswerFails
  <2>1. answerStep # "new" /\ answerStep' = "answerFailed" /\ UNCHANGED <<given, lengths, place, used, numbered>>
    BY <1>4 DEF AnswerFails
  <2> QED
    BY <2>1, PromptKept DEF AnswerSteps
<1>5. ASSUME NEW chunks \in Streams, CallModel(chunks)
      PROVE  PromptInv'
  <2>1. answerStep # "new" /\ answerStep' = "stream" /\ UNCHANGED <<given, lengths, place, used, numbered>>
    BY <1>5 DEF CallModel
  <2> QED
    BY <2>1, PromptKept DEF AnswerSteps
<1>6. CASE StreamGoesOn \/ CancelAnswer \/ UNCHANGED answerVars
  <2>1. UNCHANGED <<given, lengths, answerStep, place, used, numbered>>
    BY <1>6 DEF StreamGoesOn, TakeChunk, StreamOver, Deliver, GiveUp, StreamTo, CancelAnswer, answerVars
  <2>2. answerStep \in AnswerSteps
    BY DEF PromptInv, AnswerTyped
  <2> QED
    BY <2>1, <2>2, PromptKept
<1> QED
  BY <1>1, <1>2, <1>3, <1>4, <1>5, <1>6 DEF AnswerNext

\* An error is sent once, and the channel is closed behind it.
LEMMA StreamNext ==
    ASSUME StreamInv, [AnswerNext]_answerVars
    PROVE  StreamInv'
<1>0. StreamTyped /\ ErrorIsLast
  BY DEF StreamInv
<1>1. CASE UNCHANGED streamVars
  BY <1>0, <1>1 DEF StreamInv, StreamTyped, ErrorIsLast, streamVars
<1>2. ASSUME NEW chunks \in Streams, CallModel(chunks)
      PROVE  StreamInv'
  <2>1. stream' = chunks /\ UNCHANGED <<sending, channel, received>>
    BY <1>2 DEF CallModel
  <2>2. chunks \in Seq({"text", "silent", "error"})
    BY AnsweringAssumption
  <2> QED
    BY <1>0, <2>1, <2>2 DEF StreamInv, StreamTyped, ErrorIsLast
<1>3. CASE TakeChunk
  <2>1. /\ stream # <<>> /\ stream' = Tail(stream) /\ UNCHANGED received /\ channel = "open" /\ channel' = "open"
        /\ sending' = IF Head(stream) = "silent" THEN "none" ELSE Head(stream)
    BY <1>3 DEF TakeChunk, StreamTo, Streaming
  <2>2. Head(stream) \in {"text", "silent", "error"} /\ Tail(stream) \in Seq({"text", "silent", "error"})
    BY <1>0, <2>1 DEF StreamTyped
  <2>3. StreamTyped'
    BY <1>0, <2>1, <2>2 DEF StreamTyped
  <2>4. ErrorIsLast'
    BY <1>0, <2>1 DEF ErrorIsLast
  <2> QED
    BY <2>3, <2>4 DEF StreamInv
<1>4. CASE StreamOver \/ GiveUp
  <2>1. /\ channel' = "closed" /\ sending' = "none" /\ UNCHANGED received
        /\ stream' \in {<<>>, stream}
    BY <1>4 DEF StreamOver, GiveUp, StreamTo
  <2>2. StreamTyped'
    <3>1. <<>> \in Seq({"text", "silent", "error"}) /\ stream \in Seq({"text", "silent", "error"})
      BY <1>0 DEF StreamTyped
    <3>2. stream' = <<>> \/ stream' = stream
      BY <2>1
    <3>3. stream' \in Seq({"text", "silent", "error"})
      BY <3>1, <3>2
    <3> QED
      BY <1>0, <2>1, <3>3 DEF StreamTyped
  <2>3. ErrorIsLast'
    BY <1>0, <2>1 DEF ErrorIsLast
  <2> QED
    BY <2>2, <2>3 DEF StreamInv
<1>5. CASE Deliver
  <2>1. /\ channel = "open" /\ sending # "none" /\ received' = Append(received, sending)
        /\ stream' = stream /\ sending' = "none" /\ channel' = EndsAfter(sending)
    BY <1>5 DEF Deliver, Streaming, StreamTo
  <2>2. sending \in {"text", "error"} /\ received \in Seq({"text", "error"}) /\ Len(received) \in Nat
    BY <1>0, <2>1 DEF StreamTyped
  <2>3. /\ received' \in Seq({"text", "error"}) /\ Len(received') = Len(received) + 1
        /\ received'[Len(received) + 1] = sending /\ \A i \in 1 .. Len(received) : received'[i] = received[i]
    BY <2>1, <2>2, Appended
  <2>4. DOMAIN received = 1 .. Len(received) /\ DOMAIN received' = 1 .. Len(received) + 1
    BY <2>2, <2>3
  <2>5. StreamTyped'
    BY <1>0, <2>1, <2>3 DEF StreamTyped, EndsAfter
  <2>6. ErrorIsLast'
    <3> SUFFICES ASSUME NEW i \in 1 .. Len(received) + 1, received'[i] = "error"
                 PROVE  i = Len(received) + 1 /\ channel' = "closed"
      BY <2>3, <2>4 DEF ErrorIsLast
    <3>1. CASE i \in 1 .. Len(received)
      <4>1. received[i] = "error" /\ i \in DOMAIN received
        BY <2>3, <2>4, <3>1
      <4> QED
        BY <1>0, <2>1, <4>1 DEF ErrorIsLast
    <3>2. CASE i = Len(received) + 1
      BY <2>1, <2>3, <3>2 DEF EndsAfter
    <3> QED
      BY <2>2, <3>1, <3>2
  <2> QED
    BY <2>5, <2>6 DEF StreamInv
<1>6. CASE CancelAnswer
  <2>1. UNCHANGED <<stream, sending, channel, received>>
    BY <1>6 DEF CancelAnswer
  <2> QED
    BY <1>0, <2>1 DEF StreamInv, StreamTyped, ErrorIsLast
<1>7. \/ UNCHANGED streamVars \/ \E chunks \in Streams : CallModel(chunks)
      \/ TakeChunk \/ StreamOver \/ GiveUp \/ Deliver \/ CancelAnswer
  <2>1. CASE UNCHANGED answerVars
    BY <2>1 DEF answerVars, streamVars
  <2>2. ASSUME NEW results \in Evidences, NEW words \in Lengths, AskAnswer(results, words)
        PROVE  UNCHANGED streamVars
    BY <2>2 DEF AskAnswer
  <2>3. NumberNext \/ NumberingOver \/ AnswerFails => UNCHANGED streamVars
    BY DEF NumberNext, NumberingOver, AnswerFails
  <2> QED
    BY <2>1, <2>2, <2>3 DEF AnswerNext, StreamGoesOn
<1> QED
  BY <1>1, <1>2, <1>3, <1>4, <1>5, <1>6, <1>7

\* The parts of AnswerKeepsFaith follow from the invariant.
LEMMA AnswerHolds == AnswerInv => AnswerKeepsFaith
<1> SUFFICES ASSUME AnswerInv
             PROVE  AnswerKeepsFaith
  OBVIOUS
<1>1. /\ AnswerTyped /\ NumberedSoFar /\ BudgetsSoFar /\ NonePassedOver /\ OverWhenDone
      /\ StreamTyped /\ ErrorIsLast
  BY DEF AnswerInv, PromptInv, StreamInv
<1>2. Len(numbered) \in Nat /\ DOMAIN numbered = 1 .. Len(numbered) /\ place \in Nat \ {0}
  BY <1>1 DEF AnswerTyped
<1>3. answerStep # "new" =>
          Len(Listed) \in Nat /\ DOMAIN Listed = 1 .. Len(Listed) /\ place <= Len(Listed) + 1
  <2> SUFFICES ASSUME answerStep # "new"
               PROVE  Len(Listed) \in Nat /\ DOMAIN Listed = 1 .. Len(Listed) /\ place <= Len(Listed) + 1
    OBVIOUS
  <2>1. PICK T : Listed \in Seq(T)
    BY <1>1, ListedIsSeq DEF AnswerTyped, Listed
  <2> QED
    BY <1>1, <2>1 DEF AnswerTyped
<1>4. NumbersNameSources
  <2> SUFFICES ASSUME answerStep \in {"call", "stream"}, NEW n \in DOMAIN numbered
               PROVE  /\ numbered[n].number = n
                      /\ \A m \in 1 .. n - 1 : \E i, j \in DOMAIN Listed :
                             i < j /\ Listed[i] = numbered[m].section /\ Listed[j] = numbered[n].section
    BY DEF NumbersNameSources
  <2>1. \A i \in 1 .. place - 1 : i \in DOMAIN Listed
    BY <1>2, <1>3
  <2>2. NumberedAt(n)
    BY <1>1, <1>2 DEF NumberedSoFar
  <2> QED
    BY <2>1, <2>2 DEF NumberedAt
<1>5. PromptWithinBudget
  <2>1. \A n \in DOMAIN numbered : numbered[n].words \in 1 .. MaxWordsOfOne
    <3> SUFFICES ASSUME NEW n \in 1 .. Len(numbered)
                 PROVE  numbered[n].words \in 1 .. MaxWordsOfOne
      BY <1>2
    <3>1. numbered[n] \in NumberedAs
      BY <1>1 DEF AnswerTyped
    <3> QED
      BY <3>1 DEF NumberedAs
  <2> QED
    BY <1>1, <2>1 DEF PromptWithinBudget, BudgetsSoFar
<1>6. SourcesWhileBudgetLasts
  <2> SUFFICES ASSUME answerStep \in {"call", "noSources"}, NEW i \in DOMAIN Listed, HasWords(Listed[i]),
                      \A n \in DOMAIN numbered : numbered[n].section # Listed[i]
               PROVE  Len(numbered) = MaxSources \/ used = MaxWordsOfAll
    BY DEF SourcesWhileBudgetLasts, HasWords
  <2>1. CASE place > Len(Listed)
    <3>1. i \in 1 .. place - 1
      BY <1>2, <1>3, <2>1
    <3> QED
      BY <1>1, <1>2, <3>1 DEF NonePassedOver
  <2>2. CASE Full
    <3>1. /\ Len(numbered) <= MaxSources /\ used <= MaxWordsOfAll /\ used \in Nat
          /\ Len(numbered) >= MaxSources \/ used >= MaxWordsOfAll
      BY <1>1, <2>2 DEF BudgetsSoFar, AnswerTyped, Full
    <3> QED
      BY <1>2, <3>1, AnsweringAssumption
  <2> QED
    BY <1>1, <2>1, <2>2 DEF OverWhenDone
<1>7. CitationsExist
  <2> SUFFICES ASSUME NEW a \in Answers
               PROVE  /\ IsInjective(Citations(a, Len(numbered)))
                      /\ ToSet(Citations(a, Len(numbered))) = ToSet(a) \intersect DOMAIN numbered
                      /\ \A m, n \in DOMAIN Citations(a, Len(numbered)) : m < n =>
                             \E i \in DOMAIN a : /\ a[i] = Citations(a, Len(numbered))[m]
                                               /\ \A j \in 1 .. i : a[j] # Citations(a, Len(numbered))[n]
    BY DEF CitationsExist
  <2> DEFINE cited == Citations(a, Len(numbered))
  <2>1. a \in Seq(Nat) /\ DOMAIN a = 1 .. Len(a) /\ Len(a) \in Nat
    BY AnsweringAssumption
  <2>2. CitesFirst(a, Len(numbered), Len(a), cited)
    BY <1>2, <2>1, CitationsRight
  <2> HIDE DEF cited
  <2>3. cited \in Seq(Nat) /\ DOMAIN cited = 1 .. Len(cited) /\ Len(cited) \in Nat
    BY <2>2 DEF CitesFirst
  <2>4. \A m, n \in DOMAIN cited : m < n =>
            \E i \in DOMAIN a : a[i] = cited[m] /\ \A j \in 1 .. i : a[j] # cited[n]
    <3> SUFFICES ASSUME NEW m \in 1 .. Len(cited), NEW n \in 1 .. Len(cited), m < n
                 PROVE  \E i \in DOMAIN a : a[i] = cited[m] /\ \A j \in 1 .. i : a[j] # cited[n]
      BY <2>3
    <3>1. \E i \in 1 .. Len(a) : a[i] = cited[m] /\ \A j \in 1 .. i : a[j] # cited[n]
      BY <2>2 DEF CitesFirst
    <3> QED
      BY <2>1, <3>1
  <2>5. \A m, n \in DOMAIN cited : m < n => cited[m] # cited[n]
    <3> SUFFICES ASSUME NEW m \in DOMAIN cited, NEW n \in DOMAIN cited, m < n
                 PROVE  cited[m] # cited[n]
      OBVIOUS
    <3>1. PICK i \in 1 .. Len(a) : a[i] = cited[m] /\ \A j \in 1 .. i : a[j] # cited[n]
      BY <2>1, <2>4
    <3>2. i \in 1 .. i
      BY <2>1
    <3> QED
      BY <3>1, <3>2
  <2>6. IsInjective(cited)
    <3> SUFFICES ASSUME NEW m \in DOMAIN cited, NEW n \in DOMAIN cited, cited[m] = cited[n], m # n
                 PROVE  FALSE
      BY DEF IsInjective
    <3>1. m < n \/ n < m
      BY <2>3
    <3> QED
      BY <2>5, <3>1
  <2>7. ToSet(cited) \subseteq ToSet(a) \intersect DOMAIN numbered
    <3> SUFFICES ASSUME NEW m \in 1 .. Len(cited)
                 PROVE  cited[m] \in ToSet(a) \intersect DOMAIN numbered
      BY <2>3 DEF ToSet
    <3>1. cited[m] \in 1 .. Len(numbered) /\ \E j \in 1 .. Len(a) : a[j] = cited[m]
      BY <2>2 DEF CitesFirst
    <3> QED
      BY <1>2, <2>1, <3>1 DEF ToSet
  <2>8. ToSet(a) \intersect DOMAIN numbered \subseteq ToSet(cited)
    <3> SUFFICES ASSUME NEW j \in 1 .. Len(a), a[j] \in 1 .. Len(numbered)
                 PROVE  a[j] \in ToSet(cited)
      BY <1>2, <2>1 DEF ToSet
    <3>1. PICK m \in 1 .. Len(cited) : cited[m] = a[j]
      BY <2>2 DEF CitesFirst
    <3> QED
      BY <2>3, <3>1 DEF ToSet
  <2> QED
    BY <2>4, <2>6, <2>7, <2>8 DEF cited
<1> QED
  BY <1>1, <1>4, <1>5, <1>6, <1>7 DEF AnswerKeepsFaith

\* An answer is of the sources that the model was shown, within its budgets, whatever
\* the stream does and the caller cancels; what it cites are those sources.
THEOREM AnswersSourced == AnswerSpec => []AnswerKeepsFaith
<1>1. AnswerInv /\ [AnswerNext]_answerVars => AnswerInv'
  BY PromptNext, StreamNext DEF AnswerInv
<1> QED
  BY <1>1, AnswerStarts, AnswerHolds, PTL DEF AnswerSpec

-----------------------------------------------------------------------------
(* Results, and what is done to them. *)

EverySection == UNION {UNION {SectionsOf(h[q]) : q \in DOMAIN h} : h \in Hits}
EverySource == UNION {UNION {{r.source : r \in ToSet(h[q])} : q \in DOMAIN h} : h \in Hits}
Results == [source : EverySource, sections : Seq(EverySection)]

SectionsApart(results) ==
    \A i, j \in 1 .. Len(results) : i # j => ToSet(results[i].sections) \intersect ToSet(results[j].sections) = {}

\* A list of results is a sequence, and so are the sections of each.
LEMMA ResultsFacts ==
    ASSUME NEW results \in Seq(Results)
    PROVE  /\ Len(results) \in Nat /\ DOMAIN results = 1 .. Len(results)
           /\ \A i \in 1 .. Len(results) : results[i] \in Results /\ results[i].sections \in Seq(EverySection)
           /\ SectionsOf(results) = UNION {ToSet(results[i].sections) : i \in 1 .. Len(results)}
<1>1. Len(results) \in Nat /\ DOMAIN results = 1 .. Len(results)
  OBVIOUS
<1>2. \A i \in 1 .. Len(results) : results[i] \in Results
  OBVIOUS
<1>3. \A r \in Results : r.sections \in Seq(EverySection)
  BY DEF Results
<1> QED
  BY <1>1, <1>2, <1>3 DEF SectionsOf

\* The elements of a sequence are those at its places.
LEMMA SetOfSeq ==
    ASSUME NEW T, NEW s \in Seq(T)
    PROVE  ToSet(s) = {s[i] : i \in 1 .. Len(s)} /\ (s = <<>> <=> ToSet(s) = {})
<1>1. Len(s) \in Nat /\ DOMAIN s = 1 .. Len(s)
  OBVIOUS
<1>2. ToSet(s) = {s[i] : i \in 1 .. Len(s)}
  BY <1>1 DEF ToSet
<1>3. CASE s = <<>>
  <2>1. Len(s) = 0 /\ 1 .. 0 = {}
    BY <1>3
  <2> QED
    BY <1>2, <1>3, <2>1
<1>4. CASE s # <<>>
  <2>1. 1 \in 1 .. Len(s)
    BY <1>4
  <2> QED
    BY <1>2, <1>4, <2>1
<1> QED
  BY <1>2, <1>3, <1>4

\* What there is of a set in a sequence are the elements of both.
LEMMA AmongSet ==
    ASSUME NEW T, NEW s \in Seq(T), NEW S
    PROVE  Among(s, S) \in Seq(T) /\ ToSet(Among(s, S)) = ToSet(s) \intersect S
<1> DEFINE a == Among(s, S)
<1>1. Taken(T, s, S, Len(s), a)
  BY AmongRight
<1> HIDE DEF a
<1>2. PICK f : TakenAt(s, S, Len(s), a, f)
  BY <1>1 DEF Taken
<1>3. a \in Seq(T)
  BY <1>1 DEF Taken
<1>4. ToSet(s) = {s[i] : i \in 1 .. Len(s)} /\ ToSet(a) = {a[i] : i \in 1 .. Len(a)}
  BY <1>3, SetOfSeq
<1>5. ToSet(a) \subseteq ToSet(s) \intersect S
  BY <1>2, <1>4 DEF TakenAt
<1>6. ASSUME NEW i \in 1 .. Len(s), s[i] \in S
      PROVE  s[i] \in ToSet(a)
  <2>1. PICK m \in 1 .. Len(a) : f[m] = i
    BY <1>2, <1>6 DEF TakenAt
  <2>2. a[m] = s[f[m]]
    BY <1>2 DEF TakenAt
  <2> QED
    BY <1>4, <2>1, <2>2
<1> QED
  BY <1>3, <1>4, <1>5, <1>6 DEF a

\* What the search for a query finds are results whose sections are apart.
LEMMA HitsTyped ==
    ASSUME NEW h \in Hits, NEW q \in DOMAIN h
    PROVE  h[q] \in Seq(Results) /\ SectionsApart(h[q])
<1>1. HitsOf(h, q)
  BY RetrievalAssumption
<1>2. ASSUME NEW r \in ToSet(h[q])
      PROVE  r \in Results
  <2>1. r \in [source : {r.source}, sections : Seq(ToSet(r.sections))]
    BY <1>1 DEF HitsOf
  <2>2. r.source \in EverySource
    BY DEF EverySource
  <2>3. ToSet(r.sections) \subseteq SectionsOf(h[q])
    BY DEF SectionsOf, ToSet
  <2>4. ToSet(r.sections) \subseteq EverySection
    BY <2>3 DEF EverySection
  <2>5. r.sections \in Seq(ToSet(r.sections))
    BY <2>1
  <2>6. r.sections \in Seq(EverySection)
    BY <2>4, <2>5
  <2>7. r = [source |-> r.source, sections |-> r.sections]
    BY <2>1
  <2>8. [source |-> r.source, sections |-> r.sections] \in Results
    BY <2>2, <2>6 DEF Results
  <2> QED
    BY <2>7, <2>8
<1>3. h[q] \in Seq(ToSet(h[q]))
  BY <1>1 DEF HitsOf
<1>4. h[q] \in Seq(Results)
  <2>1. ToSet(h[q]) \subseteq Results
    BY <1>2
  <2> HIDE DEF Results
  <2> QED
    BY <1>3, <2>1
<1>5. DOMAIN h[q] = 1 .. Len(h[q])
  BY <1>3
<1> QED
  BY <1>1, <1>4, <1>5 DEF HitsOf, SectionsApart

\* Results of which some sections stay.
Narrow(results, stay) ==
    [i \in DOMAIN results |-> [results[i] EXCEPT !.sections = Among(results[i].sections, stay[i])]]

NarrowedAt(results, stay, left, f) ==
    /\ f \in [1 .. Len(left) -> 1 .. Len(results)]
    /\ \A m \in 1 .. Len(left) : ToSet(left[m].sections) = ToSet(results[f[m]].sections) \intersect stay[f[m]]
    /\ \A m, n \in 1 .. Len(left) : m < n => f[m] < f[n]
    /\ \A i \in 1 .. Len(results) :
           ToSet(results[i].sections) \intersect stay[i] # {} => \E m \in 1 .. Len(left) : f[m] = i

\* A result of which no section stays goes; the others keep their order.
LEMMA NarrowedRight ==
    ASSUME NEW results \in Seq(Results), NEW stay
    PROVE  /\ WithSections(Narrow(results, stay)) \in Seq(Results)
           /\ \E f : NarrowedAt(results, stay, WithSections(Narrow(results, stay)), f)
<1> DEFINE s == Narrow(results, stay)
           S == {r \in ToSet(s) : r.sections # <<>>}
           left == WithSections(s)
<1>1. /\ Len(results) \in Nat /\ DOMAIN results = 1 .. Len(results)
      /\ \A i \in 1 .. Len(results) : results[i] \in Results /\ results[i].sections \in Seq(EverySection)
  BY ResultsFacts
<1>2. \A i \in 1 .. Len(results) : s[i] = [results[i] EXCEPT !.sections = Among(results[i].sections, stay[i])]
  BY <1>1 DEF Narrow
<1>3. ASSUME NEW i \in 1 .. Len(results)
      PROVE  /\ s[i] \in Results
             /\ ToSet(s[i].sections) = ToSet(results[i].sections) \intersect stay[i]
             /\ s[i].sections = <<>> <=> ToSet(s[i].sections) = {}
  <2>1. /\ Among(results[i].sections, stay[i]) \in Seq(EverySection)
        /\ ToSet(Among(results[i].sections, stay[i])) = ToSet(results[i].sections) \intersect stay[i]
    BY <1>1, AmongSet
  <2>2. results[i] \in [source : EverySource, sections : Seq(EverySection)]
    BY <1>1 DEF Results
  <2>3. s[i].sections = Among(results[i].sections, stay[i]) /\ s[i] \in Results
    BY <1>2, <2>1, <2>2 DEF Results
  <2>4. s[i].sections = <<>> <=> ToSet(s[i].sections) = {}
    BY <2>1, <2>3, SetOfSeq
  <2> QED
    BY <2>1, <2>3, <2>4
<1>4. s \in Seq(Results) /\ Len(s) = Len(results)
  <2>1. s = [i \in 1 .. Len(results) |-> s[i]]
    BY <1>1 DEF Narrow
  <2> HIDE DEF s
  <2> QED
    BY <1>1, <1>3, <2>1
<1> HIDE DEF s
<1>5. Taken(Results, s, S, Len(s), left)
  BY <1>4, AmongRight DEF WithSections
<1> HIDE DEF left
<1>6. PICK f : TakenAt(s, S, Len(s), left, f)
  BY <1>5 DEF Taken
<1>7. \A i \in 1 .. Len(results) : s[i] \in S <=> ToSet(results[i].sections) \intersect stay[i] # {}
  <2>1. ToSet(s) = {s[i] : i \in 1 .. Len(s)}
    BY <1>4, SetOfSeq
  <2> QED
    BY <1>3, <1>4, <2>1
<1> HIDE DEF S
<1>8. /\ f \in [1 .. Len(left) -> 1 .. Len(results)]
      /\ \A m \in 1 .. Len(left) : left[m] = s[f[m]]
      /\ \A m, n \in 1 .. Len(left) : m < n => f[m] < f[n]
      /\ \A i \in 1 .. Len(results) : s[i] \in S => \E m \in 1 .. Len(left) : f[m] = i
  BY <1>4, <1>6 DEF TakenAt
<1>9. \A m \in 1 .. Len(left) : ToSet(left[m].sections) = ToSet(results[f[m]].sections) \intersect stay[f[m]]
  BY <1>3, <1>8
<1>10. NarrowedAt(results, stay, left, f)
  BY <1>7, <1>8, <1>9 DEF NarrowedAt
<1>11. left \in Seq(Results)
  BY <1>5 DEF Taken
<1> QED
  BY <1>10, <1>11 DEF left, s

\* Fusion: each result with the sections no earlier one has.
FusedAt(results, fused, f) ==
    /\ f \in [1 .. Len(fused) -> 1 .. Len(results)]
    /\ \A m \in 1 .. Len(fused) :
           ToSet(fused[m].sections) = ToSet(results[f[m]].sections) \ Earlier(results, f[m])
    /\ \A m, n \in 1 .. Len(fused) : m < n => f[m] < f[n]

\* Fusion loses no section, and leaves each to the first result that has it.
LEMMA FuseRight ==
    ASSUME NEW results \in Seq(Results)
    PROVE  /\ FuseResults(results) \in Seq(Results) /\ SectionsApart(FuseResults(results))
           /\ SectionsOf(FuseResults(results)) = SectionsOf(results)
           /\ \E f : FusedAt(results, FuseResults(results), f)
<1> DEFINE N == Len(results)
           stay == [i \in 1 .. N |-> ToSet(results[i].sections) \ Earlier(results, i)]
           fused == FuseResults(results)
<1>1. /\ N \in Nat /\ DOMAIN results = 1 .. N
      /\ SectionsOf(results) = UNION {ToSet(results[i].sections) : i \in 1 .. N}
  BY ResultsFacts
<1>2. fused = WithSections(Narrow(results, stay))
  <2>1. Narrow(results, stay) =
            [i \in DOMAIN results |->
                [results[i] EXCEPT !.sections =
                    Among(results[i].sections, ToSet(results[i].sections) \ Earlier(results, i))]]
    BY <1>1 DEF Narrow
  <2> QED
    BY <2>1 DEF FuseResults
<1>3. \A i \in 1 .. N : stay[i] = ToSet(results[i].sections) \ Earlier(results, i)
  OBVIOUS
<1> HIDE DEF stay, fused
<1>4. fused \in Seq(Results) /\ \E f : NarrowedAt(results, stay, fused, f)
  BY <1>2, NarrowedRight
<1>5. PICK f : NarrowedAt(results, stay, fused, f)
  BY <1>4
<1>6. /\ Len(fused) \in Nat /\ DOMAIN fused = 1 .. Len(fused)
      /\ SectionsOf(fused) = UNION {ToSet(fused[m].sections) : m \in 1 .. Len(fused)}
  BY <1>4, ResultsFacts
<1>7. /\ f \in [1 .. Len(fused) -> 1 .. N]
      /\ \A m, n \in 1 .. Len(fused) : m < n => f[m] < f[n]
      /\ \A m \in 1 .. Len(fused) : ToSet(fused[m].sections) = ToSet(results[f[m]].sections) \ Earlier(results, f[m])
  <2>1. \A m \in 1 .. Len(fused) : f[m] \in 1 .. N
    BY <1>5 DEF NarrowedAt
  <2>2. ASSUME NEW m \in 1 .. Len(fused)
        PROVE  ToSet(fused[m].sections) = ToSet(results[f[m]].sections) \ Earlier(results, f[m])
    <3>1. ToSet(fused[m].sections) = ToSet(results[f[m]].sections) \intersect stay[f[m]]
      BY <1>5 DEF NarrowedAt
    <3>2. stay[f[m]] = ToSet(results[f[m]].sections) \ Earlier(results, f[m])
      BY <1>3, <2>1
    <3> QED
      BY <3>1, <3>2
  <2>3. /\ f \in [1 .. Len(fused) -> 1 .. N]
        /\ \A m, n \in 1 .. Len(fused) : m < n => f[m] < f[n]
    BY <1>5 DEF NarrowedAt
  <2> QED
    BY <2>2, <2>3
<1>8. FusedAt(results, fused, f)
  BY <1>7 DEF FusedAt
<1>9. SectionsOf(fused) \subseteq SectionsOf(results)
  <2> SUFFICES ASSUME NEW m \in 1 .. Len(fused)
               PROVE  ToSet(fused[m].sections) \subseteq SectionsOf(results)
    BY <1>6
  <2>1. f[m] \in 1 .. N /\ ToSet(fused[m].sections) \subseteq ToSet(results[f[m]].sections)
    BY <1>7
  <2> QED
    BY <1>1, <2>1
<1>10. SectionsOf(results) \subseteq SectionsOf(fused)
  <2> SUFFICES ASSUME NEW k \in 1 .. N, NEW s \in ToSet(results[k].sections)
               PROVE  \E m \in 1 .. Len(fused) : s \in ToSet(fused[m].sections)
    BY <1>1, <1>6
  <2> DEFINE S == {i \in 1 .. N : s \in ToSet(results[i].sections)}
  <2>1. k \in S \intersect Nat
    BY <1>1
  <2>2. PICK i \in S \intersect Nat : \A j \in S \intersect Nat : ~(j < i)
    BY <2>1, LeastNumber
  <2>3. i \in 1 .. N /\ s \in ToSet(results[i].sections)
    BY <2>2
  <2>4. \A j \in 1 .. i - 1 : j \in 1 .. N /\ j \in Nat /\ j < i
    BY <1>1, <2>3
  <2>5. s \notin Earlier(results, i)
    BY <2>2, <2>4 DEF Earlier
  <2>6. s \in ToSet(results[i].sections) \intersect stay[i]
    BY <1>3, <2>3, <2>5
  <2>7. PICK m \in 1 .. Len(fused) : f[m] = i
    BY <1>5, <2>3, <2>6 DEF NarrowedAt
  <2>8. ToSet(fused[m].sections) = ToSet(results[i].sections) \ Earlier(results, i)
    BY <1>7, <2>7
  <2> QED
    BY <2>3, <2>5, <2>8
<1>11. ASSUME NEW m \in 1 .. Len(fused), NEW n \in 1 .. Len(fused), m < n
       PROVE  ToSet(fused[m].sections) \intersect ToSet(fused[n].sections) = {}
  <2>1. f[m] \in 1 .. N /\ f[n] \in 1 .. N /\ f[m] < f[n]
    BY <1>7, <1>11
  <2>2. f[m] \in 1 .. f[n] - 1
    BY <1>1, <2>1
  <2>3. ToSet(results[f[m]].sections) \subseteq Earlier(results, f[n])
    BY <2>2 DEF Earlier
  <2> QED
    BY <1>7, <2>3
<1>12. SectionsApart(fused)
  <2> SUFFICES ASSUME NEW m \in 1 .. Len(fused), NEW n \in 1 .. Len(fused), m # n
               PROVE  ToSet(fused[m].sections) \intersect ToSet(fused[n].sections) = {}
    BY DEF SectionsApart
  <2>1. m < n \/ n < m
    BY <1>6
  <2> QED
    BY <1>11, <2>1
<1> QED
  BY <1>4, <1>8, <1>9, <1>10, <1>12 DEF fused

\* What is kept of results as relevant is of them, and relevant.
LEMMA FilterRight ==
    ASSUME NEW results \in Seq(Results), SectionsApart(results), NEW relevant
    PROVE  /\ FilterRelevant(results, relevant) \in Seq(Results)
           /\ SectionsApart(FilterRelevant(results, relevant))
           /\ SectionsOf(FilterRelevant(results, relevant)) \subseteq SectionsOf(results) \intersect relevant
<1> DEFINE N == Len(results)
           stay == [i \in 1 .. N |-> relevant]
           left == FilterRelevant(results, relevant)
<1>1. /\ N \in Nat /\ DOMAIN results = 1 .. N
      /\ SectionsOf(results) = UNION {ToSet(results[i].sections) : i \in 1 .. N}
  BY ResultsFacts
<1>2. left = WithSections(Narrow(results, stay))
  <2>1. Narrow(results, stay) =
            [i \in DOMAIN results |->
                [results[i] EXCEPT !.sections = Among(results[i].sections, relevant)]]
    BY <1>1 DEF Narrow
  <2> QED
    BY <2>1 DEF FilterRelevant
<1>3. \A i \in 1 .. N : stay[i] = relevant
  OBVIOUS
<1> HIDE DEF stay, left
<1>4. left \in Seq(Results) /\ \E f : NarrowedAt(results, stay, left, f)
  BY <1>2, NarrowedRight
<1>5. PICK f : NarrowedAt(results, stay, left, f)
  BY <1>4
<1>6. /\ Len(left) \in Nat /\ DOMAIN left = 1 .. Len(left)
      /\ SectionsOf(left) = UNION {ToSet(left[m].sections) : m \in 1 .. Len(left)}
  BY <1>4, ResultsFacts
<1>7. \A m \in 1 .. Len(left) :
          f[m] \in 1 .. N /\ ToSet(left[m].sections) = ToSet(results[f[m]].sections) \intersect relevant
  BY <1>3, <1>5 DEF NarrowedAt
<1>8. SectionsOf(left) \subseteq SectionsOf(results) \intersect relevant
  BY <1>1, <1>6, <1>7
<1>9. SectionsApart(left)
  <2> SUFFICES ASSUME NEW m \in 1 .. Len(left), NEW n \in 1 .. Len(left), m # n
               PROVE  ToSet(left[m].sections) \intersect ToSet(left[n].sections) = {}
    BY DEF SectionsApart
  <2>1. m < n \/ n < m
    BY <1>6
  <2>2. f[m] < f[n] \/ f[n] < f[m]
    BY <1>5, <2>1 DEF NarrowedAt
  <2>3. f[m] \in 1 .. N /\ f[n] \in 1 .. N /\ f[m] # f[n]
    BY <1>1, <1>7, <2>2
  <2>4. ToSet(results[f[m]].sections) \intersect ToSet(results[f[n]].sections) = {}
    BY <2>3 DEF SectionsApart
  <2> QED
    BY <1>7, <2>4
<1> QED
  BY <1>4, <1>8, <1>9 DEF left

\* Some results, then the others: no section goes.
LEMMA DemoteRight ==
    ASSUME NEW results \in Seq(Results), SectionsApart(results), NEW relevant
    PROVE  /\ DemoteIrrelevant(results, relevant) \in Seq(Results)
           /\ SectionsApart(DemoteIrrelevant(results, relevant))
           /\ SectionsOf(DemoteIrrelevant(results, relevant)) = SectionsOf(results)
<1> DEFINE N == Len(results)
           some == {r \in ToSet(results) : ToSet(r.sections) \intersect relevant # {}}
           rest == ToSet(results) \ some
           one == Among(results, some)
           two == Among(results, rest)
           all == DemoteIrrelevant(results, relevant)
<1>1. /\ N \in Nat /\ DOMAIN results = 1 .. N
      /\ SectionsOf(results) = UNION {ToSet(results[i].sections) : i \in 1 .. N}
      /\ \A i \in 1 .. N : results[i] \in some \/ results[i] \in rest
  <2>1. ToSet(results) = {results[i] : i \in 1 .. N}
    BY SetOfSeq
  <2> QED
    BY <2>1, ResultsFacts
<1>2. all = one \o two
  BY DEF DemoteIrrelevant
<1>3. \A r : ~(r \in some /\ r \in rest)
  OBVIOUS
<1> HIDE DEF some, rest
<1>4. Taken(Results, results, some, N, one) /\ Taken(Results, results, rest, N, two)
  BY AmongRight
<1> HIDE DEF one, two, all
<1>5. PICK f : TakenAt(results, some, N, one, f)
  BY <1>4 DEF Taken
<1>6. PICK g : TakenAt(results, rest, N, two, g)
  BY <1>4 DEF Taken
<1>7. one \in Seq(Results) /\ two \in Seq(Results) /\ Len(one) \in Nat /\ Len(two) \in Nat
  BY <1>4 DEF Taken
<1> DEFINE A == Len(one)
           B == Len(two)
<1>8. /\ all \in Seq(Results) /\ Len(all) = A + B /\ \A i \in 1 .. A : all[i] = one[i]
      /\ \A i \in 1 .. B : all[A + i] = two[i]
  BY <1>2, <1>7, Concatenated
<1>9. \A m \in 1 .. A + B : m \in 1 .. A \/ (m - A \in 1 .. B /\ A + (m - A) = m)
  BY <1>7
<1>10. \A m \in 1 .. A : m \in 1 .. A + B
  BY <1>7
<1>11. \A k \in 1 .. B : A + k \in 1 .. A + B
  BY <1>7
<1>12. \A m \in 1 .. A : f[m] \in 1 .. N /\ one[m] = results[f[m]] /\ one[m] \in some
  BY <1>5 DEF TakenAt
<1>13. \A m \in 1 .. B : g[m] \in 1 .. N /\ two[m] = results[g[m]] /\ two[m] \in rest
  BY <1>6 DEF TakenAt
<1> DEFINE h == [m \in 1 .. A + B |-> IF m \in 1 .. A THEN f[m] ELSE g[m - A]]
<1>14. \A m \in 1 .. A + B : h[m] \in 1 .. N /\ all[m] = results[h[m]]
  <2> SUFFICES ASSUME NEW m \in 1 .. A + B
               PROVE  h[m] \in 1 .. N /\ all[m] = results[h[m]]
    OBVIOUS
  <2>1. CASE m \in 1 .. A
    BY <1>8, <1>12, <2>1
  <2>2. CASE m \notin 1 .. A
    <3>1. m - A \in 1 .. B /\ A + (m - A) = m /\ h[m] = g[m - A]
      BY <1>9, <2>2
    <3>2. all[A + (m - A)] = two[m - A]
      BY <1>8, <3>1
    <3> QED
      BY <1>13, <3>1, <3>2
  <2> QED
    BY <2>1, <2>2
<1>15. ASSUME NEW m \in 1 .. A + B, NEW n \in 1 .. A + B, m < n
       PROVE  h[m] # h[n]
  <2>1. CASE n \in 1 .. A
    <3>1. m \in 1 .. A
      BY <1>7, <1>15, <2>1
    <3>2. f[m] < f[n]
      BY <1>5, <1>15, <2>1, <3>1 DEF TakenAt
    <3>3. h[m] = f[m] /\ h[n] = f[n] /\ f[m] \in 1 .. N
      BY <1>12, <2>1, <3>1
    <3> QED
      BY <3>2, <3>3
  <2>2. CASE n \notin 1 .. A /\ m \in 1 .. A
    <3>1. n - A \in 1 .. B /\ h[n] = g[n - A] /\ h[m] = f[m]
      BY <1>9, <2>2
    <3>2. results[h[m]] \in some /\ results[h[n]] \in rest
      BY <1>12, <1>13, <2>2, <3>1
    <3> QED
      BY <1>3, <3>2
  <2>3. CASE m \notin 1 .. A
    <3>1. n \notin 1 .. A
      BY <1>7, <1>15, <2>3
    <3>2. m - A \in 1 .. B /\ n - A \in 1 .. B /\ h[m] = g[m - A] /\ h[n] = g[n - A]
      BY <1>9, <2>3, <3>1
    <3>3. m - A < n - A
      BY <1>7, <1>15
    <3>4. g[m - A] < g[n - A]
      BY <1>6, <3>2, <3>3 DEF TakenAt
    <3>5. g[m - A] \in 1 .. N
      BY <1>13, <3>2
    <3> QED
      BY <3>2, <3>4, <3>5
  <2> QED
    BY <2>1, <2>2, <2>3
<1>16. SectionsApart(all)
  <2> SUFFICES ASSUME NEW m \in 1 .. A + B, NEW n \in 1 .. A + B, m # n
               PROVE  ToSet(all[m].sections) \intersect ToSet(all[n].sections) = {}
    BY <1>8 DEF SectionsApart
  <2>1. m < n \/ n < m
    BY <1>7
  <2>2. h[m] # h[n]
    BY <1>15, <2>1
  <2> HIDE DEF h
  <2> QED
    BY <1>14, <2>2 DEF SectionsApart
<1>17. \A i \in 1 .. N : \E m \in 1 .. A + B : all[m] = results[i]
  <2> SUFFICES ASSUME NEW i \in 1 .. N
               PROVE  \E m \in 1 .. A + B : all[m] = results[i]
    OBVIOUS
  <2>1. CASE results[i] \in some
    <3>1. PICK m \in 1 .. A : f[m] = i
      BY <1>5, <2>1 DEF TakenAt
    <3>2. one[m] = results[i]
      BY <1>12, <3>1
    <3> QED
      BY <1>8, <1>10, <3>2
  <2>2. CASE results[i] \in rest
    <3>1. PICK m \in 1 .. B : g[m] = i
      BY <1>6, <2>2 DEF TakenAt
    <3>2. two[m] = results[i]
      BY <1>13, <3>1
    <3> QED
      BY <1>8, <1>11, <3>2
  <2> QED
    BY <1>1, <2>1, <2>2
<1>18. SectionsOf(all) = SectionsOf(results)
  <2>1. SectionsOf(all) = UNION {ToSet(all[m].sections) : m \in 1 .. A + B}
    <3>1. SectionsOf(all) = UNION {ToSet(all[m].sections) : m \in 1 .. Len(all)}
      BY <1>8, ResultsFacts
    <3> QED
      BY <1>8, <3>1
  <2> HIDE DEF h
  <2>2. \A m \in 1 .. A + B : ToSet(all[m].sections) \subseteq SectionsOf(results)
    BY <1>1, <1>14
  <2>3. \A i \in 1 .. N : ToSet(results[i].sections) \subseteq SectionsOf(all)
    BY <1>17, <2>1
  <2> QED
    BY <1>1, <2>1, <2>2, <2>3
<1> QED
  BY <1>8, <1>16, <1>18 DEF all

-----------------------------------------------------------------------------
(* The queries of a retrieval. *)

\* What is taken of a sequence without repetitions has none.
LEMMA AmongInjective ==
    ASSUME NEW T, NEW s \in Seq(T), NEW S, IsInjective(s)
    PROVE  IsInjective(Among(s, S)) /\ Len(Among(s, S)) <= Len(s)
<1> DEFINE a == Among(s, S)
<1>1. Taken(T, s, S, Len(s), a)
  BY AmongRight
<1> HIDE DEF a
<1>2. PICK f : TakenAt(s, S, Len(s), a, f)
  BY <1>1 DEF Taken
<1>3. a \in Seq(T) /\ Len(a) \in Nat /\ DOMAIN a = 1 .. Len(a) /\ DOMAIN s = 1 .. Len(s)
  BY <1>1 DEF Taken
<1>4. ASSUME NEW m \in 1 .. Len(a), NEW n \in 1 .. Len(a), m < n
      PROVE  a[m] # a[n]
  <2>1. f[m] \in 1 .. Len(s) /\ f[n] \in 1 .. Len(s) /\ f[m] < f[n] /\ a[m] = s[f[m]] /\ a[n] = s[f[n]]
    BY <1>2, <1>4 DEF TakenAt
  <2>2. f[m] # f[n]
    BY <2>1
  <2> QED
    BY <1>3, <2>1, <2>2 DEF IsInjective
<1>5. IsInjective(a)
  <2> SUFFICES ASSUME NEW m \in 1 .. Len(a), NEW n \in 1 .. Len(a), m # n
               PROVE  a[m] # a[n]
    BY <1>3 DEF IsInjective
  <2>1. m < n \/ n < m
    BY <1>3
  <2> QED
    BY <1>4, <2>1
<1>6. Len(a) <= Len(s)
  BY <1>2 DEF TakenAt
<1> QED
  BY <1>5, <1>6 DEF a

\* The sub-queries are queries, each once, and not too many.
LEMMA SubQueriesRight ==
    ASSUME NEW D, asked \in D, {Trimmed[w] : w \in DOMAIN Trimmed} \ {Blank} \subseteq D,
           NEW written \in Seq(DOMAIN Trimmed)
    PROVE  /\ SubQueries(written) \in Seq(D) /\ IsInjective(SubQueries(written))
           /\ Len(SubQueries(written)) <= MaxSubQueries
<1> DEFINE N == Len(written)
           read == [i \in DOMAIN written |-> Trimmed[written[i]]]
           First == {i \in DOMAIN read : read[i] # Blank /\ \A j \in 1 .. i - 1 : read[j] # read[i]}
           places == [i \in DOMAIN read |-> i]
           first == Among(places, First)
           count == IF Len(first) < MaxSubQueries THEN Len(first) ELSE MaxSubQueries
<1>1. N \in Nat /\ DOMAIN written = 1 .. N /\ MaxSubQueries \in Nat \ {0}
  BY RetrievalAssumption
<1>2. SubQueries(written) = IF first = <<>> THEN <<asked>> ELSE [n \in 1 .. count |-> read[first[n]]]
  BY DEF SubQueries
<1>3. \A i \in 1 .. N : read[i] \in {Trimmed[w] : w \in DOMAIN Trimmed}
  BY <1>1
<1>4. DOMAIN read = 1 .. N
  BY <1>1
<1>5. places \in Seq(Nat) /\ Len(places) = N /\ \A i \in 1 .. N : places[i] = i
  <2>1. places = [i \in 1 .. N |-> i]
    BY <1>4
  <2> HIDE DEF places
  <2> QED
    BY <1>1, <2>1
<1>6. \A i \in First : /\ i \in 1 .. N /\ read[i] # Blank
                       /\ \A j \in 1 .. i - 1 : read[j] # read[i]
  BY <1>4
<1> HIDE DEF read, First, places
<1>7. Taken(Nat, places, First, N, first)
  BY <1>5, AmongRight
<1> HIDE DEF first
<1>8. PICK f : TakenAt(places, First, N, first, f)
  BY <1>7 DEF Taken
<1>9. first \in Seq(Nat) /\ Len(first) \in Nat
  BY <1>7 DEF Taken
<1>10. \A m \in 1 .. Len(first) : first[m] \in First /\ f[m] \in 1 .. N /\ first[m] = f[m]
  BY <1>5, <1>8 DEF TakenAt
<1>11. ASSUME NEW m \in 1 .. Len(first), NEW n \in 1 .. Len(first), m < n
       PROVE  read[first[m]] # read[first[n]]
  <2>1. f[m] < f[n]
    BY <1>8, <1>11 DEF TakenAt
  <2>2. first[m] \in 1 .. first[n] - 1
    BY <1>1, <1>10, <2>1
  <2>3. first[n] \in First
    BY <1>10
  <2> QED
    BY <1>6, <2>2, <2>3
<1>12. CASE first = <<>>
  <2>1. SubQueries(written) = <<asked>>
    BY <1>2, <1>12
  <2>2. <<asked>> \in Seq(D) /\ Len(<<asked>>) = 1 /\ IsInjective(<<asked>>)
    BY DEF IsInjective
  <2> QED
    BY <1>1, <2>1, <2>2
<1>13. CASE first # <<>>
  <2> DEFINE named == [n \in 1 .. count |-> read[first[n]]]
  <2>1. count \in Nat /\ count <= MaxSubQueries /\ \A n \in 1 .. count : n \in 1 .. Len(first)
    BY <1>1, <1>9
  <2>2. SubQueries(written) = named
    BY <1>2, <1>13
  <2> HIDE DEF count
  <2>3. \A n \in 1 .. count : read[first[n]] \in D
    <3> SUFFICES ASSUME NEW n \in 1 .. count
                 PROVE  read[first[n]] \in D
      OBVIOUS
    <3>1. first[n] \in First
      BY <1>10, <2>1
    <3> QED
      BY <1>3, <1>6, <3>1
  <2>4. named \in Seq(D) /\ Len(named) = count /\ DOMAIN named = 1 .. count
    BY <2>1, <2>3
  <2>5. ASSUME NEW m \in 1 .. count, NEW n \in 1 .. count, m # n
        PROVE  named[m] # named[n]
    <3>1. m < n \/ n < m
      <4>1. m \in Nat /\ n \in Nat
        BY <2>1
      <4> QED
        BY <2>5, <4>1
    <3>2. m \in 1 .. Len(first) /\ n \in 1 .. Len(first)
      BY <2>1
    <3>3. read[first[m]] # read[first[n]]
      BY <1>11, <3>1, <3>2
    <3> QED
      BY <3>3
  <2> HIDE DEF named
  <2>6. IsInjective(named)
    BY <2>4, <2>5 DEF IsInjective
  <2> QED
    BY <2>1, <2>2, <2>4, <2>6
<1> QED
  BY <1>12, <1>13

\* The query itself comes first, then its parts, none of them twice.
LEMMA QueriesRight ==
    ASSUME NEW D, asked \in D, {Trimmed[w] : w \in DOMAIN Trimmed} \ {Blank} \subseteq D,
           NEW written \in Seq(DOMAIN Trimmed)
    PROVE  /\ Queries(written) \in Seq(D) /\ IsInjective(Queries(written))
           /\ Len(Queries(written)) \in 1 .. MaxSubQueries + 1 /\ Queries(written)[1] = asked
<1> DEFINE parts == SubQueries(written)
           others == Among(parts, ToSet(parts) \ {asked})
           all == Queries(written)
<1>1. parts \in Seq(D) /\ IsInjective(parts) /\ Len(parts) <= MaxSubQueries /\ Len(parts) \in Nat
  BY SubQueriesRight
<1>2. all = <<asked>> \o others
  BY DEF Queries
<1> HIDE DEF parts
<1>3. others \in Seq(D) /\ ToSet(others) = ToSet(parts) \intersect (ToSet(parts) \ {asked})
  BY <1>1, AmongSet
<1>4. IsInjective(others) /\ Len(others) <= Len(parts)
  BY <1>1, AmongInjective
<1> HIDE DEF others, all
<1> DEFINE N == Len(others)
<1>5. N \in Nat /\ DOMAIN others = 1 .. N /\ \A i \in 1 .. N : others[i] # asked
  <2>1. ToSet(others) = {others[i] : i \in 1 .. Len(others)}
    BY <1>3, SetOfSeq
  <2>2. asked \notin ToSet(others)
    BY <1>3
  <2>3. Len(others) \in Nat /\ DOMAIN others = 1 .. Len(others)
    BY <1>3
  <2> QED
    BY <2>1, <2>2, <2>3
<1>6. <<asked>> \in Seq(D) /\ Len(<<asked>>) = 1 /\ <<asked>>[1] = asked /\ 1 \in 1 .. 1
  OBVIOUS
<1>7. /\ all \in Seq(D) /\ Len(all) = 1 + N /\ all[1] = asked
      /\ \A i \in 1 .. N : all[1 + i] = others[i]
  <2>1. /\ <<asked>> \o others \in Seq(D) /\ Len(<<asked>> \o others) = Len(<<asked>>) + Len(others)
        /\ \A i \in 1 .. Len(<<asked>>) : (<<asked>> \o others)[i] = <<asked>>[i]
        /\ \A i \in 1 .. Len(others) : (<<asked>> \o others)[Len(<<asked>>) + i] = others[i]
    BY <1>3, <1>6, Concatenated
  <2> QED
    BY <1>2, <1>6, <2>1
<1>8. \A i \in 1 .. 1 + N : i = 1 \/ (i - 1 \in 1 .. N /\ 1 + (i - 1) = i)
  BY <1>5
<1>9. \A i \in 1 .. 1 + N : i # 1 => all[i] = others[i - 1] /\ all[i] # all[1]
  <2> SUFFICES ASSUME NEW i \in 1 .. 1 + N, i # 1
               PROVE  all[i] = others[i - 1] /\ all[i] # all[1]
    OBVIOUS
  <2>1. i - 1 \in 1 .. N /\ 1 + (i - 1) = i
    BY <1>8
  <2>2. all[1 + (i - 1)] = others[i - 1]
    BY <1>7, <2>1
  <2>3. others[i - 1] # asked
    BY <1>5, <2>1
  <2> QED
    BY <1>7, <2>1, <2>2, <2>3
<1>10. ASSUME NEW i \in 1 .. 1 + N, NEW j \in 1 .. 1 + N, i # j
       PROVE  all[i] # all[j]
  <2>1. CASE i = 1 \/ j = 1
    BY <1>9, <1>10, <2>1
  <2>2. CASE i # 1 /\ j # 1
    <3>1. i - 1 \in 1 .. N /\ j - 1 \in 1 .. N /\ i - 1 # j - 1
      BY <1>8, <1>10, <2>2
    <3>2. others[i - 1] # others[j - 1]
      BY <1>4, <1>5, <3>1 DEF IsInjective
    <3> QED
      BY <1>9, <2>2, <3>2
  <2> QED
    BY <2>1, <2>2
<1>11. DOMAIN all = 1 .. 1 + N
  BY <1>7
<1>12. IsInjective(all)
  BY <1>10, <1>11 DEF IsInjective
<1>13. Len(all) \in 1 .. MaxSubQueries + 1
  BY <1>1, <1>4, <1>5, <1>7, RetrievalAssumption
<1> QED
  BY <1>7, <1>12, <1>13 DEF all

-----------------------------------------------------------------------------
(* What holds throughout a retrieval. *)

RetrievalSpec == RetrievalInit /\ [][RetrievalNext]_retrievalVars

RetrievalPhases == {"new", "decompose", "search", "evaluate", "reformulate", "done", "failed"}
LegStates == {"waits", "searches", "done", "failed"}
Stages == {"decompose", "evaluate", "reformulate"}
VerdictsGiven == [status : {"none", "valid", "partial", "invalid"}, score : 0 .. 10]

Going ==
    /\ phase \in RetrievalPhases /\ setting \in Settings /\ hits \in Hits /\ asked \in DOMAIN hits
    /\ evidence \in Seq(Results) /\ SectionsApart(evidence)
    /\ verdict \in VerdictsGiven /\ rounds \in Nat /\ calls \in [Stages -> Nat]

\* Each query has its search, and one that is done has left what it found.
Split ==
    /\ queries \in Seq(DOMAIN hits) /\ IsInjective(queries) /\ Len(queries) <= MaxSubQueries + 1
    /\ legs \in Seq(LegStates) /\ Len(legs) = Len(queries)
    /\ groups \in Seq(Seq(Results)) /\ Len(groups) = Len(queries)
    /\ \A i \in 1 .. Len(queries) : legs[i] = "done" => groups[i] = hits[queries[i]]

NotBegun ==
    phase = "new" =>
        /\ verdict = NoVerdict /\ judged = {} /\ rounds = 0 /\ asked = Question
        /\ queries = <<>> /\ legs = <<>> /\ groups = <<>>

AskedFirst ==
    /\ phase = "search" => Len(queries) >= 1 /\ queries[1] = asked
    /\ rounds = 0 => asked = Question

RetrievalBase == Going /\ Split /\ NotBegun /\ AskedFirst

\* The queries, none of which has been searched for.
LEMMA LegsForRight ==
    ASSUME NEW qs, LegsFor(qs), qs \in Seq(DOMAIN hits'), IsInjective(qs), Len(qs) <= MaxSubQueries + 1
    PROVE  Split'
<1>1. queries' = qs /\ legs' = [i \in DOMAIN qs |-> "waits"] /\ groups' = [i \in DOMAIN qs |-> <<>>]
  BY DEF LegsFor
<1>2. Len(qs) \in Nat /\ DOMAIN qs = 1 .. Len(qs)
  OBVIOUS
<1>3. legs' \in Seq(LegStates) /\ Len(legs') = Len(qs) /\ \A i \in 1 .. Len(qs) : legs'[i] = "waits"
  BY <1>1, <1>2 DEF LegStates
<1>4. groups' \in Seq(Seq(Results)) /\ Len(groups') = Len(qs)
  <2>1. <<>> \in Seq(Results)
    OBVIOUS
  <2> QED
    BY <1>1, <1>2, <2>1
<1> QED
  BY <1>1, <1>3, <1>4 DEF Split

\* A query is split, or searched for as it is.
LEMMA RetrieveRight ==
    ASSUME NEW query, NEW runs, Retrieve(query, runs), query \in DOMAIN hits',
           UNCHANGED <<queries, legs, groups>> => Split'
    PROVE  /\ Split' /\ asked' = query /\ phase' \in {"decompose", "search"}
           /\ phase' = "search" => Len(queries') >= 1 /\ queries'[1] = asked'
<1>1. asked' = query
  BY DEF Retrieve
<1>2. CASE runs
  <2>1. phase' = "decompose" /\ UNCHANGED <<queries, legs, groups>>
    BY <1>2 DEF Retrieve
  <2> QED
    BY <1>1, <2>1
<1>3. CASE ~runs
  <2>1. LegsFor(<<query>>)
    BY <1>3 DEF Retrieve
  <2>2. /\ <<query>> \in Seq(DOMAIN hits') /\ Len(<<query>>) = 1 /\ <<query>>[1] = query
        /\ IsInjective(<<query>>)
    BY DEF IsInjective
  <2>3. 1 <= MaxSubQueries + 1
    BY RetrievalAssumption
  <2>4. Split'
    BY <2>1, <2>2, <2>3, LegsForRight
  <2>5. phase' = "search" /\ queries' = <<query>>
    BY <2>1 DEF LegsFor
  <2> QED
    BY <1>1, <2>2, <2>4, <2>5
<1> QED
  BY <1>2, <1>3

\* One list after the other has the sections of both.
LEMMA SectionsOfBoth ==
    ASSUME NEW one \in Seq(Results), NEW two \in Seq(Results)
    PROVE  one \o two \in Seq(Results) /\ SectionsOf(one \o two) = SectionsOf(one) \union SectionsOf(two)
<1> DEFINE all == one \o two
           A == Len(one)
           B == Len(two)
<1>1. /\ all \in Seq(Results) /\ Len(all) = A + B /\ \A i \in 1 .. A : all[i] = one[i]
      /\ \A i \in 1 .. B : all[A + i] = two[i]
  BY Concatenated
<1>2. /\ A \in Nat /\ SectionsOf(one) = UNION {ToSet(one[i].sections) : i \in 1 .. A}
      /\ B \in Nat /\ SectionsOf(two) = UNION {ToSet(two[i].sections) : i \in 1 .. B}
  BY ResultsFacts
<1> HIDE DEF all
<1>3. SectionsOf(all) = UNION {ToSet(all[i].sections) : i \in 1 .. A + B}
  <2>1. SectionsOf(all) = UNION {ToSet(all[i].sections) : i \in 1 .. Len(all)}
    BY <1>1, ResultsFacts
  <2> QED
    BY <1>1, <2>1
<1> HIDE DEF A, B
<1>4. \A i \in 1 .. A : i \in 1 .. A + B
  BY <1>2
<1>5. \A i \in 1 .. B : A + i \in 1 .. A + B
  BY <1>2
<1>6. \A m \in 1 .. A + B : m \in 1 .. A \/ (m - A \in 1 .. B /\ A + (m - A) = m)
  BY <1>2
<1>7. \A i \in 1 .. A : ToSet(one[i].sections) \subseteq SectionsOf(all)
  BY <1>1, <1>3, <1>4
<1>8. \A i \in 1 .. B : ToSet(two[i].sections) \subseteq SectionsOf(all)
  BY <1>1, <1>3, <1>5
<1>9. ASSUME NEW m \in 1 .. A + B
      PROVE  ToSet(all[m].sections) \subseteq SectionsOf(one) \union SectionsOf(two)
  <2>1. CASE m \in 1 .. A
    BY <1>1, <1>2, <2>1
  <2>2. CASE m - A \in 1 .. B /\ A + (m - A) = m
    <3>1. all[A + (m - A)] = two[m - A]
      BY <1>1, <2>2
    <3> QED
      BY <1>2, <2>2, <3>1
  <2> QED
    BY <1>6, <2>1, <2>2
<1>10. SectionsOf(all) = SectionsOf(one) \union SectionsOf(two)
  <2>1. SectionsOf(one) \subseteq SectionsOf(all)
    BY <1>2, <1>7
  <2>2. SectionsOf(two) \subseteq SectionsOf(all)
    BY <1>2, <1>8
  <2>3. SectionsOf(all) \subseteq SectionsOf(one) \union SectionsOf(two)
    BY <1>3, <1>9
  <2> QED
    BY <2>1, <2>2, <2>3
<1> QED
  BY <1>1, <1>10 DEF all

\* The queries whose answers lead, result by result.
LeadAt(results, p) ==
    /\ p \in [1 .. Len(results) -> 1 .. Len(queries)]
    /\ \A m, n \in 1 .. Len(results) : m < n => p[m] <= p[n]
    /\ \A m \in 1 .. Len(results) : \A s \in ToSet(results[m].sections) :
           /\ s \in SectionsOf(hits[queries[p[m]]])
           /\ \A j \in 1 .. p[m] - 1 : s \notin SectionsOf(hits[queries[j]])

\* What the searches found is what each found, the earlier queries first.
LEMMA FoundRight ==
    ASSUME RetrievalBase, phase = "search", \A i \in DOMAIN legs : legs[i] = "done"
    PROVE  /\ Found \in Seq(Results) /\ SectionsApart(Found)
           /\ SectionsOf(hits[asked]) \subseteq SectionsOf(Found)
           /\ \E p : LeadAt(Found, p)
<1> DEFINE N == Len(queries)
<1>1. /\ N \in Nat /\ N >= 1 /\ queries[1] = asked /\ DOMAIN groups = 1 .. N /\ 1 \in 1 .. N
      /\ Len(groups) = N /\ groups \in Seq(Seq(Results)) /\ \A i \in 1 .. N : queries[i] \in DOMAIN hits
  <2>1. queries \in Seq(DOMAIN hits) /\ groups \in Seq(Seq(Results)) /\ Len(groups) = N
    BY DEF RetrievalBase, Split
  <2>2. N >= 1 /\ queries[1] = asked
    BY DEF RetrievalBase, AskedFirst
  <2> QED
    BY <2>1, <2>2
<1>2. \A i \in 1 .. N : groups[i] = hits[queries[i]]
  <2>1. DOMAIN legs = 1 .. N
    BY DEF RetrievalBase, Split
  <2> QED
    BY <2>1 DEF RetrievalBase, Split
<1>3. \A i \in 1 .. N : groups[i] \in Seq(Results) /\ SectionsApart(groups[i])
  <2>1. hits \in Hits
    BY DEF RetrievalBase, Going
  <2> QED
    BY <1>1, <1>2, <2>1, HitsTyped
<1>4. CASE ~Runs("decompose")
  <2>1. Found = groups[1]
    BY <1>4 DEF Found
  <2>2. Found \in Seq(Results) /\ SectionsApart(Found) /\ Found = hits[asked]
    BY <1>1, <1>2, <1>3, <2>1
  <2> DEFINE p == [m \in 1 .. Len(Found) |-> 1]
  <2>3. LeadAt(Found, p)
    <3>1. p \in [1 .. Len(Found) -> 1 .. N] /\ \A m \in 1 .. Len(Found) : p[m] = 1
      BY <1>1
    <3>2. \A m \in 1 .. Len(Found) : ToSet(Found[m].sections) \subseteq SectionsOf(Found)
      BY <2>2, ResultsFacts
    <3>3. 1 .. 1 - 1 = {} /\ 1 <= 1
      OBVIOUS
    <3>4. hits[queries[1]] = Found
      BY <1>1, <2>2
    <3> HIDE DEF p
    <3> QED
      BY <3>1, <3>2, <3>3, <3>4 DEF LeadAt
  <2> QED
    BY <2>2, <2>3
<1>5. CASE Runs("decompose")
  <2> DEFINE flat == FlattenSeq(groups)
             fused == FuseResults(flat)
  <2>1. Flat(Results, groups, N, flat)
    <3>1. groups # <<>> /\ Len(groups) # 0
      BY <1>1
    <3>2. Flat(Results, groups, Len(groups), flat)
      BY <1>1, <1>3, <3>1, Flattened
    <3> QED
      BY <1>1, <3>2
  <2>2. Found = fused
    BY <1>5 DEF Found
  <2> HIDE DEF flat
  <2>3. PICK p : FlatAt(groups, N, flat, p)
    BY <2>1 DEF Flat
  <2>4. flat \in Seq(Results)
    BY <2>1 DEF Flat
  <2>5. /\ fused \in Seq(Results) /\ SectionsApart(fused) /\ SectionsOf(fused) = SectionsOf(flat)
        /\ \E f : FusedAt(flat, fused, f)
    BY <2>4, FuseRight
  <2> HIDE DEF fused
  <2>6. PICK f : FusedAt(flat, fused, f)
    BY <2>5
  <2>7. /\ SectionsOf(flat) = UNION {ToSet(flat[i].sections) : i \in 1 .. Len(flat)} /\ Len(flat) \in Nat
        /\ Len(fused) \in Nat
    BY <2>4, <2>5, ResultsFacts
  <2>8. \A i \in 1 .. N : SectionsOf(groups[i]) = UNION {ToSet(groups[i][k].sections) : k \in 1 .. Len(groups[i])}
    BY <1>3, ResultsFacts
  <2>9. SectionsOf(groups[1]) \subseteq SectionsOf(flat)
    <3> SUFFICES ASSUME NEW k \in 1 .. Len(groups[1])
                 PROVE  ToSet(groups[1][k].sections) \subseteq SectionsOf(flat)
      BY <1>1, <2>8
    <3>1. PICK m \in 1 .. Len(flat) : flat[m] = groups[1][k]
      BY <1>1, <2>3 DEF FlatAt
    <3> QED
      BY <2>7, <3>1
  <2> DEFINE q == [m \in 1 .. Len(fused) |-> p[f[m]]]
  <2>10. \A m \in 1 .. Len(fused) : f[m] \in 1 .. Len(flat) /\ q[m] = p[f[m]] /\ q[m] \in 1 .. N
    BY <2>3, <2>6 DEF FlatAt, FusedAt
  <2>11. q \in [1 .. Len(fused) -> 1 .. N]
    BY <2>10
  <2> HIDE DEF q
  <2>12. \A m, n \in 1 .. Len(fused) : m < n => q[m] <= q[n]
    <3> SUFFICES ASSUME NEW m \in 1 .. Len(fused), NEW n \in 1 .. Len(fused), m < n
                 PROVE  p[f[m]] <= p[f[n]]
      BY <2>10
    <3>1. f[m] < f[n]
      BY <2>6 DEF FusedAt
    <3>2. f[m] \in 1 .. Len(flat) /\ f[n] \in 1 .. Len(flat)
      BY <2>10
    <3>3. \A a, b \in 1 .. Len(flat) : a < b => p[a] <= p[b]
      BY <2>3 DEF FlatAt
    <3> QED
      BY <3>1, <3>2, <3>3
  <2>13. ASSUME NEW m \in 1 .. Len(fused), NEW s \in ToSet(fused[m].sections)
         PROVE  s \in SectionsOf(groups[q[m]]) /\ \A j \in 1 .. q[m] - 1 : s \notin SectionsOf(groups[j])
    <3>1. s \in ToSet(flat[f[m]].sections) /\ s \notin Earlier(flat, f[m])
      BY <2>6 DEF FusedAt
    <3>2. PICK k \in 1 .. Len(groups[q[m]]) : flat[f[m]] = groups[q[m]][k]
      <4>1. f[m] \in 1 .. Len(flat) /\ q[m] = p[f[m]]
        BY <2>10
      <4>2. \A a \in 1 .. Len(flat) : \E k \in 1 .. Len(groups[p[a]]) : flat[a] = groups[p[a]][k]
        BY <2>3 DEF FlatAt
      <4> QED
        BY <4>1, <4>2
    <3>3. s \in SectionsOf(groups[q[m]])
      <4>1. SectionsOf(groups[q[m]]) = UNION {ToSet(groups[q[m]][l].sections) : l \in 1 .. Len(groups[q[m]])}
        BY <2>8, <2>10
      <4>2. s \in ToSet(groups[q[m]][k].sections)
        BY <3>1, <3>2
      <4> QED
        BY <4>1, <4>2
    <3>4. ASSUME NEW j \in 1 .. q[m] - 1, s \in SectionsOf(groups[j])
          PROVE  FALSE
      <4>1. j \in 1 .. N /\ j < q[m] /\ q[m] \in Nat /\ j \in Nat
        BY <1>1, <2>10
      <4>0. SectionsOf(groups[j]) = UNION {ToSet(groups[j][l].sections) : l \in 1 .. Len(groups[j])}
        BY <2>8, <4>1
      <4>2. PICK l \in 1 .. Len(groups[j]) : s \in ToSet(groups[j][l].sections)
        BY <3>4, <4>0
      <4>3. PICK n \in 1 .. Len(flat) : p[n] = j /\ flat[n] = groups[j][l]
        BY <2>3, <4>1 DEF FlatAt
      <4>4. ~(f[m] <= n)
        <5> SUFFICES ASSUME f[m] <= n
                     PROVE  FALSE
          OBVIOUS
        <5>1. CASE f[m] = n
          BY <2>10, <4>1, <4>3, <5>1
        <5>2. CASE f[m] < n
          <6>1. p[f[m]] <= p[n]
            BY <2>3, <2>10, <5>2 DEF FlatAt
          <6> QED
            BY <2>10, <4>1, <4>3, <6>1
        <5> QED
          BY <2>7, <2>10, <5>1, <5>2
      <4>5. n \in 1 .. f[m] - 1
        BY <2>7, <2>10, <4>4
      <4>6. s \in Earlier(flat, f[m])
        BY <4>2, <4>3, <4>5 DEF Earlier
      <4> QED
        BY <3>1, <4>6
    <3> QED
      BY <3>3, <3>4
  <2>14. LeadAt(fused, q)
    <3> SUFFICES ASSUME NEW m \in 1 .. Len(fused), NEW s \in ToSet(fused[m].sections)
                 PROVE  /\ s \in SectionsOf(hits[queries[q[m]]])
                        /\ \A j \in 1 .. q[m] - 1 : s \notin SectionsOf(hits[queries[j]])
      BY <2>11, <2>12 DEF LeadAt
    <3>1. \A j \in 1 .. q[m] - 1 : j \in 1 .. N
      BY <1>1, <2>10
    <3>2. s \in SectionsOf(groups[q[m]]) /\ \A j \in 1 .. q[m] - 1 : s \notin SectionsOf(groups[j])
      BY <2>13
    <3>3. groups[q[m]] = hits[queries[q[m]]]
      BY <1>2, <2>10
    <3>4. \A j \in 1 .. q[m] - 1 : groups[j] = hits[queries[j]]
      BY <1>2, <3>1
    <3>5. \A j \in 1 .. q[m] - 1 : s \notin SectionsOf(hits[queries[j]])
      BY <3>2, <3>4
    <3> QED
      BY <3>2, <3>3, <3>5
  <2> QED
    BY <1>1, <1>2, <2>2, <2>5, <2>9, <2>14
<1> QED
  BY <1>4, <1>5


\* A search begins with nothing asked, found or judged.
LEMMA BaseInit == RetrievalInit => RetrievalBase
<1> SUFFICES ASSUME RetrievalInit
             PROVE  RetrievalBase
  OBVIOUS
<1>1. setting \in Settings /\ hits \in Hits
  BY RetrievalAssumption DEF RetrievalInit
<1>2. asked \in DOMAIN hits
  BY <1>1, RetrievalAssumption DEF RetrievalInit
<1>3. /\ phase = "new" /\ asked = Question /\ queries = <<>> /\ legs = <<>> /\ groups = <<>> /\ evidence = <<>>
      /\ verdict = NoVerdict /\ judged = {} /\ rounds = 0
  BY DEF RetrievalInit
<1>4. calls \in [Stages -> Nat]
  BY DEF RetrievalInit, Stages
<1>5. verdict \in VerdictsGiven /\ phase \in RetrievalPhases
  BY <1>3 DEF VerdictsGiven, NoVerdict, RetrievalPhases
<1>6. Len(<<>>) = 0 /\ 1 .. 0 = {} /\ <<>> \in Seq(Results) /\ <<>> \in Seq(DOMAIN hits) /\ DOMAIN <<>> = {}
  OBVIOUS
<1>7. Going
  BY <1>1, <1>2, <1>3, <1>4, <1>5, <1>6 DEF Going, SectionsApart
<1>8. IsInjective(<<>>)
  BY <1>6 DEF IsInjective
<1>9. MaxSubQueries \in Nat
  BY RetrievalAssumption
<1>10. Split
  BY <1>3, <1>6, <1>8, <1>9 DEF Split
<1>11. NotBegun /\ AskedFirst
  BY <1>3 DEF NotBegun, AskedFirst
<1> QED
  BY <1>7, <1>10, <1>11 DEF RetrievalBase

\* A stage called once more has been called a number of times.
LEMMA CalledRight ==
    ASSUME Going, NEW stage \in Stages, Called(stage)
    PROVE  /\ calls' \in [Stages -> Nat] /\ calls'[stage] = calls[stage] + 1
           /\ \A s \in Stages : s # stage => calls'[s] = calls[s]
<1>1. calls \in [Stages -> Nat] /\ calls' = [calls EXCEPT ![stage] = calls[stage] + 1]
  BY DEF Going, Called
<1>2. calls[stage] + 1 \in Nat
  BY <1>1
<1> QED
  BY <1>1, <1>2

\* A question begins: nothing is found yet, whatever the settings.
LEMMA AskQuestionBase ==
    ASSUME RetrievalBase, NEW s \in Settings, NEW h \in Hits, AskQuestion(s, h)
    PROVE  RetrievalBase'
<1>1. /\ phase = "new" /\ setting' = s /\ hits' = h /\ Retrieve(Question, "decompose" \in s.stages \ s.skipped)
      /\ UNCHANGED <<evidence, verdict, judged, kept, rounds, calls>>
  BY DEF AskQuestion
<1>2. /\ rounds = 0 /\ queries = <<>> /\ legs = <<>> /\ groups = <<>>
  BY <1>1 DEF RetrievalBase, NotBegun
<1>3. Question \in DOMAIN hits'
  BY <1>1, RetrievalAssumption
<1>4. UNCHANGED <<queries, legs, groups>> => Split'
  <2> SUFFICES ASSUME UNCHANGED <<queries, legs, groups>>
               PROVE  Split'
    OBVIOUS
  <2>1. queries' = <<>> /\ legs' = <<>> /\ groups' = <<>>
    BY <1>2
  <2>2. /\ Len(<<>>) = 0 /\ 1 .. 0 = {} /\ <<>> \in Seq(LegStates) /\ <<>> \in Seq(Seq(Results))
        /\ <<>> \in Seq(DOMAIN hits') /\ DOMAIN <<>> = {}
    OBVIOUS
  <2>3. IsInjective(<<>>)
    BY <2>2 DEF IsInjective
  <2>4. MaxSubQueries \in Nat
    BY RetrievalAssumption
  <2> QED
    BY <2>1, <2>2, <2>3, <2>4 DEF Split
<1>5. /\ Split' /\ asked' = Question /\ phase' \in {"decompose", "search"}
      /\ phase' = "search" => Len(queries') >= 1 /\ queries'[1] = asked'
  BY <1>1, <1>3, <1>4, RetrieveRight
<1>6. Going'
  <2>1. phase' \in RetrievalPhases /\ asked' \in DOMAIN hits' /\ setting' \in Settings /\ hits' \in Hits
    BY <1>1, <1>3, <1>5 DEF RetrievalPhases
  <2> QED
    BY <1>1, <2>1 DEF RetrievalBase, Going, SectionsApart
<1>7. NotBegun' /\ AskedFirst'
  BY <1>5 DEF NotBegun, AskedFirst
<1> QED
  BY <1>5, <1>6, <1>7 DEF RetrievalBase

\* The parts of a query are searched for, the query itself before them.
LEMMA DecomposeBase ==
    ASSUME RetrievalBase, NEW written \in Decompositions, Decompose(written)
    PROVE  RetrievalBase'
<1>1. /\ phase = "decompose" /\ Called("decompose") /\ LegsFor(Queries(written))
      /\ UNCHANGED <<setting, hits, asked, evidence, verdict, judged, kept, rounds>>
  BY DEF Decompose
<1>2. asked \in DOMAIN hits /\ hits \in Hits /\ Going
  BY DEF RetrievalBase, Going
<1>3. written \in Seq(DOMAIN Trimmed) /\ {Trimmed[w] : w \in DOMAIN Trimmed} \ {Blank} \subseteq DOMAIN hits
  BY <1>2, RetrievalAssumption
<1> DEFINE D == DOMAIN hits
           qs == Queries(written)
<1>4. /\ qs \in Seq(D) /\ IsInjective(qs)
      /\ Len(qs) \in 1 .. MaxSubQueries + 1 /\ qs[1] = asked
  BY <1>2, <1>3, QueriesRight
<1>5. MaxSubQueries \in Nat
  BY RetrievalAssumption
<1> HIDE DEF qs
<1>6. qs \in Seq(DOMAIN hits') /\ Len(qs) <= MaxSubQueries + 1 /\ Len(qs) >= 1
  BY <1>1, <1>4, <1>5
<1>7. LegsFor(qs)
  BY <1>1 DEF qs
<1>8. Split'
  BY <1>4, <1>6, <1>7, LegsForRight
<1>9. phase' = "search" /\ queries' = qs
  BY <1>7 DEF LegsFor
<1>10. calls' \in [Stages -> Nat]
  BY <1>1, <1>2, CalledRight DEF Stages
<1>11. Going'
  BY <1>1, <1>9, <1>10 DEF RetrievalBase, Going, SectionsApart, RetrievalPhases
<1>12. NotBegun' /\ AskedFirst'
  <2>1. rounds = 0 => asked = Question
    BY DEF RetrievalBase, AskedFirst
  <2> QED
    BY <1>1, <1>4, <1>6, <1>9, <2>1 DEF NotBegun, AskedFirst
<1> QED
  BY <1>8, <1>11, <1>12 DEF RetrievalBase

\* A query's search starts, or ends.
LEMMA LegBase ==
    ASSUME RetrievalBase, NEW i \in DOMAIN legs,
           StartLeg(i) \/ EndLeg(i, "done") \/ EndLeg(i, "failed")
    PROVE  RetrievalBase'
<1>1. /\ phase = "search"
      /\ UNCHANGED <<setting, hits, phase, asked, queries, evidence, verdict, judged, kept, rounds, calls>>
  BY DEF StartLeg, EndLeg
<1>2. /\ queries \in Seq(DOMAIN hits) /\ legs \in Seq(LegStates) /\ Len(legs) = Len(queries)
      /\ groups \in Seq(Seq(Results)) /\ Len(groups) = Len(queries) /\ hits \in Hits /\ Len(queries) \in Nat
      /\ DOMAIN legs = 1 .. Len(queries) /\ DOMAIN groups = 1 .. Len(queries)
  BY DEF RetrievalBase, Going, Split
<1>3. i \in 1 .. Len(queries)
  BY <1>2
<1>4. hits[queries[i]] \in Seq(Results)
  <2>1. queries[i] \in DOMAIN hits
    BY <1>2, <1>3
  <2> QED
    BY <1>2, <2>1, HitsTyped
<1>5. PICK how \in LegStates :
          legs' = [legs EXCEPT ![i] = how] /\ groups' \in {groups, Group(i)} /\ (how = "done" => groups' = Group(i))
  <2>1. CASE StartLeg(i)
    BY <2>1 DEF StartLeg, LegStates
  <2>2. CASE EndLeg(i, "done")
    BY <2>2 DEF EndLeg, LegStates
  <2>3. CASE EndLeg(i, "failed")
    BY <2>3 DEF EndLeg, LegStates
  <2> QED
    BY <2>1, <2>2, <2>3
<1>6. legs' \in Seq(LegStates) /\ Len(legs') = Len(queries) /\ legs'[i] = how
      /\ \A j \in 1 .. Len(queries) : j # i => legs'[j] = legs[j]
  BY <1>2, <1>3, <1>5
<1>7. Group(i) = [groups EXCEPT ![i] = hits[queries[i]]]
  BY DEF Group
<1>8. /\ Group(i) \in Seq(Seq(Results)) /\ Len(Group(i)) = Len(queries) /\ Group(i)[i] = hits[queries[i]]
      /\ \A j \in 1 .. Len(queries) : j # i => Group(i)[j] = groups[j]
  <2> DEFINE T == Seq(Results)
             x == hits[queries[i]]
  <2>1. groups \in Seq(T) /\ x \in T /\ Group(i) = [groups EXCEPT ![i] = x]
    BY <1>2, <1>4, <1>7
  <2> HIDE DEF T, x
  <2>2. Group(i) \in Seq(T) /\ Len(Group(i)) = Len(queries) /\ Group(i)[i] = x
        /\ \A j \in 1 .. Len(queries) : j # i => Group(i)[j] = groups[j]
    BY <1>2, <1>3, <2>1
  <2> QED
    BY <2>2 DEF T, x
<1>9. groups' \in Seq(Seq(Results)) /\ Len(groups') = Len(queries)
  BY <1>2, <1>5, <1>8
<1>10. \A j \in 1 .. Len(queries) : j # i => groups'[j] = groups[j]
  BY <1>5, <1>8
<1>11. \A j \in 1 .. Len(queries) : legs'[j] = "done" => groups'[j] = hits[queries[j]]
  <2> SUFFICES ASSUME NEW j \in 1 .. Len(queries), legs'[j] = "done"
               PROVE  groups'[j] = hits[queries[j]]
    OBVIOUS
  <2>1. CASE j = i
    BY <1>5, <1>6, <1>8, <2>1
  <2>2. CASE j # i
    BY <1>6, <1>10, <2>2 DEF RetrievalBase, Split
  <2> QED
    BY <2>1, <2>2
<1>12. IsInjective(queries) /\ Len(queries) <= MaxSubQueries + 1
  BY DEF RetrievalBase, Split
<1>13. Split'
  BY <1>1, <1>2, <1>6, <1>9, <1>11, <1>12 DEF Split
<1>14. Going'
  BY <1>1 DEF RetrievalBase, Going, SectionsApart
<1>15. NotBegun' /\ AskedFirst'
  BY <1>1 DEF RetrievalBase, NotBegun, AskedFirst
<1> QED
  BY <1>13, <1>14, <1>15 DEF RetrievalBase

\* The evidence after a round: all there was, and what the query has found.
LEMMA FuseGathers ==
    ASSUME RetrievalBase, Fuse, \A i \in DOMAIN legs : legs[i] = "done"
    PROVE  /\ evidence' \in Seq(Results) /\ SectionsApart(evidence') /\ phase' = AfterFusion(evidence')
           /\ SectionsOf(hits[asked]) \subseteq SectionsOf(evidence')
           /\ rounds = 0 => evidence' = Found
           /\ rounds # 0 => SectionsOf(evidence) \subseteq SectionsOf(evidence')
<1> DEFINE found == Found
           both == evidence \o found
           all == IF rounds = 0 THEN found ELSE FuseResults(both)
<1>1. phase = "search" /\ evidence' = all /\ phase' = AfterFusion(all)
  BY DEF Fuse, FuseTo
<1>2. found \in Seq(Results) /\ SectionsApart(found) /\ SectionsOf(hits[asked]) \subseteq SectionsOf(found)
  BY <1>1, FoundRight
<1>3. evidence \in Seq(Results)
  BY DEF RetrievalBase, Going
<1> HIDE DEF found
<1>4. both \in Seq(Results) /\ SectionsOf(both) = SectionsOf(evidence) \union SectionsOf(found)
  BY <1>2, <1>3, SectionsOfBoth
<1> HIDE DEF both
<1>5. /\ FuseResults(both) \in Seq(Results) /\ SectionsApart(FuseResults(both))
      /\ SectionsOf(FuseResults(both)) = SectionsOf(both)
  BY <1>4, FuseRight
<1>6. CASE rounds = 0
  <2>1. evidence' = found /\ phase' = AfterFusion(found)
    BY <1>1, <1>6
  <2> QED
    BY <1>2, <1>6, <2>1 DEF found
<1>7. CASE rounds # 0
  <2>1. evidence' = FuseResults(both) /\ phase' = AfterFusion(FuseResults(both))
    BY <1>1, <1>7
  <2> QED
    BY <1>2, <1>4, <1>5, <1>7, <2>1
<1> QED
  BY <1>6, <1>7

\* When all searches are over there are new results, or the whole search fails.
LEMMA FuseBase ==
    ASSUME RetrievalBase, Fuse
    PROVE  RetrievalBase'
<1>1. /\ phase = "search"
      /\ UNCHANGED <<setting, hits, asked, queries, legs, groups, verdict, judged, kept, rounds, calls>>
  BY DEF Fuse
<1>2. evidence' \in Seq(Results) /\ SectionsApart(evidence') /\ phase' \in {"evaluate", "done", "failed"}
  <2>1. CASE \A i \in DOMAIN legs : legs[i] = "done"
    <3>1. evidence' \in Seq(Results) /\ SectionsApart(evidence') /\ phase' = AfterFusion(evidence')
      BY <2>1, FuseGathers
    <3> QED
      BY <3>1 DEF AfterFusion
  <2>2. CASE ~ \A i \in DOMAIN legs : legs[i] = "done"
    BY <2>2 DEF Fuse, RetrievalBase, Going
  <2> QED
    BY <2>1, <2>2
<1>3. Going'
  BY <1>1, <1>2 DEF RetrievalBase, Going, SectionsApart, RetrievalPhases
<1>4. Split'
  BY <1>1 DEF RetrievalBase, Split
<1>5. NotBegun' /\ AskedFirst'
  BY <1>1, <1>2 DEF RetrievalBase, NotBegun, AskedFirst
<1> QED
  BY <1>3, <1>4, <1>5 DEF RetrievalBase

\* A verdict of the model is a status with a score from 0 to 10.
LEMMA VerdictTyped ==
    ASSUME NEW status, NEW score \in Scores
    PROVE  [status |-> NormalizedStatus(status), score |-> Clamped(score)] \in VerdictsGiven
<1>1. score \in Int
  BY RetrievalAssumption
<1>2. Clamped(score) \in 0 .. 10
  BY <1>1 DEF Clamped
<1>3. NormalizedStatus(status) \in {"none", "valid", "partial", "invalid"}
  BY DEF NormalizedStatus
<1> QED
  BY <1>2, <1>3 DEF VerdictsGiven

\* What the verdict does to the evidence: demoted, all of it is kept; filtered,
\* what is left is relevant.
LEMMA EvaluateApplies ==
    ASSUME RetrievalBase, NEW relevant, NEW v \in VerdictsGiven, EvaluateTo(relevant, v)
    PROVE  /\ evidence' \in Seq(Results) /\ SectionsApart(evidence')
           /\ SectionsOf(evidence') \subseteq SectionsOf(evidence)
           /\ setting.mode = "demote" => SectionsOf(evidence') = SectionsOf(evidence)
           /\ setting.mode # "demote" => SectionsOf(evidence') \subseteq relevant
<1>1. evidence \in Seq(Results) /\ SectionsApart(evidence)
  BY DEF RetrievalBase, Going
<1>2. evidence' = RelevanceApplied(relevant)
  BY DEF EvaluateTo
<1>3. CASE setting.mode = "demote"
  <2>1. evidence' = DemoteIrrelevant(evidence, relevant)
    BY <1>2, <1>3 DEF RelevanceApplied
  <2>2. /\ DemoteIrrelevant(evidence, relevant) \in Seq(Results)
        /\ SectionsApart(DemoteIrrelevant(evidence, relevant))
        /\ SectionsOf(DemoteIrrelevant(evidence, relevant)) = SectionsOf(evidence)
    BY <1>1, DemoteRight
  <2> QED
    BY <1>3, <2>1, <2>2
<1>4. CASE setting.mode # "demote"
  <2>1. evidence' = FilterRelevant(evidence, relevant)
    BY <1>2, <1>4 DEF RelevanceApplied
  <2>2. /\ FilterRelevant(evidence, relevant) \in Seq(Results)
        /\ SectionsApart(FilterRelevant(evidence, relevant))
        /\ SectionsOf(FilterRelevant(evidence, relevant)) \subseteq SectionsOf(evidence) \intersect relevant
    BY <1>1, FilterRight
  <2> QED
    BY <1>4, <2>1, <2>2
<1> QED
  BY <1>3, <1>4

\* A verdict leaves results of the same kind.
LEMMA EvaluateBase ==
    ASSUME RetrievalBase, NEW relevant, NEW v \in VerdictsGiven, EvaluateTo(relevant, v)
    PROVE  RetrievalBase'
<1>1. /\ phase = "evaluate" /\ Called("evaluate") /\ verdict' = v /\ phase' = AfterVerdict(v)
      /\ UNCHANGED <<setting, hits, asked, queries, legs, groups, rounds>>
  BY DEF EvaluateTo
<1>2. evidence' \in Seq(Results) /\ SectionsApart(evidence')
  BY EvaluateApplies
<1>3. phase' \in {"done", "reformulate"}
  BY <1>1 DEF AfterVerdict
<1>4. calls' \in [Stages -> Nat]
  BY <1>1, CalledRight DEF Stages, RetrievalBase
<1>5. Going'
  BY <1>1, <1>2, <1>3, <1>4 DEF RetrievalBase, Going, SectionsApart, RetrievalPhases
<1>6. Split'
  BY <1>1 DEF RetrievalBase, Split
<1>7. NotBegun' /\ AskedFirst'
  BY <1>1, <1>3 DEF RetrievalBase, NotBegun, AskedFirst
<1> QED
  BY <1>5, <1>6, <1>7 DEF RetrievalBase

\* Another round asks another query, which the searches know.
LEMMA ReformulateBase ==
    ASSUME RetrievalBase, NEW written \in Reformulations, Reformulate(written)
    PROVE  RetrievalBase'
<1> DEFINE query == Trimmed[written]
<1>1. /\ phase = "reformulate" /\ Called("reformulate") /\ UNCHANGED <<setting, hits, evidence, verdict, judged, kept>>
  BY DEF Reformulate
<1>2. calls' \in [Stages -> Nat]
  BY <1>1, CalledRight DEF Stages, RetrievalBase
<1>3. CASE query \in {Blank, Question}
  <2>1. phase' = "done" /\ UNCHANGED <<asked, queries, legs, groups, rounds>>
    BY <1>3 DEF Reformulate
  <2>2. Going'
    BY <1>1, <1>2, <2>1 DEF RetrievalBase, Going, SectionsApart, RetrievalPhases
  <2>3. Split'
    BY <1>1, <2>1 DEF RetrievalBase, Split
  <2>4. NotBegun' /\ AskedFirst'
    BY <2>1 DEF RetrievalBase, NotBegun, AskedFirst
  <2> QED
    BY <2>2, <2>3, <2>4 DEF RetrievalBase
<1>4. CASE query \notin {Blank, Question}
  <2>1. Retrieve(query, Runs("decompose")) /\ rounds' = rounds + 1
    BY <1>4 DEF Reformulate
  <2>2. query \in DOMAIN hits'
    <3>1. hits \in Hits /\ written \in DOMAIN Trimmed
      BY RetrievalAssumption DEF RetrievalBase, Going
    <3> QED
      BY <1>1, <1>4, <3>1, RetrievalAssumption
  <2>3. UNCHANGED <<queries, legs, groups>> => Split'
    BY <1>1 DEF RetrievalBase, Split
  <2> HIDE DEF query
  <2>4. /\ Split' /\ asked' = query /\ phase' \in {"decompose", "search"}
        /\ phase' = "search" => Len(queries') >= 1 /\ queries'[1] = asked'
    BY <2>1, <2>2, <2>3, RetrieveRight
  <2>5. rounds' \in Nat /\ rounds' # 0
    BY <2>1 DEF RetrievalBase, Going
  <2>6. phase' \in RetrievalPhases /\ asked' \in DOMAIN hits'
    BY <2>2, <2>4 DEF RetrievalPhases
  <2>7. Going'
    BY <1>1, <1>2, <2>5, <2>6 DEF RetrievalBase, Going, SectionsApart
  <2>8. NotBegun' /\ AskedFirst'
    BY <2>4, <2>5 DEF NotBegun, AskedFirst
  <2> QED
    BY <2>4, <2>7, <2>8 DEF RetrievalBase
<1> QED
  BY <1>3, <1>4

\* A stage that fails ends the search where it is.
LEMMA StageFailsBase ==
    ASSUME RetrievalBase, RetrievalStageFails
    PROVE  RetrievalBase'
<1>1. /\ phase \in Stages /\ Called(phase) /\ phase' = "failed"
      /\ UNCHANGED <<setting, hits, asked, queries, legs, groups, evidence, verdict, judged, kept, rounds>>
  BY DEF RetrievalStageFails, Stages
<1>2. calls' \in [Stages -> Nat]
  BY <1>1, CalledRight DEF RetrievalBase
<1>3. Going'
  BY <1>1, <1>2 DEF RetrievalBase, Going, SectionsApart, RetrievalPhases
<1>4. Split'
  BY <1>1 DEF RetrievalBase, Split
<1>5. NotBegun' /\ AskedFirst'
  BY <1>1 DEF RetrievalBase, NotBegun, AskedFirst
<1> QED
  BY <1>3, <1>4, <1>5 DEF RetrievalBase

\* The steps of a retrieval.
Evaluates ==
    \E v \in VerdictsGiven :
        \E relevant \in {SectionsOf(evidence)} \union {r \union {"unknown"} : r \in SUBSET EvidenceShown} :
            EvaluateTo(relevant, v)

\* Each step of a retrieval is one of these.
LEMMA RetrievalSteps ==
    ASSUME RetrievalNext
    PROVE  \/ \E s \in Settings, h \in Hits : AskQuestion(s, h)
           \/ \E written \in Decompositions : Decompose(written)
           \/ \E i \in DOMAIN legs : StartLeg(i) \/ EndLeg(i, "done") \/ EndLeg(i, "failed")
           \/ Fuse
           \/ Evaluates
           \/ \E written \in Reformulations : Reformulate(written)
           \/ RetrievalStageFails
<1>1. ASSUME NEW relevant \in SUBSET EvidenceShown, NEW status \in {"valid", "maybe"}, NEW score \in Scores,
             Evaluate(relevant \union {"unknown"}, status, score)
      PROVE  Evaluates
  <2> DEFINE v == [status |-> NormalizedStatus(status), score |-> Clamped(score)]
  <2>1. v \in VerdictsGiven
    BY VerdictTyped
  <2>2. EvaluateTo(relevant \union {"unknown"}, v)
    BY <1>1 DEF Evaluate
  <2> HIDE DEF v
  <2> QED
    BY <2>1, <2>2 DEF Evaluates
<1>2. ASSUME EvaluateNothing
      PROVE  Evaluates
  <2> DEFINE v == [status |-> "partial", score |-> 5]
  <2>1. v \in VerdictsGiven
    BY DEF VerdictsGiven
  <2>2. EvaluateTo(SectionsOf(evidence), v)
    BY <1>2 DEF EvaluateNothing
  <2> HIDE DEF v
  <2> QED
    BY <2>1, <2>2 DEF Evaluates
<1> QED
  BY <1>1, <1>2 DEF RetrievalNext, RetrievalGoesOn

\* No step leaves what holds throughout.
LEMMA BaseStep == RetrievalBase /\ [RetrievalNext]_retrievalVars => RetrievalBase'
<1> SUFFICES ASSUME RetrievalBase, [RetrievalNext]_retrievalVars
             PROVE  RetrievalBase'
  OBVIOUS
<1>1. CASE RetrievalNext
  <2>1. CASE \E s \in Settings, h \in Hits : AskQuestion(s, h)
    BY <2>1, AskQuestionBase
  <2>2. CASE \E written \in Decompositions : Decompose(written)
    BY <2>2, DecomposeBase
  <2>3. CASE \E i \in DOMAIN legs : StartLeg(i) \/ EndLeg(i, "done") \/ EndLeg(i, "failed")
    BY <2>3, LegBase
  <2>4. CASE Fuse
    BY <2>4, FuseBase
  <2>5. CASE Evaluates
    BY <2>5, EvaluateBase DEF Evaluates
  <2>6. CASE \E written \in Reformulations : Reformulate(written)
    BY <2>6, ReformulateBase
  <2>7. CASE RetrievalStageFails
    BY <2>7, StageFailsBase
  <2> QED
    BY <1>1, <2>1, <2>2, <2>3, <2>4, <2>5, <2>6, <2>7, RetrievalSteps
<1>2. CASE UNCHANGED retrievalVars
  BY <1>2 DEF retrievalVars, RetrievalBase, Going, Split, NotBegun, AskedFirst, SectionsApart
<1> QED
  BY <1>1, <1>2

-----------------------------------------------------------------------------
(* What the caller is promised of the evidence. *)

Over == {"evaluate", "reformulate", "done"}
Before == {"new", "decompose", "search"}

\* A verdict is about all the evidence there is, until there is more.
VerdictKept ==
    /\ verdict # NoVerdict \/ phase = "evaluate" => Runs("grounding")
    /\ verdict # NoVerdict /\ phase \notin {"evaluate", "failed"} =>
           /\ SectionsOf(evidence) \subseteq judged
           /\ setting.mode = "filter" => SectionsOf(evidence) \subseteq kept

\* Demoting, what was found or judged is still there.
DemotedKept ==
    /\ rounds = 0 /\ phase \in Before => judged = {}
    /\ setting.mode = "demote" =>
           /\ judged \subseteq SectionsOf(evidence)
           /\ rounds # 0 \/ phase \in Over => SectionsOf(hits[Question]) \subseteq SectionsOf(evidence)
           /\ phase \in Over => SectionsOf(hits[asked]) \subseteq SectionsOf(evidence)

\* A stage is called once a round, and a confident verdict is the last call.
CallsCounted ==
    /\ rounds <= setting.maxRounds /\ (phase = "reformulate" => rounds < setting.maxRounds)
    /\ calls["evaluate"] <= rounds + 1 /\ (phase \in Before \union {"evaluate"} => calls["evaluate"] <= rounds)
    /\ calls["decompose"] <= rounds + 1 /\ (phase \in {"new", "decompose"} => calls["decompose"] <= rounds)
    /\ calls["reformulate"] <= setting.maxRounds
    /\ phase \notin {"done", "failed"} => calls["reformulate"] <= rounds
    /\ Confident(verdict) => phase = "done"

\* The first query that finds a section.
FirstQuery(s, hs, qs) ==
    CHOOSE i \in DOMAIN qs :
        /\ s \in SectionsOf(hs[qs[i]])
        /\ \A j \in 1 .. i - 1 : s \notin SectionsOf(hs[qs[j]])

\* A section comes from the first query that finds it.
LEMMA LeadFirst ==
    ASSUME NEW results, NEW p, LeadAt(results, p), queries \in Seq(DOMAIN hits),
           NEW m \in 1 .. Len(results), NEW s \in ToSet(results[m].sections)
    PROVE  FirstQuery(s, hits, queries) = p[m]
<1>1. /\ p[m] \in 1 .. Len(queries) /\ s \in SectionsOf(hits[queries[p[m]]])
      /\ \A j \in 1 .. p[m] - 1 : s \notin SectionsOf(hits[queries[j]])
  BY DEF LeadAt
<1>2. DOMAIN queries = 1 .. Len(queries) /\ Len(queries) \in Nat
  OBVIOUS
<1> DEFINE First(i) == /\ s \in SectionsOf(hits[queries[i]])
                       /\ \A j \in 1 .. i - 1 : s \notin SectionsOf(hits[queries[j]])
           k == FirstQuery(s, hits, queries)
<1>3. p[m] \in DOMAIN queries /\ First(p[m])
  BY <1>1, <1>2
<1>4. k = CHOOSE i \in DOMAIN queries : First(i)
  BY DEF FirstQuery
<1>5. k \in DOMAIN queries /\ First(k)
  <2> HIDE DEF First, k
  <2> QED
    BY <1>3, <1>4
<1> HIDE DEF k
<1>6. k \in 1 .. Len(queries)
  BY <1>2, <1>5
<1>7. ~(k < p[m])
  <2> SUFFICES ASSUME k < p[m]
               PROVE  FALSE
    OBVIOUS
  <2>1. k \in 1 .. p[m] - 1
    BY <1>1, <1>2, <1>6
  <2> QED
    BY <1>1, <1>5, <2>1
<1>8. ~(p[m] < k)
  <2> SUFFICES ASSUME p[m] < k
               PROVE  FALSE
    OBVIOUS
  <2>1. p[m] \in 1 .. k - 1
    BY <1>1, <1>2, <1>6
  <2> QED
    BY <1>1, <1>5, <2>1
<1> QED
  BY <1>1, <1>2, <1>6, <1>7, <1>8 DEF k

\* What the first round finds comes in the order of its queries.
LEMMA FuseLeads ==
    ASSUME RetrievalBase, Fuse
    PROVE  EarlierQueriesLead'
<1> SUFFICES ASSUME rounds' = 0, phase' = "evaluate"
             PROVE  /\ queries'[1] = Question
                    /\ \A m, n \in DOMAIN evidence' : m < n =>
                           \A s \in ToSet(evidence'[m].sections), t \in ToSet(evidence'[n].sections) :
                               FirstQuery(s, hits', queries') <= FirstQuery(t, hits', queries')
  BY DEF EarlierQueriesLead, FirstQuery
<1>1. phase = "search" /\ UNCHANGED <<hits, asked, queries, rounds>>
  BY DEF Fuse
<1>2. queries'[1] = Question
  BY <1>1 DEF RetrievalBase, AskedFirst
<1>3. \A i \in DOMAIN legs : legs[i] = "done"
  BY DEF Fuse
<1>4. evidence' = Found /\ evidence' \in Seq(Results)
  BY <1>1, <1>3, FuseGathers
<1>5. PICK p : LeadAt(Found, p)
  BY <1>1, <1>3, FoundRight
<1>6. queries \in Seq(DOMAIN hits)
  BY DEF RetrievalBase, Split
<1>7. DOMAIN evidence' = 1 .. Len(Found)
  BY <1>4
<1> SUFFICES ASSUME NEW m \in 1 .. Len(Found), NEW n \in 1 .. Len(Found), m < n,
                    NEW s \in ToSet(Found[m].sections), NEW t \in ToSet(Found[n].sections)
             PROVE  FirstQuery(s, hits, queries) <= FirstQuery(t, hits, queries)
  BY <1>1, <1>2, <1>4, <1>7
<1>8. FirstQuery(s, hits, queries) = p[m] /\ FirstQuery(t, hits, queries) = p[n]
  BY <1>5, <1>6, LeadFirst
<1>9. p[m] <= p[n]
  BY <1>5 DEF LeadAt
<1> QED
  BY <1>8, <1>9

\* The order matters while the first round is judged, and that is set once.
LEMMA LeadStep == RetrievalBase /\ EarlierQueriesLead /\ [RetrievalNext]_retrievalVars => EarlierQueriesLead'
<1> SUFFICES ASSUME RetrievalBase, EarlierQueriesLead, [RetrievalNext]_retrievalVars
             PROVE  EarlierQueriesLead'
  OBVIOUS
<1>1. phase' # "evaluate" => EarlierQueriesLead'
  BY DEF EarlierQueriesLead
<1>2. CASE RetrievalNext
  <2>1. ASSUME NEW s \in Settings, NEW h \in Hits, AskQuestion(s, h)
        PROVE  phase' # "evaluate"
    BY <2>1 DEF AskQuestion, Retrieve, LegsFor
  <2>2. ASSUME NEW written \in Decompositions, Decompose(written)
        PROVE  phase' # "evaluate"
    BY <2>2 DEF Decompose, LegsFor
  <2>3. ASSUME NEW i \in DOMAIN legs, StartLeg(i) \/ EndLeg(i, "done") \/ EndLeg(i, "failed")
        PROVE  phase' # "evaluate"
    BY <2>3 DEF StartLeg, EndLeg
  <2>4. CASE Fuse
    BY <2>4, FuseLeads
  <2>5. ASSUME Evaluates
        PROVE  phase' # "evaluate"
    BY <2>5 DEF Evaluates, EvaluateTo, AfterVerdict
  <2>6. ASSUME NEW written \in Reformulations, Reformulate(written)
        PROVE  phase' # "evaluate"
    BY <2>6 DEF Reformulate, Retrieve, LegsFor
  <2>7. ASSUME RetrievalStageFails
        PROVE  phase' # "evaluate"
    BY <2>7 DEF RetrievalStageFails
  <2> QED
    BY <1>1, <1>2, <2>1, <2>2, <2>3, <2>4, <2>5, <2>6, <2>7, RetrievalSteps
<1>3. CASE UNCHANGED retrievalVars
  <2>1. UNCHANGED <<rounds, phase, queries, hits, evidence>>
    BY <1>3 DEF retrievalVars
  <2> SUFFICES ASSUME rounds' = 0, phase' = "evaluate"
               PROVE  /\ queries'[1] = Question
                      /\ \A m, n \in DOMAIN evidence' : m < n =>
                             \A s \in ToSet(evidence'[m].sections), t \in ToSet(evidence'[n].sections) :
                                 FirstQuery(s, hits', queries') <= FirstQuery(t, hits', queries')
    BY DEF EarlierQueriesLead, FirstQuery
  <2>2. /\ queries[1] = Question
        /\ \A m, n \in DOMAIN evidence : m < n =>
               \A s \in ToSet(evidence[m].sections), t \in ToSet(evidence[n].sections) :
                   FirstQuery(s, hits, queries) <= FirstQuery(t, hits, queries)
    BY <2>1 DEF EarlierQueriesLead, FirstQuery
  <2> QED
    BY <2>1, <2>2
<1> QED
  BY <1>2, <1>3

\* A new verdict is about what is left of the evidence; a new round keeps it, and
\* has one of its own unless it has found nothing at all.
LEMMA VerdictStep == RetrievalBase /\ VerdictKept /\ [RetrievalNext]_retrievalVars => VerdictKept'
<1> SUFFICES ASSUME RetrievalBase, VerdictKept, [RetrievalNext]_retrievalVars
             PROVE  VerdictKept'
  OBVIOUS
<1> USE DEF VerdictKept, Runs
<1>1. CASE RetrievalNext
  <2>1. ASSUME NEW s \in Settings, NEW h \in Hits, AskQuestion(s, h)
        PROVE  VerdictKept'
    <3>1. verdict' = NoVerdict /\ phase' # "evaluate"
      BY <2>1 DEF AskQuestion, Retrieve, LegsFor, RetrievalBase, NotBegun
    <3> QED
      BY <3>1
  <2>2. ASSUME NEW written \in Decompositions, Decompose(written)
        PROVE  VerdictKept'
    BY <2>2 DEF Decompose, LegsFor
  <2>3. ASSUME NEW i \in DOMAIN legs, StartLeg(i) \/ EndLeg(i, "done") \/ EndLeg(i, "failed")
        PROVE  VerdictKept'
    BY <2>3 DEF StartLeg, EndLeg
  <2>4. CASE Fuse
    <3>1. phase = "search" /\ UNCHANGED <<setting, verdict, judged, kept>>
      BY <2>4 DEF Fuse
    <3>2. CASE \A i \in DOMAIN legs : legs[i] = "done"
      <4>1. evidence' \in Seq(Results) /\ phase' = AfterFusion(evidence')
        BY <2>4, <3>2, FuseGathers
      <4>2. CASE phase' = "evaluate"
        BY <3>1, <4>1, <4>2 DEF AfterFusion
      <4>3. CASE phase' # "evaluate"
        <5>1. ~Runs("grounding") \/ evidence' = <<>>
          BY <4>1, <4>3 DEF AfterFusion
        <5>2. evidence' = <<>> => SectionsOf(evidence') = {}
          BY DEF SectionsOf
        <5> QED
          BY <3>1, <4>3, <5>1, <5>2
      <4> QED
        BY <4>2, <4>3
    <3>3. CASE ~ \A i \in DOMAIN legs : legs[i] = "done"
      <4>1. phase' = "failed"
        BY <2>4, <3>3 DEF Fuse
      <4> QED
        BY <3>1, <4>1
    <3> QED
      BY <3>2, <3>3
  <2>5. CASE Evaluates
    <3>1. PICK v, relevant : v \in VerdictsGiven /\ EvaluateTo(relevant, v)
      BY <2>5 DEF Evaluates
    <3>2. phase = "evaluate" /\ judged' = SectionsOf(evidence) /\ kept' = relevant /\ setting' = setting
          /\ phase' \in {"done", "reformulate"}
      BY <3>1 DEF EvaluateTo, AfterVerdict
    <3>3. SectionsOf(evidence') \subseteq SectionsOf(evidence)
          /\ (setting.mode # "demote" => SectionsOf(evidence') \subseteq relevant)
      BY <3>1, EvaluateApplies
    <3> QED
      BY <3>2, <3>3
  <2>6. ASSUME NEW written \in Reformulations, Reformulate(written)
        PROVE  VerdictKept'
    BY <2>6 DEF Reformulate, Retrieve, LegsFor
  <2>7. CASE RetrievalStageFails
    BY <2>7 DEF RetrievalStageFails
  <2> QED
    BY <1>1, <2>1, <2>2, <2>3, <2>4, <2>5, <2>6, <2>7, RetrievalSteps
<1>2. CASE UNCHANGED retrievalVars
  BY <1>2 DEF retrievalVars
<1> QED
  BY <1>1, <1>2

\* No step loses a section where those without relevance are demoted.
LEMMA DemotedStep == RetrievalBase /\ DemotedKept /\ [RetrievalNext]_retrievalVars => DemotedKept'
<1> SUFFICES ASSUME RetrievalBase, DemotedKept, [RetrievalNext]_retrievalVars
             PROVE  DemotedKept'
  OBVIOUS
<1> USE DEF DemotedKept, Over, Before
<1>1. CASE RetrievalNext
  <2>1. ASSUME NEW s \in Settings, NEW h \in Hits, AskQuestion(s, h)
        PROVE  DemotedKept'
    <3>1. rounds' = 0 /\ judged' = {} /\ phase' \in {"decompose", "search"}
      BY <2>1 DEF AskQuestion, Retrieve, LegsFor, RetrievalBase, NotBegun
    <3> QED
      BY <3>1
  <2>2. ASSUME NEW written \in Decompositions, Decompose(written)
        PROVE  DemotedKept'
    BY <2>2 DEF Decompose, LegsFor
  <2>3. ASSUME NEW i \in DOMAIN legs, StartLeg(i) \/ EndLeg(i, "done") \/ EndLeg(i, "failed")
        PROVE  DemotedKept'
    BY <2>3 DEF StartLeg, EndLeg
  <2>4. CASE Fuse
    <3>1. phase = "search" /\ UNCHANGED <<setting, hits, asked, judged, rounds>>
      BY <2>4 DEF Fuse
    <3>2. CASE \A i \in DOMAIN legs : legs[i] = "done"
      <4>1. /\ SectionsOf(hits[asked]) \subseteq SectionsOf(evidence') /\ phase' \in {"evaluate", "done"}
            /\ rounds # 0 => SectionsOf(evidence) \subseteq SectionsOf(evidence')
        BY <2>4, <3>2, FuseGathers DEF AfterFusion
      <4>2. CASE rounds = 0
        <5>1. judged' = {} /\ asked = Question
          BY <3>1, <4>2 DEF RetrievalBase, AskedFirst
        <5> QED
          BY <3>1, <4>1, <5>1
      <4>3. CASE rounds # 0
        BY <3>1, <4>1, <4>3
      <4> QED
        BY <4>2, <4>3
    <3>3. CASE ~ \A i \in DOMAIN legs : legs[i] = "done"
      <4>1. phase' = "failed" /\ evidence' = evidence
        BY <2>4, <3>3 DEF Fuse
      <4> QED
        BY <3>1, <4>1
    <3> QED
      BY <3>2, <3>3
  <2>5. CASE Evaluates
    <3>1. PICK v, relevant : v \in VerdictsGiven /\ EvaluateTo(relevant, v)
      BY <2>5 DEF Evaluates
    <3>2. /\ phase = "evaluate" /\ judged' = SectionsOf(evidence) /\ UNCHANGED <<setting, hits, asked, rounds>>
          /\ phase' \in {"done", "reformulate"}
      BY <3>1 DEF EvaluateTo, AfterVerdict
    <3>3. setting.mode = "demote" => SectionsOf(evidence') = SectionsOf(evidence)
      BY <3>1, EvaluateApplies
    <3> QED
      BY <3>2, <3>3
  <2>6. ASSUME NEW written \in Reformulations, Reformulate(written)
        PROVE  DemotedKept'
    <3>1. phase = "reformulate" /\ UNCHANGED <<setting, hits, evidence, judged>>
      BY <2>6 DEF Reformulate
    <3>2. CASE Trimmed[written] \in {Blank, Question}
      <4>1. phase' = "done" /\ UNCHANGED <<asked, rounds>>
        BY <2>6, <3>2 DEF Reformulate
      <4> QED
        BY <3>1, <4>1
    <3>3. CASE Trimmed[written] \notin {Blank, Question}
      <4>1. phase' \in {"decompose", "search"} /\ rounds' = rounds + 1
        BY <2>6, <3>3 DEF Reformulate, Retrieve, LegsFor
      <4>2. rounds' # 0
        BY <4>1 DEF RetrievalBase, Going
      <4> QED
        BY <3>1, <4>1, <4>2
    <3> QED
      BY <3>2, <3>3
  <2>7. CASE RetrievalStageFails
    BY <2>7 DEF RetrievalStageFails
  <2> QED
    BY <1>1, <2>1, <2>2, <2>3, <2>4, <2>5, <2>6, <2>7, RetrievalSteps
<1>2. CASE UNCHANGED retrievalVars
  BY <1>2 DEF retrievalVars
<1> QED
  BY <1>1, <1>2

\* A confident verdict has nothing after it.
LEMMA Unconfident == ~Confident(NoVerdict)
BY DEF Confident, NoVerdict

\* Each call of the model belongs to a round, and the rounds are bounded.
LEMMA CallsStep == RetrievalBase /\ CallsCounted /\ [RetrievalNext]_retrievalVars => CallsCounted'
<1> SUFFICES ASSUME RetrievalBase, CallsCounted, [RetrievalNext]_retrievalVars
             PROVE  CallsCounted'
  OBVIOUS
<1>0. /\ Going /\ rounds \in Nat /\ setting \in Settings /\ setting.maxRounds \in Nat
      /\ \A s \in Settings : s.maxRounds \in Nat
      /\ "evaluate" \in Stages /\ "decompose" \in Stages /\ "reformulate" \in Stages
      /\ calls["evaluate"] \in Nat /\ calls["decompose"] \in Nat /\ calls["reformulate"] \in Nat
  BY RetrievalAssumption DEF RetrievalBase, Going, Stages
<1> USE DEF CallsCounted, Before
<1>1. CASE RetrievalNext
  <2>1. ASSUME NEW s \in Settings, NEW h \in Hits, AskQuestion(s, h)
        PROVE  CallsCounted'
    <3>1. /\ phase = "new" /\ setting' \in Settings /\ UNCHANGED <<verdict, rounds, calls>>
          /\ verdict = NoVerdict /\ rounds = 0 /\ phase' \in {"decompose", "search"}
      BY <2>1 DEF AskQuestion, Retrieve, LegsFor, RetrievalBase, NotBegun
    <3>2. setting'.maxRounds \in Nat /\ rounds' <= setting'.maxRounds
      BY <1>0, <3>1
    <3>3. ~Confident(verdict')
      BY <3>1, Unconfident
    <3> QED
      BY <1>0, <3>1, <3>2, <3>3
  <2>2. ASSUME NEW written \in Decompositions, Decompose(written)
        PROVE  CallsCounted'
    <3>1. /\ phase = "decompose" /\ phase' = "search" /\ UNCHANGED <<setting, verdict, rounds>> /\ Called("decompose")
      BY <2>2 DEF Decompose, LegsFor
    <3>2. /\ calls'["decompose"] = calls["decompose"] + 1 /\ calls'["evaluate"] = calls["evaluate"]
          /\ calls'["reformulate"] = calls["reformulate"]
      BY <1>0, <3>1, CalledRight
    <3>3. Confident(verdict') <=> Confident(verdict)
      BY <3>1 DEF Confident
    <3> QED
      BY <1>0, <3>1, <3>2, <3>3
  <2>3. ASSUME NEW i \in DOMAIN legs, StartLeg(i) \/ EndLeg(i, "done") \/ EndLeg(i, "failed")
        PROVE  CallsCounted'
    <3>1. UNCHANGED <<setting, phase, verdict, rounds, calls>>
      BY <2>3 DEF StartLeg, EndLeg
    <3>2. Confident(verdict') <=> Confident(verdict)
      BY <3>1 DEF Confident
    <3> QED
      BY <3>1, <3>2
  <2>4. CASE Fuse
    <3>1. phase = "search" /\ UNCHANGED <<setting, verdict, rounds, calls>>
      BY <2>4 DEF Fuse
    <3>2. phase' \in {"evaluate", "done", "failed"}
      BY <2>4 DEF Fuse, FuseTo, AfterFusion
    <3>3. ~Confident(verdict')
      BY <3>1 DEF Confident
    <3> QED
      BY <1>0, <3>1, <3>2, <3>3
  <2>5. CASE Evaluates
    <3>1. PICK v, relevant : v \in VerdictsGiven /\ EvaluateTo(relevant, v)
      BY <2>5 DEF Evaluates
    <3>2. /\ phase = "evaluate" /\ phase' = AfterVerdict(v) /\ UNCHANGED <<setting, rounds>> /\ verdict' = v
          /\ Called("evaluate")
      BY <3>1 DEF EvaluateTo
    <3>3. /\ calls'["evaluate"] = calls["evaluate"] + 1 /\ calls'["decompose"] = calls["decompose"]
          /\ calls'["reformulate"] = calls["reformulate"]
      BY <1>0, <3>2, CalledRight
    <3>4. /\ phase' \in {"done", "reformulate"}
          /\ phase' = "reformulate" => ~Confident(v) /\ ~(rounds >= setting.maxRounds)
      BY <3>2 DEF AfterVerdict
    <3>5. Confident(verdict') <=> Confident(v)
      BY <3>2 DEF Confident
    <3> QED
      BY <1>0, <3>2, <3>3, <3>4, <3>5
  <2>6. ASSUME NEW written \in Reformulations, Reformulate(written)
        PROVE  CallsCounted'
    <3>1. phase = "reformulate" /\ UNCHANGED <<setting, verdict>> /\ Called("reformulate")
      BY <2>6 DEF Reformulate
    <3>2. /\ calls'["reformulate"] = calls["reformulate"] + 1 /\ calls'["decompose"] = calls["decompose"]
          /\ calls'["evaluate"] = calls["evaluate"]
      BY <1>0, <3>1, CalledRight
    <3>3. ~Confident(verdict')
      BY <3>1 DEF Confident
    <3>4. \/ phase' = "done" /\ rounds' = rounds
          \/ phase' \in {"decompose", "search"} /\ rounds' = rounds + 1
      BY <2>6 DEF Reformulate, Retrieve, LegsFor
    <3> QED
      BY <1>0, <3>1, <3>2, <3>3, <3>4
  <2>7. CASE RetrievalStageFails
    <3>1. /\ phase \in Stages /\ phase' = "failed" /\ UNCHANGED <<setting, verdict, rounds>> /\ Called(phase)
      BY <2>7 DEF RetrievalStageFails, Stages
    <3>2. calls'[phase] = calls[phase] + 1 /\ \A s \in Stages : s # phase => calls'[s] = calls[s]
      BY <1>0, <3>1, CalledRight
    <3>3. ~Confident(verdict')
      BY <3>1 DEF Confident, Stages
    <3>4. phase = "decompose" \/ phase = "evaluate" \/ phase = "reformulate"
      BY <3>1 DEF Stages
    <3> QED
      BY <1>0, <3>1, <3>2, <3>3, <3>4
  <2> QED
    BY <1>1, <2>1, <2>2, <2>3, <2>4, <2>5, <2>6, <2>7, RetrievalSteps
<1>2. CASE UNCHANGED retrievalVars
  <2>1. UNCHANGED <<setting, phase, verdict, rounds, calls>>
    BY <1>2 DEF retrievalVars
  <2>2. Confident(verdict') <=> Confident(verdict)
    BY <2>1 DEF Confident
  <2> QED
    BY <2>1, <2>2
<1> QED
  BY <1>1, <1>2

RetrievalInv == RetrievalBase /\ EarlierQueriesLead /\ VerdictKept /\ DemotedKept /\ CallsCounted

\* What holds throughout is what the caller is promised.
LEMMA InvKeepsFaith == RetrievalInv => EvidenceKeepsFaith
<1> SUFFICES ASSUME RetrievalInv
             PROVE  EvidenceKeepsFaith
  OBVIOUS
<1> USE DEF RetrievalInv
<1>1. RetrievalBase /\ Going /\ Split
  BY DEF RetrievalBase
<1>2. RetrievalTypeOK
  <2>1. verdict.score \in 0 .. 10 /\ verdict.status \in {"none", "valid", "partial", "invalid"}
    BY <1>1 DEF Going, VerdictsGiven
  <2>2. /\ legs \in Seq({"waits", "searches", "done", "failed"})
        /\ Len(groups) = Len(legs) /\ Len(legs) <= MaxSubQueries + 1
    BY <1>1 DEF Split, LegStates
  <2>3. phase \in {"new", "decompose", "search", "evaluate", "reformulate", "done", "failed"}
    BY <1>1 DEF Going, RetrievalPhases
  <2> QED
    BY <2>1, <2>2, <2>3 DEF RetrievalTypeOK
<1>3. EvidenceOnce
  <2>1. DOMAIN evidence = 1 .. Len(evidence)
    BY <1>1 DEF Going
  <2> QED
    BY <1>1, <2>1 DEF EvidenceOnce, Going, Split, SectionsApart
<1>4. VerdictIsCurrent
  BY DEF VerdictIsCurrent, VerdictKept
<1>5. DemoteKeepsAll
  BY DEF DemoteKeepsAll, DemotedKept, Over
<1>6. CallsBounded
  BY DEF CallsBounded, CallsCounted
<1> QED
  BY <1>2, <1>3, <1>4, <1>5, <1>6 DEF EvidenceKeepsFaith

\* However the searches of a question overlap and however many rounds it takes,
\* each section is in the evidence once, what the earlier queries found leads, the
\* verdict is about the evidence the caller is given, demoting loses nothing, and
\* the model is called a bounded number of times (retrieval/orchestrator.go).
THEOREM EvidenceKept == RetrievalSpec => []EvidenceKeepsFaith
<1>1. RetrievalInit => RetrievalInv
  <2> SUFFICES ASSUME RetrievalInit
               PROVE  RetrievalInv
    OBVIOUS
  <2>1. RetrievalBase
    BY BaseInit
  <2>2. phase = "new" /\ verdict = NoVerdict /\ rounds = 0 /\ judged = {} /\ evidence = <<>>
    BY DEF RetrievalInit
  <2>3. EarlierQueriesLead
    BY <2>2 DEF EarlierQueriesLead
  <2>4. VerdictKept
    BY <2>2 DEF VerdictKept
  <2>5. DemotedKept
    BY <2>2 DEF DemotedKept, Over
  <2>6. CallsCounted
    <3>1. calls["evaluate"] = 0 /\ calls["decompose"] = 0 /\ calls["reformulate"] = 0
      BY DEF RetrievalInit
    <3>2. setting.maxRounds \in Nat
      BY <2>1, RetrievalAssumption DEF RetrievalBase, Going
    <3>3. ~Confident(verdict)
      BY <2>2, Unconfident
    <3> QED
      BY <2>2, <3>1, <3>2, <3>3 DEF CallsCounted
  <2> QED
    BY <2>1, <2>3, <2>4, <2>5, <2>6 DEF RetrievalInv
<1>2. RetrievalInv /\ [RetrievalNext]_retrievalVars => RetrievalInv'
  BY BaseStep, LeadStep, VerdictStep, DemotedStep, CallsStep DEF RetrievalInv
<1> QED
  BY <1>1, <1>2, InvKeepsFaith, PTL DEF RetrievalSpec

-----------------------------------------------------------------------------
(* The pages of a search. *)

PagingSpec == PagingInit /\ [][PagingNext]_pagingVars

Requesting == {"fetch", "judge", "rerank", "page", "ground"}

\* The filter is applied here, not by the index.
Outside == reader.filtered /\ ~reader.pushed

\* What is searched, and what the widest window holds of it.
Searched == IF reader.filtered /\ reader.pushed THEN Satisfying ELSE stored

Widest == Answer(IF reader.pool > 0 THEN reader.pool ELSE MaxFetch, Searched)

\* What there is to show, in the order of the pages.
Passing == IF Outside THEN Among(Widest, Fitting) ELSE Widest

Whole == IF reader.reranks THEN RerankTop(Passing) ELSE Passing

\* The place of a source in an index that ranks alike for every window.
Place(s) == CHOOSE i \in DOMAIN order[1] : order[1][i] = s

Ranked(s) ==
    /\ ToSet(s) \subseteq ToSet(order[1])
    /\ \A i, j \in 1 .. Len(s) : i < j => Place(s[i]) < Place(s[j])

Goes(c) == c \notin {Start, End}

PagingTyped ==
    /\ order \in Orders /\ reader \in Readers
    /\ stored \subseteq Sources /\ tagged \subseteq Sources /\ edits \in 0 .. MaxEdits
    /\ step \in Requesting \union {"new", "rest", "refused", "failed"}
    /\ fetch \in 0 .. MaxFetch /\ (step \in {"fetch", "judge"} => fetch \in 1 .. MaxFetch)
    /\ DOMAIN verdicts \subseteq Sources
    /\ list \in Seq(Sources) /\ IsInjective(list)
    /\ page \in Seq(Sources) /\ Len(page) <= reader.size
    /\ shown \in Seq(Sources) /\ answer.results \in Seq(Sources)
    /\ cursor \in {Start, End} \union [source : Sources, offset : Nat, filter : {r.filter : r \in Readers}]
    /\ changed \in BOOLEAN

\* Nothing is shown at first; a cursor is the last source shown.
CursorKept ==
    /\ step = "new" => cursor = Start /\ list = <<>> /\ page = <<>> /\ answer = [results |-> <<>>, grounding |-> "none"]
    /\ cursor = Start => shown = <<>>
    /\ Goes(cursor) => shown # <<>> /\ cursor.source = Last(shown)
    /\ step \in {"fetch", "judge", "rerank", "page"} => cursor # End
    /\ step = "judge" => Outside
    /\ step = "rerank" => reader.reranks
    /\ step = "ground" => reader.grounding # "off"

SelectedKept ==
    /\ step \in Requesting => Fitting \subseteq candidates
    /\ reader.filtered /\ step \in {"fetch", "judge"} => \A s \in DOMAIN verdicts : verdicts[s] => s \in candidates
    /\ reader.filtered /\ step \in {"rerank", "page"} => ToSet(list) \subseteq candidates
    /\ ShownSatisfied

\* Beside edits, what is shown comes in the order of the index.
RankedKept == Steady /\ ~reader.reranks => Ranked(list) /\ Ranked(shown)

\* The window suffices for the page, or cannot be wider.
WideEnough ==
    /\ reader.pool > 0 => fetch = reader.pool
    /\ Outside \/ reader.pool > 0 \/ fetch >= Target \/ fetch = MaxFetch

PrefixOf(s, t) == Len(s) <= Len(t) /\ s = SubSeq(t, 1, Len(s))

\* While nothing changes, the pages are cut from the whole.
WholeKept ==
    Stable /\ ~changed =>
        /\ step \in {"fetch", "judge"} => \A s \in DOMAIN verdicts : verdicts[s] = (s \in Fitting)
        /\ step \in {"fetch", "judge"} => WideEnough
        /\ step = "judge" => list = Answer(fetch, stored)
        /\ step = "rerank" => reader.pool > 0 /\ list = Passing
        /\ step = "page" => PrefixOf(list, Whole) /\ (list = Whole \/ Len(list) >= Target)
        /\ cursor = End => shown = Whole
        /\ Goes(cursor) => Len(shown) = cursor.offset + 1 /\ PrefixOf(shown, Whole)

PagingInv ==
    /\ PagingTyped
    /\ CursorKept
    /\ SelectedKept
    /\ RankedKept
    /\ WholeKept
    /\ FullBeforeMore
    /\ GroundingKeepsResults

-----------------------------------------------------------------------------
(* Parts of lists, and what there is of a set in them. *)

\* A part of a sequence.
LEMMA Cut ==
    ASSUME NEW T, NEW s \in Seq(T), NEW m \in Nat \ {0}, NEW n \in 0 .. Len(s)
    PROVE  /\ SubSeq(s, m, n) \in Seq(T) /\ Len(SubSeq(s, m, n)) = (IF m <= n THEN n - m + 1 ELSE 0)
           /\ \A i \in 1 .. Len(SubSeq(s, m, n)) : SubSeq(s, m, n)[i] = s[m + i - 1]
<1>1. \A i \in m .. n : s[i] \in T
  OBVIOUS
<1> QED
  BY <1>1

\* Two sequences are equal when they are as long and agree at each place.
LEMMA SameSeq ==
    ASSUME NEW T, NEW s \in Seq(T), NEW t \in Seq(T), Len(s) = Len(t), \A i \in 1 .. Len(s) : s[i] = t[i]
    PROVE  s = t
  OBVIOUS

\* What there is of a set in a sequence that goes on.
LEMMA AmongAppend ==
    ASSUME NEW T, NEW s \in Seq(T), NEW x \in T, NEW S
    PROVE  Among(Append(s, x), S) = IF x \in S THEN Append(Among(s, S), x) ELSE Among(s, S)
<1> DEFINE t == Append(s, x)
           N == Len(s)
<1>1. t \in Seq(T) /\ Len(t) = N + 1 /\ t[N + 1] = x /\ N \in Nat /\ \A i \in 1 .. N : t[i] = s[i]
  BY Appended
<1> HIDE DEF t, N
<1>2. PICK F : /\ Among(s, S) = F[N] /\ F[0] = <<>>
               /\ \A i \in 1 .. N : F[i] = TakenNext(s, S, F[i - 1], i)
  BY AmongSteps DEF N
<1>3. PICK G : /\ Among(t, S) = G[N + 1] /\ G[0] = <<>>
               /\ \A i \in 1 .. N + 1 : G[i] = TakenNext(t, S, G[i - 1], i)
  <2>1. \E G : /\ Among(t, S) = G[Len(t)] /\ G[0] = <<>>
               /\ \A i \in 1 .. Len(t) : G[i] = TakenNext(t, S, G[i - 1], i)
    BY <1>1, AmongSteps
  <2> QED
    BY <1>1, <2>1
<1> DEFINE E == {n \in Nat : n <= N => G[n] = F[n]}
<1>4. 0 \in E
  BY <1>2, <1>3
<1>5. ASSUME NEW n \in Nat, n \in E
      PROVE  n + 1 \in E
  <2> SUFFICES ASSUME n + 1 <= N
               PROVE  G[n + 1] = F[n + 1]
    OBVIOUS
  <2>1. n + 1 \in 1 .. N /\ n + 1 \in 1 .. N + 1 /\ (n + 1) - 1 = n /\ n <= N
    BY <1>1
  <2>2. G[n] = F[n] /\ t[n + 1] = s[n + 1]
    BY <1>1, <1>5, <2>1
  <2>3. G[n + 1] = TakenNext(t, S, G[n], n + 1) /\ F[n + 1] = TakenNext(s, S, F[n], n + 1)
    BY <1>2, <1>3, <2>1
  <2> QED
    BY <2>2, <2>3 DEF TakenNext
<1> HIDE DEF E
<1>6. N \in E
  BY <1>1, <1>4, <1>5, NatSetInduction
<1>7. G[N] = F[N]
  BY <1>1, <1>6 DEF E
<1>8. G[N + 1] = TakenNext(t, S, G[N], N + 1)
  <2>1. N + 1 \in 1 .. N + 1 /\ (N + 1) - 1 = N
    BY <1>1
  <2> QED
    BY <1>3, <2>1
<1> QED
  BY <1>1, <1>2, <1>3, <1>7, <1>8 DEF TakenNext, t

\* Only what is in the sequence matters.
LEMMA AmongSame ==
    ASSUME NEW T, NEW s \in Seq(T), NEW S, NEW R, ToSet(s) \intersect S = ToSet(s) \intersect R
    PROVE  Among(s, S) = Among(s, R)
<1> DEFINE N == Len(s)
<1>1. N \in Nat /\ \A i \in 1 .. N : s[i] \in S <=> s[i] \in R
  <2>1. ToSet(s) = {s[i] : i \in 1 .. N}
    BY SetOfSeq
  <2> QED
    BY <2>1
<1> HIDE DEF N
<1>2. PICK F : /\ Among(s, S) = F[N] /\ F[0] = <<>>
               /\ \A i \in 1 .. N : F[i] = TakenNext(s, S, F[i - 1], i)
  BY AmongSteps DEF N
<1>3. PICK G : /\ Among(s, R) = G[N] /\ G[0] = <<>>
               /\ \A i \in 1 .. N : G[i] = TakenNext(s, R, G[i - 1], i)
  BY AmongSteps DEF N
<1> DEFINE E == {n \in Nat : n <= N => G[n] = F[n]}
<1>4. 0 \in E
  BY <1>2, <1>3
<1>5. ASSUME NEW n \in Nat, n \in E
      PROVE  n + 1 \in E
  <2> SUFFICES ASSUME n + 1 <= N
               PROVE  G[n + 1] = F[n + 1]
    OBVIOUS
  <2>1. n + 1 \in 1 .. N /\ (n + 1) - 1 = n /\ n <= N
    BY <1>1
  <2>2. G[n] = F[n]
    BY <1>5, <2>1
  <2>3. G[n + 1] = TakenNext(s, R, G[n], n + 1) /\ F[n + 1] = TakenNext(s, S, F[n], n + 1)
    BY <1>2, <1>3, <2>1
  <2> QED
    BY <1>1, <2>1, <2>2, <2>3 DEF TakenNext
<1> HIDE DEF E
<1>6. N \in E
  BY <1>1, <1>4, <1>5, NatSetInduction
<1> QED
  BY <1>1, <1>2, <1>3, <1>6 DEF E

\* What a prefix is, place by place.
LEMMA PrefixPlaces ==
    ASSUME NEW T, NEW s \in Seq(T), NEW t \in Seq(T)
    PROVE  PrefixOf(s, t) <=> Len(s) <= Len(t) /\ \A i \in 1 .. Len(s) : s[i] = t[i]
<1> SUFFICES ASSUME Len(s) <= Len(t)
             PROVE  s = SubSeq(t, 1, Len(s)) <=> \A i \in 1 .. Len(s) : s[i] = t[i]
  BY DEF PrefixOf
<1> DEFINE c == SubSeq(t, 1, Len(s))
<1>1. Len(s) \in 0 .. Len(t) /\ 1 \in Nat \ {0}
  OBVIOUS
<1>2. c \in Seq(T) /\ Len(c) = Len(s) /\ \A i \in 1 .. Len(c) : c[i] = t[1 + i - 1]
  <2>1. /\ c \in Seq(T) /\ Len(c) = (IF 1 <= Len(s) THEN Len(s) - 1 + 1 ELSE 0)
        /\ \A i \in 1 .. Len(c) : c[i] = t[1 + i - 1]
    BY <1>1, Cut
  <2> QED
    BY <1>1, <2>1
<1>3. \A i \in 1 .. Len(s) : c[i] = t[i]
  BY <1>2
<1> HIDE DEF c
<1>4. (\A i \in 1 .. Len(s) : s[i] = t[i]) => s = c
  BY <1>2, <1>3, SameSeq
<1>5. s = c <=> \A i \in 1 .. Len(s) : s[i] = t[i]
  BY <1>3, <1>4
<1> QED
  BY <1>5 DEF c

\* What there is of a set in a prefix is a prefix of what there is in the whole.
LEMMA AmongPrefix ==
    ASSUME NEW T, NEW s \in Seq(T), NEW t \in Seq(T), PrefixOf(s, t), NEW S
    PROVE  PrefixOf(Among(s, S), Among(t, S))
<1> DEFINE M == Len(s)
           N == Len(t)
           upTo(n) == SubSeq(t, 1, n)
           E == {n \in Nat : M + n <= N => PrefixOf(Among(s, S), Among(upTo(M + n), S))}
<1>1. M \in Nat /\ N \in Nat /\ M <= N /\ s = upTo(M)
  BY DEF PrefixOf
<1>2. ASSUME NEW n \in 0 .. N
      PROVE  upTo(n) \in Seq(T) /\ Len(upTo(n)) = n /\ \A i \in 1 .. n : upTo(n)[i] = t[i]
  <2>1. /\ upTo(n) \in Seq(T) /\ Len(upTo(n)) = (IF 1 <= n THEN n - 1 + 1 ELSE 0)
        /\ \A i \in 1 .. Len(upTo(n)) : upTo(n)[i] = t[1 + i - 1]
    BY Cut
  <2>2. Len(upTo(n)) = n
    BY <2>1
  <2> QED
    BY <2>1, <2>2
<1> HIDE DEF M, N, upTo
<1>3. \A u \in Seq(T) : Among(u, S) \in Seq(T)
  BY AmongSet
<1>4. 0 \in E
  <2>1. PrefixOf(Among(s, S), Among(s, S))
    BY <1>3, PrefixPlaces
  <2>2. M + 0 = M
    BY <1>1
  <2> QED
    BY <1>1, <2>1, <2>2
<1>5. ASSUME NEW n \in Nat, n \in E
      PROVE  n + 1 \in E
  <2> SUFFICES ASSUME M + (n + 1) <= N
               PROVE  PrefixOf(Among(s, S), Among(upTo(M + (n + 1)), S))
    OBVIOUS
  <2> DEFINE k == M + n
             u == upTo(k)
             v == upTo(k + 1)
             x == t[k + 1]
  <2>1. k \in 0 .. N /\ k + 1 \in 0 .. N /\ k + 1 \in 1 .. N /\ M + (n + 1) = k + 1
    BY <1>1
  <2>2. PrefixOf(Among(s, S), Among(u, S))
    BY <1>5, <2>1
  <2> HIDE DEF k
  <2>3. u \in Seq(T) /\ Len(u) = k /\ v \in Seq(T) /\ Len(v) = k + 1 /\ x \in T
    BY <1>2, <2>1 DEF N
  <2>4. v = Append(u, x)
    <3>1. Append(u, x) \in Seq(T) /\ Len(Append(u, x)) = k + 1 /\ Append(u, x)[k + 1] = x
          /\ \A i \in 1 .. k : Append(u, x)[i] = u[i]
      BY <2>3, Appended
    <3>2. (\A i \in 1 .. k : u[i] = t[i]) /\ \A i \in 1 .. k + 1 : v[i] = t[i]
      BY <1>2, <2>1
    <3>3. \A i \in 1 .. k + 1 : i \in 1 .. k \/ i = k + 1
      BY <2>1
    <3>4. \A i \in 1 .. k + 1 : v[i] = Append(u, x)[i]
      BY <3>1, <3>2, <3>3
    <3> QED
      BY <2>3, <3>1, <3>4, SameSeq
  <2> HIDE DEF u, v, x
  <2> DEFINE a == Among(s, S)
             b == Among(u, S)
             c == Among(v, S)
  <2>5. c = IF x \in S THEN Append(b, x) ELSE b
    BY <2>3, <2>4, AmongAppend
  <2>6. a \in Seq(T) /\ b \in Seq(T) /\ c \in Seq(T)
    BY <1>3, <2>3
  <2> HIDE DEF a, b, c
  <2>7. Len(a) <= Len(b) /\ \A i \in 1 .. Len(a) : a[i] = b[i]
    BY <2>2, <2>6, PrefixPlaces DEF a, b
  <2>8. Len(b) <= Len(c) /\ \A i \in 1 .. Len(b) : c[i] = b[i]
    <3>1. Len(Append(b, x)) = Len(b) + 1 /\ \A i \in 1 .. Len(b) : Append(b, x)[i] = b[i]
      BY <2>3, <2>6, Appended
    <3>2. Len(b) \in Nat
      BY <2>6
    <3>3. CASE x \in S
      BY <2>5, <3>1, <3>2, <3>3
    <3>4. CASE x \notin S
      BY <2>5, <3>2, <3>4
    <3> QED
      BY <3>3, <3>4
  <2>9. Len(a) <= Len(c) /\ \A i \in 1 .. Len(a) : a[i] = c[i]
    <3>1. Len(a) \in Nat /\ Len(b) \in Nat /\ Len(c) \in Nat
      BY <2>6
    <3>2. \A i \in 1 .. Len(a) : i \in 1 .. Len(b)
      BY <2>7, <3>1
    <3> QED
      BY <2>7, <2>8, <3>1, <3>2
  <2>10. PrefixOf(a, c)
    BY <2>6, <2>9, PrefixPlaces
  <2> QED
    BY <2>1, <2>10 DEF a, c, v
<1> HIDE DEF E
<1>6. N - M \in Nat /\ M + (N - M) = N
  BY <1>1
<1>7. N - M \in E
  BY <1>4, <1>5, <1>6, NatSetInduction
<1>8. upTo(N) = t
  <2>1. N \in 0 .. N
    BY <1>1
  <2> QED
    BY <1>2, <2>1, SameSeq DEF N
<1> QED
  BY <1>1, <1>6, <1>7, <1>8 DEF E

\* Two sequences one after the other have the elements of both.
LEMMA Joined ==
    ASSUME NEW T, NEW s \in Seq(T), NEW t \in Seq(T)
    PROVE  /\ s \o t \in Seq(T) /\ ToSet(s \o t) = ToSet(s) \union ToSet(t)
           /\ IsInjective(s) /\ IsInjective(t) /\ ToSet(s) \intersect ToSet(t) = {} => IsInjective(s \o t)
<1> DEFINE u == s \o t
           M == Len(s)
           N == Len(t)
<1>1. /\ u \in Seq(T) /\ Len(u) = M + N
      /\ \A i \in 1 .. M : u[i] = s[i]
      /\ \A i \in 1 .. N : u[M + i] = t[i]
  BY Concatenated
<1>2. /\ M \in Nat /\ N \in Nat /\ DOMAIN s = 1 .. M /\ DOMAIN t = 1 .. N
      /\ ToSet(s) = {s[i] : i \in 1 .. M} /\ ToSet(t) = {t[i] : i \in 1 .. N}
  BY SetOfSeq
<1> HIDE DEF u, M, N
<1>3. DOMAIN u = 1 .. M + N /\ ToSet(u) = {u[i] : i \in 1 .. M + N}
  BY <1>1, SetOfSeq
<1>4. \A i \in 1 .. M + N : i \in 1 .. M \/ (i - M \in 1 .. N /\ M + (i - M) = i /\ i \notin 1 .. M)
  BY <1>2
<1>5. (\A i \in 1 .. M : i \in 1 .. M + N) /\ \A i \in 1 .. N : M + i \in 1 .. M + N
  BY <1>2
<1>6. \A i \in 1 .. M + N : u[i] = IF i \in 1 .. M THEN s[i] ELSE t[i - M]
  <2> SUFFICES ASSUME NEW i \in 1 .. M + N
               PROVE  u[i] = IF i \in 1 .. M THEN s[i] ELSE t[i - M]
    OBVIOUS
  <2>1. CASE i \in 1 .. M
    BY <1>1, <2>1
  <2>2. CASE i \notin 1 .. M
    <3>1. i - M \in 1 .. N /\ M + (i - M) = i
      BY <1>4, <2>2
    <3>2. u[M + (i - M)] = t[i - M]
      BY <1>1, <3>1
    <3> QED
      BY <2>2, <3>1, <3>2
  <2> QED
    BY <2>1, <2>2
<1>7. ToSet(u) \subseteq ToSet(s) \union ToSet(t)
  BY <1>2, <1>3, <1>4, <1>6
<1>8. ToSet(s) \subseteq ToSet(u)
  BY <1>1, <1>2, <1>3, <1>5
<1>9. ToSet(t) \subseteq ToSet(u)
  BY <1>1, <1>2, <1>3, <1>5
<1>10. ASSUME IsInjective(s), IsInjective(t), ToSet(s) \intersect ToSet(t) = {}
       PROVE  IsInjective(u)
  <2> SUFFICES ASSUME NEW i \in 1 .. M + N, NEW j \in 1 .. M + N, u[i] = u[j]
               PROVE  i = j
    BY <1>3 DEF IsInjective
  <2>1. CASE i \in 1 .. M /\ j \in 1 .. M
    <3>1. s[i] = s[j]
      BY <1>6, <2>1
    <3> QED
      BY <1>2, <1>10, <2>1, <3>1 DEF IsInjective
  <2>2. CASE i \notin 1 .. M /\ j \notin 1 .. M
    <3>1. t[i - M] = t[j - M] /\ i - M \in 1 .. N /\ j - M \in 1 .. N
      BY <1>4, <1>6, <2>2
    <3>2. i - M = j - M
      BY <1>2, <1>10, <3>1 DEF IsInjective
    <3> QED
      BY <1>2, <3>2
  <2>3. CASE i \in 1 .. M /\ j \notin 1 .. M
    <3>1. u[i] \in ToSet(s)
      BY <1>2, <1>6, <2>3
    <3>2. u[j] \in ToSet(t)
      BY <1>2, <1>4, <1>6, <2>3
    <3> QED
      BY <1>10, <3>1, <3>2
  <2>4. CASE i \notin 1 .. M /\ j \in 1 .. M
    <3>1. u[j] \in ToSet(s)
      BY <1>2, <1>6, <2>4
    <3>2. u[i] \in ToSet(t)
      BY <1>2, <1>4, <1>6, <2>4
    <3> QED
      BY <1>10, <3>1, <3>2
  <2> QED
    BY <2>1, <2>2, <2>3, <2>4
<1> QED
  BY <1>1, <1>7, <1>8, <1>9, <1>10 DEF u

\* What is cut out of a sequence is of it.
LEMMA CutOf ==
    ASSUME NEW T, NEW s \in Seq(T), NEW m \in Nat \ {0}, NEW n \in 0 .. Len(s)
    PROVE  /\ ToSet(SubSeq(s, m, n)) = {s[i] : i \in m .. n}
           /\ IsInjective(s) => IsInjective(SubSeq(s, m, n))
<1> DEFINE c == SubSeq(s, m, n)
<1>1. /\ c \in Seq(T) /\ Len(c) = (IF m <= n THEN n - m + 1 ELSE 0)
      /\ \A i \in 1 .. Len(c) : c[i] = s[m + i - 1]
  BY Cut
<1> HIDE DEF c
<1>2. ToSet(c) = {c[i] : i \in 1 .. Len(c)} /\ DOMAIN c = 1 .. Len(c) /\ DOMAIN s = 1 .. Len(s)
  BY <1>1, SetOfSeq
<1>3. \A i \in 1 .. Len(c) : m + i - 1 \in m .. n /\ m + i - 1 \in 1 .. Len(s)
  BY <1>1
<1>4. \A i \in m .. n : i - m + 1 \in 1 .. Len(c) /\ m + (i - m + 1) - 1 = i
  BY <1>1
<1>5. ToSet(c) \subseteq {s[i] : i \in m .. n}
  BY <1>1, <1>2, <1>3
<1>6. ASSUME NEW i \in m .. n
      PROVE  s[i] \in ToSet(c)
  <2>1. c[i - m + 1] = s[m + (i - m + 1) - 1]
    BY <1>1, <1>4
  <2> QED
    BY <1>2, <1>4, <2>1
<1>7. ASSUME IsInjective(s), NEW i \in 1 .. Len(c), NEW j \in 1 .. Len(c), c[i] = c[j]
      PROVE  i = j
  <2>1. m + i - 1 = m + j - 1
    BY <1>1, <1>2, <1>3, <1>7 DEF IsInjective
  <2> QED
    BY <2>1
<1>8. IsInjective(s) => IsInjective(c)
  BY <1>2, <1>7 DEF IsInjective
<1>9. ToSet(c) = {s[i] : i \in m .. n}
  BY <1>5, <1>6
<1> QED
  BY <1>8, <1>9 DEF c

\* A prefix of a list without repetitions has none.
LEMMA PrefixInjective ==
    ASSUME NEW T, NEW s \in Seq(T), NEW t \in Seq(T), PrefixOf(s, t)
    PROVE  ToSet(s) \subseteq ToSet(t) /\ (IsInjective(t) => IsInjective(s))
<1>1. Len(s) \in 0 .. Len(t) /\ s = SubSeq(t, 1, Len(s)) /\ 1 \in Nat \ {0}
  BY DEF PrefixOf
<1>2. ToSet(SubSeq(t, 1, Len(s))) = {t[i] : i \in 1 .. Len(s)} /\ (IsInjective(t) => IsInjective(SubSeq(t, 1, Len(s))))
  BY <1>1, CutOf
<1>3. ToSet(t) = {t[i] : i \in 1 .. Len(t)} /\ \A i \in 1 .. Len(s) : i \in 1 .. Len(t)
  BY <1>1, SetOfSeq
<1> QED
  BY <1>1, <1>2, <1>3

-----------------------------------------------------------------------------
(* What the index answers, and what the reranker makes of it. *)

\* An index ranks each source once, for every window that may be asked for.
LEMMA OrderFacts ==
    ASSUME order \in Orders, NEW n \in 1 .. MaxFetch
    PROVE  n \in DOMAIN order /\ order[n] \in Seq(Sources) /\ IsInjective(order[n])
  BY PagingAssumption DEF RankingOf

\* The numbers of a configuration, and of a reader.
LEMMA ReaderFacts ==
    ASSUME reader \in Readers
    PROVE  /\ MaxFetch \in Nat \ {0} /\ Pool \in 1 .. MaxFetch /\ FetchFactor \in Nat \ {0} /\ FetchGrowth \in Nat
           /\ FetchGrowth > 1 /\ DefaultPool \in Nat /\ RerankFactor \in Nat /\ MinRerank \in Nat /\ MaxEdits \in Nat
           /\ reader.size \in Nat \ {0} /\ reader.pool \in {0, Pool}
           /\ {reader.filtered, reader.pushed, reader.vacant, reader.reranks, reader.failOpen} \subseteq BOOLEAN
  BY PagingAssumption DEF ReaderOf

\* The first of the ranking that are searched, each once.
LEMMA AnswerRight ==
    ASSUME order \in Orders, NEW limit \in 1 .. MaxFetch, NEW A
    PROVE  LET ranked == Among(order[limit], A)
           IN  /\ ranked \in Seq(Sources) /\ IsInjective(ranked) /\ ToSet(ranked) \subseteq ToSet(order[limit])
               /\ Answer(limit, A) \in Seq(Sources) /\ IsInjective(Answer(limit, A)) /\ ToSet(Answer(limit, A)) \subseteq A
               /\ Len(Answer(limit, A)) = Fewer(limit, Len(ranked)) /\ PrefixOf(Answer(limit, A), ranked)
<1> DEFINE ranked == Among(order[limit], A)
           n == Fewer(limit, Len(ranked))
           c == SubSeq(ranked, 1, n)
<1>1. order[limit] \in Seq(Sources) /\ IsInjective(order[limit])
  BY OrderFacts
<1>2. ranked \in Seq(Sources) /\ ToSet(ranked) = ToSet(order[limit]) \intersect A /\ IsInjective(ranked)
  BY <1>1, AmongSet, AmongInjective
<1>3. Answer(limit, A) = c
  BY DEF Answer
<1> HIDE DEF ranked
<1>4. Len(ranked) \in Nat /\ n \in 0 .. Len(ranked) /\ 1 \in Nat \ {0}
  BY <1>2 DEF Fewer
<1> HIDE DEF n
<1>5. c \in Seq(Sources) /\ Len(c) = (IF 1 <= n THEN n - 1 + 1 ELSE 0)
  BY <1>2, <1>4, Cut
<1>6. Len(c) = n
  BY <1>4, <1>5
<1> HIDE DEF c
<1>7. PrefixOf(c, ranked)
  BY <1>4, <1>6 DEF PrefixOf, c
<1>8. ToSet(c) \subseteq ToSet(ranked) /\ IsInjective(c)
  BY <1>2, <1>5, <1>7, PrefixInjective
<1> QED
  BY <1>2, <1>3, <1>5, <1>6, <1>7, <1>8 DEF n, ranked

\* Reranking loses nothing and repeats nothing.
LEMMA RerankRight ==
    ASSUME reader \in Readers, NEW results \in Seq(Sources), IsInjective(results)
    PROVE  /\ RerankTop(results) \in Seq(Sources) /\ IsInjective(RerankTop(results))
           /\ ToSet(RerankTop(results)) = ToSet(results)
<1> DEFINE n == RerankWindow(results)
           N == Len(results)
           top == SubSeq(results, 1, n)
           tail == SubSeq(results, n + 1, N)
           best == Among(Preference, ToSet(top))
<1>1. N \in Nat /\ n \in 0 .. N
  <2>1. reader.size * RerankFactor \in Nat
    BY ReaderFacts
  <2> QED
    BY <2>1, ReaderFacts DEF RerankWindow, Fewer, More
<1>2. RerankTop(results) = best \o tail
  BY DEF RerankTop, Reranked
<1> HIDE DEF n
<1>3. top \in Seq(Sources) /\ tail \in Seq(Sources) /\ 1 \in Nat \ {0} /\ n + 1 \in Nat \ {0} /\ N \in 0 .. N
  BY <1>1, Cut
<1>4. /\ ToSet(top) = {results[i] : i \in 1 .. n} /\ ToSet(tail) = {results[i] : i \in n + 1 .. N}
      /\ IsInjective(top) /\ IsInjective(tail)
  BY <1>1, <1>3, CutOf
<1>5. ToSet(results) = {results[i] : i \in 1 .. N} /\ DOMAIN results = 1 .. N
  BY SetOfSeq
<1> HIDE DEF N, top, tail
<1>6. \A i \in 1 .. N : i \in 1 .. n \/ i \in n + 1 .. N
  BY <1>1
<1>7. (\A i \in 1 .. n : i \in 1 .. N) /\ \A i \in n + 1 .. N : i \in 1 .. N
  BY <1>1
<1>8. ToSet(results) = ToSet(top) \union ToSet(tail)
  BY <1>4, <1>5, <1>6, <1>7
<1>9. ToSet(top) \intersect ToSet(tail) = {}
  <2> SUFFICES ASSUME NEW i \in 1 .. n, NEW j \in n + 1 .. N, results[i] = results[j]
               PROVE  FALSE
    BY <1>4
  <2>1. i = j
    BY <1>5, <1>7 DEF IsInjective
  <2> QED
    BY <1>1, <2>1
<1>10. Preference \in Seq(Sources) /\ IsInjective(Preference) /\ ToSet(Preference) = Sources
  BY PagingAssumption
<1>11. ToSet(top) \subseteq Sources
  <2>1. ToSet(top) = {top[i] : i \in 1 .. Len(top)} /\ \A i \in 1 .. Len(top) : top[i] \in Sources
    BY <1>3, SetOfSeq
  <2> QED
    BY <2>1
<1>12. best \in Seq(Sources) /\ ToSet(best) = ToSet(top) /\ IsInjective(best)
  <2>1. best \in Seq(Sources) /\ ToSet(best) = ToSet(Preference) \intersect ToSet(top)
    BY <1>10, AmongSet
  <2>2. IsInjective(best)
    BY <1>10, AmongInjective
  <2> QED
    BY <1>10, <1>11, <2>1, <2>2
<1> HIDE DEF best
<1>13. /\ best \o tail \in Seq(Sources) /\ ToSet(best \o tail) = ToSet(best) \union ToSet(tail)
       /\ IsInjective(best \o tail)
  <2>1. /\ best \o tail \in Seq(Sources) /\ ToSet(best \o tail) = ToSet(best) \union ToSet(tail)
        /\ IsInjective(best) /\ IsInjective(tail) /\ ToSet(best) \intersect ToSet(tail) = {} => IsInjective(best \o tail)
    BY <1>3, <1>12, Joined
  <2> QED
    BY <1>4, <1>9, <1>12, <2>1
<1> QED
  BY <1>2, <1>8, <1>12, <1>13

-----------------------------------------------------------------------------
(* What is typed, and the cursor. *)

PagingBase == PagingTyped /\ CursorKept

\* Where a page begins.
LEMMA FirstRight ==
    ASSUME list \in Seq(Sources)
    PROVE  LET first == FirstAfter(list)
           IN  /\ first \in 1 .. Len(list) + 1
               /\ cursor = Start => first = 1
               /\ cursor # Start /\ cursor.source \notin ToSet(list) => first = Len(list) + 1
               /\ cursor # Start /\ cursor.source \in ToSet(list) =>
                      first - 1 \in 1 .. Len(list) /\ list[first - 1] = cursor.source
<1> DEFINE first == FirstAfter(list)
           found(i) == i \in 1 .. Len(list) /\ list[i] = cursor.source
<1>1. ToSet(list) = {list[i] : i \in 1 .. Len(list)} /\ DOMAIN list = 1 .. Len(list) /\ Len(list) \in Nat
  BY SetOfSeq
<1>2. CASE cursor = Start
  <2>1. first = 1
    BY <1>2 DEF FirstAfter
  <2> HIDE DEF first
  <2> QED
    BY <1>1, <1>2, <2>1 DEF first
<1>3. CASE cursor # Start /\ cursor.source \notin ToSet(list)
  <2>1. first = Len(list) + 1
    BY <1>3 DEF FirstAfter
  <2> HIDE DEF first
  <2> QED
    BY <1>1, <1>3, <2>1 DEF first
<1>4. CASE cursor # Start /\ cursor.source \in ToSet(list)
  <2> DEFINE i == CHOOSE i \in DOMAIN list : list[i] = cursor.source
  <2>1. first = 1 + i
    BY <1>4 DEF FirstAfter
  <2>2. \E j \in DOMAIN list : list[j] = cursor.source
    BY <1>1, <1>4
  <2>3. i \in DOMAIN list /\ list[i] = cursor.source
    BY <2>2
  <2> HIDE DEF i, first
  <2>4. first - 1 = i /\ first \in 1 .. Len(list) + 1
    BY <1>1, <2>1, <2>3
  <2> QED
    BY <1>1, <1>4, <2>3, <2>4 DEF first
<1> QED
  BY <1>2, <1>3, <1>4

\* A page is cut out of the list, and has a next one when it is full and the list
\* goes on.
LEMMA PageCut ==
    ASSUME PagingTyped, Paginate
    PROVE  \E first \in 1 .. Len(list) + 1, last \in 0 .. Len(list) :
               /\ first = FirstAfter(list) /\ first - 1 <= last /\ last <= first + reader.size - 1
               /\ page' = SubSeq(list, first, last) /\ page' \in Seq(Sources) /\ Len(page') = last - first + 1
               /\ \A i \in 1 .. last - first + 1 : page'[i] = list[first + i - 1]
               /\ \/ last = Len(list) /\ cursor' = End
                  \/ /\ last < Len(list) /\ last = first + reader.size - 1 /\ first <= last
                     /\ cursor' = [source |-> list[last], offset |-> last - 1, filter |-> reader.filter]
<1> DEFINE first == FirstAfter(list)
           last == Fewer(first + reader.size - 1, Len(list))
           N == Len(list)
<1>1. first \in 1 .. N + 1 /\ N \in Nat /\ list \in Seq(Sources)
  BY FirstRight DEF PagingTyped
<1>2. reader.size \in Nat \ {0}
  BY ReaderFacts DEF PagingTyped
<1>3. page' = SubSeq(list, first, last) /\ cursor' = NextCursor(first, last)
  BY DEF Paginate
<1> HIDE DEF first
<1>4. /\ last \in 0 .. N /\ first - 1 <= last /\ last <= first + reader.size - 1
      /\ last = N \/ (last < N /\ last = first + reader.size - 1 /\ first <= last)
  BY <1>1, <1>2 DEF Fewer
<1> HIDE DEF last
<1>5. /\ page' \in Seq(Sources) /\ Len(page') = (IF first <= last THEN last - first + 1 ELSE 0)
      /\ \A i \in 1 .. Len(page') : page'[i] = list[first + i - 1]
  <2>1. first \in Nat \ {0} /\ last \in 0 .. Len(list)
    BY <1>1, <1>4
  <2> QED
    BY <1>1, <1>3, <2>1, Cut
<1>6. Len(page') = last - first + 1
  BY <1>1, <1>4, <1>5
<1>7. \/ last = N /\ cursor' = End
      \/ /\ last < N /\ last = first + reader.size - 1 /\ first <= last
         /\ cursor' = [source |-> list[last], offset |-> last - 1, filter |-> reader.filter]
  <2>1. CASE last = N
    <3>1. ~(last < N)
      BY <1>1, <2>1
    <3> QED
      BY <1>3, <2>1, <3>1 DEF NextCursor
  <2>2. CASE last < N /\ last = first + reader.size - 1 /\ first <= last
    <3>1. first <= N
      BY <1>1, <1>4, <2>2
    <3> QED
      BY <1>3, <2>2, <3>1 DEF NextCursor
  <2> QED
    BY <1>4, <2>1, <2>2
<1> QED
  BY <1>1, <1>3, <1>4, <1>5, <1>6, <1>7 DEF first

\* The first window is one the index may be asked for.
LEMMA WindowRight ==
    ASSUME PagingTyped, cursor # End
    PROVE  Target \in Nat /\ Target > reader.size /\ Window \in 1 .. MaxFetch /\ (reader.pool > 0 => Window = reader.pool)
           /\ (~Outside /\ reader.pool = 0 => Window >= Target \/ Window = MaxFetch)
<1>1. /\ MaxFetch \in Nat \ {0} /\ Pool \in 1 .. MaxFetch /\ FetchFactor \in Nat \ {0} /\ DefaultPool \in Nat
      /\ reader.size \in Nat \ {0} /\ reader.pool \in {0, Pool}
  BY ReaderFacts DEF PagingTyped
<1>2. cursor.offset \in Nat \/ cursor.offset = -1
  BY DEF PagingTyped, Start
<1>3. Target \in Nat /\ Target > reader.size /\ Target > 0
  BY <1>1, <1>2 DEF Target
<1>4. CandidateWindow \in 1 .. MaxFetch
  <2>1. Target * FetchFactor \in Nat \ {0}
    BY <1>1, <1>3
  <2> HIDE DEF Target
  <2> QED
    BY <1>1, <1>3, <2>1 DEF CandidateWindow, Fewer
<1>5. CASE reader.filtered /\ reader.pushed
  <2>1. Window = Fewer(IF reader.pool > 0 THEN reader.pool ELSE Target, MaxFetch)
    BY <1>5 DEF Window
  <2> QED
    BY <1>1, <1>3, <2>1 DEF Fewer
<1>6. CASE ~(reader.filtered /\ reader.pushed) /\ reader.pool > 0
  <2>1. Window = reader.pool
    BY <1>6 DEF Window
  <2> QED
    BY <1>1, <1>3, <1>6, <2>1
<1>7. CASE ~reader.filtered /\ reader.pool = 0
  <2>1. Window = Fewer(More(Target, DefaultPool), MaxFetch)
    BY <1>7 DEF Window
  <2> QED
    BY <1>1, <1>3, <1>7, <2>1 DEF Fewer, More
<1>8. CASE Outside /\ reader.pool = 0
  <2>1. Window = CandidateWindow
    BY <1>8 DEF Window, Outside
  <2> QED
    BY <1>1, <1>3, <1>4, <1>8, <2>1
<1> QED
  BY <1>1, <1>5, <1>6, <1>7, <1>8 DEF Outside

\* The first state is typed.
LEMMA PagingStarts == PagingInit => PagingInv
<1> SUFFICES ASSUME PagingInit
             PROVE  PagingInv
  OBVIOUS
<1>1. order \in Orders /\ reader \in Readers
  BY PagingAssumption DEF PagingInit
<1>2. MaxEdits \in Nat /\ MaxFetch \in Nat \ {0} /\ reader.size \in Nat \ {0}
  BY <1>1, ReaderFacts
<1>3. /\ stored = {} /\ tagged = {} /\ edits = 0 /\ step = "new" /\ cursor = Start /\ fetch = 0 /\ verdicts = << >>
      /\ list = <<>> /\ page = <<>> /\ shown = <<>> /\ answer = [results |-> <<>>, grounding |-> "none"]
      /\ changed = FALSE
  BY DEF PagingInit
<1>4. DOMAIN << >> = {} /\ Len(<<>>) = 0 /\ <<>> \in Seq(Sources) /\ IsInjective(<<>>) /\ ToSet(<<>>) = {}
  <2>1. DOMAIN << >> = {} /\ Len(<<>>) = 0 /\ <<>> \in Seq(Sources)
    OBVIOUS
  <2> QED
    BY <2>1 DEF IsInjective, ToSet
<1>5. PagingTyped
  <2>1. 0 \in 0 .. MaxEdits /\ 0 \in 0 .. MaxFetch /\ 0 <= reader.size
    BY <1>2
  <2>2. DOMAIN verdicts = {}
    BY <1>3, <1>4
  <2>3. Len(page) <= reader.size
    BY <1>3, <1>4, <2>1
  <2> QED
    BY <1>1, <1>3, <1>4, <2>1, <2>2, <2>3 DEF PagingTyped
<1>6. CursorKept
  BY <1>3 DEF CursorKept, Goes
<1>7. SelectedKept /\ WholeKept /\ FullBeforeMore /\ GroundingKeepsResults
  <2>1. Start # End
    BY DEF Start, End
  <2> QED
    BY <1>3, <2>1 DEF SelectedKept, WholeKept, FullBeforeMore, GroundingKeepsResults, ShownSatisfied, Requesting, Goes
<1>8. RankedKept
  <2>1. Ranked(<<>>)
    <3>1. 1 .. Len(<<>>) = {}
      BY <1>4
    <3> QED
      BY <1>4, <3>1 DEF Ranked
  <2> QED
    BY <1>3, <2>1 DEF RankedKept
<1> QED
  BY <1>5, <1>6, <1>7, <1>8 DEF PagingInv

\* A reader turns to a corpus.
LEMMA BeginBase ==
    ASSUME PagingBase, NEW ranking \in Orders, NEW documents \in Corpora, NEW tags \in Tags, NEW r \in Readers,
           Begin(ranking, documents, tags, r)
    PROVE  PagingBase'
<1>1. r.size \in Nat \ {0} /\ documents \subseteq Sources /\ tags \subseteq Sources
  BY PagingAssumption DEF ReaderOf
<1>2. step = "new" /\ page = <<>> /\ cursor = Start /\ Len(<<>>) = 0
  BY DEF Begin, PagingBase, CursorKept
<1>3. PagingTyped'
  BY <1>1, <1>2 DEF Begin, PagingBase, PagingTyped, Requesting
<1>4. CursorKept'
  BY <1>2 DEF Begin, PagingBase, CursorKept, Goes
<1> QED
  BY <1>3, <1>4 DEF PagingBase

\* A page is asked for, first or next: the base of the invariant holds after it.
LEMMA AskBase ==
    ASSUME PagingBase, NEW filter, Ask(filter)
    PROVE  PagingBase'
<1>1. Window \in 1 .. MaxFetch /\ 1 .. MaxFetch \subseteq 0 .. MaxFetch
  BY WindowRight DEF Ask, PagingBase
<1>2. cursor # End /\ step' \in {"refused", "fetch"} /\ fetch' = Window /\ verdicts' = << >> /\ changed' \in BOOLEAN /\ DOMAIN << >> = {}
  BY DEF Ask, PagingBase, PagingTyped
<1>3. UNCHANGED <<corpusVars, reader, cursor, list, page, answer, shown>>
  BY DEF Ask
<1>4. PagingTyped'
  BY <1>1, <1>2, <1>3 DEF PagingBase, PagingTyped, Requesting, corpusVars
<1>5. CursorKept'
  BY <1>2, <1>3 DEF PagingBase, CursorKept, Goes
<1> QED
  BY <1>4, <1>5 DEF PagingBase

\* What is searched.
LEMMA SearchAnswers ==
    ASSUME PagingBase, Search
    PROVE  /\ list' = Answer(fetch, Searched) /\ list' \in Seq(Sources) /\ IsInjective(list')
           /\ ToSet(list') \subseteq Searched
           /\ step' = IF Outside THEN "judge" ELSE AfterList
           /\ (Outside => Searched = stored)
<1>1. list' = Answer(fetch, Searched) /\ step' = IF Outside THEN "judge" ELSE AfterList
  BY DEF Search, RequestTo, Searched, Outside
<1>2. order \in Orders /\ fetch \in 1 .. MaxFetch
  BY DEF Search, PagingBase, PagingTyped
<1>3. Outside => Searched = stored
  BY DEF Outside, Searched
<1> QED
  BY <1>1, <1>2, <1>3, AnswerRight

\* The index answers: the base of the invariant holds after it.
LEMMA SearchBase ==
    ASSUME PagingBase, Search
    PROVE  PagingBase'
<1>1. list' \in Seq(Sources) /\ IsInjective(list') /\ step' = IF Outside THEN "judge" ELSE AfterList
  BY SearchAnswers
<1>2. step = "fetch" /\ UNCHANGED <<corpusVars, reader, shown, changed, candidates, cursor, fetch, verdicts, page, answer>>
  BY DEF Search, RequestTo
<1>3. AfterList \in {"rerank", "page"} /\ (AfterList = "rerank" => reader.reranks)
  BY DEF AfterList
<1>4. PagingTyped'
  BY <1>1, <1>2, <1>3 DEF PagingBase, PagingTyped, Requesting, corpusVars
<1>5. CursorKept'
  BY <1>1, <1>2, <1>3 DEF PagingBase, CursorKept, Goes, Outside
<1> QED
  BY <1>4, <1>5 DEF PagingBase

\* What is judged, and what is kept.
Kept == Among(list, {s \in ToSet(list) : Verdicts[s]})

\* Judging a window keeps what fits in it, and settles each of its documents.
LEMMA JudgeKeeps ==
    ASSUME PagingBase, JudgeMetadata
    PROVE  /\ verdicts' = Verdicts /\ DOMAIN Verdicts \subseteq Sources /\ ToSet(list) \subseteq DOMAIN Verdicts
           /\ Kept \in Seq(Sources) /\ IsInjective(Kept) /\ ToSet(Kept) = {s \in ToSet(list) : Verdicts[s]}
           /\ \/ /\ reader.pool > 0 \/ Enough(Kept)
                 /\ list' = Kept /\ step' = AfterList /\ fetch' = fetch
              \/ /\ ~(reader.pool > 0 \/ Enough(Kept))
                 /\ list' = list /\ step' = "fetch" /\ fetch' = Wider
           /\ step = "judge" /\ UNCHANGED <<corpusVars, reader, shown, changed, candidates, cursor, page, answer>>
<1>1. DOMAIN Verdicts = DOMAIN verdicts \union ToSet(list)
  BY DEF Verdicts
<1>2. ToSet(list) \subseteq Sources
  <2>1. list \in Seq(Sources)
    BY DEF PagingBase, PagingTyped
  <2> QED
    BY <2>1, SetOfSeq
<1>3. Kept \in Seq(Sources) /\ ToSet(Kept) = ToSet(list) \intersect {s \in ToSet(list) : Verdicts[s]}
  BY AmongSet DEF Kept, PagingBase, PagingTyped
<1>4. IsInjective(Kept)
  BY AmongInjective DEF Kept, PagingBase, PagingTyped
<1>5. verdicts' = Verdicts /\ step = "judge" /\ UNCHANGED <<corpusVars, reader, shown, changed, candidates, cursor, page, answer>>
  BY DEF JudgeMetadata, RequestTo
<1>6. \/ /\ reader.pool > 0 \/ Enough(Kept)
         /\ list' = Kept /\ step' = AfterList /\ fetch' = fetch
      \/ /\ ~(reader.pool > 0 \/ Enough(Kept))
         /\ list' = list /\ step' = "fetch" /\ fetch' = Wider
  BY DEF JudgeMetadata, RequestTo, Kept
<1> QED
  BY <1>1, <1>2, <1>3, <1>4, <1>5, <1>6 DEF PagingBase, PagingTyped

\* The filter is applied to a window: the base of the invariant holds after it.
LEMMA JudgeBase ==
    ASSUME PagingBase, JudgeMetadata
    PROVE  PagingBase'
<1>1. /\ verdicts' = Verdicts /\ DOMAIN Verdicts \subseteq Sources /\ Kept \in Seq(Sources) /\ IsInjective(Kept)
      /\ step = "judge" /\ UNCHANGED <<corpusVars, reader, shown, changed, candidates, cursor, page, answer>>
      /\ \/ list' = Kept /\ step' = AfterList /\ fetch' = fetch
         \/ list' = list /\ step' = "fetch" /\ fetch' = Wider
  BY JudgeKeeps
<1>2. AfterList \in {"rerank", "page"} /\ (AfterList = "rerank" => reader.reranks)
  BY DEF AfterList
<1>3. Wider \in 1 .. MaxFetch
  <2>1. /\ fetch \in 1 .. MaxFetch /\ MaxFetch \in Nat \ {0} /\ FetchGrowth \in Nat /\ FetchGrowth > 1
    BY <1>1, ReaderFacts DEF PagingBase, PagingTyped
  <2>2. fetch * FetchGrowth \in Nat \ {0}
    BY <2>1
  <2> QED
    BY <2>1, <2>2 DEF Wider, Fewer
<1>4. list' \in Seq(Sources) /\ IsInjective(list') /\ fetch' \in 1 .. MaxFetch /\ 1 .. MaxFetch \subseteq 0 .. MaxFetch
  BY <1>1, <1>3 DEF PagingBase, PagingTyped
<1>5. PagingTyped'
  BY <1>1, <1>2, <1>4 DEF PagingBase, PagingTyped, Requesting, corpusVars
<1>6. CursorKept'
  BY <1>1, <1>2 DEF PagingBase, CursorKept, Goes
<1> QED
  BY <1>5, <1>6 DEF PagingBase

\* The reranker orders the window: the base of the invariant holds after it.
LEMMA RerankBase ==
    ASSUME PagingBase, Rerank
    PROVE  PagingBase'
<1>1. step = "rerank" /\ list' = RerankTop(list) /\ step' = "page"
      /\ UNCHANGED <<corpusVars, reader, shown, changed, candidates, cursor, fetch, verdicts, page, answer>>
  BY DEF Rerank, RequestTo
<1>2. RerankTop(list) \in Seq(Sources) /\ IsInjective(RerankTop(list))
  BY RerankRight DEF PagingBase, PagingTyped
<1>3. PagingTyped'
  BY <1>1, <1>2 DEF PagingBase, PagingTyped, Requesting, corpusVars
<1>4. CursorKept'
  BY <1>1 DEF PagingBase, CursorKept, Goes
<1> QED
  BY <1>3, <1>4 DEF PagingBase

\* A request fails, or its page is grounded.
LEMMA EndsBase ==
    ASSUME PagingBase, RequestFails \/ GroundingFails \/ \E relevant \in SUBSET ToSet(page) : Ground(relevant)
    PROVE  /\ PagingBase' /\ step' \in {"failed", "rest"} /\ (step' = "rest" => step = "ground")
           /\ UNCHANGED <<corpusVars, reader, shown, changed, candidates, cursor, fetch, verdicts, list, page>>
<1>1. page \in Seq(Sources) /\ answer.results \in Seq(Sources)
  BY DEF PagingBase, PagingTyped
<1>2. \A relevant : Among(page, relevant) \in Seq(Sources) /\ Demoted(relevant) \in Seq(Sources)
  <2>1. \A S : Among(page, S) \in Seq(Sources)
    BY <1>1, AmongSet
  <2> QED
    BY <2>1 DEF Demoted
<1>3. /\ step' \in {"failed", "rest"} /\ (step' = "rest" => step = "ground") /\ answer'.results \in Seq(Sources)
      /\ UNCHANGED <<corpusVars, reader, shown, changed, candidates, cursor, fetch, verdicts, list, page>>
  <2>1. CASE RequestFails
    BY <1>1, <2>1 DEF RequestFails, RequestTo
  <2>2. CASE GroundingFails
    BY <1>1, <2>2 DEF GroundingFails, GroundedTo, RequestTo
  <2>3. CASE \E relevant \in SUBSET ToSet(page) : Ground(relevant)
    <3>1. PICK relevant : Ground(relevant)
      BY <2>3
    <3> QED
      BY <1>2, <3>1 DEF Ground, GroundedTo, RequestTo
  <2> QED
    BY <2>1, <2>2, <2>3
<1>4. PagingTyped'
  BY <1>3 DEF PagingBase, PagingTyped, Requesting, corpusVars
<1>5. CursorKept'
  BY <1>3 DEF PagingBase, CursorKept, Goes
<1> QED
  BY <1>3, <1>4, <1>5 DEF PagingBase

\* What a page adds to what was shown.
LEMMA PaginateShows ==
    ASSUME Paginate
    PROVE  /\ shown' = shown \o page' /\ answer' = [results |-> page', grounding |-> "none"]
           /\ step = "page" /\ step' = IF reader.grounding = "off" THEN "rest" ELSE "ground"
           /\ UNCHANGED <<corpusVars, reader, fetch, verdicts, list, changed, candidates>>
  BY DEF Paginate

\* The page is cut and the cursor set: the base of the invariant holds after it.
LEMMA PaginateBase ==
    ASSUME PagingBase, Paginate
    PROVE  PagingBase'
<1>1. PICK first \in 1 .. Len(list) + 1, last \in 0 .. Len(list) :
               /\ first - 1 <= last /\ last <= first + reader.size - 1
               /\ page' \in Seq(Sources) /\ Len(page') = last - first + 1
               /\ \A i \in 1 .. last - first + 1 : page'[i] = list[first + i - 1]
               /\ \/ last = Len(list) /\ cursor' = End
                  \/ /\ last < Len(list) /\ last = first + reader.size - 1 /\ first <= last
                     /\ cursor' = [source |-> list[last], offset |-> last - 1, filter |-> reader.filter]
  BY PageCut DEF PagingBase
<1>2. list \in Seq(Sources) /\ shown \in Seq(Sources) /\ reader \in Readers /\ reader.size \in Nat \ {0} /\ Len(list) \in Nat
  BY ReaderFacts DEF PagingBase, PagingTyped
<1>3. /\ shown' = shown \o page' /\ answer' = [results |-> page', grounding |-> "none"]
      /\ step' = IF reader.grounding = "off" THEN "rest" ELSE "ground"
      /\ UNCHANGED <<corpusVars, reader, fetch, verdicts, list, changed, candidates>>
  BY PaginateShows
<1>4. /\ shown' \in Seq(Sources) /\ Len(shown') = Len(shown) + Len(page')
      /\ \A i \in 1 .. Len(page') : shown'[Len(shown) + i] = page'[i]
  <2>1. \A p \in Seq(Sources) : /\ shown \o p \in Seq(Sources) /\ Len(shown \o p) = Len(shown) + Len(p)
                              /\ \A i \in 1 .. Len(p) : (shown \o p)[Len(shown) + i] = p[i]
    BY <1>2, Concatenated
  <2> QED
    BY <1>1, <1>3, <2>1
<1>5. Len(page') <= reader.size
  BY <1>1, <1>2
<1>6. cursor' \in {Start, End} \union [source : Sources, offset : Nat, filter : {r.filter : r \in Readers}]
  <2>1. CASE cursor' = End
    BY <2>1
  <2>2. CASE cursor' = [source |-> list[last], offset |-> last - 1, filter |-> reader.filter] /\ last < Len(list) /\ first <= last
    <3>1. last \in 1 .. Len(list) /\ last - 1 \in Nat
      BY <1>2, <2>2
    <3>2. list[last] \in Sources
      BY <1>2, <3>1
    <3> QED
      BY <1>2, <2>2, <3>1, <3>2
  <2> QED
    BY <1>1, <2>1, <2>2
<1>7. PagingTyped'
  BY <1>1, <1>2, <1>3, <1>4, <1>5, <1>6 DEF PagingBase, PagingTyped, Requesting, corpusVars
<1>8. cursor' # Start
  <2>1. End # Start
    BY DEF Start, End
  <2>2. ASSUME last < Len(list), first <= last
        PROVE  [source |-> list[last], offset |-> last - 1, filter |-> reader.filter] # Start
    <3>1. last - 1 # -1
      BY <1>2, <2>2
    <3> QED
      BY <3>1 DEF Start
  <2> QED
    BY <1>1, <2>1, <2>2
<1>9. Goes(cursor') => shown' # <<>> /\ cursor'.source = Last(shown')
  <2> SUFFICES ASSUME cursor' # End
               PROVE  shown' # <<>> /\ cursor'.source = Last(shown')
    BY DEF Goes
  <2>1. last < Len(list) /\ first <= last /\ cursor'.source = list[last]
    BY <1>1
  <2>2. Len(page') \in 1 .. Len(page') /\ first + Len(page') - 1 = last /\ Len(page') = last - first + 1
    BY <1>1, <1>2, <2>1
  <2>3. page'[Len(page')] = list[last]
    BY <1>1, <2>2
  <2>4. shown'[Len(shown')] = list[last] /\ Len(shown') # 0
    BY <1>2, <1>4, <2>2, <2>3
  <2>5. shown' # <<>> /\ Last(shown') = shown'[Len(shown')]
    BY <1>4, <2>4 DEF Last
  <2> QED
    BY <2>1, <2>4, <2>5
<1>10. CursorKept'
  BY <1>3, <1>8, <1>9 DEF PagingBase, CursorKept, Goes
<1> QED
  BY <1>7, <1>10 DEF PagingBase

\* Documents change beside the search: the base of the invariant holds after it.
LEMMA EditBase ==
    ASSUME PagingBase, EditSome
    PROVE  /\ PagingBase' /\ changed' = TRUE /\ candidates' = candidates \union Fitting'
           /\ UNCHANGED <<order, requestVars>> /\ step # "new"
<1>1. PICK s \in Sources : \/ Edit(stored \union {s}, tagged)
                           \/ Edit(stored \ {s}, tagged)
                           \/ Edit(stored, (tagged \ {s}) \union ({s} \ tagged))
  BY DEF EditSome
<1>2. PICK documents \in SUBSET Sources, tags \in SUBSET Sources : Edit(documents, tags)
  BY <1>1 DEF PagingBase, PagingTyped
<1>3. /\ step # "new" /\ edits' = edits + 1 /\ edits < MaxEdits /\ stored' = documents /\ tagged' = tags
      /\ changed' = TRUE /\ candidates' = candidates \union Fitting' /\ UNCHANGED <<order, requestVars>>
  BY <1>2 DEF Edit
<1>4. PagingTyped'
  <2>1. edits' \in 0 .. MaxEdits
    BY <1>3, PagingAssumption DEF PagingBase, PagingTyped
  <2> QED
    BY <1>2, <1>3, <2>1 DEF PagingBase, PagingTyped, requestVars
<1>5. CursorKept'
  BY <1>3 DEF PagingBase, CursorKept, Goes, requestVars, Outside
<1> QED
  BY <1>3, <1>4, <1>5 DEF PagingBase

Ends == RequestFails \/ GroundingFails \/ \E relevant \in SUBSET ToSet(page) : Ground(relevant)

\* The steps there are.
LEMMA PagingSteps ==
    ASSUME [PagingNext]_pagingVars
    PROVE  \/ \E ranking \in Orders, documents \in Corpora, tags \in Tags, r \in Readers : Begin(ranking, documents, tags, r)
           \/ \E filter : Ask(filter)
           \/ Search \/ JudgeMetadata \/ Rerank \/ Ends \/ Paginate \/ EditSome
           \/ UNCHANGED pagingVars
<1>1. CASE UNCHANGED pagingVars
  BY <1>1
<1>2. CASE PagingNext
  BY <1>2 DEF PagingNext, RequestGoesOn, Ends
<1> QED
  BY <1>1, <1>2

\* What is selected and searched depends on the corpus and the reader.
LEMMA Unedited ==
    ASSUME UNCHANGED <<corpusVars, reader>>
    PROVE  /\ Fitting' = Fitting /\ Searched' = Searched /\ Outside' = Outside /\ Steady' = Steady /\ Stable' = Stable
           /\ \A n, A : Answer(n, A)' = Answer(n, A)
           /\ Whole' = Whole /\ Passing' = Passing
<1>1. stored' = stored /\ tagged' = tagged /\ order' = order /\ reader' = reader
  BY DEF corpusVars
<1>2. Fitting' = Fitting /\ Searched' = Searched /\ Outside' = Outside /\ Steady' = Steady /\ Stable' = Stable
  BY <1>1 DEF Fitting, Searched, Satisfying, Outside, Steady, Stable
<1>3. \A n, A : Answer(n, A)' = Answer(n, A)
  BY <1>1 DEF Answer
<1>4. Passing' = Passing
  <2>1. Widest' = Widest
    BY <1>1, <1>2 DEF Widest, Answer
  <2> QED
    BY <1>2, <2>1 DEF Passing
<1>5. Whole' = Whole
  <2>1. RerankTop(Passing)' = RerankTop(Passing)
    BY <1>1, <1>4 DEF RerankTop, Reranked, RerankWindow
  <2> QED
    BY <1>1, <1>4, <2>1 DEF Whole
<1> QED
  BY <1>2, <1>3, <1>4, <1>5

\* Every step keeps what is typed.
LEMMA PagingBaseStep == PagingBase /\ [PagingNext]_pagingVars => PagingBase'
<1> SUFFICES ASSUME PagingBase, [PagingNext]_pagingVars
             PROVE  PagingBase'
  OBVIOUS
<1>1. CASE UNCHANGED pagingVars
  BY <1>1 DEF PagingBase, PagingTyped, CursorKept, Goes, Outside, pagingVars, corpusVars, requestVars
<1> QED
  BY <1>1, PagingSteps, BeginBase, AskBase, SearchBase, JudgeBase, RerankBase, EndsBase, PaginateBase, EditBase DEF Ends

\* A page is of the list.
LEMMA PageOfList ==
    ASSUME PagingTyped, Paginate
    PROVE  ToSet(page') \subseteq ToSet(list)
<1>1. PICK first \in 1 .. Len(list) + 1, last \in 0 .. Len(list) : page' = SubSeq(list, first, last)
  BY PageCut
<1>2. list \in Seq(Sources) /\ first \in Nat \ {0} /\ Len(list) \in Nat
  BY DEF PagingTyped
<1>3. ToSet(SubSeq(list, first, last)) = {list[i] : i \in first .. last}
  BY <1>2, CutOf
<1>4. ToSet(list) = {list[i] : i \in 1 .. Len(list)} /\ \A i \in first .. last : i \in 1 .. Len(list)
  BY <1>2, SetOfSeq
<1> QED
  BY <1>1, <1>3, <1>4

-----------------------------------------------------------------------------
(* What a page shows was selected, is announced as it should be, and is judged. *)

\* What the filter rejected throughout a request is not shown, whatever changes.
LEMMA SelectedStep == PagingBase /\ SelectedKept /\ [PagingNext]_pagingVars => SelectedKept'
<1> SUFFICES ASSUME PagingBase, SelectedKept, [PagingNext]_pagingVars
             PROVE  SelectedKept'
  OBVIOUS
<1>0. Satisfying \subseteq Fitting
  BY DEF Satisfying, Fitting, PagingBase, PagingTyped
<1>1. ASSUME NEW ranking, NEW documents, NEW tags, NEW r, Begin(ranking, documents, tags, r)
      PROVE  SelectedKept'
  <2>1. page' = <<>> /\ step' = "rest" /\ ToSet(<<>>) = {}
    BY <1>1 DEF Begin, PagingBase, CursorKept, ToSet
  <2> QED
    BY <2>1 DEF SelectedKept, ShownSatisfied, Requesting
<1>2. ASSUME NEW filter, Ask(filter)
      PROVE  SelectedKept'
  <2>1. step' \in {"refused", "fetch"} /\ verdicts' = << >> /\ candidates' = Fitting /\ UNCHANGED <<corpusVars, reader>>
        /\ DOMAIN << >> = {}
    BY <1>2 DEF Ask
  <2>2. Fitting' = Fitting
    BY <2>1, Unedited
  <2> QED
    BY <2>1, <2>2 DEF SelectedKept, ShownSatisfied, Requesting
<1>3. CASE Search
  <2>1. /\ ToSet(list') \subseteq Searched /\ step' = IF Outside THEN "judge" ELSE AfterList
        /\ step = "fetch" /\ UNCHANGED <<corpusVars, reader, candidates, verdicts>>
    BY <1>3, SearchAnswers DEF Search, RequestTo
  <2>2. Fitting' = Fitting /\ Fitting \subseteq candidates
    BY <2>1, Unedited DEF SelectedKept, Requesting
  <2>3. CASE Outside
    BY <2>1, <2>2, <2>3 DEF SelectedKept, ShownSatisfied, Requesting
  <2>4. CASE ~Outside
    <3>1. reader.filtered => ToSet(list') \subseteq candidates
      BY <1>0, <2>1, <2>2, <2>4 DEF Searched, Outside
    <3>2. step' \in {"rerank", "page"}
      BY <2>1, <2>4 DEF AfterList
    <3> QED
      BY <2>1, <2>2, <3>1, <3>2 DEF SelectedKept, ShownSatisfied, Requesting
  <2> QED
    BY <2>3, <2>4
<1>4. CASE JudgeMetadata
  <2>1. /\ verdicts' = Verdicts /\ ToSet(list) \subseteq DOMAIN Verdicts
        /\ ToSet(Kept) = {s \in ToSet(list) : Verdicts[s]} /\ step = "judge"
        /\ UNCHANGED <<corpusVars, reader, candidates>>
        /\ \/ list' = Kept /\ step' = AfterList
           \/ step' = "fetch"
    BY <1>4, JudgeKeeps
  <2>2. Fitting' = Fitting /\ Fitting \subseteq candidates
    BY <2>1, Unedited DEF SelectedKept, Requesting
  <2>3. ASSUME reader.filtered, NEW s \in DOMAIN Verdicts, Verdicts[s]
        PROVE  s \in candidates
    BY <2>1, <2>2, <2>3 DEF Verdicts, SelectedKept
  <2>4. reader.filtered => ToSet(Kept) \subseteq candidates
    BY <2>1, <2>3
  <2>5. AfterList \in {"rerank", "page"}
    BY DEF AfterList
  <2> QED
    BY <2>1, <2>2, <2>3, <2>4, <2>5 DEF SelectedKept, ShownSatisfied, Requesting
<1>5. CASE Rerank
  <2>1. list' = RerankTop(list) /\ step = "rerank" /\ step' = "page" /\ UNCHANGED <<corpusVars, reader, candidates>>
    BY <1>5 DEF Rerank, RequestTo
  <2>2. ToSet(RerankTop(list)) = ToSet(list)
    BY RerankRight DEF PagingBase, PagingTyped
  <2>3. Fitting' = Fitting
    BY <2>1, Unedited
  <2> QED
    BY <2>1, <2>2, <2>3 DEF SelectedKept, ShownSatisfied, Requesting
<1>6. CASE Ends
  <2>1. step' \in {"failed", "rest"} /\ (step' = "rest" => step = "ground") /\ UNCHANGED <<reader, candidates, page>>
    BY <1>6, EndsBase DEF Ends
  <2> QED
    BY <2>1 DEF SelectedKept, ShownSatisfied, Requesting
<1>7. CASE Paginate
  <2>1. ToSet(page') \subseteq ToSet(list)
    BY <1>7, PageOfList DEF PagingBase
  <2>2. step = "page" /\ step' \in {"rest", "ground"} /\ UNCHANGED <<corpusVars, reader, candidates>>
    BY <1>7, PaginateShows
  <2>3. Fitting' = Fitting
    BY <2>2, Unedited
  <2> QED
    BY <2>1, <2>2, <2>3 DEF SelectedKept, ShownSatisfied, Requesting
<1>8. CASE EditSome
  <2>1. candidates' = candidates \union Fitting' /\ UNCHANGED requestVars
    BY <1>8, EditBase
  <2> QED
    BY <2>1 DEF SelectedKept, ShownSatisfied, requestVars
<1>9. CASE UNCHANGED pagingVars
  <2>1. UNCHANGED <<corpusVars, requestVars, candidates>>
    BY <1>9 DEF pagingVars
  <2>2. Fitting' = Fitting
    BY <2>1, Unedited DEF requestVars
  <2> QED
    BY <2>1, <2>2 DEF SelectedKept, ShownSatisfied, requestVars
<1> QED
  BY <1>1, <1>2, <1>3, <1>4, <1>5, <1>6, <1>7, <1>8, <1>9, PagingSteps

\* A cursor to a next page is given with a full page only.
LEMMA AnnouncedStep == PagingBase /\ FullBeforeMore /\ [PagingNext]_pagingVars => FullBeforeMore'
<1> SUFFICES ASSUME PagingBase, FullBeforeMore, [PagingNext]_pagingVars
             PROVE  FullBeforeMore'
  OBVIOUS
<1>1. ASSUME NEW ranking, NEW documents, NEW tags, NEW r, Begin(ranking, documents, tags, r)
      PROVE  FullBeforeMore'
  <2>1. cursor' = Start
    BY <1>1 DEF Begin, PagingBase, CursorKept
  <2> QED
    BY <2>1 DEF FullBeforeMore
<1>2. ASSUME step' \notin {"rest", "ground"}
      PROVE  FullBeforeMore'
  BY <1>2 DEF FullBeforeMore
<1>3. CASE Ends
  <2>1. step' \in {"failed", "rest"} /\ (step' = "rest" => step = "ground") /\ UNCHANGED <<reader, cursor, page>>
    BY <1>3, EndsBase DEF Ends
  <2> QED
    BY <2>1 DEF FullBeforeMore
<1>4. CASE Paginate
  <2>1. PICK first \in 1 .. Len(list) + 1, last \in 0 .. Len(list) :
               /\ page' \in Seq(Sources) /\ Len(page') = last - first + 1
               /\ \A i \in 1 .. last - first + 1 : page'[i] = list[first + i - 1]
               /\ \/ last = Len(list) /\ cursor' = End
                  \/ /\ last < Len(list) /\ last = first + reader.size - 1 /\ first <= last
                     /\ cursor' = [source |-> list[last], offset |-> last - 1, filter |-> reader.filter]
    BY <1>4, PageCut DEF PagingBase
  <2>2. CASE cursor' = End
    BY <2>2 DEF FullBeforeMore
  <2>3. CASE /\ last < Len(list) /\ last = first + reader.size - 1 /\ first <= last
             /\ cursor' = [source |-> list[last], offset |-> last - 1, filter |-> reader.filter]
    <3>1. reader.size \in Nat \ {0} /\ reader' = reader /\ list \in Seq(Sources)
      BY <1>4, ReaderFacts, PaginateShows DEF PagingBase, PagingTyped
    <3>2. Len(page') = reader.size
      BY <2>1, <2>3, <3>1
    <3>3. last - first + 1 \in 1 .. last - first + 1 /\ first + (last - first + 1) - 1 = last
      <4>1. first \in Nat /\ last \in Nat /\ first <= last
        BY <2>1, <2>3, <3>1
      <4> QED
        BY ONLY <4>1
    <3>4. page'[last - first + 1] = list[last]
      BY <2>1, <3>3
    <3>5. Last(page') = list[last]
      BY <2>1, <3>4 DEF Last
    <3> QED
      BY <2>3, <3>1, <3>2, <3>5 DEF FullBeforeMore
  <2> QED
    BY <2>1, <2>2, <2>3
<1>5. CASE EditSome \/ UNCHANGED pagingVars
  <2>1. UNCHANGED requestVars
    BY <1>5, EditBase DEF pagingVars
  <2> QED
    BY <2>1 DEF FullBeforeMore, requestVars
<1>6. ASSUME NEW filter, Ask(filter)
      PROVE  step' \notin {"rest", "ground"}
  BY <1>6 DEF Ask
<1>7. CASE Search \/ JudgeMetadata \/ Rerank
  BY <1>2, <1>7 DEF Search, JudgeMetadata, Rerank, RequestTo, AfterList
<1> QED
  BY <1>1, <1>2, <1>3, <1>4, <1>5, <1>6, <1>7, PagingSteps

\* What is answered is of the page, and demoting loses nothing of it.
LEMMA GroundedStep == PagingBase /\ GroundingKeepsResults /\ [PagingNext]_pagingVars => GroundingKeepsResults'
<1> SUFFICES ASSUME PagingBase, GroundingKeepsResults, [PagingNext]_pagingVars
             PROVE  GroundingKeepsResults'
  OBVIOUS
<1>1. ASSUME NEW ranking, NEW documents, NEW tags, NEW r, Begin(ranking, documents, tags, r)
      PROVE  GroundingKeepsResults'
  <2>1. page' = <<>> /\ answer' = [results |-> <<>>, grounding |-> "none"]
    BY <1>1 DEF Begin, PagingBase, CursorKept
  <2> QED
    BY <2>1 DEF GroundingKeepsResults
<1>2. ASSUME step' # "rest"
      PROVE  GroundingKeepsResults'
  BY <1>2 DEF GroundingKeepsResults
<1>3. CASE RequestFails
  BY <1>2, <1>3 DEF RequestFails, RequestTo
<1>4. CASE GroundingFails
  <2>1. step' = "failed" \/ (answer' = [results |-> page, grounding |-> "none"] /\ page' = page)
    BY <1>4 DEF GroundingFails, GroundedTo, RequestTo
  <2> QED
    BY <2>1 DEF GroundingKeepsResults
<1>5. ASSUME NEW relevant \in SUBSET ToSet(page), Ground(relevant)
      PROVE  GroundingKeepsResults'
  <2>1. page \in Seq(Sources)
    BY DEF PagingBase, PagingTyped
  <2>2. \A S : Among(page, S) \in Seq(Sources) /\ ToSet(Among(page, S)) = ToSet(page) \intersect S
    BY <2>1, AmongSet
  <2>3. ToSet(Demoted(relevant)) = ToSet(Among(page, relevant)) \union ToSet(Among(page, ToSet(page) \ relevant))
    BY <2>2, Joined DEF Demoted
  <2>4. ToSet(Demoted(relevant)) = ToSet(page)
    BY <2>2, <2>3
  <2>5. /\ answer' = [results |-> IF reader.grounding = "demote" THEN Demoted(relevant) ELSE Among(page, relevant),
                      grounding |-> "verdict"]
        /\ UNCHANGED <<reader, page>> /\ step = "ground"
    BY <1>5 DEF Ground, GroundedTo, RequestTo
  <2>6. reader.grounding # "off"
    BY <2>5 DEF PagingBase, CursorKept
  <2>7. CASE reader.grounding = "demote"
    <3>1. ToSet(answer'.results) = ToSet(page')
      BY <2>4, <2>5, <2>7
    <3> QED
      BY <2>5, <2>6, <3>1 DEF GroundingKeepsResults
  <2>8. CASE reader.grounding # "demote"
    <3>1. ToSet(answer'.results) \subseteq ToSet(page') /\ answer'.grounding = "verdict"
      BY <2>2, <2>5, <2>8
    <3> QED
      BY <2>5, <2>6, <2>8, <3>1 DEF GroundingKeepsResults
  <2> QED
    BY <2>7, <2>8
<1>6. CASE Paginate
  BY <1>6, PaginateShows DEF GroundingKeepsResults
<1>7. CASE EditSome \/ UNCHANGED pagingVars
  <2>1. UNCHANGED requestVars
    BY <1>7, EditBase DEF pagingVars
  <2> QED
    BY <2>1 DEF GroundingKeepsResults, requestVars
<1>8. ASSUME NEW filter, Ask(filter)
      PROVE  step' # "rest"
  BY <1>8 DEF Ask
<1>9. CASE Search \/ JudgeMetadata \/ Rerank
  BY <1>2, <1>9 DEF Search, JudgeMetadata, Rerank, RequestTo, AfterList
<1> QED
  BY <1>1, <1>2, <1>3, <1>4, <1>5, <1>6, <1>7, <1>8, <1>9, PagingSteps DEF Ends

-----------------------------------------------------------------------------
(* Nothing is shown twice. *)

\* An index that ranks alike has a place for each source it ranks.
LEMMA PlaceRight ==
    ASSUME order \in Orders
    PROVE  /\ order[1] \in Seq(Sources) /\ ToSet(order[1]) = {order[1][i] : i \in 1 .. Len(order[1])}
           /\ \A i \in 1 .. Len(order[1]) : Place(order[1][i]) = i
           /\ \A s \in ToSet(order[1]) : Place(s) \in 1 .. Len(order[1])
           /\ Steady => \A n \in 1 .. MaxFetch : order[n] = order[1]
<1>1. 1 \in 1 .. MaxFetch
  BY PagingAssumption
<1>2. 1 \in DOMAIN order /\ order[1] \in Seq(Sources) /\ IsInjective(order[1])
  BY <1>1, OrderFacts
<1>3. DOMAIN order[1] = 1 .. Len(order[1]) /\ ToSet(order[1]) = {order[1][i] : i \in 1 .. Len(order[1])}
  BY <1>2, SetOfSeq
<1>4. \A i \in 1 .. Len(order[1]) : Place(order[1][i]) = i
  BY <1>2, <1>3 DEF Place, IsInjective
<1>5. Steady => \A n \in 1 .. MaxFetch : order[n] = order[1]
  BY <1>2, OrderFacts DEF Steady
<1> QED
  BY <1>2, <1>3, <1>4, <1>5

\* The order of what is chosen, place by place, out of what is ranked.
LEMMA ChosenRanked ==
    ASSUME NEW s \in Seq(Sources), Ranked(s), NEW t \in Seq(Sources), NEW f \in [1 .. Len(t) -> 1 .. Len(s)],
           \A i \in 1 .. Len(t) : t[i] = s[f[i]], \A i, j \in 1 .. Len(t) : i < j => f[i] < f[j]
    PROVE  Ranked(t)
<1>1. ToSet(s) = {s[i] : i \in 1 .. Len(s)} /\ ToSet(t) = {t[i] : i \in 1 .. Len(t)}
  BY SetOfSeq
<1>2. ToSet(t) \subseteq ToSet(order[1])
  BY <1>1 DEF Ranked
<1>3. ASSUME NEW i \in 1 .. Len(t), NEW j \in 1 .. Len(t), i < j
      PROVE  Place(t[i]) < Place(t[j])
  <2>1. f[i] \in 1 .. Len(s) /\ f[j] \in 1 .. Len(s) /\ f[i] < f[j]
    BY <1>3
  <2>2. Place(s[f[i]]) < Place(s[f[j]])
    BY <2>1 DEF Ranked
  <2> QED
    BY <2>2
<1> QED
  BY <1>2, <1>3 DEF Ranked

\* What is chosen from a ranked list is ranked.
LEMMA AmongRanked ==
    ASSUME NEW s \in Seq(Sources), Ranked(s), NEW S
    PROVE  Ranked(Among(s, S))
<1> DEFINE a == Among(s, S)
<1>1. Taken(Sources, s, S, Len(s), a)
  BY AmongRight
<1> HIDE DEF a
<1>2. PICK f : TakenAt(s, S, Len(s), a, f)
  BY <1>1 DEF Taken
<1>3. a \in Seq(Sources)
  BY <1>1 DEF Taken
<1>4. /\ f \in [1 .. Len(a) -> 1 .. Len(s)] /\ \A i \in 1 .. Len(a) : a[i] = s[f[i]]
      /\ \A i, j \in 1 .. Len(a) : i < j => f[i] < f[j]
  BY <1>2 DEF TakenAt
<1>5. Ranked(a)
  BY <1>3, <1>4, ChosenRanked
<1> QED
  BY <1>5 DEF a

\* A part of a ranked list is ranked.
LEMMA CutRanked ==
    ASSUME NEW s \in Seq(Sources), Ranked(s), NEW m \in Nat \ {0}, NEW n \in 0 .. Len(s)
    PROVE  Ranked(SubSeq(s, m, n))
<1> DEFINE c == SubSeq(s, m, n)
           f == [i \in 1 .. Len(c) |-> m + i - 1]
<1>1. /\ c \in Seq(Sources) /\ Len(c) = (IF m <= n THEN n - m + 1 ELSE 0)
      /\ \A i \in 1 .. Len(c) : c[i] = s[m + i - 1]
  BY Cut
<1> HIDE DEF c
<1>2. f \in [1 .. Len(c) -> 1 .. Len(s)]
  BY <1>1
<1>3. /\ \A i \in 1 .. Len(c) : c[i] = s[f[i]]
      /\ \A i, j \in 1 .. Len(c) : i < j => f[i] < f[j]
  BY <1>1
<1> HIDE DEF f
<1>4. Ranked(c)
  BY <1>1, <1>2, <1>3, ChosenRanked
<1> QED
  BY <1>4 DEF c

\* An index that ranks alike for every window answers in that order.
LEMMA AnswerRanked ==
    ASSUME order \in Orders, Steady, NEW n \in 1 .. MaxFetch, NEW A
    PROVE  Ranked(Answer(n, A))
<1>1. order[n] = order[1] /\ order[1] \in Seq(Sources)
  BY PlaceRight
<1>2. Ranked(order[1])
  BY PlaceRight DEF Ranked
<1> DEFINE ranked == Among(order[n], A)
<1>3. Ranked(ranked) /\ ranked \in Seq(Sources)
  BY <1>1, <1>2, AmongRanked, AmongSet
<1>4. Answer(n, A) = SubSeq(ranked, 1, Fewer(n, Len(ranked)))
  BY DEF Answer
<1> HIDE DEF ranked
<1>5. Fewer(n, Len(ranked)) \in 0 .. Len(ranked) /\ 1 \in Nat \ {0}
  BY <1>3 DEF Fewer
<1> QED
  BY <1>3, <1>4, <1>5, CutRanked

\* What comes after the last of what is shown may be shown after it.
LEMMA JoinedRanked ==
    ASSUME order \in Orders, NEW s \in Seq(Sources), Ranked(s), NEW t \in Seq(Sources), Ranked(t),
           s # <<>> => \A i \in 1 .. Len(t) : Place(Last(s)) < Place(t[i])
    PROVE  Ranked(s \o t)
<1> DEFINE u == s \o t
           M == Len(s)
           N == Len(t)
<1>1. /\ u \in Seq(Sources) /\ Len(u) = M + N
      /\ \A i \in 1 .. M : u[i] = s[i]
      /\ \A i \in 1 .. N : u[M + i] = t[i]
      /\ ToSet(u) = ToSet(s) \union ToSet(t)
  BY Concatenated, Joined
<1>2. /\ M \in Nat /\ N \in Nat /\ ToSet(s) = {s[i] : i \in 1 .. M} /\ ToSet(t) = {t[i] : i \in 1 .. N}
      /\ (s = <<>> <=> M = 0) /\ Last(s) = s[M]
  BY SetOfSeq DEF Last
<1> HIDE DEF u, M, N
<1>3. /\ \A i \in 1 .. M : Place(s[i]) \in Nat
      /\ \A i \in 1 .. N : Place(t[i]) \in Nat
  BY <1>2, PlaceRight DEF Ranked
<1>4. ASSUME NEW i \in 1 .. M, NEW k \in 1 .. N
      PROVE  Place(s[i]) < Place(t[k])
  <2>1. s # <<>> /\ M \in 1 .. M
    BY <1>2
  <2>2. Place(s[M]) < Place(t[k])
    BY <1>2, <2>1 DEF N
  <2>3. i = M \/ Place(s[i]) < Place(s[M])
    BY <1>2, <2>1 DEF Ranked, M
  <2> QED
    BY <1>3, <2>1, <2>2, <2>3
<1>5. ASSUME NEW i \in 1 .. M + N, NEW j \in 1 .. M + N, i < j
      PROVE  Place(u[i]) < Place(u[j])
  <2>1. CASE j \in 1 .. M
    <3>1. i \in 1 .. M
      BY <1>2, <1>5, <2>1
    <3>2. Place(s[i]) < Place(s[j])
      BY <1>5, <2>1, <3>1 DEF Ranked, M
    <3> QED
      BY <1>1, <2>1, <3>1, <3>2
  <2>2. CASE i \in 1 .. M /\ j \notin 1 .. M
    <3>1. j - M \in 1 .. N /\ M + (j - M) = j
      BY <1>2, <2>2
    <3>2. u[i] = s[i] /\ u[j] = t[j - M]
      BY <1>1, <2>2, <3>1
    <3> QED
      BY <1>4, <2>2, <3>1, <3>2
  <2>3. CASE i \notin 1 .. M
    <3>1. i - M \in 1 .. N /\ M + (i - M) = i /\ j - M \in 1 .. N /\ M + (j - M) = j /\ i - M < j - M
      BY <1>2, <1>5, <2>3
    <3>2. u[i] = t[i - M] /\ u[j] = t[j - M]
      BY <1>1, <3>1
    <3>3. Place(t[i - M]) < Place(t[j - M])
      BY <3>1 DEF Ranked, N
    <3> QED
      BY <3>2, <3>3
  <2> QED
    BY <2>1, <2>2, <2>3
<1>6. ToSet(u) \subseteq ToSet(order[1])
  BY <1>1 DEF Ranked
<1>7. Ranked(u)
  BY <1>1, <1>5, <1>6 DEF Ranked
<1> QED
  BY <1>7 DEF u

\* No results are in order.
LEMMA NothingRanked == Ranked(<<>>)
<1>1. ToSet(<<>>) = {} /\ 1 .. Len(<<>>) = {}
  BY DEF ToSet
<1> QED
  BY <1>1 DEF Ranked

\* A page goes on where the one before ended.
LEMMA PageRanked ==
    ASSUME PagingBase, Steady, ~reader.reranks, RankedKept, Paginate
    PROVE  Ranked(shown')
<1>1. PICK first \in 1 .. Len(list) + 1, last \in 0 .. Len(list) :
               /\ first = FirstAfter(list)
               /\ page' = SubSeq(list, first, last) /\ page' \in Seq(Sources) /\ Len(page') = last - first + 1
               /\ \A i \in 1 .. last - first + 1 : page'[i] = list[first + i - 1]
  BY PageCut DEF PagingBase
<1>2. Ranked(list) /\ Ranked(shown) /\ list \in Seq(Sources) /\ shown \in Seq(Sources) /\ order \in Orders /\ Len(list) \in Nat
  BY DEF RankedKept, PagingBase, PagingTyped
<1>3. shown' = shown \o page' /\ step = "page"
  BY PaginateShows
<1>4. Ranked(SubSeq(list, first, last))
  <2>1. first \in Nat \ {0}
    BY <1>2
  <2> QED
    BY <1>2, <2>1, CutRanked
<1> DEFINE p == SubSeq(list, first, last)
<1>5. /\ page' = p /\ p \in Seq(Sources) /\ Len(p) = last - first + 1
      /\ \A i \in 1 .. Len(p) : p[i] = list[first + i - 1]
  BY <1>1
<1> HIDE DEF p
<1>6. shown # <<>> => \A i \in 1 .. Len(p) : Place(Last(shown)) < Place(p[i])
  <2> SUFFICES ASSUME shown # <<>>, NEW i \in 1 .. Len(p)
               PROVE  Place(Last(shown)) < Place(p[i])
    OBVIOUS
  <2>1. cursor # Start /\ cursor # End /\ cursor.source = Last(shown)
    BY <1>3 DEF PagingBase, CursorKept, Goes
  <2>2. first <= last
    BY <1>2, <1>5
  <2>3. cursor.source \in ToSet(list)
    <3>1. first # Len(list) + 1
      BY <1>2, <2>2
    <3> QED
      BY <1>1, <1>2, <2>1, <3>1, FirstRight
  <2>4. first - 1 \in 1 .. Len(list) /\ list[first - 1] = cursor.source
    BY <1>1, <1>2, <2>1, <2>3, FirstRight
  <2>5. first + i - 1 \in 1 .. Len(list) /\ first - 1 < first + i - 1
    BY <1>2, <1>5, <2>2
  <2>6. Place(list[first - 1]) < Place(list[first + i - 1])
    BY <1>2, <2>4, <2>5 DEF Ranked
  <2> QED
    BY <1>5, <2>1, <2>4, <2>6
<1>7. Ranked(shown \o p)
  <2>1. Ranked(p)
    BY <1>4 DEF p
  <2> QED
    BY <1>2, <1>5, <1>6, <2>1, JoinedRanked
<1>8. shown' = shown \o p
  BY <1>3, <1>5
<1>9. Ranked(shown')
  BY <1>7, <1>8
<1> QED
  BY <1>9

\* Every step keeps the order of the index, in the list and in what is shown.
LEMMA RankedStep == PagingBase /\ RankedKept /\ [PagingNext]_pagingVars => RankedKept'
<1> SUFFICES ASSUME PagingBase, RankedKept, [PagingNext]_pagingVars
             PROVE  RankedKept'
  OBVIOUS
<1>1. ASSUME NEW ranking, NEW documents, NEW tags, NEW r, Begin(ranking, documents, tags, r)
      PROVE  RankedKept'
  <2>1. list' = <<>> /\ shown' = <<>>
    BY <1>1 DEF Begin, PagingBase, CursorKept
  <2>2. Ranked(<<>>)'
    <3>1. ToSet(<<>>) = {} /\ 1 .. Len(<<>>) = {}
      BY DEF ToSet
    <3> QED
      BY <3>1 DEF Ranked
  <2> QED
    BY <2>1, <2>2 DEF RankedKept, Ranked
<1>2. ASSUME UNCHANGED <<order, reader>>, Steady /\ ~reader.reranks => Ranked(list') /\ Ranked(shown')
      PROVE  RankedKept'
  <2>1. Steady' = Steady
    BY <1>2 DEF Steady
  <2>2. \A s : Place(s)' = Place(s)
    BY <1>2 DEF Place
  <2> QED
    BY <1>2, <2>1, <2>2 DEF RankedKept, Ranked
<1>3. ASSUME UNCHANGED <<order, reader, list, shown>>
      PROVE  RankedKept'
  BY <1>2, <1>3 DEF RankedKept
<1>4. ASSUME NEW filter, Ask(filter)
      PROVE  RankedKept'
  BY <1>3, <1>4 DEF Ask, corpusVars
<1>5. CASE Search
  <2>1. list' = Answer(fetch, Searched) /\ UNCHANGED <<order, reader, shown>>
    BY <1>5, SearchAnswers DEF Search, RequestTo, corpusVars
  <2>2. order \in Orders /\ fetch \in 1 .. MaxFetch
    BY <1>5 DEF Search, PagingBase, PagingTyped
  <2>3. Steady => Ranked(Answer(fetch, Searched))
    BY <2>2, AnswerRanked
  <2> QED
    BY <1>2, <2>1, <2>3 DEF RankedKept
<1>6. CASE JudgeMetadata
  <2>1. (list' = Kept \/ list' = list) /\ UNCHANGED <<order, reader, shown>>
    BY <1>6, JudgeKeeps DEF corpusVars
  <2>2. Ranked(list) => Ranked(Kept)
    BY AmongRanked DEF Kept, PagingBase, PagingTyped
  <2> QED
    BY <1>2, <2>1, <2>2 DEF RankedKept
<1>7. CASE Rerank
  <2>1. reader.reranks /\ UNCHANGED <<order, reader>>
    BY <1>7 DEF Rerank, RequestTo, PagingBase, CursorKept, corpusVars
  <2> QED
    BY <1>2, <2>1
<1>8. CASE Ends
  <2>1. UNCHANGED <<order, reader, list, shown>>
    BY <1>8, EndsBase DEF Ends, corpusVars
  <2> QED
    BY <1>3, <2>1
<1>9. CASE Paginate
  <2>1. UNCHANGED <<order, reader, list>>
    BY <1>9, PaginateShows DEF corpusVars
  <2>2. Steady /\ ~reader.reranks => Ranked(shown')
    BY <1>9, PageRanked
  <2> QED
    BY <1>2, <2>1, <2>2 DEF RankedKept
<1>10. CASE EditSome \/ UNCHANGED pagingVars
  <2>1. UNCHANGED <<order, reader, list, shown>>
    BY <1>10, EditBase DEF pagingVars, corpusVars, requestVars
  <2> QED
    BY <1>3, <2>1
<1> QED
  BY <1>1, <1>4, <1>5, <1>6, <1>7, <1>8, <1>9, <1>10, PagingSteps

-----------------------------------------------------------------------------
(* The pages are cut from one whole. *)

\* The whole is what there is to show, each source once.
LEMMA WholeRight ==
    ASSUME PagingTyped
    PROVE  /\ Widest \in Seq(Sources) /\ IsInjective(Widest)
           /\ Passing \in Seq(Sources) /\ IsInjective(Passing)
           /\ Whole \in Seq(Sources) /\ IsInjective(Whole) /\ ToSet(Whole) = ToShow
<1>1. order \in Orders /\ reader \in Readers /\ stored \subseteq Sources /\ tagged \subseteq Sources
  BY DEF PagingTyped
<1> DEFINE n == IF reader.pool > 0 THEN reader.pool ELSE MaxFetch
<1>2. n \in 1 .. MaxFetch
  BY <1>1, ReaderFacts
<1>3. Widest = Answer(n, Searched)
  BY DEF Widest
<1> HIDE DEF n
<1>4. Widest \in Seq(Sources) /\ IsInjective(Widest) /\ ToSet(Widest) \subseteq Searched
  BY <1>1, <1>2, <1>3, AnswerRight
<1>5. Passing \in Seq(Sources) /\ IsInjective(Passing)
      /\ ToSet(Passing) = IF Outside THEN ToSet(Widest) \intersect Fitting ELSE ToSet(Widest)
  <2>1. \A S : Among(Widest, S) \in Seq(Sources) /\ ToSet(Among(Widest, S)) = ToSet(Widest) \intersect S
    BY <1>4, AmongSet
  <2>2. \A S : IsInjective(Among(Widest, S))
    BY <1>4, AmongInjective
  <2> QED
    BY <1>4, <2>1, <2>2 DEF Passing
<1>6. Whole \in Seq(Sources) /\ IsInjective(Whole) /\ ToSet(Whole) = ToSet(Passing)
  <2>1. RerankTop(Passing) \in Seq(Sources) /\ IsInjective(RerankTop(Passing)) /\ ToSet(RerankTop(Passing)) = ToSet(Passing)
    BY <1>1, <1>5, RerankRight
  <2> QED
    BY <1>5, <2>1 DEF Whole
<1>7. ToShow = ToSet(Widest) \intersect (IF reader.filtered THEN tagged ELSE Sources)
  BY DEF ToShow, Widest, Searched
<1>8. ToSet(Passing) = ToSet(Widest) \intersect (IF reader.filtered THEN tagged ELSE Sources)
  <2>1. Searched \subseteq Sources
    BY <1>1 DEF Searched, Satisfying
  <2>2. CASE Outside
    <3>1. ToSet(Widest) \subseteq stored /\ reader.filtered
      BY <1>4, <2>2 DEF Searched, Outside
    <3>2. ToSet(Widest) \intersect Fitting = ToSet(Widest) \intersect tagged
      BY <1>1, <3>1 DEF Fitting
    <3> QED
      BY <1>5, <2>2, <3>1, <3>2
  <2>3. CASE ~Outside /\ reader.filtered
    <3>1. ToSet(Widest) \subseteq tagged
      BY <1>4, <2>3 DEF Searched, Outside, Satisfying
    <3> QED
      BY <1>5, <2>3, <3>1
  <2>4. CASE ~Outside /\ ~reader.filtered
    BY <1>4, <1>5, <2>1, <2>4
  <2> QED
    BY <2>2, <2>3, <2>4
<1> QED
  BY <1>4, <1>5, <1>6, <1>7, <1>8

\* Over a ranking that stays, a narrower window holds the first of what a wider
\* one does.
LEMMA WindowPrefix ==
    ASSUME order \in Orders, Steady, NEW m \in 1 .. MaxFetch, NEW A
    PROVE  /\ PrefixOf(Answer(m, A), Answer(MaxFetch, A))
           /\ Answer(m, A) = Answer(MaxFetch, A) \/ (Len(Answer(m, A)) = m /\ m # MaxFetch)
<1> DEFINE a == Answer(m, A)
           b == Answer(MaxFetch, A)
           ranked == Among(order[m], A)
<1>1. MaxFetch \in 1 .. MaxFetch /\ MaxFetch \in Nat
  BY PagingAssumption
<1>2. order[m] = order[MaxFetch]
  BY <1>1, PlaceRight
<1>3. ranked \in Seq(Sources) /\ a \in Seq(Sources) /\ Len(a) = Fewer(m, Len(ranked)) /\ PrefixOf(a, ranked)
  BY AnswerRight
<1>4. b \in Seq(Sources) /\ Len(b) = Fewer(MaxFetch, Len(ranked)) /\ PrefixOf(b, ranked)
  BY <1>1, <1>2, AnswerRight
<1> HIDE DEF a, b, ranked
<1>5. /\ \A i \in 1 .. Len(a) : a[i] = ranked[i]
      /\ \A i \in 1 .. Len(b) : b[i] = ranked[i]
  BY <1>3, <1>4, PrefixPlaces
<1>6. Len(a) \in Nat /\ Len(b) \in Nat /\ Len(ranked) \in Nat /\ Len(a) <= Len(b)
      /\ (Len(a) = Len(b) \/ (Len(a) = m /\ m # MaxFetch))
  BY <1>1, <1>3, <1>4 DEF Fewer
<1>7. \A i \in 1 .. Len(a) : a[i] = b[i]
  <2>1. \A i \in 1 .. Len(a) : i \in 1 .. Len(b)
    BY <1>6
  <2> QED
    BY <1>5, <2>1
<1>8. PrefixOf(a, b)
  BY <1>3, <1>4, <1>6, <1>7, PrefixPlaces
<1>9. Len(a) = Len(b) => a = b
  BY <1>3, <1>4, <1>7, SameSeq
<1> QED
  BY <1>6, <1>8, <1>9 DEF a, b

\* A list is a prefix of itself.
LEMMA OwnPrefix ==
    ASSUME NEW T, NEW s \in Seq(T)
    PROVE  PrefixOf(s, s)
<1>1. Len(s) \in Nat
  OBVIOUS
<1> QED
  BY <1>1, PrefixPlaces

\* What the index answers is the whole, or enough of it.
LEMMA SearchWhole ==
    ASSUME PagingBase, Stable, Search, WideEnough
    PROVE  /\ reader.pool > 0 => list' = Widest
           /\ reader.pool = 0 => PrefixOf(list', Widest)
           /\ reader.pool = 0 => list' = Widest \/ (Len(list') = fetch /\ fetch # MaxFetch)
<1>1. list' = Answer(fetch, Searched)
  BY SearchAnswers
<1>2. order \in Orders /\ fetch \in 1 .. MaxFetch
  BY DEF Search, PagingBase, PagingTyped
<1>3. CASE reader.pool > 0
  BY <1>1, <1>3, ReaderFacts DEF WideEnough, Widest, PagingBase, PagingTyped
<1>4. CASE reader.pool = 0
  <2>1. Widest = Answer(MaxFetch, Searched) /\ Steady
    BY <1>4 DEF Widest, Stable
  <2>2. /\ PrefixOf(Answer(fetch, Searched), Answer(MaxFetch, Searched))
        /\ Answer(fetch, Searched) = Answer(MaxFetch, Searched) \/ (Len(Answer(fetch, Searched)) = fetch /\ fetch # MaxFetch)
    BY <1>2, <2>1, WindowPrefix
  <2>3. ~(reader.pool > 0)
    BY <1>4
  <2> QED
    BY <1>1, <2>1, <2>2, <2>3
<1>5. reader.pool = 0 \/ reader.pool > 0
  BY ReaderFacts DEF PagingBase, PagingTyped
<1> QED
  BY <1>3, <1>4, <1>5

\* While nothing changes, the verdicts are those of the filter.
LEMMA JudgedRight ==
    ASSUME PagingBase, \A s \in DOMAIN verdicts : verdicts[s] = (s \in Fitting)
    PROVE  /\ \A s \in DOMAIN Verdicts : Verdicts[s] = (s \in Fitting)
           /\ Kept = Among(list, Fitting)
<1>1. \A s \in DOMAIN Verdicts : Verdicts[s] = (s \in Fitting)
  BY DEF Verdicts
<1>2. ToSet(list) \subseteq DOMAIN Verdicts
  BY DEF Verdicts
<1>3. ToSet(list) \intersect {s \in ToSet(list) : Verdicts[s]} = ToSet(list) \intersect Fitting
  BY <1>1, <1>2
<1>4. list \in Seq(Sources)
  BY DEF PagingBase, PagingTyped
<1> QED
  BY <1>1, <1>3, <1>4, AmongSame DEF Kept

\* What is kept is the whole, or enough of it.
LEMMA JudgeWhole ==
    ASSUME PagingBase, Stable, step = "judge", Kept = Among(list, Fitting), list = Answer(fetch, stored), WideEnough,
           reader.pool > 0 \/ Enough(Kept)
    PROVE  PrefixOf(Kept, Passing) /\ (Kept = Passing \/ (reader.pool = 0 /\ Len(Kept) >= Target))
<1>1. order \in Orders /\ fetch \in 1 .. MaxFetch /\ reader.pool \in {0, Pool} /\ Pool \in 1 .. MaxFetch /\ MaxFetch \in Nat
  BY ReaderFacts DEF PagingBase, PagingTyped
<1>2. Outside
  BY DEF PagingBase, CursorKept
<1>3. Passing = Among(Widest, Fitting) /\ Searched = stored
  BY <1>2 DEF Passing, Searched, Outside
<1>4. Passing \in Seq(Sources) /\ Widest \in Seq(Sources) /\ list \in Seq(Sources)
  BY WholeRight DEF PagingBase, PagingTyped
<1>5. CASE list = Widest
  <2>1. Kept = Passing
    BY <1>3, <1>5
  <2>2. PrefixOf(Passing, Passing)
    BY <1>4, OwnPrefix
  <2> QED
    BY <2>1, <2>2
<1>6. CASE reader.pool > 0
  <2>1. list = Widest
    BY <1>3, <1>6 DEF WideEnough, Widest
  <2> QED
    BY <1>5, <2>1
<1>7. CASE ~(reader.pool > 0) /\ list # Widest
  <2>1. Widest = Answer(MaxFetch, stored) /\ Steady /\ reader.pool = 0
    BY <1>1, <1>3, <1>7 DEF Widest, Stable
  <2>2. PrefixOf(list, Widest) /\ Len(list) = fetch /\ fetch # MaxFetch
    BY <1>1, <1>7, <2>1, WindowPrefix
  <2>3. PrefixOf(Kept, Passing)
    BY <1>3, <1>4, <2>2, AmongPrefix
  <2>4. ~(Len(list) < fetch) /\ ~(fetch >= MaxFetch)
    BY <1>1, <2>2
  <2>5. Len(Kept) >= Target
    BY <1>7, <2>4 DEF Enough
  <2> QED
    BY <2>1, <2>3, <2>5
<1> QED
  BY <1>5, <1>6, <1>7

\* A page goes on where the one before ended, and the last ends with the whole.
LEMMA PageWhole ==
    ASSUME PagingBase, WholeKept, Stable, ~changed, Paginate
    PROVE  /\ cursor' = End => shown' = Whole
           /\ Goes(cursor') => Len(shown') = cursor'.offset + 1 /\ PrefixOf(shown', Whole)
<1> DEFINE W == Whole
           N == Len(list)
           K == Len(shown)
<1>1. PICK first \in 1 .. N + 1, last \in 0 .. N :
               /\ first = FirstAfter(list) /\ first - 1 <= last /\ last <= first + reader.size - 1
               /\ page' \in Seq(Sources) /\ Len(page') = last - first + 1
               /\ \A i \in 1 .. last - first + 1 : page'[i] = list[first + i - 1]
               /\ \/ last = N /\ cursor' = End
                  \/ /\ last < N /\ last = first + reader.size - 1 /\ first <= last
                     /\ cursor' = [source |-> list[last], offset |-> last - 1, filter |-> reader.filter]
  BY PageCut DEF PagingBase
<1>2. /\ list \in Seq(Sources) /\ IsInjective(list) /\ shown \in Seq(Sources) /\ W \in Seq(Sources)
      /\ N \in Nat /\ K \in Nat /\ Len(W) \in Nat /\ reader.size \in Nat \ {0}
  <2>1. Whole \in Seq(Sources)
    BY WholeRight DEF PagingBase
  <2>2. reader.size \in Nat \ {0}
    BY ReaderFacts DEF PagingBase, PagingTyped
  <2>3. list \in Seq(Sources) /\ IsInjective(list) /\ shown \in Seq(Sources)
    BY DEF PagingBase, PagingTyped
  <2> QED
    BY <2>1, <2>2, <2>3
<1>3. step = "page" /\ cursor # End /\ shown' = shown \o page'
  BY PaginateShows DEF PagingBase, CursorKept
<1>4. PrefixOf(list, W) /\ (list = W \/ N >= Target)
  BY <1>3 DEF WholeKept
<1>5. N <= Len(W) /\ \A i \in 1 .. N : list[i] = W[i]
  BY <1>2, <1>4, PrefixPlaces
<1>6. /\ Target = K + reader.size + 1 /\ K <= Len(W) /\ \A i \in 1 .. K : shown[i] = W[i]
      /\ cursor = Start => K = 0
      /\ cursor # Start => K # 0 /\ cursor.source = shown[K]
  <2>1. CASE cursor = Start
    <3>1. shown = <<>> /\ cursor.offset = -1 /\ Len(<<>>) = 0
      BY <2>1 DEF PagingBase, CursorKept, Start
    <3>2. K = 0 /\ Target = reader.size + 1
      BY <1>2, <3>1 DEF Target
    <3> QED
      BY <1>2, <2>1, <3>2
  <2>2. CASE cursor # Start
    <3>1. Goes(cursor)
      BY <1>3, <2>2 DEF Goes
    <3>2. K = cursor.offset + 1 /\ PrefixOf(shown, W)
      BY <3>1 DEF WholeKept
    <3>3. cursor.offset \in Nat
      BY <1>3, <2>2 DEF PagingBase, PagingTyped
    <3>4. K # 0 /\ Target = K + reader.size + 1
      BY <1>2, <3>2, <3>3 DEF Target
    <3>5. K <= Len(W) /\ \A i \in 1 .. K : shown[i] = W[i]
      BY <1>2, <3>2, PrefixPlaces
    <3>6. cursor.source = shown[K]
      BY <3>1 DEF PagingBase, CursorKept, Last
    <3> QED
      BY <2>2, <3>4, <3>5, <3>6
  <2> QED
    BY <2>1, <2>2
<1>7. K <= N
  <2>1. CASE list = W
    BY <1>6, <2>1
  <2>2. CASE N >= Target
    BY <1>2, <1>6, <2>2
  <2> QED
    BY <1>4, <2>1, <2>2
<1> HIDE DEF W, N, K
<1>8. first = K + 1
  <2>1. CASE cursor = Start
    BY <1>1, <1>2, <1>6, <2>1, FirstRight
  <2>2. CASE cursor # Start
    <3>1. K \in 1 .. N /\ cursor.source = W[K] /\ list[K] = W[K]
      <4>1. K # 0 /\ cursor.source = shown[K]
        BY <1>6, <2>2
      <4>2. K \in Nat /\ N \in Nat /\ K <= N
        BY <1>2, <1>7
      <4>3. K \in 1 .. K /\ K \in 1 .. N
        BY ONLY <4>1, <4>2
      <4>4. shown[K] = W[K]
        BY <1>6, <4>3
      <4>5. list[K] = W[K]
        BY <1>5, <4>3
      <4> QED
        BY <4>1, <4>3, <4>4, <4>5
    <3>2. ToSet(list) = {list[i] : i \in 1 .. N} /\ DOMAIN list = 1 .. N
      BY <1>2, SetOfSeq DEF N
    <3>3. cursor.source \in ToSet(list)
      BY <3>1, <3>2
    <3>4. first - 1 \in 1 .. N /\ list[first - 1] = cursor.source
      BY <1>1, <1>2, <2>2, <3>3, FirstRight DEF N
    <3>5. first - 1 = K
      BY <1>2, <3>1, <3>2, <3>4 DEF IsInjective
    <3>6. first \in Nat /\ K \in Nat
      BY <1>1, <1>2
    <3> QED
      BY ONLY <3>5, <3>6
  <2> QED
    BY <2>1, <2>2
<1>9. /\ shown' \in Seq(Sources) /\ Len(shown') = last
      /\ \A i \in 1 .. K : shown'[i] = shown[i]
      /\ \A i \in 1 .. last - K : shown'[K + i] = page'[i]
  <2>1. \A p \in Seq(Sources) : /\ shown \o p \in Seq(Sources) /\ Len(shown \o p) = K + Len(p)
                                /\ \A i \in 1 .. K : (shown \o p)[i] = shown[i]
                                /\ \A i \in 1 .. Len(p) : (shown \o p)[K + i] = p[i]
    BY <1>2, Concatenated DEF K
  <2>2. Len(page') = last - K /\ K + (last - K) = last
    BY <1>1, <1>2, <1>8
  <2> QED
    BY <1>1, <1>3, <2>1, <2>2
<1>10. \A i \in 1 .. last : shown'[i] = W[i]
  <2> SUFFICES ASSUME NEW i \in 1 .. last
               PROVE  shown'[i] = W[i]
    OBVIOUS
  <2>1. CASE i \in 1 .. K
    BY <1>6, <1>9, <2>1
  <2>2. CASE i \notin 1 .. K
    <3>1. i - K \in 1 .. last - K /\ K + (i - K) = i /\ last - first + 1 = last - K /\ first + (i - K) - 1 = i /\ i \in 1 .. N
      BY <1>1, <1>2, <1>8, <2>2
    <3>2. shown'[i] = page'[i - K]
      BY <1>9, <3>1
    <3>3. page'[i - K] = list[i]
      BY <1>1, <3>1
    <3> QED
      BY <1>5, <3>1, <3>2, <3>3
  <2> QED
    BY <2>1, <2>2
<1>11. PrefixOf(shown', W)
  <2>1. last <= Len(W)
    BY <1>1, <1>2, <1>5
  <2>2. \A p \in Seq(Sources) : Len(p) <= Len(W) /\ (\A i \in 1 .. Len(p) : p[i] = W[i]) => PrefixOf(p, W)
    BY <1>2, PrefixPlaces
  <2> QED
    BY <1>9, <1>10, <2>1, <2>2
<1>12. cursor' = End => shown' = W
  <2> SUFFICES ASSUME cursor' = End
               PROVE  shown' = W
    OBVIOUS
  <2>1. last = N
    <3>1. last - 1 # -1 \/ ~(first <= last)
      BY <1>1, <1>2
    <3>2. End.offset = -1
      BY DEF End
    <3> QED
      BY <1>1, <3>1, <3>2
  <2>2. ~(N >= Target)
    BY <1>1, <1>2, <1>6, <1>8, <2>1
  <2>3. N = Len(W)
    BY <1>4, <2>2 DEF N
  <2>4. \A p \in Seq(Sources) : Len(p) = Len(W) /\ (\A i \in 1 .. Len(p) : p[i] = W[i]) => p = W
    BY <1>2, SameSeq
  <2> QED
    BY <1>9, <1>10, <2>1, <2>3, <2>4
<1>13. Goes(cursor') => Len(shown') = cursor'.offset + 1
  <2> SUFFICES ASSUME Goes(cursor')
               PROVE  Len(shown') = cursor'.offset + 1
    OBVIOUS
  <2>1. cursor'.offset = last - 1
    BY <1>1 DEF Goes
  <2> QED
    BY <1>1, <1>2, <1>9, <2>1
<1> QED
  BY <1>11, <1>12, <1>13 DEF W

\* What a window must be depends on the cursor and the reader.
LEMMA WideSame ==
    ASSUME UNCHANGED <<reader, cursor, fetch>>
    PROVE  WideEnough' = WideEnough /\ Target' = Target
  BY DEF WideEnough, Target, Outside

\* While nothing changes in the corpus, nor in the cursor and what it stands for.
LEMMA WholeFrame ==
    ASSUME WholeKept, UNCHANGED <<corpusVars, reader, changed, cursor, shown>>,
           Stable /\ ~changed =>
               /\ step' \in {"fetch", "judge"} => \A s \in DOMAIN verdicts' : verdicts'[s] = (s \in Fitting)
               /\ step' \in {"fetch", "judge"} => WideEnough'
               /\ step' = "judge" => list' = Answer(fetch', stored)
               /\ step' = "rerank" => reader.pool > 0 /\ list' = Passing
               /\ step' = "page" => PrefixOf(list', Whole) /\ (list' = Whole \/ Len(list') >= Target)
    PROVE  WholeKept'
<1>1. /\ Fitting' = Fitting /\ Stable' = Stable /\ Whole' = Whole /\ Passing' = Passing
      /\ \A n, A : Answer(n, A)' = Answer(n, A)
  BY Unedited
<1>2. Target' = Target /\ stored' = stored /\ order' = order
  BY DEF Target, corpusVars
<1>3. Answer(fetch, stored)' = Answer(fetch', stored)
  BY <1>2 DEF Answer
<1>4. CASE ~(Stable /\ ~changed)
  BY <1>1, <1>4 DEF WholeKept
<1>5. CASE Stable /\ ~changed
  <2>1. /\ step' \in {"fetch", "judge"} => \A s \in DOMAIN verdicts' : verdicts'[s] = (s \in Fitting')
        /\ step' \in {"fetch", "judge"} => WideEnough'
        /\ step' = "judge" => list' = Answer(fetch, stored)'
        /\ step' = "rerank" => reader'.pool > 0 /\ list' = Passing'
        /\ step' = "page" => PrefixOf(list', Whole') /\ (list' = Whole' \/ Len(list') >= Target')
    BY <1>1, <1>2, <1>3, <1>5
  <2>2. /\ cursor' = End => shown' = Whole'
        /\ Goes(cursor)' => Len(shown') = cursor'.offset + 1 /\ PrefixOf(shown', Whole')
    BY <1>1, <1>5 DEF WholeKept, Goes
  <2> QED
    BY <2>1, <2>2 DEF WholeKept, PrefixOf
<1> QED
  BY <1>4, <1>5

\* The window a request begins with suffices for its page, or is the widest.
LEMMA AskWhole ==
    ASSUME PagingBase, WholeKept, NEW filter, Ask(filter)
    PROVE  WholeKept'
<1>1. /\ cursor # End /\ step' \in {"refused", "fetch"} /\ fetch' = Window /\ verdicts' = << >> /\ DOMAIN << >> = {}
      /\ changed' = (cursor # Start /\ changed) /\ UNCHANGED <<corpusVars, reader, cursor, list, shown>>
  BY DEF Ask
<1>2. Window \in 1 .. MaxFetch /\ (reader.pool > 0 => Window = reader.pool) /\ reader.pool \in {0, Pool} /\ Pool \in 1 .. MaxFetch
      /\ (~Outside /\ reader.pool = 0 => Window >= Target \/ Window = MaxFetch)
  BY <1>1, WindowRight, ReaderFacts DEF PagingBase, PagingTyped
<1>3. Target' = Target /\ Outside' = Outside
  BY <1>1 DEF Target, Outside
<1>4. WideEnough'
  <2>1. (reader.pool > 0 => fetch' = reader.pool) /\ (Outside \/ reader.pool > 0 \/ fetch' >= Target \/ fetch' = MaxFetch)
    BY <1>1, <1>2
  <2> QED
    BY <1>1, <1>3, <2>1 DEF WideEnough
<1>5. Stable' = Stable /\ Whole' = Whole
  BY <1>1, Unedited
<1>6. CASE cursor = Start
  <2>1. cursor' = Start /\ Start # End
    BY <1>1, <1>6 DEF Start, End
  <2> QED
    BY <1>1, <1>4, <2>1 DEF WholeKept, Goes
<1>7. CASE cursor # Start
  <2>1. changed' = changed
    BY <1>1, <1>7 DEF PagingBase, PagingTyped
  <2>2. Stable /\ ~changed => /\ cursor' = End => shown' = Whole'
                              /\ Goes(cursor)' => Len(shown') = cursor'.offset + 1 /\ PrefixOf(shown', Whole')
    BY <1>1, <1>5 DEF WholeKept, Goes
  <2> QED
    BY <1>1, <1>4, <1>5, <2>1, <2>2 DEF WholeKept, PrefixOf
<1> QED
  BY <1>6, <1>7

\* While nothing changes, every step keeps the pages a part of one whole.
LEMMA WholeStep == PagingBase /\ WholeKept /\ [PagingNext]_pagingVars => WholeKept'
<1> SUFFICES ASSUME PagingBase, WholeKept, [PagingNext]_pagingVars
             PROVE  WholeKept'
  OBVIOUS
<1>1. ASSUME NEW ranking, NEW documents, NEW tags, NEW r, Begin(ranking, documents, tags, r)
      PROVE  WholeKept'
  <2>1. cursor' = Start /\ step' = "rest" /\ Start # End
    BY <1>1 DEF Begin, PagingBase, CursorKept, Start, End
  <2> QED
    BY <2>1 DEF WholeKept, Goes
<1>2. ASSUME Stable
      PROVE  (reader.pool > 0 \/ (reader.pool = 0 /\ Steady /\ ~reader.reranks)) /\ ~(reader.pool > 0 /\ reader.pool = 0)
  BY <1>2, ReaderFacts DEF Stable, PagingBase, PagingTyped
<1>3. Whole \in Seq(Sources) /\ PrefixOf(Whole, Whole)
  BY WholeRight, OwnPrefix DEF PagingBase
<1>4. CASE Search
  <2>1. /\ step = "fetch" /\ list' = Answer(fetch, Searched) /\ step' = IF Outside THEN "judge" ELSE AfterList
        /\ Outside => Searched = stored
        /\ UNCHANGED <<corpusVars, reader, changed, cursor, shown, fetch, verdicts>>
    BY <1>4, SearchAnswers DEF Search, RequestTo
  <2>2. WideEnough' = WideEnough
    BY <2>1, WideSame
  <2>3. ASSUME Stable, ~changed
        PROVE  /\ step' \in {"fetch", "judge"} => \A s \in DOMAIN verdicts' : verdicts'[s] = (s \in Fitting)
               /\ step' \in {"fetch", "judge"} => WideEnough'
               /\ step' = "judge" => list' = Answer(fetch', stored)
               /\ step' = "rerank" => reader.pool > 0 /\ list' = Passing
               /\ step' = "page" => PrefixOf(list', Whole) /\ (list' = Whole \/ Len(list') >= Target)
    <3>1. WideEnough /\ \A s \in DOMAIN verdicts' : verdicts'[s] = (s \in Fitting)
      BY <2>1, <2>3 DEF WholeKept
    <3>2. CASE Outside
      BY <2>1, <2>2, <3>1, <3>2
    <3>3. CASE ~Outside
      <4>1. Passing = Widest /\ step' = AfterList
        BY <2>1, <3>3 DEF Passing
      <4>2. /\ reader.pool > 0 => list' = Widest
            /\ reader.pool = 0 => PrefixOf(list', Widest)
            /\ reader.pool = 0 => list' = Widest \/ (Len(list') = fetch /\ fetch # MaxFetch)
        BY <1>4, <2>3, <3>1, SearchWhole
      <4>3. CASE reader.reranks
        <5>1. step' = "rerank" /\ reader.pool > 0
          BY <1>2, <2>3, <4>1, <4>3 DEF AfterList
        <5> QED
          BY <4>1, <4>2, <5>1
      <4>4. CASE ~reader.reranks
        <5>1. step' = "page" /\ Whole = Widest
          BY <4>1, <4>4 DEF AfterList, Whole
        <5>2. CASE list' = Widest
          BY <1>3, <5>1, <5>2
        <5>3. CASE list' # Widest
          <6>1. reader.pool = 0 /\ PrefixOf(list', Widest) /\ Len(list') = fetch /\ fetch # MaxFetch
            BY <1>2, <2>3, <4>2, <5>3
          <6>2. fetch >= Target
            BY <1>2, <2>3, <3>1, <3>3, <6>1 DEF WideEnough
          <6> QED
            BY <5>1, <6>1, <6>2
        <5> QED
          BY <5>2, <5>3
      <4> QED
        BY <4>3, <4>4
    <3> QED
      BY <3>2, <3>3
  <2> QED
    BY <2>1, <2>3, WholeFrame
<1>5. CASE JudgeMetadata
  <2>1. /\ verdicts' = Verdicts /\ step = "judge" /\ UNCHANGED <<corpusVars, reader, changed, cursor, shown>>
        /\ \/ /\ reader.pool > 0 \/ Enough(Kept)
              /\ list' = Kept /\ step' = AfterList /\ fetch' = fetch
           \/ /\ ~(reader.pool > 0 \/ Enough(Kept))
              /\ list' = list /\ step' = "fetch" /\ fetch' = Wider
    BY <1>5, JudgeKeeps
  <2>2. Outside
    BY <2>1 DEF PagingBase, CursorKept
  <2>3. ASSUME Stable, ~changed
        PROVE  /\ step' \in {"fetch", "judge"} => \A s \in DOMAIN verdicts' : verdicts'[s] = (s \in Fitting)
               /\ step' \in {"fetch", "judge"} => WideEnough'
               /\ step' = "judge" => list' = Answer(fetch', stored)
               /\ step' = "rerank" => reader.pool > 0 /\ list' = Passing
               /\ step' = "page" => PrefixOf(list', Whole) /\ (list' = Whole \/ Len(list') >= Target)
    <3>1. WideEnough /\ list = Answer(fetch, stored) /\ \A s \in DOMAIN verdicts : verdicts[s] = (s \in Fitting)
      BY <2>1, <2>3 DEF WholeKept
    <3>2. Kept = Among(list, Fitting) /\ \A s \in DOMAIN Verdicts : Verdicts[s] = (s \in Fitting)
      BY <3>1, JudgedRight
    <3>3. CASE /\ ~(reader.pool > 0 \/ Enough(Kept))
               /\ list' = list /\ step' = "fetch" /\ fetch' = Wider
      <4>1. WideEnough'
        BY <2>1, <2>2, <3>3 DEF WideEnough, Outside
      <4> QED
        BY <2>1, <3>2, <3>3, <4>1
    <3>4. CASE /\ reader.pool > 0 \/ Enough(Kept)
               /\ list' = Kept /\ step' = AfterList /\ fetch' = fetch
      <4>1. PrefixOf(Kept, Passing) /\ (Kept = Passing \/ (reader.pool = 0 /\ Len(Kept) >= Target))
        BY <2>1, <2>3, <3>1, <3>2, <3>4, JudgeWhole
      <4>2. CASE reader.reranks
        BY <1>2, <2>3, <3>4, <4>1, <4>2 DEF AfterList
      <4>3. CASE ~reader.reranks
        BY <3>4, <4>1, <4>3 DEF AfterList, Whole
      <4> QED
        BY <4>2, <4>3
    <3> QED
      BY <2>1, <3>3, <3>4
  <2> QED
    BY <2>1, <2>3, WholeFrame
<1>6. CASE Rerank
  <2>1. list' = RerankTop(list) /\ step = "rerank" /\ step' = "page" /\ UNCHANGED <<corpusVars, reader, changed, cursor, shown>>
    BY <1>6 DEF Rerank, RequestTo
  <2>2. reader.reranks
    BY <2>1 DEF PagingBase, CursorKept
  <2>3. Stable /\ ~changed => PrefixOf(list', Whole) /\ list' = Whole
    BY <1>3, <2>1, <2>2 DEF WholeKept, Whole
  <2> QED
    BY <2>1, <2>3, WholeFrame
<1>7. CASE Ends
  <2>1. step' \in {"failed", "rest"} /\ UNCHANGED <<corpusVars, reader, changed, cursor, shown>>
    BY <1>7, EndsBase DEF Ends
  <2> QED
    BY <2>1, WholeFrame
<1>8. CASE Paginate
  <2>1. step' \in {"rest", "ground"} /\ UNCHANGED <<corpusVars, reader, changed>>
    BY <1>8, PaginateShows
  <2>2. Stable' = Stable /\ Whole' = Whole
    BY <2>1, Unedited
  <2>3. Stable /\ ~changed => /\ cursor' = End => shown' = Whole
                              /\ Goes(cursor') => Len(shown') = cursor'.offset + 1 /\ PrefixOf(shown', Whole)
    BY <1>8, PageWhole
  <2> QED
    BY <2>1, <2>2, <2>3 DEF WholeKept, Goes, PrefixOf
<1>9. CASE EditSome
  <2>1. changed' = TRUE
    BY <1>9, EditBase
  <2> QED
    BY <2>1 DEF WholeKept
<1>10. CASE UNCHANGED pagingVars
  <2>1. UNCHANGED <<corpusVars, reader, changed, cursor, shown, step, verdicts, fetch, list>>
    BY <1>10 DEF pagingVars, requestVars
  <2>2. WideEnough' = WideEnough
    BY <2>1, WideSame
  <2> QED
    BY <2>1, <2>2, WholeFrame DEF WholeKept
<1> QED
  BY <1>1, <1>4, <1>5, <1>6, <1>7, <1>8, <1>9, <1>10, AskWhole, PagingSteps

\* What the invariant says of the pages.
LEMMA PagingHolds == PagingInv => PagesKeepFaith
<1> SUFFICES ASSUME PagingInv
             PROVE  PagesKeepFaith
  OBVIOUS
<1>1. PagingTyped /\ CursorKept /\ SelectedKept /\ RankedKept /\ WholeKept /\ FullBeforeMore /\ GroundingKeepsResults
  BY DEF PagingInv
<1>2. MaxFetch \in Nat \ {0} /\ Pool \in 1 .. MaxFetch
  BY <1>1, ReaderFacts DEF PagingTyped
<1>3. PagingTypeOK
  <2>1. \A n \in 0 .. MaxFetch : n \in 0 .. More(MaxFetch, Pool)
    BY <1>2 DEF More
  <2> QED
    BY <1>1, <2>1 DEF PagingTyped, PagingTypeOK, Requesting
<1>4. PagesPartition
  <2> SUFFICES ASSUME Stable, ~changed
               PROVE  IsInjective(shown) /\ ToSet(shown) \subseteq ToShow /\ (cursor = End => ToSet(shown) = ToShow)
    BY DEF PagesPartition
  <2>1. Whole \in Seq(Sources) /\ IsInjective(Whole) /\ ToSet(Whole) = ToShow /\ shown \in Seq(Sources)
    BY <1>1, WholeRight DEF PagingTyped
  <2>2. cursor = End => shown = Whole
    BY <1>1 DEF WholeKept
  <2>3. CASE cursor = End
    BY <2>1, <2>2, <2>3
  <2>4. CASE cursor = Start
    <3>1. shown = <<>> /\ IsInjective(<<>>) /\ ToSet(<<>>) = {} /\ Start # End
      BY <1>1, <2>4 DEF CursorKept, IsInjective, ToSet, Start, End
    <3> QED
      BY <2>4, <3>1
  <2>5. CASE Goes(cursor)
    <3>1. PrefixOf(shown, Whole)
      BY <1>1, <2>5 DEF WholeKept
    <3> QED
      BY <2>1, <2>2, <3>1, PrefixInjective
  <2> QED
    BY <2>3, <2>4, <2>5 DEF Goes
<1>5. NothingTwice
  <2> SUFFICES ASSUME Steady, ~reader.reranks
               PROVE  IsInjective(shown)
    BY DEF NothingTwice
  <2>1. Ranked(shown) /\ shown \in Seq(Sources) /\ order \in Orders
    BY <1>1 DEF RankedKept, PagingTyped
  <2>2. ToSet(shown) = {shown[i] : i \in 1 .. Len(shown)} /\ DOMAIN shown = 1 .. Len(shown) /\ Len(shown) \in Nat
    BY <2>1, SetOfSeq
  <2>3. \A i \in 1 .. Len(shown) : Place(shown[i]) \in Nat
    BY <2>1, <2>2, PlaceRight DEF Ranked
  <2>4. ASSUME NEW i \in 1 .. Len(shown), NEW j \in 1 .. Len(shown), i < j
        PROVE  shown[i] # shown[j]
    <3>1. Place(shown[i]) < Place(shown[j])
      BY <2>1, <2>4 DEF Ranked
    <3> QED
      BY <2>3, <3>1
  <2>5. \A i, j \in 1 .. Len(shown) : i = j \/ i < j \/ j < i
    BY <2>2
  <2> QED
    BY <2>2, <2>4, <2>5 DEF IsInjective
<1> QED
  BY <1>1, <1>3, <1>4, <1>5 DEF PagesKeepFaith, SelectedKept

\* However the pages are cut and whatever the index, the filter, the reranker and
\* the evaluator answer, the pages of a search share the results out (Manager.Search,
\* paginate): without edits each result once, beside edits none twice when the
\* ranking stays, and none the filter has not selected.
THEOREM PagesKept == PagingSpec => []PagesKeepFaith
<1>1. PagingInit => PagingInv
  BY PagingStarts
<1>2. PagingInv /\ [PagingNext]_pagingVars => PagingInv'
  <2> SUFFICES ASSUME PagingInv, [PagingNext]_pagingVars
               PROVE  PagingInv'
    OBVIOUS
  <2>1. PagingBase
    BY DEF PagingInv, PagingBase
  <2>2. PagingBase'
    BY <2>1, PagingBaseStep
  <2>3. SelectedKept' /\ RankedKept' /\ WholeKept'
    BY <2>1, SelectedStep, RankedStep, WholeStep DEF PagingInv
  <2>4. FullBeforeMore' /\ GroundingKeepsResults'
    BY <2>1, AnnouncedStep, GroundedStep DEF PagingInv
  <2> QED
    BY <2>2, <2>3, <2>4 DEF PagingInv, PagingBase
<1>3. PagingInv => PagesKeepFaith
  BY PagingHolds
<1> QED
  BY <1>1, <1>2, <1>3, PTL DEF PagingSpec

=============================================================================
