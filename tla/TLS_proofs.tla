----------------------------- MODULE TLS_proofs -----------------------------
(***************************************************************************)
(* For every value of the bounds: a session of TLS and its context agree   *)
(* and nothing in it waits unheard, the steps of its handshake come once   *)
(* and in order, and what is reported of written bytes is true.            *)
(*                                                                         *)
(* The sums of the model are folds, which a fold of the library makes out  *)
(* of CHOOSE and no prover unfolds.  The first part shows that such a      *)
(* fold goes through a table of sums (Sums), and the rest uses the table:  *)
(* an induction over its indices is a smallest counterexample (Smallest).  *)
(***************************************************************************)
EXTENDS TLS, SequenceTheorems, FiniteSetTheorems, WellFoundedInduction, TLAPS

\* A set of numbers that is not empty has a smallest one.
LEMMA Smallest ==
  ASSUME NEW S \in SUBSET Nat, S # {}
  PROVE  \E m \in S : \A y \in S : m <= y
<1> DEFINE below == {0 .. n : n \in S}
<1>1. below \subseteq FiniteSubsetsOf(Nat)
  <2>1. \A n \in S : IsFiniteSet(0 .. n) /\ 0 .. n \subseteq Nat
    BY FS_Interval
  <2> QED BY <2>1 DEF FiniteSubsetsOf
<1>2. below # {}
  OBVIOUS
<1>3. PICK b \in below : \A c \in below : ~ (<<c, b>> \in StrictSubsetOrdering(Nat))
  BY <1>1, <1>2, WFMin, FS_StrictSubsetOrderingWellFounded
<1>4. PICK m \in S : b = 0 .. m
  OBVIOUS
<1>5. ASSUME NEW y \in S, y < m PROVE FALSE
  <2>1. 0 .. y \subseteq 0 .. m /\ m \in 0 .. m /\ m \notin 0 .. y
    BY <1>5
  <2>2. 0 .. y \in SUBSET Nat /\ 0 .. m \in SUBSET Nat /\ 0 .. y # 0 .. m
    BY <2>1
  <2>3. <<0 .. y, 0 .. m>> \in StrictSubsetOrdering(Nat)
    BY <2>1, <2>2, Zenon DEF StrictSubsetOrdering
  <2> QED BY <1>3, <1>4, <2>3
<1>6. \A y \in S : m <= y
  BY <1>5
<1> QED BY <1>6

\* What holds for 0 and goes from each number to the next, up to N, holds for all.
LEMMA UpTo ==
  ASSUME NEW N \in Nat, NEW S, 0 \in S, \A i \in 1 .. N : i - 1 \in S => i \in S
  PROVE  0 .. N \subseteq S
<1> SUFFICES ASSUME {i \in 0 .. N : i \notin S} # {} PROVE FALSE
  OBVIOUS
<1> DEFINE bad == {i \in 0 .. N : i \notin S}
<1>1. bad \in SUBSET Nat /\ bad # {}
  OBVIOUS
<1>2. PICK m \in bad : \A y \in bad : m <= y
  <2> HIDE DEF bad
  <2> QED BY <1>1, Smallest
<1>3. m \in 1 .. N /\ m - 1 \in 0 .. N /\ m - 1 \notin bad
  BY <1>2
<1> QED BY <1>2, <1>3

\* g is the fold of F over v, on every set of places.
Folds(g, N, F, base, v) ==
  \A s \in SUBSET (1 .. N) :
    /\ s = {} => g[s] = base
    /\ s # {} => Max(s) \in s /\ g[s] = F[<<g[s \ {Max(s)}], v[Max(s)]>>]

\* The largest of a set of numbers is the one that is in it and above the others.
LEMMA MaxIs ==
  ASSUME NEW m \in Nat, NEW s \in SUBSET (1 .. m), m \in s
  PROVE  Max(s) = m
<1>1. \A y \in s : m >= y
  OBVIOUS
<1>2. Max(s) \in s /\ \A y \in s : Max(s) >= y
  BY <1>1, Zenon DEF Max
<1>3. Max(s) \in 1 .. m /\ Max(s) >= m
  BY <1>2
<1> QED BY <1>3

\* The equations of a fold have a solution: the function is built for the
\* subsets of 1 .. n, n by n.
LEMMA FoldExists ==
  ASSUME NEW X, NEW E, NEW F \in [X \X E -> X], NEW base \in X,
         NEW N \in Nat, NEW v \in [1 .. N -> E]
  PROVE  \E g \in [SUBSET (1 .. N) -> X] : Folds(g, N, F, base, v)
<1> DEFINE S == {n \in 0 .. N : \E g \in [SUBSET (1 .. n) -> X] : Folds(g, n, F, base, v)}
<1>1. 0 \in S
  <2> DEFINE g == [s \in SUBSET (1 .. 0) |-> base]
  <2>1. g \in [SUBSET (1 .. 0) -> X] /\ \A s \in SUBSET (1 .. 0) : s = {} /\ g[s] = base
    OBVIOUS
  <2>2. Folds(g, 0, F, base, v)
    BY <2>1, Zenon DEF Folds
  <2>3. 0 \in 0 .. N
    OBVIOUS
  <2> HIDE DEF g
  <2> QED BY <2>1, <2>2, <2>3
<1>2. ASSUME NEW m \in 1 .. N, m - 1 \in S PROVE m \in S
  <2>1. PICK g \in [SUBSET (1 .. m - 1) -> X] : Folds(g, m - 1, F, base, v)
    BY <1>2
  <2> DEFINE h == [s \in SUBSET (1 .. m) |-> IF m \in s THEN F[<<g[s \ {m}], v[m]>>] ELSE g[s]]
  <2>2. \A s \in SUBSET (1 .. m) : s \ {m} \in SUBSET (1 .. m - 1) /\ (m \notin s => s \in SUBSET (1 .. m - 1))
    OBVIOUS
  <2>3. h \in [SUBSET (1 .. m) -> X]
    <3>1. ASSUME NEW s \in SUBSET (1 .. m) PROVE (IF m \in s THEN F[<<g[s \ {m}], v[m]>>] ELSE g[s]) \in X
      <4>1. g[s \ {m}] \in X /\ v[m] \in E
        BY <2>1, <2>2
      <4>2. m \notin s => g[s] \in X
        BY <2>1, <2>2
      <4>3. <<g[s \ {m}], v[m]>> \in X \X E
        BY <4>1
      <4> QED BY <4>2, <4>3
    <3> QED BY <3>1
  <2>4. ASSUME NEW s \in SUBSET (1 .. m)
        PROVE  /\ s = {} => h[s] = base
               /\ s # {} => Max(s) \in s /\ h[s] = F[<<h[s \ {Max(s)}], v[Max(s)]>>]
    <3>1. CASE m \in s
      <4>1. Max(s) = m
        BY <3>1, MaxIs
      <4>2. h[s \ {m}] = g[s \ {m}]
        BY <2>2
      <4>3. h[s] = F[<<g[s \ {m}], v[m]>>]
        BY <3>1
      <4> QED BY <3>1, <4>1, <4>2, <4>3
    <3>2. CASE m \notin s
      <4>1. s \in SUBSET (1 .. m - 1) /\ h[s] = g[s]
        BY <2>2, <3>2
      <4>2. h[s \ {Max(s)}] = g[s \ {Max(s)}]
        BY <3>2, <4>1
      <4> QED BY <2>1, <4>1, <4>2 DEF Folds
    <3> QED BY <3>1, <3>2
  <2>5. Folds(h, m, F, base, v)
    BY <2>4, Zenon DEF Folds
  <2>6. m \in 0 .. N
    OBVIOUS
  <2> HIDE DEF h
  <2> QED BY <2>3, <2>5, <2>6
<1>3. N \in S
  <2> HIDE DEF S
  <2>1. 0 .. N \subseteq S
    BY <1>1, <1>2, UpTo
  <2> QED BY <2>1
<1> QED BY <1>3

----------------------------------------------------------------------------
\* t has the sums of the first elements of v.
Sums(t, N, v) ==
  t \in [0 .. N -> Nat] /\ t[0] = 0 /\ \A i \in 1 .. N : t[i] = t[i - 1] + v[i]

\* The equation of a fold of numbers.
Adds(g, N, v) ==
  g = [s \in SUBSET (1 .. N) |-> IF s = {} THEN 0 ELSE g[s \ {Max(s)}] + v[Max(s)]]

\* Max() is a member.
LEMMA MaxIsIn ==
  ASSUME NEW N \in Nat, NEW s \in SUBSET (1 .. N), s # {}
  PROVE  Max(s) \in s
<1> DEFINE F == [w \in {0} \X {0} |-> 0]
           v == [i \in 1 .. N |-> 0]
<1>1. F \in [{0} \X {0} -> {0}] /\ v \in [1 .. N -> {0}] /\ 0 \in {0}
  OBVIOUS
<1> HIDE DEF F, v
<1>2. \E g \in [SUBSET (1 .. N) -> {0}] : Folds(g, N, F, 0, v)
  BY <1>1, FoldExists
<1> QED BY <1>2 DEF Folds

\* A fold that adds numbers has a solution.
LEMMA AddsExists ==
  ASSUME NEW N \in Nat, NEW v \in [1 .. N -> Nat]
  PROVE  \E g : Adds(g, N, v)
<1> DEFINE F == [w \in Nat \X Nat |-> w[1] + w[2]]
<1>1. F \in [Nat \X Nat -> Nat]
  OBVIOUS
<1>2. \A x, y \in Nat : F[<<x, y>>] = x + y
  OBVIOUS
<1> HIDE DEF F
<1>3. PICK g \in [SUBSET (1 .. N) -> Nat] : Folds(g, N, F, 0, v)
  BY <1>1, FoldExists
<1>4. ASSUME NEW s \in SUBSET (1 .. N)
      PROVE  g[s] = IF s = {} THEN 0 ELSE g[s \ {Max(s)}] + v[Max(s)]
  <2>1. CASE s = {}
    BY <1>3, <2>1 DEF Folds
  <2>2. CASE s # {}
    <3>1. g[s] = F[<<g[s \ {Max(s)}], v[Max(s)]>>]
      BY <1>3, <2>2 DEF Folds
    <3>2. Max(s) \in 1 .. N
      BY <2>2, MaxIsIn
    <3>3. g[s \ {Max(s)}] \in Nat /\ v[Max(s)] \in Nat
      BY <3>2
    <3> QED BY <1>2, <2>2, <3>1, <3>3
  <2> QED BY <2>1, <2>2
<1>5. Adds(g, N, v)
  BY <1>4 DEF Adds
<1> QED BY <1>5

\* What taking the largest from the first numbers leaves.
LEMMA FirstOnes ==
  ASSUME NEW N \in Nat, NEW i \in 1 .. N
  PROVE  1 .. i \in SUBSET (1 .. N) /\ i \in 1 .. i /\ 1 .. i # {} /\ (1 .. i) \ {i} = 1 .. i - 1
OBVIOUS

\* A fold that adds numbers goes through their sums.
LEMMA AddsSums ==
  ASSUME NEW N \in Nat, NEW v \in [1 .. N -> Nat], NEW it, Adds(it, N, v)
  PROVE  \E t : Sums(t, N, v) /\ t[N] = it[1 .. N]
<1> DEFINE t == [i \in 0 .. N |-> it[1 .. i]]
<1>1. it[{}] = 0
  BY DEF Adds
<1>2. t[0] = 0 /\ t[N] = it[1 .. N]
  <2>1. 1 .. 0 = {}
    OBVIOUS
  <2>2. t[0] = it[1 .. 0]
    OBVIOUS
  <2> QED BY <1>1, <2>1, <2>2
<1>3. ASSUME NEW i \in 1 .. N PROVE t[i] = t[i - 1] + v[i]
  <2>1. 1 .. i \in SUBSET (1 .. N) /\ i \in 1 .. i /\ 1 .. i # {} /\ (1 .. i) \ {i} = 1 .. i - 1
    BY FirstOnes
  <2>2. Max(1 .. i) = i
    BY <2>1, MaxIs
  <2>3. it[1 .. i] = it[(1 .. i) \ {i}] + v[i]
    BY <2>1, <2>2 DEF Adds
  <2>4. t[i] = it[1 .. i] /\ t[i - 1] = it[1 .. i - 1]
    OBVIOUS
  <2> QED BY <2>1, <2>3, <2>4
<1> HIDE DEF t
<1>4. 0 .. N \subseteq {i \in 0 .. N : t[i] \in Nat}
  <2> DEFINE S == {i \in 0 .. N : t[i] \in Nat}
  <2>1. 0 \in S
    BY <1>2
  <2>2. \A i \in 1 .. N : i - 1 \in S => i \in S
    BY <1>3
  <2> HIDE DEF S
  <2>3. 0 .. N \subseteq S
    BY <2>1, <2>2, UpTo
  <2> QED BY <2>3 DEF S
<1>5. t \in [0 .. N -> Nat]
  BY <1>4 DEF t
<1>6. Sums(t, N, v)
  BY <1>2, <1>3, <1>5 DEF Sums
<1> QED BY <1>2, <1>6

\* The folds of TLS: each goes through the sums of its numbers.
LEMMA PlainIs ==
  ASSUME NEW N \in Nat, NEW recs, DOMAIN recs = 1 .. N, \A i \in 1 .. N : recs[i].plain \in Nat
  PROVE  \E t : Sums(t, N, [i \in 1 .. N |-> recs[i].plain]) /\ Plain(recs) = t[N]
<1> DEFINE v == [i \in 1 .. N |-> recs[i].plain]
           P(g) == g = [s \in SUBSET DOMAIN recs |-> IF s = {} THEN 0 ELSE g[s \ {Max(s)}] + recs[Max(s)].plain]
           it == CHOOSE g : P(g)
<1>1. Plain(recs) = it[1 .. N]
  BY Zenon DEF Plain, FoldLeft, MapThenFoldSet
<1>2. v \in [1 .. N -> Nat]
  OBVIOUS
<1>3. \A s \in SUBSET (1 .. N) : s # {} => v[Max(s)] = recs[Max(s)].plain
  BY MaxIsIn
<1> HIDE DEF v
<1>4. ASSUME NEW g PROVE P(g) <=> Adds(g, N, v)
  BY <1>3 DEF Adds
<1>5. \E g : P(g)
  BY <1>2, <1>4, AddsExists
<1> HIDE DEF P
<1>6. P(it)
  BY <1>5
<1>7. Adds(it, N, v)
  BY <1>4, <1>6
<1> HIDE DEF it
<1>8. \E t : Sums(t, N, v) /\ t[N] = it[1 .. N]
  BY <1>2, <1>7, AddsSums
<1> QED BY <1>1, <1>8 DEF v

\* The same of Size(), which adds one for each record,
LEMMA SizeIs ==
  ASSUME NEW N \in Nat, NEW recs, DOMAIN recs = 1 .. N, \A i \in 1 .. N : recs[i].plain \in Nat
  PROVE  \E t : Sums(t, N, [i \in 1 .. N |-> recs[i].plain + 1]) /\ Size(recs) = t[N]
<1> DEFINE v == [i \in 1 .. N |-> recs[i].plain + 1]
           P(g) == g = [s \in SUBSET DOMAIN recs |-> IF s = {} THEN 0 ELSE g[s \ {Max(s)}] + (recs[Max(s)].plain + 1)]
           it == CHOOSE g : P(g)
<1>1. Size(recs) = it[1 .. N]
  BY Zenon DEF Size, FoldLeft, MapThenFoldSet
<1>2. v \in [1 .. N -> Nat]
  OBVIOUS
<1>3. \A s \in SUBSET (1 .. N) : s # {} => v[Max(s)] = recs[Max(s)].plain + 1
  BY MaxIsIn
<1> HIDE DEF v
<1>4. ASSUME NEW g PROVE P(g) <=> Adds(g, N, v)
  BY <1>3 DEF Adds
<1>5. \E g : P(g)
  BY <1>2, <1>4, AddsExists
<1> HIDE DEF P
<1>6. P(it)
  BY <1>5
<1>7. Adds(it, N, v)
  BY <1>4, <1>6
<1> HIDE DEF it
<1>8. \E t : Sums(t, N, v) /\ t[N] = it[1 .. N]
  BY <1>2, <1>7, AddsSums
<1> QED BY <1>1, <1>8 DEF v

\* and of BytesOf().
LEMMA BytesIs ==
  ASSUME NEW N \in Nat, NEW recs, DOMAIN recs = 1 .. N, \A i \in 1 .. N : recs[i].size \in Nat
  PROVE  \E t : Sums(t, N, [i \in 1 .. N |-> recs[i].size]) /\ BytesOf(recs) = t[N]
<1> DEFINE v == [i \in 1 .. N |-> recs[i].size]
           P(g) == g = [s \in SUBSET DOMAIN recs |-> IF s = {} THEN 0 ELSE g[s \ {Max(s)}] + recs[Max(s)].size]
           it == CHOOSE g : P(g)
<1>1. BytesOf(recs) = it[1 .. N]
  BY Zenon DEF BytesOf, FoldLeft, MapThenFoldSet
<1>2. v \in [1 .. N -> Nat]
  OBVIOUS
<1>3. \A s \in SUBSET (1 .. N) : s # {} => v[Max(s)] = recs[Max(s)].size
  BY MaxIsIn
<1> HIDE DEF v
<1>4. ASSUME NEW g PROVE P(g) <=> Adds(g, N, v)
  BY <1>3 DEF Adds
<1>5. \E g : P(g)
  BY <1>2, <1>4, AddsExists
<1> HIDE DEF P
<1>6. P(it)
  BY <1>5
<1>7. Adds(it, N, v)
  BY <1>4, <1>6
<1> HIDE DEF it
<1>8. \E t : Sums(t, N, v) /\ t[N] = it[1 .. N]
  BY <1>2, <1>7, AddsSums
<1> QED BY <1>1, <1>8 DEF v

\* Sums of the same numbers are the same,
LEMMA SumsAgree ==
  ASSUME NEW N \in Nat, NEW M \in Nat, N <= M, NEW v, NEW w, NEW t, NEW u,
         Sums(t, N, v), Sums(u, M, w), \A i \in 1 .. N : v[i] = w[i]
  PROVE  \A i \in 0 .. N : t[i] = u[i]
<1> DEFINE S == {i \in 0 .. N : t[i] = u[i]}
<1>1. 0 \in S
  BY DEF Sums
<1>2. ASSUME NEW i \in 1 .. N, i - 1 \in S PROVE i \in S
  <2>1. i \in 1 .. M /\ i \in 0 .. N
    OBVIOUS
  <2>2. t[i] = t[i - 1] + v[i] /\ u[i] = u[i - 1] + w[i]
    BY <2>1 DEF Sums
  <2> QED BY <1>2, <2>1, <2>2
<1> HIDE DEF S
<1>3. 0 .. N \subseteq S
  BY <1>1, <1>2, UpTo
<1> QED BY <1>3 DEF S

\* and those of two parts add up: z is v and then w.
Joined(N, M, v, w, z) ==
  /\ \A i \in 1 .. N : v[i] = z[i]
  /\ \A j \in 1 .. M : z[N + j] = w[j] /\ w[j] \in Nat

\* The sums of the joined numbers end in the sum of both ends.
LEMMA SumsJoin ==
  ASSUME NEW N \in Nat, NEW M \in Nat, NEW K \in Nat, K = N + M,
         NEW v, NEW w, NEW z, NEW t, NEW u, NEW x,
         Sums(t, N, v), Sums(u, M, w), Sums(x, K, z),
         Joined(N, M, v, w, z)
  PROVE  x[K] = t[N] + u[M]
<1> DEFINE S == {j \in 0 .. M : x[N + j] = t[N] + u[j]}
<1>1. N + M \in Nat /\ N <= N + M
  OBVIOUS
<1>2. t[N] = x[N]
  <2>1. \A i \in 0 .. N : t[i] = x[i]
    BY <1>1, SumsAgree DEF Joined
  <2> QED BY <2>1
<1>3. t[N] \in Nat /\ \A j \in 0 .. M : u[j] \in Nat
  BY DEF Sums
<1>4. 0 \in S
  BY <1>2, <1>3 DEF Sums
<1>5. ASSUME NEW j \in 1 .. M, j - 1 \in S PROVE j \in S
  <2>1. N + j \in 1 .. N + M /\ j \in 0 .. M /\ j - 1 \in 0 .. M /\ N + j - 1 = N + (j - 1)
    OBVIOUS
  <2>2. x[N + j] = x[N + j - 1] + z[N + j] /\ u[j] = u[j - 1] + w[j]
    BY <2>1 DEF Sums
  <2>3. x[N + (j - 1)] = t[N] + u[j - 1] /\ z[N + j] = w[j]
    BY <1>5 DEF Joined
  <2>4. u[j - 1] \in Nat /\ u[j] \in Nat
    BY <1>3, <2>1
  <2>5. w[j] \in Nat
    BY DEF Joined
  <2> QED BY <1>3, <2>1, <2>2, <2>3, <2>4, <2>5
<1> HIDE DEF S
<1>6. 0 .. M \subseteq S
  BY <1>4, <1>5, UpTo
<1> QED BY <1>6 DEF S

\* What the proofs need of Plain().
LEMMA PlainJoins ==
  ASSUME NEW R, \A r \in R : r.plain \in Nat, NEW s \in Seq(R), NEW t \in Seq(R)
  PROVE  Plain(s) \in Nat /\ Plain(t) \in Nat /\ Plain(s \o t) = Plain(s) + Plain(t)
<1> DEFINE N == Len(s)
           M == Len(t)
           v == [i \in 1 .. N |-> s[i].plain]
           w == [i \in 1 .. M |-> t[i].plain]
           z == [i \in 1 .. N + M |-> (s \o t)[i].plain]
<1>1. /\ N \in Nat /\ M \in Nat /\ N + M \in Nat
      /\ DOMAIN s = 1 .. N /\ DOMAIN t = 1 .. M /\ DOMAIN (s \o t) = 1 .. N + M
      /\ \A i \in 1 .. N : s[i].plain \in Nat /\ (s \o t)[i] = s[i]
      /\ \A j \in 1 .. M : t[j].plain \in Nat /\ (s \o t)[N + j] = t[j]
      /\ \A i \in 1 .. N + M : (s \o t)[i].plain \in Nat
  OBVIOUS
<1> HIDE DEF N, M
<1>2. PICK a : Sums(a, N, v) /\ Plain(s) = a[N]
  BY <1>1, PlainIs
<1>3. PICK b : Sums(b, M, w) /\ Plain(t) = b[M]
  BY <1>1, PlainIs
<1>4. PICK c : Sums(c, N + M, z) /\ Plain(s \o t) = c[N + M]
  BY <1>1, PlainIs
<1>5. Joined(N, M, v, w, z)
  BY <1>1 DEF Joined
<1>6. c[N + M] = a[N] + b[M]
  <2> HIDE DEF v, w, z
  <2>1. PICK K \in Nat : K = N + M
    BY <1>1
  <2>2. Sums(a, N, v) /\ Sums(b, M, w) /\ Sums(c, K, z)
    BY <1>2, <1>3, <1>4, <2>1
  <2>3. N \in Nat /\ M \in Nat
    BY <1>1
  <2>4. c[K] = a[N] + b[M]
    BY <1>5, <2>1, <2>2, <2>3, SumsJoin
  <2> QED BY <2>1, <2>4
<1>7. a[N] \in Nat /\ b[M] \in Nat
  BY <1>1, <1>2, <1>3 DEF Sums
<1> QED BY <1>2, <1>3, <1>4, <1>6, <1>7

\* Plain() of no record and of one.
LEMMA PlainOfFew ==
  ASSUME NEW r, r.plain \in Nat
  PROVE  Plain(<<>>) = 0 /\ Plain(<<r>>) = r.plain
<1>1. Plain(<<>>) = 0
  <2>1. DOMAIN <<>> = 1 .. 0 /\ \A i \in 1 .. 0 : <<>>[i].plain \in Nat
    OBVIOUS
  <2>2. PICK t : Sums(t, 0, [i \in 1 .. 0 |-> <<>>[i].plain]) /\ Plain(<<>>) = t[0]
    BY <2>1, PlainIs
  <2> QED BY <2>2 DEF Sums
<1>2. Plain(<<r>>) = r.plain
  <2> DEFINE one == <<r>>
  <2>1. DOMAIN one = 1 .. 1 /\ one[1] = r /\ \A i \in 1 .. 1 : one[i].plain \in Nat
    OBVIOUS
  <2> HIDE DEF one
  <2>2. PICK t : Sums(t, 1, [i \in 1 .. 1 |-> one[i].plain]) /\ Plain(one) = t[1]
    BY <2>1, PlainIs
  <2>3. t[1] = t[1 - 1] + one[1].plain /\ t[0] = 0
    BY <2>2 DEF Sums
  <2> QED BY <2>1, <2>2, <2>3 DEF one
<1> QED BY <1>1, <1>2

\* A flight has a natural number of bytes.
LEMMA SizeNat ==
  ASSUME NEW R, \A r \in R : r.plain \in Nat, NEW s \in Seq(R)
  PROVE  Size(s) \in Nat
<1>1. Len(s) \in Nat /\ DOMAIN s = 1 .. Len(s) /\ \A i \in 1 .. Len(s) : s[i].plain \in Nat
  OBVIOUS
<1>2. PICK t : Sums(t, Len(s), [i \in 1 .. Len(s) |-> s[i].plain + 1]) /\ Size(s) = t[Len(s)]
  BY <1>1, SizeIs
<1> QED BY <1>1, <1>2 DEF Sums

\* What the proofs need of BytesOf().
LEMMA BytesJoins ==
  ASSUME NEW R, \A r \in R : r.size \in Nat, NEW s \in Seq(R), NEW t \in Seq(R)
  PROVE  BytesOf(s) \in Nat /\ BytesOf(t) \in Nat /\ BytesOf(s \o t) = BytesOf(s) + BytesOf(t)
<1> DEFINE N == Len(s)
           M == Len(t)
           v == [i \in 1 .. N |-> s[i].size]
           w == [i \in 1 .. M |-> t[i].size]
           z == [i \in 1 .. N + M |-> (s \o t)[i].size]
<1>1. /\ N \in Nat /\ M \in Nat /\ N + M \in Nat
      /\ DOMAIN s = 1 .. N /\ DOMAIN t = 1 .. M /\ DOMAIN (s \o t) = 1 .. N + M
      /\ \A i \in 1 .. N : s[i].size \in Nat /\ (s \o t)[i] = s[i]
      /\ \A j \in 1 .. M : t[j].size \in Nat /\ (s \o t)[N + j] = t[j]
      /\ \A i \in 1 .. N + M : (s \o t)[i].size \in Nat
  OBVIOUS
<1> HIDE DEF N, M
<1>2. PICK a : Sums(a, N, v) /\ BytesOf(s) = a[N]
  BY <1>1, BytesIs
<1>3. PICK b : Sums(b, M, w) /\ BytesOf(t) = b[M]
  BY <1>1, BytesIs
<1>4. PICK c : Sums(c, N + M, z) /\ BytesOf(s \o t) = c[N + M]
  BY <1>1, BytesIs
<1>5. Joined(N, M, v, w, z)
  BY <1>1 DEF Joined
<1>6. c[N + M] = a[N] + b[M]
  <2> HIDE DEF v, w, z
  <2>1. PICK K \in Nat : K = N + M
    BY <1>1
  <2>2. Sums(a, N, v) /\ Sums(b, M, w) /\ Sums(c, K, z)
    BY <1>2, <1>3, <1>4, <2>1
  <2>3. N \in Nat /\ M \in Nat
    BY <1>1
  <2>4. c[K] = a[N] + b[M]
    BY <1>5, <2>1, <2>2, <2>3, SumsJoin
  <2> QED BY <2>1, <2>4
<1>7. a[N] \in Nat /\ b[M] \in Nat
  BY <1>1, <1>2, <1>3 DEF Sums
<1> QED BY <1>2, <1>3, <1>4, <1>6, <1>7

\* BytesOf() of no chunk and of one.
LEMMA BytesOfFew ==
  ASSUME NEW r, r.size \in Nat
  PROVE  BytesOf(<<>>) = 0 /\ BytesOf(<<r>>) = r.size
<1>1. BytesOf(<<>>) = 0
  <2>1. DOMAIN <<>> = 1 .. 0 /\ \A i \in 1 .. 0 : <<>>[i].size \in Nat
    OBVIOUS
  <2>2. PICK t : Sums(t, 0, [i \in 1 .. 0 |-> <<>>[i].size]) /\ BytesOf(<<>>) = t[0]
    BY <2>1, BytesIs
  <2> QED BY <2>2 DEF Sums
<1>2. BytesOf(<<r>>) = r.size
  <2> DEFINE one == <<r>>
  <2>1. DOMAIN one = 1 .. 1 /\ one[1] = r /\ \A i \in 1 .. 1 : one[i].size \in Nat
    OBVIOUS
  <2> HIDE DEF one
  <2>2. PICK t : Sums(t, 1, [i \in 1 .. 1 |-> one[i].size]) /\ BytesOf(one) = t[1]
    BY <2>1, BytesIs
  <2>3. t[1] = t[1 - 1] + one[1].size /\ t[0] = 0
    BY <2>2 DEF Sums
  <2> QED BY <2>1, <2>2, <2>3 DEF one
<1> QED BY <1>1, <1>2

----------------------------------------------------------------------------
(* LayerTracker: what finished() goes through.                               *)

Items == [plain : Int, encoded : Nat]
Layers == [p : Nat, list : Seq(Items)]
Accounts == [left : Nat, plain : Int, ended : BOOLEAN, list : Seq(Items)]

\* An item of the layer takes an account to an account.
LEMMA FinishItemDoes ==
  ASSUME NEW a \in Accounts, NEW i \in Items
  PROVE  FinishItem(a, i) \in Accounts
<1>1. CASE a.ended
  <2>1. FinishItem(a, i) = [a EXCEPT !.list = Append(@, i)]
    BY <1>1 DEF FinishItem
  <2>2. Append(a.list, i) \in Seq(Items)
    BY DEF Accounts
  <2> QED BY <2>1, <2>2 DEF Accounts
<1>2. CASE ~a.ended /\ a.left < i.encoded
  <2> DEFINE rest == [i EXCEPT !.encoded = @ - a.left]
  <2>1. rest \in Items
    BY <1>2 DEF Accounts, Items
  <2>2. FinishItem(a, i) = [a EXCEPT !.ended = TRUE, !.list = Append(@, rest)]
    BY <1>2 DEF FinishItem
  <2> HIDE DEF rest
  <2>3. Append(a.list, rest) \in Seq(Items)
    BY <2>1 DEF Accounts
  <2> QED BY <2>2, <2>3 DEF Accounts
<1>3. CASE ~a.ended /\ ~(a.left < i.encoded)
  <2>1. a.left - i.encoded \in Nat /\ a.plain + i.plain \in Int
    BY <1>3 DEF Accounts, Items
  <2>2. FinishItem(a, i) = [a EXCEPT !.left = a.left - i.encoded, !.plain = a.plain + i.plain]
    BY <1>3 DEF FinishItem
  <2> QED BY <2>1, <2>2 DEF Accounts
<1> QED BY <1>1, <1>2, <1>3

Begun(n) == [left |-> n, plain |-> 0, ended |-> FALSE, list |-> <<>>]

\* t has what finished(n) knows after each of the items of a list.
Finishes(t, n, list) ==
  /\ t \in [0 .. Len(list) -> Accounts]
  /\ t[0] = Begun(n)
  /\ \A j \in 1 .. Len(list) : t[j] = FinishItem(t[j - 1], list[j])

\* finished() goes through such accounts, one per item.
LEMMA FinishedIs ==
  ASSUME NEW l \in Layers, NEW n \in Nat
  PROVE  \E t : /\ Finishes(t, n, l.list)
                /\ Finished(l, n).plain = t[Len(l.list)].plain
                /\ Finished(l, n).layer = [l EXCEPT !.list = t[Len(l.list)].list]
<1> DEFINE N == Len(l.list)
           v == l.list
           start == Begun(n)
           F == [w \in Accounts \X Items |-> FinishItem(w[1], w[2])]
           P(g) == g = [s \in SUBSET DOMAIN v |-> IF s = {} THEN start
                                                  ELSE FinishItem(g[s \ {Max(s)}], v[Max(s)])]
           it == CHOOSE g : P(g)
           t == [i \in 0 .. N |-> it[1 .. i]]
<1>1. N \in Nat /\ DOMAIN v = 1 .. N /\ v \in [1 .. N -> Items]
  BY DEF Layers
<1>2. start \in Accounts
  BY DEF Begun, Accounts
<1>3. F \in [Accounts \X Items -> Accounts]
  BY FinishItemDoes
<1>4. \A a \in Accounts, i \in Items : F[<<a, i>>] = FinishItem(a, i)
  OBVIOUS
<1>5. /\ Finished(l, n).plain = it[1 .. N].plain
      /\ Finished(l, n).layer = [l EXCEPT !.list = it[1 .. N].list]
  <2>1. Finished(l, n) = [plain |-> it[DOMAIN v].plain, layer |-> [l EXCEPT !.list = it[DOMAIN v].list]]
    BY Zenon DEF Finished, FoldLeft, MapThenFoldSet, Begun
  <2> HIDE DEF it, N
  <2> QED BY <1>1, <2>1
<1> HIDE DEF F, N, v, start
<1>6. \E g : P(g)
  <2>1. PICK g \in [SUBSET (1 .. N) -> Accounts] : Folds(g, N, F, start, v)
    BY <1>1, <1>2, <1>3, FoldExists
  <2>2. ASSUME NEW s \in SUBSET (1 .. N)
        PROVE  g[s] = IF s = {} THEN start ELSE FinishItem(g[s \ {Max(s)}], v[Max(s)])
    <3>1. CASE s = {}
      BY <2>1, <3>1 DEF Folds
    <3>2. CASE s # {}
      <4>1. g[s] = F[<<g[s \ {Max(s)}], v[Max(s)]>>]
        BY <2>1, <3>2 DEF Folds
      <4>2. Max(s) \in 1 .. N
        BY <1>1, <3>2, MaxIsIn
      <4>3. g[s \ {Max(s)}] \in Accounts /\ v[Max(s)] \in Items
        BY <1>1, <2>1, <4>2
      <4> QED BY <1>4, <3>2, <4>1, <4>3
    <3> QED BY <3>1, <3>2
  <2>3. P(g)
    BY <1>1, <2>1, <2>2
  <2> QED BY <2>3
<1>7. it = [s \in SUBSET (1 .. N) |-> IF s = {} THEN start
                                      ELSE FinishItem(it[s \ {Max(s)}], v[Max(s)])]
  <2> HIDE DEF P
  <2>1. P(it)
    BY <1>6
  <2> QED BY <1>1, <2>1 DEF P
<1> HIDE DEF it
<1>8. t[0] = start /\ t[N] = it[1 .. N]
  <2>1. 1 .. 0 = {} /\ 1 .. 0 \in SUBSET (1 .. N)
    OBVIOUS
  <2>2. it[{}] = start
    BY <1>7, <2>1
  <2>3. t[0] = it[1 .. 0] /\ t[N] = it[1 .. N]
    BY <1>1
  <2> QED BY <2>1, <2>2, <2>3
<1>9. ASSUME NEW i \in 1 .. N PROVE t[i] = FinishItem(t[i - 1], v[i])
  <2>1. 1 .. i \in SUBSET (1 .. N) /\ i \in 1 .. i /\ 1 .. i # {} /\ (1 .. i) \ {i} = 1 .. i - 1
    BY <1>1, FirstOnes
  <2>2. i \in Nat /\ Max(1 .. i) = i
    BY <1>1, <2>1, MaxIs
  <2>3. it[1 .. i] = FinishItem(it[(1 .. i) \ {i}], v[i])
    BY <1>7, <2>1, <2>2
  <2>4. t[i] = it[1 .. i] /\ t[i - 1] = it[1 .. i - 1]
    BY <1>1
  <2> QED BY <2>1, <2>3, <2>4
<1> HIDE DEF t
<1>10. t \in [0 .. N -> Accounts]
  <2> DEFINE S == {i \in 0 .. N : t[i] \in Accounts}
  <2>1. 0 \in S
    BY <1>1, <1>2, <1>8
  <2>2. ASSUME NEW i \in 1 .. N, i - 1 \in S PROVE i \in S
    <3>1. t[i - 1] \in Accounts /\ v[i] \in Items /\ i \in 0 .. N
      BY <1>1, <2>2
    <3> QED BY <1>9, <3>1, FinishItemDoes
  <2> HIDE DEF S
  <2>3. 0 .. N \subseteq S
    BY <1>1, <2>1, <2>2, UpTo
  <2>4. \A i \in 0 .. N : t[i] \in Accounts
    BY <2>3 DEF S
  <2>5. t = [i \in 0 .. N |-> t[i]]
    BY DEF t
  <2> QED BY <2>4, <2>5
<1>11. Finishes(t, n, v)
  BY <1>8, <1>9, <1>10 DEF Finishes, N, v, start
<1> QED BY <1>5, <1>8, <1>11 DEF N, v

----------------------------------------------------------------------------
(* What convertBytesWritten() counts: chunks, and the layer's items for those *)
(* that the socket has not wholly written.                                   *)

Chunks == [size : Nat, plain : Nat]
BytesTo(chunks, k) == BytesOf(SubSeq(chunks, 1, k))
PlainTo(chunks, k) == Plain(SubSeq(chunks, 1, k))

\* Each chunk adds its own to the bytes and the plain bytes of those before it.
LEMMA PrefixSums ==
  ASSUME NEW chunks \in Seq(Chunks)
  PROVE  /\ BytesTo(chunks, 0) = 0 /\ PlainTo(chunks, 0) = 0
         /\ BytesTo(chunks, Len(chunks)) = BytesOf(chunks)
         /\ \A k \in 0 .. Len(chunks) : BytesTo(chunks, k) \in Nat /\ PlainTo(chunks, k) \in Nat
         /\ \A k \in 1 .. Len(chunks) :
              /\ BytesTo(chunks, k) = BytesTo(chunks, k - 1) + chunks[k].size
              /\ PlainTo(chunks, k) = PlainTo(chunks, k - 1) + chunks[k].plain
<1>1. \A r \in Chunks : r.size \in Nat /\ r.plain \in Nat
  BY DEF Chunks
<1>2. SubSeq(chunks, 1, 0) = <<>> /\ SubSeq(chunks, 1, Len(chunks)) = chunks
  OBVIOUS
<1>3. BytesTo(chunks, 0) = 0 /\ PlainTo(chunks, 0) = 0
  <2> DEFINE r == [size |-> 0, plain |-> 0]
  <2>1. r.size \in Nat /\ r.plain \in Nat
    OBVIOUS
  <2> HIDE DEF r
  <2> QED BY <1>2, <2>1, BytesOfFew, PlainOfFew DEF BytesTo, PlainTo
<1>4. ASSUME NEW k \in 0 .. Len(chunks)
      PROVE  BytesTo(chunks, k) \in Nat /\ PlainTo(chunks, k) \in Nat
  <2>1. SubSeq(chunks, 1, k) \in Seq(Chunks)
    OBVIOUS
  <2> QED BY <1>1, <2>1, BytesJoins, PlainJoins DEF BytesTo, PlainTo
<1>5. ASSUME NEW k \in 1 .. Len(chunks)
      PROVE  /\ BytesTo(chunks, k) = BytesTo(chunks, k - 1) + chunks[k].size
             /\ PlainTo(chunks, k) = PlainTo(chunks, k - 1) + chunks[k].plain
  <2> DEFINE s == SubSeq(chunks, 1, k - 1)
             r == chunks[k]
             t == << r >>
  <2>1. s \in Seq(Chunks) /\ r \in Chunks /\ t \in Seq(Chunks)
    OBVIOUS
  <2>2. SubSeq(chunks, 1, k) = s \o t
    OBVIOUS
  <2> HIDE DEF s, r, t
  <2>3. BytesOf(s \o t) = BytesOf(s) + BytesOf(t) /\ Plain(s \o t) = Plain(s) + Plain(t)
    BY <1>1, <2>1, BytesJoins, PlainJoins
  <2>4. BytesOf(t) = r.size /\ Plain(t) = r.plain
    BY <1>1, <2>1, BytesOfFew, PlainOfFew DEF t
  <2> QED BY <2>2, <2>3, <2>4 DEF BytesTo, PlainTo, s, r
<1> QED BY <1>2, <1>3, <1>4, <1>5 DEF BytesTo

\* The layer's items are those of the last chunks: the first of them is what is
\* left of its chunk, and what has been told is not more than the others held.
AccountedFrom(k, list, chunks, sent, told) ==
  /\ Len(list) = Len(chunks) - k
  /\ \A j \in 1 .. Len(list) : /\ list[j].plain <= chunks[k + j].plain
                               /\ j > 1 => list[j].encoded = chunks[k + j].size
  /\ BytesTo(chunks, k) <= sent
  /\ list # <<>> => BytesTo(chunks, k + 1) = sent + list[1].encoded
  /\ told <= PlainTo(chunks, k)

Accounted(list, chunks, sent, told) ==
  /\ sent <= BytesOf(chunks)
  /\ \E k \in 0 .. Len(chunks) : AccountedFrom(k, list, chunks, sent, told)

\* What finished(n) knows after j items, of which it has finished e.
Counted(e, j, a, k, n, chunks, sent, told) ==
  /\ a.left = sent + n - (IF e = 0 THEN sent ELSE BytesTo(chunks, k + e))
  /\ told + a.plain <= PlainTo(chunks, k + e)
  /\ ~a.ended => e = j /\ a.list = <<>>
  /\ a.ended => /\ e < j /\ Len(a.list) = j - e
                /\ BytesTo(chunks, k + e + 1) = sent + n + a.list[1].encoded
                /\ \A i \in 1 .. j - e :
                     /\ a.list[i].plain <= chunks[k + e + i].plain
                     /\ i > 1 => a.list[i].encoded = chunks[k + e + i].size

\* Append() by its elements.
LEMMA AppendIs ==
  ASSUME NEW R, NEW q \in Seq(R), NEW r \in R
  PROVE  /\ Append(q, r) \in Seq(R) /\ Len(Append(q, r)) = Len(q) + 1
         /\ Append(q, r)[Len(q) + 1] = r /\ \A i \in 1 .. Len(q) : Append(q, r)[i] = q[i]
OBVIOUS

\* Counted() goes from each item to the next: an item is finished where its bytes
\* are written, or what is left of it becomes the first of the new list.
LEMMA FinishItemCounts ==
  ASSUME NEW list \in Seq(Items), NEW chunks \in Seq(Chunks), NEW sent \in Nat, NEW told \in Int,
         NEW k \in 0 .. Len(chunks), AccountedFrom(k, list, chunks, sent, told),
         NEW n \in Nat, NEW j \in 1 .. Len(list), NEW a \in Accounts, NEW e \in 0 .. j - 1,
         Counted(e, j - 1, a, k, n, chunks, sent, told)
  PROVE  \E f \in 0 .. j : Counted(f, j, FinishItem(a, list[j]), k, n, chunks, sent, told)
<1> DEFINE b == FinishItem(a, list[j])
           B(i) == BytesTo(chunks, i)
           P(i) == PlainTo(chunks, i)
<1>1. Len(list) = Len(chunks) - k /\ Len(list) \in Nat /\ Len(chunks) \in Nat
  BY DEF AccountedFrom
<1>2. PICK m \in 1 .. Len(chunks) : m = k + j
  BY <1>1
<1>3. /\ list[j] \in Items /\ list[j].plain \in Int /\ list[j].encoded \in Nat
      /\ chunks[m].plain \in Nat /\ chunks[m].size \in Nat
  <2>1. list[j] \in Items /\ chunks[m] \in Chunks
    OBVIOUS
  <2> QED BY <2>1 DEF Items, Chunks
<1>4. a.left \in Nat /\ a.plain \in Int /\ a.ended \in BOOLEAN /\ a.list \in Seq(Items)
  BY DEF Accounts
<1>5. /\ B(m) \in Nat /\ B(m - 1) \in Nat /\ P(m) \in Nat /\ P(m - 1) \in Nat
      /\ B(m) = B(m - 1) + chunks[m].size
      /\ P(m) = P(m - 1) + chunks[m].plain
  <2>1. m \in 0 .. Len(chunks) /\ m - 1 \in 0 .. Len(chunks)
    BY <1>1
  <2> QED BY <2>1, PrefixSums
<1>6. list[j].plain <= chunks[m].plain /\ (j > 1 => list[j].encoded = chunks[m].size)
  BY <1>2 DEF AccountedFrom
\* Where the item begins and ends.
<1> DEFINE start == IF j = 1 THEN sent ELSE B(m - 1)
<1>b. PICK left \in Nat, plain \in Int, enc \in Nat, pl \in Int, size \in Nat, most \in Nat :
        /\ left = a.left /\ plain = a.plain /\ enc = list[j].encoded /\ pl = list[j].plain
        /\ size = chunks[m].size /\ most = chunks[m].plain
  BY <1>3, <1>4
<1>a. PICK Bm \in Nat, Pm \in Nat, Pl \in Nat : Bm = B(m) /\ Pm = P(m) /\ Pl = P(m - 1)
  BY <1>5
<1>7. start \in Nat /\ Bm = start + list[j].encoded
  <2>1. CASE j = 1
    <3>1. list # <<>> /\ B(k + 1) = sent + list[1].encoded
      BY <1>1, <2>1 DEF AccountedFrom
    <3>2. m = k + 1
      BY <1>2, <2>1
    <3>3. Bm = sent + list[1].encoded
      BY <1>a, <3>1, <3>2
    <3> QED BY <2>1, <3>3
  <2>2. CASE j # 1
    <3>1. list[j].encoded = chunks[m].size
      BY <1>6, <2>2
    <3>2. start = B(m - 1) /\ B(m - 1) \in Nat /\ Bm = B(m - 1) + list[j].encoded
      BY <1>3, <1>5, <1>a, <2>2, <3>1
    <3> QED BY <3>2
  <2> QED BY <2>1, <2>2
<1> HIDE DEF start
<1>8. CASE a.ended
  <2>1. b = [a EXCEPT !.list = Append(@, list[j])]
    BY <1>8 DEF FinishItem
  <2>2. b.left = a.left /\ b.plain = a.plain /\ b.ended /\ b.list = Append(a.list, list[j])
    BY <1>8, <2>1 DEF Accounts
  <2>3. /\ a.left = sent + n - (IF e = 0 THEN sent ELSE BytesTo(chunks, k + e))
        /\ told + a.plain <= PlainTo(chunks, k + e)
        /\ e < j - 1 /\ Len(a.list) = j - 1 - e
        /\ BytesTo(chunks, k + e + 1) = sent + n + a.list[1].encoded
        /\ \A i \in 1 .. j - 1 - e : /\ a.list[i].plain <= chunks[k + e + i].plain
                                     /\ i > 1 => a.list[i].encoded = chunks[k + e + i].size
    BY <1>8 DEF Counted
  <2> HIDE DEF b
  <2>4. /\ Len(b.list) = j - e
        /\ \A i \in 1 .. j - 1 - e : b.list[i] = a.list[i]
        /\ b.list[j - e] = list[j]
    <3>1. a.list \in Seq(Items) /\ list[j] \in Items
      BY <1>3, <1>4
    <3>2. /\ Len(b.list) = Len(a.list) + 1 /\ b.list[Len(a.list) + 1] = list[j]
          /\ \A i \in 1 .. Len(a.list) : b.list[i] = a.list[i]
      BY <2>2, <3>1, AppendIs
    <3>3. j - e = Len(a.list) + 1
      BY <2>3
    <3> QED BY <2>3, <3>2, <3>3
  <2>5. b.list[1] = a.list[1] /\ e < j /\ e \in 0 .. j
    BY <2>3, <2>4
  <2>6. ASSUME NEW i \in 1 .. j - e
        PROVE  /\ b.list[i].plain <= chunks[k + e + i].plain
               /\ i > 1 => b.list[i].encoded = chunks[k + e + i].size
    <3>1. CASE i = j - e
      <4>1. k + e + i = m /\ j > 1
        BY <1>2, <2>3, <3>1
      <4> QED BY <1>6, <2>4, <3>1, <4>1
    <3>2. CASE i # j - e
      <4>1. i \in 1 .. j - 1 - e
        BY <3>2
      <4> QED BY <2>3, <2>4, <4>1
    <3> QED BY <3>1, <3>2
  <2>7. Counted(e, j, b, k, n, chunks, sent, told)
    BY <2>2, <2>3, <2>4, <2>5, <2>6 DEF Counted
  <2> QED BY <2>5, <2>7 DEF b
<1>9. CASE ~a.ended
  <2>1. e = j - 1 /\ a.list = <<>>
    BY <1>9 DEF Counted
  <2>2. k + e = m - 1 /\ k + e + 1 = m /\ (e = 0 <=> j = 1)
    BY <1>2, <2>1
  <2>3. a.left = sent + n - start /\ told + a.plain <= Pl
    <3>1. a.left = sent + n - (IF e = 0 THEN sent ELSE B(m - 1)) /\ told + a.plain <= P(m - 1)
      BY <2>2 DEF Counted
    <3>2. a.left = sent + n - start
      BY <2>2, <3>1 DEF start
    <3> QED BY <1>a, <3>1, <3>2
  <2> HIDE DEF B, P
  <2>4. left - enc = sent + n - Bm
    <3>1. left = sent + n - start /\ start \in Nat /\ Bm = start + enc
      BY <1>7, <1>b, <2>3
    <3> QED BY <3>1
  <2>5. CASE a.left < list[j].encoded
    <3> DEFINE rest == [list[j] EXCEPT !.encoded = @ - a.left]
    <3>1. b = [a EXCEPT !.ended = TRUE, !.list = Append(@, rest)]
      BY <1>9, <2>5 DEF FinishItem
    <3>2. rest.plain = list[j].plain /\ rest.encoded = list[j].encoded - a.left
      BY <1>3 DEF Items
    <3> HIDE DEF rest
    <3>3. b.left = a.left /\ b.plain = a.plain /\ b.ended /\ b.list = <<rest>>
      BY <2>1, <3>1 DEF Accounts
    <3> HIDE DEF b
    <3>4. Bm = sent + n + rest.encoded
      <4>1. rest.encoded = enc - left
        BY <1>b, <3>2
      <4>2. Bm = sent + n + (enc - left)
        BY <2>4
      <4> QED BY <4>1, <4>2
    <3>5. Len(b.list) = j - e /\ b.list[1] = rest /\ e < j /\ e \in 0 .. j
      BY <2>1, <3>3
    <3>6. ASSUME NEW i \in 1 .. j - e
          PROVE  /\ b.list[i].plain <= chunks[k + e + i].plain
                 /\ i > 1 => b.list[i].encoded = chunks[k + e + i].size
      <4>1. i = 1 /\ k + e + i = m
        BY <2>1, <2>2
      <4> QED BY <1>6, <3>2, <3>5, <4>1
    <3>7. BytesTo(chunks, k + e + 1) = sent + n + b.list[1].encoded
      BY <1>a, <2>2, <3>4, <3>5 DEF B
    <3>8. /\ b.left = sent + n - (IF e = 0 THEN sent ELSE BytesTo(chunks, k + e))
          /\ told + b.plain <= PlainTo(chunks, k + e)
      BY <3>3 DEF Counted
    <3>9. Counted(e, j, b, k, n, chunks, sent, told)
      BY <3>3, <3>5, <3>6, <3>7, <3>8 DEF Counted
    <3> QED BY <3>5, <3>9 DEF b
  <2>6. CASE ~(a.left < list[j].encoded)
    <3>1. b = [a EXCEPT !.left = @ - list[j].encoded, !.plain = @ + list[j].plain]
      BY <1>9, <2>6 DEF FinishItem
    <3>2. b.left = a.left - list[j].encoded /\ b.plain = a.plain + list[j].plain
          /\ ~b.ended /\ b.list = <<>>
      BY <1>9, <2>1, <3>1 DEF Accounts
    <3> HIDE DEF b
    <3>3. told + b.plain <= Pm
      <4>1. Pm = Pl + most /\ b.plain = plain + pl /\ pl <= most /\ told + plain <= Pl
        BY <1>5, <1>6, <1>a, <1>b, <2>3, <3>2 DEF P
      <4>2. told + (plain + pl) <= Pm
        BY <4>1
      <4> QED BY <4>1, <4>2
    <3>4. b.left = sent + n - Bm /\ j # 0 /\ j \in 0 .. j
      BY <1>b, <2>4, <3>2
    <3>5. Counted(j, j, b, k, n, chunks, sent, told)
      BY <1>2, <1>a, <3>2, <3>3, <3>4 DEF Counted, B, P
    <3> QED BY <3>4, <3>5 DEF b
  <2> QED BY <2>5, <2>6
<1> QED BY <1>4, <1>8, <1>9

\* finished() never counts more than what the wholly written chunks held.
LEMMA FinishedAccounts ==
  ASSUME NEW l \in Layers, NEW chunks \in Seq(Chunks), NEW sent \in Nat, NEW told \in Int,
         Accounted(l.list, chunks, sent, told), NEW n \in Nat, n <= BytesOf(chunks) - sent
  PROVE  /\ Finished(l, n).layer \in Layers /\ Finished(l, n).plain \in Int
         /\ Accounted(Finished(l, n).layer.list, chunks, sent + n, told + Finished(l, n).plain)
<1>1. PICK k \in 0 .. Len(chunks) : AccountedFrom(k, l.list, chunks, sent, told)
  BY DEF Accounted
<1>2. PICK t : /\ Finishes(t, n, l.list)
               /\ Finished(l, n).plain = t[Len(l.list)].plain
               /\ Finished(l, n).layer = [l EXCEPT !.list = t[Len(l.list)].list]
  BY FinishedIs
<1> DEFINE N == Len(l.list)
           v == l.list
           Is(j) == \E e \in 0 .. j : Counted(e, j, t[j], k, n, chunks, sent, told)
           S == {j \in 0 .. N : Is(j)}
<1>3. N \in Nat /\ v \in Seq(Items) /\ N = Len(chunks) - k
  BY <1>1 DEF Layers, AccountedFrom
<1>4. 0 \in S
  <2>1. t[0] = Begun(n)
    BY <1>2 DEF Finishes
  <2>2. k + 0 = k /\ told \in Int /\ told + 0 = told /\ sent + n - sent = n
    OBVIOUS
  <2>3. told <= PlainTo(chunks, k)
    BY <1>1 DEF AccountedFrom
  <2>4. Counted(0, 0, t[0], k, n, chunks, sent, told)
    BY <2>1, <2>2, <2>3 DEF Counted, Begun
  <2>5. 0 \in 0 .. N /\ 0 \in 0 .. 0
    BY <1>3
  <2> QED BY <2>4, <2>5
<1>5. ASSUME NEW j \in 1 .. N, j - 1 \in S PROVE j \in S
  <2>1. PICK e \in 0 .. j - 1 : Counted(e, j - 1, t[j - 1], k, n, chunks, sent, told)
    BY <1>5
  <2>2. t[j] = FinishItem(t[j - 1], v[j]) /\ t[j - 1] \in Accounts
    BY <1>2, <1>3 DEF Finishes
  <2>3. Is(j)
    <3> HIDE DEF v
    <3>1. j \in 1 .. Len(v) /\ AccountedFrom(k, v, chunks, sent, told)
      BY <1>1 DEF v
    <3> QED BY <1>3, <2>1, <2>2, <3>1, FinishItemCounts
  <2>4. j \in 0 .. N
    BY <1>3
  <2> QED BY <2>3, <2>4
<1>6. N \in S
  <2> HIDE DEF S
  <2>1. 0 .. N \subseteq S
    BY <1>3, <1>4, <1>5, UpTo
  <2> QED BY <1>3, <2>1
<1>7. PICK e \in 0 .. N : Counted(e, N, t[N], k, n, chunks, sent, told)
  BY <1>6
<1> DEFINE a == t[N]
           u == Finished(l, n)
<1>8. a \in Accounts
  BY <1>2, <1>3 DEF Finishes
<1>9. u.plain = a.plain /\ u.layer = [l EXCEPT !.list = a.list]
  BY <1>2
<1> HIDE DEF S, a, u, v
<1>10. u.plain \in Int /\ u.layer \in Layers /\ u.layer.list = a.list
  BY <1>8, <1>9 DEF Accounts, Layers
<1>11. k + e \in 0 .. Len(chunks) /\ BytesTo(chunks, k + e) \in Nat
  BY <1>3, PrefixSums
<1>12. Counted(e, N, a, k, n, chunks, sent, told)
  BY <1>7 DEF a
<1>13. AccountedFrom(k + e, a.list, chunks, sent + n, told + a.plain)
  <2>1. BytesTo(chunks, k + e) <= sent + n
    <3>1. a.left \in Nat
      BY <1>8 DEF Accounts
    <3>2. CASE e = 0
      <4>1. BytesTo(chunks, k) <= sent
        BY <1>1 DEF AccountedFrom
      <4>2. k + e = k
        BY <3>2
      <4> QED BY <1>11, <4>1, <4>2
    <3>3. CASE e # 0
      <4>1. a.left = sent + n - BytesTo(chunks, k + e)
        BY <1>12, <3>3 DEF Counted
      <4> QED BY <1>11, <3>1, <4>1
    <3> QED BY <3>2, <3>3
  <2>2. told + a.plain <= PlainTo(chunks, k + e)
    BY <1>12 DEF Counted
  <2>3. CASE ~a.ended
    <3>1. e = N /\ a.list = <<>>
      BY <1>12, <2>3 DEF Counted
    <3>2. Len(a.list) = Len(chunks) - (k + e) /\ a.list = <<>> /\ Len(a.list) = 0
      BY <1>3, <3>1
    <3> QED BY <2>1, <2>2, <3>2 DEF AccountedFrom
  <2>4. CASE a.ended
    <3>1. /\ Len(a.list) = N - e
          /\ BytesTo(chunks, k + e + 1) = sent + n + a.list[1].encoded
          /\ \A i \in 1 .. N - e :
               /\ a.list[i].plain <= chunks[k + e + i].plain
               /\ i > 1 => a.list[i].encoded = chunks[k + e + i].size
      BY <1>12, <2>4 DEF Counted
    <3>2. Len(a.list) = Len(chunks) - (k + e)
      BY <1>3, <3>1
    <3> QED BY <2>1, <2>2, <3>1, <3>2 DEF AccountedFrom
  <2>5. a.ended \in BOOLEAN
    BY <1>8 DEF Accounts
  <2> QED BY <2>3, <2>4, <2>5
<1>14. sent + n <= BytesOf(chunks)
  <2>1. BytesOf(chunks) \in Nat
    BY PrefixSums
  <2> QED BY <2>1
<1>15. Accounted(a.list, chunks, sent + n, told + a.plain)
  BY <1>11, <1>13, <1>14 DEF Accounted
<1> QED BY <1>9, <1>10, <1>15 DEF u

----------------------------------------------------------------------------
(* TLS: the types of its state.                                              *)

Records == [kind : {"hs", "app", "fin"}, plain : Nat]

TlsContexts ==
  [mode : {"Idle", "Handshake", "Active", "Closing"}, server : BOOLEAN, rbio : Seq(Kinds),
   hsLeft : Nat, greeted : BOOLEAN, sentFin : BOOLEAN, eof : BOOLEAN, sendQueue : Nat,
   result : {"Success", "Error", "Continue"}, to_net : Seq(Records), encoded : Nat,
   plain : Nat, posted : Nat]

TlsSignals == TlsSteps \cup {"none", "readyRead", "readyReadOutgoing", "closed", "error"}

TlsDatas ==
  [state : States, blocked : BOOLEAN, server : BOOLEAN, op : {"none", "Start", "Update"},
   queue : Seq(Actions), timer : BOOLEAN, need_update : BOOLEAN, maybe_input : BOOLEAN,
   emitted : SUBSET TlsSteps, out : Nat, out_pending : Int, from_net : Seq(Kinds), in : Nat,
   to_net : Seq(Records), to_net_encoded : Int, unprocessed : Seq(Kinds), layer : Layers,
   c : TlsContexts, signal : TlsSignals, asserted : {FALSE}]

Apps ==
  [sessions : Nat, written : Nat, unanswered : SUBSET Listens, toRead : BOOLEAN,
   toReadOutgoing : BOOLEAN, chunks : Seq(Chunks), sent : Nat, told : Int,
   plainBytes : Int, wants : Nat, steps : SUBSET TlsSteps]

\* What the session p may have queued.
MayQueue(p) ==
  CASE p.state = "Handshaking" -> {"readyReadOutgoing", "hostNameReceived", "certificateRequested",
                                   "peerCertificateAvailable", "Handshaken"}
    [] p.state = "Connected"   -> {"readyReadOutgoing", "readyRead"}
    [] p.state = "Closing"     -> {"readyReadOutgoing", "readyRead", "Close"}
    [] OTHER                   -> {}

\* The actions of a queue are different ones, and those that change the state last.
InOrder(q) ==
  /\ \A i, j \in 1 .. Len(q) : i < j => q[i] # q[j]
  /\ \A i \in 1 .. Len(q) : q[i] \in {"Handshaken", "Close"} => i = Len(q)

\* Queued actions are of the state, and none is for a step that was emitted.
QueueFits(p) ==
  /\ InOrder(p.queue)
  /\ ToSet(p.queue) \subseteq MayQueue(p) \ p.emitted

\* The operation belongs to the state, is owed one result, and goes on alone.
OpFits(p) ==
  /\ p.c.posted = IF p.op = "none" THEN 0 ELSE 1
  /\ p.op = "Start" <=> p.state = "Initializing"
  /\ p.op = "Update" => p.state \in {"Handshaking", "Connected", "Closing"}
  /\ p.op # "none" => p.queue = <<>> /\ ~p.blocked
  /\ p.state \in {"Inactive", "Initializing"} => p.emitted = {} /\ ~p.blocked
  /\ p.state = "Inactive" => ~p.need_update

\* The context is in the mode that the state, and the result that is owed, imply.
ModeFits(p) ==
  /\ p.state = "Initializing" /\ p.c.result = "Success" => p.c.mode = "Handshake"
  /\ p.state = "Handshaking" =>
       /\ p.op = "none" => p.c.mode = IF "Handshaken" \in ToSet(p.queue) THEN "Active" ELSE "Handshake"
       /\ p.op = "Update" => /\ p.c.result = "Success" => p.c.mode = "Active"
                             /\ p.c.result = "Continue" => p.c.mode = "Handshake"
  /\ p.state = "Connected" => p.c.mode = "Active"

\* What is counted as encoded is in the records that are still to be handed over,
Within(p) == MinEncoded <= 0 => p.to_net_encoded <= Plain(p.to_net)

\* or will be in those that the context has.
BooksFit(p) ==
  /\ Within(p)
  /\ "Handshaken" \in ToSet(p.queue) \/ (p.state = "Connected" /\ p.op = "none") => p.c.to_net = <<>>
  /\ p.state = "Connected" /\ p.op = "Update" /\ p.c.to_net # <<>> => p.c.encoded <= Plain(p.c.to_net)

\* What holds of the session all through a call,
Settled(p) == p \in TlsDatas /\ QueueFits(p) /\ OpFits(p) /\ ModeFits(p) /\ BooksFit(p)

\* and what only when the call is over.
Woken(p) ==
  /\ p.queue # <<>> => p.timer
  /\ p.need_update => p.timer \/ p.op # "none" \/ p.blocked
  /\ p.state # "Inactive" /\ p.from_net # <<>> => p.need_update \/ p.blocked
  /\ p.state = "Connected" /\ p.out > 0 => p.need_update \/ p.blocked

OneStep == \A s, t \in Listens : s = t

\* What the application, which was at a, knows of the session with its signal.
Known(p, a) ==
  /\ p.in > 0 => a.toRead \/ p.signal = "readyRead" \/ "readyRead" \in ToSet(p.queue)
  /\ p.to_net # <<>> => a.toReadOutgoing \/ p.signal = "readyReadOutgoing"
                        \/ "readyReadOutgoing" \in ToSet(p.queue)
  /\ p.signal \in TlsSteps => p.signal \in Listens \ a.steps
  /\ p.state # "Inactive" => a.steps \cup ({p.signal} \cap TlsSteps) \subseteq p.emitted \cup {"handshaken"}
  /\ p.state \in {"Initializing", "Handshaking"} => "handshaken" \notin a.steps /\ p.signal # "handshaken"
  /\ OneStep /\ p.signal \notin {"closed", "error"} /\ (a.unanswered # {} \/ p.signal \in TlsSteps)
       => p.blocked

Quietly(p) == [p EXCEPT !.signal = "none"]

\* The inductive invariant.
TlsInv ==
  /\ Settled(d) /\ Woken(d) /\ app \in Apps /\ wire \in Seq(Kinds)
  /\ Known(Quietly(d), app)

\* and that of the translation of written bytes.
BooksInv ==
  /\ NeverOverReports
  /\ InSession => Accounted(d.layer.list, app.chunks, app.sent, app.told)

----------------------------------------------------------------------------
(* The context's functions.                                                  *)

\* The empty list is one of any members.
LEMMA Empties == \A S : <<>> \in Seq(S)
OBVIOUS

\* The first of a list that are of a kind, as many as asked for at most.
LEMMA FirstNot ==
  ASSUME NEW all \in Seq(Kinds), NEW most \in Nat, NEW kind
  PROVE  \E n \in 0 .. Len(all) :
           /\ n <= most /\ \A i \in 1 .. n : all[i] = kind
           /\ n = most \/ n = Len(all) \/ all[n + 1] # kind
<1> DEFINE S == {n \in 0 .. Len(all) : n = most \/ n = Len(all) \/ all[n + 1] # kind}
<1>1. S \in SUBSET Nat /\ Len(all) \in S /\ Len(all) \in Nat
  OBVIOUS
<1>2. PICK m \in S : \A y \in S : m <= y
  <2> HIDE DEF S
  <2> QED BY <1>1, Smallest
<1>3. m \in Nat /\ m \in 0 .. Len(all)
  OBVIOUS
<1>4. m <= most
  <2> SUFFICES ASSUME most < m PROVE FALSE
    BY <1>3
  <2>1. most \in S
    BY <1>1, <1>3
  <2> QED BY <1>2, <1>3, <2>1
<1>5. ASSUME NEW i \in 1 .. m PROVE all[i] = kind
  <2> SUFFICES ASSUME all[i] # kind PROVE FALSE
    OBVIOUS
  <2>1. i - 1 \in 0 .. Len(all) /\ (i - 1) + 1 = i
    BY <1>1, <1>3
  <2>2. i - 1 \in S
    BY <2>1
  <2> QED BY <1>2, <1>3, <2>2
<1> QED BY <1>2, <1>4, <1>5

\* reset() of the context keeps what it owes and what it has for the network.
LEMMA ContextResets ==
  ASSUME NEW c \in TlsContexts
  PROVE  /\ ContextReset(c) \in TlsContexts /\ ContextReset(c).posted = c.posted
         /\ ContextReset(c).to_net = c.to_net
BY Empties DEF ContextReset, TlsContexts

\* start() posts one result, and is in the handshake when it succeeds.
LEMMA ContextStarts ==
  ASSUME NEW c \in TlsContexts, NEW server \in BOOLEAN, NEW ok \in BOOLEAN
  PROVE  /\ ContextStart(c, server, ok) \in TlsContexts
         /\ ContextStart(c, server, ok).posted = c.posted + 1
         /\ ContextStart(c, server, ok).result = "Success" => ContextStart(c, server, ok).mode = "Handshake"
<1>1. c.posted + 1 \in Nat /\ HsFlights \in Nat
  BY ContextAssumption DEF TlsContexts
<1>2. CASE ok
  <2>1. ContextStart(c, server, ok) = [c EXCEPT !.server = server, !.mode = "Handshake", !.result = "Success",
                                                !.hsLeft = HsFlights, !.posted = c.posted + 1]
    BY <1>2 DEF ContextStart, Post, TlsContexts
  <2> QED BY <1>1, <2>1 DEF TlsContexts
<1>3. CASE ~ok
  <2>1. ContextStart(c, server, ok) = [c EXCEPT !.server = server, !.result = "Error", !.posted = c.posted + 1]
    BY <1>3 DEF ContextStart, Post, TlsContexts
  <2> QED BY <1>1, <2>1 DEF TlsContexts
<1> QED BY <1>2, <1>3

\* The flights of a handshake are records.
LEMMA FlightsAre ==
  ASSUME NEW n \in Nat
  PROVE  Flights(n) \in Seq(Records)
BY DEF Flights, Record, Records

\* The handshake posts nothing more, and is over when its result is success.
LEMMA HandshakeDoes ==
  ASSUME NEW c \in TlsContexts, NEW from \in Seq(Kinds), NEW r, r = Handshake(c, from)
  PROVE  /\ r \in TlsContexts /\ r.posted = c.posted
         /\ r.result = "Success" => r.mode = "Active"
         /\ r.result = "Continue" => r.mode = c.mode
<1> DEFINE all   == c.rbio \o from
           P(n)  == /\ n <= c.hsLeft /\ \A i \in 1 .. n : all[i] = "hs"
                    /\ n = c.hsLeft \/ n = Len(all) \/ all[n + 1] # "hs"
           taken == CHOOSE n \in 0 .. Len(all) : P(n)
           done  == taken = c.hsLeft
           sends == taken + (IF c.server \/ c.greeted THEN 0 ELSE 1)
           first == [ContextReset(c) EXCEPT !.result = "Error"]
           then  == [c EXCEPT !.rbio = SubSeq(all, taken + 1, Len(all)),
                       !.hsLeft = @ - taken, !.greeted = TRUE,
                       !.mode = IF done THEN "Active" ELSE @,
                       !.result = IF done THEN "Success" ELSE "Continue",
                       !.to_net = Flights(sends)]
<1>1. c.hsLeft \in Nat /\ c.rbio \in Seq(Kinds)
  BY DEF TlsContexts
<1>2. all \in Seq(Kinds)
  BY <1>1
<1>3. r = IF ~done /\ taken < Len(all) THEN first ELSE then
  BY DEF Handshake
<1>4. \E n \in 0 .. Len(all) : P(n)
  <2> HIDE DEF all
  <2>1. \E n \in 0 .. Len(all) :
           /\ n <= c.hsLeft /\ \A i \in 1 .. n : all[i] = "hs"
           /\ n = c.hsLeft \/ n = Len(all) \/ all[n + 1] # "hs"
    <3>1. PICK most \in Nat : most = c.hsLeft
      BY <1>1
    <3>2. \E n \in 0 .. Len(all) :
             /\ n <= most /\ \A i \in 1 .. n : all[i] = "hs"
             /\ n = most \/ n = Len(all) \/ all[n + 1] # "hs"
      BY <1>2, FirstNot
    <3> QED BY <3>1, <3>2
  <2> QED BY <2>1
<1>5. taken \in 0 .. Len(all) /\ P(taken)
  <2> HIDE DEF P, all
  <2> QED BY <1>4
<1>6. taken \in Nat /\ taken <= c.hsLeft /\ Len(all) \in Nat
  <2> HIDE DEF all, taken
  <2>1. taken \in 0 .. Len(all) /\ taken <= c.hsLeft /\ Len(all) \in Nat
    BY <1>2, <1>5
  <2> QED BY <2>1
<1>7. SubSeq(all, taken + 1, Len(all)) \in Seq(Kinds)
  <2> HIDE DEF all, taken
  <2> QED BY <1>2, <1>6
<1>8. Flights(sends) \in Seq(Records)
  <2> HIDE DEF taken
  <2>1. sends \in Nat
    BY <1>6
  <2> HIDE DEF sends
  <2> QED BY <2>1, FlightsAre
<1> HIDE DEF all, taken, sends
<1>9. first \in TlsContexts /\ first.posted = c.posted /\ first.result = "Error"
  <2>1. ContextReset(c) \in TlsContexts /\ ContextReset(c).posted = c.posted
    BY ContextResets
  <2> QED BY <2>1 DEF TlsContexts
<1>10. /\ then \in TlsContexts /\ then.posted = c.posted
       /\ then.result = (IF done THEN "Success" ELSE "Continue")
       /\ then.mode = (IF done THEN "Active" ELSE c.mode)
  <2>1. c.hsLeft - taken \in Nat
    BY <1>1, <1>6
  <2> HIDE DEF done
  <2> QED BY <1>7, <1>8, <2>1 DEF TlsContexts
<1> HIDE DEF first, then, done
<1> QED BY <1>3, <1>9, <1>10

\* What is encoded is in the records that are handed out.
LEMMA EncodeDoes ==
  ASSUME NEW c \in TlsContexts, NEW n \in Nat, NEW wants, NEW r, r = Encode(c, n, wants)
  PROVE  /\ r \in TlsContexts /\ r.posted = c.posted /\ r.mode = c.mode
         /\ c.to_net = <<>> => r.to_net = <<>> \/ r.encoded <= Plain(r.to_net)
<1> DEFINE m == c.sendQueue + n
           one == Record("app", m)
           more == Append(c.to_net, one)
           held == [c EXCEPT !.sendQueue = m, !.encoded = 0]
           sent == [c EXCEPT !.sendQueue = 0, !.encoded = m, !.to_net = more]
<1>1. m \in Nat /\ c.to_net \in Seq(Records)
  BY DEF TlsContexts
<1>2. one \in Records /\ one.plain = m
  BY <1>1 DEF Record, Records
<1>3. more \in Seq(Records) /\ (c.to_net = <<>> => more = << one >>)
  <2>1. Append(<<>>, one) = << one >>
    OBVIOUS
  <2> HIDE DEF m, one
  <2>2. more \in Seq(Records)
    BY <1>1, <1>2, AppendIs
  <2> QED BY <2>1, <2>2
<1>4. r = IF wants THEN held ELSE sent
  BY DEF Encode, TlsContexts
<1>5. held \in TlsContexts /\ held.posted = c.posted /\ held.mode = c.mode /\ held.to_net = c.to_net
  <2> HIDE DEF m
  <2> QED BY <1>1 DEF TlsContexts
<1>6. /\ sent \in TlsContexts /\ sent.posted = c.posted /\ sent.mode = c.mode
      /\ sent.to_net = more /\ sent.encoded = m
  <2> HIDE DEF m, more
  <2> QED BY <1>1, <1>3 DEF TlsContexts
<1>7. Plain(<< one >>) = m
  <2> HIDE DEF m, one
  <2> QED BY <1>1, <1>2, PlainOfFew
<1> HIDE DEF m, one, more, held, sent
<1>8. c.to_net = <<>> => sent.encoded <= Plain(sent.to_net)
  BY <1>1, <1>3, <1>6, <1>7
<1> QED BY <1>4, <1>5, <1>6, <1>8

\* Decoding leaves what was encoded alone.
LEMMA DecodeDoes ==
  ASSUME NEW c \in TlsContexts, NEW from \in Seq(Kinds), NEW r, r = Decode(c, from)
  PROVE  /\ r \in TlsContexts /\ r.posted = c.posted /\ r.mode = c.mode
         /\ r.to_net = c.to_net /\ r.encoded = c.encoded
<1> DEFINE all  == c.rbio \o from
           P(n) == /\ \A i \in 1 .. n : all[i] = "app"
                   /\ n = Len(all) \/ all[n + 1] # "app"
           read == CHOOSE n \in 0 .. Len(all) : P(n)
           stop == IF c.eof THEN 0 ELSE read
           fin  == ~c.eof /\ read < Len(all)
           rest == SubSeq(all, stop + 1 + (IF fin THEN 1 ELSE 0), Len(all))
           bad  == [c EXCEPT !.result = "Error"]
           good == [c EXCEPT !.result = "Success", !.plain = stop, !.eof = @ \/ fin, !.rbio = rest]
<1>1. c.rbio \in Seq(Kinds)
  BY DEF TlsContexts
<1>2. all \in Seq(Kinds) /\ Len(all) \in Nat
  BY <1>1
<1>3. r = IF ~c.eof /\ read < Len(all) /\ all[read + 1] # "fin" THEN bad ELSE good
  BY DEF Decode
<1>4. \E n \in 0 .. Len(all) : P(n)
  <2> HIDE DEF all
  <2>1. PICK n \in 0 .. Len(all) : /\ n <= Len(all) /\ \A i \in 1 .. n : all[i] = "app"
                                   /\ n = Len(all) \/ n = Len(all) \/ all[n + 1] # "app"
    BY <1>2, FirstNot
  <2> QED BY <2>1
<1>5. read \in 0 .. Len(all)
  <2> HIDE DEF P, all
  <2> QED BY <1>4
<1>6. stop \in Nat /\ fin \in BOOLEAN
  <2> HIDE DEF read, all
  <2> QED BY <1>2, <1>5
<1>7. rest \in Seq(Kinds)
  <2> HIDE DEF all, stop, fin
  <2> QED BY <1>2, <1>6
<1>8. bad \in TlsContexts /\ bad.posted = c.posted /\ bad.mode = c.mode
      /\ bad.to_net = c.to_net /\ bad.encoded = c.encoded
  BY DEF TlsContexts
<1>9. good \in TlsContexts /\ good.posted = c.posted /\ good.mode = c.mode
      /\ good.to_net = c.to_net /\ good.encoded = c.encoded
  <2> HIDE DEF rest, stop, fin
  <2> QED BY <1>6, <1>7 DEF TlsContexts
<1> HIDE DEF bad, good, read, all
<1> QED BY <1>3, <1>8, <1>9

\* Shutting down posts nothing more.
LEMMA ShutdownDoes ==
  ASSUME NEW c \in TlsContexts, NEW from \in Seq(Kinds), NEW r, r = Shutdown(c, from)
  PROVE  r \in TlsContexts /\ r.posted = c.posted
<1> DEFINE all   == c.rbio \o from
           reads == c.sentFin /\ ~c.eof /\ all # <<>>
           eof   == c.eof \/ (reads /\ Head(all) = "fin")
           left  == IF reads THEN Tail(all) ELSE all
           out   == IF c.sentFin THEN <<>> ELSE << Record("fin", 0) >>
           bad   == [ContextReset(c) EXCEPT !.result = "Error"]
           good  == [c EXCEPT !.rbio = left, !.eof = eof, !.sentFin = TRUE, !.to_net = out,
                              !.mode = IF eof THEN "Idle" ELSE @,
                              !.result = IF eof THEN "Success" ELSE "Continue"]
<1>1. c.rbio \in Seq(Kinds)
  BY DEF TlsContexts
<1>2. all \in Seq(Kinds)
  BY <1>1
<1>3. r = IF reads /\ ~eof THEN bad ELSE good
  BY DEF Shutdown
<1>4. left \in Seq(Kinds)
  <2> HIDE DEF all
  <2> QED BY <1>2
<1>5. out \in Seq(Records)
  <2>1. Record("fin", 0) \in Records
    BY DEF Record, Records
  <2> QED BY <2>1
<1>6. eof \in BOOLEAN
  BY DEF TlsContexts
<1>7. bad \in TlsContexts /\ bad.posted = c.posted
  <2>1. ContextReset(c) \in TlsContexts /\ ContextReset(c).posted = c.posted
    BY ContextResets
  <2> QED BY <2>1 DEF TlsContexts
<1>8. good \in TlsContexts /\ good.posted = c.posted
  <2> HIDE DEF eof, left, out
  <2> QED BY <1>4, <1>5, <1>6 DEF TlsContexts
<1> HIDE DEF bad, good
<1> QED BY <1>3, <1>7, <1>8

\* What update() of the context leaves behind.
LEMMA ContextUpdates ==
  ASSUME NEW c \in TlsContexts, NEW from \in Seq(Kinds), NEW n \in Nat, NEW wants,
         NEW r, r = ContextUpdate(c, from, n, wants)
  PROVE  /\ r \in TlsContexts /\ r.posted = c.posted + 1
         /\ c.mode = "Handshake" => /\ r.result = "Success" => r.mode = "Active"
                                    /\ r.result = "Continue" => r.mode = "Handshake"
         /\ c.mode = "Active" => /\ r.mode = "Active"
                                 /\ c.to_net = <<>> => r.to_net = <<>> \/ r.encoded <= Plain(r.to_net)
<1> DEFINE e == IF n > 0 THEN Encode(c, n, wants) ELSE c
           a == Decode(e, from)
           s == Shutdown(c, from)
           h == Handshake(c, from)
           i == [c EXCEPT !.result = "Continue", !.to_net = <<>>]
           x == CASE c.mode = "Active" -> a [] c.mode = "Closing" -> s [] c.mode = "Handshake" -> h
                  [] OTHER -> i
<1>1. r = Post(x)
  BY DEF ContextUpdate
<1>2. /\ e \in TlsContexts /\ e.posted = c.posted /\ e.mode = c.mode
      /\ c.to_net = <<>> => e.to_net = <<>> \/ e.encoded <= Plain(e.to_net)
  BY EncodeDoes
<1>3. /\ a \in TlsContexts /\ a.posted = e.posted /\ a.mode = e.mode
      /\ a.to_net = e.to_net /\ a.encoded = e.encoded
  <2> HIDE DEF e
  <2> QED BY <1>2, DecodeDoes
<1>4. s \in TlsContexts /\ s.posted = c.posted
  BY ShutdownDoes
<1>5. /\ h \in TlsContexts /\ h.posted = c.posted
      /\ h.result = "Success" => h.mode = "Active"
      /\ h.result = "Continue" => h.mode = c.mode
  BY HandshakeDoes
<1>6. i \in TlsContexts /\ i.posted = c.posted
  BY Empties DEF TlsContexts
<1> HIDE DEF e, a, s, h, i
<1>7. /\ x \in TlsContexts /\ x.posted = c.posted
      /\ c.mode = "Handshake" => x = h
      /\ c.mode = "Active" => x = a
  BY <1>2, <1>3, <1>4, <1>5, <1>6
<1> HIDE DEF x
<1>8. /\ r \in TlsContexts /\ r.posted = c.posted + 1 /\ r.mode = x.mode /\ r.result = x.result
      /\ r.to_net = x.to_net /\ r.encoded = x.encoded
  <2>1. r = [x EXCEPT !.posted = x.posted + 1] /\ x.posted + 1 \in Nat
    BY <1>1, <1>7 DEF Post, TlsContexts
  <2> QED BY <1>7, <2>1 DEF TlsContexts
<1> QED BY <1>2, <1>3, <1>5, <1>7, <1>8

----------------------------------------------------------------------------
(* TLS::Private: update().                                                   *)

\* An empty queue has no actions.
LEMMA NoneQueued == ToSet(<<>>) = {}
BY DEF ToSet

\* The part of Woken() that a call may rely on at any time.
Loose(p) ==
  /\ p.state # "Inactive" /\ p.from_net # <<>> => p.need_update \/ p.blocked
  /\ p.state = "Connected" /\ p.out > 0 => p.need_update \/ p.blocked

\* What update() leaves alone.
SameButUpdated(p, q) ==
  /\ q.state = p.state /\ q.blocked = p.blocked /\ q.queue = p.queue /\ q.timer = p.timer
  /\ q.emitted = p.emitted /\ q.in = p.in /\ q.to_net = p.to_net
  /\ q.to_net_encoded = p.to_net_encoded /\ q.layer = p.layer /\ q.signal = p.signal

\* update() starts one operation at most, only when it may, and asks for another
\* where it may not: afterwards no input or output is left without somebody to take it.
LEMMA UpdateDoes ==
  ASSUME NEW p, Settled(p), p.state # "Inactive", NEW wants, NEW q, q = TlsUpdate(p, wants)
  PROVE  /\ Settled(q) /\ SameButUpdated(p, q) /\ Loose(q)
         /\ q.out_pending > p.out_pending => ~p.blocked /\ p.queue = <<>> /\ ~q.need_update
         /\ ~p.blocked /\ p.queue = <<>> /\ p.op = "none" => ~q.need_update
         /\ (p.queue # <<>> => p.timer) => Woken(q)
<1> DEFINE plain == IF p.state = "Handshaking" THEN 0 ELSE p.out
           r     == ContextUpdate(p.c, p.from_net, plain, wants)
           waits == [p EXCEPT !.need_update = TRUE]
           rests == [p EXCEPT !.need_update = FALSE]
           goes  == [p EXCEPT !.need_update = FALSE, !.maybe_input = FALSE, !.op = "Update",
                       !.from_net = <<>>, !.out = @ - plain, !.out_pending = @ + plain, !.c = r]
<1>1. p \in TlsDatas /\ QueueFits(p) /\ OpFits(p) /\ ModeFits(p) /\ BooksFit(p)
  BY DEF Settled
<1>2. /\ p.c \in TlsContexts /\ p.from_net \in Seq(Kinds) /\ p.out \in Nat /\ p.out_pending \in Int
      /\ p.queue \in Seq(Actions) /\ p.state \in States /\ p.op \in {"none", "Start", "Update"}
  BY <1>1 DEF TlsDatas
<1>3. q = IF p.blocked THEN p
          ELSE IF p.queue # <<>> \/ p.op # "none" THEN waits
          ELSE IF p.from_net = <<>> /\ plain = 0 /\ ~p.maybe_input THEN rests ELSE goes
  BY <1>1 DEF TlsUpdate, TlsDatas
<1>4. plain \in Nat /\ p.out - plain \in Nat /\ p.out_pending + plain \in Int
      /\ (p.state = "Connected" => p.out - plain = 0)
  BY <1>2
<1>5. /\ r \in TlsContexts /\ r.posted = p.c.posted + 1
      /\ p.c.mode = "Handshake" => /\ r.result = "Success" => r.mode = "Active"
                                   /\ r.result = "Continue" => r.mode = "Handshake"
      /\ p.c.mode = "Active" => /\ r.mode = "Active"
                                /\ p.c.to_net = <<>> => r.to_net = <<>> \/ r.encoded <= Plain(r.to_net)
  <2> HIDE DEF plain
  <2> QED BY <1>2, <1>4, ContextUpdates
<1>6. waits \in TlsDatas /\ SameButUpdated(p, waits) /\ waits.c = p.c /\ waits.op = p.op
      /\ waits.out_pending = p.out_pending /\ waits.need_update
  BY <1>1 DEF TlsDatas, SameButUpdated
<1>7. rests \in TlsDatas /\ SameButUpdated(p, rests) /\ rests.c = p.c /\ rests.op = p.op
      /\ rests.out_pending = p.out_pending /\ rests.from_net = p.from_net /\ rests.out = p.out
      /\ ~rests.need_update
  BY <1>1 DEF TlsDatas, SameButUpdated
<1>8. goes \in TlsDatas /\ SameButUpdated(p, goes) /\ goes.c = r /\ goes.op = "Update"
      /\ goes.out = p.out - plain /\ goes.from_net = <<>> /\ ~goes.need_update
  <2> HIDE DEF plain, r
  <2> QED BY <1>1, <1>4, <1>5, Empties DEF TlsDatas, SameButUpdated
<1> HIDE DEF waits, rests, goes, r
<1>9. CASE p.blocked
  <2>1. q = p
    BY <1>3, <1>9
  <2>2. ~(p.out_pending > p.out_pending) /\ SameButUpdated(p, p)
    BY <1>2 DEF SameButUpdated
  <2>3. (p.queue # <<>> => p.timer) => Woken(p)
    BY <1>9 DEF Woken
  <2>4. Loose(p)
    BY <1>9 DEF Loose
  <2> QED BY <1>9, <2>4, <2>1, <2>2, <2>3, Zenon
<1>10. CASE ~p.blocked /\ (p.queue # <<>> \/ p.op # "none")
  <2>1. q = waits
    BY <1>3, <1>10
  <2>2. Settled(waits)
    BY <1>1, <1>6 DEF Settled, QueueFits, OpFits, ModeFits, BooksFit, Within, SameButUpdated, MayQueue
  <2>3. (p.queue # <<>> => p.timer) => Woken(waits)
    BY <1>6, <1>10 DEF Woken, SameButUpdated
  <2>4. Loose(waits)
    BY <1>6 DEF Loose
  <2> QED BY <2>4, <1>2, <1>6, <1>10, <2>1, <2>2, <2>3
<1>11. CASE ~p.blocked /\ p.queue = <<>> /\ p.op = "none" /\ p.from_net = <<>> /\ plain = 0 /\ ~p.maybe_input
  <2>1. q = rests
    BY <1>3, <1>11
  <2>2. Settled(rests)
    BY <1>1, <1>7 DEF Settled, QueueFits, OpFits, ModeFits, BooksFit, Within, SameButUpdated, MayQueue
  <2>3. Woken(rests)
    BY <1>4, <1>7, <1>11 DEF Woken, SameButUpdated
  <2>4. Loose(rests)
    BY <2>3, <1>7 DEF Loose, Woken
  <2> QED BY <2>4, <1>2, <1>7, <2>1, <2>2, <2>3
<1>12. CASE ~p.blocked /\ p.queue = <<>> /\ p.op = "none" /\ ~(p.from_net = <<>> /\ plain = 0 /\ ~p.maybe_input)
  <2>1. q = goes
    BY <1>3, <1>12
  <2>2. p.state \in {"Handshaking", "Connected", "Closing"} /\ p.c.posted = 0
    BY <1>1, <1>2, <1>12 DEF OpFits, States
  <2>3. QueueFits(goes)
    BY <1>1, <1>8 DEF QueueFits, SameButUpdated, MayQueue
  <2>4. OpFits(goes)
    BY <1>5, <1>8, <1>12, <2>2 DEF OpFits, SameButUpdated
  <2>5. ModeFits(goes)
    BY <1>1, <1>5, <1>8, <1>12, <2>2, NoneQueued DEF ModeFits, SameButUpdated
  <2>6. BooksFit(goes)
    BY <1>1, <1>5, <1>8, <1>12, <2>2, NoneQueued DEF BooksFit, Within, ModeFits, SameButUpdated
  <2>7. Woken(goes)
    BY <1>4, <1>8, <1>12 DEF Woken, SameButUpdated
  <2>8. Loose(goes)
    BY <2>7 DEF Loose, Woken
  <2> QED BY <2>8, <1>8, <1>12, <2>1, <2>3, <2>4, <2>5, <2>6, <2>7 DEF Settled
<1> QED BY <1>9, <1>10, <1>11, <1>12

----------------------------------------------------------------------------
(* TLS::Private: reset(), and the actions of processNextAction().            *)

\* The queue without its first action.
LEMMA QueueTails ==
  ASSUME NEW q \in Seq(Actions), q # <<>>, InOrder(q)
  PROVE  /\ Head(q) \in Actions /\ Tail(q) \in Seq(Actions) /\ InOrder(Tail(q))
         /\ ToSet(q) = {Head(q)} \cup ToSet(Tail(q)) /\ Head(q) \notin ToSet(Tail(q))
         /\ Head(q) \in {"Handshaken", "Close"} => Tail(q) = <<>>
         /\ Tail(q) # <<>> => Len(q) > 1
<1>1. /\ Len(q) \in Nat /\ Len(q) > 0 /\ Head(q) = q[1] /\ Head(q) \in Actions
      /\ Tail(q) \in Seq(Actions) /\ Len(Tail(q)) = Len(q) - 1
      /\ \A i \in 1 .. Len(q) - 1 : Tail(q)[i] = q[i + 1]
  OBVIOUS
<1>2. (Tail(q) # <<>> => Len(q) > 1) /\ (Len(q) = 1 => Tail(q) = <<>>)
  <2>1. Len(Tail(q)) = 0 => Tail(q) = <<>>
    BY <1>1, EmptySeq
  <2> QED BY <1>1, <2>1
<1> DEFINE n == Len(q)
           t == Tail(q)
<1>3. ToSet(q) = {q[i] : i \in 1 .. n} /\ ToSet(t) = {t[i] : i \in 1 .. n - 1}
  <2>1. DOMAIN q = 1 .. n /\ DOMAIN t = 1 .. Len(t) /\ Len(t) = n - 1
    BY <1>1
  <2> HIDE DEF n, t
  <2> QED BY <2>1 DEF ToSet
<1>4. /\ n \in Nat /\ n > 0 /\ \A i \in 1 .. n - 1 : t[i] = q[i + 1]
  BY <1>1
<1>5. Head(q) \in {"Handshaken", "Close"} => Tail(q) = <<>>
  <2>1. 1 \in 1 .. Len(q)
    BY <1>1
  <2> QED BY <1>1, <1>2, <2>1 DEF InOrder
<1>6. InOrder(t)
  <2>1. \A i, j \in 1 .. n - 1 : i < j => t[i] # t[j]
    <3> SUFFICES ASSUME NEW i \in 1 .. n - 1, NEW j \in 1 .. n - 1, i < j PROVE t[i] # t[j]
      OBVIOUS
    <3>1. i + 1 \in 1 .. n /\ j + 1 \in 1 .. n /\ i + 1 < j + 1
      BY <1>4
    <3> QED BY <1>4, <3>1 DEF InOrder
  <2>2. \A i \in 1 .. n - 1 : t[i] \in {"Handshaken", "Close"} => i = n - 1
    <3> SUFFICES ASSUME NEW i \in 1 .. n - 1, t[i] \in {"Handshaken", "Close"} PROVE i = n - 1
      OBVIOUS
    <3>1. i + 1 \in 1 .. n /\ t[i] = q[i + 1]
      BY <1>4
    <3>2. i + 1 = n
      BY <3>1 DEF InOrder
    <3> QED BY <1>4, <3>2
  <2> QED BY <1>1, <2>1, <2>2 DEF InOrder
<1>7. Head(q) \notin ToSet(t)
  <2> SUFFICES ASSUME NEW i \in 1 .. n - 1, t[i] = q[1] PROVE FALSE
    BY <1>1, <1>3
  <2>1. i + 1 \in 1 .. n /\ 1 \in 1 .. n /\ 1 < i + 1 /\ t[i] = q[i + 1]
    BY <1>4
  <2> QED BY <2>1 DEF InOrder
<1>8. ToSet(q) = {Head(q)} \cup ToSet(t)
  <2>1. ASSUME NEW x \in ToSet(q) PROVE x \in {Head(q)} \cup ToSet(t)
    <3>1. PICK i \in 1 .. n : x = q[i]
      BY <1>3
    <3>2. CASE i = 1
      BY <1>1, <3>1, <3>2
    <3>3. CASE i # 1
      <4>1. i - 1 \in 1 .. n - 1 /\ (i - 1) + 1 = i
        BY <3>3
      <4>2. t[i - 1] = x
        BY <1>4, <3>1, <4>1
      <4> QED BY <1>3, <4>1, <4>2
    <3> QED BY <3>2, <3>3
  <2>2. ASSUME NEW x \in ToSet(t) PROVE x \in ToSet(q)
    <3>1. PICK i \in 1 .. n - 1 : x = t[i]
      BY <1>3, <2>2
    <3>2. i + 1 \in 1 .. n /\ x = q[i + 1]
      BY <1>4, <3>1
    <3> QED BY <1>3, <3>2
  <2>3. q[1] \in ToSet(q)
    <3>1. 1 \in 1 .. n
      BY <1>4
    <3> QED BY <1>3, <3>1
  <2> QED BY <1>1, <2>1, <2>2, <2>3
<1> QED BY <1>1, <1>2, <1>5, <1>6, <1>7, <1>8

\* The session that has ended.
Ended(p, left, s) == [ResetSession(p) EXCEPT !.unprocessed = left, !.signal = s]

\* reset() of the session leaves what was read or is to be sent, and nothing else.
LEMMA ResetDoes ==
  ASSUME NEW p, p \in TlsDatas, p.c.posted = 0, Within(p),
         NEW s \in TlsSignals, NEW left \in Seq(Kinds),
         NEW q, q = Ended(p, left, s)
  PROVE  /\ Settled(q) /\ Woken(q)
         /\ q.state = "Inactive" /\ q.queue = <<>> /\ ~q.blocked /\ q.signal = s
         /\ q.in = p.in /\ q.to_net = p.to_net /\ q.layer = p.layer
<1> DEFINE c == ContextReset(p.c)
           x == [p EXCEPT !.state = "Inactive", !.blocked = FALSE, !.server = FALSE, !.op = "none",
                   !.queue = <<>>, !.timer = FALSE, !.need_update = FALSE, !.maybe_input = FALSE,
                   !.emitted = {}, !.out = 0, !.out_pending = 0, !.c = c,
                   !.unprocessed = left, !.signal = s]
<1>1. p.c \in TlsContexts
  BY DEF TlsDatas
<1>2. c \in TlsContexts /\ c.posted = 0
  BY <1>1, ContextResets
<1>3. q = x
  BY DEF Ended, ResetSession, TlsDatas
<1>4. /\ x \in TlsDatas /\ x.state = "Inactive" /\ x.blocked = FALSE /\ x.op = "none"
      /\ x.queue = <<>> /\ x.need_update = FALSE /\ x.emitted = {} /\ x.c = c
      /\ x.unprocessed = left /\ x.signal = s
      /\ x.in = p.in /\ x.to_net = p.to_net /\ x.to_net_encoded = p.to_net_encoded
      /\ x.layer = p.layer
  <2> HIDE DEF c
  <2>1. "Inactive" \in States
    BY DEF States
  <2>2. 0 \in Int
    OBVIOUS
  <2>a. x \in TlsDatas
    BY <1>2, <2>1, <2>2, Empties DEF TlsDatas
  <2>3. /\ x.state = "Inactive" /\ x.blocked = FALSE /\ x.op = "none" /\ x.queue = <<>>
        /\ x.need_update = FALSE /\ x.emitted = {} /\ x.c = c
    BY DEF TlsDatas
  <2>4. /\ x.unprocessed = left /\ x.signal = s /\ x.in = p.in /\ x.to_net = p.to_net
        /\ x.to_net_encoded = p.to_net_encoded /\ x.layer = p.layer
    BY DEF TlsDatas
  <2> QED BY <2>a, <2>3, <2>4
<1> HIDE DEF x, c
<1>5. InOrder(<<>>)
  BY DEF InOrder
<1>6. QueueFits(x)
  BY <1>4, <1>5, NoneQueued DEF QueueFits
<1>7. OpFits(x)
  BY <1>2, <1>4 DEF OpFits
<1>8. ModeFits(x) /\ BooksFit(x)
  BY <1>4, NoneQueued DEF ModeFits, BooksFit, Within
<1>9. Woken(x)
  BY <1>4 DEF Woken
<1> QED BY <1>3, <1>4, <1>6, <1>7, <1>8, <1>9 DEF Settled

\* What a call that begins in p ends in.
Leaves(p, q, a) ==
  /\ Settled(q) /\ Woken(q) /\ Known(q, a) /\ q.layer = p.layer
  /\ q.out_pending > p.out_pending =>
       q.signal \in {"closed", "error"} \/ (~p.blocked /\ q.signal \notin TlsSteps)

\* What an action finds: the queue without it, and the timer running for the rest.
TakenFrom(p, t) ==
  /\ t \in TlsDatas /\ t.queue = Tail(p.queue)
  /\ t.queue # <<>> \/ p.need_update => t.timer
  /\ t.state = p.state /\ t.blocked = p.blocked /\ t.op = p.op /\ t.need_update = p.need_update
  /\ t.emitted = p.emitted /\ t.out = p.out /\ t.out_pending = p.out_pending
  /\ t.from_net = p.from_net /\ t.in = p.in /\ t.to_net = p.to_net
  /\ t.to_net_encoded = p.to_net_encoded /\ t.layer = p.layer /\ t.c = p.c /\ t.signal = p.signal

\* Taking an action starts the timer for those behind it.
LEMMA ActionTaken ==
  ASSUME NEW p, p \in TlsDatas, InOrder(p.queue), p.queue # <<>>
  PROVE  TakenFrom(p, [p EXCEPT !.queue = Tail(@), !.timer = @ \/ Len(p.queue) > 1 \/ p.need_update])
<1> DEFINE t == [p EXCEPT !.queue = Tail(p.queue), !.timer = p.timer \/ Len(p.queue) > 1 \/ p.need_update]
<1>1. Tail(p.queue) \in Seq(Actions) /\ (Tail(p.queue) # <<>> => Len(p.queue) > 1)
  <2>1. p.queue \in Seq(Actions)
    BY DEF TlsDatas
  <2> QED BY <2>1, QueueTails
<1>2. [p EXCEPT !.queue = Tail(@), !.timer = @ \/ Len(p.queue) > 1 \/ p.need_update] = t
  BY DEF TlsDatas
<1> DEFINE tail == Tail(p.queue)
           more == Len(p.queue) > 1
<1>3. tail \in Seq(Actions) /\ more \in BOOLEAN /\ (tail # <<>> => more)
  BY <1>1
<1>4. t = [p EXCEPT !.queue = tail, !.timer = p.timer \/ more \/ p.need_update]
  OBVIOUS
<1> HIDE DEF t, more
<1> DEFINE x == [p EXCEPT !.queue = tail, !.timer = p.timer \/ more \/ p.need_update]
<1>5. TakenFrom(p, x)
  <2>1. x.queue = Tail(p.queue)
    BY DEF TlsDatas
  <2> HIDE DEF tail
  <2>2. x \in TlsDatas
    BY <1>3 DEF TlsDatas
  <2>3. x.queue = tail /\ x.timer = (p.timer \/ more \/ p.need_update)
    BY DEF TlsDatas
  <2>4. /\ x.state = p.state /\ x.blocked = p.blocked /\ x.op = p.op /\ x.need_update = p.need_update
        /\ x.emitted = p.emitted /\ x.out = p.out /\ x.out_pending = p.out_pending
        /\ x.from_net = p.from_net /\ x.in = p.in /\ x.to_net = p.to_net
        /\ x.to_net_encoded = p.to_net_encoded /\ x.layer = p.layer /\ x.c = p.c /\ x.signal = p.signal
    BY DEF TlsDatas
  <2>5. x.queue # <<>> \/ p.need_update => x.timer
    BY <1>3, <2>3
  <2> HIDE DEF x
  <2> QED BY <2>1, <2>2, <2>4, <2>5 DEF TakenFrom
<1> QED BY <1>2, <1>4, <1>5

\* The first of the queued actions and what it finds.
HeadOf(p, a, t, h) ==
  /\ Settled(p) /\ Loose(p) /\ Known(p, a) /\ a \in Apps /\ p.signal = "none" /\ p.queue # <<>>
  /\ TakenFrom(p, t) /\ h = Head(p.queue)

\* The action that is taken is one of the state, and no step that was emitted.
LEMMA HeadIs ==
  ASSUME NEW p, NEW a, NEW t, NEW h, HeadOf(p, a, t, h)
  PROVE  /\ h \in MayQueue(p) \ p.emitted /\ ToSet(t.queue) \subseteq MayQueue(p) \ (p.emitted \cup {h})
         /\ InOrder(t.queue) /\ (h \in {"Handshaken", "Close"} => t.queue = <<>>)
         /\ ToSet(p.queue) = ToSet(t.queue) \cup {h}
         /\ p.op = "none" /\ p.c.posted = 0 /\ p.state \in {"Handshaking", "Connected", "Closing"}
         /\ t \in TlsDatas /\ Within(t) /\ Loose(t)
<1>1. p \in TlsDatas /\ QueueFits(p) /\ OpFits(p) /\ BooksFit(p) /\ p.queue # <<>> /\ Loose(p)
  BY DEF HeadOf, Settled
<1>2. p.queue \in Seq(Actions) /\ InOrder(p.queue) /\ ToSet(p.queue) \subseteq MayQueue(p) \ p.emitted
  BY <1>1 DEF TlsDatas, QueueFits
<1>3. /\ t.queue = Tail(p.queue) /\ h = Head(p.queue) /\ t \in TlsDatas
      /\ t.to_net_encoded = p.to_net_encoded /\ t.to_net = p.to_net
  BY DEF HeadOf, TakenFrom
<1>4. /\ InOrder(t.queue) /\ ToSet(p.queue) = ToSet(t.queue) \cup {h} /\ h \notin ToSet(t.queue)
      /\ h \in {"Handshaken", "Close"} => t.queue = <<>>
  BY <1>1, <1>2, <1>3, QueueTails
<1>5. h \in MayQueue(p)
  BY <1>2, <1>4
<1>6. p.op = "none" /\ p.c.posted = 0
  BY <1>1 DEF OpFits
<1>7. p.state \in {"Handshaking", "Connected", "Closing"}
  BY <1>5 DEF MayQueue
<1>8. Loose(t)
  BY <1>1 DEF Loose, HeadOf, TakenFrom
<1> QED BY <1>1, <1>2, <1>3, <1>4, <1>5, <1>6, <1>7, <1>8 DEF BooksFit, Within

\* readyRead() and readyReadOutgoing().
LEMMA SignalLeaves ==
  ASSUME NEW p, NEW a, NEW t, NEW h, HeadOf(p, a, t, h), h \in {"readyRead", "readyReadOutgoing"},
         NEW q, q = [t EXCEPT !.signal = h]
  PROVE  Leaves(p, q, a)
<1> DEFINE x == [t EXCEPT !.signal = h]
<1>1. /\ h \in MayQueue(p) \ p.emitted /\ ToSet(t.queue) \subseteq MayQueue(p) \ (p.emitted \cup {h})
      /\ InOrder(t.queue) /\ ToSet(p.queue) = ToSet(t.queue) \cup {h}
      /\ p.op = "none" /\ p.c.posted = 0 /\ p.state \in {"Handshaking", "Connected", "Closing"}
      /\ t \in TlsDatas /\ Within(t) /\ Loose(t)
  BY HeadIs
<1>2. /\ Settled(p) /\ TakenFrom(p, t) /\ Known(p, a) /\ p.signal = "none"
  BY DEF HeadOf
<1>3. x \in TlsDatas
  BY <1>1 DEF TlsDatas, TlsSignals
<1>4. /\ x.state = t.state /\ x.blocked = t.blocked /\ x.op = t.op /\ x.need_update = t.need_update
      /\ x.emitted = t.emitted /\ x.out = t.out /\ x.out_pending = t.out_pending
      /\ x.from_net = t.from_net /\ x.in = t.in /\ x.to_net = t.to_net /\ x.queue = t.queue
      /\ x.to_net_encoded = t.to_net_encoded /\ x.layer = t.layer /\ x.c = t.c /\ x.timer = t.timer
      /\ x.signal = h
  BY <1>1 DEF TlsDatas
<1> HIDE DEF x
<1>5. QueueFits(x)
  BY <1>1, <1>2, <1>4 DEF QueueFits, TakenFrom, MayQueue
<1>6. OpFits(x)
  BY <1>1, <1>2, <1>4 DEF Settled, OpFits, TakenFrom
<1>7. ModeFits(x)
  BY <1>1, <1>2, <1>4 DEF Settled, ModeFits, TakenFrom
<1>8. BooksFit(x)
  BY <1>1, <1>2, <1>4 DEF Settled, BooksFit, Within, TakenFrom
<1>9. Woken(x)
  BY <1>1, <1>2, <1>4 DEF Woken, Loose, TakenFrom
<1>10. Known(x, a)
  BY <1>1, <1>2, <1>4 DEF Known, TakenFrom, TlsSteps
<1>11. ~(x.out_pending > p.out_pending) /\ x.layer = p.layer
  <2>1. p.out_pending \in Int
    BY <1>2 DEF Settled, TlsDatas
  <2> QED BY <1>2, <1>4, <2>1 DEF TakenFrom
<1>12. q = x
  BY DEF x
<1> QED BY <1>3, <1>5, <1>6, <1>7, <1>8, <1>9, <1>10, <1>11, <1>12, Zenon DEF Leaves, Settled

\* A step of the handshake: somebody is to answer it, or it is passed over.
LEMMA StepLeaves ==
  ASSUME NEW p, NEW a, NEW t, NEW h, HeadOf(p, a, t, h), h \in TlsSteps \ {"handshaken"},
         NEW q, q = EmitStep(t, h)
  PROVE  Leaves(p, q, a)
<1>1. /\ h \in MayQueue(p) \ p.emitted /\ ToSet(t.queue) \subseteq MayQueue(p) \ (p.emitted \cup {h})
      /\ InOrder(t.queue) /\ ToSet(p.queue) = ToSet(t.queue) \cup {h}
      /\ p.op = "none" /\ p.c.posted = 0 /\ p.state \in {"Handshaking", "Connected", "Closing"}
      /\ t \in TlsDatas /\ Within(t) /\ Loose(t)
  BY HeadIs
<1>2. /\ Settled(p) /\ TakenFrom(p, t) /\ Known(p, a) /\ p.signal = "none" /\ a \in Apps
  BY DEF HeadOf
<1>3. p.state = "Handshaking" /\ h \notin {"Handshaken", "Close", "readyRead", "readyReadOutgoing"}
  BY <1>1 DEF MayQueue, TlsSteps
<1>4. p.out_pending \in Int
  BY <1>2 DEF Settled, TlsDatas
<1>5. CASE h \in Listens
  <2> DEFINE e == t.emitted \cup {h}
             x == [t EXCEPT !.blocked = TRUE, !.signal = h, !.emitted = e]
  <2>1. q = x
    BY <1>1, <1>5 DEF EmitStep, TlsDatas
  <2>2. e \in SUBSET TlsSteps /\ h \in TlsSignals
    BY <1>1 DEF TlsDatas, TlsSignals
  <2>3. e = p.emitted \cup {h}
    BY <1>2 DEF TakenFrom
  <2> HIDE DEF e
  <2>4. x \in TlsDatas
    BY <1>1, <2>2 DEF TlsDatas
  <2>5. /\ x.state = t.state /\ x.blocked = TRUE /\ x.op = t.op /\ x.need_update = t.need_update
        /\ x.emitted = e /\ x.out = t.out /\ x.out_pending = t.out_pending
        /\ x.from_net = t.from_net /\ x.in = t.in /\ x.to_net = t.to_net /\ x.queue = t.queue
        /\ x.to_net_encoded = t.to_net_encoded /\ x.layer = t.layer /\ x.c = t.c /\ x.timer = t.timer
        /\ x.signal = h
    BY <1>1 DEF TlsDatas
  <2> HIDE DEF x
  <2>6. QueueFits(x)
    BY <1>1, <1>2, <2>3, <2>5 DEF QueueFits, TakenFrom, MayQueue
  <2>7. OpFits(x)
    BY <1>1, <1>2, <1>3, <2>5 DEF Settled, OpFits, TakenFrom
  <2>8. ModeFits(x)
    BY <1>1, <1>2, <1>3, <2>5 DEF Settled, ModeFits, TakenFrom
  <2>9. BooksFit(x)
    BY <1>1, <1>2, <1>3, <2>5 DEF Settled, BooksFit, Within, TakenFrom
  <2>10. Woken(x)
    BY <1>2, <2>5 DEF Woken, TakenFrom
  <2>11. Known(x, a)
    BY <1>1, <1>2, <1>3, <1>5, <2>3, <2>5 DEF Known, TakenFrom
  <2>12. ~(x.out_pending > p.out_pending) /\ x.layer = p.layer
    BY <1>2, <1>4, <2>5 DEF TakenFrom
  <2> QED BY <2>1, <2>4, <2>6, <2>7, <2>8, <2>9, <2>10, <2>11, <2>12, Zenon DEF Leaves, Settled
<1>6. CASE h \notin Listens
  <2>1. q = t
    BY <1>6 DEF EmitStep
  <2>6. QueueFits(t)
    BY <1>1, <1>2 DEF QueueFits, TakenFrom, MayQueue
  <2>7. OpFits(t)
    BY <1>1, <1>2, <1>3 DEF Settled, OpFits, TakenFrom
  <2>8. ModeFits(t)
    BY <1>1, <1>2, <1>3 DEF Settled, ModeFits, TakenFrom
  <2>9. BooksFit(t)
    BY <1>1, <1>2, <1>3 DEF Settled, BooksFit, Within, TakenFrom
  <2>10. Woken(t)
    BY <1>1, <1>2 DEF Woken, Loose, TakenFrom
  <2>11. Known(t, a)
    BY <1>1, <1>2, <1>3 DEF Known, TakenFrom
  <2>12. ~(t.out_pending > p.out_pending) /\ t.layer = p.layer
    BY <1>2, <1>4 DEF TakenFrom
  <2> QED BY <1>1, <2>1, <2>6, <2>7, <2>8, <2>9, <2>10, <2>11, <2>12, Zenon DEF Leaves, Settled
<1> QED BY <1>5, <1>6

\* The end of the handshake.
LEMMA HandshakenLeaves ==
  ASSUME NEW p, NEW a, NEW t, HeadOf(p, a, t, "Handshaken"),
         NEW q, q = EmitStep([t EXCEPT !.state = "Connected", !.need_update = @ \/ t.out > 0,
                                       !.timer = @ \/ t.out > 0], "handshaken")
  PROVE  Leaves(p, q, a)
<1> DEFINE h == "Handshaken"
           some == t.out > 0
           u == [t EXCEPT !.state = "Connected", !.need_update = t.need_update \/ some,
                          !.timer = t.timer \/ some]
<1>1. /\ h \in MayQueue(p) \ p.emitted /\ t.queue = <<>>
      /\ InOrder(t.queue) /\ ToSet(p.queue) = ToSet(t.queue) \cup {h}
      /\ p.op = "none" /\ p.c.posted = 0 /\ p.state \in {"Handshaking", "Connected", "Closing"}
      /\ t \in TlsDatas /\ Within(t) /\ Loose(t)
  BY HeadIs
<1>2. /\ Settled(p) /\ TakenFrom(p, t) /\ Known(p, a) /\ p.signal = "none" /\ a \in Apps
  BY DEF HeadOf
<1>3. p.state = "Handshaking" /\ ToSet(t.queue) = {} /\ ToSet(p.queue) = {"Handshaken"}
  BY <1>1, NoneQueued DEF MayQueue
<1>4. p.out_pending \in Int
  BY <1>2 DEF Settled, TlsDatas
<1>a. /\ p.c.mode = "Active" /\ p.c.to_net = <<>> /\ "handshaken" \notin a.steps
      /\ "Connected" \in States /\ "handshaken" \in TlsSignals /\ "handshaken" \in TlsSteps
  BY <1>1, <1>2, <1>3 DEF Settled, ModeFits, BooksFit, Within, Known, States, TlsSignals, TlsSteps
<1>5. q = EmitStep(u, "handshaken") /\ some \in BOOLEAN
  <2>1. [t EXCEPT !.state = "Connected", !.need_update = @ \/ t.out > 0, !.timer = @ \/ t.out > 0] = u
    BY <1>1 DEF TlsDatas
  <2> QED BY <2>1
<1> HIDE DEF some
<1>6. /\ u \in TlsDatas
      /\ u.state = "Connected" /\ u.blocked = t.blocked /\ u.op = t.op
      /\ u.need_update = (t.need_update \/ some) /\ u.timer = (t.timer \/ some)
      /\ u.emitted = t.emitted /\ u.out = t.out /\ u.out_pending = t.out_pending
      /\ u.from_net = t.from_net /\ u.in = t.in /\ u.to_net = t.to_net /\ u.queue = t.queue
      /\ u.to_net_encoded = t.to_net_encoded /\ u.layer = t.layer /\ u.c = t.c
      /\ u.signal = t.signal
  <2>1. u \in TlsDatas
    BY <1>1, <1>a, <1>5 DEF TlsDatas
  <2>2. u.need_update = (t.need_update \/ some)
    BY <1>1 DEF TlsDatas
  <2>3. u.timer = (t.timer \/ some)
    BY <1>1 DEF TlsDatas
  <2>4. /\ u.state = "Connected" /\ u.blocked = t.blocked /\ u.op = t.op
        /\ u.emitted = t.emitted /\ u.out = t.out /\ u.out_pending = t.out_pending
        /\ u.from_net = t.from_net /\ u.in = t.in /\ u.to_net = t.to_net /\ u.queue = t.queue
    BY <1>1 DEF TlsDatas
  <2>5. /\ u.to_net_encoded = t.to_net_encoded /\ u.layer = t.layer /\ u.c = t.c
        /\ u.signal = t.signal
    BY <1>1 DEF TlsDatas
  <2> HIDE DEF u
  <2> QED BY <2>1, <2>2, <2>3, <2>4, <2>5
<1> DEFINE x == [u EXCEPT !.blocked = TRUE, !.signal = "handshaken"]
<1> HIDE DEF u
<1>7. /\ x \in TlsDatas
      /\ x.state = "Connected" /\ x.blocked = TRUE /\ x.op = t.op
      /\ x.need_update = (t.need_update \/ some) /\ x.timer = (t.timer \/ some)
      /\ x.emitted = t.emitted /\ x.out = t.out /\ x.out_pending = t.out_pending
      /\ x.from_net = t.from_net /\ x.in = t.in /\ x.to_net = t.to_net /\ x.queue = t.queue
      /\ x.to_net_encoded = t.to_net_encoded /\ x.layer = t.layer /\ x.c = t.c
      /\ x.signal = "handshaken"
  BY <1>6, <1>a DEF TlsDatas
<1>8. q = IF "handshaken" \in Listens THEN x ELSE u
  <2> DEFINE y == [u EXCEPT !.blocked = TRUE, !.signal = "handshaken", !.emitted = u.emitted]
  <2>1. y = x
    BY <1>6 DEF TlsDatas
  <2>2. EmitStep(u, "handshaken") = IF "handshaken" \in Listens THEN y ELSE u
    BY <1>6 DEF EmitStep, TlsDatas
  <2> HIDE DEF x, y
  <2> QED BY <1>5, <2>1, <2>2
<1> HIDE DEF x
<1>9. CASE "handshaken" \in Listens
  <2>6. QueueFits(x)
    BY <1>1, <1>3, <1>7 DEF QueueFits
  <2>7. OpFits(x)
    BY <1>1, <1>2, <1>7 DEF OpFits, TakenFrom
  <2>8. ModeFits(x)
    BY <1>a, <1>2, <1>7 DEF ModeFits, TakenFrom
  <2>9. BooksFit(x)
    BY <1>1, <1>a, <1>2, <1>7 DEF BooksFit, Within, TakenFrom
  <2>10. Woken(x)
    BY <1>1, <1>7 DEF Woken
  <2>11. Known(x, a)
    BY <1>2, <1>3, <1>7, <1>a, <1>9 DEF Known, TakenFrom
  <2>12. ~(x.out_pending > p.out_pending) /\ x.layer = p.layer
    BY <1>2, <1>4, <1>7 DEF TakenFrom
  <2> QED BY <1>7, <1>8, <1>9, <2>6, <2>7, <2>8, <2>9, <2>10, <2>11, <2>12, Zenon DEF Leaves, Settled
<1>10. CASE "handshaken" \notin Listens
  <2>6. QueueFits(u)
    BY <1>1, <1>3, <1>6 DEF QueueFits
  <2>7. OpFits(u)
    BY <1>1, <1>2, <1>6 DEF OpFits, TakenFrom
  <2>8. ModeFits(u)
    BY <1>a, <1>2, <1>6 DEF ModeFits, TakenFrom
  <2>9. BooksFit(u)
    BY <1>1, <1>a, <1>2, <1>6 DEF BooksFit, Within, TakenFrom
  <2>10. Woken(u)
    <3>1. u.out > 0 => some
      BY <1>6 DEF some
    <3>2. p.need_update => t.timer
      BY <1>2 DEF TakenFrom
    <3> QED BY <1>1, <1>2, <1>3, <1>6, <3>1, <3>2 DEF Woken, Loose, TakenFrom
  <2>11. Known(u, a)
    BY <1>2, <1>3, <1>6, <1>a DEF Known, TakenFrom, TlsSteps
  <2>12. ~(u.out_pending > p.out_pending) /\ u.layer = p.layer
    BY <1>2, <1>4, <1>6 DEF TakenFrom
  <2> QED BY <1>6, <1>8, <1>10, <2>6, <2>7, <2>8, <2>9, <2>10, <2>11, <2>12, Zenon DEF Leaves, Settled
<1> QED BY <1>9, <1>10

\* The end of the session.
LEMMA CloseLeaves ==
  ASSUME NEW p, NEW a, NEW t, HeadOf(p, a, t, "Close"),
         NEW q, q = Ended(t, t.c.rbio, "closed")
  PROVE  Leaves(p, q, a)
<1>1. /\ t.queue = <<>> /\ ToSet(p.queue) = ToSet(t.queue) \cup {"Close"}
      /\ p.c.posted = 0 /\ t \in TlsDatas /\ Within(t)
  BY HeadIs
<1>2. /\ Settled(p) /\ TakenFrom(p, t) /\ Known(p, a) /\ p.signal = "none" /\ a \in Apps
  BY DEF HeadOf
<1>3. t.c.posted = 0 /\ t.c.rbio \in Seq(Kinds) /\ "closed" \in TlsSignals /\ "closed" \notin TlsSteps
  <2>1. t.c = p.c /\ t.c \in TlsContexts
    BY <1>1, <1>2 DEF TakenFrom, TlsDatas
  <2> QED BY <1>1, <2>1 DEF TlsContexts, TlsSignals, TlsSteps
<1>4. /\ Settled(q) /\ Woken(q)
      /\ q.state = "Inactive" /\ q.queue = <<>> /\ ~q.blocked /\ q.signal = "closed"
      /\ q.in = t.in /\ q.to_net = t.to_net /\ q.layer = t.layer
  <2>1. PICK left \in Seq(Kinds) : left = t.c.rbio
    BY <1>3
  <2>2. q = Ended(t, left, "closed")
    BY <2>1
  <2>3. t \in TlsDatas /\ t.c.posted = 0 /\ Within(t) /\ "closed" \in TlsSignals
    BY <1>1, <1>3
  <2> QED BY <2>1, <2>2, <2>3, ResetDoes
<1>5. ToSet(p.queue) = {"Close"}
  BY <1>1, NoneQueued
<1>6. Known(q, a)
  BY <1>2, <1>3, <1>4, <1>5 DEF Known, TakenFrom
<1>7. q.layer = p.layer
  BY <1>2, <1>4 DEF TakenFrom
<1> QED BY <1>4, <1>6, <1>7 DEF Leaves

\* Whatever the action is.
LEMMA ActionLeaves ==
  ASSUME NEW p, NEW a, NEW t, NEW h, HeadOf(p, a, t, h), NEW q, q = DoAction(t, h)
  PROVE  Leaves(p, q, a)
<1>0. t \in TlsDatas
  BY HeadIs
<1>1. h \in MayQueue(p) /\ p.state \in {"Handshaking", "Connected", "Closing"}
  BY HeadIs
<1>2. h \in {"Handshaken", "Close", "readyRead", "readyReadOutgoing"} \cup (TlsSteps \ {"handshaken"})
  BY <1>1 DEF MayQueue, TlsSteps
<1>3. {"Handshaken", "Close", "readyRead", "readyReadOutgoing"} \cap TlsSteps = {}
  BY DEF TlsSteps
<1>4. CASE h = "Handshaken"
  <2>1. q = EmitStep([t EXCEPT !.state = "Connected", !.need_update = @ \/ t.out > 0,
                               !.timer = @ \/ t.out > 0], "handshaken")
    BY <1>0, <1>3, <1>4 DEF DoAction, TlsDatas
  <2>2. HeadOf(p, a, t, "Handshaken")
    BY <1>4
  <2> QED BY <2>1, <2>2, HandshakenLeaves
<1>5. CASE h = "Close"
  <2>1. q = Ended(t, t.c.rbio, "closed")
    BY <1>3, <1>5 DEF DoAction, Ended
  <2>2. HeadOf(p, a, t, "Close")
    BY <1>5
  <2> QED BY <2>1, <2>2, CloseLeaves
<1>6. CASE h \in TlsSteps \ {"handshaken"}
  <2>1. q = EmitStep(t, h)
    BY <1>3, <1>6 DEF DoAction
  <2> QED BY <1>6, <2>1, StepLeaves
<1>7. CASE h \in {"readyRead", "readyReadOutgoing"}
  <2>1. q = [t EXCEPT !.signal = h]
    BY <1>3, <1>7 DEF DoAction
  <2> QED BY <1>7, <2>1, SignalLeaves
<1> QED BY <1>2, <1>4, <1>5, <1>6, <1>7

\* processNextAction(), whatever calls it.
LEMMA NextLeaves ==
  ASSUME NEW p, NEW a \in Apps, Settled(p), Loose(p), Known(p, a), p.signal = "none",
         NEW wants, NEW q, q = ProcessNextAction(p, wants)
  PROVE  Leaves(p, q, a)
<1>1. p \in TlsDatas /\ p.out_pending \in Int /\ OpFits(p) /\ QueueFits(p)
  BY DEF Settled, TlsDatas
<1>2. CASE p.queue = <<>> /\ ~p.need_update
  <2>1. q = p
    BY <1>2 DEF ProcessNextAction
  <2>2. Woken(p)
    BY <1>2 DEF Woken, Loose
  <2>3. ~(p.out_pending > p.out_pending)
    BY <1>1
  <2> QED BY <2>1, <2>2, <2>3, Zenon DEF Leaves
<1>3. CASE p.queue = <<>> /\ p.need_update
  <2>1. q = TlsUpdate(p, wants) /\ p.state # "Inactive"
    BY <1>1, <1>3 DEF ProcessNextAction, OpFits
  <2>2. /\ Settled(q) /\ SameButUpdated(p, q)
        /\ q.out_pending > p.out_pending => ~p.blocked /\ p.queue = <<>> /\ ~q.need_update
        /\ Woken(q)
    BY <1>3, <2>1, UpdateDoes
  <2>3. Known(q, a)
    BY <2>2 DEF Known, SameButUpdated
  <2>4. q.layer = p.layer /\ q.signal \notin TlsSteps
    BY <2>2 DEF SameButUpdated, TlsSteps
  <2> QED BY <2>2, <2>3, <2>4 DEF Leaves
<1>4. CASE p.queue # <<>>
  <2> DEFINE t == [p EXCEPT !.queue = Tail(@), !.timer = @ \/ Len(p.queue) > 1 \/ p.need_update]
             h == Head(p.queue)
  <2>1. q = DoAction(t, h)
    BY <1>4 DEF ProcessNextAction
  <2>2. TakenFrom(p, t)
    BY <1>1, <1>4, ActionTaken DEF QueueFits
  <2> HIDE DEF t
  <2>3. HeadOf(p, a, t, h)
    BY <1>4, <2>2 DEF HeadOf
  <2> HIDE DEF h
  <2> QED BY <2>1, <2>3, ActionLeaves
<1> QED BY <1>2, <1>3, <1>4

----------------------------------------------------------------------------
(* tls_resultsReady(): the queue it fills.                                   *)

\* A queue of the members of s that is ready for one more.
Filled(q, s) == q \in Seq(Actions) /\ InOrder(q) /\ ToSet(q) = s

\* One more action that is not in the queue yet.
LEMMA ActJoins ==
  ASSUME NEW q, NEW s, Filled(q, s), s \cap {"Handshaken", "Close"} = {},
         NEW act \in Actions, act \notin s, NEW when
  PROVE  Filled(q \o Act(act, when), s \cup (IF when THEN {act} ELSE {}))
<1>1. q \in Seq(Actions) /\ InOrder(q) /\ ToSet(q) = s
  BY DEF Filled
<1>2. CASE ~when
  <2>1. q \o Act(act, when) = q
    BY <1>1, <1>2 DEF Act
  <2> QED BY <1>1, <1>2, <2>1 DEF Filled
<1>3. CASE when
  <2> DEFINE r == Append(q, act)
             n == Len(q)
  <2>1. q \o Act(act, when) = r
    BY <1>1, <1>3 DEF Act
  <2>2. /\ r \in Seq(Actions) /\ Len(r) = n + 1 /\ n \in Nat
        /\ r[n + 1] = act /\ \A i \in 1 .. n : r[i] = q[i]
    BY <1>1, AppendIs
  <2>3. DOMAIN r = 1 .. n + 1 /\ DOMAIN q = 1 .. n
    BY <1>1, <2>2
  <2> HIDE DEF r, n
  <2>4. s = {q[i] : i \in 1 .. n} /\ ToSet(r) = {r[i] : i \in 1 .. n + 1}
    BY <1>1, <2>3 DEF ToSet
  <2>5. ToSet(r) = s \cup {act}
    <3>1. \A i \in 1 .. n : i \in 1 .. n + 1
      BY <2>2
    <3>2. \A i \in 1 .. n + 1 : i = n + 1 \/ i \in 1 .. n
      BY <2>2
    <3>3. n + 1 \in 1 .. n + 1
      BY <2>2
    <3> QED BY <2>2, <2>4, <3>1, <3>2, <3>3
  <2>6. \A i, j \in 1 .. n + 1 : i < j => r[i] # r[j]
    <3> SUFFICES ASSUME NEW i \in 1 .. n + 1, NEW j \in 1 .. n + 1, i < j PROVE r[i] # r[j]
      OBVIOUS
    <3>1. i \in 1 .. n /\ r[i] = q[i] /\ r[i] \in s
      BY <2>2, <2>4
    <3>2. CASE j = n + 1
      BY <2>2, <3>1, <3>2
    <3>3. CASE j # n + 1
      <4>1. j \in 1 .. n /\ r[j] = q[j]
        BY <2>2, <3>3
      <4>2. q[i] # q[j]
        BY <1>1, <3>1, <4>1 DEF InOrder, n
      <4> QED BY <3>1, <4>1, <4>2
    <3> QED BY <3>2, <3>3
  <2>7. \A i \in 1 .. n + 1 : r[i] \in {"Handshaken", "Close"} => i = n + 1
    <3> SUFFICES ASSUME NEW i \in 1 .. n + 1, i # n + 1 PROVE r[i] \notin {"Handshaken", "Close"}
      OBVIOUS
    <3>1. i \in 1 .. n
      BY <2>2
    <3>2. r[i] \in s
      BY <2>2, <2>4, <3>1
    <3> QED BY <3>2
  <2>8. InOrder(r)
    BY <2>2, <2>6, <2>7 DEF InOrder
  <2> QED BY <1>3, <2>1, <2>2, <2>5, <2>8 DEF Filled
<1> QED BY <1>2, <1>3

\* The first action of a queue.
LEMMA ActBegins ==
  ASSUME NEW act \in Actions, NEW when
  PROVE  Filled(Act(act, when), IF when THEN {act} ELSE {})
<1> DEFINE none == <<>>
           s == Act(act, when)
<1>1. Filled(none, {})
  BY Empties, NoneQueued DEF Filled, InOrder
<1>2. Filled(none \o Act(act, when), {} \cup (IF when THEN {act} ELSE {}))
  <2> HIDE DEF none
  <2> QED BY <1>1, ActJoins
<1>3. s \in Seq(Actions)
  BY DEF Act
<1>4. none \o s = s
  <2> HIDE DEF s
  <2> QED BY <1>3
<1> QED BY <1>2, <1>4

\* What the handshake asks for.
LEMMA HandshakeActs ==
  ASSUME NEW p, p \in TlsDatas, NEW q, q = HandshakeActions(p)
  PROVE  /\ q \in Seq(Actions) /\ InOrder(q)
         /\ ToSet(q) \subseteq {"readyReadOutgoing", "hostNameReceived", "certificateRequested",
                                "peerCertificateAvailable", "Handshaken"} \ p.emitted
         /\ p.c.to_net # <<>> => "readyReadOutgoing" \in ToSet(q)
         /\ "Handshaken" \in ToSet(q) <=> p.c.result = "Success"
<1> DEFINE w1 == p.c.to_net # <<>>
           success == p.c.result = "Success"
           clientHello == p.server /\ HelloReceived(p.c)
           serverHello == ~p.server /\ HelloReceived(p.c)
           w2 == clientHello /\ "hostNameReceived" \notin p.emitted
           w3 == (success \/ serverHello) /\ "peerCertificateAvailable" \notin p.emitted
           w4 == serverHello /\ "certificateRequested" \notin p.emitted
           q1 == Act("readyReadOutgoing", w1)
           q2 == q1 \o Act("hostNameReceived", w2)
           q3 == q2 \o Act("peerCertificateAvailable", w3)
           q4 == q3 \o Act("certificateRequested", w4)
           q5 == q4 \o Act("Handshaken", success)
           s1 == IF w1 THEN {"readyReadOutgoing"} ELSE {}
           s2 == s1 \cup (IF w2 THEN {"hostNameReceived"} ELSE {})
           s3 == s2 \cup (IF w3 THEN {"peerCertificateAvailable"} ELSE {})
           s4 == s3 \cup (IF w4 THEN {"certificateRequested"} ELSE {})
           s5 == s4 \cup (IF success THEN {"Handshaken"} ELSE {})
<1>1. {"readyReadOutgoing", "hostNameReceived", "certificateRequested",
       "peerCertificateAvailable", "Handshaken"} \subseteq Actions
  BY DEF Actions, TlsSteps
<1>2. q = q5
  BY DEF HandshakeActions
<1>a. p.emitted \subseteq TlsSteps
  BY DEF TlsDatas
<1>b. (w2 => "hostNameReceived" \notin p.emitted) /\ (w3 => "peerCertificateAvailable" \notin p.emitted)
      /\ (w4 => "certificateRequested" \notin p.emitted)
  OBVIOUS
<1> HIDE DEF w1, w2, w3, w4, success
<1>3. Filled(q1, s1)
  BY <1>1, ActBegins
<1>4. Filled(q2, s2)
  <2>1. "hostNameReceived" \notin s1 /\ s1 \cap {"Handshaken", "Close"} = {}
    OBVIOUS
  <2> HIDE DEF q1, s1
  <2> QED BY <1>1, <1>3, <2>1, ActJoins
<1>5. Filled(q3, s3)
  <2>1. "peerCertificateAvailable" \notin s2 /\ s2 \cap {"Handshaken", "Close"} = {}
    OBVIOUS
  <2> HIDE DEF q2, s2
  <2> QED BY <1>1, <1>4, <2>1, ActJoins
<1>6. Filled(q4, s4)
  <2>1. "certificateRequested" \notin s3 /\ s3 \cap {"Handshaken", "Close"} = {}
    OBVIOUS
  <2> HIDE DEF q3, s3
  <2> QED BY <1>1, <1>5, <2>1, ActJoins
<1>7. Filled(q5, s5)
  <2>1. "Handshaken" \notin s4 /\ s4 \cap {"Handshaken", "Close"} = {}
    OBVIOUS
  <2> HIDE DEF q4, s4
  <2> QED BY <1>1, <1>6, <2>1, ActJoins
<1>8. q \in Seq(Actions) /\ InOrder(q) /\ ToSet(q) = s5
  <2> HIDE DEF q5, s5
  <2> QED BY <1>2, <1>7 DEF Filled
<1>9. s5 \subseteq {"readyReadOutgoing", "hostNameReceived", "certificateRequested",
                    "peerCertificateAvailable", "Handshaken"} \ p.emitted
  BY <1>a, <1>b DEF TlsSteps
<1>10. (w1 => "readyReadOutgoing" \in s5) /\ ("Handshaken" \in s5 <=> success)
  OBVIOUS
<1> HIDE DEF s5
<1> QED BY <1>8, <1>9, <1>10 DEF w1, success

\* A failure ends the session.
LEMMA FailLeaves ==
  ASSUME NEW p, NEW a, p \in TlsDatas, p.c.posted = 0, p.queue = <<>>, p.signal = "none",
         Within(p), Known(p, a), NEW q, q = Fail(p)
  PROVE  Leaves(p, q, a)
<1>1. p.unprocessed \in Seq(Kinds) /\ "error" \in TlsSignals /\ "error" \notin TlsSteps
  BY DEF TlsDatas, TlsSignals, TlsSteps
<1>2. PICK left \in Seq(Kinds) : left = p.unprocessed
  BY <1>1
<1>3. q = Ended(p, left, "error")
  BY <1>2 DEF Fail, Ended, ResetSession, TlsDatas
<1>4. /\ Settled(q) /\ Woken(q) /\ q.state = "Inactive" /\ q.queue = <<>> /\ ~q.blocked
      /\ q.signal = "error" /\ q.in = p.in /\ q.to_net = p.to_net /\ q.layer = p.layer
  BY <1>1, <1>3, ResetDoes
<1>5. Known(q, a)
  BY <1>1, <1>4, NoneQueued DEF Known
<1> QED BY <1>4, <1>5 DEF Leaves

\* A session whose result of an update has come, with what the result says.
Returned(p, a) ==
  /\ p \in TlsDatas /\ a \in Apps /\ Loose(p) /\ Known(p, a)
  /\ p.op = "none" /\ p.c.posted = 0 /\ p.queue = <<>> /\ ~p.blocked /\ p.signal = "none"
  /\ p.state \in {"Handshaking", "Connected", "Closing"}
  /\ p.state = "Handshaking" => /\ p.c.result = "Success" => p.c.mode = "Active"
                                /\ p.c.result = "Continue" => p.c.mode = "Handshake"
  /\ p.state = "Connected" => p.c.mode = "Active"
  /\ Within(p)
  /\ p.state = "Connected" /\ p.c.to_net # <<>> => p.c.encoded <= Plain(p.c.to_net)

\* What is taken from the context is handed on after what is still there.
LEMMA ToNetJoins ==
  ASSUME NEW s \in Seq(Records), NEW t \in Seq(Records)
  PROVE  /\ s \o t \in Seq(Records) /\ Plain(s) \in Nat /\ Plain(t) \in Nat
         /\ Plain(s \o t) = Plain(s) + Plain(t)
         /\ s \o t # <<>> => s # <<>> \/ t # <<>>
<1>1. \A r \in Records : r.plain \in Nat
  BY DEF Records
<1>2. s = <<>> /\ t = <<>> => s \o t = <<>>
  OBVIOUS
<1> QED BY <1>1, <1>2, PlainJoins

\* The rest of a result is as it was, but for the queue q.
TakesOver(p, k, q) ==
  /\ k \in TlsDatas /\ k.queue = q /\ k.to_net = p.to_net \o p.c.to_net
  /\ k.c.to_net = <<>> /\ k.c.mode = p.c.mode /\ k.c.posted = p.c.posted /\ k.c.result = p.c.result
  /\ k.state = p.state /\ k.blocked = p.blocked /\ k.op = p.op /\ k.need_update = p.need_update
  /\ k.emitted = p.emitted /\ k.out = p.out /\ k.out_pending = p.out_pending
  /\ k.from_net = p.from_net /\ k.in = p.in /\ k.to_net_encoded = p.to_net_encoded
  /\ k.layer = p.layer /\ k.signal = p.signal

\* Taking the records of the context touches nothing else,
LEMMA Taken ==
  ASSUME NEW p, p \in TlsDatas, p.queue = <<>>, NEW q \in Seq(Actions),
         NEW k, k = [[p EXCEPT !.to_net = @ \o p.c.to_net, !.c.to_net = <<>>] EXCEPT !.queue = @ \o q]
  PROVE  TakesOver(p, k, q)
<1> DEFINE all == p.to_net \o p.c.to_net
           c == [p.c EXCEPT !.to_net = <<>>]
           x == [p EXCEPT !.to_net = all, !.c = c, !.queue = q]
<1>1. p.c \in TlsContexts /\ p.to_net \in Seq(Records)
  BY DEF TlsDatas
<1>2. p.c.to_net \in Seq(Records)
  BY <1>1 DEF TlsContexts
<1>3. all \in Seq(Records)
  BY <1>1, <1>2, ToNetJoins
<1>4. /\ c \in TlsContexts /\ c.to_net = <<>> /\ c.mode = p.c.mode /\ c.posted = p.c.posted
      /\ c.result = p.c.result
  BY <1>1, Empties DEF TlsContexts
<1>5. k = x
  <2>1. <<>> \o q = q
    OBVIOUS
  <2> QED BY <2>1 DEF TlsDatas
<1> HIDE DEF all, c
<1>6. x \in TlsDatas
  BY <1>3, <1>4 DEF TlsDatas
<1>7. /\ x.queue = q /\ x.to_net = all /\ x.c = c
      /\ x.state = p.state /\ x.blocked = p.blocked /\ x.op = p.op /\ x.need_update = p.need_update
      /\ x.emitted = p.emitted /\ x.out = p.out /\ x.out_pending = p.out_pending
  BY DEF TlsDatas
<1>8. /\ x.from_net = p.from_net /\ x.in = p.in /\ x.to_net_encoded = p.to_net_encoded
      /\ x.layer = p.layer /\ x.signal = p.signal
  BY DEF TlsDatas
<1> HIDE DEF x
<1> QED BY <1>4, <1>5, <1>6, <1>7, <1>8 DEF TakesOver, all

\* During the handshake and while the session is being closed.
LEMMA HandshakingLeaves ==
  ASSUME NEW p, NEW a, Returned(p, a), p.state = "Handshaking", p.c.result # "Error",
         NEW q, q = HandshakeActions(p), NEW k, TakesOver(p, k, q),
         NEW wants, NEW r, r = ProcessNextAction(k, wants)
  PROVE  Leaves(p, r, a)
<1>1. /\ q \in Seq(Actions) /\ InOrder(q)
      /\ ToSet(q) \subseteq {"readyReadOutgoing", "hostNameReceived", "certificateRequested",
                             "peerCertificateAvailable", "Handshaken"} \ p.emitted
      /\ p.c.to_net # <<>> => "readyReadOutgoing" \in ToSet(q)
      /\ "Handshaken" \in ToSet(q) <=> p.c.result = "Success"
  BY HandshakeActs DEF Returned
<1>2. /\ p.c.result \in {"Success", "Error", "Continue"} /\ p.to_net \in Seq(Records)
      /\ p.c.to_net \in Seq(Records) /\ p.to_net_encoded \in Int
  BY DEF Returned, TlsDatas, TlsContexts
<1>3. /\ Plain(p.to_net) \in Nat /\ Plain(p.c.to_net) \in Nat
      /\ Plain(k.to_net) = Plain(p.to_net) + Plain(p.c.to_net)
      /\ k.to_net # <<>> => p.to_net # <<>> \/ p.c.to_net # <<>>
  BY <1>2, ToNetJoins DEF TakesOver
<1>4. QueueFits(k)
  BY <1>1 DEF QueueFits, TakesOver, MayQueue
<1>5. OpFits(k)
  BY DEF OpFits, TakesOver, Returned
<1>6. ModeFits(k)
  BY <1>1, <1>2 DEF ModeFits, TakesOver, Returned
<1>7. BooksFit(k)
  <2>1. Within(k)
    BY <1>2, <1>3 DEF TakesOver, Returned, Within
  <2> QED BY <2>1 DEF BooksFit, Within, TakesOver, Returned
<1>8. Settled(k)
  BY <1>4, <1>5, <1>6, <1>7 DEF Settled, TakesOver
<1>9. Loose(k)
  BY DEF Loose, TakesOver, Returned
<1>10. Known(k, a)
  BY <1>1, <1>3, NoneQueued DEF Known, TakesOver, Returned
<1>11. Leaves(k, r, a)
  BY <1>8, <1>9, <1>10, NextLeaves DEF TakesOver, Returned
<1> QED BY <1>11 DEF Leaves, TakesOver

\* The result of an update while the session is being closed.
LEMMA ClosingLeaves ==
  ASSUME NEW p, NEW a, Returned(p, a), p.state = "Closing",
         NEW q, InOrder(q), ToSet(q) \subseteq {"readyReadOutgoing", "Close"},
         p.c.to_net # <<>> => "readyReadOutgoing" \in ToSet(q),
         NEW k, TakesOver(p, k, q),
         NEW wants, NEW r, r = ProcessNextAction(k, wants)
  PROVE  Leaves(p, r, a)
<1>2. /\ p.to_net \in Seq(Records) /\ p.c.to_net \in Seq(Records) /\ p.to_net_encoded \in Int
      /\ p.emitted \subseteq TlsSteps
  BY DEF Returned, TlsDatas, TlsContexts
<1>3. /\ Plain(p.to_net) \in Nat /\ Plain(p.c.to_net) \in Nat
      /\ Plain(k.to_net) = Plain(p.to_net) + Plain(p.c.to_net)
      /\ k.to_net # <<>> => p.to_net # <<>> \/ p.c.to_net # <<>>
  BY <1>2, ToNetJoins DEF TakesOver
<1>5. QueueFits(k)
  BY <1>2 DEF QueueFits, TakesOver, MayQueue, TlsSteps
<1>6. OpFits(k)
  BY DEF OpFits, TakesOver, Returned
<1>7. ModeFits(k)
  BY DEF ModeFits, TakesOver, Returned
<1>8. BooksFit(k)
  <2>1. Within(k)
    BY <1>2, <1>3 DEF TakesOver, Returned, Within
  <2> QED BY <2>1 DEF BooksFit, Within, TakesOver, Returned
<1>9. Settled(k)
  BY <1>5, <1>6, <1>7, <1>8 DEF Settled, TakesOver
<1>10. Loose(k)
  BY DEF Loose, TakesOver, Returned
<1>11. Known(k, a)
  BY <1>3, NoneQueued DEF Known, TakesOver, Returned
<1>12. Leaves(k, r, a)
  BY <1>9, <1>10, <1>11, NextLeaves DEF TakesOver, Returned
<1> QED BY <1>12 DEF Leaves, TakesOver

\* Once connected a result also brings the plain bytes it decoded, and the account
\* of those it encoded: enc is added to what waits to be reported, and left is what
\* is not encoded yet.
KeepsOver(p, k, q, enc, left) ==
  /\ k \in TlsDatas /\ k.queue = q /\ k.to_net = p.to_net \o p.c.to_net
  /\ k.c \in TlsContexts /\ k.c.to_net = <<>> /\ k.c.mode = p.c.mode /\ k.c.posted = p.c.posted
  /\ k.in = p.in + p.c.plain /\ k.to_net_encoded = AtLeast(p.to_net_encoded + enc, MinEncoded)
  /\ k.out_pending = left
  /\ k.state = p.state /\ k.blocked = p.blocked /\ k.op = p.op /\ k.need_update = p.need_update
  /\ k.emitted = p.emitted /\ k.out = p.out /\ k.from_net = p.from_net
  /\ k.layer = p.layer /\ k.signal = p.signal

\* and neither does keeping a result of the connected session.
LEMMA Kept ==
  ASSUME NEW p, p \in TlsDatas, p.queue = <<>>, NEW q \in Seq(Actions), NEW enc \in Int, NEW left \in Int,
         NEW k, k = [[p EXCEPT !.to_net = @ \o p.c.to_net, !.c.to_net = <<>>]
                       EXCEPT !.to_net_encoded = AtLeast(@ + enc, MinEncoded), !.in = @ + p.c.plain,
                              !.out_pending = left, !.maybe_input = @ \/ left > 0,
                              !.queue = @ \o q, !.c.plain = 0]
  PROVE  KeepsOver(p, k, q, enc, left)
<1> DEFINE all  == p.to_net \o p.c.to_net
           c    == [p.c EXCEPT !.to_net = <<>>, !.plain = 0]
           told == AtLeast(p.to_net_encoded + enc, MinEncoded)
           in   == p.in + p.c.plain
           may  == p.maybe_input \/ left > 0
           x    == [p EXCEPT !.to_net = all, !.c = c, !.to_net_encoded = told, !.in = in,
                             !.out_pending = left, !.maybe_input = may, !.queue = q]
<1>1. p.c \in TlsContexts /\ p.to_net \in Seq(Records) /\ p.to_net_encoded \in Int /\ p.in \in Nat
  BY DEF TlsDatas
<1>2. p.c.to_net \in Seq(Records) /\ p.c.plain \in Nat
  BY <1>1 DEF TlsContexts
<1>3. all \in Seq(Records)
  BY <1>1, <1>2, ToNetJoins
<1>4. c \in TlsContexts /\ c.to_net = <<>> /\ c.mode = p.c.mode /\ c.posted = p.c.posted
  BY <1>1, Empties DEF TlsContexts
<1>5. told \in Int /\ in \in Nat /\ may \in BOOLEAN
  <2>1. told \in Int
    BY <1>1, TLSAssumption DEF AtLeast
  <2>2. in \in Nat
    BY <1>1, <1>2
  <2>3. may \in BOOLEAN
    BY DEF TlsDatas
  <2> QED BY <2>1, <2>2, <2>3
<1>6. k = x
  <2>1. <<>> \o q = q
    OBVIOUS
  <2>2. [[p.c EXCEPT !.to_net = <<>>] EXCEPT !.plain = 0] = c
    BY <1>1 DEF TlsContexts
  <2>3. k = [p EXCEPT !.to_net = all, !.c = [[p.c EXCEPT !.to_net = <<>>] EXCEPT !.plain = 0],
                      !.to_net_encoded = told, !.in = in,
                      !.out_pending = left, !.maybe_input = may, !.queue = <<>> \o q]
    <3> HIDE DEF c, x
    <3> QED BY DEF TlsDatas
  <2> QED BY <2>1, <2>2, <2>3
<1> HIDE DEF all, c, told, in, may
<1>7. x \in TlsDatas
  BY <1>3, <1>4, <1>5 DEF TlsDatas
<1>8. /\ x.queue = q /\ x.to_net = all /\ x.c = c /\ x.to_net_encoded = told /\ x.in = in
      /\ x.out_pending = left /\ x.state = p.state /\ x.blocked = p.blocked /\ x.op = p.op
  BY DEF TlsDatas
<1>9. /\ x.need_update = p.need_update /\ x.emitted = p.emitted /\ x.out = p.out
      /\ x.from_net = p.from_net /\ x.layer = p.layer /\ x.signal = p.signal
  BY DEF TlsDatas
<1> HIDE DEF x
<1> QED BY <1>4, <1>6, <1>7, <1>8, <1>9 DEF KeepsOver, all, told, in

\* What processNextAction() or update() may be called with, of a result that came in p.
Ready(p, s, a) ==
  /\ Settled(s) /\ Loose(s) /\ Known(s, a) /\ s.signal = "none" /\ s.state # "Inactive"
  /\ s.layer = p.layer /\ s.out_pending <= p.out_pending /\ p.out_pending \in Int

\* Such a result is kept so that the session may go on.
LEMMA KeptIsReady ==
  ASSUME NEW p, NEW a, Returned(p, a), p.state = "Connected",
         NEW sends, sends = (p.c.to_net # <<>>), NEW reads,
         reads = (p.c.plain > 0),
         NEW q, q = Act("readyReadOutgoing", sends) \o Act("readyRead", reads),
         NEW enc, enc = (IF sends THEN p.c.encoded ELSE -1),
         NEW left, left = p.out_pending - (IF sends THEN enc ELSE 0),
         NEW k, KeepsOver(p, k, q, enc, left)
  PROVE  Ready(p, k, a)
<1> DEFINE s == IF sends THEN {"readyReadOutgoing"} ELSE {}
           u == s \cup (IF reads THEN {"readyRead"} ELSE {})
<1>1. Filled(q, u)
  <2>1. {"readyReadOutgoing", "readyRead"} \subseteq Actions
    BY DEF Actions
  <2> DEFINE q1 == Act("readyReadOutgoing", sends)
  <2>2. Filled(q1, s)
    BY <2>1, ActBegins
  <2>3. "readyRead" \notin s /\ s \cap {"Handshaken", "Close"} = {}
    OBVIOUS
  <2>4. Filled(q1 \o Act("readyRead", reads), u)
    <3> HIDE DEF q1, s
    <3> QED BY <2>1, <2>2, <2>3, ActJoins
  <2> HIDE DEF u
  <2> QED BY <2>4
<1>2. /\ p.to_net \in Seq(Records) /\ p.c.to_net \in Seq(Records) /\ p.to_net_encoded \in Int
      /\ p.emitted \subseteq TlsSteps /\ p.c.plain \in Nat /\ p.c.encoded \in Nat
      /\ p.out_pending \in Int /\ p.in \in Nat /\ p.c.posted = 0
  BY DEF Returned, TlsDatas, TlsContexts
<1>3. /\ Plain(p.to_net) \in Nat /\ Plain(p.c.to_net) \in Nat
      /\ Plain(k.to_net) = Plain(p.to_net) + Plain(p.c.to_net)
      /\ k.to_net # <<>> => p.to_net # <<>> \/ p.c.to_net # <<>>
  BY <1>2, ToNetJoins DEF KeepsOver
<1>4. /\ q \in Seq(Actions) /\ InOrder(q) /\ ToSet(q) \subseteq {"readyReadOutgoing", "readyRead"}
      /\ (p.c.to_net # <<>> => "readyReadOutgoing" \in ToSet(q))
      /\ (p.c.plain > 0 => "readyRead" \in ToSet(q)) /\ "Handshaken" \notin ToSet(q)
  <2>1. q \in Seq(Actions) /\ InOrder(q) /\ ToSet(q) = u
    BY <1>1 DEF Filled
  <2> QED BY <2>1
<1>5. QueueFits(k)
  BY <1>2, <1>4 DEF QueueFits, KeepsOver, MayQueue, TlsSteps
<1>6. OpFits(k)
  BY DEF OpFits, KeepsOver, Returned
<1>7. ModeFits(k)
  BY DEF ModeFits, KeepsOver, Returned
<1>8. BooksFit(k)
  <2>1. Within(k)
    <3>1. enc \in Int /\ enc <= Plain(p.c.to_net)
      <4>1. CASE sends
        <5>1. p.c.to_net # <<>> /\ enc = p.c.encoded
          BY <4>1
        <5>2. p.c.encoded <= Plain(p.c.to_net)
          BY <5>1 DEF Returned
        <5> QED BY <1>2, <5>1, <5>2
      <4>2. CASE ~sends
        BY <1>3, <4>2
      <4> QED BY <4>1, <4>2
    <3>2. k.to_net_encoded = AtLeast(p.to_net_encoded + enc, MinEncoded)
      BY DEF KeepsOver
    <3>3. MinEncoded <= 0 => p.to_net_encoded <= Plain(p.to_net)
      BY DEF Returned, Within
    <3>4. PICK m \in Int, n \in Nat, o \in Nat :
            m = p.to_net_encoded /\ n = Plain(p.to_net) /\ o = Plain(p.c.to_net)
      BY <1>2, <1>3
    <3>5. MinEncoded <= 0 => AtLeast(m + enc, MinEncoded) <= n + o
      <4>1. PICK b \in Int : b = MinEncoded
        BY TLSAssumption
      <4>2. enc <= o /\ (b <= 0 => m <= n)
        BY <3>1, <3>3, <3>4, <4>1
      <4>3. b <= 0 => (IF m + enc < b THEN b ELSE m + enc) <= n + o
        BY <3>1, <4>1, <4>2
      <4> QED BY <4>1, <4>3 DEF AtLeast
    <3> QED BY <1>3, <3>2, <3>4, <3>5 DEF Within
  <2> QED BY <2>1 DEF BooksFit, KeepsOver, Returned
<1>9. Settled(k)
  BY <1>5, <1>6, <1>7, <1>8 DEF Settled, KeepsOver
<1>10. Loose(k)
  BY DEF Loose, KeepsOver, Returned
<1>11. Known(k, a)
  <2>1. k.in > 0 => p.in > 0 \/ p.c.plain > 0
    BY <1>2 DEF KeepsOver
  <2> QED BY <1>2, <1>3, <1>4, <2>1, NoneQueued DEF Known, KeepsOver, Returned
<1>12. k.out_pending <= p.out_pending
  <2>1. k.out_pending = left
    BY DEF KeepsOver
  <2> QED BY <1>2, <2>1
<1>13. k.signal = "none" /\ k.state # "Inactive" /\ k.layer = p.layer
  BY DEF KeepsOver, Returned
<1> QED BY <1>2, <1>9, <1>10, <1>11, <1>12, <1>13 DEF Ready

\* close(), after which there may be more input to ask for.
Shut(k, may) == [Close(k) EXCEPT !.maybe_input = may]

\* close() leaves it so.
LEMMA CloseIsReady ==
  ASSUME NEW p, NEW k, NEW a, Ready(p, k, a), k.state = "Connected", NEW may \in BOOLEAN,
         NEW s, s = Shut(k, may)
  PROVE  Ready(p, s, a) /\ s.queue = k.queue /\ s.timer = k.timer /\ s.op = k.op
<1> DEFINE c == ContextShutdown(k.c)
           x == [k EXCEPT !.state = "Closing", !.c = c, !.maybe_input = may]
<1>1. k \in TlsDatas /\ QueueFits(k) /\ OpFits(k) /\ ModeFits(k) /\ BooksFit(k) /\ Loose(k) /\ Known(k, a)
  BY DEF Ready, Settled
<1>2. k.c \in TlsContexts
  BY <1>1 DEF TlsDatas
<1>3. c \in TlsContexts /\ c.posted = k.c.posted
  BY <1>2 DEF ContextShutdown, TlsContexts
<1>4. s = x
  BY <1>1 DEF Shut, Close, TlsDatas
<1> HIDE DEF c
<1>5. "Closing" \in States
  BY DEF States
<1>6. x \in TlsDatas
  BY <1>1, <1>3, <1>5 DEF TlsDatas
<1>7. /\ x.state = "Closing" /\ x.c = c /\ x.queue = k.queue /\ x.blocked = k.blocked /\ x.op = k.op
      /\ x.need_update = k.need_update /\ x.emitted = k.emitted /\ x.out = k.out
      /\ x.out_pending = k.out_pending /\ x.from_net = k.from_net /\ x.in = k.in
  BY <1>1 DEF TlsDatas
<1>8. /\ x.to_net = k.to_net /\ x.to_net_encoded = k.to_net_encoded /\ x.layer = k.layer
      /\ x.signal = k.signal /\ x.timer = k.timer
  BY <1>1 DEF TlsDatas
<1> HIDE DEF x
<1>9. QueueFits(x)
  BY <1>1, <1>7 DEF QueueFits, MayQueue
<1>10. OpFits(x)
  BY <1>1, <1>3, <1>7 DEF OpFits
<1>11. ModeFits(x)
  BY <1>7 DEF ModeFits
<1>12. BooksFit(x)
  <2>1. "Handshaken" \notin ToSet(x.queue)
    BY <1>1, <1>7 DEF QueueFits, MayQueue
  <2> QED BY <1>1, <1>7, <1>8, <2>1 DEF BooksFit, Within
<1>13. Loose(x)
  BY <1>1, <1>7 DEF Loose
<1>14. Known(x, a)
  BY <1>1, <1>7, <1>8 DEF Known
<1> QED BY <1>4, <1>6, <1>7, <1>8, <1>9, <1>10, <1>11, <1>12, <1>13, <1>14 DEF Ready, Settled

\* What is done once the result has been taken: an update where there may be more,
\* and an action.
LEMMA ReadyLeaves ==
  ASSUME NEW p, NEW s, NEW a \in Apps, Ready(p, s, a), s.op = "none", ~p.blocked, NEW more, NEW wants,
         NEW r, r = ProcessNextAction(IF more THEN TlsUpdate(s, wants) ELSE s, wants)
  PROVE  Leaves(p, r, a)
<1>1. /\ Settled(s) /\ Loose(s) /\ Known(s, a) /\ s.signal = "none" /\ s.state # "Inactive"
      /\ s.layer = p.layer /\ s.out_pending <= p.out_pending /\ p.out_pending \in Int
  BY DEF Ready
<1>2. s.out_pending \in Int /\ "none" \notin TlsSteps
  BY <1>1 DEF Settled, TlsDatas, TlsSteps
<1>3. CASE ~more
  <2>1. Leaves(s, r, a)
    BY <1>1, <1>3, NextLeaves
  <2>2. r.out_pending \in Int
    BY <2>1 DEF Leaves, Settled, TlsDatas
  <2> QED BY <1>1, <1>2, <2>1, <2>2 DEF Leaves
<1>4. CASE more
  <2>1. PICK u : u = TlsUpdate(s, wants)
    OBVIOUS
  <2>2. /\ Settled(u) /\ SameButUpdated(s, u) /\ Loose(u)
        /\ u.out_pending > s.out_pending => s.queue = <<>> /\ ~u.need_update
    BY <1>1, <2>1, UpdateDoes
  <2>3. Known(u, a) /\ u.signal = "none" /\ u.layer = p.layer /\ u.queue = s.queue
    BY <1>1, <2>2 DEF Known, SameButUpdated
  <2>4. r = ProcessNextAction(u, wants)
    BY <1>4, <2>1
  <2>5. Leaves(u, r, a)
    BY <2>2, <2>3, <2>4, NextLeaves
  <2>6. CASE u.out_pending > s.out_pending
    <3>1. r = u
      BY <2>2, <2>3, <2>4, <2>6 DEF ProcessNextAction
    <3> QED BY <1>2, <2>3, <2>5, <3>1 DEF Leaves
  <2>7. CASE ~(u.out_pending > s.out_pending)
    <3>1. r.out_pending \in Int /\ u.out_pending \in Int
      BY <2>2, <2>5 DEF Leaves, Settled, TlsDatas
    <3>2. r.out_pending > p.out_pending => r.out_pending > u.out_pending
      BY <1>1, <1>2, <2>7, <3>1
    <3> QED BY <2>3, <2>5, <3>2 DEF Leaves
  <2> QED BY <2>6, <2>7
<1> QED BY <1>3, <1>4

\* The result of an update of the connected session: all that it may come with.
LEMMA ConnectedLeaves ==
  ASSUME NEW p, NEW a, Returned(p, a), p.state = "Connected",
         NEW t, t = [p EXCEPT !.to_net = @ \o p.c.to_net, !.c.to_net = <<>>],
         NEW wants, NEW r, r = ConnectedFinished(p, t, wants)
  PROVE  Leaves(p, r, a)
<1> DEFINE sends == p.c.to_net # <<>>
           reads == p.c.plain > 0
           q     == Act("readyReadOutgoing", sends) \o Act("readyRead", reads)
           enc   == IF sends THEN p.c.encoded ELSE -1
           left  == p.out_pending - (IF sends THEN enc ELSE 0)
           more  == p.c.eof \/ left > 0 \/ p.out > 0
           kept  == [t EXCEPT !.to_net_encoded = AtLeast(@ + enc, MinEncoded), !.in = @ + p.c.plain,
                              !.out_pending = left, !.maybe_input = @ \/ left > 0,
                              !.queue = @ \o q, !.c.plain = 0]
           shut  == IF p.c.eof THEN [Close(kept) EXCEPT !.maybe_input = TRUE] ELSE kept
<1>1. p \in TlsDatas /\ p.queue = <<>> /\ p.op = "none" /\ a \in Apps /\ ~p.blocked
  BY DEF Returned
<1>2. p.out_pending \in Int /\ p.c.encoded \in Nat /\ p.c.eof \in BOOLEAN
  BY <1>1 DEF TlsDatas, TlsContexts
<1>3. /\ Act("readyReadOutgoing", sends) \in Seq(Actions) /\ Act("readyRead", reads) \in Seq(Actions)
      /\ q \in Seq(Actions) /\ enc \in Int /\ left \in Int
  <2>1. {"readyReadOutgoing", "readyRead"} \subseteq Actions
    BY DEF Actions
  <2>2. Act("readyReadOutgoing", sends) \in Seq(Actions) /\ Act("readyRead", reads) \in Seq(Actions)
    BY <2>1 DEF Act
  <2>3. q \in Seq(Actions)
    BY <2>2
  <2>4. enc \in Int /\ left \in Int
    BY <1>2
  <2> QED BY <2>2, <2>3, <2>4
<1>4. r = ProcessNextAction(IF more THEN TlsUpdate(shut, wants) ELSE shut, wants)
  <2>1. t.queue = <<>>
    BY <1>1 DEF TlsDatas
  <2>2. t.queue \o q = t.queue \o Act("readyReadOutgoing", sends) \o Act("readyRead", reads)
    <3>1. PICK q1 \in Seq(Actions), q2 \in Seq(Actions) :
            q1 = Act("readyReadOutgoing", sends) /\ q2 = Act("readyRead", reads)
      BY <1>3
    <3>2. <<>> \o (q1 \o q2) = <<>> \o q1 \o q2
      OBVIOUS
    <3> QED BY <2>1, <3>1, <3>2
  <2> DEFINE kept2 == [t EXCEPT !.to_net_encoded = AtLeast(@ + enc, MinEncoded), !.in = @ + p.c.plain,
                              !.out_pending = left, !.maybe_input = @ \/ left > 0,
                              !.queue = @ \o Act("readyReadOutgoing", sends) \o Act("readyRead", reads),
                              !.c.plain = 0]
             shut2 == IF p.c.eof THEN [Close(kept2) EXCEPT !.maybe_input = TRUE] ELSE kept2
  <2>3. r = ProcessNextAction(IF more THEN TlsUpdate(shut2, wants) ELSE shut2, wants)
    BY Zenon DEF ConnectedFinished
  <2>4. kept2 = kept
    BY <2>2, Zenon
  <2>5. shut2 = shut
    <3> HIDE DEF kept, kept2
    <3> QED BY <2>4
  <2> HIDE DEF shut, shut2, more
  <2> QED BY <2>3, <2>5
<1>5. PICK k : k = kept
  OBVIOUS
<1>6. KeepsOver(p, k, q, enc, left)
  <2> HIDE DEF q, enc, left
  <2> QED BY <1>1, <1>3, <1>5, Kept
<1>7. Ready(p, k, a)
  <2> HIDE DEF kept
  <2> QED BY <1>6, KeptIsReady
<1>8. k.state = "Connected" /\ k.op = "none"
  BY <1>1, <1>6 DEF KeepsOver
<1>9. PICK s : s = shut
  <2> HIDE DEF shut
  <2> QED OBVIOUS
<1>10. Ready(p, s, a) /\ s.op = "none"
  <2>1. CASE p.c.eof
    <3>1. s = [Close(k) EXCEPT !.maybe_input = TRUE]
      BY <1>5, <1>9, <2>1
    <3>2. PICK may \in BOOLEAN : may = TRUE
      OBVIOUS
    <3>3. s = Shut(k, may)
      BY <3>1, <3>2 DEF Shut
    <3>4. Ready(p, s, a) /\ s.op = k.op
      BY <1>7, <1>8, <3>3, CloseIsReady
    <3> QED BY <1>8, <3>4
  <2>2. CASE ~p.c.eof
    BY <1>5, <1>7, <1>8, <1>9, <2>2
  <2> QED BY <2>1, <2>2
<1> HIDE DEF more, shut
<1> QED BY <1>1, <1>4, <1>9, <1>10, ReadyLeaves

\* The result of an update.
LEMMA UpdateFinishedLeaves ==
  ASSUME NEW p, NEW a, Returned(p, a), NEW wants, NEW r, r = UpdateFinished(p, wants)
  PROVE  Leaves(p, r, a)
<1> DEFINE t == [p EXCEPT !.to_net = @ \o p.c.to_net, !.c.to_net = <<>>]
<1>1. p \in TlsDatas /\ p.queue = <<>> /\ p.state \in {"Handshaking", "Connected", "Closing"}
  BY DEF Returned
<1>2. CASE p.c.result = "Error"
  <2>1. r = Fail(p)
    BY <1>2 DEF UpdateFinished
  <2>2. /\ p \in TlsDatas /\ p.c.posted = 0 /\ p.queue = <<>> /\ p.signal = "none"
        /\ Within(p) /\ Known(p, a)
    BY DEF Returned
  <2> QED BY <2>1, <2>2, FailLeaves
<1>3. CASE p.c.result # "Error" /\ p.state = "Closing"
  <2> DEFINE q == Act("readyReadOutgoing", p.c.to_net # <<>>) \o Act("Close", p.c.result = "Success")
             k == [t EXCEPT !.queue = @ \o q]
             m == [t EXCEPT !.queue = @ \o Act("readyReadOutgoing", p.c.to_net # <<>>)
                                        \o Act("Close", p.c.result = "Success")]
  <2>1. r = ProcessNextAction(m, wants)
    BY <1>3 DEF UpdateFinished
  <2>2. PICK q1 \in Seq(Actions), q2 \in Seq(Actions) :
          q1 = Act("readyReadOutgoing", p.c.to_net # <<>>) /\ q2 = Act("Close", p.c.result = "Success")
    <3>1. {"readyReadOutgoing", "Close"} \subseteq Actions
      BY DEF Actions
    <3>2. Act("readyReadOutgoing", p.c.to_net # <<>>) \in Seq(Actions)
          /\ Act("Close", p.c.result = "Success") \in Seq(Actions)
      BY <3>1 DEF Act
    <3> QED BY <3>2
  <2>3. q \in Seq(Actions)
    BY <2>2
  <2>4. t.queue = <<>>
    BY <1>1 DEF TlsDatas
  <2>5. t.queue \o q = t.queue \o Act("readyReadOutgoing", p.c.to_net # <<>>)
                         \o Act("Close", p.c.result = "Success")
    <3>1. <<>> \o (q1 \o q2) = <<>> \o q1 \o q2
      OBVIOUS
    <3> QED BY <2>2, <2>4, <3>1
  <2>6. m = k
    BY <2>5, Zenon
  <2>7. TakesOver(p, k, q)
    <3> HIDE DEF q
    <3> QED BY <1>1, <2>3, Taken
  <2> HIDE DEF k, m
  <2>8. r = ProcessNextAction(k, wants)
    BY <2>1, <2>6
  <2>9. /\ InOrder(q) /\ ToSet(q) \subseteq {"readyReadOutgoing", "Close"}
        /\ p.c.to_net # <<>> => "readyReadOutgoing" \in ToSet(q)
    <3> DEFINE s == IF p.c.to_net # <<>> THEN {"readyReadOutgoing"} ELSE {}
               u == s \cup (IF p.c.result = "Success" THEN {"Close"} ELSE {})
               v == Act("readyReadOutgoing", p.c.to_net # <<>>)
    <3>1. {"readyReadOutgoing", "Close"} \subseteq Actions
      BY DEF Actions
    <3>2. Filled(v, s)
      BY <3>1, ActBegins
    <3>3. "Close" \notin s /\ s \cap {"Handshaken", "Close"} = {}
      OBVIOUS
    <3>4. Filled(q, u)
      <4> HIDE DEF v, s
      <4>1. Filled(v \o Act("Close", p.c.result = "Success"),
                   s \cup (IF p.c.result = "Success" THEN {"Close"} ELSE {}))
        BY <3>1, <3>2, <3>3, ActJoins
      <4> QED BY <4>1 DEF v
    <3>5. InOrder(q) /\ ToSet(q) = u
      <4> HIDE DEF u, q
      <4> QED BY <3>4 DEF Filled
    <3> HIDE DEF q
    <3> QED BY <3>5
  <2> HIDE DEF q
  <2> QED BY <1>3, <2>7, <2>8, <2>9, ClosingLeaves
<1>4. CASE p.c.result # "Error" /\ p.state = "Handshaking"
  <2> DEFINE q == HandshakeActions(p)
             k == [t EXCEPT !.queue = @ \o q]
  <2>1. r = ProcessNextAction(k, wants)
    BY <1>4 DEF UpdateFinished
  <2>2. q \in Seq(Actions)
    BY <1>1, HandshakeActs
  <2>3. TakesOver(p, k, q)
    <3> HIDE DEF q
    <3> QED BY <1>1, <2>2, Taken
  <2> HIDE DEF k
  <2> QED BY <1>4, <2>1, <2>3, HandshakingLeaves
<1>5. CASE p.c.result # "Error" /\ p.state = "Connected"
  <2>1. r = ConnectedFinished(p, t, wants)
    BY <1>5 DEF UpdateFinished
  <2> HIDE DEF t
  <2>2. t = [p EXCEPT !.to_net = @ \o p.c.to_net, !.c.to_net = <<>>]
    BY DEF t
  <2> QED BY <1>5, <2>1, <2>2, ConnectedLeaves
<1> QED BY <1>1, <1>2, <1>3, <1>4, <1>5

\* A session whose result of start() has come.
Started(p, a) ==
  /\ p \in TlsDatas /\ a \in Apps /\ Loose(p) /\ Known(p, a) /\ Within(p)
  /\ p.op = "none" /\ p.c.posted = 0 /\ p.queue = <<>> /\ ~p.blocked /\ p.signal = "none"
  /\ p.state = "Initializing" /\ p.emitted = {}
  /\ p.c.result = "Success" => p.c.mode = "Handshake"

\* The result of start().
LEMMA StartFinishedLeaves ==
  ASSUME NEW p, NEW a, Started(p, a), NEW wants, NEW r, r = StartFinished(p, wants)
  PROVE  Leaves(p, r, a)
<1>1. CASE p.c.result # "Success"
  <2>1. r = Fail(p)
    BY <1>1 DEF StartFinished
  <2> QED BY <2>1, FailLeaves DEF Started
<1>2. CASE p.c.result = "Success"
  <2> DEFINE x == [p EXCEPT !.state = "Handshaking", !.maybe_input = TRUE]
  <2>1. r = TlsUpdate(x, wants)
    BY <1>2 DEF StartFinished
  <2>2. p \in TlsDatas /\ "Handshaking" \in States
    BY DEF Started, States
  <2>3. x \in TlsDatas
    BY <2>2 DEF TlsDatas
  <2>4. /\ x.state = "Handshaking" /\ x.c = p.c /\ x.queue = p.queue /\ x.blocked = p.blocked /\ x.op = p.op
        /\ x.need_update = p.need_update /\ x.emitted = p.emitted /\ x.out = p.out
        /\ x.out_pending = p.out_pending /\ x.from_net = p.from_net /\ x.in = p.in
    BY <2>2 DEF TlsDatas
  <2>5. /\ x.to_net = p.to_net /\ x.to_net_encoded = p.to_net_encoded /\ x.layer = p.layer
        /\ x.signal = p.signal
    BY <2>2 DEF TlsDatas
  <2> HIDE DEF x
  <2>6. QueueFits(x)
    BY <2>4, NoneQueued DEF QueueFits, InOrder, Started
  <2>7. OpFits(x)
    BY <2>4 DEF OpFits, Started
  <2>8. ModeFits(x)
    BY <1>2, <2>4, NoneQueued DEF ModeFits, Started
  <2>9. BooksFit(x)
    BY <2>4, <2>5, NoneQueued DEF BooksFit, Within, Started
  <2>10. Settled(x)
    BY <2>3, <2>6, <2>7, <2>8, <2>9 DEF Settled
  <2>11. /\ Settled(r) /\ SameButUpdated(x, r) /\ Woken(r)
    BY <2>1, <2>4, <2>10, UpdateDoes DEF Started
  <2>12. Known(r, a)
    BY <2>4, <2>5, <2>11 DEF Known, SameButUpdated, Started
  <2>13. r.layer = p.layer /\ r.signal \notin TlsSteps /\ ~p.blocked
    BY <2>5, <2>11 DEF SameButUpdated, Started, TlsSteps
  <2> QED BY <2>11, <2>12, <2>13 DEF Leaves
<1> QED BY <1>1, <1>2

----------------------------------------------------------------------------
(* What every action ends with.                                              *)

\* What the application knows after a call that has emitted p.signal.
Seen(p, a) ==
  [a EXCEPT !.unanswered = IF p.signal \in {"closed", "error"} THEN {}
                           ELSE @ \cup ({p.signal} \cap TlsSteps),
            !.steps = @ \cup ({p.signal} \cap TlsSteps),
            !.toRead = @ \/ p.signal = "readyRead",
            !.toReadOutgoing = @ \/ p.signal = "readyReadOutgoing"]

\* b is what it knows then.
Learns(p, a, b) ==
  /\ b \in Apps /\ Known(Quietly(p), b)
  /\ b.unanswered = IF p.signal \in {"closed", "error"} THEN {}
                    ELSE a.unanswered \cup ({p.signal} \cap TlsSteps)
  /\ b.chunks = a.chunks /\ b.sent = a.sent /\ b.told = a.told

\* The application knows the signal it was called with.
LEMMA SeenIs ==
  ASSUME NEW p, NEW a \in Apps, Known(p, a), p \in TlsDatas, NEW b, b = Seen(p, a)
  PROVE  Learns(p, a, b)
<1> DEFINE step == {p.signal} \cap TlsSteps
           un   == IF p.signal \in {"closed", "error"} THEN {} ELSE a.unanswered \cup step
           st   == a.steps \cup step
           rd   == a.toRead \/ p.signal = "readyRead"
           out  == a.toReadOutgoing \/ p.signal = "readyReadOutgoing"
           x    == [a EXCEPT !.unanswered = un, !.steps = st, !.toRead = rd, !.toReadOutgoing = out]
           y    == [p EXCEPT !.signal = "none"]
<1>1. b = x
  BY DEF Seen, Apps
<1>2. un \in SUBSET Listens /\ st \in SUBSET TlsSteps /\ rd \in BOOLEAN /\ out \in BOOLEAN
  BY DEF Known, Apps
<1>3. /\ y.in = p.in /\ y.to_net = p.to_net /\ y.queue = p.queue /\ y.state = p.state
      /\ y.emitted = p.emitted /\ y.blocked = p.blocked /\ y.signal = "none"
  BY DEF TlsDatas
<1> HIDE DEF y
<1>4. /\ step \subseteq TlsSteps /\ (p.signal \in TlsSteps => step = {p.signal})
      /\ (p.signal \notin TlsSteps => step = {})
  OBVIOUS
<1> HIDE DEF step
<1>5. /\ x \in Apps /\ x.unanswered = un /\ x.steps = st /\ x.toRead = rd /\ x.toReadOutgoing = out
      /\ x.chunks = a.chunks /\ x.sent = a.sent /\ x.told = a.told
  <2> HIDE DEF un, st, rd, out
  <2> QED BY <1>2 DEF Apps
<1> HIDE DEF x
<1>6. "none" \notin TlsSteps
  BY DEF TlsSteps
<1>7. Known(y, x)
  <2>1. y.in > 0 => x.toRead \/ y.signal = "readyRead" \/ "readyRead" \in ToSet(y.queue)
    BY <1>3, <1>5 DEF Known
  <2>2. y.to_net # <<>> => x.toReadOutgoing \/ y.signal = "readyReadOutgoing"
                           \/ "readyReadOutgoing" \in ToSet(y.queue)
    BY <1>3, <1>5 DEF Known
  <2>3. y.state # "Inactive" => x.steps \cup ({y.signal} \cap TlsSteps) \subseteq y.emitted \cup {"handshaken"}
    BY <1>3, <1>4, <1>5, <1>6 DEF Known
  <2>4. y.state \in {"Initializing", "Handshaking"} => "handshaken" \notin x.steps /\ y.signal # "handshaken"
    BY <1>3, <1>4, <1>5 DEF Known
  <2>5. OneStep /\ x.unanswered # {} => y.blocked
    BY <1>3, <1>4, <1>5 DEF Known
  <2> QED BY <1>3, <1>6, <2>1, <2>2, <2>3, <2>4, <2>5 DEF Known
<1> QED BY <1>1, <1>4, <1>5, <1>7 DEF Learns, Quietly, y, step

\* What every step shows.
StepShows ==
  /\ d' # d /\ d'.signal \in TlsSteps => d'.signal \notin app.steps
  /\ OneStep /\ d'.out_pending > d.out_pending => app'.unanswered = {}

\* What a call leaves behind keeps the invariant, and tells no step twice.
LEMMA LeavesInv ==
  ASSUME TlsInv, NEW p, NEW q, NEW a \in Apps, Leaves(p, q, a), Known(p, a), p.signal = "none",
         p.out_pending \in Int,
         p.out_pending <= d.out_pending \/ (a.unanswered = {} /\ q.signal = "none"),
         a.steps = app.steps \/ q.signal = "none",
         Becomes(q, a), wire' \in Seq(Kinds)
  PROVE  /\ TlsInv' /\ StepShows
         /\ d'.state = q.state /\ d'.layer = p.layer
         /\ app'.chunks = a.chunks /\ app'.sent = a.sent /\ app'.told = a.told
<1>1. /\ Settled(q) /\ Woken(q) /\ Known(q, a) /\ q.layer = p.layer
      /\ q.out_pending > p.out_pending =>
           q.signal \in {"closed", "error"} \/ (~p.blocked /\ q.signal \notin TlsSteps)
  BY DEF Leaves
<1>2. q \in TlsDatas /\ q.out_pending \in Int /\ d.out_pending \in Int
  BY <1>1 DEF Settled, TlsDatas, TlsInv
<1>3. d' = q /\ app' = Seen(q, a)
  BY DEF Becomes, Seen
<1>4. PICK b : b = Seen(q, a)
  OBVIOUS
<1>5. /\ b \in Apps /\ Known(Quietly(q), b)
      /\ b.unanswered = IF q.signal \in {"closed", "error"} THEN {}
                        ELSE a.unanswered \cup ({q.signal} \cap TlsSteps)
      /\ b.chunks = a.chunks /\ b.sent = a.sent /\ b.told = a.told
  <2>1. Known(q, a) /\ q \in TlsDatas
    BY <1>1, <1>2
  <2>2. Learns(q, a, b)
    BY <1>4, <2>1, SeenIs
  <2> QED BY <2>2 DEF Learns
<1>6. TlsInv'
  BY <1>1, <1>3, <1>4, <1>5 DEF TlsInv
<1>7. q.signal \in TlsSteps => q.signal \notin app.steps
  BY <1>1 DEF Known, TlsSteps
<1>8. OneStep /\ q.out_pending > d.out_pending => b.unanswered = {}
  <2>1. CASE q.signal \in {"closed", "error"}
    BY <1>5, <2>1
  <2>2. CASE q.out_pending > p.out_pending /\ ~p.blocked /\ q.signal \notin TlsSteps
    <3>1. OneStep => a.unanswered = {}
      BY <2>2 DEF Known
    <3> QED BY <1>5, <2>2, <3>1
  <2>3. CASE q.signal = "none" /\ a.unanswered = {}
    BY <1>5, <2>3 DEF TlsSteps
  <2>4. CASE ~(q.out_pending > p.out_pending) /\ p.out_pending <= d.out_pending
    BY <1>2, <2>4
  <2> QED BY <1>1, <2>1, <2>2, <2>3, <2>4
<1> QED BY <1>1, <1>3, <1>4, <1>5, <1>6, <1>7, <1>8 DEF StepShows

\* What convertBytesWritten() counts is as it was.
BooksStay ==
  /\ d'.layer.list = d.layer.list
  /\ app'.chunks = app.chunks /\ app'.sent = app.sent /\ app'.told = app.told
  /\ d'.state # "Inactive" => d.state # "Inactive"

----------------------------------------------------------------------------
(* The actions.                                                              *)

\* The session as a call finds it.
LEMMA QuietIs ==
  ASSUME TlsInv, NEW p, p = Quiet
  PROVE  /\ p \in TlsDatas /\ Settled(p) /\ Woken(p) /\ Loose(p) /\ Known(p, app)
         /\ app \in Apps /\ wire \in Seq(Kinds) /\ p.signal = "none"
         /\ p.state = d.state /\ p.blocked = d.blocked /\ p.server = d.server /\ p.op = d.op
         /\ p.queue = d.queue /\ p.timer = d.timer /\ p.need_update = d.need_update
         /\ p.emitted = d.emitted /\ p.out = d.out /\ p.out_pending = d.out_pending
         /\ p.from_net = d.from_net /\ p.in = d.in /\ p.to_net = d.to_net
         /\ p.to_net_encoded = d.to_net_encoded /\ p.layer = d.layer /\ p.c = d.c
         /\ d \in TlsDatas /\ d.out_pending \in Int /\ d.layer \in Layers
<1> DEFINE x == [d EXCEPT !.signal = "none"]
<1>1. d \in TlsDatas /\ Settled(d) /\ Woken(d) /\ Known(x, app) /\ app \in Apps /\ wire \in Seq(Kinds)
  BY DEF TlsInv, Settled, Quietly
<1>2. d.out_pending \in Int /\ d.layer \in Layers
  BY <1>1 DEF TlsDatas
<1>3. x \in TlsDatas
  BY <1>1 DEF TlsDatas, TlsSignals
<1>4. /\ x.state = d.state /\ x.blocked = d.blocked /\ x.server = d.server /\ x.op = d.op
      /\ x.queue = d.queue /\ x.timer = d.timer /\ x.need_update = d.need_update
      /\ x.emitted = d.emitted /\ x.out = d.out /\ x.out_pending = d.out_pending
  BY <1>1 DEF TlsDatas
<1>5. /\ x.from_net = d.from_net /\ x.in = d.in /\ x.to_net = d.to_net
      /\ x.to_net_encoded = d.to_net_encoded /\ x.layer = d.layer /\ x.c = d.c
      /\ x.signal = "none"
  BY <1>1 DEF TlsDatas
<1>6. p = x
  BY DEF Quiet
<1> HIDE DEF x
<1>7. QueueFits(x)
  BY <1>1, <1>4 DEF Settled, QueueFits, MayQueue
<1>8. OpFits(x)
  BY <1>1, <1>4, <1>5 DEF Settled, OpFits
<1>9. ModeFits(x)
  BY <1>1, <1>4, <1>5 DEF Settled, ModeFits
<1>10. BooksFit(x)
  BY <1>1, <1>4, <1>5 DEF Settled, BooksFit, Within
<1>11. Woken(x)
  BY <1>1, <1>4, <1>5 DEF Woken
<1>12. Loose(x)
  BY <1>11 DEF Loose, Woken
<1>13. Settled(x)
  BY <1>3, <1>7, <1>8, <1>9, <1>10 DEF Settled
<1> QED BY <1>1, <1>2, <1>3, <1>4, <1>5, <1>6, <1>11, <1>12, <1>13

\* The count of rare writes is none of the session's.
LEMMA SpendIs ==
  ASSUME NEW a \in Apps, NEW wants, NEW b, b = Spend(a, wants)
  PROVE  /\ b \in Apps /\ b.unanswered = a.unanswered /\ b.steps = a.steps /\ b.toRead = a.toRead
         /\ b.toReadOutgoing = a.toReadOutgoing /\ b.chunks = a.chunks /\ b.sent = a.sent
         /\ b.told = a.told
         /\ \A p : Known(p, a) => Known(p, b)
<1> DEFINE n == IF wants THEN a.wants + 1 ELSE a.wants
           x == [a EXCEPT !.wants = n]
<1>1. b = x
  BY DEF Spend, Apps
<1>2. n \in Nat
  BY DEF Apps
<1> HIDE DEF n
<1>3. /\ x \in Apps /\ x.unanswered = a.unanswered /\ x.steps = a.steps /\ x.toRead = a.toRead
      /\ x.toReadOutgoing = a.toReadOutgoing /\ x.chunks = a.chunks /\ x.sent = a.sent
      /\ x.told = a.told
  BY <1>2 DEF Apps
<1> HIDE DEF x
<1> QED BY <1>1, <1>3 DEF Known

\* What an update of the session p, made by a call, leaves.
LEMMA UpdateLeaves ==
  ASSUME NEW p, NEW a, Settled(p), Known(p, a), p.signal = "none", p.state # "Inactive",
         p.queue # <<>> => p.timer, NEW wants, NEW q, q = TlsUpdate(p, wants)
  PROVE  Leaves(p, q, a)
<1>1. /\ Settled(q) /\ SameButUpdated(p, q) /\ Woken(q)
      /\ q.out_pending > p.out_pending => ~p.blocked
  BY UpdateDoes
<1>2. Known(q, a)
  BY <1>1 DEF Known, SameButUpdated
<1>3. q.layer = p.layer /\ q.signal \notin TlsSteps
  BY <1>1 DEF SameButUpdated, TlsSteps
<1> QED BY <1>1, <1>2, <1>3 DEF Leaves

\* A call that emits nothing and hands nothing on.
LEMMA StaysLeaves ==
  ASSUME NEW q, NEW a, Settled(q), Woken(q), Known(q, a)
  PROVE  Leaves(q, q, a) /\ q.out_pending \in Int
<1>1. q.out_pending \in Int
  BY DEF Settled, TlsDatas
<1> QED BY <1>1 DEF Leaves

\* tls_resultsReady(): the result that is posted is that of the operation.
LEMMA ResultsReadyStep ==
  ASSUME TlsInv, NEW wants \in BOOLEAN, ResultsReady(wants)
  PROVE  TlsInv' /\ StepShows /\ BooksStay
<1> DEFINE z == Quiet
           c == [z.c EXCEPT !.posted = @ - 1]
           x == [z EXCEPT !.c = c, !.op = "none"]
           e == Spend(app, wants)
<1>1. /\ z \in TlsDatas /\ Settled(z) /\ Woken(z) /\ Loose(z) /\ Known(z, app)
      /\ app \in Apps /\ wire \in Seq(Kinds) /\ z.signal = "none"
      /\ z.op = d.op /\ z.out_pending = d.out_pending /\ z.layer = d.layer /\ z.c = d.c
      /\ d.out_pending \in Int
  BY QuietIs
<1> HIDE DEF z
<1>2. d.c.posted > 0
  BY DEF ResultsReady
<1>3. /\ d.op # "none" /\ z.c.posted = 1 /\ z.queue = <<>> /\ ~z.blocked /\ z.c \in TlsContexts
      /\ d.op \in {"Start", "Update"}
  BY <1>1, <1>2 DEF Settled, OpFits, TlsDatas
<1>4. /\ c \in TlsContexts /\ c.posted = 0 /\ c.mode = z.c.mode /\ c.result = z.c.result
      /\ c.to_net = z.c.to_net /\ c.encoded = z.c.encoded
  <2>1. c = [z.c EXCEPT !.posted = 0]
    BY <1>3
  <2> HIDE DEF c
  <2> QED BY <1>3, <2>1 DEF TlsContexts
<1>5. [Quiet EXCEPT !.c.posted = @ - 1, !.op = "none"] = x
  BY DEF z
<1> HIDE DEF c
<1>6. x \in TlsDatas
  BY <1>1, <1>4 DEF TlsDatas
<1>7. /\ x.c = c /\ x.op = "none" /\ x.state = z.state /\ x.blocked = z.blocked /\ x.queue = z.queue
      /\ x.need_update = z.need_update /\ x.emitted = z.emitted /\ x.out = z.out
      /\ x.out_pending = z.out_pending /\ x.from_net = z.from_net /\ x.in = z.in
  BY <1>1 DEF TlsDatas
<1>8. /\ x.to_net = z.to_net /\ x.to_net_encoded = z.to_net_encoded /\ x.layer = z.layer
      /\ x.signal = z.signal
  BY <1>1 DEF TlsDatas
<1>9. PICK q : q = IF d.op = "Start" THEN StartFinished(x, wants) ELSE UpdateFinished(x, wants)
  OBVIOUS
<1>10. Becomes(q, e) /\ wire' = wire
  <2>1. \A u : Becomes(CASE d.op = "none"  -> u
                         [] d.op = "Start" -> StartFinished(x, wants)
                         [] OTHER          -> UpdateFinished(x, wants), e)
                => Becomes(q, e)
    <3> HIDE DEF x
    <3> QED BY <1>3, <1>9
  <2>2. /\ Becomes(CASE d.op = "none"  -> [Quiet EXCEPT !.c.posted = @ - 1, !.asserted = TRUE]
                     [] d.op = "Start" -> StartFinished(x, wants)
                     [] OTHER          -> UpdateFinished(x, wants), e)
        /\ wire' = wire
    <3> HIDE DEF x
    <3> QED BY <1>5 DEF ResultsReady
  <2> QED BY <2>1, <2>2
<1> HIDE DEF x
<1>11. e \in Apps /\ e.steps = app.steps /\ Known(z, e)
       /\ e.chunks = app.chunks /\ e.sent = app.sent /\ e.told = app.told
  BY <1>1, SpendIs
<1> HIDE DEF e
<1>12. Loose(x) /\ Known(x, e) /\ Within(x)
  <2>1. Loose(x)
    BY <1>1, <1>7 DEF Loose
  <2>2. Known(x, e)
    BY <1>7, <1>8, <1>11 DEF Known
  <2>3. Within(x)
    BY <1>1, <1>7, <1>8 DEF Settled, BooksFit, Within
  <2> QED BY <2>1, <2>2, <2>3
<1>13. Leaves(x, q, e)
  <2>1. CASE d.op = "Start"
    <3>1. Started(x, e)
      BY <1>1, <1>3, <1>4, <1>6, <1>7, <1>8, <1>11, <1>12, <2>1 DEF Started, Settled, OpFits, ModeFits
    <3>2. q = StartFinished(x, wants)
      BY <1>9, <2>1
    <3> QED BY <3>1, <3>2, StartFinishedLeaves
  <2>2. CASE d.op = "Update"
    <3>1. z.op = "Update" /\ OpFits(z) /\ ModeFits(z) /\ BooksFit(z)
      BY <1>1, <2>2 DEF Settled
    <3>2. x.state \in {"Handshaking", "Connected", "Closing"}
      BY <1>7, <3>1 DEF OpFits
    <3>3. x.state = "Handshaking" => /\ x.c.result = "Success" => x.c.mode = "Active"
                                     /\ x.c.result = "Continue" => x.c.mode = "Handshake"
      BY <1>4, <1>7, <3>1 DEF ModeFits
    <3>4. x.state = "Connected" => x.c.mode = "Active"
      BY <1>4, <1>7, <3>1 DEF ModeFits
    <3>5. x.state = "Connected" /\ x.c.to_net # <<>> => x.c.encoded <= Plain(x.c.to_net)
      BY <1>4, <1>7, <3>1 DEF BooksFit
    <3>6. Returned(x, e)
      BY <1>1, <1>3, <1>4, <1>6, <1>7, <1>8, <1>11, <1>12, <3>2, <3>3, <3>4, <3>5 DEF Returned
    <3>7. q = UpdateFinished(x, wants)
      BY <1>9, <2>2
    <3> QED BY <3>6, <3>7, UpdateFinishedLeaves
  <2> QED BY <1>3, <2>1, <2>2
<1>14. wire' \in Seq(Kinds) /\ x.out_pending \in Int /\ x.out_pending <= d.out_pending
       /\ x.signal = "none"
  BY <1>1, <1>7, <1>8, <1>10
<1>15. /\ TlsInv' /\ StepShows /\ d'.layer = x.layer
       /\ app'.chunks = e.chunks /\ app'.sent = e.sent /\ app'.told = e.told
  BY <1>10, <1>11, <1>12, <1>13, <1>14, LeavesInv
<1>16. d.state # "Inactive"
  BY <1>3 DEF TlsInv, Settled, OpFits
<1> QED BY <1>1, <1>8, <1>11, <1>15, <1>16 DEF BooksStay

\* The action timer.
LEMMA DoNextActionStep ==
  ASSUME TlsInv, NEW wants \in BOOLEAN, DoNextAction(wants)
  PROVE  TlsInv' /\ StepShows /\ BooksStay
<1> DEFINE z == Quiet
           x == [z EXCEPT !.timer = FALSE]
           e == Spend(app, wants)
<1>1. /\ z \in TlsDatas /\ Settled(z) /\ Loose(z) /\ Known(z, app)
      /\ app \in Apps /\ wire \in Seq(Kinds) /\ z.signal = "none" /\ z.state = d.state
      /\ z.out_pending = d.out_pending /\ z.layer = d.layer /\ d.out_pending \in Int
  BY QuietIs
<1>2. PICK q : q = ProcessNextAction(x, wants)
  <2> HIDE DEF x
  <2> QED OBVIOUS
<1>3. Becomes(q, e) /\ wire' = wire
  BY <1>2 DEF DoNextAction
<1> HIDE DEF z
<1>4. x \in TlsDatas
  BY <1>1 DEF TlsDatas
<1>5. /\ x.c = z.c /\ x.op = z.op /\ x.state = z.state /\ x.blocked = z.blocked /\ x.queue = z.queue
      /\ x.need_update = z.need_update /\ x.emitted = z.emitted /\ x.out = z.out
      /\ x.out_pending = z.out_pending /\ x.from_net = z.from_net /\ x.in = z.in
  BY <1>1 DEF TlsDatas
<1>6. /\ x.to_net = z.to_net /\ x.to_net_encoded = z.to_net_encoded /\ x.layer = z.layer
      /\ x.signal = z.signal
  BY <1>1 DEF TlsDatas
<1> HIDE DEF x
<1>7. /\ e \in Apps /\ e.steps = app.steps /\ Known(z, e)
      /\ e.chunks = app.chunks /\ e.sent = app.sent /\ e.told = app.told
  BY <1>1, SpendIs
<1> HIDE DEF e
<1>8. Settled(x)
  BY <1>1, <1>4, <1>5, <1>6 DEF Settled, QueueFits, OpFits, ModeFits, BooksFit, Within, MayQueue
<1>9. Loose(x) /\ Known(x, e)
  BY <1>1, <1>5, <1>6, <1>7 DEF Loose, Known
<1>10. Leaves(x, q, e)
  BY <1>1, <1>2, <1>6, <1>7, <1>8, <1>9, NextLeaves
<1>11. wire' \in Seq(Kinds) /\ x.out_pending \in Int /\ x.out_pending <= d.out_pending /\ x.signal = "none"
  BY <1>1, <1>3, <1>5, <1>6
<1>12. /\ TlsInv' /\ StepShows /\ d'.state = q.state /\ d'.layer = x.layer
       /\ app'.chunks = e.chunks /\ app'.sent = e.sent /\ app'.told = e.told
  BY <1>3, <1>7, <1>9, <1>10, <1>11, LeavesInv
<1>13. x.state = "Inactive" => q.state = "Inactive"
  <2> SUFFICES ASSUME x.state = "Inactive" PROVE q.state = "Inactive"
    OBVIOUS
  <2>1. ToSet(x.queue) = {} /\ ~x.need_update
    BY <1>8 DEF Settled, QueueFits, OpFits, MayQueue
  <2>2. x.queue = <<>>
    <3>1. x.queue \in Seq(Actions)
      BY <1>4 DEF TlsDatas
    <3>2. x.queue # <<>> => Head(x.queue) \in ToSet(x.queue)
      BY <1>8, <3>1, QueueTails DEF Settled, QueueFits
    <3> QED BY <2>1, <3>2
  <2> QED BY <1>2, <2>1, <2>2 DEF ProcessNextAction
<1> QED BY <1>1, <1>5, <1>6, <1>7, <1>12, <1>13 DEF BooksStay

\* A call that changes the session to p, tells the application e, and updates.
LEMMA CallUpdates ==
  ASSUME TlsInv, NEW p, NEW e \in Apps, Settled(p), Known(p, e), p.signal = "none",
         p.state # "Inactive", d.state # "Inactive", p.queue # <<>> => p.timer,
         p.out_pending = d.out_pending, p.layer.list = d.layer.list,
         e.steps = app.steps, e.chunks = app.chunks, e.sent = app.sent, e.told = app.told,
         NEW wants, Becomes(TlsUpdate(p, wants), e), wire' \in Seq(Kinds)
  PROVE  TlsInv' /\ StepShows /\ BooksStay
<1>1. PICK q : q = TlsUpdate(p, wants)
  OBVIOUS
<1>2. Leaves(p, q, e)
  BY <1>1, UpdateLeaves
<1>3. p.out_pending \in Int /\ p.out_pending <= d.out_pending
  BY DEF Settled, TlsDatas
<1>4. /\ TlsInv' /\ StepShows /\ d'.state = q.state /\ d'.layer = p.layer
      /\ app'.chunks = e.chunks /\ app'.sent = e.sent /\ app'.told = e.told
  BY <1>1, <1>2, <1>3, LeavesInv
<1> QED BY <1>4 DEF BooksStay

\* write().
LEMMA WriteStep ==
  ASSUME TlsInv, NEW wants \in BOOLEAN, Write(wants)
  PROVE  TlsInv' /\ StepShows /\ BooksStay
<1> DEFINE z == Quiet
           l == AddPlain(z.layer, 1)
           n == z.out + 1
           x == [z EXCEPT !.out = n, !.layer = l]
           w == app.written + 1
           b == [app EXCEPT !.written = w]
           e == Spend(b, wants)
<1>1. /\ z \in TlsDatas /\ Settled(z) /\ Woken(z) /\ Known(z, app)
      /\ app \in Apps /\ wire \in Seq(Kinds) /\ z.signal = "none" /\ z.state = d.state
      /\ z.out_pending = d.out_pending /\ z.layer = d.layer /\ z.queue = d.queue /\ d.layer \in Layers
  BY QuietIs
<1>2. [Quiet EXCEPT !.out = @ + 1, !.layer = AddPlain(@, 1)] = x
  OBVIOUS
<1>3. Becomes(TlsUpdate(x, wants), e) /\ wire' = wire /\ d.state # "Inactive"
  <2>1. b = [app EXCEPT !.written = @ + 1]
    OBVIOUS
  <2> HIDE DEF b
  <2> QED BY <1>2, <2>1 DEF Write, InSession
<1> HIDE DEF z
<1>4. n \in Nat /\ l \in Layers /\ l.list = d.layer.list
  <2>1. z.out \in Nat
    BY <1>1 DEF TlsDatas
  <2>2. l = [z.layer EXCEPT !.p = z.layer.p + 1] /\ z.layer.p + 1 \in Nat
    BY <1>1 DEF AddPlain, Layers
  <2>3. l.list = d.layer.list
    BY <1>1, <2>2 DEF Layers
  <2>4. l \in Layers
    BY <1>1, <2>2 DEF Layers
  <2> QED BY <2>1, <2>3, <2>4
<1>5. /\ b \in Apps /\ b.unanswered = app.unanswered /\ b.steps = app.steps /\ b.toRead = app.toRead
      /\ b.toReadOutgoing = app.toReadOutgoing /\ b.chunks = app.chunks /\ b.sent = app.sent
      /\ b.told = app.told
  <2>1. w \in Nat
    BY <1>1 DEF Apps
  <2> HIDE DEF w
  <2> QED BY <1>1, <2>1 DEF Apps
<1> HIDE DEF l, n, b
<1>6. x \in TlsDatas
  BY <1>1, <1>4 DEF TlsDatas
<1>7. /\ x.c = z.c /\ x.op = z.op /\ x.state = z.state /\ x.blocked = z.blocked /\ x.queue = z.queue
      /\ x.need_update = z.need_update /\ x.emitted = z.emitted /\ x.timer = z.timer
      /\ x.out_pending = z.out_pending /\ x.from_net = z.from_net /\ x.in = z.in
  BY <1>1 DEF TlsDatas
<1>8. /\ x.to_net = z.to_net /\ x.to_net_encoded = z.to_net_encoded /\ x.layer = l
      /\ x.signal = z.signal
  BY <1>1 DEF TlsDatas
<1> HIDE DEF x
<1>9. Known(z, b)
  BY <1>1, <1>5 DEF Known
<1>10. /\ e \in Apps /\ e.steps = app.steps /\ Known(z, e)
       /\ e.chunks = app.chunks /\ e.sent = app.sent /\ e.told = app.told
  <2>1. /\ e \in Apps /\ e.steps = b.steps /\ (Known(z, b) => Known(z, e))
        /\ e.chunks = b.chunks /\ e.sent = b.sent /\ e.told = b.told
    BY <1>5, SpendIs
  <2> QED BY <1>5, <1>9, <2>1
<1> HIDE DEF e
<1>11. Settled(x)
  BY <1>1, <1>6, <1>7, <1>8 DEF Settled, QueueFits, OpFits, ModeFits, BooksFit, Within, MayQueue
<1>12. Known(x, e)
  BY <1>1, <1>7, <1>8, <1>10 DEF Known
<1>13. x.queue # <<>> => x.timer
  BY <1>1, <1>7 DEF Woken
<1> QED BY <1>1, <1>3, <1>4, <1>7, <1>8, <1>10, <1>11, <1>12, <1>13, CallUpdates

\* continueAfterStep().
LEMMA ContinueAfterStepStep ==
  ASSUME TlsInv, NEW step \in TlsSteps, NEW wants \in BOOLEAN, ContinueAfterStep(step, wants)
  PROVE  TlsInv' /\ StepShows /\ BooksStay
<1> DEFINE z == Quiet
           x == [z EXCEPT !.blocked = FALSE]
           un == app.unanswered \ {step}
           b == [app EXCEPT !.unanswered = un]
           e == Spend(b, wants)
<1>1. /\ z \in TlsDatas /\ Settled(z) /\ Woken(z) /\ Known(z, app)
      /\ app \in Apps /\ wire \in Seq(Kinds) /\ z.signal = "none" /\ z.state = d.state
      /\ z.out_pending = d.out_pending /\ z.layer = d.layer /\ z.queue = d.queue /\ z.blocked = d.blocked
      /\ d.out_pending \in Int
  BY QuietIs
<1>2. b = [app EXCEPT !.unanswered = @ \ {step}]
  BY <1>1 DEF Apps
<1>3. /\ Becomes(IF d.blocked THEN TlsUpdate(x, wants) ELSE z, e)
      /\ wire' = wire /\ step \in app.unanswered
  <2> HIDE DEF b
  <2> QED BY <1>2 DEF ContinueAfterStep
<1> HIDE DEF z
<1>4. un \in SUBSET Listens /\ app.unanswered \in SUBSET Listens
  BY <1>1 DEF Apps
<1>5. OneStep => un = {}
  BY <1>3, <1>4 DEF OneStep
<1> HIDE DEF un
<1>6. /\ b \in Apps /\ b.unanswered = un /\ b.steps = app.steps /\ b.toRead = app.toRead
      /\ b.toReadOutgoing = app.toReadOutgoing /\ b.chunks = app.chunks /\ b.sent = app.sent
      /\ b.told = app.told
  BY <1>1, <1>4 DEF Apps
<1> HIDE DEF b
<1>7. x \in TlsDatas
  BY <1>1 DEF TlsDatas
<1>8. /\ x.c = z.c /\ x.op = z.op /\ x.state = z.state /\ ~x.blocked /\ x.queue = z.queue
      /\ x.need_update = z.need_update /\ x.emitted = z.emitted /\ x.timer = z.timer
      /\ x.out_pending = z.out_pending /\ x.from_net = z.from_net /\ x.in = z.in
  BY <1>1 DEF TlsDatas
<1>9. /\ x.to_net = z.to_net /\ x.to_net_encoded = z.to_net_encoded /\ x.layer = z.layer
      /\ x.signal = z.signal
  BY <1>1 DEF TlsDatas
<1> HIDE DEF x
<1>10. Known(z, b) /\ Known(x, b)
  <2>1. "none" \notin TlsSteps
    BY DEF TlsSteps
  <2> QED BY <1>1, <1>5, <1>6, <1>8, <1>9, <2>1 DEF Known
<1>11. /\ e \in Apps /\ e.steps = app.steps /\ Known(z, e) /\ Known(x, e)
       /\ e.chunks = app.chunks /\ e.sent = app.sent /\ e.told = app.told
  <2>1. /\ e \in Apps /\ e.steps = b.steps /\ (Known(z, b) => Known(z, e))
        /\ (Known(x, b) => Known(x, e))
        /\ e.chunks = b.chunks /\ e.sent = b.sent /\ e.told = b.told
    BY <1>6, SpendIs
  <2> QED BY <1>6, <1>10, <2>1
<1> HIDE DEF e
<1>12. CASE d.blocked
  <2>1. z.state # "Inactive"
    BY <1>1, <1>12 DEF Settled, OpFits
  <2>2. Settled(x)
    <3>1. OpFits(x)
      BY <1>1, <1>8 DEF Settled, OpFits
    <3> QED BY <1>1, <1>7, <1>8, <1>9, <3>1 DEF Settled, QueueFits, ModeFits, BooksFit, Within, MayQueue
  <2>3. x.queue # <<>> => x.timer
    BY <1>1, <1>8 DEF Woken
  <2>4. Becomes(TlsUpdate(x, wants), e)
    BY <1>3, <1>12
  <2> QED BY <1>1, <1>3, <1>8, <1>9, <1>11, <2>1, <2>2, <2>3, <2>4, CallUpdates
<1>13. CASE ~d.blocked
  <2>1. Leaves(z, z, e) /\ Becomes(z, e)
    BY <1>1, <1>3, <1>11, <1>13, StaysLeaves
  <2>2. z.out_pending <= d.out_pending
    BY <1>1
  <2>3. /\ TlsInv' /\ StepShows /\ d'.state = z.state /\ d'.layer = z.layer
        /\ app'.chunks = e.chunks /\ app'.sent = e.sent /\ app'.told = e.told
    BY <1>1, <1>3, <1>11, <2>1, <2>2, LeavesInv
  <2> QED BY <1>1, <1>11, <2>3 DEF BooksStay
<1> QED BY <1>12, <1>13

\* close().
LEMMA CloseByAppStep ==
  ASSUME TlsInv, CloseByApp
  PROVE  TlsInv' /\ StepShows /\ BooksStay
<1>1. PICK z : z = Quiet
  OBVIOUS
<1>2. /\ z \in TlsDatas /\ Settled(z) /\ Woken(z) /\ Loose(z) /\ Known(z, app)
      /\ app \in Apps /\ wire \in Seq(Kinds) /\ z.signal = "none" /\ z.state = d.state
      /\ z.out_pending = d.out_pending /\ z.layer = d.layer /\ d.out_pending \in Int
  BY <1>1, QuietIs
<1>3. /\ d.state = "Connected" /\ wire' = wire /\ Becomes(TlsUpdate(Close(z), FALSE), app)
  BY <1>1 DEF CloseByApp
<1>4. PICK may \in BOOLEAN : may = z.maybe_input
  BY <1>2 DEF TlsDatas
<1>5. PICK x : x = Shut(z, may)
  OBVIOUS
<1>6. Ready(z, z, app)
  BY <1>2, <1>3 DEF Ready
<1>7. Ready(z, x, app) /\ x.queue = z.queue /\ x.timer = z.timer
  BY <1>2, <1>3, <1>5, <1>6, CloseIsReady
<1>8. x = Close(z) /\ x.out_pending = z.out_pending
  BY <1>2, <1>3, <1>4, <1>5 DEF Shut, Close, TlsDatas
<1>9. /\ Settled(x) /\ Known(x, app) /\ x.signal = "none" /\ x.state # "Inactive" /\ x.layer = z.layer
  BY <1>7 DEF Ready
<1>10. x.queue # <<>> => x.timer
  BY <1>2, <1>7 DEF Woken
<1>11. Becomes(TlsUpdate(x, FALSE), app)
  BY <1>3, <1>8
<1>12. d.state # "Inactive" /\ x.out_pending = d.out_pending /\ x.layer.list = d.layer.list
  BY <1>2, <1>3, <1>8, <1>9
<1> QED BY <1>2, <1>3, <1>9, <1>10, <1>11, <1>12, CallUpdates

\* read().
LEMMA TlsReadStep ==
  ASSUME TlsInv, TlsRead
  PROVE  TlsInv' /\ StepShows /\ BooksStay
<1> DEFINE z == Quiet
           x == [z EXCEPT !.in = 0]
           e == [app EXCEPT !.toRead = FALSE]
<1>1. /\ z \in TlsDatas /\ Settled(z) /\ Woken(z) /\ Known(z, app)
      /\ app \in Apps /\ wire \in Seq(Kinds) /\ z.signal = "none" /\ z.state = d.state
      /\ z.out_pending = d.out_pending /\ z.layer = d.layer /\ d.out_pending \in Int
  BY QuietIs
<1>2. Becomes(x, e) /\ wire' = wire
  BY DEF TlsRead
<1> HIDE DEF z
<1>3. /\ e \in Apps /\ e.unanswered = app.unanswered /\ e.steps = app.steps
      /\ e.toReadOutgoing = app.toReadOutgoing /\ e.chunks = app.chunks /\ e.sent = app.sent
      /\ e.told = app.told
  BY <1>1 DEF Apps
<1> HIDE DEF e
<1>4. x \in TlsDatas /\ x.in = 0
  BY <1>1 DEF TlsDatas
<1>5. /\ x.c = z.c /\ x.op = z.op /\ x.state = z.state /\ x.blocked = z.blocked /\ x.queue = z.queue
      /\ x.need_update = z.need_update /\ x.emitted = z.emitted /\ x.timer = z.timer /\ x.out = z.out
      /\ x.out_pending = z.out_pending /\ x.from_net = z.from_net
  BY <1>1 DEF TlsDatas
<1>6. /\ x.to_net = z.to_net /\ x.to_net_encoded = z.to_net_encoded /\ x.layer = z.layer
      /\ x.signal = z.signal
  BY <1>1 DEF TlsDatas
<1> HIDE DEF x
<1>7. Settled(x)
  BY <1>1, <1>4, <1>5, <1>6 DEF Settled, QueueFits, OpFits, ModeFits, BooksFit, Within, MayQueue
<1>8. Woken(x)
  BY <1>1, <1>5 DEF Woken
<1>9. Known(x, e)
  BY <1>1, <1>3, <1>4, <1>5, <1>6 DEF Known
<1>10. Leaves(x, x, e)
  BY <1>7, <1>8, <1>9, StaysLeaves
<1>11. x.out_pending \in Int /\ x.out_pending <= d.out_pending /\ x.signal = "none"
  BY <1>1, <1>5, <1>6
<1>12. /\ TlsInv' /\ StepShows /\ d'.state = x.state /\ d'.layer = x.layer
       /\ app'.chunks = e.chunks /\ app'.sent = e.sent /\ app'.told = e.told
  BY <1>1, <1>2, <1>3, <1>9, <1>10, <1>11, LeavesInv
<1> QED BY <1>1, <1>3, <1>5, <1>6, <1>12 DEF BooksStay

\* writeIncoming().
LEMMA WriteIncomingStep ==
  ASSUME TlsInv, AppCalls \subseteq {"convert"}, NEW n \in 1 .. MaxChunk, NEW wants \in BOOLEAN,
         WriteIncoming(n, wants)
  PROVE  TlsInv' /\ StepShows /\ BooksStay
<1> DEFINE z == Quiet
           f == z.from_net \o SubSeq(wire, 1, n)
           x == [z EXCEPT !.from_net = f]
           e == Spend(app, wants)
<1>1. /\ z \in TlsDatas /\ Settled(z) /\ Woken(z) /\ Known(z, app)
      /\ app \in Apps /\ wire \in Seq(Kinds) /\ z.signal = "none" /\ z.state = d.state
      /\ z.out_pending = d.out_pending /\ z.layer = d.layer /\ d.out_pending \in Int
  BY QuietIs
<1>2. /\ Becomes(TlsUpdate(x, wants), e) /\ wire' = SubSeq(wire, n + 1, Len(wire)) /\ d.state # "Inactive"
      /\ n <= Len(wire)
  BY DEF WriteIncoming, InSession
<1> HIDE DEF z
<1>3. f \in Seq(Kinds) /\ wire' \in Seq(Kinds)
  <2>1. n \in Nat /\ n > 0 /\ Len(wire) \in Nat
    BY <1>1, TLSAssumption
  <2>2. SubSeq(wire, 1, n) \in Seq(Kinds) /\ SubSeq(wire, n + 1, Len(wire)) \in Seq(Kinds)
    BY <1>1, <1>2, <2>1
  <2>3. z.from_net \in Seq(Kinds)
    BY <1>1 DEF TlsDatas
  <2> QED BY <1>2, <2>2, <2>3
<1> HIDE DEF f
<1>4. x \in TlsDatas
  BY <1>1, <1>3 DEF TlsDatas
<1>5. /\ x.c = z.c /\ x.op = z.op /\ x.state = z.state /\ x.blocked = z.blocked /\ x.queue = z.queue
      /\ x.need_update = z.need_update /\ x.emitted = z.emitted /\ x.timer = z.timer /\ x.out = z.out
      /\ x.out_pending = z.out_pending /\ x.in = z.in
  BY <1>1 DEF TlsDatas
<1>6. /\ x.to_net = z.to_net /\ x.to_net_encoded = z.to_net_encoded /\ x.layer = z.layer
      /\ x.signal = z.signal
  BY <1>1 DEF TlsDatas
<1> HIDE DEF x
<1>7. /\ e \in Apps /\ e.steps = app.steps /\ Known(z, e)
      /\ e.chunks = app.chunks /\ e.sent = app.sent /\ e.told = app.told
  BY <1>1, SpendIs
<1> HIDE DEF e
<1>8. Settled(x)
  BY <1>1, <1>4, <1>5, <1>6 DEF Settled, QueueFits, OpFits, ModeFits, BooksFit, Within, MayQueue
<1>9. Known(x, e)
  BY <1>1, <1>5, <1>6, <1>7 DEF Known
<1>10. x.queue # <<>> => x.timer
  BY <1>1, <1>5 DEF Woken
<1> QED BY <1>1, <1>2, <1>3, <1>5, <1>6, <1>7, <1>8, <1>9, <1>10, CallUpdates

\* The peer.
LEMMA PeerSendsStep ==
  ASSUME TlsInv, NEW kind \in {"hs", "app", "fin", "bad", "raw"}, PeerSends(kind)
  PROVE  TlsInv' /\ StepShows /\ BooksStay
<1>1. d' = d /\ app' = app /\ wire' = Append(wire, kind)
  BY DEF PeerSends
<1>2. wire' \in Seq(Kinds)
  BY <1>1 DEF TlsInv, Kinds
<1>3. d.out_pending \in Int
  BY QuietIs
<1> QED BY <1>1, <1>2, <1>3 DEF TlsInv, StepShows, BooksStay

\* The session ends, and its data with it, where there is no result owed.
LEMMA ResetDataDoes ==
  ASSUME TlsInv, d.c.posted = 0, NEW q, q = ResetSessionAndData(Quiet)
  PROVE  /\ Settled(q) /\ Woken(q) /\ q.signal = "none" /\ q.state = "Inactive" /\ q.queue = <<>>
         /\ ~q.blocked /\ ~q.need_update /\ q.in = 0 /\ q.to_net = <<>> /\ q.from_net = <<>>
         /\ q.to_net_encoded = 0 /\ q.layer = NoLayer /\ q.emitted = {} /\ q.out = 0 /\ q.op = "none"
         /\ q.c.posted = 0
<1> DEFINE z == Quiet
           c == ContextReset(z.c)
           x == [z EXCEPT !.state = "Inactive", !.blocked = FALSE, !.server = FALSE, !.op = "none",
                   !.queue = <<>>, !.timer = FALSE, !.need_update = FALSE, !.maybe_input = FALSE,
                   !.emitted = {}, !.out = 0, !.out_pending = 0, !.c = c,
                   !.in = 0, !.to_net = <<>>, !.from_net = <<>>, !.unprocessed = <<>>,
                   !.to_net_encoded = 0, !.layer = NoLayer]
<1>1. z \in TlsDatas /\ z.c = d.c /\ z.signal = "none"
  BY QuietIs
<1>2. c \in TlsContexts /\ c.posted = 0
  <2>1. z.c \in TlsContexts
    BY <1>1 DEF TlsDatas
  <2> QED BY <1>1, <2>1, ContextResets
<1>3. q = x
  <2>1. z \in TlsDatas
    BY <1>1
  <2>2. q = ResetSessionAndData(z)
    OBVIOUS
  <2> HIDE DEF z
  <2> QED BY <2>1, <2>2 DEF ResetSessionAndData, ResetSession, TlsDatas
<1> HIDE DEF z, c
<1>4. /\ "Inactive" \in States /\ NoLayer \in Layers /\ 0 \in Int /\ <<>> \in Seq(Actions)
      /\ <<>> \in Seq(Kinds) /\ <<>> \in Seq(Records)
  BY DEF States, NoLayer, Layers
<1>5. x \in TlsDatas
  <2> DEFINE no == NoLayer
  <2>1. no \in Layers
    BY <1>4
  <2> HIDE DEF no
  <2> QED BY <1>1, <1>2, <1>4, <2>1 DEF TlsDatas
<1>6. /\ x.state = "Inactive" /\ ~x.blocked /\ x.op = "none" /\ x.queue = <<>>
      /\ ~x.need_update /\ x.emitted = {} /\ x.out = 0 /\ x.c = c
  BY <1>1 DEF TlsDatas
<1>7. /\ x.in = 0 /\ x.to_net = <<>> /\ x.from_net = <<>> /\ x.to_net_encoded = 0 /\ x.layer = NoLayer
      /\ x.signal = "none"
  BY <1>1 DEF TlsDatas
<1> HIDE DEF x
<1>8. QueueFits(x)
  BY <1>6, NoneQueued DEF QueueFits, InOrder
<1>9. OpFits(x)
  BY <1>2, <1>6 DEF OpFits
<1>10. ModeFits(x)
  BY <1>6 DEF ModeFits
<1>11. BooksFit(x)
  <2>1. Plain(<<>>) = 0
    <3>1. \A r : r.plain \in Nat => Plain(<<>>) = 0
      BY PlainOfFew
    <3>2. [plain |-> 0].plain \in Nat
      OBVIOUS
    <3> QED BY <3>1, <3>2
  <2> QED BY <1>6, <1>7, <2>1, NoneQueued DEF BooksFit, Within
<1>12. Woken(x)
  BY <1>6 DEF Woken
<1> QED BY <1>2, <1>3, <1>5, <1>6, <1>7, <1>8, <1>9, <1>10, <1>11, <1>12 DEF Settled

----------------------------------------------------------------------------
(* What convertBytesWritten() has reported.                                  *)

\* Some first chunks have been sent, and held all that was reported.
Honest(chunks, sent, told) ==
  \E k \in 0 .. Len(chunks) : BytesTo(chunks, k) <= sent /\ told <= PlainTo(chunks, k)

\* An account that fits is an honest one.
LEMMA AccountedIsHonest ==
  ASSUME NEW list, NEW chunks, NEW sent, NEW told, Accounted(list, chunks, sent, told)
  PROVE  Honest(chunks, sent, told)
BY DEF Accounted, AccountedFrom, Honest

\* No chunk is accounted for by no item.
LEMMA NothingAccounted == Accounted(<<>>, <<>>, 0, 0)
<1> DEFINE none == <<>>
<1>1. none \in Seq(Chunks) /\ Len(none) = 0
  OBVIOUS
<1> HIDE DEF none
<1>2. BytesTo(none, 0) = 0 /\ PlainTo(none, 0) = 0 /\ BytesTo(none, Len(none)) = BytesOf(none)
  BY <1>1, PrefixSums
<1>3. AccountedFrom(0, <<>>, none, 0, 0)
  BY <1>1, <1>2 DEF AccountedFrom
<1>4. 0 \in 0 .. Len(none) /\ 0 <= BytesOf(none)
  BY <1>1, <1>2
<1>5. Accounted(<<>>, none, 0, 0)
  BY <1>3, <1>4 DEF Accounted
<1> QED BY <1>5 DEF none

\* The first chunks are the same with one chunk more.
Longer(more, chunks, r) ==
  /\ more \in Seq(Chunks) /\ Len(more) = Len(chunks) + 1 /\ more[Len(chunks) + 1] = r
  /\ \A i \in 1 .. Len(chunks) : more[i] = chunks[i]
  /\ \A k \in 0 .. Len(chunks) : /\ BytesTo(more, k) = BytesTo(chunks, k)
                                 /\ PlainTo(more, k) = PlainTo(chunks, k)
  /\ BytesTo(more, Len(chunks) + 1) = BytesOf(chunks) + r.size
  /\ BytesOf(more) = BytesOf(chunks) + r.size

\* A chunk that is appended leaves the sums of those before it alone.
LEMMA OneChunkMore ==
  ASSUME NEW chunks \in Seq(Chunks), NEW r \in Chunks, NEW more, more = Append(chunks, r)
  PROVE  Longer(more, chunks, r)
<1> DEFINE n == Len(chunks)
<1>1. /\ more \in Seq(Chunks) /\ Len(more) = n + 1 /\ more[n + 1] = r /\ n \in Nat
      /\ \A i \in 1 .. n : more[i] = chunks[i]
  BY AppendIs
<1>2. ASSUME NEW k \in 0 .. n PROVE SubSeq(more, 1, k) = SubSeq(chunks, 1, k)
  <2> DEFINE s == SubSeq(more, 1, k)
             t == SubSeq(chunks, 1, k)
  <2>1. k \in Nat /\ k <= n /\ k <= n + 1
    BY <1>1
  <2>2. s \in Seq(Chunks) /\ t \in Seq(Chunks)
    BY <1>1, <2>1
  <2>3. Len(s) = k /\ Len(t) = k
    BY <1>1, <2>1
  <2>4. \A i \in 1 .. k : s[i] = more[i] /\ t[i] = chunks[i]
    BY <1>1, <2>1
  <2>5. \A i \in 1 .. k : s[i] = t[i]
    BY <1>1, <2>1, <2>4
  <2> HIDE DEF s, t
  <2> QED BY <2>2, <2>3, <2>5, SeqEqual
<1>3. \A k \in 0 .. n : BytesTo(more, k) = BytesTo(chunks, k) /\ PlainTo(more, k) = PlainTo(chunks, k)
  BY <1>2 DEF BytesTo, PlainTo
<1>4. BytesTo(chunks, n) = BytesOf(chunks)
  BY PrefixSums
<1>5. BytesTo(more, n + 1) = BytesTo(more, (n + 1) - 1) + more[n + 1].size
      /\ BytesTo(more, n + 1) = BytesOf(more)
  <2>1. n + 1 \in 1 .. Len(more)
    BY <1>1
  <2> HIDE DEF n
  <2> QED BY <1>1, <2>1, PrefixSums
<1>6. (n + 1) - 1 = n /\ n \in 0 .. n
  BY <1>1
<1>7. BytesTo(more, n + 1) = BytesOf(chunks) + r.size
  BY <1>1, <1>3, <1>4, <1>5, <1>6
<1> QED BY <1>1, <1>3, <1>5, <1>7 DEF Longer

\* A chunk that is handed over claims no more plain bytes than it holds.
LEMMA ChunkAccounted ==
  ASSUME NEW list \in Seq(Items), NEW chunks \in Seq(Chunks), NEW sent \in Nat, NEW told \in Int,
         Accounted(list, chunks, sent, told),
         NEW r \in Chunks, NEW i \in Items, i.encoded = r.size, i.plain <= r.plain
  PROVE  Accounted(Append(list, i), Append(chunks, r), sent, told)
<1>1. PICK k \in 0 .. Len(chunks) : AccountedFrom(k, list, chunks, sent, told)
  BY DEF Accounted
<1> DEFINE n == Len(chunks)
           m == Len(list)
           more == Append(chunks, r)
           items == Append(list, i)
<1>2. /\ more \in Seq(Chunks) /\ Len(more) = n + 1 /\ more[n + 1] = r
      /\ \A j \in 1 .. n : more[j] = chunks[j]
      /\ \A j \in 0 .. n : BytesTo(more, j) = BytesTo(chunks, j) /\ PlainTo(more, j) = PlainTo(chunks, j)
      /\ BytesTo(more, n + 1) = BytesOf(chunks) + r.size
      /\ BytesOf(more) = BytesOf(chunks) + r.size
  <2>1. Longer(more, chunks, r)
    <3> HIDE DEF more
    <3>1. more = Append(chunks, r)
      BY DEF more
    <3> QED BY <3>1, OneChunkMore
  <2> HIDE DEF more
  <2> QED BY <2>1 DEF Longer
<1>3. /\ items \in Seq(Items) /\ Len(items) = m + 1 /\ items[m + 1] = i
      /\ \A j \in 1 .. m : items[j] = list[j]
  BY AppendIs
<1>4. n \in Nat /\ m \in Nat /\ k \in Nat /\ m = n - k /\ k <= n
  BY <1>1 DEF AccountedFrom
<1>5. r.size \in Nat /\ i.encoded \in Nat /\ sent <= BytesOf(chunks) /\ BytesOf(chunks) \in Nat
      /\ BytesTo(chunks, n) = BytesOf(chunks)
  <2>1. BytesTo(chunks, n) = BytesOf(chunks) /\ BytesTo(chunks, n) \in Nat
    BY <1>4, PrefixSums
  <2> QED BY <2>1 DEF Accounted, Chunks, Items
<1> HIDE DEF n, m, more, items
<1>6. AccountedFrom(k, items, more, sent, told)
  <2>1. Len(items) = Len(more) - k
    BY <1>2, <1>3, <1>4
  <2>2. ASSUME NEW j \in 1 .. Len(items)
        PROVE  /\ items[j].plain <= more[k + j].plain
               /\ j > 1 => items[j].encoded = more[k + j].size
    <3>1. CASE j = m + 1
      <4>1. k + j = n + 1
        BY <1>4, <3>1
      <4> QED BY <1>2, <1>3, <3>1, <4>1
    <3>2. CASE j # m + 1
      <4>1. j \in 1 .. m /\ k + j \in 1 .. n
        BY <1>3, <1>4, <3>2
      <4>2. items[j] = list[j] /\ more[k + j] = chunks[k + j]
        BY <1>2, <1>3, <4>1
      <4>3. /\ list[j].plain <= chunks[k + j].plain
            /\ j > 1 => list[j].encoded = chunks[k + j].size
        BY <1>1, <4>1 DEF AccountedFrom, m
      <4> QED BY <4>2, <4>3
    <3> QED BY <3>1, <3>2
  <2>3. k \in 0 .. n
    BY <1>4
  <2>4. BytesTo(more, k) <= sent /\ told <= PlainTo(more, k)
    BY <1>1, <1>2, <2>3 DEF AccountedFrom
  <2>5. BytesTo(more, k + 1) = sent + items[1].encoded
    <3>1. CASE m = 0
      <4>1. k = n /\ items[1] = i
        BY <1>3, <1>4, <3>1
      <4>2. sent = BytesOf(chunks)
        <5>1. BytesOf(chunks) <= sent
          BY <1>1, <1>5, <4>1 DEF AccountedFrom
        <5> QED BY <1>5, <5>1
      <4> QED BY <1>2, <4>1, <4>2
    <3>2. CASE m # 0
      <4>1. k + 1 \in 0 .. n /\ 1 \in 1 .. m
        BY <1>4, <3>2
      <4>2. list # <<>>
        BY <3>2 DEF m
      <4>3. BytesTo(chunks, k + 1) = sent + list[1].encoded
        BY <1>1, <4>2 DEF AccountedFrom
      <4> QED BY <1>2, <1>3, <4>1, <4>3
    <3> QED BY <3>1, <3>2
  <2> QED BY <2>1, <2>2, <2>4, <2>5 DEF AccountedFrom
<1>7. sent <= BytesOf(more) /\ k \in 0 .. Len(more)
  BY <1>2, <1>4, <1>5
<1>8. Accounted(items, more, sent, told)
  BY <1>6, <1>7 DEF Accounted
<1> QED BY <1>8 DEF items, more

\* What a step keeps of the account.
BooksKept == MinEncoded <= 0 /\ BooksInv => BooksInv'

\* The invariant of the account by the state of the session.
LEMMA BooksAre ==
  /\ BooksInv <=> /\ Honest(app.chunks, app.sent, app.told)
                  /\ d.state # "Inactive" => Accounted(d.layer.list, app.chunks, app.sent, app.told)
  /\ BooksInv' <=> /\ Honest(app'.chunks, app'.sent, app'.told)
                   /\ d'.state # "Inactive" => Accounted(d'.layer.list, app'.chunks, app'.sent, app'.told)
BY DEF BooksInv, NeverOverReports, Honest, BytesTo, PlainTo, InSession

\* Where nothing of the account changes it stays kept.
LEMMA StaysKept ==
  ASSUME BooksStay
  PROVE  BooksKept
BY BooksAre DEF BooksStay, BooksKept

\* reset() when no result is owed.
LEMMA ResetByAppStep ==
  ASSUME TlsInv, AppCalls \subseteq {"convert"}, ResetByApp
  PROVE  TlsInv' /\ StepShows /\ BooksKept
<1> DEFINE z == Quiet
           e == [app EXCEPT !.unanswered = {}, !.toRead = FALSE, !.toReadOutgoing = FALSE]
<1>1. /\ Settled(z) /\ Known(z, app) /\ app \in Apps /\ wire \in Seq(Kinds) /\ z.op = d.op /\ z.c = d.c
  BY QuietIs
<1>2. d.c.posted = 0
  BY <1>1 DEF ResetByApp, Settled, OpFits
<1>3. PICK q : q = ResetSessionAndData(z)
  OBVIOUS
<1>4. /\ Settled(q) /\ Woken(q) /\ q.signal = "none" /\ q.state = "Inactive" /\ q.queue = <<>>
      /\ ~q.blocked /\ q.in = 0 /\ q.to_net = <<>> /\ q.emitted = {}
  BY <1>2, <1>3, ResetDataDoes
<1>5. Becomes(q, e) /\ wire' = wire
  BY <1>3 DEF ResetByApp
<1> HIDE DEF z
<1>6. /\ e \in Apps /\ e.unanswered = {} /\ e.steps = app.steps /\ e.chunks = app.chunks
      /\ e.sent = app.sent /\ e.told = app.told
  BY <1>1 DEF Apps
<1> HIDE DEF e
<1>7. Known(q, e)
  BY <1>4, <1>6 DEF Known, TlsSteps
<1>8. Leaves(q, q, e) /\ q.out_pending \in Int
  BY <1>4, <1>7, StaysLeaves
<1>9. /\ TlsInv' /\ StepShows /\ d'.state = q.state
      /\ app'.chunks = e.chunks /\ app'.sent = e.sent /\ app'.told = e.told
  BY <1>1, <1>4, <1>5, <1>6, <1>7, <1>8, LeavesInv
<1> QED BY <1>4, <1>6, <1>9, BooksAre DEF BooksKept

\* startClient() and startServer().
LEMMA StartStep ==
  ASSUME TlsInv, AppCalls \subseteq {"convert"}, NEW server \in BOOLEAN, NEW ok \in BOOLEAN,
         Start(server, ok)
  PROVE  TlsInv' /\ StepShows /\ BooksKept
<1> DEFINE z == Quiet
           e == [app EXCEPT !.sessions = @ + 1, !.written = 0, !.unanswered = {},
                            !.toRead = FALSE, !.toReadOutgoing = FALSE, !.chunks = <<>>,
                            !.sent = 0, !.told = 0, !.plainBytes = 0, !.steps = {}]
<1>1. /\ Settled(z) /\ app \in Apps /\ wire \in Seq(Kinds) /\ z.op = d.op /\ z.c = d.c
      /\ z.state = d.state /\ z \in TlsDatas
  BY QuietIs
<1>2. d.state = "Inactive"
  BY DEF Start, InSession
<1>3. d.c.posted = 0
  <2>1. z.op = "none"
    BY <1>1, <1>2 DEF Settled, OpFits, TlsDatas
  <2> QED BY <1>1, <2>1 DEF Settled, OpFits
<1>4. PICK p : p = ResetSessionAndData(z)
  OBVIOUS
<1>5. /\ Settled(p) /\ p.signal = "none" /\ p.queue = <<>>
      /\ ~p.blocked /\ ~p.need_update /\ p.in = 0 /\ p.to_net = <<>> /\ p.from_net = <<>>
      /\ p.layer = NoLayer /\ p.emitted = {} /\ p.c.posted = 0
  BY <1>3, <1>4, ResetDataDoes
<1> DEFINE c == ContextStart(p.c, server, ok)
           x == [p EXCEPT !.state = "Initializing", !.server = server, !.op = "Start", !.c = c]
<1>6. Becomes(x, e) /\ wire' = <<>>
  <2>1. [p EXCEPT !.state = "Initializing", !.server = server, !.op = "Start",
                  !.c = ContextStart(@, server, ok)] = x
    OBVIOUS
  <2> HIDE DEF x, e
  <2>2. Becomes([p EXCEPT !.state = "Initializing", !.server = server, !.op = "Start",
                          !.c = ContextStart(@, server, ok)], e) /\ wire' = <<>>
    BY <1>4 DEF Start, e
  <2> QED BY <2>1, <2>2
<1> HIDE DEF z
<1>7. /\ e \in Apps /\ e.unanswered = {} /\ e.steps = {} /\ e.chunks = <<>>
      /\ e.sent = 0 /\ e.told = 0
  <2> DEFINE n == app.sessions + 1
             w == [app EXCEPT !.sessions = n, !.written = 0, !.unanswered = {},
                            !.toRead = FALSE, !.toReadOutgoing = FALSE, !.chunks = <<>>,
                            !.sent = 0, !.told = 0, !.plainBytes = 0, !.steps = {}]
  <2>1. e = w
    OBVIOUS
  <2>2. n \in Nat /\ <<>> \in Seq(Chunks) /\ 0 \in Int /\ 0 \in Nat
    BY <1>1 DEF Apps
  <2> HIDE DEF n, e
  <2>3. w \in Apps
    BY <1>1, <2>2 DEF Apps
  <2>4. w.unanswered = {} /\ w.steps = {} /\ w.chunks = <<>> /\ w.sent = 0 /\ w.told = 0
    BY <1>1 DEF Apps
  <2> QED BY <2>1, <2>3, <2>4
<1> HIDE DEF e
<1>8. p \in TlsDatas /\ p.c \in TlsContexts
  BY <1>5 DEF Settled, TlsDatas
<1>9. c \in TlsContexts /\ c.posted = 1 /\ (c.result = "Success" => c.mode = "Handshake")
  <2>1. /\ c \in TlsContexts /\ c.posted = p.c.posted + 1
        /\ c.result = "Success" => c.mode = "Handshake"
    BY <1>8, ContextStarts
  <2> QED BY <1>5, <2>1
<1> HIDE DEF c
<1>10. x \in TlsDatas
  <2>1. "Initializing" \in States
    BY DEF States
  <2> QED BY <1>8, <1>9, <2>1 DEF TlsDatas
<1>11. /\ x.c = c /\ x.op = "Start" /\ x.state = "Initializing" /\ x.blocked = p.blocked
       /\ x.queue = p.queue /\ x.need_update = p.need_update /\ x.emitted = p.emitted
       /\ x.from_net = p.from_net /\ x.in = p.in
  BY <1>8 DEF TlsDatas
<1>12. /\ x.to_net = p.to_net /\ x.to_net_encoded = p.to_net_encoded /\ x.layer = p.layer
       /\ x.signal = p.signal
  BY <1>8 DEF TlsDatas
<1> HIDE DEF x
<1>13. QueueFits(x)
  BY <1>5, <1>11, NoneQueued DEF QueueFits, InOrder
<1>14. OpFits(x)
  BY <1>5, <1>9, <1>11 DEF OpFits
<1>15. ModeFits(x)
  BY <1>9, <1>11 DEF ModeFits
<1>16. BooksFit(x)
  BY <1>5, <1>11, <1>12, NoneQueued DEF Settled, BooksFit, Within
<1>17. Settled(x) /\ Woken(x)
  BY <1>5, <1>10, <1>11, <1>13, <1>14, <1>15, <1>16 DEF Settled, Woken
<1>18. Known(x, e)
  BY <1>5, <1>7, <1>11, <1>12 DEF Known, TlsSteps
<1>19. Leaves(x, x, e) /\ x.out_pending \in Int
  BY <1>17, <1>18, StaysLeaves
<1>20. /\ TlsInv' /\ StepShows /\ d'.layer = x.layer
       /\ app'.chunks = e.chunks /\ app'.sent = e.sent /\ app'.told = e.told
  BY <1>5, <1>6, <1>7, <1>12, <1>18, <1>19, Empties, LeavesInv
<1>21. Accounted(d'.layer.list, app'.chunks, app'.sent, app'.told)
  <2>1. d'.layer.list = <<>>
    BY <1>5, <1>12, <1>20 DEF NoLayer
  <2> QED BY <1>7, <1>20, <2>1, NothingAccounted
<1>22. Honest(app'.chunks, app'.sent, app'.told)
  BY <1>21, AccountedIsHonest
<1> QED BY <1>20, <1>21, <1>22, BooksAre DEF BooksKept

\* readOutgoing(): a chunk goes to the application, and an item to the layer.
LEMMA ReadOutgoingStep ==
  ASSUME TlsInv, ReadOutgoing
  PROVE  TlsInv' /\ StepShows /\ BooksKept
<1> DEFINE z == Quiet
           l == SpecifyEncoded(z.layer, Size(d.to_net), d.to_net_encoded)
           x == [z EXCEPT !.to_net = <<>>, !.to_net_encoded = 0, !.layer = l]
           r == [size |-> Size(d.to_net), plain |-> Plain(d.to_net)]
           more == Append(app.chunks, r)
           e == [app EXCEPT !.toReadOutgoing = FALSE, !.plainBytes = d.to_net_encoded, !.chunks = more]
<1>1. /\ z \in TlsDatas /\ Settled(z) /\ Woken(z) /\ Known(z, app)
      /\ app \in Apps /\ wire \in Seq(Kinds) /\ z.signal = "none" /\ z.state = d.state
      /\ z.out_pending = d.out_pending /\ z.layer = d.layer /\ d.out_pending \in Int /\ d.layer \in Layers
      /\ z.to_net = d.to_net /\ z.to_net_encoded = d.to_net_encoded /\ d \in TlsDatas
  BY QuietIs
<1>2. Becomes(x, e) /\ wire' = wire
  BY DEF ReadOutgoing
<1> HIDE DEF z
<1>3. /\ d.to_net \in Seq(Records) /\ d.to_net_encoded \in Int /\ Size(d.to_net) \in Nat
      /\ Plain(d.to_net) \in Nat /\ app.chunks \in Seq(Chunks) /\ r \in Chunks
  <2>1. d.to_net \in Seq(Records) /\ d.to_net_encoded \in Int /\ app.chunks \in Seq(Chunks)
    BY <1>1 DEF TlsDatas, Apps
  <2>2. \A i \in Records : i.plain \in Nat
    BY DEF Records
  <2>3. Size(d.to_net) \in Nat
    BY <2>1, <2>2, SizeNat
  <2>4. Plain(d.to_net) \in Nat
    BY <2>1, ToNetJoins
  <2> QED BY <2>1, <2>3, <2>4 DEF Chunks
<1>4. PICK i \in Items : /\ l \in Layers /\ l.list = Append(d.layer.list, i)
                         /\ i.encoded = r.size /\ i.plain <= d.to_net_encoded
  <2> DEFINE claimed == IF d.to_net_encoded > d.layer.p THEN d.layer.p ELSE d.to_net_encoded
             i == [plain |-> claimed, encoded |-> Size(d.to_net)]
             all == Append(d.layer.list, i)
  <2>1. d.layer.p \in Nat /\ d.layer.list \in Seq(Items)
    BY <1>1 DEF Layers
  <2>2. claimed \in Int /\ claimed <= d.to_net_encoded /\ d.layer.p - claimed \in Nat
    BY <1>3, <2>1
  <2>3. i \in Items /\ i.encoded = r.size /\ i.plain <= d.to_net_encoded
    <3> HIDE DEF claimed
    <3> QED BY <1>3, <2>2 DEF Items
  <2>4. l = [p |-> d.layer.p - claimed, list |-> all]
    BY <1>1 DEF SpecifyEncoded
  <2>5. all \in Seq(Items)
    <3> HIDE DEF i
    <3> QED BY <2>1, <2>3
  <2>6. l \in Layers /\ l.list = all
    <3> HIDE DEF all, claimed
    <3> QED BY <2>2, <2>4, <2>5 DEF Layers
  <2> HIDE DEF i, l
  <2> QED BY <2>3, <2>6
<1>5. Longer(more, app.chunks, r)
  <2> DEFINE chunk == r
  <2>1. chunk \in Chunks /\ more = Append(app.chunks, chunk)
    BY <1>3
  <2> HIDE DEF chunk, more
  <2>2. Longer(more, app.chunks, chunk)
    BY <1>3, <2>1, OneChunkMore
  <2> QED BY <2>2 DEF chunk
<1>6. r.size = Size(d.to_net) /\ r.plain = Plain(d.to_net) /\ more \in Seq(Chunks)
  BY <1>5 DEF Longer
<1> HIDE DEF r, l, more
<1>7. /\ e \in Apps /\ e.unanswered = app.unanswered /\ e.steps = app.steps /\ e.toRead = app.toRead
      /\ e.chunks = more /\ e.sent = app.sent /\ e.told = app.told
  BY <1>1, <1>3, <1>6 DEF Apps
<1> HIDE DEF e
<1>8. x \in TlsDatas
  <2>1. <<>> \in Seq(Records) /\ 0 \in Int
    OBVIOUS
  <2> QED BY <1>1, <1>4, <2>1 DEF TlsDatas
<1>9. /\ x.c = z.c /\ x.op = z.op /\ x.state = z.state /\ x.blocked = z.blocked /\ x.queue = z.queue
      /\ x.need_update = z.need_update /\ x.emitted = z.emitted /\ x.timer = z.timer /\ x.out = z.out
      /\ x.out_pending = z.out_pending /\ x.from_net = z.from_net /\ x.in = z.in
  BY <1>1 DEF TlsDatas
<1>10. /\ x.to_net = <<>> /\ x.to_net_encoded = 0 /\ x.layer = l /\ x.signal = z.signal
  BY <1>1 DEF TlsDatas
<1> HIDE DEF x
<1>11. Settled(x)
  <2>1. Within(x)
    <3>1. Plain(<<>>) \in Nat
      <4>1. <<>> \in Seq(Records)
        OBVIOUS
      <4> QED BY <4>1, ToNetJoins
    <3> QED BY <1>10, <3>1 DEF Within
  <2> QED BY <1>1, <1>8, <1>9, <1>10, <2>1 DEF Settled, QueueFits, OpFits, ModeFits, BooksFit, MayQueue
<1>12. Woken(x)
  BY <1>1, <1>9 DEF Woken
<1>13. Known(x, e)
  BY <1>1, <1>7, <1>9, <1>10 DEF Known
<1>14. Leaves(x, x, e)
  BY <1>11, <1>12, <1>13, StaysLeaves
<1>15. x.out_pending \in Int /\ x.out_pending <= d.out_pending /\ x.signal = "none"
  BY <1>1, <1>9, <1>10
<1>16. /\ TlsInv' /\ StepShows /\ d'.state = x.state /\ d'.layer = x.layer
       /\ app'.chunks = e.chunks /\ app'.sent = e.sent /\ app'.told = e.told
  BY <1>1, <1>2, <1>7, <1>13, <1>14, <1>15, LeavesInv
<1>17. ASSUME MinEncoded <= 0, BooksInv PROVE BooksInv'
  <2>1. /\ Honest(app.chunks, app.sent, app.told)
        /\ d.state # "Inactive" => Accounted(d.layer.list, app.chunks, app.sent, app.told)
    BY <1>17, BooksAre
  <2>2. i.plain <= r.plain
    <3>1. d.to_net_encoded <= Plain(d.to_net)
      BY <1>1, <1>17 DEF Settled, BooksFit, Within
    <3>2. i.plain \in Int
      BY DEF Items
    <3>3. PICK m \in Int, n \in Nat : m = d.to_net_encoded /\ n = Plain(d.to_net)
      BY <1>3
    <3>4. i.plain <= m /\ m <= n
      BY <1>4, <3>1, <3>3
    <3> QED BY <1>6, <3>2, <3>3, <3>4
  <2>3. app.sent \in Nat /\ app.told \in Int /\ d.layer.list \in Seq(Items)
    BY <1>1 DEF Apps, Layers
  <2>4. d.state # "Inactive" => Accounted(l.list, more, app.sent, app.told)
    <3>1. r \in Chunks
      BY <1>3 DEF r
    <3>2. more = Append(app.chunks, r)
      BY DEF more
    <3> QED BY <1>3, <1>4, <2>1, <2>2, <2>3, <3>1, <3>2, ChunkAccounted
  <2>5. Honest(more, app.sent, app.told)
    <3>1. PICK k \in 0 .. Len(app.chunks) :
            BytesTo(app.chunks, k) <= app.sent /\ app.told <= PlainTo(app.chunks, k)
      BY <2>1 DEF Honest
    <3>2. k \in 0 .. Len(more) /\ BytesTo(more, k) = BytesTo(app.chunks, k)
          /\ PlainTo(more, k) = PlainTo(app.chunks, k)
      <4>1. Len(app.chunks) \in Nat
        BY <1>3
      <4> QED BY <1>5, <4>1 DEF Longer
    <3> QED BY <3>1, <3>2 DEF Honest
  <2> QED BY <1>1, <1>7, <1>9, <1>10, <1>16, <2>4, <2>5, BooksAre
<1> QED BY <1>16, <1>17 DEF BooksKept

\* convertBytesWritten(): the layer is asked what the written bytes held.
LEMMA SocketWroteStep ==
  ASSUME TlsInv, NEW n \in Nat, SocketWrote(n)
  PROVE  TlsInv' /\ StepShows /\ BooksKept
<1> DEFINE z == Quiet
           f == Finished(d.layer, n)
           l == f.layer
           x == [z EXCEPT !.layer = l]
           sent == app.sent + n
           told == app.told + f.plain
           e == [app EXCEPT !.sent = sent, !.told = told]
<1>1. /\ z \in TlsDatas /\ Settled(z) /\ Woken(z) /\ Known(z, app)
      /\ app \in Apps /\ wire \in Seq(Kinds) /\ z.signal = "none" /\ z.state = d.state
      /\ z.out_pending = d.out_pending /\ d.out_pending \in Int /\ d.layer \in Layers
  BY QuietIs
<1>2. /\ Becomes(x, e) /\ wire' = wire /\ n <= BytesOf(app.chunks) - app.sent /\ d.state # "Inactive"
  <2>1. /\ Becomes([Quiet EXCEPT !.layer = Finished(d.layer, n).layer],
                   [app EXCEPT !.sent = @ + n, !.told = @ + Finished(d.layer, n).plain])
        /\ wire' = wire /\ n <= BytesOf(app.chunks) - app.sent /\ d.state # "Inactive"
    BY DEF SocketWrote, Handed, InSession
  <2>2. [app EXCEPT !.sent = @ + n, !.told = @ + Finished(d.layer, n).plain] = e
    BY <1>1 DEF Apps
  <2> HIDE DEF e
  <2> QED BY <2>1, <2>2
<1> HIDE DEF z
<1>3. f.plain \in Int /\ l \in Layers
  <2>1. PICK t : /\ Finishes(t, n, d.layer.list)
                 /\ f.plain = t[Len(d.layer.list)].plain
                 /\ l = [d.layer EXCEPT !.list = t[Len(d.layer.list)].list]
    BY <1>1, FinishedIs
  <2>2. d.layer.list \in Seq(Items)
    BY <1>1 DEF Layers
  <2>3. Len(d.layer.list) \in 0 .. Len(d.layer.list)
    BY <2>2
  <2>4. t[Len(d.layer.list)] \in Accounts
    BY <2>1, <2>3 DEF Finishes
  <2> HIDE DEF f, l
  <2>5. f.plain \in Int
    BY <2>1, <2>4 DEF Accounts
  <2>6. t[Len(d.layer.list)].list \in Seq(Items)
    BY <2>4 DEF Accounts
  <2>7. l \in Layers
    BY <1>1, <2>1, <2>6 DEF Layers
  <2> QED BY <2>5, <2>7
<1> HIDE DEF l
<1>4. sent \in Nat /\ told \in Int /\ app.sent \in Nat /\ app.told \in Int /\ app.chunks \in Seq(Chunks)
  <2>1. app.sent \in Nat /\ app.told \in Int /\ app.chunks \in Seq(Chunks)
    BY <1>1 DEF Apps
  <2> QED BY <1>3, <2>1
<1> HIDE DEF sent, told, f
<1>5. /\ e \in Apps /\ e.unanswered = app.unanswered /\ e.steps = app.steps /\ e.toRead = app.toRead
      /\ e.toReadOutgoing = app.toReadOutgoing /\ e.chunks = app.chunks /\ e.sent = sent /\ e.told = told
  BY <1>1, <1>4 DEF Apps
<1> HIDE DEF e
<1>6. x \in TlsDatas
  BY <1>1, <1>3 DEF TlsDatas
<1>7. /\ x.c = z.c /\ x.op = z.op /\ x.state = z.state /\ x.blocked = z.blocked /\ x.queue = z.queue
      /\ x.need_update = z.need_update /\ x.emitted = z.emitted /\ x.timer = z.timer /\ x.out = z.out
      /\ x.out_pending = z.out_pending /\ x.from_net = z.from_net /\ x.in = z.in
  BY <1>1 DEF TlsDatas
<1>8. x.to_net = z.to_net /\ x.to_net_encoded = z.to_net_encoded /\ x.layer = l /\ x.signal = z.signal
  BY <1>1 DEF TlsDatas
<1> HIDE DEF x
<1>9. Settled(x)
  BY <1>1, <1>6, <1>7, <1>8 DEF Settled, QueueFits, OpFits, ModeFits, BooksFit, Within, MayQueue
<1>10. Woken(x)
  BY <1>1, <1>7 DEF Woken
<1>11. Known(x, e)
  BY <1>1, <1>5, <1>7, <1>8 DEF Known
<1>12. Leaves(x, x, e)
  BY <1>9, <1>10, <1>11, StaysLeaves
<1>13. x.out_pending \in Int /\ x.out_pending <= d.out_pending /\ x.signal = "none"
  BY <1>1, <1>7, <1>8
<1>14. /\ TlsInv' /\ StepShows /\ d'.layer = x.layer
       /\ app'.chunks = e.chunks /\ app'.sent = e.sent /\ app'.told = e.told
  BY <1>1, <1>2, <1>5, <1>11, <1>12, <1>13, LeavesInv
<1>15. ASSUME BooksInv PROVE BooksInv'
  <2>1. Accounted(d.layer.list, app.chunks, app.sent, app.told)
    BY <1>2, <1>15, BooksAre
  <2>2. Accounted(Finished(d.layer, n).layer.list, app.chunks, app.sent + n, app.told + Finished(d.layer, n).plain)
    BY <1>1, <1>2, <1>4, <2>1, FinishedAccounts
  <2>3. Accounted(l.list, app.chunks, sent, told)
    BY <2>2 DEF l, f, sent, told
  <2>4. Honest(app.chunks, sent, told)
    BY <2>3, AccountedIsHonest
  <2> QED BY <1>5, <1>8, <1>14, <2>3, <2>4, BooksAre
<1> QED BY <1>14, <1>15 DEF BooksKept

\* Every step keeps the invariants.
LEMMA TlsStep ==
  ASSUME TlsInv, AppCalls \subseteq {"convert"}, TlsNext
  PROVE  TlsInv' /\ StepShows /\ BooksKept
<1>1. CASE \E wants \in BOOLEAN : ResultsReady(wants)
  BY <1>1, ResultsReadyStep, StaysKept
<1>2. CASE \E wants \in BOOLEAN : DoNextAction(wants)
  BY <1>2, DoNextActionStep, StaysKept
<1>3. CASE \E wants \in BOOLEAN : Write(wants)
  BY <1>3, WriteStep, StaysKept
<1>4. CASE \E wants \in BOOLEAN : \E step \in TlsSteps : ContinueAfterStep(step, wants)
  BY <1>4, ContinueAfterStepStep, StaysKept
<1>5. CASE \E wants \in BOOLEAN : \E n \in 1 .. MaxChunk : WriteIncoming(n, wants)
  BY <1>5, WriteIncomingStep, StaysKept
<1>6. CASE \E server, ok \in BOOLEAN : Start(server, ok)
  BY <1>6, StartStep
<1>7. CASE ResetByApp
  BY <1>7, ResetByAppStep
<1>8. CASE CloseByApp
  BY <1>8, CloseByAppStep, StaysKept
<1>9. CASE TlsRead
  BY <1>9, TlsReadStep, StaysKept
<1>10. CASE ReadOutgoing
  BY <1>10, ReadOutgoingStep
<1>11. CASE \E n \in 1 .. 2 * MaxWrite + 2 * HsFlights + 3 : SocketWrote(n)
  <2>1. PICK n \in 1 .. 2 * MaxWrite + 2 * HsFlights + 3 : SocketWrote(n)
    BY <1>11
  <2>2. MaxWrite \in Nat /\ HsFlights \in Nat
    BY TLSAssumption, ContextAssumption
  <2>3. n \in Nat
    BY <2>2
  <2> QED BY <2>1, <2>3, SocketWroteStep
<1>12. CASE \E kind \in {"hs", "app", "fin", "bad", "raw"} : PeerSends(kind)
  BY <1>12, PeerSendsStep, StaysKept
<1> QED BY <1>1, <1>2, <1>3, <1>4, <1>5, <1>6, <1>7, <1>8, <1>9, <1>10, <1>11, <1>12 DEF TlsNext

\* A step that changes nothing of TLS.
LEMMA TlsStutter ==
  ASSUME TlsInv, UNCHANGED tlsVars
  PROVE  TlsInv' /\ StepShows /\ BooksKept
<1>1. d' = d /\ app' = app /\ wire' = wire
  BY DEF tlsVars
<1>2. d.out_pending \in Int
  BY QuietIs
<1>3. TlsInv' /\ StepShows
  BY <1>1, <1>2 DEF TlsInv, StepShows
<1>4. BooksKept
  BY <1>1, BooksAre DEF BooksKept
<1> QED BY <1>3, <1>4

\* A new TLS object.
LEMMA TlsBegins ==
  ASSUME TlsInit
  PROVE  TlsInv /\ BooksInv
<1>1. /\ d = [state |-> "Inactive", blocked |-> FALSE, server |-> FALSE, op |-> "none",
              queue |-> <<>>, timer |-> FALSE, need_update |-> FALSE, maybe_input |-> FALSE,
              emitted |-> {}, out |-> 0, out_pending |-> 0, from_net |-> <<>>, in |-> 0,
              to_net |-> <<>>, to_net_encoded |-> 0, unprocessed |-> <<>>, layer |-> NoLayer,
              c |-> NewContext, signal |-> "none", asserted |-> FALSE]
      /\ app = [sessions |-> 0, written |-> 0, unanswered |-> {}, toRead |-> FALSE,
                toReadOutgoing |-> FALSE, chunks |-> <<>>, sent |-> 0, told |-> 0,
                plainBytes |-> 0, wants |-> 0, steps |-> {}]
      /\ wire = <<>>
  BY DEF TlsInit
<1>2. /\ "Inactive" \in States /\ NoLayer \in Layers /\ 0 \in Int /\ <<>> \in Seq(Actions)
      /\ <<>> \in Seq(Kinds) /\ <<>> \in Seq(Records) /\ <<>> \in Seq(Chunks) /\ "none" \in TlsSignals
  BY DEF States, NoLayer, Layers, TlsSignals
<1>3. NewContext \in TlsContexts /\ NewContext.posted = 0
  BY <1>2 DEF NewContext, TlsContexts
<1>4. d \in TlsDatas
  <2> DEFINE no == NoLayer
             new == NewContext
  <2>1. no \in Layers /\ new \in TlsContexts
    BY <1>2, <1>3
  <2> HIDE DEF no, new
  <2>2. [state |-> "Inactive", blocked |-> FALSE, server |-> FALSE, op |-> "none",
              queue |-> <<>>, timer |-> FALSE, need_update |-> FALSE, maybe_input |-> FALSE,
              emitted |-> {}, out |-> 0, out_pending |-> 0, from_net |-> <<>>, in |-> 0,
              to_net |-> <<>>, to_net_encoded |-> 0, unprocessed |-> <<>>, layer |-> no,
              c |-> new, signal |-> "none", asserted |-> FALSE] \in TlsDatas
    BY <1>2, <2>1 DEF TlsDatas
  <2> QED BY <1>1, <2>2 DEF no, new
<1>5. app \in Apps /\ wire \in Seq(Kinds)
  BY <1>1, <1>2 DEF Apps
<1>6. QueueFits(d)
  BY <1>1, NoneQueued DEF QueueFits, InOrder
<1>7. OpFits(d)
  BY <1>1, <1>3 DEF OpFits
<1>8. ModeFits(d)
  BY <1>1 DEF ModeFits
<1>9. BooksFit(d)
  <2>1. Plain(<<>>) \in Nat
    BY <1>2, ToNetJoins
  <2> QED BY <1>1, <2>1, NoneQueued DEF BooksFit, Within
<1>10. Woken(d)
  BY <1>1 DEF Woken
<1>11. Known(Quietly(d), app)
  BY <1>1 DEF Known, Quietly, TlsSteps
<1>12. TlsInv
  BY <1>4, <1>5, <1>6, <1>7, <1>8, <1>9, <1>10, <1>11 DEF TlsInv, Settled
<1>13. BooksInv
  <2>1. Honest(<<>>, 0, 0)
    BY NothingAccounted, AccountedIsHonest
  <2> QED BY <1>1, <2>1, BooksAre
<1> QED BY <1>12, <1>13

\* The invariant says what SessionConsistent does.
LEMMA TlsInvShows ==
  ASSUME TlsInv
  PROVE  SessionConsistent
<1>1. /\ d \in TlsDatas /\ QueueFits(d) /\ OpFits(d) /\ Woken(d) /\ app \in Apps /\ wire \in Seq(Kinds)
  BY DEF TlsInv, Settled
<1>2. PICK z : z = Quiet
  OBVIOUS
<1>3. Known(z, app) /\ z.in = d.in /\ z.to_net = d.to_net /\ z.queue = d.queue /\ z.signal = "none"
  BY <1>2, QuietIs
<1>4. d.c \in TlsContexts /\ d.layer \in Layers
  BY <1>1 DEF TlsDatas
<1>5. TlsTypeOK
  <2>1. /\ d.state \in States /\ d.op \in {"none", "Start", "Update"}
        /\ {d.blocked, d.server, d.timer, d.need_update, d.maybe_input, d.asserted} \subseteq BOOLEAN
        /\ d.queue \in Seq(Actions) /\ d.emitted \subseteq TlsSteps
    BY <1>1 DEF TlsDatas
  <2>2. d.out \in Nat /\ d.in \in Nat /\ d.out_pending \in Int /\ d.to_net_encoded \in Int
        /\ d.from_net \in Seq(Kinds) /\ d.unprocessed \in Seq(Kinds)
    BY <1>1 DEF TlsDatas
  <2>3. d.c.posted \in Nat /\ d.c.sendQueue \in Nat /\ d.c.rbio \in Seq(Kinds)
        /\ d.c.mode \in {"Idle", "Handshake", "Active", "Closing"} /\ d.layer.p \in Nat
    BY <1>4 DEF TlsContexts, Layers
  <2>4. app.unanswered \subseteq TlsSteps /\ app.sent \in Nat /\ app.told \in Int
    BY <1>1, TLSAssumption DEF Apps
  <2> QED BY <1>1, <2>1, <2>2, <2>3, <2>4 DEF TlsTypeOK
<1>6. NothingStranded
  BY <1>1 DEF Woken, OpFits, NothingStranded, InSession
<1>7. BuffersAnnounced
  BY <1>3 DEF Known, BuffersAnnounced
<1>8. OneResultPerOperation
  BY <1>1 DEF OpFits, OneResultPerOperation
<1> QED BY <1>5, <1>6, <1>7, <1>8 DEF SessionConsistent

\* The inductive invariant of a session, for any number of sessions, records, flights
\* and bytes, of an application that makes no call while an operation of the context
\* is under way (reset(), start()) and none after the end of a session: the queue
\* of actions, the operation in flight, the mode of the context and the state agree
\* (TLS::Private::processNextAction(), update(), tls_resultsReady()).
THEOREM TlsInvariant ==
  ASSUME AppCalls \subseteq {"convert"}
  PROVE  TlsSpec => []TlsInv
<1>1. TlsInit => TlsInv
  BY TlsBegins
<1>2. TlsInv /\ [TlsNext]_tlsVars => TlsInv'
  BY TlsStep, TlsStutter
<1> QED BY <1>1, <1>2, PTL DEF TlsSpec

\* For the same application: nothing a session has to handle waits without an event
\* that will handle it, and each result is taken for the operation that posted it.
THEOREM SessionsConsistent ==
  ASSUME AppCalls \subseteq {"convert"}
  PROVE  TlsSpec => []SessionConsistent
<1>1. TlsInv => SessionConsistent
  BY TlsInvShows
<1> QED BY <1>1, TlsInvariant, PTL

\* If moreover the application listens to one step of the handshake at most: a step is told
\* once a session, before handshaken() and any data, and update() starts nothing
\* while a step is unanswered (continueAfterStep()).
THEOREM StepsComeInOrder ==
  ASSUME AppCalls \subseteq {"convert"}, \A s, t \in Listens : s = t
  PROVE  TlsSpec => StepsInOrder
<1>1. OneStep
  BY DEF OneStep
<1>2. TlsInv /\ [TlsNext]_tlsVars
        => [d' # d /\ d'.signal \in TlsSteps => d'.signal \notin app.steps]_tlsVars
  BY TlsStep, TlsStutter DEF StepShows
<1>3. TlsInv /\ [TlsNext]_tlsVars
        => [d'.out_pending > d.out_pending => app'.unanswered = {}]_tlsVars
  BY <1>1, TlsStep, TlsStutter DEF StepShows
<1> QED BY <1>2, <1>3, TlsInvariant, PTL DEF TlsSpec, StepsInOrder, StepsOnce, DataWaitsForSteps

\* If moreover the bound MinEncoded of the count of encoded bytes is not above where
\* the count starts: convertBytesWritten() never reports a plain byte that was not
\* in the chunks that the socket has written, whatever the parts it was written in.
THEOREM ReportsAreHonest ==
  ASSUME AppCalls \subseteq {"convert"}, MinEncoded <= 0
  PROVE  TlsSpec => []NeverOverReports
<1>1. TlsInit => BooksInv
  BY TlsBegins
<1>2. TlsInv /\ BooksInv /\ [TlsNext]_tlsVars => BooksInv'
  BY TlsStep, TlsStutter DEF BooksKept
<1>3. BooksInv => NeverOverReports
  BY DEF BooksInv
<1> QED BY <1>1, <1>2, <1>3, TlsInvariant, PTL DEF TlsSpec
=============================================================================
