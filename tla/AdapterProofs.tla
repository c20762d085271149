--------------------------- MODULE AdapterProofs ---------------------------
(***************************************************************************)
(* What is proved of CodexRollout, ClaudeTranscript, CursorDecoding and     *)
(* TokenUsage, for files and databases of any size, any texts, calls, tools *)
(* and settings.                                                            *)
(* What an Event says of other records depends on records the decoder has   *)
(* passed and on records it has not reached: what holds by induction over   *)
(* the lines is that the decoder carries along just what the lines so far   *)
(* say (the submissions left, the configuration in force), and that the     *)
(* Events emitted so far agree with the whole file.  A composer of Cursor   *)
(* is yielded at once: what its Events say of each other is a fact of the   *)
(* order by time, and the induction is over the composers.  TokenUsage      *)
(* reads vendors' files as they grow: what it keeps is true because a file  *)
(* that has grown since its mark was taken never has that mark again.       *)
(***************************************************************************)
EXTENDS CodexRollout, ClaudeTranscript, CursorDecoding, TokenUsage, SequenceTheorems,
        FiniteSetTheorems, WellFoundedInduction, TLAPS

NatLess == OpToRel(<, Nat)

\* The first of some numbers is one of them.
LEMMA FirstIsThere ==
  ASSUME NEW n \in Nat, NEW S \in SUBSET (1..n), S # {}
  PROVE  \E l \in S : \A m \in S : l <= m
<1>1. S \subseteq Nat
  OBVIOUS
<1>2. IsWellFoundedOn(NatLess, Nat)
  BY NatLessThanWellFounded DEF NatLess
<1>3. PICK k \in S : \A j \in S : ~(<<j, k>> \in NatLess)
  BY <1>1, <1>2, WFMin
<1>4. \A j \in S : ~(j < k)
  BY <1>1, <1>3, Zenon DEF NatLess, OpToRel
<1> QED BY <1>1, <1>3, <1>4

-----------------------------------------------------------------------------
(* Lists in an order, and lists joined. *)

\* R orders S: of two elements one comes before the other.
Linear(R, S) ==
  /\ \A x \in S : <<x, x>> \notin R
  /\ \A x, y \in S : x = y \/ <<x, y>> \in R \/ <<y, x>> \in R
  /\ \A x, y, z \in S : <<x, y>> \in R /\ <<y, z>> \in R => <<x, z>> \in R

\* Enumerate lists every element once, one before another as R says.
LEMMA Enumerates ==
  ASSUME NEW S, IsFiniteSet(S), NEW R, Linear(R, S)
  PROVE  /\ Cardinality(S) \in Nat
         /\ Enumerate(S, R) \in [1..Cardinality(S) -> S]
         /\ \A i, j \in 1..Cardinality(S) : i < j <=> <<Enumerate(S, R)[i], Enumerate(S, R)[j]>> \in R
         /\ \A x \in S : \E i \in 1..Cardinality(S) : Enumerate(S, R)[i] = x
<1>. DEFINE n == Cardinality(S)
            below(x) == {y \in S : <<y, x>> \in R}
            f == [x \in S |-> Cardinality(below(x)) + 1]
            s == Enumerate(S, R)
<1>1. n \in Nat
  BY FS_CardinalityType
<1>2. ASSUME NEW x \in S 
      PROVE  IsFiniteSet(below(x)) /\ Cardinality(below(x)) \in Nat /\ Cardinality(below(x)) \in 0..n - 1
  <2>1. IsFiniteSet(S \ {x}) /\ Cardinality(S \ {x}) = n - 1
    BY FS_RemoveElement
  <2>2. below(x) \subseteq S \ {x}
    BY DEF Linear
  <2>3. IsFiniteSet(below(x)) /\ Cardinality(below(x)) <= Cardinality(S \ {x})
    BY <2>1, <2>2, FS_Subset
  <2>4. Cardinality(below(x)) \in Nat
    BY <2>3, FS_CardinalityType
  <2> QED BY <1>1, <2>1, <2>3, <2>4
<1>3. ASSUME NEW x \in S, NEW y \in S, <<x, y>> \in R
      PROVE  Cardinality(below(x)) < Cardinality(below(y))
  <2>1. below(x) \subseteq below(y) \ {x}
    BY <1>3 DEF Linear
  <2>2. x \in below(y) /\ IsFiniteSet(below(y))
    BY <1>2, <1>3
  <2>3. IsFiniteSet(below(y) \ {x}) /\ Cardinality(below(y) \ {x}) = Cardinality(below(y)) - 1
    BY <2>2, FS_RemoveElement
  <2>4. Cardinality(below(x)) <= Cardinality(below(y) \ {x})
    BY <2>1, <2>3, FS_Subset
  <2>5. Cardinality(below(x)) \in Nat /\ Cardinality(below(y)) \in Nat
    BY <1>2, Zenon
  <2> QED BY <2>3, <2>4, <2>5
<1>4. f \in [S -> 1..n] /\ \A x, y \in S : f[x] < f[y] <=> <<x, y>> \in R
  <2>1. f \in [S -> 1..n]
    <3> SUFFICES ASSUME NEW x \in S PROVE Cardinality(below(x)) + 1 \in 1..n
      OBVIOUS
    <3>1. Cardinality(below(x)) \in 0..n - 1
      BY <1>2
    <3>. HIDE DEF below
    <3> QED BY <1>1, <3>1
  <2>2. ASSUME NEW x \in S, NEW y \in S PROVE f[x] < f[y] <=> <<x, y>> \in R
    <3>. DEFINE a == Cardinality(below(x))
                b == Cardinality(below(y))
    <3>1. a \in Nat /\ b \in Nat /\ f[x] = a + 1 /\ f[y] = b + 1
      BY <1>2, Zenon
    <3>2. /\ <<x, y>> \in R => a < b
          /\ <<y, x>> \in R => b < a
      BY <1>3
    <3>3. x = y \/ <<x, y>> \in R \/ <<y, x>> \in R
      BY DEF Linear
    <3>4. x = y => <<x, y>> \notin R /\ a = b
      BY DEF Linear
    <3>. HIDE DEF a, b, f
    <3> QED BY <3>1, <3>2, <3>3, <3>4
  <2> QED BY <2>1, <2>2
<1>. HIDE DEF f
<1>5. f \in Injection(S, 1..n)
  <2>1. ASSUME NEW x \in S, NEW y \in S, f[x] = f[y] PROVE x = y
    <3>1. f[x] \in 1..n /\ f[y] \in 1..n
      BY <1>4
    <3>2. ~(f[x] < f[y]) /\ ~(f[y] < f[x])
      BY <2>1, <3>1
    <3> QED BY <1>4, <3>2 DEF Linear
  <2> QED BY <1>4, <2>1 DEF Injection, IsInjective
<1>6. \A i \in 1..n : \E x \in S : f[x] = i
  <2>1. IsFiniteSet(1..n) /\ Cardinality(1..n) = n
    BY <1>1, FS_Interval
  <2>2. f \in Surjection(S, 1..n)
    BY <1>5, <2>1, FS_Injection
  <2> QED BY <2>2 DEF Surjection
<1>7. ASSUME NEW i \in 1..n PROVE s[i] \in S /\ f[s[i]] = i
  <2>1. s[i] = CHOOSE x \in S : Cardinality(below(x)) = i - 1
    BY DEF Enumerate
  <2>2. PICK x \in S : f[x] = i
    BY <1>6
  <2>3. \A y \in S : f[y] = Cardinality(below(y)) + 1 /\ Cardinality(below(y)) \in Nat
    BY <1>2, Zenon DEF f
  <2>. HIDE DEF below
  <2>4. Cardinality(below(x)) = i - 1
    BY <2>2, <2>3
  <2>5. s[i] \in S /\ Cardinality(below(s[i])) = i - 1
    BY <2>1, <2>4
  <2> QED BY <2>3, <2>5
<1>8. DOMAIN s = 1..n
  BY DEF Enumerate
<1>9. s \in [1..n -> S]
  <2>. DEFINE c(i) == CHOOSE x \in S : Cardinality({y \in S : <<y, x>> \in R}) = i - 1
  <2>1. s = [i \in 1..n |-> c(i)]
    BY DEF Enumerate
  <2>2. \A i \in 1..n : s[i] = c(i)
    BY DEF Enumerate
  <2>. HIDE DEF s, c
  <2> QED BY <1>7, <2>1, <2>2
<1>. HIDE DEF s, n
<1>10. \A i, j \in 1..n : i < j <=> <<s[i], s[j]>> \in R
  BY <1>4, <1>7
<1>11. ASSUME NEW x \in S PROVE \E i \in 1..n : s[i] = x
  <2>1. f[x] \in 1..n
    BY <1>4
  <2>2. s[f[x]] \in S /\ f[s[f[x]]] = f[x]
    BY <1>7, <2>1
  <2> QED BY <1>5, <2>1, <2>2 DEF Injection, IsInjective
<1> QED BY <1>1, <1>9, <1>10, <1>11 DEF n, s

\* What holds of 1 and with every number of the next holds up to n.
LEMMA UpTo ==
  ASSUME NEW n \in Nat, NEW K, 1 \in K \/ n = 0,
         \A i \in 1..n - 1 : i \in K => i + 1 \in K
  PROVE  \A i \in 1..n : i \in K
<1>. DEFINE S == {i \in 1..n : i \notin K}
<1>. SUFFICES ASSUME S # {} PROVE FALSE
  OBVIOUS
<1>1. PICK l \in S : \A m \in S : l <= m
  <2>1. S \in SUBSET (1..n)
    OBVIOUS
  <2>. HIDE DEF S
  <2> QED BY <2>1, FirstIsThere
<1>2. l \in 1..n /\ l \notin K /\ l # 1
  OBVIOUS
<1>3. l - 1 \in 1..n - 1 /\ l - 1 \notin S
  BY <1>1, <1>2
<1>4. l - 1 \in K
  BY <1>3
<1>5. (l - 1) + 1 \in K
  BY <1>3, <1>4
<1> QED BY <1>2, <1>5

\* Concatenation, with every element named by the sequence it is of.
LEMMA Joined ==
  ASSUME NEW S, NEW s \in Seq(S), NEW t \in Seq(S)
  PROVE  /\ s \o t \in Seq(S) /\ Len(s \o t) = Len(s) + Len(t)
         /\ \A i \in 1..Len(s) : (s \o t)[i] = s[i]
         /\ \A i \in 1..Len(t) : (s \o t)[Len(s) + i] = t[i]
OBVIOUS

\* The flattening of the first m sequences: w and v are where an element comes from.
Comes(seqs, m, F, w, v) ==
  /\ w \in [1..Len(F) -> 1..m] /\ v \in [1..Len(F) -> Nat]
  /\ \A p \in 1..Len(F) : v[p] \in 1..Len(seqs[w[p]]) /\ F[p] = seqs[w[p]][v[p]]
  /\ \A p, q \in 1..Len(F) : p < q => w[p] < w[q] \/ (w[p] = w[q] /\ v[p] < v[q])
  /\ \A i \in 1..m : \A k \in 1..Len(seqs[i]) : \E p \in 1..Len(F) : w[p] = i /\ v[p] = k

\* One more list joined: where the elements of it come from is as for those before.
LEMMA ComesStep ==
  ASSUME NEW S, NEW n \in Nat, NEW seqs \in [1..n -> Seq(S)], NEW m \in 0..n - 1,
         NEW F \in Seq(S), NEW w, NEW v, Comes(seqs, m, F, w, v)
  PROVE  \E x, y : F \o seqs[m + 1] \in Seq(S) /\ Comes(seqs, m + 1, F \o seqs[m + 1], x, y)
<1>. DEFINE t == seqs[m + 1]
            G == F \o t
            x == [p \in 1..Len(G) |-> IF p <= Len(F) THEN w[p] ELSE m + 1]
            y == [p \in 1..Len(G) |-> IF p <= Len(F) THEN v[p] ELSE p - Len(F)]
<1>1. t \in Seq(S) /\ m + 1 \in 1..n /\ m \in Nat
  OBVIOUS
<1>2. /\ G \in Seq(S) /\ Len(G) = Len(F) + Len(t)
      /\ \A i \in 1..Len(F) : G[i] = F[i]
      /\ \A i \in 1..Len(t) : G[Len(F) + i] = t[i]
  BY <1>1, Joined
<1>3. Len(F) \in Nat /\ Len(t) \in Nat
  BY <1>1
<1>. HIDE DEF G, t
<1>4. ASSUME NEW p \in 1..Len(G), p > Len(F)
      PROVE  p - Len(F) \in 1..Len(t) /\ G[p] = t[p - Len(F)]
  <2>1. p - Len(F) \in 1..Len(t) /\ p = Len(F) + (p - Len(F))
    BY <1>2, <1>3, <1>4
  <2> QED BY <1>2, <2>1
<1>5. ASSUME NEW p \in 1..Len(G), p <= Len(F) PROVE p \in 1..Len(F)
  BY <1>3, <1>5
<1>6. x \in [1..Len(G) -> 1..m + 1] /\ y \in [1..Len(G) -> Nat]
  <2>1. ASSUME NEW p \in 1..Len(G) PROVE x[p] \in 1..m + 1 /\ y[p] \in Nat
    <3>1. CASE p <= Len(F)
      <4>1. w[p] \in 1..m /\ v[p] \in Nat
        BY <1>5, <3>1 DEF Comes
      <4>2. w[p] \in 1..m + 1
        BY <1>1, <4>1
      <4> QED BY <3>1, <4>1, <4>2
    <3>2. CASE p > Len(F)
      BY <1>1, <1>3, <1>4, <3>2
    <3> QED BY <1>3, <3>1, <3>2
  <2> QED BY <2>1
<1>7. ASSUME NEW p \in 1..Len(G)
      PROVE  y[p] \in 1..Len(seqs[x[p]]) /\ G[p] = seqs[x[p]][y[p]]
  <2>1. CASE p <= Len(F)
    BY <1>2, <1>5, <2>1 DEF Comes
  <2>2. CASE p > Len(F)
    <3>1. x[p] = m + 1 /\ y[p] = p - Len(F)
      BY <1>3, <2>2
    <3> QED BY <1>4, <2>2, <3>1 DEF t
  <2> QED BY <1>3, <2>1, <2>2
<1>8. ASSUME NEW p \in 1..Len(G), NEW q \in 1..Len(G), p < q
      PROVE  x[p] < x[q] \/ (x[p] = x[q] /\ y[p] < y[q])
  <2>1. CASE q <= Len(F)
    <3>1. p <= Len(F)
      BY <1>3, <1>8, <2>1
    <3> QED BY <1>5, <1>8, <2>1, <3>1 DEF Comes
  <2>2. CASE q > Len(F) /\ p > Len(F)
    BY <1>3, <1>8, <2>2
  <2>3. CASE q > Len(F) /\ p <= Len(F)
    <3>1. w[p] \in 1..m
      BY <1>5, <2>3 DEF Comes
    <3>2. x[p] = w[p] /\ x[q] = m + 1
      BY <1>3, <2>3
    <3> QED BY <1>1, <3>1, <3>2
  <2> QED BY <1>3, <2>1, <2>2, <2>3
<1>9. ASSUME NEW i \in 1..m + 1, NEW k \in 1..Len(seqs[i])
      PROVE  \E p \in 1..Len(G) : x[p] = i /\ y[p] = k
  <2>1. CASE i = m + 1
    <3>1. k \in 1..Len(t)
      BY <2>1 DEF t
    <3>2. Len(F) + k \in 1..Len(G) /\ ~(Len(F) + k <= Len(F)) /\ (Len(F) + k) - Len(F) = k
      BY <1>2, <1>3, <3>1
    <3> QED BY <2>1, <3>2
  <2>2. CASE i # m + 1
    <3>1. i \in 1..m
      BY <1>1, <2>2
    <3>2. PICK p \in 1..Len(F) : w[p] = i /\ v[p] = k
      BY <3>1 DEF Comes
    <3>3. p \in 1..Len(G) /\ p <= Len(F)
      BY <1>2, <1>3
    <3> QED BY <3>2, <3>3
  <2> QED BY <2>1, <2>2
<1>. HIDE DEF x, y
<1>10. Comes(seqs, m + 1, G, x, y)
  BY <1>6, <1>7, <1>8, <1>9 DEF Comes
<1>11. G = F \o seqs[m + 1]
  BY DEF G, t
<1> QED BY <1>2, <1>10, <1>11

\* The recursive function that flattens is there.
LEMMA FlattenIsThere ==
  ASSUME NEW n \in Nat, NEW seqs
  PROVE  \A m \in 1..n : \E g :
           g = [j \in 1..m |-> IF j = 1 THEN seqs[j] ELSE g[j - 1] \o seqs[j]]
<1>. DEFINE K == {m \in 1..n : \E g :
                    g = [j \in 1..m |-> IF j = 1 THEN seqs[j] ELSE g[j - 1] \o seqs[j]]}
<1>1. 1 \in K \/ n = 0
  <2>1. ASSUME n # 0 PROVE 1 \in K
    <3>. DEFINE g == [j \in 1..1 |-> seqs[1]]
    <3>1. g = [j \in 1..1 |-> IF j = 1 THEN seqs[j] ELSE g[j - 1] \o seqs[j]]
      OBVIOUS
    <3>2. 1 \in 1..n
      BY <2>1
    <3>. HIDE DEF g
    <3> QED BY <3>1, <3>2
  <2> QED BY <2>1
<1>2. ASSUME NEW m \in 1..n - 1, m \in K PROVE m + 1 \in K
  <2>1. PICK g : g = [j \in 1..m |-> IF j = 1 THEN seqs[j] ELSE g[j - 1] \o seqs[j]]
    BY <1>2
  <2>. DEFINE h == [j \in 1..m + 1 |-> IF j = m + 1 THEN g[m] \o seqs[m + 1] ELSE g[j]]
  <2>2. m \in Nat /\ m >= 1 /\ m + 1 \in 1..n
    OBVIOUS
  <2>3. ASSUME NEW j \in 1..m + 1
        PROVE  h[j] = IF j = 1 THEN seqs[j] ELSE h[j - 1] \o seqs[j]
    <3>1. CASE j = m + 1
      <4>1. m \in 1..m + 1 /\ j # 1 /\ j - 1 = m /\ m # m + 1
        BY <2>2, <3>1
      <4>2. h[m] = g[m]
        BY <4>1
      <4> QED BY <3>1, <4>1, <4>2
    <3>2. CASE j # m + 1
      <4>1. j \in 1..m /\ h[j] = g[j]
        BY <2>2, <3>2
      <4>2. g[j] = IF j = 1 THEN seqs[j] ELSE g[j - 1] \o seqs[j]
        BY <2>1, <4>1
      <4>3. j # 1 => j - 1 \in 1..m + 1 /\ j - 1 # m + 1
        BY <2>2, <4>1
      <4>4. j # 1 => h[j - 1] = g[j - 1]
        BY <4>3
      <4> QED BY <4>1, <4>2, <4>4
    <3> QED BY <3>1, <3>2
  <2>4. h = [j \in 1..m + 1 |-> IF j = 1 THEN seqs[j] ELSE h[j - 1] \o seqs[j]]
    <3>1. h = [j \in 1..m + 1 |-> h[j]]
      OBVIOUS
    <3>. HIDE DEF h
    <3>2. [j \in 1..m + 1 |-> h[j]] = [j \in 1..m + 1 |-> IF j = 1 THEN seqs[j] ELSE h[j - 1] \o seqs[j]]
      BY <2>3
    <3> QED BY <3>1, <3>2, Zenon
  <2>. HIDE DEF h
  <2> QED BY <2>2, <2>4
<1>3. \A m \in 1..n : m \in K
  <2>. HIDE DEF K
  <2> QED BY <1>1, <1>2, UpTo
<1> QED BY <1>3

\* The elements of F are those of the sequences, one sequence after the other.
Spread(seqs, F, w, v) ==
  /\ \A p \in DOMAIN F : /\ p \in Nat /\ w[p] \in Nat /\ v[p] \in Nat
                         /\ w[p] \in DOMAIN seqs /\ v[p] \in DOMAIN seqs[w[p]]
                         /\ F[p] = seqs[w[p]][v[p]]
  /\ \A p, q \in DOMAIN F : p < q => w[p] < w[q] \/ (w[p] = w[q] /\ v[p] < v[q])
  /\ \A i \in DOMAIN seqs : \A k \in DOMAIN seqs[i] : \E p \in DOMAIN F : w[p] = i /\ v[p] = k

\* All lists joined.
LEMMA ComesSpread ==
  ASSUME NEW S, NEW n \in Nat, NEW seqs \in [1..n -> Seq(S)], NEW F \in Seq(S),
         NEW w, NEW v, Comes(seqs, n, F, w, v)
  PROVE  Spread(seqs, F, w, v)
<1>1. DOMAIN F = 1..Len(F) /\ DOMAIN seqs = 1..n
  OBVIOUS
<1>2. ASSUME NEW i \in 1..n PROVE DOMAIN seqs[i] = 1..Len(seqs[i])
  OBVIOUS
<1>3. ASSUME NEW p \in 1..Len(F)
      PROVE  /\ p \in Nat /\ w[p] \in Nat /\ v[p] \in Nat
             /\ w[p] \in 1..n /\ v[p] \in DOMAIN seqs[w[p]]
             /\ F[p] = seqs[w[p]][v[p]]
  <2>1. w \in [1..Len(F) -> 1..n] /\ v \in [1..Len(F) -> Nat]
    BY DEF Comes
  <2>5. w[p] \in 1..n /\ v[p] \in Nat
    BY <2>1, Zenon
  <2>6. p \in Nat
    BY <1>1
  <2>2. v[p] \in 1..Len(seqs[w[p]]) /\ F[p] = seqs[w[p]][v[p]]
    BY DEF Comes
  <2>3. DOMAIN seqs[w[p]] = 1..Len(seqs[w[p]])
    BY <1>2, <2>5, Zenon
  <2>4. w[p] \in Nat
    BY <2>5
  <2> QED BY <2>2, <2>3, <2>4, <2>5, <2>6, Zenon
<1>4. ASSUME NEW p \in 1..Len(F), NEW q \in 1..Len(F), p < q
      PROVE  w[p] < w[q] \/ (w[p] = w[q] /\ v[p] < v[q])
  BY <1>4 DEF Comes
<1>5. ASSUME NEW i \in 1..n, NEW k \in DOMAIN seqs[i]
      PROVE  \E p \in 1..Len(F) : w[p] = i /\ v[p] = k
  <2>1. k \in 1..Len(seqs[i])
    BY <1>2
  <2>2. \A j \in 1..n : \A l \in 1..Len(seqs[j]) : \E p \in 1..Len(F) : w[p] = j /\ v[p] = l
    BY Zenon DEF Comes
  <2> QED BY <2>1, <2>2, Zenon
<1>. DEFINE D == 1..Len(F)
            N == 1..n
<1>6. \A p \in D : /\ p \in Nat /\ w[p] \in Nat /\ v[p] \in Nat
                   /\ w[p] \in N /\ v[p] \in DOMAIN seqs[w[p]]
                   /\ F[p] = seqs[w[p]][v[p]]
  BY <1>3
<1>7. \A p, q \in D : p < q => w[p] < w[q] \/ (w[p] = w[q] /\ v[p] < v[q])
  BY <1>4
<1>8. \A i \in N : \A k \in DOMAIN seqs[i] : \E p \in D : w[p] = i /\ v[p] = k
  BY <1>5, Zenon
<1>9. DOMAIN F = D /\ DOMAIN seqs = N
  BY <1>1
<1>. HIDE DEF D, N
<1> QED BY <1>6, <1>7, <1>8, <1>9 DEF Spread

\* FlattenSeq yields the elements of all sequences, one sequence after the other.
LEMMA Flattens ==
  ASSUME NEW S, NEW n \in Nat, NEW seqs \in [1..n -> Seq(S)]
  PROVE  /\ FlattenSeq(seqs) \in Seq(S)
         /\ \E w, v : Spread(seqs, FlattenSeq(seqs), w, v)
<1>1. seqs \in Seq(Seq(S)) /\ Len(seqs) = n
  OBVIOUS
<1>0. SUFFICES FlattenSeq(seqs) \in Seq(S) /\ \E w, v : Comes(seqs, n, FlattenSeq(seqs), w, v)
  BY ComesSpread
<1>2. CASE n = 0
  <2>1. FlattenSeq(seqs) = seqs /\ seqs = <<>> /\ Len(seqs) = 0
    BY <1>1, <1>2 DEF FlattenSeq
  <2>2. Comes(seqs, 0, seqs, <<>>, <<>>)
    BY <2>1 DEF Comes
  <2> QED BY <1>2, <2>1, <2>2
<1>3. CASE n # 0
  <2>. DEFINE f == CHOOSE flatten : flatten = [i \in 1..Len(seqs) |->
                     IF i = 1 THEN seqs[i] ELSE flatten[i - 1] \o seqs[i]]
  <2>1. n \in 1..n
    BY <1>3
  <2>2. \E g : g = [j \in 1..n |-> IF j = 1 THEN seqs[j] ELSE g[j - 1] \o seqs[j]]
    BY <2>1, FlattenIsThere
  <2>3. f = [j \in 1..n |-> IF j = 1 THEN seqs[j] ELSE f[j - 1] \o seqs[j]]
    BY <1>1, <2>2
  <2>4. FlattenSeq(seqs) = f[n]
    BY <1>1, <1>3 DEF FlattenSeq
  <2>. HIDE DEF f
  <2>. DEFINE K == {m \in 1..n : f[m] \in Seq(S) /\ \E w, v : Comes(seqs, m, f[m], w, v)}
  <2>5. 1 \in K
    <3>1. f[1] = seqs[1] /\ 1 \in 1..n
      BY <1>3, <2>3
    <3>2. <<>> \in Seq(S) /\ Comes(seqs, 0, <<>>, <<>>, <<>>) /\ 0 \in 0..n - 1
      BY <1>3 DEF Comes
    <3>3. PICK x, y : <<>> \o seqs[0 + 1] \in Seq(S) /\ Comes(seqs, 0 + 1, <<>> \o seqs[0 + 1], x, y)
      BY <3>2, ComesStep
    <3>4. <<>> \o seqs[0 + 1] = seqs[1] /\ 0 + 1 = 1
      BY <3>1
    <3> QED BY <3>1, <3>3, <3>4
  <2>6. ASSUME NEW m \in 1..n - 1, m \in K PROVE m + 1 \in K
    <3>1. f[m] \in Seq(S) /\ \E w, v : Comes(seqs, m, f[m], w, v)
      BY <2>6
    <3>2. m \in 0..n - 1 /\ m + 1 \in 1..n /\ m + 1 # 1 /\ (m + 1) - 1 = m
      BY <2>6
    <3>3. f[m + 1] = f[m] \o seqs[m + 1]
      BY <2>3, <3>2
    <3>4. \E x, y : f[m] \o seqs[m + 1] \in Seq(S) /\ Comes(seqs, m + 1, f[m] \o seqs[m + 1], x, y)
      BY <3>1, <3>2, ComesStep
    <3> QED BY <3>2, <3>3, <3>4
  <2>7. \A m \in 1..n : m \in K
    <3>. HIDE DEF K
    <3> QED BY <2>5, <2>6, UpTo
  <2> QED BY <2>1, <2>4, <2>7
<1> QED BY <1>2, <1>3

-----------------------------------------------------------------------------
(* Codex rollouts. *)

\* The last of some lines of a file is one of them.
LEMMA LastIsThere ==
  ASSUME NEW n \in Nat, NEW S \in SUBSET (1..n), S # {}
  PROVE  \E l \in S : \A m \in S : m <= l
<1>. DEFINE N == {n - l : l \in S}
<1>1. N \subseteq Nat /\ N # {}
  <2>1. \A l \in S : l \in Int /\ n - l \in Nat
    OBVIOUS
  <2>2. PICK l \in S : TRUE
    OBVIOUS
  <2>3. n - l \in N
    OBVIOUS
  <2> QED BY <2>1, <2>3
<1>2. IsWellFoundedOn(NatLess, Nat)
  BY NatLessThanWellFounded DEF NatLess
<1>3. PICK k \in N : \A j \in N : ~(<<j, k>> \in NatLess)
  BY <1>1, <1>2, WFMin
<1>4. \A j \in N : ~(j < k)
  BY <1>1, <1>3, Zenon DEF NatLess, OpToRel
<1>5. PICK l \in S : k = n - l
  BY <1>3
<1>6. ASSUME NEW m \in S PROVE m <= l
  <2>1. n - m \in N /\ n - m \in Nat /\ n - l \in Nat /\ m \in Nat /\ l \in Nat
    OBVIOUS
  <2>2. ~(n - m < n - l)
    BY <1>4, <1>5, <2>1
  <2> QED BY <2>1, <2>2
<1> QED BY <1>6

\* What the first pass says has its type.
LEMMA StatedIsFunction ==
  /\ <<>> \in Stated
  /\ \A c \in Stated : DOMAIN c \subseteq Field /\ \A f \in DOMAIN c : c[f] \in Setting
  /\ \A c, d \in Stated :
       [f \in DOMAIN c \cup DOMAIN d |-> IF f \in DOMAIN c THEN c[f] ELSE d[f]] \in Stated
<1>1. <<>> \in Stated
  <2>1. <<>> \in Seq(Setting) /\ Len(<<>>) = 0
    BY EmptySeq
  <2>2. <<>> \in [1..Len(<<>>) -> Setting]
    BY <2>1, LenProperties
  <2>3. 1..Len(<<>>) = {}
    BY <2>1
  <2>4. <<>> \in [{} -> Setting] /\ {} \in SUBSET Field
    BY <2>2, <2>3
  <2> QED BY <2>4 DEF Stated
<1>2. ASSUME NEW c \in Stated PROVE DOMAIN c \subseteq Field /\ \A f \in DOMAIN c : c[f] \in Setting
  <2>1. PICK S \in SUBSET Field : c \in [S -> Setting]
    BY DEF Stated
  <2> QED BY <2>1
<1>3. ASSUME NEW c \in Stated, NEW d \in Stated
      PROVE  [f \in DOMAIN c \cup DOMAIN d |-> IF f \in DOMAIN c THEN c[f] ELSE d[f]] \in Stated
  <2>1. [f \in DOMAIN c \cup DOMAIN d |-> IF f \in DOMAIN c THEN c[f] ELSE d[f]]
          \in [DOMAIN c \cup DOMAIN d -> Setting]
    BY <1>2
  <2>2. DOMAIN c \cup DOMAIN d \in SUBSET Field
    BY <1>2
  <2> QED BY <2>1, <2>2 DEF Stated
<1> QED BY <1>1, <1>2, <1>3

\* The lines of a rollout, and their records.
LEMMA FileFacts ==
  ASSUME NEW file \in Seq(RolloutRecord)
  PROVE  /\ Len(file) \in Nat /\ DOMAIN file = 1..Len(file)
         /\ \A l \in DOMAIN file : file[l] \in RolloutRecord
BY LenProperties, ElementOfSeq

\* The kinds of records, by their type.
LEMMA RecordFacts ==
  ASSUME NEW r \in RolloutRecord
  PROVE  /\ r.type = "configuration" => r.states \in Stated
         /\ r.type = "submission" => r.text \in Text
         /\ r.type = "message" => r.text \in Text /\ r = [type |-> "message", role |-> r.role, text |-> r.text]
         /\ r.type = "compacted" => r.summaries \in 1..2
         /\ r.type = "call" => r.call \in Call /\ r.tool \in Tool
         /\ r.type = "output" => r.call \in Call /\ r.fails \in BOOLEAN
         /\ r.type = "mcp_end" => r.call \in Call
BY DEF RolloutRecord

\* The first pass finds tool names and verdicts for calls.
LEMMA FirstPassIsTyped ==
  ASSUME NEW file \in Seq(RolloutRecord), NEW c
  PROVE  NameOf(file, c) \in Tool \cup {NoName} /\ Fails(file, c) \in BOOLEAN
<1>1. Len(file) \in Nat /\ DOMAIN file = 1..Len(file) /\ \A l \in DOMAIN file : file[l] \in RolloutRecord
  BY FileFacts
<1>2. NameOf(file, c) \in Tool \cup {NoName}
  <2>. DEFINE calls == {l \in DOMAIN file : file[l].type = "call" /\ file[l].call = c}
              last  == CHOOSE l \in calls : \A m \in calls : m <= l
  <2>1. CASE calls = {}
    BY <2>1 DEF NameOf
  <2>2. CASE calls # {}
    <3>1. \E l \in calls : \A m \in calls : m <= l
      BY <1>1, <2>2, LastIsThere
    <3>2. last \in calls
      BY <3>1
    <3>3. NameOf(file, c) = file[last].tool
      BY <2>2 DEF NameOf
    <3>4. file[last].type = "call" /\ file[last] \in RolloutRecord
      BY <1>1, <3>2
    <3> QED BY <3>3, <3>4, RecordFacts
  <2> QED BY <2>1, <2>2
<1>3. Fails(file, c) \in BOOLEAN
  BY DEF Fails
<1> QED BY <1>2, <1>3

UserMessage(t) == [type |-> "message", role |-> "user", text |-> t]
SaidUpTo(file, l, t) == {m \in 1..l : file[m] = UserMessage(t)}
SaidInFile(file, l, t) == Cardinality(SaidUpTo(file, l, t))

\* What is left of the submissions of a text after some lines.
ClaimedUpTo(file, l, left) ==
  \A t \in Text : left[t] = IF Submitted(file, t) > SaidInFile(file, l, t)
                            THEN Submitted(file, t) - SaidInFile(file, l, t) ELSE 0

Stating(file, l, f) == {m \in 1..l : file[m].type = "configuration" /\ f \in DOMAIN file[m].states}

\* The configuration in force after some lines.
ProviderInForce(file, l, c) ==
  \A f \in Field :
    /\ f \in DOMAIN c <=> Stating(file, l, f) # {}
    /\ f \in DOMAIN c => \E m \in Stating(file, l, f) :
         /\ \A k \in Stating(file, l, f) : k <= m
         /\ c[f] = file[m].states[f]

OnFile(file) == \E t \in Text : Submitted(file, t) > 0

\* An Event says of the other records what they say.
Follows(file, e) ==
  LET l == e.id[1] IN
  /\ file[l].type = "message" /\ file[l].role = "user" =>
       (e.kind = "prompt" <=>
          (OnFile(file) => SaidInFile(file, l, file[l].text) <= Submitted(file, file[l].text)))
  /\ e.kind \in {"prompt", "response", "call", "result"} => ProviderInForce(file, l, e.config)
  /\ e.kind \in {"transport", "result"} => e.failed = Fails(file, e.about)

\* The Events follow the rollout, the submissions left are those no message has
\* claimed, and the configuration is the one in force at the line reached.
RolloutInv ==
  /\ RolloutTypeOK
  /\ \A i \in DOMAIN emitted : emitted[i].id[1] \in 1..line /\ Follows(rollout, emitted[i])
  /\ ClaimedUpTo(rollout, line, unclaimed)
  /\ ProviderInForce(rollout, line, config)

\* How often a text was said, line by line.
LEMMA SaidIsCounted ==
  ASSUME NEW file, NEW l \in Nat, NEW t
  PROVE  /\ SaidInFile(file, l, t) \in Nat
         /\ SaidInFile(file, 0, t) = 0
         /\ file[l + 1] = UserMessage(t) => SaidInFile(file, l + 1, t) = SaidInFile(file, l, t) + 1
         /\ file[l + 1] # UserMessage(t) => SaidInFile(file, l + 1, t) = SaidInFile(file, l, t)
<1>1. \A n \in Nat : IsFiniteSet(1..n)
  BY FS_Interval
<1>2. \A n \in Nat : IsFiniteSet(SaidUpTo(file, n, t))
  BY <1>1, FS_Subset DEF SaidUpTo
<1>3. SaidInFile(file, l, t) \in Nat
  BY <1>2, FS_CardinalityType DEF SaidInFile
<1>4. SaidInFile(file, 0, t) = 0
  <2>1. SaidUpTo(file, 0, t) = {}
    BY DEF SaidUpTo
  <2> QED BY <2>1, FS_EmptySet DEF SaidInFile
<1>5. \A m : m \in 1..(l + 1) <=> m \in 1..l \/ m = l + 1
  OBVIOUS
<1>6. ASSUME file[l + 1] = UserMessage(t) PROVE SaidInFile(file, l + 1, t) = SaidInFile(file, l, t) + 1
  <2>1. SaidUpTo(file, l + 1, t) = SaidUpTo(file, l, t) \cup {l + 1}
    BY <1>5, <1>6 DEF SaidUpTo
  <2>2. l + 1 \notin SaidUpTo(file, l, t)
    BY DEF SaidUpTo
  <2>. HIDE DEF UserMessage
  <2> QED BY <1>2, <2>1, <2>2, FS_AddElement DEF SaidInFile
<1>7. ASSUME file[l + 1] # UserMessage(t) PROVE SaidInFile(file, l + 1, t) = SaidInFile(file, l, t)
  <2>1. SaidUpTo(file, l + 1, t) = SaidUpTo(file, l, t)
    BY <1>5, <1>7 DEF SaidUpTo
  <2> QED BY <2>1 DEF SaidInFile
<1> QED BY <1>3, <1>4, <1>6, <1>7

\* A text is submitted at most once per line.
LEMMA SubmittedIsCounted ==
  ASSUME NEW file \in Seq(RolloutRecord), NEW t
  PROVE  Submitted(file, t) \in 0..Len(file)
<1>1. Len(file) \in Nat /\ DOMAIN file = 1..Len(file)
  BY FileFacts
<1>2. IsFiniteSet(1..Len(file)) /\ Cardinality(1..Len(file)) = Len(file)
  BY <1>1, FS_Interval
<1>. DEFINE S == {l \in DOMAIN file : file[l] = [type |-> "submission", text |-> t]}
<1>3. S \subseteq 1..Len(file)
  BY <1>1
<1>4. Submitted(file, t) = Cardinality(S)
  BY DEF Submitted
<1>. HIDE DEF S
<1>5. IsFiniteSet(S) /\ Cardinality(S) <= Len(file) /\ Cardinality(S) \in Nat
  BY <1>2, <1>3, FS_Subset, FS_CardinalityType
<1> QED BY <1>1, <1>4, <1>5

\* A line that states no configuration leaves the one in force.
LEMMA StillInForce ==
  ASSUME NEW file, NEW l \in Nat, NEW c, ProviderInForce(file, l, c), file[l + 1].type # "configuration"
  PROVE  ProviderInForce(file, l + 1, c)
<1>1. \A m : m \in 1..(l + 1) <=> m \in 1..l \/ m = l + 1
  OBVIOUS
<1>2. \A f : Stating(file, l + 1, f) = Stating(file, l, f)
  BY <1>1 DEF Stating
<1> QED BY <1>2 DEF ProviderInForce

\* One that does replaces what it states.
LEMMA NowInForce ==
  ASSUME NEW file, NEW l \in Nat, NEW c, ProviderInForce(file, l, c), file[l + 1].type = "configuration",
         NEW d, d = [f \in DOMAIN file[l + 1].states \cup DOMAIN c |->
                       IF f \in DOMAIN file[l + 1].states THEN file[l + 1].states[f] ELSE c[f]]
  PROVE  ProviderInForce(file, l + 1, d)
<1>1. \A m : m \in 1..(l + 1) <=> m \in 1..l \/ m = l + 1
  OBVIOUS
<1>2. \A f : Stating(file, l + 1, f) = IF f \in DOMAIN file[l + 1].states
                                       THEN Stating(file, l, f) \cup {l + 1} ELSE Stating(file, l, f)
  BY <1>1 DEF Stating
<1>3. \A f : Stating(file, l, f) \subseteq 1..l
  BY DEF Stating
<1>4. ASSUME NEW f \in Field, f \in DOMAIN file[l + 1].states
      PROVE  /\ f \in DOMAIN d /\ Stating(file, l + 1, f) # {}
             /\ \E m \in Stating(file, l + 1, f) :
                  /\ \A k \in Stating(file, l + 1, f) : k <= m
                  /\ d[f] = file[m].states[f]
  <2>1. Stating(file, l + 1, f) = Stating(file, l, f) \cup {l + 1}
    BY <1>2, <1>4
  <2>2. \A k \in Stating(file, l + 1, f) : k <= l + 1
    <3>1. \A k \in 1..l : k <= l + 1
      OBVIOUS
    <3> QED BY <1>3, <2>1, <3>1
  <2>3. f \in DOMAIN d /\ d[f] = file[l + 1].states[f]
    BY <1>4
  <2> QED BY <2>1, <2>2, <2>3
<1>5. ASSUME NEW f \in Field, f \notin DOMAIN file[l + 1].states
      PROVE  /\ f \in DOMAIN d <=> f \in DOMAIN c
             /\ f \in DOMAIN c => d[f] = c[f]
             /\ Stating(file, l + 1, f) = Stating(file, l, f)
  BY <1>2, <1>5
<1> QED BY <1>4, <1>5 DEF ProviderInForce

\* A line that is no message of the user claims nothing; one that is claims one.
LEMMA ClaimsMove ==
  ASSUME NEW file \in Seq(RolloutRecord), NEW l \in Nat, NEW u \in [Text -> Nat], NEW v,
         ClaimedUpTo(file, l, u),
         \/ v = u /\ \A t \in Text : file[l + 1] # UserMessage(t)
         \/ \E t \in Text : /\ file[l + 1] = UserMessage(t)
                            /\ v = IF u[t] = 0 THEN u ELSE [u EXCEPT ![t] = @ - 1]
  PROVE  ClaimedUpTo(file, l + 1, v)
<1> SUFFICES ASSUME NEW s \in Text
             PROVE  v[s] = IF Submitted(file, s) > SaidInFile(file, l + 1, s)
                           THEN Submitted(file, s) - SaidInFile(file, l + 1, s) ELSE 0
  BY DEF ClaimedUpTo
<1>1. /\ Submitted(file, s) \in Nat /\ SaidInFile(file, l, s) \in Nat
      /\ u[s] = IF Submitted(file, s) > SaidInFile(file, l, s)
                THEN Submitted(file, s) - SaidInFile(file, l, s) ELSE 0
  <2>1. Submitted(file, s) \in 0..Len(file) /\ Len(file) \in Nat
    BY SubmittedIsCounted, FileFacts
  <2>2. SaidInFile(file, l, s) \in Nat
    BY SaidIsCounted
  <2>3. Submitted(file, s) \in Nat
    BY <2>1
  <2> QED BY <2>2, <2>3 DEF ClaimedUpTo
<1>2. CASE file[l + 1] # UserMessage(s)
  <2>1. v[s] = u[s]
    <3>1. CASE v = u
      BY <3>1
    <3>2. ASSUME NEW t \in Text, file[l + 1] = UserMessage(t),
                 v = IF u[t] = 0 THEN u ELSE [u EXCEPT ![t] = @ - 1]
          PROVE  v[s] = u[s]
      BY <1>2, <3>2
    <3> QED BY <3>1, <3>2
  <2>2. SaidInFile(file, l + 1, s) = SaidInFile(file, l, s)
    BY <1>2, SaidIsCounted
  <2> QED BY <1>1, <2>1, <2>2
<1>3. CASE file[l + 1] = UserMessage(s)
  <2>1. v = IF u[s] = 0 THEN u ELSE [u EXCEPT ![s] = @ - 1]
    <3>1. ~(v = u /\ \A t \in Text : file[l + 1] # UserMessage(t))
      BY <1>3
    <3>2. PICK t \in Text : /\ file[l + 1] = UserMessage(t)
                           /\ v = IF u[t] = 0 THEN u ELSE [u EXCEPT ![t] = @ - 1]
      BY <3>1
    <3>3. UserMessage(t).text = t /\ UserMessage(s).text = s
      BY DEF UserMessage
    <3>4. t = s
      BY <1>3, <3>2, <3>3
    <3> QED BY <3>2, <3>4
  <2>2. v[s] = IF u[s] = 0 THEN 0 ELSE u[s] - 1
    BY <2>1
  <2>3. SaidInFile(file, l + 1, s) = SaidInFile(file, l, s) + 1
    BY <1>3, SaidIsCounted
  <2> QED BY <1>1, <2>2, <2>3
<1> QED BY <1>2, <1>3

\* What a step does that takes the next line to some Events.
Took(new) ==
  /\ line < Len(rollout) /\ line' = line + 1 /\ rollout' = rollout
  /\ emitted' = emitted \o new /\ new \in Seq(Event)
  /\ \A k \in DOMAIN new : new[k].id[1] = line + 1 /\ Follows(rollout, new[k])
  /\ refused' \subseteq 1..(line + 1) /\ counted' \subseteq 1..(line + 1)

\* A step that takes a line with sound events, and keeps what the configuration and
\* the claims say of the lines taken, keeps the invariant.
LEMMA LineIsTaken ==
  ASSUME RolloutInv, NEW new, Took(new),
         config' \in Stated, ProviderInForce(rollout, line + 1, config'),
         unclaimed' \in [Text -> 0..MaxLines], ClaimedUpTo(rollout, line + 1, unclaimed')
  PROVE  RolloutInv'
<1>1. /\ rollout \in Seq(RolloutRecord) /\ Len(rollout) <= MaxLines /\ Len(rollout) \in Nat
      /\ line \in 0..Len(rollout) /\ line + 1 \in 1..Len(rollout) /\ emitted \in Seq(Event)
  <2>1. rollout \in Seq(RolloutRecord) /\ line \in 0..Len(rollout) /\ line < Len(rollout)
    BY DEF RolloutInv, RolloutTypeOK, Took
  <2>2. Len(rollout) \in Nat
    BY <2>1, FileFacts
  <2> QED BY <2>1, <2>2 DEF RolloutInv, RolloutTypeOK
<1>2. /\ emitted' \in Seq(Event) /\ Len(emitted') = Len(emitted) + Len(new)
      /\ \A i \in 1..(Len(emitted) + Len(new)) :
           emitted'[i] = IF i <= Len(emitted) THEN emitted[i] ELSE new[i - Len(emitted)]
      /\ Len(emitted) \in Nat /\ Len(new) \in Nat
      /\ DOMAIN emitted = 1..Len(emitted) /\ DOMAIN new = 1..Len(new)
  BY <1>1, ConcatProperties, LenProperties DEF Took
<1>3. RolloutTypeOK'
  BY <1>1, <1>2 DEF Took, RolloutTypeOK
<1>4. ASSUME NEW i \in DOMAIN emitted'
      PROVE  emitted'[i].id[1] \in 1..line' /\ Follows(rollout', emitted'[i])
  <2>1. i \in 1..(Len(emitted) + Len(new))
    BY <1>2, LenProperties
  <2>2. CASE i <= Len(emitted)
    <3>1. i \in DOMAIN emitted /\ emitted'[i] = emitted[i]
      BY <1>2, <2>1, <2>2
    <3>2. emitted[i].id[1] \in 1..line /\ Follows(rollout, emitted[i])
      BY <3>1 DEF RolloutInv
    <3> QED BY <1>1, <3>1, <3>2 DEF Took
  <2>3. CASE i > Len(emitted)
    <3>1. i - Len(emitted) \in DOMAIN new /\ emitted'[i] = new[i - Len(emitted)]
      BY <1>2, <2>1, <2>3
    <3>2. new[i - Len(emitted)].id[1] = line + 1 /\ Follows(rollout, new[i - Len(emitted)])
      BY <3>1 DEF Took
    <3>3. line + 1 \in 1..line'
      BY <1>1 DEF Took
    <3> QED BY <3>1, <3>2, <3>3 DEF Took
  <2> QED BY <1>2, <2>1, <2>2, <2>3
<1>5. ClaimedUpTo(rollout', line', unclaimed') /\ ProviderInForce(rollout', line', config')
  BY DEF Took
<1> QED BY <1>3, <1>4, <1>5 DEF RolloutInv

\* Most lines leave the submissions and the configuration as they were.
LEMMA LineIsTakenQuietly ==
  ASSUME RolloutInv, NEW new, Took(new), UNCHANGED <<config, unclaimed>>,
         Here.type # "configuration", \A t \in Text : Here # UserMessage(t)
  PROVE  RolloutInv'
<1>1. rollout \in Seq(RolloutRecord) /\ line \in Nat
  <2>1. rollout \in Seq(RolloutRecord) /\ line \in 0..Len(rollout)
    BY DEF RolloutInv, RolloutTypeOK
  <2> QED BY <2>1
<1>2. config \in Stated /\ unclaimed \in [Text -> 0..MaxLines]
  BY DEF RolloutInv, RolloutTypeOK
<1>3. ProviderInForce(rollout, line + 1, config)
  BY <1>1, StillInForce DEF RolloutInv, Here
<1>4. unclaimed \in [Text -> Nat]
  <2>1. 0..MaxLines \subseteq Nat
    OBVIOUS
  <2> QED BY <1>2, <2>1
<1>5. ClaimedUpTo(rollout, line + 1, unclaimed)
  BY <1>1, <1>4, ClaimsMove DEF RolloutInv, Here
<1> QED BY <1>2, <1>3, <1>5, LineIsTaken

\* What an Event is made of.
Name == Text \cup Call \cup {NoName}
Alike(d, e) == d.id = e.id /\ d.kind = e.kind /\ d.config = e.config

\* An event with one field changed is an event, and the other fields stay.
LEMMA EventsAreMade ==
  ASSUME NEW e \in Event
  PROVE  /\ \A x \in Name :
              /\ [e EXCEPT !.about = x] \in Event /\ Alike([e EXCEPT !.about = x], e)
              /\ [e EXCEPT !.about = x].about = x /\ [e EXCEPT !.about = x].failed = e.failed
         /\ \A y \in Tool \cup {NoName} :
              /\ [e EXCEPT !.tool = y] \in Event /\ Alike([e EXCEPT !.tool = y], e)
              /\ [e EXCEPT !.tool = y].about = e.about /\ [e EXCEPT !.tool = y].failed = e.failed
         /\ \A z \in BOOLEAN :
              /\ [e EXCEPT !.failed = z] \in Event /\ Alike([e EXCEPT !.failed = z], e)
              /\ [e EXCEPT !.failed = z].about = e.about /\ [e EXCEPT !.failed = z].failed = z
<1>1. ASSUME NEW x \in Name
      PROVE  /\ [e EXCEPT !.about = x] \in Event /\ Alike([e EXCEPT !.about = x], e)
             /\ [e EXCEPT !.about = x].about = x /\ [e EXCEPT !.about = x].failed = e.failed
  BY DEF Event, Alike, Name
<1>2. ASSUME NEW y \in Tool \cup {NoName}
      PROVE  /\ [e EXCEPT !.tool = y] \in Event /\ Alike([e EXCEPT !.tool = y], e)
             /\ [e EXCEPT !.tool = y].about = e.about /\ [e EXCEPT !.tool = y].failed = e.failed
  BY DEF Event, Alike
<1>3. ASSUME NEW z \in BOOLEAN
      PROVE  /\ [e EXCEPT !.failed = z] \in Event /\ Alike([e EXCEPT !.failed = z], e)
             /\ [e EXCEPT !.failed = z].about = e.about /\ [e EXCEPT !.failed = z].failed = z
  BY DEF Event, Alike
<1> QED BY <1>1, <1>2, <1>3

\* Several changes of an Event are one after the other.
LEMMA ChangesAreSeparate ==
  ASSUME NEW e \in Event, NEW x, NEW y, NEW z
  PROVE  /\ [e EXCEPT !.about = x, !.tool = y] = [[e EXCEPT !.about = x] EXCEPT !.tool = y]
         /\ [e EXCEPT !.about = x, !.failed = z] = [[e EXCEPT !.about = x] EXCEPT !.failed = z]
         /\ [e EXCEPT !.about = x, !.tool = y, !.failed = z]
              = [[[e EXCEPT !.about = x] EXCEPT !.tool = y] EXCEPT !.failed = z]
<1>1. [e EXCEPT !.about = x, !.tool = y] = [[e EXCEPT !.about = x] EXCEPT !.tool = y]
  BY DEF Event
<1>2. [e EXCEPT !.about = x, !.failed = z] = [[e EXCEPT !.about = x] EXCEPT !.failed = z]
  BY DEF Event
<1>3. [e EXCEPT !.about = x, !.tool = y, !.failed = z]
              = [[[e EXCEPT !.about = x] EXCEPT !.tool = y] EXCEPT !.failed = z]
  BY DEF Event
<1> QED BY <1>1, <1>2, <1>3

Kinds == {"prompt", "context", "response", "reasoning", "compaction",
          "call", "result", "transport", "status", "lifecycle"}

\* The events an action starts from are numbered after their line.
LEMMA Outlined ==
  ASSUME line + 1 \in 1..MaxLines, config \in Stated, NEW kind \in Kinds
  PROVE  /\ Bare(kind) \in Event /\ Bare(kind).id = <<line + 1, 0>> /\ Bare(kind).kind = kind
         /\ Configured(kind) \in Event /\ Configured(kind).id = <<line + 1, 0>>
         /\ Configured(kind).kind = kind /\ Configured(kind).config = config
<1>1. <<>> \in Stated
  BY StatedIsFunction
<1>2. <<line + 1, 0>> \in (1..MaxLines) \X (0..1) /\ <<line + 1, 0>>[1] = line + 1
  OBVIOUS
<1>3. Bare(kind) \in Event /\ Bare(kind).id = <<line + 1, 0>> /\ Bare(kind).kind = kind
  BY <1>1, <1>2 DEF Bare, Event, Kinds
<1>4. Configured(kind) = [Bare(kind) EXCEPT !.config = config]
  BY Zenon DEF Configured
<1>5. ASSUME NEW e \in Event
      PROVE  /\ [e EXCEPT !.config = config] \in Event
             /\ [e EXCEPT !.config = config].id = e.id
             /\ [e EXCEPT !.config = config].kind = e.kind
             /\ [e EXCEPT !.config = config].config = config
  BY DEF Event
<1>. HIDE DEF Bare, Configured
<1> QED BY <1>3, <1>4, <1>5

\* No events are a sequence of events.
LEMMA NoEvent == <<>> \in Seq(Event) /\ DOMAIN <<>> = {}
<1>1. <<>> \in Seq(Event) /\ Len(<<>>) = 0
  BY EmptySeq
<1>2. DOMAIN <<>> = 1..Len(<<>>)
  BY <1>1, LenProperties
<1>3. 1..Len(<<>>) = {}
  BY <1>1
<1> QED BY <1>1, <1>2, <1>3

\* One event is a sequence of events.
LEMMA OneEvent ==
  ASSUME NEW e \in Event
  PROVE  <<e>> \in Seq(Event) /\ \A k \in DOMAIN <<e>> : <<e>>[k] = e
OBVIOUS

\* A line that leaves no Event.
LEMMA NothingTaken ==
  ASSUME RolloutInv, line < Len(rollout), Refuse \/ Count
  PROVE  Took(<<>>)
<1>1. line \in Nat /\ emitted \in Seq(Event) /\ refused \subseteq 1..line /\ counted \subseteq 1..line
  <2>1. line \in 0..Len(rollout)
    BY DEF RolloutInv, RolloutTypeOK
  <2> QED BY <2>1 DEF RolloutInv, RolloutTypeOK
<1>2. emitted \o <<>> = emitted
  BY <1>1, ConcatEmptySeq
<1>3. 1..line \subseteq 1..(line + 1) /\ line + 1 \in 1..(line + 1)
  BY <1>1
<1>4. refused' \subseteq 1..(line + 1) /\ counted' \subseteq 1..(line + 1)
  BY <1>1, <1>3 DEF Refuse, Count
<1>5. \A k \in DOMAIN <<>> : <<>>[k].id[1] = line + 1 /\ Follows(rollout, <<>>[k])
  BY NoEvent
<1>6. line' = line + 1 /\ rollout' = rollout /\ emitted' = emitted
  BY DEF Refuse, Count
<1>. HIDE DEF Refuse, Count
<1> QED BY <1>2, <1>4, <1>5, <1>6, NoEvent DEF Took

\* One that leaves one.
LEMMA OneTaken ==
  ASSUME RolloutInv, line < Len(rollout), NEW e \in Event, Yield(<<e>>),
         e.id[1] = line + 1, Follows(rollout, e)
  PROVE  Took(<<e>>)
<1>1. line \in Nat /\ refused \subseteq 1..line /\ counted \subseteq 1..line
  <2>1. line \in 0..Len(rollout)
    BY DEF RolloutInv, RolloutTypeOK
  <2> QED BY <2>1 DEF RolloutInv, RolloutTypeOK
<1>2. 1..line \subseteq 1..(line + 1)
  BY <1>1
<1>3. \A k \in DOMAIN <<e>> : <<e>>[k].id[1] = line + 1 /\ Follows(rollout, <<e>>[k])
  BY OneEvent
<1>4. <<e>> \in Seq(Event)
  BY OneEvent
<1> QED BY <1>1, <1>2, <1>3, <1>4 DEF Took, Yield

\* The line that is decoded.
LEMMA HereIsARecord ==
  ASSUME RolloutInv, line < Len(rollout)
  PROVE  /\ rollout \in Seq(RolloutRecord) /\ line \in Nat /\ line + 1 \in 1..MaxLines
         /\ Here = rollout[line + 1] /\ Here \in RolloutRecord
         /\ config \in Stated /\ unclaimed \in [Text -> 0..MaxLines]
         /\ ProviderInForce(rollout, line, config) /\ ClaimedUpTo(rollout, line, unclaimed)
<1>1. rollout \in Seq(RolloutRecord) /\ Len(rollout) <= MaxLines /\ line \in 0..Len(rollout)
  BY DEF RolloutInv, RolloutTypeOK
<1>2. Len(rollout) \in Nat /\ DOMAIN rollout = 1..Len(rollout)
      /\ \A l \in DOMAIN rollout : rollout[l] \in RolloutRecord
  BY <1>1, FileFacts
<1>3. line \in Nat /\ line + 1 \in 1..Len(rollout) /\ line + 1 \in 1..MaxLines
  BY <1>1, <1>2, RolloutAssumption DEF RolloutAssumption
<1>4. Here = rollout[line + 1] /\ Here \in RolloutRecord
  BY <1>2, <1>3 DEF Here
<1> QED BY <1>1, <1>3, <1>4 DEF RolloutInv, RolloutTypeOK

\* The record of a message a user sent.
LEMMA NotSaid == \A r : \A t \in Text : r = UserMessage(t) => r.type = "message" /\ r.role = "user" /\ r.text = t
BY DEF UserMessage

\* A line may end as one Event or as a count.
LEMMA BoundedTakes ==
  ASSUME RolloutInv, line < Len(rollout), NEW e \in Event, Bounded(<<e>>),
         e.id[1] = line + 1, Follows(rollout, e)
  PROVE  \E new : Took(new)
<1>1. CASE Yield(<<e>>)
  BY <1>1, OneTaken
<1>2. CASE Count
  BY <1>2, NothingTaken
<1> QED BY <1>1, <1>2 DEF Bounded

\* A record the decoder skips keeps the invariant.
LEMMA SkipKeeps == ASSUME RolloutInv, Skip PROVE RolloutInv'
<1>1. line < Len(rollout) /\ Here.type \in {"malformed", "unknown", "known", "submission"}
      /\ (Refuse \/ Count) /\ UNCHANGED <<config, unclaimed>>
  BY DEF Skip, At, Here
<1>2. Took(<<>>)
  BY <1>1, NothingTaken
<1>3. Here.type # "configuration" /\ \A t \in Text : Here # UserMessage(t)
  BY <1>1, NotSaid
<1> QED BY <1>1, <1>2, <1>3, LineIsTakenQuietly

\* A record that states configuration keeps the invariant.
LEMMA DecodeConfigurationKeeps == ASSUME RolloutInv, DecodeConfiguration PROVE RolloutInv'
<1>1. line < Len(rollout) /\ Here.type = "configuration" /\ Count /\ Update(Here.states)
      /\ unclaimed' = unclaimed
  BY DEF DecodeConfiguration, At, Here
<1>2. /\ rollout \in Seq(RolloutRecord) /\ line \in Nat /\ Here = rollout[line + 1]
      /\ Here \in RolloutRecord /\ config \in Stated /\ unclaimed \in [Text -> 0..MaxLines]
      /\ ProviderInForce(rollout, line, config) /\ ClaimedUpTo(rollout, line, unclaimed)
  BY <1>1, HereIsARecord
<1>3. Took(<<>>)
  BY <1>1, NothingTaken
<1>4. Here.states \in Stated
  BY <1>1, <1>2, RecordFacts
<1>5. config' = [f \in DOMAIN Here.states \cup DOMAIN config |->
                   IF f \in DOMAIN Here.states THEN Here.states[f] ELSE config[f]]
  BY <1>1 DEF Update
<1>6. config' \in Stated
  BY <1>2, <1>4, <1>5, StatedIsFunction
<1>7. ProviderInForce(rollout, line + 1, config')
  BY <1>1, <1>2, <1>5, NowInForce
<1>8. \A t \in Text : rollout[line + 1] # UserMessage(t)
  BY <1>1, <1>2, NotSaid
<1>9. ClaimedUpTo(rollout, line + 1, unclaimed)
  <2>1. unclaimed \in [Text -> Nat]
    BY <1>2
  <2> QED BY <1>2, <1>8, <2>1, ClaimsMove
<1> QED BY <1>1, <1>2, <1>3, <1>6, <1>7, <1>9, LineIsTaken

\* Events of a line that is neither a message nor a configuration.
LEMMA PlainEventFollows ==
  ASSUME RolloutInv, line < Len(rollout), Here.type \notin {"message", "configuration"},
         NEW kind \in Kinds
  PROVE  /\ Bare(kind) \in Event /\ Bare(kind).id[1] = line + 1
         /\ Configured(kind) \in Event /\ Configured(kind).id[1] = line + 1
         /\ kind \in {"reasoning", "call", "status"} => Follows(rollout, Configured(kind))
         /\ kind \in {"lifecycle", "compaction"} => Follows(rollout, Bare(kind))
         /\ ProviderInForce(rollout, line + 1, config)
<1>1. /\ rollout \in Seq(RolloutRecord) /\ line \in Nat /\ line + 1 \in 1..MaxLines
      /\ Here = rollout[line + 1] /\ config \in Stated /\ ProviderInForce(rollout, line, config)
  BY HereIsARecord
<1>2. ProviderInForce(rollout, line + 1, config)
  BY <1>1, StillInForce
<1>3. /\ Bare(kind) \in Event /\ Bare(kind).id[1] = line + 1 /\ Bare(kind).kind = kind
      /\ Configured(kind) \in Event /\ Configured(kind).id[1] = line + 1
      /\ Configured(kind).kind = kind /\ Configured(kind).config = config
  BY <1>1, Outlined
<1>. HIDE DEF Bare, Configured
<1>4. kind \in {"reasoning", "call", "status"} => Follows(rollout, Configured(kind))
  BY <1>1, <1>2, <1>3 DEF Follows
<1>5. kind \in {"lifecycle", "compaction"} => Follows(rollout, Bare(kind))
  BY <1>1, <1>3 DEF Follows
<1> QED BY <1>2, <1>3, <1>4, <1>5

\* A reasoning record keeps the invariant.
LEMMA DecodeReasoningKeeps == ASSUME RolloutInv, DecodeReasoning PROVE RolloutInv'
<1>1. line < Len(rollout) /\ Here.type = "reasoning" /\ UNCHANGED <<config, unclaimed>>
  BY DEF DecodeReasoning, At, Here
<1>2. \/ Bounded(<<Configured("reasoning")>>) \/ Yield(<<Configured("reasoning")>>) \/ Refuse
  BY Zenon DEF DecodeReasoning
<1>3. "reasoning" \in Kinds
  BY DEF Kinds
<1>4. Configured("reasoning") \in Event /\ Configured("reasoning").id[1] = line + 1
      /\ Follows(rollout, Configured("reasoning"))
  BY <1>1, <1>3, PlainEventFollows
<1>5. \E new : Took(new)
  <2>. HIDE DEF Configured
  <2>1. CASE Refuse
    BY <1>1, <2>1, NothingTaken
  <2>2. CASE Yield(<<Configured("reasoning")>>)
    BY <1>1, <1>4, <2>2, OneTaken
  <2>3. CASE Bounded(<<Configured("reasoning")>>)
    BY <1>1, <1>4, <2>3, BoundedTakes
  <2> QED BY <1>2, <2>1, <2>2, <2>3
<1>6. Here.type # "configuration" /\ \A t \in Text : Here # UserMessage(t)
  BY <1>1, NotSaid
<1> QED BY <1>1, <1>5, <1>6, LineIsTakenQuietly

\* A record of collaboration keeps the invariant.
LEMMA DecodeCollaborationKeeps == ASSUME RolloutInv, DecodeCollaboration PROVE RolloutInv'
<1>1. line < Len(rollout) /\ Here.type = "status" /\ UNCHANGED <<config, unclaimed>>
      /\ Bounded(<<Configured("status")>>)
  BY DEF DecodeCollaboration, At, Here
<1>3. "status" \in Kinds
  BY DEF Kinds
<1>4. Configured("status") \in Event /\ Configured("status").id[1] = line + 1
      /\ Follows(rollout, Configured("status"))
  BY <1>1, <1>3, PlainEventFollows
<1>5. \E new : Took(new)
  BY <1>1, <1>4, BoundedTakes
<1>6. Here.type # "configuration" /\ \A t \in Text : Here # UserMessage(t)
  BY <1>1, NotSaid
<1> QED BY <1>1, <1>5, <1>6, LineIsTakenQuietly

\* A lifecycle record keeps the invariant.
LEMMA DecodeLifecycleKeeps == ASSUME RolloutInv, DecodeLifecycle PROVE RolloutInv'
<1>1. line < Len(rollout) /\ Here.type = "lifecycle" /\ UNCHANGED <<config, unclaimed>>
      /\ Bounded(<<Bare("lifecycle")>>)
  BY DEF DecodeLifecycle, At, Here
<1>3. "lifecycle" \in Kinds
  BY DEF Kinds
<1>4. Bare("lifecycle") \in Event /\ Bare("lifecycle").id[1] = line + 1
      /\ Follows(rollout, Bare("lifecycle"))
  BY <1>1, <1>3, PlainEventFollows
<1>5. \E new : Took(new)
  BY <1>1, <1>4, BoundedTakes
<1>6. Here.type # "configuration" /\ \A t \in Text : Here # UserMessage(t)
  BY <1>1, NotSaid
<1> QED BY <1>1, <1>5, <1>6, LineIsTakenQuietly

\* A call keeps the invariant.
LEMMA DecodeCallKeeps == ASSUME RolloutInv, DecodeCall PROVE RolloutInv'
<1>. DEFINE e == [Configured("call") EXCEPT !.about = Here.call, !.tool = Here.tool]
<1>1. line < Len(rollout) /\ Here.type = "call" /\ UNCHANGED <<config, unclaimed>> /\ Yield(<<e>>)
  BY DEF DecodeCall, At, Here
<1>2. /\ rollout \in Seq(RolloutRecord) /\ line \in Nat
      /\ Here = rollout[line + 1] /\ Here \in RolloutRecord
      /\ config \in Stated /\ line + 1 \in 1..MaxLines
  BY <1>1, HereIsARecord
<1>3. "call" \in Kinds
  BY DEF Kinds
<1>4. Configured("call") \in Event /\ ProviderInForce(rollout, line + 1, config)
  BY <1>1, <1>3, PlainEventFollows
<1>5. Configured("call").id = <<line + 1, 0>> /\ Configured("call").config = config
      /\ Configured("call").kind = "call"
  BY <1>2, <1>3, Outlined
<1>6. Here.call \in Name /\ Here.tool \in Tool \cup {NoName}
  BY <1>1, <1>2, RecordFacts DEF Name
<1>7. e = [[Configured("call") EXCEPT !.about = Here.call] EXCEPT !.tool = Here.tool]
  BY <1>4, ChangesAreSeparate
<1>8. [Configured("call") EXCEPT !.about = Here.call] \in Event
      /\ Alike([Configured("call") EXCEPT !.about = Here.call], Configured("call"))
  BY <1>4, <1>6, EventsAreMade
<1>9. e \in Event /\ e.id = <<line + 1, 0>> /\ e.kind = "call" /\ e.config = config
  <2>1. e \in Event /\ Alike(e, [Configured("call") EXCEPT !.about = Here.call])
    BY <1>6, <1>7, <1>8, EventsAreMade
  <2> QED BY <1>5, <1>8, <2>1 DEF Alike
<1>. HIDE DEF e
<1>10. e.id[1] = line + 1
  BY <1>9
<1>11. Follows(rollout, e)
  BY <1>1, <1>2, <1>4, <1>9, <1>10 DEF Follows
<1>12. Took(<<e>>)
  BY <1>1, <1>9, <1>10, <1>11, OneTaken
<1>13. Here.type # "configuration" /\ \A t \in Text : Here # UserMessage(t)
  BY <1>1, NotSaid
<1> QED BY <1>1, <1>12, <1>13, LineIsTakenQuietly

\* The output of a call keeps the invariant.
LEMMA DecodeOutputKeeps == ASSUME RolloutInv, DecodeOutput PROVE RolloutInv'
<1>. DEFINE named  == [Configured("result") EXCEPT !.about = Here.call]
            tooled == [named EXCEPT !.tool = NameOf(rollout, Here.call)]
            e      == [Configured("result") EXCEPT
                  !.about = Here.call, !.tool = NameOf(rollout, Here.call),
                  !.failed = Fails(rollout, Here.call)]
<1>1. line < Len(rollout) /\ Here.type = "output" /\ UNCHANGED <<config, unclaimed>> /\ Bounded(<<e>>)
  BY DEF DecodeOutput, At, Here
<1>2. /\ rollout \in Seq(RolloutRecord) /\ line \in Nat
      /\ Here = rollout[line + 1] /\ Here \in RolloutRecord
      /\ config \in Stated /\ line + 1 \in 1..MaxLines
  BY <1>1, HereIsARecord
<1>3. "result" \in Kinds
  BY DEF Kinds
<1>4. Configured("result") \in Event /\ ProviderInForce(rollout, line + 1, config)
  BY <1>1, <1>3, PlainEventFollows
<1>5. Configured("result").id = <<line + 1, 0>> /\ Configured("result").config = config
      /\ Configured("result").kind = "result"
  BY <1>2, <1>3, Outlined
<1>6. Here.call \in Name /\ NameOf(rollout, Here.call) \in Tool \cup {NoName}
      /\ Fails(rollout, Here.call) \in BOOLEAN
  BY <1>1, <1>2, RecordFacts, FirstPassIsTyped DEF Name
<1>7. e = [tooled EXCEPT !.failed = Fails(rollout, Here.call)]
  BY <1>4, ChangesAreSeparate
<1>8. named \in Event /\ Alike(named, Configured("result")) /\ named.about = Here.call
  BY <1>4, <1>6, EventsAreMade
<1>9. tooled \in Event /\ Alike(tooled, named) /\ tooled.about = named.about
  BY <1>6, <1>8, EventsAreMade
<1>10. e \in Event /\ Alike(e, tooled) /\ e.about = tooled.about /\ e.failed = Fails(rollout, Here.call)
  BY <1>6, <1>7, <1>9, EventsAreMade
<1>11. e.id = <<line + 1, 0>> /\ e.kind = "result" /\ e.config = config /\ e.about = Here.call
  BY <1>5, <1>8, <1>9, <1>10 DEF Alike
<1>. HIDE DEF e, named, tooled
<1>12. e.id[1] = line + 1
  BY <1>11
<1>13. Follows(rollout, e)
  BY <1>1, <1>2, <1>4, <1>10, <1>11, <1>12 DEF Follows
<1>14. \E new : Took(new)
  BY <1>1, <1>10, <1>12, <1>13, BoundedTakes
<1>15. Here.type # "configuration" /\ \A t \in Text : Here # UserMessage(t)
  BY <1>1, NotSaid
<1> QED BY <1>1, <1>14, <1>15, LineIsTakenQuietly

\* The end of an MCP call keeps the invariant.
LEMMA DecodeMcpEndKeeps == ASSUME RolloutInv, DecodeMcpEnd PROVE RolloutInv'
<1>. DEFINE named == [Bare("transport") EXCEPT !.about = Here.call]
            e     == [Bare("transport") EXCEPT !.about = Here.call,
                                               !.failed = Fails(rollout, Here.call)]
<1>1. line < Len(rollout) /\ Here.type = "mcp_end" /\ UNCHANGED <<config, unclaimed>> /\ Yield(<<e>>)
  BY DEF DecodeMcpEnd, At, Here
<1>2. /\ rollout \in Seq(RolloutRecord) /\ line \in Nat
      /\ Here = rollout[line + 1] /\ Here \in RolloutRecord
      /\ config \in Stated /\ line + 1 \in 1..MaxLines
  BY <1>1, HereIsARecord
<1>3. "transport" \in Kinds
  BY DEF Kinds
<1>4. Bare("transport") \in Event /\ Bare("transport").id = <<line + 1, 0>>
      /\ Bare("transport").kind = "transport"
  BY <1>2, <1>3, Outlined
<1>6. Here.call \in Name /\ Fails(rollout, Here.call) \in BOOLEAN
  BY <1>1, <1>2, RecordFacts, FirstPassIsTyped DEF Name
<1>7. e = [named EXCEPT !.failed = Fails(rollout, Here.call)]
  BY <1>4, ChangesAreSeparate
<1>8. named \in Event /\ Alike(named, Bare("transport")) /\ named.about = Here.call
  BY <1>4, <1>6, EventsAreMade
<1>10. e \in Event /\ Alike(e, named) /\ e.about = named.about /\ e.failed = Fails(rollout, Here.call)
  BY <1>6, <1>7, <1>8, EventsAreMade
<1>11. e.id = <<line + 1, 0>> /\ e.kind = "transport" /\ e.about = Here.call
  BY <1>4, <1>8, <1>10 DEF Alike
<1>. HIDE DEF e, named
<1>12. e.id[1] = line + 1
  BY <1>11
<1>13. Follows(rollout, e)
  BY <1>1, <1>2, <1>10, <1>11, <1>12 DEF Follows
<1>14. Took(<<e>>)
  BY <1>1, <1>10, <1>12, <1>13, OneTaken
<1>15. Here.type # "configuration" /\ \A t \in Text : Here # UserMessage(t)
  BY <1>1, NotSaid
<1> QED BY <1>1, <1>14, <1>15, LineIsTakenQuietly

\* The Event of a message, whatever its role.
LEMMA MessageIsAnEvent ==
  ASSUME RolloutInv, line < Len(rollout), Here.type = "message",
         NEW kind \in {"prompt", "context", "response"}
  PROVE  LET e == [Configured(kind) EXCEPT !.about = Here.text] IN
         /\ e \in Event /\ e.id[1] = line + 1 /\ e.kind = kind
         /\ e.config = config /\ ProviderInForce(rollout, line + 1, config) /\ Here.text \in Text
<1>. DEFINE e == [Configured(kind) EXCEPT !.about = Here.text]
<1>1. /\ rollout \in Seq(RolloutRecord) /\ line \in Nat /\ line + 1 \in 1..MaxLines
      /\ Here = rollout[line + 1] /\ Here \in RolloutRecord
      /\ config \in Stated /\ ProviderInForce(rollout, line, config)
  BY HereIsARecord
<1>2. ProviderInForce(rollout, line + 1, config)
  BY <1>1, StillInForce
<1>3. kind \in Kinds
  BY DEF Kinds
<1>4. /\ Configured(kind) \in Event /\ Configured(kind).id = <<line + 1, 0>>
      /\ Configured(kind).kind = kind /\ Configured(kind).config = config
  BY <1>1, <1>3, Outlined
<1>5. Here.text \in Text
  BY <1>1, RecordFacts
<1>6. e \in Event /\ Alike(e, Configured(kind))
  BY <1>4, <1>5, EventsAreMade DEF Name
<1>. HIDE DEF Configured
<1>7. e.id = <<line + 1, 0>> /\ e.kind = kind /\ e.config = config
  BY <1>4, <1>6 DEF Alike
<1>8. e.id[1] = line + 1
  BY <1>7
<1> QED BY <1>2, <1>5, <1>6, <1>7, <1>8

\* A message keeps the invariant.
LEMMA DecodeMessageKeeps == ASSUME RolloutInv, DecodeMessage PROVE RolloutInv'
<1>. DEFINE kind == IF Here.role = "assistant" THEN "response" ELSE "context"
            e    == [Configured(kind) EXCEPT !.about = Here.text]
<1>1. line < Len(rollout) /\ Here.type = "message" /\ Here.role # "user"
      /\ UNCHANGED <<config, unclaimed>> /\ (Count \/ Bounded(<<e>>))
  BY DEF DecodeMessage, At, Here
<1>2. kind \in {"prompt", "context", "response"}
  OBVIOUS
<1>3. /\ e \in Event /\ e.id[1] = line + 1 /\ e.kind = kind
      /\ e.config = config /\ ProviderInForce(rollout, line + 1, config)
  BY <1>1, <1>2, MessageIsAnEvent
<1>. HIDE DEF e
<1>4. Follows(rollout, e)
  BY <1>1, <1>3 DEF Follows, Here
<1>. HIDE DEF kind
<1>5. \E new : Took(new)
  <2>1. CASE Count
    BY <1>1, <2>1, NothingTaken
  <2>2. CASE Bounded(<<e>>)
    BY <1>1, <1>3, <1>4, <2>2, BoundedTakes
  <2> QED BY <1>1, <2>1, <2>2
<1>6. Here.type # "configuration" /\ \A t \in Text : Here # UserMessage(t)
  BY <1>1, NotSaid
<1> QED BY <1>1, <1>5, <1>6, LineIsTakenQuietly

\* A message of the user is a prompt as long as its text was submitted as often.
LEMMA DecodeUserMessageKeeps == ASSUME RolloutInv, DecodeUserMessage PROVE RolloutInv'
<1>. DEFINE kind == IF IsPrompt(Here.text) THEN "prompt" ELSE "context"
            e    == [Configured(kind) EXCEPT !.about = Here.text]
            t    == Here.text
<1>1. line < Len(rollout) /\ Here.type = "message" /\ Here.role = "user"
      /\ config' = config /\ Claim(Here.text) /\ Bounded(<<e>>)
  BY DEF DecodeUserMessage, At, Here
<1>2. kind \in {"prompt", "context", "response"}
  OBVIOUS
<1>3. /\ e \in Event /\ e.id[1] = line + 1 /\ e.kind = kind
      /\ e.config = config /\ ProviderInForce(rollout, line + 1, config) /\ t \in Text
  BY <1>1, <1>2, MessageIsAnEvent
<1>4. /\ rollout \in Seq(RolloutRecord) /\ line \in Nat
      /\ Here = rollout[line + 1] /\ Here \in RolloutRecord
      /\ config \in Stated /\ unclaimed \in [Text -> 0..MaxLines]
      /\ ClaimedUpTo(rollout, line, unclaimed)
  BY <1>1, HereIsARecord
<1>5. rollout[line + 1] = UserMessage(t)
  BY <1>1, <1>4, RecordFacts DEF UserMessage
<1>6. SaidInFile(rollout, line + 1, t) = SaidInFile(rollout, line, t) + 1 /\ SaidInFile(rollout, line, t) \in Nat
  BY <1>4, <1>5, SaidIsCounted
<1>7. Submitted(rollout, t) \in Nat
  <2>1. Submitted(rollout, t) \in 0..Len(rollout) /\ Len(rollout) \in Nat
    BY <1>4, SubmittedIsCounted, FileFacts
  <2> QED BY <2>1
<1>8. unclaimed[t] > 0 <=> SaidInFile(rollout, line + 1, t) <= Submitted(rollout, t)
  BY <1>3, <1>4, <1>6, <1>7 DEF ClaimedUpTo
<1>9. kind = "prompt" <=> (OnFile(rollout) => SaidInFile(rollout, line + 1, t) <= Submitted(rollout, t))
  BY <1>8 DEF IsPrompt, AnySubmitted, OnFile
<1>. HIDE DEF kind, e
<1>10. Follows(rollout, e)
  <2>1. e.kind # "transport" /\ e.kind # "result"
    BY <1>2, <1>3
  <2> QED BY <1>1, <1>3, <1>4, <1>9, <2>1 DEF Follows
<1>11. \E new : Took(new)
  BY <1>1, <1>3, <1>10, BoundedTakes
<1>12. unclaimed' = IF unclaimed[t] = 0 THEN unclaimed ELSE [unclaimed EXCEPT ![t] = @ - 1]
  BY <1>1 DEF Claim
<1>13. unclaimed' \in [Text -> 0..MaxLines]
  <2>1. unclaimed[t] \in 0..MaxLines
    BY <1>3, <1>4
  <2>2. unclaimed[t] # 0 => unclaimed[t] - 1 \in 0..MaxLines
    BY <2>1, RolloutAssumption DEF RolloutAssumption
  <2> QED BY <1>4, <1>12, <2>2
<1>14. ClaimedUpTo(rollout, line + 1, unclaimed')
  <2>1. unclaimed \in [Text -> Nat]
    BY <1>4
  <2> QED BY <1>3, <1>4, <1>5, <1>12, <2>1, ClaimsMove
<1> QED BY <1>1, <1>3, <1>4, <1>11, <1>13, <1>14, LineIsTaken

\* The summaries that are kept are some of those the record has.
LEMMA KeptAreSome ==
  ASSUME NEW n \in 1..2, NEW kept \in Kept(n)
  PROVE  /\ Len(kept) \in Nat /\ DOMAIN kept = 1..Len(kept)
         /\ \A k \in DOMAIN kept : kept[k] \in 0..1
<1>1. PICK m \in 0..n : kept \in [1..m -> 0..n - 1]
  BY DEF Kept
<1>2. m \in Nat /\ DOMAIN kept = 1..m
  BY <1>1
<1>3. kept \in Seq(0..n - 1)
  BY <1>1, <1>2, SeqDef
<1>4. \A k \in 1..m : kept[k] \in 0..1
  BY <1>1
<1> QED BY <1>2, <1>3, <1>4, LenProperties

\* A compaction keeps the invariant.
LEMMA DecodeCompactedKeeps == ASSUME RolloutInv, DecodeCompacted PROVE RolloutInv'
<1>1. line < Len(rollout) /\ Here.type = "compacted" /\ UNCHANGED <<config, unclaimed>>
  BY DEF DecodeCompacted, At, Here
<1>2. /\ rollout \in Seq(RolloutRecord) /\ line \in Nat /\ line + 1 \in 1..MaxLines
      /\ Here = rollout[line + 1] /\ Here \in RolloutRecord /\ config \in Stated
  BY <1>1, HereIsARecord
<1>3. Here.summaries \in 1..2
  BY <1>1, <1>2, RecordFacts
<1>4. "compaction" \in Kinds
  BY DEF Kinds
<1>5. /\ Bare("compaction") \in Event /\ Bare("compaction").kind = "compaction"
  BY <1>1, <1>2, <1>4, Outlined
<1>6. PICK kept \in Kept(Here.summaries) :
        IF DOMAIN kept = {} THEN Count
        ELSE /\ line' = line + 1 /\ UNCHANGED <<rollout, refused>>
             /\ emitted' = emitted \o [k \in DOMAIN kept |->
                  [Bare("compaction") EXCEPT !.id = <<line + 1, kept[k]>>]]
             /\ counted' = IF Len(kept) = Here.summaries THEN counted
                           ELSE counted \cup {line + 1}
  BY DEF DecodeCompacted
<1>7. /\ Len(kept) \in Nat /\ DOMAIN kept = 1..Len(kept)
      /\ \A k \in DOMAIN kept : kept[k] \in 0..1
  BY <1>3, KeptAreSome
<1>. DEFINE new == [k \in DOMAIN kept |-> [Bare("compaction") EXCEPT !.id = <<line + 1, kept[k]>>]]
<1>8. ASSUME NEW k \in DOMAIN kept
      PROVE  /\ new[k] \in Event /\ new[k].id[1] = line + 1 /\ Follows(rollout, new[k])
  <2>1. <<line + 1, kept[k]>> \in (1..MaxLines) \X (0..1) /\ <<line + 1, kept[k]>>[1] = line + 1
    BY <1>2, <1>7
  <2>2. ASSUME NEW e \in Event, NEW i \in (1..MaxLines) \X (0..1)
        PROVE  [e EXCEPT !.id = i] \in Event /\ [e EXCEPT !.id = i].id = i
               /\ [e EXCEPT !.id = i].kind = e.kind
    BY DEF Event
  <2>. HIDE DEF Bare
  <2>3. new[k] = [Bare("compaction") EXCEPT !.id = <<line + 1, kept[k]>>]
    BY <1>7
  <2>4. new[k] \in Event /\ new[k].id = <<line + 1, kept[k]>> /\ new[k].kind = "compaction"
    BY <1>5, <2>1, <2>2, <2>3
  <2>. HIDE DEF new
  <2>5. new[k].id[1] = line + 1
    BY <2>1, <2>4
  <2> QED BY <1>1, <1>2, <2>4, <2>5 DEF Follows
<1>9. DOMAIN new = DOMAIN kept
  OBVIOUS
<1>. HIDE DEF new
<1>10. \E any : Took(any)
  <2>1. CASE DOMAIN kept = {}
    BY <1>1, <1>6, <2>1, NothingTaken
  <2>2. CASE DOMAIN kept # {}
    <3>1. /\ line' = line + 1 /\ UNCHANGED <<rollout, refused>>
          /\ emitted' = emitted \o new
          /\ (counted' = counted \/ counted' = counted \cup {line + 1})
      BY <1>6, <2>2 DEF new
    <3>2. new \in Seq(Event)
      <4>1. new \in [1..Len(kept) -> Event]
        BY <1>7, <1>8, <1>9 DEF new
      <4> QED BY <1>7, <4>1, SeqDef
    <3>3. refused \subseteq 1..line /\ counted \subseteq 1..line
      BY DEF RolloutInv, RolloutTypeOK
    <3>4. 1..line \subseteq 1..(line + 1) /\ line + 1 \in 1..(line + 1)
      BY <1>2
    <3>5. refused' \subseteq 1..(line + 1) /\ counted' \subseteq 1..(line + 1)
      BY <3>1, <3>3, <3>4
    <3> QED BY <1>1, <1>8, <1>9, <3>1, <3>2, <3>5 DEF Took
  <2> QED BY <2>1, <2>2
<1>11. Here.type # "configuration" /\ \A t \in Text : Here # UserMessage(t)
  BY <1>1, NotSaid
<1> QED BY <1>1, <1>10, <1>11, LineIsTakenQuietly

\* Nothing is decoded while the file is not read.
LEMMA NothingBeforehand ==
  ASSUME NEW file, NEW c
  PROVE  ProviderInForce(file, 0, c) <=> \A f \in Field : f \notin DOMAIN c
<1>1. \A f : Stating(file, 0, f) = {}
  BY DEF Stating
<1> QED BY <1>1 DEF ProviderInForce

\* Opening another rollout keeps the invariant.
LEMMA OpenRolloutKeeps == ASSUME RolloutInv, OpenRollout PROVE RolloutInv'
<1>1. PICK n \in 1..MaxLines : rollout' \in [1..n -> RolloutRecord]
  BY DEF OpenRollout
<1>2. rollout' \in Seq(RolloutRecord) /\ Len(rollout') = n /\ n \in Nat /\ n <= MaxLines
  <2>1. n \in Nat /\ n <= MaxLines
    BY RolloutAssumption DEF RolloutAssumption
  <2>2. rollout' \in Seq(RolloutRecord)
    BY <1>1, <2>1, SeqDef
  <2>3. DOMAIN rollout' = 1..n
    BY <1>1
  <2> QED BY <2>1, <2>2, <2>3, LenProperties
<1>3. line = 0 /\ line' = 0 /\ config' = config /\ emitted' = emitted
      /\ refused' = refused /\ counted' = counted
  <2>1. Len(rollout) = 0
    BY EmptySeq DEF OpenRollout
  <2> QED BY <2>1 DEF OpenRollout, RolloutInv, RolloutTypeOK
<1>4. unclaimed' = [t \in Text |-> Submitted(rollout', t)]
  BY DEF OpenRollout
<1>5. \A t \in Text : Submitted(rollout', t) \in 0..n
  BY <1>2, SubmittedIsCounted
<1>6. unclaimed' \in [Text -> 0..MaxLines]
  <2>1. 0..n \subseteq 0..MaxLines
    BY <1>2, RolloutAssumption DEF RolloutAssumption
  <2> QED BY <1>4, <1>5, <2>1
<1>7. RolloutTypeOK'
  <2>1. RolloutTypeOK
    BY DEF RolloutInv
  <2> QED BY <1>2, <1>3, <1>6, <2>1 DEF RolloutTypeOK
<1>8. DOMAIN emitted = {}
  BY <1>3 DEF RolloutInv
<1>9. ClaimedUpTo(rollout', 0, unclaimed')
  <2> SUFFICES ASSUME NEW t \in Text
               PROVE  unclaimed'[t] = IF Submitted(rollout', t) > SaidInFile(rollout', 0, t)
                                      THEN Submitted(rollout', t) - SaidInFile(rollout', 0, t) ELSE 0
    BY DEF ClaimedUpTo
  <2>1. SaidInFile(rollout', 0, t) = 0
    BY SaidIsCounted
  <2>2. unclaimed'[t] = Submitted(rollout', t)
    BY <1>4
  <2>3. Submitted(rollout', t) \in Nat
    BY <1>2, <1>5
  <2> QED BY <2>1, <2>2, <2>3
<1>10. ProviderInForce(rollout', 0, config)
  <2>1. ProviderInForce(rollout, 0, config)
    BY <1>3 DEF RolloutInv
  <2> QED BY <2>1, NothingBeforehand
<1>11. \A i \in DOMAIN emitted' : emitted'[i].id[1] \in 1..line' /\ Follows(rollout', emitted'[i])
  BY <1>3, <1>8
<1>12. ClaimedUpTo(rollout', line', unclaimed') /\ ProviderInForce(rollout', line', config')
  BY <1>3, <1>9, <1>10
<1> QED BY <1>7, <1>11, <1>12 DEF RolloutInv

\* Nothing is emitted before the file is opened.
LEMMA RolloutStarts == RolloutInit => RolloutInv
<1> SUFFICES ASSUME RolloutInit PROVE RolloutInv
  OBVIOUS
<1>1. rollout = <<>> /\ line = 0 /\ config = <<>> /\ emitted = <<>>
      /\ unclaimed = [t \in Text |-> 0] /\ refused = {} /\ counted = {}
  BY DEF RolloutInit
<1>2. <<>> \in Seq(RolloutRecord) /\ Len(<<>>) = 0 /\ <<>> \in Seq(Event)
  BY EmptySeq
<1>3. RolloutTypeOK
  <2>1. unclaimed \in [Text -> 0..MaxLines] /\ Len(rollout) <= MaxLines
    BY <1>1, <1>2, RolloutAssumption DEF RolloutAssumption
  <2>2. config \in Stated
    BY <1>1, StatedIsFunction
  <2> QED BY <1>1, <1>2, <2>1, <2>2 DEF RolloutTypeOK
<1>4. DOMAIN <<>> = {}
  BY NoEvent
<1>5. \A i \in DOMAIN emitted : emitted[i].id[1] \in 1..line /\ Follows(rollout, emitted[i])
  BY <1>1, <1>4
<1>6. ProviderInForce(rollout, line, config)
  BY <1>1, <1>4, NothingBeforehand
<1>7. ClaimedUpTo(rollout, line, unclaimed)
  <2> SUFFICES ASSUME NEW t \in Text
               PROVE  0 = IF Submitted(rollout, t) > SaidInFile(rollout, 0, t)
                          THEN Submitted(rollout, t) - SaidInFile(rollout, 0, t) ELSE 0
    BY <1>1 DEF ClaimedUpTo
  <2>1. SaidInFile(rollout, 0, t) = 0
    BY SaidIsCounted
  <2>2. Submitted(rollout, t) \in 0..0
    BY <1>1, <1>2, SubmittedIsCounted
  <2> QED BY <2>1, <2>2
<1> QED BY <1>3, <1>5, <1>6, <1>7 DEF RolloutInv

\* Every step keeps what is known of the Events and of what is carried along.
LEMMA RolloutKeeps == RolloutInv /\ [RolloutNext]_rolloutVars => RolloutInv'
<1> SUFFICES ASSUME RolloutInv, [RolloutNext]_rolloutVars PROVE RolloutInv'
  OBVIOUS
<1>1. CASE UNCHANGED rolloutVars
  BY <1>1 DEF rolloutVars, RolloutInv, RolloutTypeOK, ClaimedUpTo, ProviderInForce
<1>2. CASE RolloutNext
  BY <1>2, OpenRolloutKeeps, SkipKeeps, DecodeConfigurationKeeps, DecodeCompactedKeeps,
     DecodeReasoningKeeps, DecodeUserMessageKeeps, DecodeMessageKeeps, DecodeCallKeeps,
     DecodeOutputKeeps, DecodeMcpEndKeeps, DecodeCollaborationKeeps, DecodeLifecycleKeeps
     DEF RolloutNext
<1> QED BY <1>1, <1>2

\* Whatever a rollout holds, the decoder's state, its Events and its counts stay in
\* their types (adapters/codex.py, process_file).
THEOREM RolloutIsTyped == RolloutSpec => []RolloutTypeOK
<1>1. RolloutInv => RolloutTypeOK
  BY DEF RolloutInv
<1> QED BY <1>1, RolloutStarts, RolloutKeeps, PTL DEF RolloutSpec

\* An Event that follows the rollout says what the properties ask of it.
LEMMA RolloutInvTells == RolloutInv => EventsFollowTheRollout
<1> SUFFICES ASSUME RolloutInv PROVE EventsFollowTheRollout
  OBVIOUS
<1>1. rollout \in Seq(RolloutRecord) /\ line \in 0..Len(rollout)
  BY DEF RolloutInv, RolloutTypeOK
<1>2. Len(rollout) \in Nat /\ DOMAIN rollout = 1..Len(rollout)
      /\ \A l \in DOMAIN rollout : rollout[l] \in RolloutRecord
  BY <1>1, FileFacts
<1>3. \A i \in DOMAIN emitted : emitted[i].id[1] \in DOMAIN rollout /\ Follows(rollout, emitted[i])
  BY <1>1, <1>2 DEF RolloutInv
<1>4. PromptsWereSubmitted
  <2> SUFFICES ASSUME NEW i \in DOMAIN emitted, NEW l, l = emitted[i].id[1],
                      rollout[l].type = "message", rollout[l].role = "user"
               PROVE  emitted[i].kind = "prompt" <=>
                        (AnySubmitted => Cardinality({m \in 1..l : rollout[m] = rollout[l]})
                                           <= Submitted(rollout, rollout[l].text))
    BY DEF PromptsWereSubmitted
  <2>1. rollout[l] = UserMessage(rollout[l].text)
    BY <1>2, <1>3, RecordFacts DEF UserMessage
  <2>2. {m \in 1..l : rollout[m] = rollout[l]} = SaidUpTo(rollout, l, rollout[l].text)
    BY <2>1 DEF SaidUpTo
  <2> QED BY <1>3, <2>2 DEF Follows, SaidInFile, AnySubmitted, OnFile
<1>5. ConfigurationIsInForce
  <2> SUFFICES ASSUME NEW i \in DOMAIN emitted,
                      emitted[i].kind \in {"prompt", "response", "call", "result"},
                      NEW f \in Field
               PROVE  LET stating == {l \in 1..emitted[i].id[1] :
                        rollout[l].type = "configuration" /\ f \in DOMAIN rollout[l].states}
                          has == f \in DOMAIN emitted[i].config
                      IN  /\ has <=> stating # {}
                          /\ has => \E l \in stating : /\ \A m \in stating : m <= l
                                       /\ emitted[i].config[f] = rollout[l].states[f]
    BY DEF ConfigurationIsInForce
  <2>1. ProviderInForce(rollout, emitted[i].id[1], emitted[i].config)
    BY <1>3 DEF Follows
  <2> QED BY <2>1 DEF ProviderInForce, Stating
<1>6. RecordsOfACallAgree
  BY <1>3 DEF RecordsOfACallAgree, Follows
<1> QED BY <1>4, <1>5, <1>6 DEF EventsFollowTheRollout

\* Of every rollout, of any length and in any order of its records, the Events say
\* what the other records say: a text is a prompt as often as it was submitted, an
\* Event bears the configuration stated last before it, and the two records of an
\* MCP call agree on its outcome (adapters/codex.py, process_file).
THEOREM EventsFollow == RolloutSpec => []EventsFollowTheRollout
BY RolloutStarts, RolloutKeeps, RolloutInvTells, PTL DEF RolloutSpec

-----------------------------------------------------------------------------
(* Claude transcripts. *)

\* An identity of a tool use is stated with one name.
NamedOnce(file) ==
  \A p, q \in DOMAIN file : \A u \in UsesIn(file[p]), v \in UsesIn(file[q]) : u[1] = v[1] => u = v

\* A result bears the name and the failure of its call.
Linked(file, e) ==
  e.is = "result" =>
    \E b \in DOMAIN file[e.id[1]].blocks :
      LET block == file[e.id[1]].blocks[b]
          called == {t \in ToolName : \E p \in DOMAIN file : <<block.use, t>> \in UsesIn(file[p])}
      IN  /\ block.is = "result"
          /\ IF called = {} THEN e.tool = Nobody ELSE e.tool \in called
          /\ block.error = "inText" /\ called \cap McpTool # {} => e.failed

\* Events of earlier records have smaller identities, and results are linked.
TranscriptInv ==
  /\ TranscriptTypeOK
  /\ NamedOnce(transcript)
  /\ \A i \in DOMAIN entries : entries[i].id[1] \in 1..position /\ Linked(transcript, entries[i])
  /\ IdentitiesDiffer

Reasons == {"unsupported", "excluded", "kind_not_mapped", "unclassified", "oversize"}

\* What the Events of one record must be.
Sound(new) ==
  /\ new \in Seq(Entry)
  /\ \A k \in DOMAIN new : new[k].id = <<position + 1, k - 1>> /\ Linked(transcript, new[k])

\* A step that takes a record with sound entries keeps the invariant.
LEMMA OutcomeKeeps ==
  ASSUME TranscriptInv, position < Len(transcript), NEW new, Sound(new),
         NEW reasons \in SUBSET Reasons, NEW count \in BOOLEAN, NEW error \in BOOLEAN,
         Outcome(new, reasons, count, error)
  PROVE  TranscriptInv'
<1>1. /\ transcript \in Seq(TranscriptRecord) /\ Len(transcript) <= MaxRecords
      /\ position \in 0..Len(transcript) /\ entries \in Seq(Entry) /\ Len(transcript) \in Nat
      /\ declined \subseteq (1..position) \X Reasons /\ tallied \subseteq 1..position
      /\ options \in [strict : BOOLEAN, state : BOOLEAN]
  BY LenProperties DEF TranscriptInv, TranscriptTypeOK, Reasons
<1>2. /\ position' = position + 1 /\ entries' = entries \o new
      /\ declined' = declined \cup {<<position + 1, r>> : r \in reasons}
      /\ tallied' = (IF count THEN tallied \cup {position + 1} ELSE tallied)
      /\ raised' = error /\ transcript' = transcript /\ options' = options
  BY DEF Outcome
<1>3. position \in Nat /\ position + 1 \in 1..Len(transcript)
      /\ 1..position \subseteq 1..(position + 1) /\ position + 1 \in 1..(position + 1)
  BY <1>1
<1>4. /\ entries' \in Seq(Entry) /\ Len(entries') = Len(entries) + Len(new)
      /\ \A i \in 1..(Len(entries) + Len(new)) :
           entries'[i] = IF i <= Len(entries) THEN entries[i] ELSE new[i - Len(entries)]
      /\ Len(entries) \in Nat /\ Len(new) \in Nat
      /\ DOMAIN entries = 1..Len(entries) /\ DOMAIN new = 1..Len(new)
  BY <1>1, <1>2, ConcatProperties, LenProperties DEF Sound
<1>5. TranscriptTypeOK'
  <2>1. {<<position + 1, r>> : r \in reasons} \subseteq (1..position') \X Reasons
    BY <1>2, <1>3
  <2>2. declined' \subseteq (1..position') \X Reasons
    BY <1>1, <1>2, <1>3, <2>1
  <2>3. tallied' \subseteq 1..position'
    BY <1>1, <1>2, <1>3
  <2> QED BY <1>1, <1>2, <1>3, <1>4, <2>2, <2>3 DEF TranscriptTypeOK, Reasons
<1>6. \A i \in DOMAIN entries : /\ entries[i].id[1] \in 1..position
                                /\ Linked(transcript, entries[i])
  BY DEF TranscriptInv
<1>7. ASSUME NEW i \in DOMAIN entries'
      PROVE  \/ i \in DOMAIN entries /\ entries'[i] = entries[i]
             \/ i > Len(entries) /\ i - Len(entries) \in DOMAIN new
                /\ entries'[i] = new[i - Len(entries)]
  <2>1. i \in 1..(Len(entries) + Len(new))
    BY <1>4, LenProperties
  <2> QED BY <1>4, <2>1
<1>8. ASSUME NEW i \in DOMAIN entries'
      PROVE  entries'[i].id[1] \in 1..position' /\ Linked(transcript', entries'[i])
  <2>1. CASE i \in DOMAIN entries /\ entries'[i] = entries[i]
    BY <1>2, <1>3, <1>6, <2>1
  <2>2. CASE i - Len(entries) \in DOMAIN new /\ entries'[i] = new[i - Len(entries)]
    <3>1. entries'[i].id = <<position + 1, i - Len(entries) - 1>>
          /\ Linked(transcript, entries'[i])
      BY <2>2 DEF Sound
    <3>2. entries'[i].id[1] = position + 1
      BY <3>1
    <3> QED BY <1>2, <1>3, <3>1, <3>2
  <2> QED BY <1>7, <2>1, <2>2
<1>9. ASSUME NEW i \in DOMAIN entries', NEW j \in DOMAIN entries', entries'[i].id = entries'[j].id
      PROVE  i = j
  <2>0. i \in Nat /\ j \in Nat /\ Len(entries) \in Nat
    BY <1>4, LenProperties
  <2>1. CASE i \in DOMAIN entries /\ j \in DOMAIN entries
    <3>1. entries'[i] = entries[i] /\ entries'[j] = entries[j]
      BY <1>4, <1>7, <2>1
    <3> QED BY <1>9, <2>1, <3>1 DEF TranscriptInv, IdentitiesDiffer
  <2>2. CASE i \notin DOMAIN entries /\ j \notin DOMAIN entries
    <3>1. entries'[i].id = <<position + 1, i - Len(entries) - 1>>
      BY <1>7, <2>2 DEF Sound
    <3>2. entries'[j].id = <<position + 1, j - Len(entries) - 1>>
      BY <1>7, <2>2 DEF Sound
    <3>3. entries'[i].id[2] = i - Len(entries) - 1
      BY <3>1
    <3>4. entries'[j].id[2] = j - Len(entries) - 1
      BY <3>2
    <3>5. i - Len(entries) - 1 = j - Len(entries) - 1
      BY <1>9, <3>3, <3>4
    <3> QED BY <2>0, <3>5
  <2>3. ASSUME NEW m \in DOMAIN entries', NEW n \in DOMAIN entries',
               m \in DOMAIN entries, n \notin DOMAIN entries
        PROVE  entries'[m].id # entries'[n].id
    <3>1. entries'[m] = entries[m]
      BY <1>4, <1>7, <2>3
    <3>2. entries'[n].id = <<position + 1, n - Len(entries) - 1>>
      BY <1>7, <2>3 DEF Sound
    <3>3. entries'[m].id[1] \in 1..position
      BY <1>6, <2>3, <3>1
    <3>4. entries'[n].id[1] = position + 1
      BY <3>2
    <3> QED BY <1>3, <3>3, <3>4
  <2> QED BY <1>9, <2>1, <2>2, <2>3
<1>10. NamedOnce(transcript)'
  BY <1>2 DEF TranscriptInv, NamedOnce, UsesIn
<1>11. IdentitiesDiffer'
  BY <1>9 DEF IdentitiesDiffer
<1> QED BY <1>5, <1>8, <1>10, <1>11 DEF TranscriptInv

\* No entries are sound.
LEMMA NothingIsSound == Sound(<<>>)
<1>1. <<>> \in Seq(Entry) /\ Len(<<>>) = 0
  BY EmptySeq
<1>2. DOMAIN <<>> = 1..Len(<<>>)
  BY <1>1, LenProperties
<1>3. 1..Len(<<>>) = {}
  BY <1>1
<1> QED BY <1>1, <1>2, <1>3 DEF Sound

\* The record that is decoded.
LEMMA NowIsARecord ==
  ASSUME TranscriptInv, NEW type, Reached(type)
  PROVE  /\ position < Len(transcript) /\ position \in Nat /\ position + 1 \in 1..MaxRecords
         /\ position + 1 \in DOMAIN transcript /\ Now = transcript[position + 1]
         /\ Now \in TranscriptRecord /\ Now.type = type
         /\ options.strict \in BOOLEAN /\ options.state \in BOOLEAN
         /\ MaxBlocks \in Nat \ {0} /\ McpTool \subseteq ToolName
<1>1. /\ transcript \in Seq(TranscriptRecord) /\ Len(transcript) <= MaxRecords
      /\ position \in 0..Len(transcript) /\ options \in [strict : BOOLEAN, state : BOOLEAN]
  BY DEF TranscriptInv, TranscriptTypeOK
<1>2. Len(transcript) \in Nat /\ DOMAIN transcript = 1..Len(transcript)
  BY <1>1, LenProperties
<1>3. position < Len(transcript) /\ transcript[position + 1].type = type
  BY DEF Reached
<1>4. position \in Nat /\ position + 1 \in 1..Len(transcript)
  BY <1>1, <1>2, <1>3
<1>5. transcript[position + 1] \in TranscriptRecord
  BY <1>1, <1>4, ElementOfSeq
<1>6. options.strict \in BOOLEAN /\ options.state \in BOOLEAN
  BY <1>1
<1>7. position + 1 \in 1..MaxRecords
  BY <1>1, <1>2, <1>4, TranscriptAssumption DEF TranscriptAssumption
<1> QED BY <1>2, <1>3, <1>4, <1>5, <1>6, <1>7, TranscriptAssumption
        DEF Now, TranscriptAssumption

\* The entries a block starts from are numbered after their record and block.
LEMMA BlankIsAnEntry ==
  ASSUME position + 1 \in 1..MaxRecords, NEW index \in 0..MaxBlocks, MaxBlocks \in Nat,
         NEW what \in {"text", "call", "image", "result", "external", "state"}
  PROVE  /\ Blank(index, what) \in Entry /\ Blank(index, what).id = <<position + 1, index>>
         /\ Blank(index, what).is = what
BY DEF Blank, Entry

\* A record that leaves one Event without a body that could be refused.
LEMMA OneIsSound ==
  ASSUME TranscriptInv, NEW type, Reached(type), NEW what \in {"text", "state"}
  PROVE  Sound(<<Blank(0, what)>>)
<1>1. position \in Nat /\ position + 1 \in 1..MaxRecords /\ MaxBlocks \in Nat /\ 0 \in 0..MaxBlocks
  BY NowIsARecord
<1>2. Blank(0, what) \in Entry /\ Blank(0, what).id = <<position + 1, 0>> /\ Blank(0, what).is = what
  BY <1>1, BlankIsAnEntry
<1>. HIDE DEF Blank
<1>3. Linked(transcript, Blank(0, what))
  BY <1>2 DEF Linked
<1>4. <<Blank(0, what)>> \in Seq(Entry)
  BY <1>2
<1>5. \A k \in DOMAIN <<Blank(0, what)>> : k = 1 /\ <<Blank(0, what)>>[k] = Blank(0, what)
  OBVIOUS
<1>6. <<position + 1, 0>> = <<position + 1, 1 - 1>>
  OBVIOUS
<1> QED BY <1>2, <1>3, <1>4, <1>5, <1>6 DEF Sound

\* A record the decoder skips keeps the invariant.
LEMMA DecodeSkippedKeeps == ASSUME TranscriptInv, DecodeSkipped PROVE TranscriptInv'
<1>1. CASE Reached("malformed") /\ Outcome(<<>>, {}, TRUE, FALSE)
  <2>1. position < Len(transcript)
    BY <1>1, NowIsARecord
  <2>2. {} \subseteq Reasons
    OBVIOUS
  <2> QED BY <1>1, <2>1, <2>2, NothingIsSound, OutcomeKeeps
<1>2. CASE Reached("skipped") /\ Outcome(<<>>, {"kind_not_mapped"}, FALSE, FALSE)
  <2>1. position < Len(transcript)
    BY <1>2, NowIsARecord
  <2>2. {"kind_not_mapped"} \subseteq Reasons
    BY DEF Reasons
  <2> QED BY <1>2, <2>1, <2>2, NothingIsSound, OutcomeKeeps
<1>3. CASE Reached("unsupported") /\ Outcome(<<>>, {}, TRUE, options.strict)
  <2>1. position < Len(transcript) /\ options.strict \in BOOLEAN
    BY <1>3, NowIsARecord
  <2>2. {} \subseteq Reasons
    OBVIOUS
  <2> QED BY <1>3, <2>1, <2>2, NothingIsSound, OutcomeKeeps
<1> QED BY <1>1, <1>2, <1>3 DEF DecodeSkipped

\* A compaction boundary keeps the invariant.
LEMMA DecodeBoundaryKeeps == ASSUME TranscriptInv, DecodeBoundary PROVE TranscriptInv'
<1>1. Reached("boundary") /\ Outcome(<<Blank(0, "state")>>, {}, FALSE, FALSE)
  BY DEF DecodeBoundary
<1>2. position < Len(transcript)
  BY <1>1, NowIsARecord
<1>3. Sound(<<Blank(0, "state")>>) /\ {} \subseteq Reasons
  BY <1>1, OneIsSound
<1> QED BY <1>1, <1>2, <1>3, OutcomeKeeps

\* A record of product state keeps the invariant.
LEMMA DecodeProductStateKeeps == ASSUME TranscriptInv, DecodeProductState PROVE TranscriptInv'
<1>1. ASSUME NEW type, Reached(type),
             \/ Outcome(<<Blank(0, "state")>>, {}, FALSE, FALSE)
             \/ Outcome(<<>>, {"excluded"}, FALSE, FALSE)
             \/ Outcome(<<>>, {"kind_not_mapped"}, TRUE, FALSE)
      PROVE  TranscriptInv'
  <2>1. position < Len(transcript)
    BY <1>1, NowIsARecord
  <2>2. Sound(<<Blank(0, "state")>>)
    BY <1>1, OneIsSound
  <2>3. {} \subseteq Reasons /\ {"excluded"} \subseteq Reasons /\ {"kind_not_mapped"} \subseteq Reasons
    BY DEF Reasons
  <2> QED BY <1>1, <2>1, <2>2, <2>3, NothingIsSound, OutcomeKeeps
<1> QED BY <1>1 DEF DecodeProductState

\* A summary keeps the invariant.
LEMMA DecodeSummaryKeeps == ASSUME TranscriptInv, DecodeSummary PROVE TranscriptInv'
<1>1. Reached("summary")
      /\ \/ Outcome(<<Blank(0, "text")>>, {}, FALSE, FALSE)
         \/ Outcome(<<>>, {}, TRUE, FALSE)
         \/ Outcome(<<>>, {"unsupported"}, ~options.strict, options.strict)
  BY DEF DecodeSummary
<1>2. position < Len(transcript) /\ options.strict \in BOOLEAN /\ (~options.strict) \in BOOLEAN
  BY <1>1, NowIsARecord
<1>3. Sound(<<Blank(0, "text")>>) /\ {} \subseteq Reasons /\ {"unsupported"} \subseteq Reasons
  BY <1>1, OneIsSound DEF Reasons
<1>4. CASE Outcome(<<Blank(0, "text")>>, {}, FALSE, FALSE)
  BY <1>2, <1>3, <1>4, OutcomeKeeps
<1>5. CASE Outcome(<<>>, {}, TRUE, FALSE)
  BY <1>2, <1>3, <1>5, NothingIsSound, OutcomeKeeps
<1>6. CASE Outcome(<<>>, {"unsupported"}, ~options.strict, options.strict)
  BY <1>2, <1>3, <1>6, NothingIsSound, OutcomeKeeps
<1> QED BY <1>1, <1>4, <1>5, <1>6

\* The blocks that become Events, in their order.
LEMMA TurnsAreBlocks ==
  ASSUME NEW n \in Nat, NEW S \in SUBSET (1..n), NEW order \in InTurn(S)
  PROVE  /\ Len(order) \in 0..n /\ DOMAIN order = 1..Len(order)
         /\ \A k \in DOMAIN order : order[k] \in S
<1>1. IsFiniteSet(1..n) /\ Cardinality(1..n) = n
  BY FS_Interval
<1>2. IsFiniteSet(S) /\ Cardinality(S) <= n
  BY <1>1, FS_Subset
<1>3. Cardinality(S) \in Nat
  BY <1>2, FS_CardinalityType
<1>4. order \in [1..Cardinality(S) -> S]
  BY DEF InTurn
<1>5. order \in Seq(S) /\ Len(order) = Cardinality(S)
  <2>1. order \in Seq(S)
    BY <1>3, <1>4, SeqDef
  <2>2. DOMAIN order = 1..Cardinality(S)
    BY <1>4
  <2> QED BY <1>3, <2>1, <2>2, LenProperties
<1> QED BY <1>2, <1>3, <1>4, <1>5

\* The kinds of records and blocks.
LEMMA BlockFacts ==
  /\ \A r \in TranscriptRecord : r.type = "assistant" =>
       \E n \in 0..MaxBlocks : r.blocks \in [1..n -> AssistantBlock]
  /\ \A r \in TranscriptRecord : r.type = "user" =>
       \E n \in 0..MaxBlocks : r.blocks \in [1..n -> UserBlock]
  /\ \A b \in AssistantBlock : b.is = "text" \/ (b.is = "use" /\ b.tool \in ToolName)
  /\ \A b \in UserBlock : b.is \in {"text", "image"} \/ b.is = "result"
BY DEF TranscriptRecord, BlockList, AssistantBlock, UserBlock

\* An Event for each block, one after the other, is sound if each is.
LEMMA BlocksAreSound ==
  ASSUME TranscriptInv, NEW m \in 0..MaxBlocks, MaxBlocks \in Nat, NEW new, DOMAIN new = 1..m,
         new = [k \in 1..m |-> new[k]],
         \A k \in 1..m : /\ new[k] \in Entry /\ new[k].id = <<position + 1, k - 1>>
                         /\ Linked(transcript, new[k])
  PROVE  Sound(new) /\ Len(new) = m
<1>1. m \in Nat
  OBVIOUS
<1>2. new \in [1..m -> Entry]
  OBVIOUS
<1>3. new \in Seq(Entry)
  BY <1>1, <1>2, SeqDef
<1>4. Len(new) = m
  BY <1>1, <1>3, LenProperties
<1> QED BY <1>3, <1>4 DEF Sound

\* A reply keeps the invariant.
LEMMA DecodeAssistantKeeps == ASSUME TranscriptInv, DecodeAssistant PROVE TranscriptInv'
<1>1. Reached("assistant")
  BY DEF DecodeAssistant
<1>2. /\ position < Len(transcript) /\ position \in Nat /\ position + 1 \in 1..MaxRecords
      /\ Now \in TranscriptRecord /\ Now.type = "assistant" /\ MaxBlocks \in Nat
  BY <1>1, NowIsARecord
<1>3. PICK n \in 0..MaxBlocks : Now.blocks \in [1..n -> AssistantBlock]
  BY <1>2, BlockFacts
<1>0. PICK kept \in SUBSET Mapped({"text"}) : \E order \in InTurn(kept \cup Mapped({"use"})) :
        Outcome(AssistantEvents(order), IF DOMAIN order = {} THEN {"unclassified"} ELSE {},
                kept # Mapped({"text"}), FALSE)
  BY DEF DecodeAssistant
<1>4. PICK order \in InTurn(kept \cup Mapped({"use"})) :
        Outcome(AssistantEvents(order), IF DOMAIN order = {} THEN {"unclassified"} ELSE {},
                kept # Mapped({"text"}), FALSE)
  BY <1>0
<1>5. kept \cup Mapped({"use"}) \subseteq 1..n
  BY <1>3 DEF Mapped
<1>6. /\ Len(order) \in 0..n /\ DOMAIN order = 1..Len(order) /\ n \in Nat
      /\ \A k \in DOMAIN order : order[k] \in 1..n
  BY <1>3, <1>5, TurnsAreBlocks
<1>7. ASSUME NEW k \in 1..Len(order)
      PROVE  LET e == AssistantEvents(order)[k] IN
             /\ e \in Entry /\ e.id = <<position + 1, k - 1>> /\ Linked(transcript, e)
  <2>. DEFINE e == AssistantEvents(order)[k]
              b == Now.blocks[order[k]]
  <2>1. e = AssistantEvent(k - 1, b) /\ b \in AssistantBlock
    BY <1>3, <1>6 DEF AssistantEvents
  <2>2. k - 1 \in 0..MaxBlocks
    BY <1>3, <1>6, <1>2
  <2>3. /\ Blank(k - 1, "text") \in Entry /\ Blank(k - 1, "text").id = <<position + 1, k - 1>>
        /\ Blank(k - 1, "text").is = "text"
        /\ Blank(k - 1, "call") \in Entry /\ Blank(k - 1, "call").id = <<position + 1, k - 1>>
        /\ Blank(k - 1, "call").is = "call"
    BY <1>2, <2>2, BlankIsAnEntry
  <2>4. \A c \in Entry, t \in ToolName : [c EXCEPT !.tool = t] \in Entry
                 /\ [c EXCEPT !.tool = t].id = c.id /\ [c EXCEPT !.tool = t].is = c.is
    BY DEF Entry
  <2>. HIDE DEF e, b, Blank
  <2>5. e \in Entry /\ e.id = <<position + 1, k - 1>> /\ e.is # "result"
    <3>1. CASE b.is = "text"
      BY <2>1, <2>3, <3>1 DEF AssistantEvent
    <3>2. CASE b.is # "text"
      <4>1. b.tool \in ToolName
        BY <2>1, <3>2, BlockFacts
      <4>2. e = [Blank(k - 1, "call") EXCEPT !.tool = b.tool]
        BY <2>1, <3>2 DEF AssistantEvent
      <4> QED BY <2>3, <2>4, <4>1, <4>2
    <3> QED BY <3>1, <3>2
  <2>6. Linked(transcript, e)
    BY <2>5 DEF Linked
  <2> QED BY <2>5, <2>6 DEF e
<1>8. Sound(AssistantEvents(order))
  <2>1. Len(order) \in 0..MaxBlocks
    BY <1>2, <1>3, <1>6
  <2>2. AssistantEvents(order) = [k \in 1..Len(order) |-> AssistantEvents(order)[k]]
        /\ DOMAIN AssistantEvents(order) = 1..Len(order)
    BY <1>6 DEF AssistantEvents
  <2>. HIDE DEF AssistantEvents
  <2> QED BY <1>2, <1>7, <2>1, <2>2, BlocksAreSound
<1>9. (IF DOMAIN order = {} THEN {"unclassified"} ELSE {}) \subseteq Reasons
  BY DEF Reasons
<1>10. (kept # Mapped({"text"})) \in BOOLEAN
  OBVIOUS
<1> QED BY <1>2, <1>4, <1>8, <1>9, <1>10, OutcomeKeeps

\* The tool and the outcome of a result are those of its call.
LEMMA CallIsKnown ==
  ASSUME TranscriptInv, NEW u
  PROVE  /\ ToolOf(u) \in ToolName \cup {Nobody}
         /\ NamesOf(u) = {} => ToolOf(u) = Nobody
         /\ NamesOf(u) # {} => ToolOf(u) \in NamesOf(u)
         /\ NamesOf(u) \cap McpTool # {} => ToolOf(u) \in McpTool
<1>1. NamesOf(u) \subseteq ToolName
  BY DEF NamesOf
<1>2. NamesOf(u) # {} => ToolOf(u) \in NamesOf(u)
  BY DEF ToolOf
<1>3. \A s, t \in NamesOf(u) : s = t
  <2>1. TAKE s, t \in NamesOf(u)
  <2>2. PICK p \in DOMAIN transcript : <<u, s>> \in UsesIn(transcript[p])
    BY DEF NamesOf
  <2>3. PICK q \in DOMAIN transcript : <<u, t>> \in UsesIn(transcript[q])
    BY DEF NamesOf
  <2>4. <<u, s>>[1] = <<u, t>>[1]
    OBVIOUS
  <2>5. <<u, s>> = <<u, t>>
    BY <2>2, <2>3, <2>4 DEF TranscriptInv, NamedOnce
  <2> QED BY <2>5
<1>4. NamesOf(u) = {} => ToolOf(u) = Nobody
  BY DEF ToolOf
<1> QED BY <1>1, <1>2, <1>3, <1>4

\* A block of a user message becomes a sound Event.
LEMMA UserEventIsSound ==
  ASSUME TranscriptInv, Reached("user"), NEW n \in 0..MaxBlocks, Now.blocks \in [1..n -> UserBlock],
         NEW l \in 1..n, NEW index \in 0..MaxBlocks
  PROVE  LET e == UserEvent(index, Now.blocks[l]) IN
         /\ e \in Entry /\ e.id = <<position + 1, index>> /\ Linked(transcript, e)
<1>. DEFINE b == Now.blocks[l]
            e == UserEvent(index, b)
            blank == Blank(index, "result")
<1>1. /\ position \in Nat /\ position + 1 \in 1..MaxRecords /\ position + 1 \in DOMAIN transcript
      /\ Now = transcript[position + 1] /\ MaxBlocks \in Nat /\ McpTool \subseteq ToolName
  BY NowIsARecord
<1>2. b \in UserBlock
  OBVIOUS
<1>3. /\ Blank(index, "text") \in Entry /\ Blank(index, "text").id = <<position + 1, index>>
      /\ Blank(index, "text").is = "text"
      /\ Blank(index, "image") \in Entry /\ Blank(index, "image").id = <<position + 1, index>>
      /\ Blank(index, "image").is = "image"
      /\ blank \in Entry /\ blank.id = <<position + 1, index>> /\ blank.is = "result"
  BY <1>1, BlankIsAnEntry
<1>. HIDE DEF blank
<1>4. CASE b.is = "text"
  <2>1. e = Blank(index, "text")
    BY <1>4 DEF UserEvent
  <2>. HIDE DEF Blank, e
  <2> QED BY <1>3, <2>1 DEF Linked, e
<1>5. CASE b.is = "image"
  <2>1. e = Blank(index, "image")
    BY <1>5 DEF UserEvent
  <2>. HIDE DEF Blank, e
  <2> QED BY <1>3, <2>1 DEF Linked, e
<1>6. CASE b.is = "result"
  <2>. DEFINE t == ToolOf(b.use)
              f == ResultFailed(b)
              named == [blank EXCEPT !.tool = t]
  <2>1. e = [blank EXCEPT !.tool = t, !.failed = f]
    BY <1>6 DEF UserEvent, blank
  <2>2. t \in ToolName \cup {Nobody} /\ f \in BOOLEAN
    BY CallIsKnown DEF ResultFailed
  <2>. HIDE DEF e, t, f
  <2>3. \A c \in Entry, x \in ToolName \cup {Nobody} :
          /\ [c EXCEPT !.tool = x] \in Entry /\ [c EXCEPT !.tool = x].id = c.id
          /\ [c EXCEPT !.tool = x].is = c.is /\ [c EXCEPT !.tool = x].tool = x
    BY DEF Entry
  <2>4. \A c \in Entry, x \in BOOLEAN :
          /\ [c EXCEPT !.failed = x] \in Entry /\ [c EXCEPT !.failed = x].id = c.id
          /\ [c EXCEPT !.failed = x].is = c.is /\ [c EXCEPT !.failed = x].tool = c.tool
          /\ [c EXCEPT !.failed = x].failed = x
    BY DEF Entry
  <2>5. e = [named EXCEPT !.failed = f]
    <3>1. \A c \in Entry : \A x, y :
            [c EXCEPT !.tool = x, !.failed = y] = [[c EXCEPT !.tool = x] EXCEPT !.failed = y]
      BY DEF Entry
    <3> QED BY <1>3, <2>1, <3>1
  <2>6. named \in Entry /\ named.id = <<position + 1, index>> /\ named.is = "result" /\ named.tool = t
    BY <1>3, <2>2, <2>3
  <2>. HIDE DEF named
  <2>7. e \in Entry /\ e.id = <<position + 1, index>> /\ e.is = "result" /\ e.tool = t /\ e.failed = f
    BY <2>2, <2>4, <2>5, <2>6
  <2>8. Linked(transcript, e)
    <3>. DEFINE called == {s \in ToolName : \E p \in DOMAIN transcript :
                             <<b.use, s>> \in UsesIn(transcript[p])}
    <3>1. called = NamesOf(b.use)
      BY DEF NamesOf
    <3>. HIDE DEF called
    <3>2. IF called = {} THEN e.tool = Nobody ELSE e.tool \in called
      BY <2>7, <3>1, CallIsKnown DEF t
    <3>3. b.error = "inText" /\ called \cap McpTool # {} => e.failed
      BY <2>7, <3>1, CallIsKnown DEF t, f, ResultFailed
    <3>4. e.id[1] = position + 1
      BY <2>7
    <3>5. l \in DOMAIN transcript[e.id[1]].blocks /\ b = transcript[e.id[1]].blocks[l]
      BY <1>1, <3>4
    <3>. HIDE DEF b
    <3> QED BY <1>6, <3>2, <3>3, <3>5 DEF Linked, called
  <2> QED BY <2>7, <2>8 DEF e
<1>7. b.is \in {"text", "image"} \/ b.is = "result"
  BY <1>2, BlockFacts
<1> QED BY <1>4, <1>5, <1>6, <1>7

\* The body that was written out follows the Events before it.
LEMMA ExternalIsSound ==
  ASSUME TranscriptInv, Reached("user"), NEW new, Sound(new), Len(new) \in 0..MaxBlocks
  PROVE  Sound(Append(new, External(new)))
<1>1. /\ position \in Nat /\ position + 1 \in 1..MaxRecords /\ MaxBlocks \in Nat
  BY NowIsARecord
<1>2. new \in Seq(Entry) /\ Len(new) \in Nat /\ DOMAIN new = 1..Len(new)
      /\ \A k \in DOMAIN new : new[k].id = <<position + 1, k - 1>> /\ Linked(transcript, new[k])
  BY LenProperties DEF Sound
<1>. DEFINE results == {k \in DOMAIN new : new[k].is = "result"}
            first   == CHOOSE k \in results : \A j \in results : k <= j
            blank   == Blank(Len(new), "external")
            c       == IF results = {} THEN 0 ELSE first
            t       == IF results = {} THEN Nobody ELSE new[first].tool
            e       == External(new)
<1>3. c \in 0..MaxBlocks /\ t \in ToolName \cup {Nobody}
  <2>1. CASE results = {}
    BY <1>1, <2>1
  <2>2. CASE results # {}
    <3>1. results \subseteq 1..Len(new)
      BY <1>2
    <3>2. \E k \in results : \A j \in results : k <= j
      <4>. HIDE DEF results
      <4> QED BY <1>2, <2>2, <3>1, FirstIsThere
    <3>3. first \in results
      BY <3>2
    <3>4. first \in 1..Len(new)
      BY <3>1, <3>3
    <3>5. new[first] \in Entry
      BY <1>2, <3>4, ElementOfSeq
    <3>6. new[first].tool \in ToolName \cup {Nobody}
      BY <3>5 DEF Entry
    <3>. HIDE DEF results, first
    <3> QED BY <1>1, <1>2, <2>2, <3>4, <3>6
  <2> QED BY <2>1, <2>2
<1>4. e = [blank EXCEPT !.cause = c, !.tool = t]
  BY DEF External, NextIndex
<1>5. blank \in Entry /\ blank.id = <<position + 1, Len(new)>> /\ blank.is = "external"
  BY <1>1, BlankIsAnEntry
<1>. HIDE DEF c, t, e, blank
<1>6. \A d \in Entry, x \in 0..MaxBlocks, y \in ToolName \cup {Nobody} :
        /\ [d EXCEPT !.cause = x, !.tool = y] \in Entry
        /\ [d EXCEPT !.cause = x, !.tool = y].id = d.id
        /\ [d EXCEPT !.cause = x, !.tool = y].is = d.is
  BY DEF Entry
<1>7. e \in Entry /\ e.id = <<position + 1, Len(new)>> /\ e.is = "external"
  BY <1>3, <1>4, <1>5, <1>6
<1>8. Linked(transcript, e)
  BY <1>7 DEF Linked
<1>9. /\ Append(new, e) \in Seq(Entry) /\ Len(Append(new, e)) = Len(new) + 1
      /\ \A k \in 1..Len(new) : Append(new, e)[k] = new[k]
      /\ Append(new, e)[Len(new) + 1] = e
  BY <1>2, <1>7, AppendProperties
<1>10. DOMAIN Append(new, e) = 1..(Len(new) + 1)
  BY <1>2, <1>9, LenProperties
<1>11. ASSUME NEW k \in DOMAIN Append(new, e)
       PROVE  /\ Append(new, e)[k].id = <<position + 1, k - 1>>
              /\ Linked(transcript, Append(new, e)[k])
  <2>1. CASE k \in 1..Len(new)
    BY <1>2, <1>9, <2>1
  <2>2. CASE k = Len(new) + 1
    <3>1. k - 1 = Len(new)
      BY <1>2, <2>2
    <3> QED BY <1>7, <1>8, <1>9, <2>2, <3>1
  <2> QED BY <1>2, <1>10, <2>1, <2>2
<1> QED BY <1>9, <1>11 DEF Sound, e

\* A record of the user keeps the invariant.
LEMMA DecodeUserKeeps == ASSUME TranscriptInv, DecodeUser PROVE TranscriptInv'
<1>1. Reached("user")
  BY DEF DecodeUser
<1>2. /\ position < Len(transcript) /\ position \in Nat /\ position + 1 \in 1..MaxRecords
      /\ Now \in TranscriptRecord /\ Now.type = "user" /\ MaxBlocks \in Nat
      /\ options.strict \in BOOLEAN
  BY <1>1, NowIsARecord
<1>3. PICK n \in 0..MaxBlocks : Now.blocks \in [1..n -> UserBlock]
  BY <1>2, BlockFacts
<1>. DEFINE broken    == Now.persisted \in {"oversize", "broken"}
            all(new)  == IF Now.persisted = "read" THEN Append(new, External(new)) ELSE new
            Ends(kept, new) ==
              Outcome(IF broken /\ options.strict THEN <<>> ELSE all(new),
                      IF Now.persisted = "oversize" THEN {"oversize"} ELSE {},
                      \/ broken \/ Now.persisted = "refused" \/ all(new) = <<>>
                      \/ kept # Mapped({"text", "result"}),
                      broken /\ options.strict)
<1>4. PICK kept \in SUBSET Mapped({"text", "result"}) :
        \E order \in InTurn(kept \cup Mapped({"image"})) : Ends(kept, UserEvents(order))
  BY DEF DecodeUser
<1>5. PICK order \in InTurn(kept \cup Mapped({"image"})) : Ends(kept, UserEvents(order))
  BY <1>4
<1>. HIDE DEF Ends
<1>6. kept \cup Mapped({"image"}) \subseteq 1..n
  BY <1>3 DEF Mapped
<1>7. /\ Len(order) \in 0..n /\ DOMAIN order = 1..Len(order) /\ n \in Nat
      /\ \A k \in DOMAIN order : order[k] \in 1..n
  BY <1>3, <1>6, TurnsAreBlocks
<1>. DEFINE new == UserEvents(order)
<1>8. ASSUME NEW k \in 1..Len(order)
      PROVE  new[k] \in Entry /\ new[k].id = <<position + 1, k - 1>> /\ Linked(transcript, new[k])
  <2>1. k - 1 \in 0..MaxBlocks /\ order[k] \in 1..n
    BY <1>2, <1>3, <1>7
  <2>2. new[k] = UserEvent(k - 1, Now.blocks[order[k]])
    BY <1>7 DEF UserEvents
  <2>. HIDE DEF new
  <2> QED BY <1>1, <1>3, <2>1, <2>2, UserEventIsSound
<1>9. new = [k \in 1..Len(order) |-> new[k]] /\ DOMAIN new = 1..Len(order)
  BY <1>7 DEF UserEvents
<1>. HIDE DEF new
<1>10. Sound(new) /\ Len(new) \in 0..MaxBlocks
  <2>1. Len(order) \in 0..MaxBlocks
    BY <1>2, <1>3, <1>7
  <2> QED BY <1>2, <1>8, <1>9, <2>1, BlocksAreSound
<1>11. Sound(all(new))
  BY <1>1, <1>10, ExternalIsSound
<1>. DEFINE said == IF broken /\ options.strict THEN <<>> ELSE all(new)
            told == IF Now.persisted = "oversize" THEN {"oversize"} ELSE {}
            tell == \/ broken \/ Now.persisted = "refused" \/ all(new) = <<>>
                    \/ kept # Mapped({"text", "result"})
<1>12. Sound(said)
  BY <1>11, NothingIsSound
<1>13. told \subseteq Reasons /\ tell \in BOOLEAN /\ (broken /\ options.strict) \in BOOLEAN
  BY DEF Reasons
<1>14. Outcome(said, told, tell, broken /\ options.strict)
  BY <1>5 DEF Ends, new
<1>. HIDE DEF said, told, tell, broken
<1> QED BY <1>2, <1>12, <1>13, <1>14, OutcomeKeeps

\* Opening another transcript keeps the invariant.
LEMMA OpenTranscriptKeeps == ASSUME TranscriptInv, OpenTranscript PROVE TranscriptInv'
<1>1. PICK n \in 1..MaxRecords : transcript' \in [1..n -> TranscriptRecord]
  BY DEF OpenTranscript
<1>2. transcript' \in Seq(TranscriptRecord) /\ Len(transcript') = n /\ n \in Nat /\ n <= MaxRecords
  <2>1. n \in Nat /\ n <= MaxRecords
    BY TranscriptAssumption DEF TranscriptAssumption
  <2>2. transcript' \in Seq(TranscriptRecord)
    BY <1>1, <2>1, SeqDef
  <2>3. DOMAIN transcript' = 1..n
    BY <1>1
  <2> QED BY <2>1, <2>2, <2>3, LenProperties
<1>3. position = 0 /\ position' = 0 /\ entries' = entries /\ declined' = declined
      /\ tallied' = tallied /\ raised' = raised /\ options' \in [strict : BOOLEAN, state : BOOLEAN]
  <2>1. Len(transcript) = 0
    BY EmptySeq DEF OpenTranscript
  <2> QED BY <2>1 DEF OpenTranscript, TranscriptInv, TranscriptTypeOK
<1>4. NamedOnce(transcript')
  BY DEF OpenTranscript, NamedOnce
<1>5. TranscriptTypeOK'
  <2>1. TranscriptTypeOK
    BY DEF TranscriptInv
  <2> QED BY <1>2, <1>3, <2>1 DEF TranscriptTypeOK
<1>6. DOMAIN entries = {}
  <2>1. \A i \in DOMAIN entries : entries[i].id[1] \in 1..position
    BY DEF TranscriptInv
  <2>2. 1..position = {}
    BY <1>3
  <2> QED BY <2>1, <2>2
<1>7. IdentitiesDiffer'
  BY <1>3, <1>6 DEF IdentitiesDiffer
<1>8. NamedOnce(transcript)'
  BY <1>4 DEF NamedOnce, UsesIn
<1>9. \A i \in DOMAIN entries' : entries'[i].id[1] \in 1..position' /\ Linked(transcript', entries'[i])
  BY <1>3, <1>6
<1> QED BY <1>5, <1>7, <1>8, <1>9 DEF TranscriptInv

\* The invariant holds at first.
LEMMA TranscriptStarts == TranscriptInit => TranscriptInv
<1> SUFFICES ASSUME TranscriptInit PROVE TranscriptInv
  OBVIOUS
<1>1. transcript = <<>> /\ position = 0 /\ entries = <<>> /\ declined = {} /\ tallied = {}
      /\ raised = FALSE /\ options = [strict |-> FALSE, state |-> TRUE]
  BY DEF TranscriptInit
<1>2. <<>> \in Seq(TranscriptRecord) /\ Len(<<>>) = 0 /\ <<>> \in Seq(Entry)
  BY EmptySeq
<1>3. DOMAIN <<>> = {}
  <2>1. DOMAIN <<>> = 1..Len(<<>>)
    BY <1>2, LenProperties
  <2> QED BY <1>2, <2>1
<1>4. TranscriptTypeOK
  <2>1. Len(transcript) = 0 /\ position \in 0..Len(transcript) /\ Len(transcript) <= MaxRecords
    BY <1>1, <1>2, TranscriptAssumption DEF TranscriptAssumption
  <2>2. options \in [strict : BOOLEAN, state : BOOLEAN]
    BY <1>1
  <2> QED BY <1>1, <1>2, <2>1, <2>2 DEF TranscriptTypeOK
<1>5. NamedOnce(transcript)
  BY <1>1, <1>3 DEF NamedOnce
<1>6. IdentitiesDiffer
  BY <1>1, <1>3 DEF IdentitiesDiffer
<1>7. \A i \in DOMAIN entries : entries[i].id[1] \in 1..position /\ Linked(transcript, entries[i])
  BY <1>1, <1>3
<1> QED BY <1>4, <1>5, <1>6, <1>7 DEF TranscriptInv

\* Every step keeps the invariant.
LEMMA TranscriptKeeps == TranscriptInv /\ [TranscriptNext]_transcriptVars => TranscriptInv'
<1> SUFFICES ASSUME TranscriptInv, [TranscriptNext]_transcriptVars PROVE TranscriptInv'
  OBVIOUS
<1>1. CASE UNCHANGED transcriptVars
  BY <1>1 DEF transcriptVars, TranscriptInv, TranscriptTypeOK, NamedOnce, UsesIn, IdentitiesDiffer
<1>2. CASE TranscriptNext
  BY <1>2, OpenTranscriptKeeps, DecodeSkippedKeeps, DecodeBoundaryKeeps, DecodeProductStateKeeps,
     DecodeAssistantKeeps, DecodeUserKeeps, DecodeSummaryKeeps DEF TranscriptNext
<1> QED BY <1>1, <1>2

\* Whatever a transcript holds and whether mapping is strict or not, the decoder's
\* state and its Events stay in their types (adapters/cc.py, process_file).
THEOREM TranscriptIsTyped == TranscriptSpec => []TranscriptTypeOK
<1>1. TranscriptInv => TranscriptTypeOK
  BY DEF TranscriptInv
<1> QED BY <1>1, TranscriptStarts, TranscriptKeeps, PTL DEF TranscriptSpec

\* No two Events of a transcript have one identity, and every result bears the name
\* of the tool that was called and, for an MCP tool, its failure, wherever the call
\* stands (adapters/cc.py, _build_tool_map and process_file).
THEOREM EntriesAreLinked == TranscriptSpec => []EntriesAreDistinctAndLinked
<1>1. TranscriptInv => EntriesAreDistinctAndLinked
  BY DEF TranscriptInv, EntriesAreDistinctAndLinked, ResultsKnowTheirTool, Linked
<1> QED BY <1>1, TranscriptStarts, TranscriptKeeps, PTL DEF TranscriptSpec

-----------------------------------------------------------------------------
(* Cursor databases. *)

\* An Event as the decoder yields it.
CursorEvent == [composer : Composer, from : Bubble \cup Message,
          part : Part \cup {"context", "message"}, tokens : BOOLEAN, duplicateOf : Nat]

\* The fields of a bubble.
LEMMA BubbleFields ==
  \A b \in Bubble : /\ b.composer \in Composer /\ b.composer \in Nat \ {0}
                    /\ b.key \in Nat \ {0} /\ b.time \in Nat /\ b.parts \subseteq Part
                    /\ b.states \subseteq Reference /\ b.context \in BOOLEAN /\ b.readable \in BOOLEAN
BY DatabaseAssumption DEF Bubble

\* A bubble has other fields than a message.
LEMMA NoBubbleIsAMessage == Bubble \cap Message = {}
<1>. SUFFICES ASSUME NEW b \in Bubble, b \in Message PROVE FALSE
  OBVIOUS
<1>1. "unique" \notin DOMAIN b
  BY DEF Bubble
<1>2. "unique" \in DOMAIN b
  BY DEF Message
<1> QED BY <1>1, <1>2

\* The fields of an Event.
LEMMA CursorEventFields ==
  \A e \in CursorEvent : /\ e.composer \in Nat \ {0} /\ e.from \in Bubble \cup Message
                   /\ e.tokens \in BOOLEAN /\ e.duplicateOf \in Nat
                   /\ e.part \in Part \cup {"context", "message"}
BY DatabaseAssumption DEF CursorEvent

\* The bubbles of one composer are in an order of time and key.
LEMMA BubblesAreOrdered ==
  ASSUME NEW B \in SUBSET Bubble, IsFiniteSet(B), KeysTellApart(B),
         \A a, b \in B : a.composer = b.composer
  PROVE  /\ Cardinality(B) \in Nat
         /\ Ordered(B) \in [1..Cardinality(B) -> B]
         /\ \A i, j \in 1..Cardinality(B) : i < j <=> Before(Ordered(B)[i], Ordered(B)[j])
         /\ \A x \in B : \E i \in 1..Cardinality(B) : Ordered(B)[i] = x
<1>. DEFINE R == {p \in B \X B : Before(p[1], p[2])}
<1>1. \A x, y \in B : <<x, y>> \in R <=> Before(x, y)
  OBVIOUS
<1>. HIDE DEF R
<1>2. \A x, y \in B : x.time \in Nat /\ x.key \in Nat /\ (x.key = y.key => x = y)
  BY BubbleFields DEF KeysTellApart
<1>3. Linear(R, B)
  <2>1. ASSUME NEW x \in B PROVE <<x, x>> \notin R
    BY <1>1, <1>2 DEF Before
  <2>2. ASSUME NEW x \in B, NEW y \in B PROVE x = y \/ <<x, y>> \in R \/ <<y, x>> \in R
    <3>1. Before(x, y) \/ Before(y, x) \/ x.key = y.key
      <4>1. x.time \in Nat /\ y.time \in Nat /\ x.key \in Nat /\ y.key \in Nat
        BY <1>2
      <4> QED BY <4>1 DEF Before
    <3> QED BY <1>1, <1>2, <3>1
  <2>3. ASSUME NEW x \in B, NEW y \in B, NEW z \in B, Before(x, y), Before(y, z)
        PROVE  Before(x, z)
    <3>1. /\ x.time \in Nat /\ y.time \in Nat /\ x.key \in Nat /\ y.key \in Nat
          /\ z.time \in Nat /\ z.key \in Nat
      BY <1>2
    <3> QED BY <2>3, <3>1 DEF Before
  <2>4. \A x, y, z \in B : <<x, y>> \in R /\ <<y, z>> \in R => <<x, z>> \in R
    BY <1>1, <2>3
  <2> QED BY <2>1, <2>2, <2>4 DEF Linear
<1>4. Ordered(B) = Enumerate(B, R)
  BY DEF Ordered, ListOf, R
<1>5. /\ Cardinality(B) \in Nat
      /\ Enumerate(B, R) \in [1..Cardinality(B) -> B]
      /\ \A i, j \in 1..Cardinality(B) : i < j <=> <<Enumerate(B, R)[i], Enumerate(B, R)[j]>> \in R
      /\ \A x \in B : \E i \in 1..Cardinality(B) : Enumerate(B, R)[i] = x
  BY <1>3, Enumerates
<1> QED BY <1>1, <1>4, <1>5

-----------------------------------------------------------------------------
\* What the Events of some bubbles say of these.
Origin(y) ==
  \A i \in DOMAIN y :
    /\ y[i].part \in Part => y[i].from \in Bubble /\ y[i].from.composer = y[i].composer
    /\ y[i].tokens \/ y[i].duplicateOf # 0 => y[i].part \in Part
OneCarries(y) ==
  \A i \in DOMAIN y : y[i].part \in Part =>
    \E j \in DOMAIN y : /\ y[j].from = y[i].from /\ y[j].tokens
                        /\ \A k \in DOMAIN y : y[k].from = y[i].from /\ y[k].tokens => k = j
RepeatsIn(y) ==
  \A i \in DOMAIN y : y[i].duplicateOf # 0 =>
    \A j \in DOMAIN y :
      /\ y[j].from.key = y[i].duplicateOf /\ y[j].part \in Part
      /\ y[j].composer = y[i].composer
      => /\ j < i /\ y[j].from.call = y[i].from.call
         /\ y[j].duplicateOf = 0
SoundUsage(y) == Origin(y) /\ OneCarries(y) /\ RepeatsIn(y)

\* The places of a concatenation.
LEMMA Parted ==
  ASSUME NEW y \in Seq(CursorEvent), NEW z \in Seq(CursorEvent)
  PROVE  /\ y \o z \in Seq(CursorEvent)
         /\ Len(y) \in Nat /\ Len(z) \in Nat
         /\ DOMAIN y = 1..Len(y) /\ DOMAIN z = 1..Len(z)
         /\ DOMAIN (y \o z) = 1..Len(y) + Len(z)
         /\ \A i \in 1..Len(y) : i \in 1..Len(y) + Len(z) /\ (y \o z)[i] = y[i]
         /\ \A i \in 1..Len(z) : Len(y) + i \in 1..Len(y) + Len(z) /\ (y \o z)[Len(y) + i] = z[i]
         /\ \A i \in 1..Len(y) + Len(z) : i \notin 1..Len(y) =>
              i - Len(y) \in 1..Len(z) /\ i = Len(y) + (i - Len(y)) /\ (y \o z)[i] = z[i - Len(y)]
<1>1. Len(y) \in Nat /\ Len(z) \in Nat /\ DOMAIN y = 1..Len(y) /\ DOMAIN z = 1..Len(z)
      /\ DOMAIN (y \o z) = 1..Len(y) + Len(z) /\ y \o z \in Seq(CursorEvent)
  OBVIOUS
<1>2. /\ \A i \in 1..Len(y) : (y \o z)[i] = y[i]
      /\ \A i \in 1..Len(z) : (y \o z)[Len(y) + i] = z[i]
  BY Joined
<1>3. \A i \in 1..Len(y) + Len(z) : i \notin 1..Len(y) =>
              i - Len(y) \in 1..Len(z) /\ i = Len(y) + (i - Len(y))
  BY <1>1
<1>4. /\ \A i \in 1..Len(y) : i \in 1..Len(y) + Len(z)
      /\ \A i \in 1..Len(z) : Len(y) + i \in 1..Len(y) + Len(z)
  BY <1>1
<1> QED BY <1>1, <1>2, <1>3, <1>4

\* s is y followed by z, from the place n.
Continues(s, y, z, n) ==
  /\ DOMAIN s \subseteq Nat
  /\ \A i \in DOMAIN y : i \in DOMAIN s /\ s[i] = y[i]
  /\ \A i \in DOMAIN z : n + i \in DOMAIN s /\ s[n + i] = z[i]
  /\ \A i \in DOMAIN s : i \notin DOMAIN y =>
       i - n \in DOMAIN z /\ i = n + (i - n) /\ s[i] = z[i - n]

\* What follows Events of other composers says nothing of these.
LEMMA SoundFollows ==
  ASSUME NEW y, NEW z, NEW s, NEW n \in Nat, Continues(s, y, z, n), SoundUsage(y), SoundUsage(z),
         \A i \in DOMAIN y, j \in DOMAIN z :
           y[i].part \in Part /\ z[j].part \in Part => y[i].composer # z[j].composer
  PROVE  SoundUsage(s)
<1>. DEFINE back(i) == i - n
            forth(i) == n + i
<1>1. /\ \A i \in DOMAIN y : i \in DOMAIN s /\ s[i] = y[i]
      /\ \A i \in DOMAIN z : forth(i) \in DOMAIN s /\ s[forth(i)] = z[i]
      /\ \A i \in DOMAIN s : i \notin DOMAIN y =>
           back(i) \in DOMAIN z /\ i = forth(back(i)) /\ s[i] = z[back(i)]
  BY DEF Continues
<1>0. \A i, j \in DOMAIN s : back(i) < back(j) => i < j
  BY DEF Continues
<1>. HIDE DEF back, forth
<1>2. Origin(s)
  BY <1>1 DEF Origin, SoundUsage
<1>3. ASSUME NEW i \in DOMAIN y, NEW j \in DOMAIN z, y[i].part \in Part
      PROVE  /\ ~(z[j].from = y[i].from /\ z[j].tokens)
             /\ z[j].part \in Part => z[j].composer # y[i].composer
  BY <1>3 DEF SoundUsage, Origin
<1>4. ASSUME NEW i \in DOMAIN y, NEW j \in DOMAIN z, z[j].part \in Part
      PROVE  /\ ~(y[i].from = z[j].from /\ y[i].tokens)
             /\ y[i].part \in Part => z[j].composer # y[i].composer
  BY <1>4 DEF SoundUsage, Origin
<1>5. OneCarries(s)
  <2>. SUFFICES ASSUME NEW i \in DOMAIN s, s[i].part \in Part
                PROVE  \E j \in DOMAIN s :
                         /\ s[j].from = s[i].from /\ s[j].tokens
                         /\ \A k \in DOMAIN s : s[k].from = s[i].from /\ s[k].tokens => k = j
    BY DEF OneCarries
  <2>1. CASE i \in DOMAIN y
    <3>1. s[i] = y[i]
      BY <1>1, <2>1
    <3>2. PICK j \in DOMAIN y : /\ y[j].from = y[i].from /\ y[j].tokens
                            /\ \A k \in DOMAIN y : y[k].from = y[i].from /\ y[k].tokens => k = j
      BY <2>1, <3>1 DEF SoundUsage, OneCarries
    <3>3. ASSUME NEW k \in DOMAIN s, s[k].from = s[i].from, s[k].tokens PROVE k = j
      <4>1. k \in DOMAIN y
        BY <1>1, <1>3, <2>1, <3>1, <3>3
      <4> QED BY <1>1, <3>1, <3>2, <3>3, <4>1
    <3> QED BY <1>1, <3>1, <3>2, <3>3
  <2>2. CASE i \notin DOMAIN y
    <3>1. back(i) \in DOMAIN z /\ s[i] = z[back(i)]
      BY <1>1, <2>2
    <3>2. PICK j \in DOMAIN z :
            /\ z[j].from = z[back(i)].from /\ z[j].tokens
            /\ \A k \in DOMAIN z : z[k].from = z[back(i)].from /\ z[k].tokens => k = j
      BY <3>1 DEF SoundUsage, OneCarries
    <3>3. ASSUME NEW k \in DOMAIN s, s[k].from = s[i].from, s[k].tokens PROVE k = forth(j)
      <4>1. k \notin DOMAIN y
        BY <1>1, <1>4, <3>1, <3>3
      <4>2. back(k) \in DOMAIN z /\ s[k] = z[back(k)] /\ k = forth(back(k))
        BY <1>1, <4>1
      <4>3. back(k) = j
        BY <3>1, <3>2, <3>3, <4>2
      <4> QED BY <4>2, <4>3
    <3> QED BY <1>1, <3>1, <3>2, <3>3
  <2> QED BY <2>1, <2>2
<1>6. RepeatsIn(s)
  <2>. SUFFICES ASSUME NEW i \in DOMAIN s, s[i].duplicateOf # 0, NEW j \in DOMAIN s,
                       s[j].from.key = s[i].duplicateOf, s[j].part \in Part,
                       s[j].composer = s[i].composer
                PROVE  j < i /\ s[j].from.call = s[i].from.call /\ s[j].duplicateOf = 0
    BY DEF RepeatsIn
  <2>0. s[i].part \in Part
    BY <1>2 DEF Origin
  <2>1. CASE i \in DOMAIN y
    <3>1. j \in DOMAIN y
      BY <1>1, <1>3, <2>0, <2>1
    <3> QED BY <1>1, <2>1, <3>1 DEF SoundUsage, RepeatsIn
  <2>2. CASE i \notin DOMAIN y
    <3>1. j \notin DOMAIN y
      BY <1>1, <1>4, <2>0, <2>2
    <3>2. back(i) \in DOMAIN z /\ back(j) \in DOMAIN z /\ s[i] = z[back(i)] /\ s[j] = z[back(j)]
      BY <1>1, <2>2, <3>1
    <3>3. back(j) < back(i) /\ z[back(j)].from.call = z[back(i)].from.call
          /\ z[back(j)].duplicateOf = 0
      BY <3>2 DEF SoundUsage, RepeatsIn
    <3> QED BY <1>0, <3>2, <3>3
  <2> QED BY <2>1, <2>2
<1> QED BY <1>2, <1>5, <1>6 DEF SoundUsage

\* Events of different composers say nothing of each other.
LEMMA SoundsJoin ==
  ASSUME NEW y \in Seq(CursorEvent), NEW z \in Seq(CursorEvent), SoundUsage(y), SoundUsage(z),
         \A i \in DOMAIN y, j \in DOMAIN z :
           y[i].part \in Part /\ z[j].part \in Part => y[i].composer # z[j].composer
  PROVE  SoundUsage(y \o z)
<1>1. Continues(y \o z, y, z, Len(y)) /\ Len(y) \in Nat
  BY Parted DEF Continues
<1> QED BY <1>1, SoundFollows, Zenon

\* Events that are no parts of a bubble carry no usage.
LEMMA OthersAreSound ==
  ASSUME NEW y, \A i \in DOMAIN y : y[i].part \notin Part /\ ~y[i].tokens /\ y[i].duplicateOf = 0
  PROVE  SoundUsage(y)
BY DEF SoundUsage, Origin, OneCarries, RepeatsIn

\* The parts of a bubble that become Events.
LEMMA PartsAreParts ==
  ASSUME NEW b PROVE PartsOf(b) \in Seq(Part)
<1>0. ASSUME NEW p \in Part, NEW cond PROVE Opt(cond, p) \in Seq(Part)
  BY DEF Opt
<1>1. /\ PromptParts(b) \in Seq(Part) /\ ResponseParts(b) \in Seq(Part)
      /\ ReasoningParts(b) \in Seq(Part) /\ SummaryParts(b) \in Seq(Part)
  <2>1. {"prompt", "response", "reasoning", "compaction"} \subseteq Part
    BY DEF Part
  <2> QED BY <1>0, <2>1 DEF PromptParts, ResponseParts, ReasoningParts, SummaryParts
<1>2. ToolParts(b) \in Seq(Part)
  <2>1. Opt("call" \in b.parts, "call") \in Seq(Part) /\ Opt(Keeps(b, "result"), "result") \in Seq(Part)
    <3>1. {"call", "result"} \subseteq Part
      BY DEF Part
    <3> QED BY <1>0, <3>1
  <2> QED BY <2>1, ConcatProperties DEF ToolParts
<1>3. <<>> \in Seq(Part)
  OBVIOUS
<1>4. ResponseParts(b) \o ReasoningParts(b) \in Seq(Part)
  BY <1>1, ConcatProperties
<1>5. ResponseParts(b) \o ReasoningParts(b) \o SummaryParts(b) \in Seq(Part)
  BY <1>1, <1>4, ConcatProperties
<1>6. ResponseParts(b) \o ReasoningParts(b) \o SummaryParts(b) \o ToolParts(b) \in Seq(Part)
  BY <1>2, <1>5, ConcatProperties
<1> QED BY <1>1, <1>3, <1>6 DEF PartsOf

\* What the Events of one bubble are.
Block(t, b, B) ==
  /\ t \in Seq(CursorEvent)
  /\ \A k \in DOMAIN t :
       /\ t[k].composer = b.composer /\ t[k].from = b
       /\ t[k].part \in Part => 1 \in DOMAIN t /\ t[1].tokens
       /\ t[k].tokens => k = 1 /\ t[k].part \in Part
       /\ t[k].duplicateOf # 0 => t[k].duplicateOf \in Repeats(B, b) /\ t[k].part \in Part

\* The Events of a bubble: the first carries its tokens, and all say alike what it repeats.
LEMMA EventsAreABlock ==
  ASSUME NEW B \in SUBSET Bubble, NEW b \in B
  PROVE  Block(EventsOf(b, B), b, B) /\ \A k \in DOMAIN EventsOf(b, B) : EventsOf(b, B)[k].part \in Part
<1>. DEFINE parts == PartsOf(b)
            first == Repeats(B, b)
            dup == IF first = {} THEN 0 ELSE CHOOSE k \in first : TRUE
            e == EventsOf(b, B)
<1>1. parts \in Seq(Part)
  BY PartsAreParts
<1>2. dup \in Nat /\ (dup # 0 => dup \in first)
  <2>1. first \subseteq Nat
    BY BubbleFields DEF Repeats
  <2>. HIDE DEF first
  <2> QED BY <2>1
<1>3. /\ DOMAIN e = DOMAIN parts
      /\ \A i \in DOMAIN parts :
           e[i] = [composer |-> b.composer, from |-> b, part |-> parts[i],
                   tokens |-> CarriesTokens(i), duplicateOf |-> dup]
  BY Zenon DEF EventsOf
<1>4. b.composer \in Composer /\ b \in Bubble
  BY BubbleFields
<1>5. \A i \in DOMAIN parts : parts[i] \in Part
  BY <1>1
<1>. HIDE DEF parts, dup, first
<1>6. \A i \in DOMAIN e : e[i] \in CursorEvent
  <2>. SUFFICES ASSUME NEW i \in DOMAIN parts PROVE e[i] \in CursorEvent
    BY <1>3
  <2>1. parts[i] \in Part \cup {"context", "message"} /\ CarriesTokens(i) \in BOOLEAN /\ b \in Bubble \cup Message
    BY <1>4, <1>5 DEF CarriesTokens
  <2>2. e[i] = [composer |-> b.composer, from |-> b, part |-> parts[i],
                tokens |-> CarriesTokens(i), duplicateOf |-> dup]
    BY <1>3
  <2>. HIDE DEF e
  <2>3. [composer |-> b.composer, from |-> b, part |-> parts[i],
         tokens |-> CarriesTokens(i), duplicateOf |-> dup] \in CursorEvent
    BY <1>2, <1>4, <2>1 DEF CursorEvent
  <2> QED BY <2>2, <2>3
<1>7. e \in Seq(CursorEvent)
  <2>1. DOMAIN parts = 1..Len(parts) /\ Len(parts) \in Nat
    BY <1>1
  <2>2. e = [i \in 1..Len(parts) |-> e[i]]
    BY <2>1 DEF EventsOf, parts
  <2>. HIDE DEF e
  <2>3. e \in [1..Len(parts) -> CursorEvent]
    BY <1>3, <1>6, <2>1, <2>2
  <2> QED BY <2>1, <2>3, SeqDef
<1>8. DOMAIN parts # {} => 1 \in DOMAIN parts
  BY <1>1
<1>. HIDE DEF e
<1>9. ASSUME NEW k \in DOMAIN e
      PROVE
       /\ e[k].composer = b.composer /\ e[k].from = b
       /\ e[k].part \in Part
       /\ 1 \in DOMAIN e /\ e[1].tokens
       /\ e[k].tokens => k = 1 
       /\ e[k].duplicateOf = dup
  <2>1. k \in DOMAIN parts
    BY <1>3
  <2>2. /\ e[k] = [composer |-> b.composer, from |-> b, part |-> parts[k],
                   tokens |-> CarriesTokens(k), duplicateOf |-> dup]
        /\ 1 \in DOMAIN parts
        /\ e[1] = [composer |-> b.composer, from |-> b, part |-> parts[1],
                   tokens |-> CarriesTokens(1), duplicateOf |-> dup]
    BY <1>3, <1>8, <2>1
  <2>3. /\ e[k].composer = b.composer /\ e[k].from = b /\ e[k].part = parts[k]
        /\ e[k].duplicateOf = dup
    BY <2>2
  <2>4. e[k].tokens = CarriesTokens(k) /\ e[1].tokens = CarriesTokens(1)
    BY <2>2
  <2>5. /\ e[1].tokens
        /\ e[k].tokens => k = 1
    <3>1. CarriesTokens(1) /\ (CarriesTokens(k) => k = 1)
      BY DEF CarriesTokens
    <3> QED BY <2>4, <3>1, Zenon
  <2> QED BY <1>3, <1>5, <2>1, <2>2, <2>3, <2>5
<1> QED BY <1>2, <1>7, <1>9 DEF Block, first, e

\* The request context of a bubble carries no usage.
LEMMA ContextIsABlock ==
  ASSUME NEW b \in Bubble
  PROVE  /\ ContextEvents(b) \in Seq(CursorEvent)
         /\ \A k \in DOMAIN ContextEvents(b) :
              LET x == ContextEvents(b)[k]
              IN  /\ x.composer = b.composer /\ x.from = b
                  /\ x.part \notin Part /\ ~x.tokens /\ x.duplicateOf = 0
<1>. DEFINE x == Loose(b.composer, b, "context")
<1>1. x \in CursorEvent
  BY BubbleFields DEF Loose, CursorEvent
<1>2. /\ x.composer = b.composer /\ x.from = b
      /\ x.part \notin Part /\ ~x.tokens /\ x.duplicateOf = 0
  BY DEF Loose, Part
<1>3. ContextEvents(b) = <<>> \/ ContextEvents(b) = <<x>>
  BY DEF ContextEvents
<1>. HIDE DEF x
<1>4. CASE ContextEvents(b) = <<>>
  BY <1>4
<1>5. CASE ContextEvents(b) = <<x>>
  <2>1. DOMAIN <<x>> = {1} /\ <<x>>[1] = x /\ <<x>> \in Seq(CursorEvent)
    BY <1>1
  <2> QED BY <1>2, <1>5, <2>1
<1> QED BY <1>3, <1>4, <1>5

\* A bubble with its request context.
LEMMA BubbleIsABlock ==
  ASSUME NEW B \in SUBSET Bubble, NEW b \in B
  PROVE  Block(EventsOf(b, B) \o ContextEvents(b), b, B)
<1>. DEFINE e == EventsOf(b, B)
            c == ContextEvents(b)
            t == e \o c
<1>1. Block(e, b, B) /\ \A k \in DOMAIN e : e[k].part \in Part
  BY EventsAreABlock
<1>2. /\ c \in Seq(CursorEvent)
      /\ \A k \in DOMAIN c : /\ c[k].composer = b.composer /\ c[k].from = b
                             /\ c[k].part \notin Part /\ ~c[k].tokens /\ c[k].duplicateOf = 0
  BY ContextIsABlock
<1>. HIDE DEF e, c
<1>3. e \in Seq(CursorEvent)
  BY <1>1 DEF Block
<1>4. Continues(t, e, c, Len(e)) /\ t \in Seq(CursorEvent)
  BY <1>2, <1>3, Parted DEF Continues
<1>5. /\ \A i \in DOMAIN e : i \in DOMAIN t /\ t[i] = e[i]
      /\ \A i \in DOMAIN t : i \notin DOMAIN e =>
           i - Len(e) \in DOMAIN c /\ t[i] = c[i - Len(e)]
  BY <1>4 DEF Continues
<1>. HIDE DEF t
<1>6. ASSUME NEW k \in DOMAIN t
      PROVE  /\ t[k].composer = b.composer /\ t[k].from = b
             /\ t[k].part \in Part => 1 \in DOMAIN t /\ t[1].tokens
             /\ t[k].tokens => k = 1 /\ t[k].part \in Part
             /\ t[k].duplicateOf # 0 => t[k].duplicateOf \in Repeats(B, b) /\ t[k].part \in Part
  <2>1. CASE k \in DOMAIN e
    BY <1>1, <1>5, <2>1 DEF Block
  <2>2. CASE k \notin DOMAIN e
    BY <1>2, <1>5, <2>2
  <2> QED BY <2>1, <2>2
<1> QED BY <1>4, <1>6 DEF Block, t, e, c

\* The Events of bubbles in the order of time: each is counted once, and a
\* repetition follows the original.
LEMMA BubblesInTimeAreSound ==
  ASSUME NEW B \in SUBSET Bubble, KeysTellApart(B), \A a, b \in B : a.composer = b.composer,
         NEW order, \A i \in DOMAIN order : i \in Nat /\ order[i] \in B,
         \A i, j \in DOMAIN order : i < j <=> Before(order[i], order[j]),
         NEW seqs, DOMAIN seqs = DOMAIN order,
         \A i \in DOMAIN seqs : Block(seqs[i], order[i], B),
         NEW F, NEW w, NEW v, Spread(seqs, F, w, v)
  PROVE  SoundUsage(F)
<1>. DEFINE D == DOMAIN F
            N == DOMAIN seqs
<1>1. /\ \A p \in D : w[p] \in N /\ v[p] \in DOMAIN seqs[w[p]] /\ F[p] = seqs[w[p]][v[p]]
      /\ \A p, q \in D : p < q => w[p] < w[q] \/ (w[p] = w[q] /\ v[p] < v[q])
      /\ \A i \in N : \A k \in DOMAIN seqs[i] : \E p \in D : w[p] = i /\ v[p] = k
  BY DEF Spread
<1>2. \A p \in D : p \in Nat /\ w[p] \in Nat /\ v[p] \in Nat
  BY DEF Spread
<1>3. \A i \in N : i \in Nat /\ order[i] \in B /\ order[i] \in Bubble
  OBVIOUS
<1>9. \A i, j \in N : i < j <=> Before(order[i], order[j])
  OBVIOUS
<1>10. \A i \in N : Block(seqs[i], order[i], B)
  OBVIOUS
<1>. HIDE DEF D, N
<1>4. ASSUME NEW p \in D
      PROVE  /\ F[p].composer = order[w[p]].composer /\ F[p].from = order[w[p]]
             /\ F[p].part \in Part => 1 \in DOMAIN seqs[w[p]] /\ seqs[w[p]][1].tokens
             /\ F[p].tokens => v[p] = 1 /\ F[p].part \in Part
             /\ F[p].duplicateOf # 0 => F[p].duplicateOf \in Repeats(B, order[w[p]]) /\ F[p].part \in Part
  BY <1>1, <1>10 DEF Block
<1>5. Origin(F)
  BY <1>1, <1>3, <1>4 DEF Origin, D
<1>6. ASSUME NEW i \in N, NEW j \in N, order[i] = order[j] PROVE i = j
  <2>1. ~(i < j) /\ ~(j < i)
    <3>1. i < j <=> Before(order[i], order[j])
      BY <1>9
    <3>2. j < i <=> Before(order[j], order[i])
      BY <1>9
    <3>3. order[i].time \in Nat /\ order[i].key \in Nat
      BY <1>3, BubbleFields
    <3>4. ~Before(order[i], order[i])
      BY <3>3 DEF Before
    <3> QED BY <1>6, <3>1, <3>2, <3>4
  <2> QED BY <1>3, <2>1
<1>7. OneCarries(F)
  <2>. SUFFICES ASSUME NEW i \in D, F[i].part \in Part
                PROVE  \E j \in D : /\ F[j].from = F[i].from /\ F[j].tokens
                                    /\ \A k \in D : F[k].from = F[i].from /\ F[k].tokens => k = j
    BY DEF OneCarries, D
  <2>1. PICK j \in D : w[j] = w[i] /\ v[j] = 1
    BY <1>1, <1>4
  <2>2. F[j].from = F[i].from /\ F[j].tokens
    BY <1>1, <1>4, <2>1
  <2>3. ASSUME NEW k \in D, F[k].from = F[i].from, F[k].tokens PROVE k = j
    <3>1. order[w[k]] = order[w[i]] /\ v[k] = 1
      BY <1>4, <2>3
    <3>2. w[k] = w[j] /\ v[k] = v[j]
      BY <1>1, <1>6, <2>1, <3>1
    <3>3. ~(k < j) /\ ~(j < k)
      BY <1>1, <1>2, <3>2
    <3> QED BY <1>2, <3>3
  <2> QED BY <2>2, <2>3
<1>8. RepeatsIn(F)
  <2>. SUFFICES ASSUME NEW i \in D, F[i].duplicateOf # 0, NEW j \in D,
                       F[j].from.key = F[i].duplicateOf
                PROVE  j < i /\ F[j].from.call = F[i].from.call /\ F[j].duplicateOf = 0
    BY DEF RepeatsIn, D
  <2>. DEFINE b == order[w[i]]
              d == order[w[j]]
  <2>1. b \in B /\ d \in B /\ F[i].from = b /\ F[j].from = d
    BY <1>1, <1>3, <1>4
  <2>2. F[i].duplicateOf \in Repeats(B, b)
    BY <1>4
  <2>3. PICK a \in B : /\ a.key = F[i].duplicateOf /\ a.call # None /\ a.call = b.call /\ Before(a, b)
                       /\ \A y \in B : y.call = b.call => a = y \/ Before(a, y)
    BY <2>2 DEF Repeats
  <2>4. d = a
    BY <2>1, <2>3 DEF KeysTellApart
  <2>5. w[j] < w[i]
    BY <1>1, <1>9, <2>3, <2>4
  <2>6. j < i
    <3>1. ~(i < j) /\ i # j
      BY <1>1, <1>2, <2>5
    <3> QED BY <1>2, <3>1
  <2>7. Repeats(B, d) = {}
    <3>. SUFFICES ASSUME NEW x \in B, x.call = a.call, Before(x, a) PROVE FALSE
      BY <2>4 DEF Repeats
    <3>1. x = a \/ Before(a, x)
      BY <2>3
    <3>2. x.time \in Nat /\ x.key \in Nat /\ a.time \in Nat /\ a.key \in Nat
      BY BubbleFields
    <3> QED BY <3>1, <3>2 DEF Before
  <2>8. F[j].duplicateOf = 0
    BY <1>4, <2>7
  <2> QED BY <2>1, <2>3, <2>4, <2>6, <2>8
<1> QED BY <1>5, <1>7, <1>8 DEF SoundUsage

\* Concatenations of sequences of Events of one composer.
LEMMA ComposersJoin ==
  ASSUME NEW y \in Seq(CursorEvent), NEW z \in Seq(CursorEvent), NEW c,
         \A i \in DOMAIN y : y[i].composer = c /\ y[i].from \in Bubble,
         \A i \in DOMAIN z : z[i].composer = c /\ z[i].from \in Bubble
  PROVE  \A i \in DOMAIN (y \o z) : (y \o z)[i].composer = c /\ (y \o z)[i].from \in Bubble
<1>1. \A i \in DOMAIN (y \o z) : i \notin DOMAIN y =>
        i - Len(y) \in DOMAIN z /\ (y \o z)[i] = z[i - Len(y)]
  BY Parted
<1>2. \A i \in DOMAIN y : (y \o z)[i] = y[i]
  BY Parted
<1> QED BY <1>1, <1>2

\* A tidy collection of bubbles: what is pending of one composer.
Collected(B, c) ==
  /\ B \subseteq Bubble /\ IsFiniteSet(B) /\ KeysTellApart(B)
  /\ \A b \in B : b.composer = c

\* A part of what is collected is as tidy.
LEMMA PartCollected ==
  ASSUME NEW B, NEW c, Collected(B, c), NEW A \in SUBSET B
  PROVE  /\ A \in SUBSET Bubble /\ IsFiniteSet(A) /\ KeysTellApart(A)
         /\ \A a, b \in A : a.composer = b.composer
BY FS_Subset DEF Collected, KeysTellApart

\* The Events of some bubbles in the order of time.
InTime(B) == LET order == Ordered(B)
             IN  FlattenSeq([i \in DOMAIN order |-> EventsOf(order[i], B) \o ContextEvents(order[i])])

\* What the bubbles of one composer yield.
LEMMA BubblesAreSound ==
  ASSUME NEW P, NEW c, Collected(P, c), NEW B \in SUBSET P
  PROVE  /\ InTime(B) \in Seq(CursorEvent) /\ SoundUsage(InTime(B))
         /\ \A i \in DOMAIN InTime(B) : InTime(B)[i].composer = c /\ InTime(B)[i].from \in Bubble
<1>. DEFINE n == Cardinality(B)
            order == Ordered(B)
            F == InTime(B)
            seqs == [i \in DOMAIN order |-> EventsOf(order[i], B) \o ContextEvents(order[i])]
<1>1. /\ B \in SUBSET Bubble /\ IsFiniteSet(B) /\ KeysTellApart(B)
      /\ \A a, b \in B : a.composer = b.composer
  BY PartCollected
<1>2. /\ n \in Nat /\ order \in [1..n -> B]
      /\ \A i, j \in 1..n : i < j <=> Before(order[i], order[j])
  BY <1>1, BubblesAreOrdered
<1>0. order = Ordered(B)
  OBVIOUS
<1>3. DOMAIN order = 1..n /\ \A i \in DOMAIN order : i \in Nat /\ order[i] \in B
  <2>. HIDE DEF n, order
  <2> QED BY <1>2
<1>4. ASSUME NEW i \in DOMAIN order PROVE Block(seqs[i], order[i], B)
  <2>1. seqs[i] = EventsOf(order[i], B) \o ContextEvents(order[i])
    OBVIOUS
  <2>2. Block(EventsOf(order[i], B) \o ContextEvents(order[i]), order[i], B)
    BY <1>1, <1>3, BubbleIsABlock, Zenon
  <2> QED BY <2>1, <2>2, Zenon
<1>5. seqs \in [1..n -> Seq(CursorEvent)]
  <2>1. \A i \in DOMAIN order : seqs[i] \in Seq(CursorEvent)
    BY <1>4 DEF Block
  <2>2. seqs = [i \in DOMAIN order |-> seqs[i]]
    OBVIOUS
  <2>. HIDE DEF seqs
  <2> QED BY <1>3, <2>1, <2>2
<1>6. DOMAIN seqs = DOMAIN order /\ F = FlattenSeq(seqs)
  BY Zenon DEF InTime
<1>. HIDE DEF seqs, n, order, F
<1>7. F \in Seq(CursorEvent) /\ \E w, v : Spread(seqs, F, w, v)
  BY <1>2, <1>5, <1>6, Flattens, Zenon
<1>8. PICK w, v : Spread(seqs, F, w, v)
  BY <1>7
<1>9. \A i, j \in DOMAIN order : i < j <=> Before(order[i], order[j])
  BY <1>2, <1>3
<1>10. SoundUsage(F)
  BY <1>1, <1>3, <1>4, <1>6, <1>7, <1>8, <1>9, BubblesInTimeAreSound
<1>11. ASSUME NEW p \in DOMAIN F PROVE F[p].composer = c /\ F[p].from \in Bubble
  <2>1. w[p] \in DOMAIN order /\ v[p] \in DOMAIN seqs[w[p]] /\ F[p] = seqs[w[p]][v[p]]
    BY <1>6, <1>8 DEF Spread
  <2>2. F[p].composer = order[w[p]].composer /\ F[p].from = order[w[p]]
    BY <1>4, <2>1 DEF Block
  <2> QED BY <1>1, <1>3, <2>1, <2>2 DEF Collected
<1> QED BY <1>7, <1>10, <1>11 DEF F

\* What remains of copies: their contexts.
LEMMA DroppedAreQuiet ==
  ASSUME NEW P, NEW c, Collected(P, c), NEW B \in SUBSET P, NEW order, order = Ordered(B),
         NEW F, F = FlattenSeq([i \in DOMAIN order |-> ContextEvents(order[i])])
  PROVE  F \in Seq(CursorEvent) /\ SoundUsage(F) /\ \A i \in DOMAIN F : F[i].composer = c /\ F[i].from \in Bubble /\ F[i].part \notin Part
<1>. DEFINE n == Cardinality(B)
            seqs == [i \in DOMAIN order |-> ContextEvents(order[i])]
<1>1. /\ B \in SUBSET Bubble /\ IsFiniteSet(B) /\ KeysTellApart(B)
      /\ \A a, b \in B : a.composer = b.composer
  BY PartCollected
<1>2. /\ n \in Nat /\ order \in [1..n -> B]
  BY <1>1, BubblesAreOrdered
<1>3. DOMAIN order = 1..n /\ \A i \in DOMAIN order : order[i] \in B /\ order[i] \in Bubble
  BY <1>1, <1>2
<1>4. ASSUME NEW i \in DOMAIN order
      PROVE  /\ seqs[i] \in Seq(CursorEvent)
             /\ \A k \in DOMAIN seqs[i] :
                  /\ seqs[i][k].composer = c /\ seqs[i][k].from \in Bubble /\ seqs[i][k].part \notin Part
                  /\ ~seqs[i][k].tokens /\ seqs[i][k].duplicateOf = 0
  <2>1. order[i] \in Bubble /\ order[i].composer = c /\ seqs[i] = ContextEvents(order[i])
    BY <1>3 DEF Collected
  <2>. HIDE DEF seqs
  <2> QED BY <2>1, ContextIsABlock
<1>5. seqs \in [1..n -> Seq(CursorEvent)]
  <2>1. \A i \in DOMAIN order : seqs[i] \in Seq(CursorEvent)
    BY <1>4
  <2>2. seqs = [i \in DOMAIN order |-> seqs[i]]
    OBVIOUS
  <2>. HIDE DEF seqs
  <2> QED BY <1>3, <2>1, <2>2
<1>6. DOMAIN seqs = DOMAIN order /\ F = FlattenSeq(seqs)
  OBVIOUS
<1>. HIDE DEF seqs, n
<1>7. F \in Seq(CursorEvent) /\ \E w, v : Spread(seqs, F, w, v)
  BY <1>2, <1>5, <1>6, Flattens, Zenon
<1>8. PICK w, v : Spread(seqs, F, w, v)
  BY <1>7
<1>9. ASSUME NEW p \in DOMAIN F
      PROVE  F[p].composer = c /\ F[p].from \in Bubble /\ F[p].part \notin Part /\ ~F[p].tokens /\ F[p].duplicateOf = 0
  <2>1. w[p] \in DOMAIN order /\ v[p] \in DOMAIN seqs[w[p]] /\ F[p] = seqs[w[p]][v[p]]
    BY <1>6, <1>8 DEF Spread
  <2> QED BY <1>4, <2>1
<1>10. SoundUsage(F)
  BY <1>9, OthersAreSound
<1> QED BY <1>7, <1>9, <1>10

\* What the collected composer yields counts once.
LEMMA ComposerIsSound ==
  ASSUME Collected(pending, current)
  PROVE  /\ ComposerEvents \in Seq(CursorEvent) /\ SoundUsage(ComposerEvents)
         /\ \A i \in DOMAIN ComposerEvents : ComposerEvents[i].composer = current /\ ComposerEvents[i].from \in Bubble
<1>. DEFINE B == Canonical(pending)
            order == Ordered(B)
            C == pending \ B
            dropped == Ordered(C)
            X == InTime(B)
            Y == FlattenSeq([i \in DOMAIN dropped |-> ContextEvents(dropped[i])])
<1>1. B \in SUBSET pending /\ C \in SUBSET pending
  BY DEF Canonical
<1>2. X \in Seq(CursorEvent) /\ SoundUsage(X) /\ \A i \in DOMAIN X : X[i].composer = current /\ X[i].from \in Bubble
  <2>1. B \in SUBSET pending
    BY <1>1
  <2>. HIDE DEF B
  <2> QED BY <2>1, BubblesAreSound
<1>3. Y \in Seq(CursorEvent) /\ SoundUsage(Y) /\ \A i \in DOMAIN Y : Y[i].composer = current /\ Y[i].from \in Bubble /\ Y[i].part \notin Part
  <2>. HIDE DEF C
  <2> QED BY <1>1, DroppedAreQuiet
<1>5. ComposerEvents = X \o Y
  BY Zenon DEF ComposerEvents, InTime
<1>. HIDE DEF X, Y
<1>6. X \o Y \in Seq(CursorEvent)
  BY <1>2, <1>3, Parted
<1>8. \A i \in DOMAIN (X \o Y) : (X \o Y)[i].composer = current /\ (X \o Y)[i].from \in Bubble
  BY <1>2, <1>3, ComposersJoin
<1>7. SoundUsage(X \o Y)
  BY <1>2, <1>3, SoundsJoin
<1> QED BY <1>5, <1>6, <1>7, <1>8

\* The messages bound to a composer are yielded, all of them.
LEMMA MessagesAreYielded ==
  ASSUME NEW c \in Composer, IsFiniteSet(bound[c]), bound[c] \subseteq Message
  PROVE  /\ MessageEvents(c) \in Seq(CursorEvent) /\ SoundUsage(MessageEvents(c))
         /\ \A i \in DOMAIN MessageEvents(c) :
              MessageEvents(c)[i].composer = c /\ MessageEvents(c)[i].from \in bound[c] /\ MessageEvents(c)[i].part \notin Part
         /\ \A m \in bound[c] : \E i \in DOMAIN MessageEvents(c) : MessageEvents(c)[i].from = m
<1>. DEFINE S == bound[c]
            n == Cardinality(S)
            list == SetToSeq(S)
            e == MessageEvents(c)
<1>1. n \in Nat /\ \E f : f \in [1..n -> S] /\ IsInjective(f)
  <2>1. n \in Nat /\ \E f : f \in Bijection(1..n, S)
    BY FS_CardinalityType DEF ExistsBijection
  <2> QED BY <2>1 DEF Bijection, Injection, IsInjective
<1>2. list \in [1..n -> S] /\ IsInjective(list)
  BY <1>1, Zenon DEF SetToSeq
<1>. HIDE DEF list
<1>3. \A m \in S : \E i \in 1..n : list[i] = m
  <2>1. IsFiniteSet(1..n) /\ Cardinality(1..n) = n
    <3>. HIDE DEF n
    <3>1. IsFiniteSet(1..n) /\ Cardinality(1..n) = IF 1 > n THEN 0 ELSE n - 1 + 1
      BY <1>1, FS_Interval
    <3> QED BY <1>1, <3>1
  <2>2. list \in Injection(1..n, S)
    BY <1>2 DEF Injection, IsInjective
  <2>3. list \in Surjection(1..n, S)
    BY <2>1, <2>2, FS_Injection
  <2> QED BY <2>3 DEF Surjection
<1>4. e = [i \in 1..n |-> Loose(c, list[i], "message")]
  <2>1. DOMAIN list = 1..n
    BY <1>2
  <2> QED BY <2>1, Zenon DEF MessageEvents, list
<1>. HIDE DEF e
<1>5. ASSUME NEW i \in 1..n
      PROVE  /\ e[i] \in CursorEvent /\ e[i].composer = c /\ e[i].from \in S /\ e[i].part = "message" /\ e[i].from = list[i]
             /\ ~e[i].tokens /\ e[i].duplicateOf = 0
  <2>1. e[i] = Loose(c, list[i], "message") /\ list[i] \in Bubble \cup Message /\ list[i] \in S
    BY <1>2, <1>4
  <2> QED BY <2>1 DEF Loose, CursorEvent
<1>6. DOMAIN e = 1..n
  BY <1>4
<1>7. e \in Seq(CursorEvent)
  <2>1. e = [i \in 1..n |-> e[i]]
    BY <1>4
  <2>2. e \in [1..n -> CursorEvent]
    BY <1>5, <2>1
  <2> QED BY <1>1, <2>2
<1>8. "message" \notin Part
  BY DEF Part
<1>. DEFINE N == 1..n
<1>9. DOMAIN e = N
  BY <1>6
<1>10. \A i \in N : /\ e[i].composer = c /\ e[i].from \in S /\ e[i].part \notin Part /\ e[i].from = list[i]
                    /\ ~e[i].tokens /\ e[i].duplicateOf = 0
  BY <1>5, <1>8
<1>. HIDE DEF N
<1>11. SoundUsage(e)
  BY <1>9, <1>10, OthersAreSound
<1>12. \A m \in bound[c] : \E i \in N : e[i].from = m
  BY <1>3, <1>10 DEF N
<1> QED BY <1>7, <1>9, <1>10, <1>11, <1>12 DEF e

\* What is read and collected is finite, and a bubble is known by composer and key.
Tidy ==
  /\ IsFiniteSet(rows) /\ IsFiniteSet(corpus) /\ IsFiniteSet(pending)
  /\ KeysTellApart(rows \cup pending)
  /\ rejected \subseteq Bubble \cup Message
\* Composers are read and yielded in the order of their numbers.
ComposersInOrder ==
  /\ \A b \in rows : current <= b.composer
  /\ phase # "done" => \A i \in DOMAIN yielded : yielded[i].composer < current
  /\ \A i, j \in DOMAIN yielded : i < j => yielded[i].composer <= yielded[j].composer
\* Before the bubbles are read nothing is collected; when all are, nothing is left.
Phases ==
  /\ phase \in {"open", "bind"} => pending = {} /\ current = 0 /\ yielded = <<>> /\ rejected = {}
                                 /\ bound = [c \in Composer |-> {}]
  /\ phase = "done" => rows = {} /\ current = 0
\* A message that left a trace.
Traced(m) == m \in rejected \/ \E i \in DOMAIN yielded : yielded[i].from = m
\* A message is traced, or waits for a composer that is yet to be yielded.
Waits(m) == \E c \in Composer : m \in bound[c] /\ (c = current \/ \E b \in rows : b.readable /\ b.composer = c)
\* The corpus was not read, and no message of it left a trace.
Unread == (\A c \in Composer : bound[c] = {}) /\ \A m \in corpus : ~Traced(m)
\* Every message with evidence of its own is traced or waits for its composer.
Placed == \A m \in corpus : m.unique => Traced(m) \/ Waits(m)
\* The inductive invariant of the decoding.
DecodingInv ==
  DecodingTypeOK /\ Tidy /\ ComposersInOrder /\ Phases /\ SoundUsage(yielded)
  /\ (phase \in {"read", "done"} => Unread \/ Placed)

\* It holds at first, and every step keeps it.
LEMMA DecodingStarts == DecodingInit => DecodingInv
<1>. SUFFICES ASSUME DecodingInit PROVE DecodingInv
  OBVIOUS
<1>. USE DEF DecodingInit
<1>1. <<>> \in Seq(CursorEvent) /\ DOMAIN <<>> = {}
  OBVIOUS
<1>2. DecodingTypeOK
  BY <1>1 DEF DecodingTypeOK, CursorEvent
<1>3. Tidy
  BY FS_EmptySet DEF Tidy, KeysTellApart
<1>4. ComposersInOrder /\ Phases
  BY <1>1 DEF ComposersInOrder, Phases
<1>5. SoundUsage(yielded)
  BY <1>1, OthersAreSound
<1> QED BY <1>2, <1>3, <1>4, <1>5 DEF DecodingInv

\* Opening a database keeps it.
LEMMA OpenKeeps == ASSUME DecodingInv, OpenDatabase PROVE DecodingInv'
<1>1. rows' \subseteq Bubble /\ IsFiniteSet(rows') /\ KeysTellApart(rows')
      /\ corpus' \subseteq Message /\ IsFiniteSet(corpus')
  BY DatabaseAssumption DEF OpenDatabase
<1>2. /\ pending = {} /\ current = 0 /\ yielded = <<>> /\ rejected = {} /\ phase' = "bind"
      /\ UNCHANGED <<bound, current, pending, yielded, rejected>>
  BY DEF OpenDatabase, DecodingInv, Phases
<1>3. policy' \subseteq Part \cup {"late"}
  BY DEF OpenDatabase, Part
<1>4. bound' \in [Composer -> SUBSET corpus']
  BY DEF OpenDatabase, DecodingInv, Phases
<1>5. DecodingTypeOK'
  BY <1>1, <1>2, <1>3, <1>4 DEF DecodingInv, DecodingTypeOK
<1>6. Tidy'
  <2>1. rows' \cup pending' = rows'
    BY <1>2
  <2> QED BY <1>1, <1>2, <2>1, FS_EmptySet DEF Tidy
<1>7. ComposersInOrder'
  <2>1. \A b \in rows' : 0 <= b.composer
    BY <1>1, BubbleFields
  <2> QED BY <1>2, <2>1 DEF ComposersInOrder
<1>8. Phases'
  BY <1>2 DEF Phases, OpenDatabase, DecodingInv
<1>9. SoundUsage(yielded)'
  BY <1>2 DEF DecodingInv
<1> QED BY <1>2, <1>5, <1>6, <1>7, <1>8, <1>9 DEF DecodingInv

\* Binding the messages keeps it: all of them wait, or none was read.
LEMMA BindKeeps == ASSUME DecodingInv, BindMessages PROVE DecodingInv'
<1>1. PICK place \in [corpus -> Composer \cup {0}] :
        /\ \A m \in corpus : IF Holders(m) = {} THEN place[m] = 0 ELSE place[m] \in Holders(m)
        /\ bound' = [c \in Composer |-> {m \in corpus : place[m] = c /\ m.unique}]
        /\ rejected' = IF \E b \in rows : b.readable /\ b.states # {}
                       THEN rejected \cup {m \in corpus : place[m] = 0} ELSE rejected
  BY DEF BindMessages
<1>2. /\ pending = {} /\ current = 0 /\ yielded = <<>> /\ rejected = {} /\ phase = "bind" /\ phase' = "read"
      /\ UNCHANGED <<rows, corpus, policy, current, pending, yielded>>
  BY DEF BindMessages, DecodingInv, Phases
<1>3. /\ rows \subseteq Bubble /\ corpus \subseteq Message /\ DecodingTypeOK /\ Tidy /\ ComposersInOrder /\ SoundUsage(yielded)
  BY DEF DecodingInv, DecodingTypeOK
<1>4. DecodingTypeOK'
  BY <1>1, <1>2, <1>3 DEF DecodingTypeOK
<1>5. Tidy'
  BY <1>1, <1>2, <1>3 DEF Tidy
<1>6. ComposersInOrder'
  BY <1>2, <1>3 DEF ComposersInOrder
<1>7. Phases'
  BY <1>2 DEF Phases
<1>8. SoundUsage(yielded)'
  BY <1>2, <1>3
<1>9. (Unread \/ Placed)'
  <2>1. CASE \E b \in rows : b.readable /\ b.states # {}
    <3>1. ASSUME NEW m \in corpus, m.unique PROVE (Traced(m) \/ Waits(m))'
      <4>1. CASE place[m] = 0
        BY <1>1, <2>1, <4>1 DEF Traced
      <4>2. CASE place[m] # 0
        <5>1. place[m] \in Holders(m) /\ place[m] \in Composer
          BY <1>1, <4>2
        <5>2. PICK b \in rows : b.readable /\ b.composer = place[m]
          BY <5>1 DEF Holders
        <5>3. m \in bound'[place[m]]
          BY <1>1, <3>1, <5>1
        <5> QED BY <1>2, <5>1, <5>2, <5>3 DEF Waits
      <4> QED BY <4>1, <4>2
    <3> QED BY <1>2, <3>1 DEF Placed
  <2>2. CASE ~\E b \in rows : b.readable /\ b.states # {}
    <3>1. ASSUME NEW m \in corpus PROVE Holders(m) = {} /\ place[m] = 0
      <4>1. Holders(m) = {}
        BY <2>2 DEF Holders
      <4> QED BY <1>1, <4>1
    <3>2. \A c \in Composer : bound'[c] = {}
      <4>1. 0 \notin Composer
        BY DatabaseAssumption
      <4> QED BY <1>1, <3>1, <4>1
    <3>3. \A m \in corpus' : ~Traced(m)'
      BY <1>1, <1>2, <2>2 DEF Traced
    <3> QED BY <3>2, <3>3 DEF Unread
  <2> QED BY <2>1, <2>2
<1> QED BY <1>4, <1>5, <1>6, <1>7, <1>8, <1>9 DEF DecodingInv

\* The places of a concatenation, as the invariant needs them.
LEMMA JoinedPlaces ==
  ASSUME NEW y \in Seq(CursorEvent), NEW z \in Seq(CursorEvent)
  PROVE  /\ y \o z \in Seq(CursorEvent) /\ DOMAIN (y \o z) \subseteq Nat
         /\ \A i \in DOMAIN y : i \in DOMAIN (y \o z) /\ (y \o z)[i] = y[i]
         /\ \A k \in DOMAIN z : \E i \in DOMAIN (y \o z) : (y \o z)[i] = z[k]
         /\ \A i \in DOMAIN (y \o z) : i \notin DOMAIN y =>
              (\E k \in DOMAIN z : (y \o z)[i] = z[k]) /\ \A j \in DOMAIN y : j < i
<1>. DEFINE s == y \o z
<1>1. /\ s \in Seq(CursorEvent) /\ Len(y) \in Nat /\ Len(z) \in Nat
      /\ DOMAIN y = 1..Len(y) /\ DOMAIN z = 1..Len(z) /\ DOMAIN s = 1..Len(y) + Len(z)
  BY Parted
<1>2. \A i \in DOMAIN y : i \in DOMAIN s /\ s[i] = y[i]
  BY Parted
<1>3. ASSUME NEW k \in DOMAIN z PROVE \E i \in DOMAIN s : s[i] = z[k]
  <2>1. Len(y) + k \in DOMAIN s /\ s[Len(y) + k] = z[k]
    BY Parted
  <2> QED BY <2>1
<1>4. ASSUME NEW i \in DOMAIN s, i \notin DOMAIN y
      PROVE  (\E k \in DOMAIN z : s[i] = z[k]) /\ \A j \in DOMAIN y : j < i
  <2>1. i - Len(y) \in DOMAIN z /\ s[i] = z[i - Len(y)]
    BY <1>4, Parted
  <2>2. \A j \in DOMAIN y : j < i
    BY <1>1, <1>4
  <2> QED BY <2>1, <2>2
<1> QED BY <1>1, <1>2, <1>3, <1>4

\* What was collected is yielded: the Events stay in the order of the
\* composers and sound, and the messages bound to the composer are among them.
LEMMA FlushYields ==
  ASSUME DecodingInv, Flush, phase = "read"
  PROVE  /\ yielded' \in Seq(CursorEvent) /\ SoundUsage(yielded')
         /\ \A i \in DOMAIN yielded' : yielded'[i].composer <= current
         /\ \A i, j \in DOMAIN yielded' : i < j => yielded'[i].composer <= yielded'[j].composer
         /\ \A i \in DOMAIN yielded : i \in DOMAIN yielded' /\ yielded'[i] = yielded[i]
         /\ \A c \in Composer : c = current =>
              \A m \in bound[c] : \E i \in DOMAIN yielded' : yielded'[i].from = m
         /\ \A i \in DOMAIN yielded' : i \in DOMAIN yielded \/ yielded'[i].from \in Bubble
                                       \/ \E c \in Composer : yielded'[i].from \in bound[c]
<1>. DEFINE X == ComposerEvents
            M == IF current = 0 THEN <<>> ELSE MessageEvents(current)
            Y == yielded \o X
            Z == Y \o M
<1>1. /\ yielded \in Seq(CursorEvent) /\ SoundUsage(yielded) /\ pending \subseteq Bubble
      /\ bound \in [Composer -> SUBSET corpus] /\ IsFiniteSet(corpus) /\ corpus \subseteq Message
      /\ current \in Composer \cup {0} /\ current \in Nat
  BY DatabaseAssumption DEF DecodingInv, DecodingTypeOK, CursorEvent, Tidy
<1>2. Collected(pending, current)
  BY FS_Subset DEF DecodingInv, DecodingTypeOK, Tidy, Collected, KeysTellApart
<1>3. /\ X \in Seq(CursorEvent) /\ SoundUsage(X)
      /\ \A i \in DOMAIN X : X[i].composer = current /\ X[i].from \in Bubble
  BY <1>2, ComposerIsSound
<1>4. /\ M \in Seq(CursorEvent) /\ SoundUsage(M)
      /\ \A i \in DOMAIN M : /\ M[i].composer = current /\ M[i].part \notin Part
                             /\ \E c \in Composer : M[i].from \in bound[c]
      /\ \A c \in Composer : c = current =>
           \A m \in bound[c] : \E i \in DOMAIN M : M[i].from = m
  <2>1. CASE current = 0
    <3>1. M = <<>> /\ 0 \notin Composer
      BY <2>1, DatabaseAssumption
    <3>2. <<>> \in Seq(CursorEvent) /\ DOMAIN <<>> = {}
      OBVIOUS
    <3>3. SoundUsage(<<>>)
      BY <3>2, OthersAreSound
    <3>. HIDE DEF M
    <3> QED BY <2>1, <3>1, <3>2, <3>3
  <2>2. CASE current # 0
    <3>1. current \in Composer /\ M = MessageEvents(current)
      BY <1>1, <2>2
    <3>2. bound[current] \subseteq corpus /\ bound[current] \subseteq Message
      BY <1>1, <3>1
    <3>3. IsFiniteSet(bound[current])
      BY <1>1, <3>2, FS_Subset
    <3>. HIDE DEF M
    <3> QED BY <3>1, <3>2, <3>3, MessagesAreYielded
  <2> QED BY <2>1, <2>2
<1>5. \A i \in DOMAIN yielded : yielded[i].composer < current
  BY DEF DecodingInv, ComposersInOrder
<1>6. yielded' = Z
  BY Zenon DEF Flush
<1>. HIDE DEF X, M
<1>7. Y \in Seq(CursorEvent) /\ SoundUsage(Y)
  <2>1. \A i \in DOMAIN yielded, j \in DOMAIN X : yielded[i].composer # X[j].composer
    BY <1>1, <1>3, <1>5
  <2> QED BY <1>1, <1>3, <2>1, SoundsJoin, Parted
<1>8. /\ \A i \in DOMAIN yielded : i \in DOMAIN Y /\ Y[i] = yielded[i]
      /\ \A i \in DOMAIN Y : i \notin DOMAIN yielded => \E k \in DOMAIN X : Y[i] = X[k]
      /\ \A i \in DOMAIN Y : i \notin DOMAIN yielded => \A j \in DOMAIN yielded : j < i
      /\ DOMAIN Y \subseteq Nat
  BY <1>1, <1>3, JoinedPlaces
<1>. HIDE DEF Y
<1>9. /\ \A i \in DOMAIN Y : i \in DOMAIN Z /\ Z[i] = Y[i]
      /\ \A k \in DOMAIN M : \E i \in DOMAIN Z : Z[i] = M[k]
      /\ \A i \in DOMAIN Z : i \notin DOMAIN Y => \E k \in DOMAIN M : Z[i] = M[k]
      /\ \A i \in DOMAIN Z : i \notin DOMAIN Y => \A j \in DOMAIN Y : j < i
      /\ DOMAIN Z \subseteq Nat
  BY <1>4, <1>7, JoinedPlaces
<1>10. Z \in Seq(CursorEvent) /\ SoundUsage(Z)
  BY <1>4, <1>7, SoundsJoin, Parted
<1>. HIDE DEF Z
<1>11. \A i \in DOMAIN Z :
         \/ i \in DOMAIN yielded /\ Z[i] = yielded[i]
         \/ /\ Z[i].composer = current /\ \A j \in DOMAIN yielded : j < i
            /\ Z[i].from \in Bubble \/ \E c \in Composer : Z[i].from \in bound[c]
  BY <1>3, <1>4, <1>8, <1>9
<1>12. \A i \in DOMAIN Z : i \in Nat /\ Z[i].composer \in Nat /\ Z[i].composer <= current
  <2>1. \A i \in DOMAIN Z : Z[i].composer \in Nat
    BY <1>10, CursorEventFields
  <2> QED BY <1>1, <1>5, <1>9, <1>11, <2>1
<1>13. ASSUME NEW i \in DOMAIN Z, NEW j \in DOMAIN Z, i < j PROVE Z[i].composer <= Z[j].composer
  <2>1. CASE j \in DOMAIN yielded /\ Z[j] = yielded[j]
    <3>1. i \in DOMAIN yielded /\ Z[i] = yielded[i]
      BY <1>11, <1>12, <1>13, <2>1
    <3> QED BY <1>13, <2>1, <3>1 DEF DecodingInv, ComposersInOrder
  <2>2. CASE Z[j].composer = current
    BY <1>12, <2>2
  <2> QED BY <1>11, <2>1, <2>2
<1> QED BY <1>4, <1>6, <1>8, <1>9, <1>10, <1>11, <1>12, <1>13

\* Messages yielded stay traced; those of other composers wait on.
LEMMA MessagesMove ==
  ASSUME DecodingInv, Flush, phase = "read", corpus' = corpus,
         rejected \subseteq rejected', rejected' \subseteq rejected \cup Bubble,
         \A c \in Composer : c # current /\ (\E b \in rows : b.readable /\ b.composer = c) =>
           c = current' \/ \E b \in rows' : b.readable /\ b.composer = c
  PROVE  (Unread \/ Placed)'
<1>1. /\ \A i \in DOMAIN yielded : i \in DOMAIN yielded' /\ yielded'[i] = yielded[i]
      /\ \A c \in Composer : c = current =>
           \A m \in bound[c] : \E i \in DOMAIN yielded' : yielded'[i].from = m
      /\ \A i \in DOMAIN yielded' :
           \/ i \in DOMAIN yielded \/ yielded'[i].from \in Bubble
           \/ \E c \in Composer : yielded'[i].from \in bound[c]
  BY FlushYields
<1>2. bound' = [c \in Composer |-> IF c = current THEN {} ELSE bound[c]]
  BY DEF Flush
<1>3. corpus \subseteq Message
  BY DEF DecodingInv, DecodingTypeOK
<1>4. CASE Unread
  <2>1. \A c \in Composer : bound'[c] = {}
    BY <1>2, <1>4 DEF Unread
  <2>2. ASSUME NEW m \in corpus PROVE ~Traced(m)'
    <3>1. m \notin Bubble /\ m \notin rejected /\ \A i \in DOMAIN yielded : yielded[i].from # m
      BY <1>3, <1>4, NoBubbleIsAMessage DEF Unread, Traced
    <3>2. m \notin rejected'
      BY <3>1
    <3>3. \A i \in DOMAIN yielded' : yielded'[i].from # m
      BY <1>1, <1>4, <3>1 DEF Unread
    <3> QED BY <3>2, <3>3 DEF Traced
  <2> QED BY <2>1, <2>2 DEF Unread
<1>5. CASE Placed
  <2>1. ASSUME NEW m \in corpus, m.unique PROVE (Traced(m) \/ Waits(m))'
    <3>1. CASE Traced(m)
      BY <1>1, <3>1 DEF Traced
    <3>2. CASE Waits(m)
      <4>1. PICK c \in Composer : m \in bound[c] /\ (c = current \/ \E b \in rows : b.readable /\ b.composer = c)
        BY <3>2 DEF Waits
      <4>2. CASE c = current
        BY <1>1, <4>1, <4>2 DEF Traced
      <4>3. CASE c # current
        <5>1. m \in bound'[c]
          BY <1>2, <4>1, <4>3
        <5>2. c = current' \/ \E b \in rows' : b.readable /\ b.composer = c
          BY <4>1, <4>3
        <5> QED BY <5>1, <5>2 DEF Waits
      <4> QED BY <4>2, <4>3
    <3> QED BY <1>5, <2>1, <3>1, <3>2 DEF Placed
  <2> QED BY <2>1 DEF Placed
<1> QED BY <1>4, <1>5 DEF DecodingInv

\* Reading a bubble keeps it, whether it is skipped, joins its composer or begins another.
LEMMA ReadKeeps ==
  ASSUME DecodingInv, NEW b \in rows, ReadBubble(b) PROVE DecodingInv'
<1>1. /\ phase = "read" /\ phase' = "read" /\ rows' = rows \ {b} /\ UNCHANGED <<corpus, policy>>
      /\ \A a \in rows : b.composer < a.composer \/ (b.composer = a.composer /\ b.key <= a.key)
  BY DEF ReadBubble, NextRow
<1>2. /\ rows \subseteq Bubble /\ b \in Bubble /\ b.composer \in Composer /\ b.composer \in Nat \ {0}
      /\ current <= b.composer /\ pending \subseteq Bubble
      /\ current \in Nat /\ current \in Composer \cup {0}
      /\ DecodingTypeOK /\ Tidy /\ ComposersInOrder /\ SoundUsage(yielded) /\ yielded \in Seq(CursorEvent)
  BY BubbleFields, DatabaseAssumption DEF DecodingInv, DecodingTypeOK, ComposersInOrder, CursorEvent
<1>3. \A a \in rows : a.composer \in Nat
  BY <1>2, BubbleFields
<1>4. \A a \in rows' : b.composer <= a.composer
  BY <1>1, <1>2, <1>3
<1>5. Phases'
  BY <1>1 DEF Phases
<1>6. CASE ~b.readable
  <2>1. UNCHANGED <<bound, current, pending, yielded, rejected>>
    BY <1>6 DEF ReadBubble
  <2>2. DecodingTypeOK'
    BY <1>1, <1>2, <2>1 DEF DecodingTypeOK
  <2>3. Tidy'
    <3>1. IsFiniteSet(rows')
      <4>1. rows' \subseteq rows /\ IsFiniteSet(rows)
        BY <1>1, <1>2 DEF Tidy
      <4> QED BY <4>1, FS_Subset
    <3>2. KeysTellApart(rows' \cup pending')
      BY <1>1, <1>2, <2>1 DEF Tidy, KeysTellApart
    <3> QED BY <1>1, <1>2, <2>1, <3>1, <3>2 DEF Tidy
  <2>4. ComposersInOrder'
    BY <1>1, <1>2, <2>1 DEF ComposersInOrder
  <2>5. Unread => Unread'
    BY <1>1, <2>1 DEF Unread, Traced
  <2>6. Placed => Placed'
    <3>1. \A m : Waits(m) => Waits(m)'
      BY <1>1, <1>6, <2>1 DEF Waits
    <3>2. \A m : Traced(m) => Traced(m)'
      BY <2>1 DEF Traced
    <3> QED BY <1>1, <3>1, <3>2 DEF Placed
  <2>7. SoundUsage(yielded)'
    BY <1>2, <2>1
  <2> QED BY <1>1, <1>5, <2>2, <2>3, <2>4, <2>5, <2>6, <2>7 DEF DecodingInv
<1>7. CASE b.readable /\ b.composer = current
  <2>1. pending' = pending \cup {b} /\ current' = current /\ UNCHANGED <<bound, yielded, rejected>>
    BY <1>7 DEF ReadBubble
  <2>2. DecodingTypeOK'
    BY <1>1, <1>2, <1>7, <2>1 DEF DecodingTypeOK
  <2>3. Tidy'
    <3>1. IsFiniteSet(rows') /\ IsFiniteSet(pending')
      <4>1. rows' \subseteq rows /\ IsFiniteSet(rows) /\ IsFiniteSet(pending)
        BY <1>1, <1>2 DEF Tidy
      <4> QED BY <2>1, <4>1, FS_Subset, FS_AddElement
    <3>2. rows' \cup pending' = rows \cup pending
      BY <1>1, <2>1
    <3> QED BY <1>1, <1>2, <2>1, <3>1, <3>2 DEF Tidy
  <2>4. ComposersInOrder'
    BY <1>1, <1>2, <2>1 DEF ComposersInOrder
  <2>5. Unread => Unread'
    BY <1>1, <2>1 DEF Unread, Traced
  <2>6. Placed => Placed'
    <3>1. \A m : Waits(m) => Waits(m)'
      BY <1>1, <1>7, <2>1 DEF Waits
    <3>2. \A m : Traced(m) => Traced(m)'
      BY <2>1 DEF Traced
    <3> QED BY <1>1, <3>1, <3>2 DEF Placed
  <2>7. SoundUsage(yielded)'
    BY <1>2, <2>1
  <2> QED BY <1>1, <1>5, <2>2, <2>3, <2>4, <2>5, <2>6, <2>7 DEF DecodingInv
<1>8. CASE b.readable /\ b.composer # current
  <2>1. /\ current' = b.composer /\ pending' = {b} /\ Flush /\ rejected' = rejected \cup Refusals
    BY <1>8 DEF ReadBubble
  <2>2. current < b.composer
    BY <1>2, <1>8
  <2>3. /\ yielded' \in Seq(CursorEvent) /\ SoundUsage(yielded')
        /\ \A i \in DOMAIN yielded' : yielded'[i].composer <= current
        /\ \A i, j \in DOMAIN yielded' : i < j => yielded'[i].composer <= yielded'[j].composer
    BY <1>1, <2>1, FlushYields
  <2>4. Refusals \subseteq Bubble
    BY <1>2 DEF Refusals, Canonical
  <2>5. bound' = [c \in Composer |-> IF c = current THEN {} ELSE bound[c]]
    BY <2>1 DEF Flush
  <2>6. DecodingTypeOK'
    BY <1>1, <1>2, <2>1, <2>3, <2>5 DEF DecodingTypeOK, CursorEvent
  <2>7. Tidy'
    <3>1. IsFiniteSet(rows') /\ IsFiniteSet(pending')
      <4>1. rows' \subseteq rows /\ IsFiniteSet(rows)
        BY <1>1, <1>2 DEF Tidy
      <4> QED BY <2>1, <4>1, FS_Subset, FS_Singleton
    <3>2. rows' \cup pending' \subseteq rows \cup pending
      BY <1>1, <2>1
    <3>3. KeysTellApart(rows' \cup pending')
      BY <1>2, <3>2 DEF Tidy, KeysTellApart
    <3> QED BY <1>1, <1>2, <2>1, <2>4, <3>1, <3>3 DEF Tidy
  <2>8. ComposersInOrder'
    <3>1. \A i \in DOMAIN yielded' : yielded'[i].composer \in Nat
      BY <2>3, CursorEventFields
    <3> QED BY <1>2, <1>4, <2>1, <2>2, <2>3, <3>1 DEF ComposersInOrder
  <2>9. (Unread \/ Placed)'
    <3>1. ASSUME NEW c \in Composer, NEW a \in rows, a.readable, a.composer = c
          PROVE  c = current' \/ \E x \in rows' : x.readable /\ x.composer = c
      BY <1>1, <2>1, <3>1
    <3> QED BY <1>1, <2>1, <2>4, <3>1, MessagesMove
  <2> QED BY <1>5, <2>3, <2>6, <2>7, <2>8, <2>9 DEF DecodingInv
<1> QED BY <1>6, <1>7, <1>8

\* The end of the rows keeps it.
LEMMA EndKeeps == ASSUME DecodingInv, EndRows PROVE DecodingInv'
<1>1. /\ phase = "read" /\ phase' = "done" /\ rows = {} /\ UNCHANGED <<rows, corpus, policy>>
      /\ Flush /\ rejected' = rejected \cup Refusals /\ pending' = {} /\ current' = 0
  BY DEF EndRows
<1>2. /\ pending \subseteq Bubble /\ DecodingTypeOK /\ Tidy
  BY DEF DecodingInv, DecodingTypeOK
<1>3. /\ yielded' \in Seq(CursorEvent) /\ SoundUsage(yielded')
      /\ \A i, j \in DOMAIN yielded' : i < j => yielded'[i].composer <= yielded'[j].composer
  BY <1>1, FlushYields
<1>4. Refusals \subseteq Bubble
  BY <1>2 DEF Refusals, Canonical
<1>5. bound' = [c \in Composer |-> IF c = current THEN {} ELSE bound[c]]
  BY <1>1 DEF Flush
<1>6. DecodingTypeOK'
  BY <1>1, <1>2, <1>3, <1>5 DEF DecodingTypeOK, CursorEvent
<1>7. Tidy'
  BY <1>1, <1>2, <1>4, FS_EmptySet DEF Tidy, KeysTellApart
<1>8. ComposersInOrder' /\ Phases'
  BY <1>1, <1>3 DEF ComposersInOrder, Phases
<1>9. (Unread \/ Placed)'
  BY <1>1, <1>4, MessagesMove
<1> QED BY <1>3, <1>6, <1>7, <1>8, <1>9 DEF DecodingInv

\* Every step keeps it.
LEMMA DecodingKeeps == DecodingInv /\ [DecodingNext]_cursorVars => DecodingInv'
<1>. SUFFICES ASSUME DecodingInv, [DecodingNext]_cursorVars PROVE DecodingInv'
  OBVIOUS
<1>1. CASE OpenDatabase
  BY <1>1, OpenKeeps
<1>2. CASE BindMessages
  BY <1>2, BindKeeps
<1>3. CASE EndRows
  BY <1>3, EndKeeps
<1>4. CASE \E b \in rows : ReadBubble(b)
  BY <1>4, ReadKeeps
<1>5. CASE UNCHANGED cursorVars
  BY <1>5 DEF cursorVars, DecodingInv, DecodingTypeOK, Tidy, ComposersInOrder, Phases, Unread, Placed, Traced, Waits
<1> QED BY <1>1, <1>2, <1>3, <1>4, <1>5 DEF DecodingNext

\* The invariant holds in every behaviour.
LEMMA DecodingInvariant == DecodingSpec => []DecodingInv
BY DecodingStarts, DecodingKeeps, PTL DEF DecodingSpec

\* The decoder of Cursor databases has typed state (adapters/cursor.py, process_db).
THEOREM DecodingIsTyped == DecodingSpec => []DecodingTypeOK
<1>1. DecodingInv => DecodingTypeOK
  BY DEF DecodingInv
<1> QED BY <1>1, DecodingInvariant, PTL

\* What the invariant says of the Events yielded.
LEMMA DecodingInvTells == DecodingInv => ComposersAreWhole
<1>. SUFFICES ASSUME DecodingInv PROVE ComposersAreWhole
  OBVIOUS
<1>1. yielded \in Seq(CursorEvent) /\ SoundUsage(yielded)
  BY DEF DecodingInv, DecodingTypeOK, CursorEvent
<1>2. ComposersStandTogether
  <2>. SUFFICES ASSUME NEW i \in DOMAIN yielded, NEW j \in DOMAIN yielded, NEW k \in i..j,
                       yielded[i].composer = yielded[j].composer
                PROVE  yielded[k].composer = yielded[i].composer
    BY DEF ComposersStandTogether
  <2>1. k \in DOMAIN yielded /\ i \in Nat /\ j \in Nat /\ k \in Nat /\ i <= k /\ k <= j
    BY <1>1
  <2>2. /\ yielded[i].composer \in Nat /\ yielded[j].composer \in Nat /\ yielded[k].composer \in Nat
    BY <1>1, <2>1, CursorEventFields
  <2>3. /\ i = k \/ yielded[i].composer <= yielded[k].composer
        /\ k = j \/ yielded[k].composer <= yielded[j].composer
    BY <2>1 DEF DecodingInv, ComposersInOrder
  <2> QED BY <2>2, <2>3
<1>3. TokensCountOnce
  <2>. SUFFICES ASSUME NEW i \in DOMAIN yielded, yielded[i].part \in Part
                PROVE  Cardinality({j \in DOMAIN yielded :
                         yielded[j].from = yielded[i].from /\ yielded[j].tokens}) = 1
    BY DEF TokensCountOnce
  <2>1. PICK j \in DOMAIN yielded :
          /\ yielded[j].from = yielded[i].from /\ yielded[j].tokens
          /\ \A k \in DOMAIN yielded : yielded[k].from = yielded[i].from /\ yielded[k].tokens => k = j
    BY <1>1 DEF SoundUsage, OneCarries
  <2>2. {k \in DOMAIN yielded : yielded[k].from = yielded[i].from /\ yielded[k].tokens} = {j}
    BY <2>1
  <2> QED BY <2>2, FS_Singleton
<1>4. RepeatsFollowTheOriginal
  BY <1>1 DEF SoundUsage, RepeatsIn, RepeatsFollowTheOriginal
<1>5. MessagesFindTheirComposer
  <2>. SUFFICES ASSUME phase = "done", NEW m \in corpus, Traced(m), NEW n \in corpus, n.unique
                PROVE  Traced(n)
    BY Zenon DEF MessagesFindTheirComposer, Traced
  <2>1. Unread \/ Placed
    BY DEF DecodingInv
  <2>2. Placed
    BY <2>1 DEF Unread
  <2>3. rows = {} /\ current = 0
    BY DEF DecodingInv, Phases
  <2>4. ~Waits(n)
    BY <2>3, DatabaseAssumption DEF Waits
  <2> QED BY <2>2, <2>4 DEF Placed
<1> QED BY <1>2, <1>3, <1>4, <1>5 DEF ComposersAreWhole, NothingCountsTwice

\* What belongs to a composer is yielded with it and counted once, for databases
\* of any size: its bubbles, their repetitions and the messages bound to it
\* (adapters/cursor.py, process_db).
THEOREM ComposersWhole == DecodingSpec => []ComposersAreWhole
BY DecodingInvariant, DecodingInvTells, PTL

---------------------------------------------------------------------------
(* Token observations. *)

\* The recursive function that adds up is there.
LEMMA SumIsThere ==
  ASSUME NEW n \in Nat, NEW s
  PROVE  \E g : g = [i \in 0..n |-> IF i = 0 THEN 0 ELSE g[i - 1] + s[i]]
<1>. DEFINE Adds(g, m) == g = [i \in 0..m |-> IF i = 0 THEN 0 ELSE g[i - 1] + s[i]]
            K == {m \in 1..n : \E g : Adds(g, m)}
            z == [i \in 0..0 |-> 0]
<1>1. Adds(z, 0)
  OBVIOUS
<1>2. ASSUME NEW m \in Nat, NEW g, Adds(g, m) PROVE \E h : Adds(h, m + 1)
  <2>. DEFINE h == [i \in 0..m + 1 |-> IF i = m + 1 THEN g[m] + s[m + 1] ELSE g[i]]
  <2>1. ASSUME NEW i \in 0..m + 1 PROVE h[i] = IF i = 0 THEN 0 ELSE h[i - 1] + s[i]
    <3>1. CASE i = m + 1
      <4>1. m \in 0..m + 1 /\ i # 0 /\ i - 1 = m /\ m # m + 1
        BY <3>1
      <4>2. h[m] = g[m]
        BY <4>1
      <4> QED BY <3>1, <4>1, <4>2
    <3>2. CASE i # m + 1
      <4>1. i \in 0..m /\ h[i] = g[i]
        BY <3>2
      <4>2. g[i] = IF i = 0 THEN 0 ELSE g[i - 1] + s[i]
        BY <1>2, <4>1
      <4>3. i # 0 => i - 1 \in 0..m + 1 /\ i - 1 # m + 1
        BY <4>1
      <4>4. i # 0 => h[i - 1] = g[i - 1]
        BY <4>3
      <4> QED BY <4>1, <4>2, <4>4
    <3> QED BY <3>1, <3>2
  <2>2. h = [i \in 0..m + 1 |-> IF i = 0 THEN 0 ELSE h[i - 1] + s[i]]
    <3>1. h = [i \in 0..m + 1 |-> h[i]]
      OBVIOUS
    <3>. HIDE DEF h
    <3>2. [i \in 0..m + 1 |-> h[i]] = [i \in 0..m + 1 |-> IF i = 0 THEN 0 ELSE h[i - 1] + s[i]]
      BY <2>1
    <3> QED BY <3>1, <3>2, Zenon
  <2>. HIDE DEF h
  <2> QED BY <2>2
<1>. HIDE DEF Adds, z
<1>3. 1 \in K \/ n = 0
  <2>1. 0 \in Nat /\ 0 + 1 = 1
    OBVIOUS
  <2>2. \E h : Adds(h, 1)
    BY <1>1, <1>2, <2>1
  <2> QED BY <2>2
<1>4. ASSUME NEW m \in 1..n - 1, m \in K PROVE m + 1 \in K
  <2>1. m \in Nat /\ m + 1 \in 1..n
    OBVIOUS
  <2> QED BY <1>2, <1>4, <2>1
<1>5. \A m \in 1..n : m \in K
  <2>. HIDE DEF K
  <2> QED BY <1>3, <1>4, UpTo
<1>6. \E g : Adds(g, n)
  BY <1>1, <1>5
<1> QED BY <1>6 DEF Adds

\* t adds up the list s.
Sums(s, t) ==
  /\ t \in [0..Len(s) -> Nat] /\ t[0] = 0
  /\ \A i \in 1..Len(s) : t[i] = t[i - 1] + s[i]

\* Total is the last of the sums of the beginnings of a list.
LEMMA TotalSums ==
  ASSUME NEW s \in Seq(Nat)
  PROVE  \E t : Sums(s, t) /\ Total(s) = t[Len(s)]
<1>. DEFINE n == Len(s)
            t == CHOOSE g : g = [i \in 0..n |-> IF i = 0 THEN 0 ELSE g[i - 1] + s[i]]
            K == {i \in 1..n : t[i] \in Nat}
<1>1. n \in Nat /\ \A i \in 1..n : s[i] \in Nat
  OBVIOUS
<1>. HIDE DEF n
<1>2. t = [i \in 0..n |-> IF i = 0 THEN 0 ELSE t[i - 1] + s[i]]
  BY <1>1, SumIsThere
<1>3. Total(s) = t[n]
  BY DEF Total, n
<1>. HIDE DEF t
<1>4. t[0] = 0 /\ \A i \in 1..n : t[i] = t[i - 1] + s[i]
  BY <1>1, <1>2
<1>5. 1 \in K \/ n = 0
  <2>1. ASSUME n # 0 PROVE 1 \in K
    <3>1. 1 \in 1..n /\ 1 - 1 = 0
      BY <1>1, <2>1
    <3>2. t[1] = t[0] + s[1]
      BY <1>4, <3>1
    <3> QED BY <1>1, <1>4, <3>1, <3>2
  <2> QED BY <2>1
<1>6. ASSUME NEW i \in 1..n - 1, i \in K PROVE i + 1 \in K
  <2>1. i + 1 \in 1..n /\ (i + 1) - 1 = i /\ t[i] \in Nat
    BY <1>1, <1>6
  <2>2. t[i + 1] = t[i] + s[i + 1]
    BY <1>4, <2>1
  <2> QED BY <1>1, <2>1, <2>2
<1>7. \A i \in 1..n : t[i] \in Nat
  <2>1. \A i \in 1..n : i \in K
    <3>. HIDE DEF K
    <3> QED BY <1>1, <1>5, <1>6, UpTo
  <2> QED BY <2>1
<1>8. t \in [0..n -> Nat]
  <2>1. \A i \in 0..n : i = 0 \/ i \in 1..n
    BY <1>1
  <2>2. \A i \in 0..n : t[i] \in Nat
    BY <1>4, <1>7, <2>1
  <2>3. t = [i \in 0..n |-> t[i]]
    BY <1>2, Zenon
  <2> QED BY <2>2, <2>3
<1>9. Sums(s, t) /\ Total(s) = t[Len(s)]
  BY <1>3, <1>4, <1>8 DEF Sums, n
<1> QED BY <1>9

\* Another element adds what it weighs.
Units(S, w) == UNION {{x} \X (1..w[x]) : x \in S}

\* One more element adds its weight.
LEMMA WeightOfOneMore ==
  ASSUME NEW S, NEW w, NEW y, y \notin S, w[y] \in Nat, IsFiniteSet(Units(S, w))
  PROVE  IsFiniteSet(Units(S \cup {y}, w)) /\ Weight(S, w) \in Nat /\ Weight(S \cup {y}, w) = Weight(S, w) + w[y]
<1>. DEFINE A == Units(S, w)
            B == {y} \X (1..w[y])
<1>1. Units(S \cup {y}, w) = A \cup B
  BY DEF Units
<1>2. IsFiniteSet({y}) /\ Cardinality({y}) = 1
  BY FS_Singleton
<1>3. IsFiniteSet(1..w[y]) /\ Cardinality(1..w[y]) = w[y]
  <2>. DEFINE k == w[y]
  <2>1. k \in Nat
    OBVIOUS
  <2>. HIDE DEF k
  <2>2. IsFiniteSet(1..k) /\ Cardinality(1..k) = IF 1 > k THEN 0 ELSE k - 1 + 1
    BY <2>1, FS_Interval
  <2>3. IsFiniteSet(1..k) /\ Cardinality(1..k) = k
    BY <2>1, <2>2
  <2> QED BY <2>3 DEF k
<1>4. IsFiniteSet(B) /\ Cardinality(B) = w[y]
  <2>. DEFINE I == 1..w[y]
  <2>. HIDE DEF I
  <2>1. IsFiniteSet({y} \X I) /\ Cardinality({y} \X I) = Cardinality({y}) * Cardinality(I)
    BY <1>2, <1>3, FS_Product DEF I
  <2> QED BY <1>2, <1>3, <2>1 DEF I
<1>5. A \cap B = {}
  BY DEF Units
<1>. HIDE DEF A, B
<1>6. IsFiniteSet(A) /\ Cardinality(A) \in Nat
  BY FS_CardinalityType DEF A
<1>7. IsFiniteSet(A \cup B) /\ Cardinality(A \cup B) = Cardinality(A) + Cardinality(B) - Cardinality(A \cap B)
  BY <1>4, <1>6, FS_Union
<1>8. Cardinality(A \cap B) = 0
  BY <1>5, FS_EmptySet
<1>9. Weight(S, w) = Cardinality(A) /\ Weight(S \cup {y}, w) = Cardinality(Units(S \cup {y}, w))
  BY DEF Weight, Units, A
<1>10. Cardinality(A \cup B) = Cardinality(A) + w[y]
  <2>. DEFINE a == Cardinality(A)
              b == Cardinality(B)
              c == Cardinality(A \cap B)
              d == Cardinality(A \cup B)
              k == w[y]
  <2>1. a \in Nat /\ b = k /\ c = 0 /\ d = a + b - c /\ k \in Nat
    BY <1>4, <1>6, <1>7, <1>8
  <2>. HIDE DEF a, b, c, d, k
  <2>2. d = a + k
    BY <2>1
  <2> QED BY <2>2 DEF a, d, k
<1>. DEFINE v == Weight(S, w)
            u == Weight(S \cup {y}, w)
            T == Units(S \cup {y}, w)
<1>11. IsFiniteSet(T) /\ u = Cardinality(A \cup B) /\ v = Cardinality(A)
  BY <1>1, <1>7, <1>9
<1>. HIDE DEF u, v, T
<1>12. IsFiniteSet(T) /\ v \in Nat /\ u = v + w[y]
  BY <1>6, <1>10, <1>11
<1> QED BY <1>12 DEF u, v, T

\* No elements weigh nothing.
LEMMA NothingWeighsNothing == ASSUME NEW w PROVE Units({}, w) = {} /\ IsFiniteSet(Units({}, w)) /\ Weight({}, w) = 0
<1>1. Units({}, w) = {}
  BY DEF Units
<1> QED BY <1>1, FS_EmptySet DEF Weight, Units

\* The counters up to the i-th that a fall follows, and those and the i-th.
Fallen(c, i) == {j \in 1..i - 1 : c[j + 1] < c[j]}
ReachedBy(c, i) == {j \in 1..i : j = i \/ c[j + 1] < c[j]}

\* What the counters rose to adds up to what they reached before each fall.
LEMMA RisesAddUp ==
  ASSUME NEW c \in Seq(Nat)
  PROVE  \E t : /\ t \in [0..Len(c) -> Nat] /\ t[0] = 0 /\ Derived(c) = t[Len(c)]
                /\ \A i \in 1..Len(c) : t[i - 1] <= t[i]
                /\ \A i \in 1..Len(c) : t[i] = Weight(ReachedBy(c, i), c)
<1>. DEFINE n == Len(c)
            before(i) == IF i = 1 THEN 0 ELSE c[i - 1]
            s == [i \in DOMAIN c |-> Delta(c[i], before(i))]
<1>1. n \in Nat /\ DOMAIN c = 1..n /\ \A i \in 1..n : c[i] \in Nat
  OBVIOUS
<1>2. \A i \in 1..n : before(i) \in Nat /\ Delta(c[i], before(i)) \in Nat
  <2>1. ASSUME NEW i \in 1..n PROVE before(i) \in Nat
    <3>1. CASE i = 1
      BY <3>1
    <3>2. CASE i # 1
      <4>1. i - 1 \in 1..n /\ i \in Nat
        BY <1>1, <3>2
      <4> QED BY <1>1, <3>2, <4>1
    <3> QED BY <3>1, <3>2
  <2>2. ASSUME NEW i \in 1..n PROVE Delta(c[i], before(i)) \in Nat
    <3>. HIDE DEF before
    <3> QED BY <1>1, <2>1 DEF Delta
  <2> QED BY <2>1, <2>2
<1>3. s \in [1..n -> Nat]
  <2>. HIDE DEF before
  <2> QED BY <1>1, <1>2
<1>4. s \in Seq(Nat) /\ Len(s) = n
  <2>. HIDE DEF s, n
  <2> QED BY <1>1, <1>3
<1>5. Derived(c) = Total(s)
  BY DEF Derived
<1>6. \A i \in 1..n : s[i] = Delta(c[i], before(i))
  BY <1>1
<1>. HIDE DEF s, n
<1>7. PICK t : Sums(s, t) /\ Total(s) = t[Len(s)]
  BY <1>4, TotalSums
<1>8. /\ t \in [0..n -> Nat] /\ t[0] = 0
      /\ \A i \in 1..n : t[i] = t[i - 1] + Delta(c[i], before(i))
  BY <1>4, <1>6, <1>7 DEF Sums
<1>. DEFINE K == {i \in 1..n : IsFiniteSet(Units(Fallen(c, i), c)) /\ Weight(Fallen(c, i), c) \in Nat
                              /\ t[i] = Weight(Fallen(c, i), c) + c[i]}
<1>9. 1 \in K \/ n = 0
  <2>1. ASSUME n # 0 PROVE 1 \in K
    <3>1. 1 \in 1..n /\ 1 - 1 = 0
      BY <1>1, <2>1
    <3>2. t[1] = t[0] + Delta(c[1], before(1)) /\ before(1) = 0 /\ c[1] \in Nat
      BY <1>1, <1>8, <3>1
    <3>3. Delta(c[1], 0) = c[1]
      BY <3>2 DEF Delta
    <3>4. t[1] = c[1]
      BY <1>8, <3>2, <3>3
    <3>5. Fallen(c, 1) = {}
      BY DEF Fallen
    <3>6. IsFiniteSet(Units(Fallen(c, 1), c)) /\ Weight(Fallen(c, 1), c) = 0
      BY <3>5, NothingWeighsNothing
    <3>7. t[1] = Weight(Fallen(c, 1), c) + c[1]
      BY <3>2, <3>4, <3>6
    <3> QED BY <3>1, <3>6, <3>7
  <2> QED BY <2>1
<1>10. ASSUME NEW i \in 1..n - 1, i \in K PROVE i + 1 \in K
  <2>1. i + 1 \in 1..n /\ i \in 1..n /\ (i + 1) - 1 = i /\ i + 1 # 1 /\ i \in Nat
    BY <1>1
  <2>. DEFINE L == Fallen(c, i)
              x == c[i]
              y == c[i + 1]
              v == Weight(L, c)
  <2>2. x \in Nat /\ y \in Nat
    BY <1>1, <2>1
  <2>3. IsFiniteSet(Units(L, c)) /\ v \in Nat /\ t[i] = v + x
    BY <1>10
  <2>4. before(i + 1) = x
    BY <2>1
  <2>5. t[i + 1] = t[i] + Delta(y, x)
    BY <1>8, <2>1, <2>4
  <2>6. i \notin L
    BY <2>1 DEF Fallen
  <2>7. CASE y < x
    <3>1. Fallen(c, i + 1) = L \cup {i}
      BY <2>1, <2>7 DEF Fallen
    <3>. HIDE DEF L
    <3>2. IsFiniteSet(Units(L \cup {i}, c)) /\ Weight(L \cup {i}, c) = v + x
      BY <2>2, <2>3, <2>6, WeightOfOneMore
    <3>. HIDE DEF v, x, y, before
    <3>3. Delta(y, x) = y
      BY <2>2, <2>7 DEF Delta
    <3>4. t[i + 1] = (v + x) + y /\ v + x \in Nat
      BY <2>2, <2>3, <2>5, <3>3
    <3>5. t[i + 1] = Weight(Fallen(c, i + 1), c) + y /\ Weight(Fallen(c, i + 1), c) \in Nat
      BY <3>1, <3>2, <3>4
    <3> QED BY <2>1, <3>1, <3>2, <3>5 DEF y
  <2>8. CASE ~(y < x)
    <3>1. Fallen(c, i + 1) = L
      BY <2>1, <2>8 DEF Fallen
    <3>. HIDE DEF L, v, x, y, before
    <3>2. Delta(y, x) = y - x
      BY <2>2, <2>8 DEF Delta
    <3>3. t[i + 1] = v + y
      BY <2>2, <2>3, <2>5, <2>8, <3>2
    <3> QED BY <2>1, <2>3, <3>1, <3>3 DEF v, y
  <2> QED BY <2>7, <2>8
<1>11. \A i \in 1..n : i \in K
  <2>. HIDE DEF K
  <2> QED BY <1>1, <1>9, <1>10, UpTo
<1>12. ASSUME NEW i \in 1..n PROVE t[i] = Weight(ReachedBy(c, i), c)
  <2>1. i \in K /\ c[i] \in Nat
    BY <1>1, <1>11
  <2>2. ReachedBy(c, i) = Fallen(c, i) \cup {i} /\ i \notin Fallen(c, i)
    BY <1>1 DEF ReachedBy, Fallen
  <2>. DEFINE L == Fallen(c, i)
  <2>3. i \notin L /\ IsFiniteSet(Units(L, c)) /\ t[i] = Weight(L, c) + c[i]
    BY <2>1, <2>2
  <2>. HIDE DEF L, K
  <2>4. Weight(L \cup {i}, c) = Weight(L, c) + c[i]
    <3>1. c[i] \in Nat
      BY <1>1
    <3> QED BY <2>3, <3>1, WeightOfOneMore, Zenon
  <2> QED BY <2>2, <2>3, <2>4 DEF L
<1>13. ASSUME NEW i \in 1..n PROVE t[i - 1] <= t[i]
  <2>1. t[i] = t[i - 1] + Delta(c[i], before(i)) /\ Delta(c[i], before(i)) \in Nat
    BY <1>2, <1>8
  <2>2. i - 1 \in 0..n
    BY <1>1
  <2>3. t[i - 1] \in Nat
    BY <1>8, <2>2
  <2>. HIDE DEF before
  <2> QED BY <2>1, <2>3
<1>14. Derived(c) = t[n]
  BY <1>4, <1>5, <1>7
<1> QED BY <1>8, <1>12, <1>13, <1>14 DEF n

\* What is derived of a rollout is what was used, and an addition takes nothing back.
LEMMA DerivedIsUsed ==
  ASSUME NEW c \in Seq(Nat)
  PROVE  /\ Derived(c) \in Nat /\ Derived(c) = CodexTotal(c)
         /\ \A d \in Seq(Nat) : Len(d) <= Len(c) /\ (\A i \in DOMAIN d : d[i] = c[i]) => CodexTotal(d) <= Derived(c)
<1>. DEFINE n == Len(c)
<1>1. PICK t : /\ t \in [0..n -> Nat] /\ t[0] = 0 /\ Derived(c) = t[n]
               /\ \A i \in 1..n : t[i - 1] <= t[i]
               /\ \A i \in 1..n : t[i] = Weight(ReachedBy(c, i), c)
  BY RisesAddUp
<1>2. n \in Nat /\ DOMAIN c = 1..n
  OBVIOUS
<1>3. Derived(c) \in Nat
  BY <1>1, <1>2
<1>4. ASSUME NEW d \in Seq(Nat), Len(d) <= Len(c), \A i \in DOMAIN d : d[i] = c[i]
      PROVE  CodexTotal(d) = t[Len(d)]
  <2>. DEFINE m == Len(d)
              S == {i \in DOMAIN d : i = m \/ d[i + 1] < d[i]}
  <2>1. m \in Nat /\ DOMAIN d = 1..m /\ m <= n
    BY <1>4
  <2>2. CodexTotal(d) = Weight(S, d)
    BY DEF CodexTotal
  <2>3. S = ReachedBy(c, m)
    <3>1. ASSUME NEW i \in 1..m PROVE (i = m \/ d[i + 1] < d[i]) <=> (i = m \/ c[i + 1] < c[i])
      <4>1. i # m => i + 1 \in 1..m
        <5>. HIDE DEF m, S, n
        <5> QED BY <2>1
      <4>2. \A j \in 1..m : d[j] = c[j]
        BY <1>4, <2>1
      <4>. HIDE DEF m, S, n
      <4> QED BY <4>1, <4>2
    <3> QED BY <2>1, <3>1 DEF ReachedBy
  <2>4. \A i \in S : d[i] = c[i]
    BY <1>4
  <2>5. Weight(S, d) = Weight(S, c)
    <3>. HIDE DEF S
    <3>1. {{x} \X (1..d[x]) : x \in S} = {{x} \X (1..c[x]) : x \in S}
      BY <2>4
    <3> QED BY <3>1 DEF Weight
  <2>6. CASE m = 0
    <3>1. S = {}
      BY <2>1, <2>6
    <3>2. Weight(S, d) = 0
      BY <3>1, NothingWeighsNothing
    <3> QED BY <1>1, <2>2, <2>6, <3>2
  <2>7. CASE m # 0
    <3>1. m \in 1..n
      BY <1>2, <2>1, <2>7
    <3> QED BY <1>1, <2>2, <2>3, <2>5, <3>1
  <2> QED BY <2>6, <2>7
<1>5. Derived(c) = CodexTotal(c)
  BY <1>1, <1>2, <1>4
<1>6. ASSUME NEW k \in 0..n PROVE t[k] <= t[n]
  <2>. DEFINE K == {i \in 1..n : i >= k => t[k] <= t[i]}
  <2>0. \A i \in 0..n : t[i] \in Nat
    BY <1>1
  <2>1. 1 \in K \/ n = 0
    <3>1. ASSUME n # 0 PROVE 1 \in K
      <4>1. 1 \in 1..n /\ 1 - 1 = 0 /\ 1 \in 0..n
        BY <1>2, <3>1
      <4>2. t[0] <= t[1]
        BY <1>1, <4>1
      <4>3. 1 >= k => k = 0 \/ k = 1
        OBVIOUS
      <4> QED BY <2>0, <4>1, <4>2, <4>3
    <3> QED BY <3>1
  <2>2. ASSUME NEW i \in 1..n - 1, i \in K PROVE i + 1 \in K
    <3>1. i + 1 \in 1..n /\ i \in 0..n /\ i + 1 \in 0..n /\ (i + 1) - 1 = i
      BY <1>2
    <3>2. t[i] <= t[i + 1]
      BY <1>1, <3>1
    <3>3. i + 1 >= k => i >= k \/ i + 1 = k
      BY <3>1
    <3>4. i >= k => t[k] <= t[i]
      BY <2>2
    <3>5. i + 1 >= k => t[k] <= t[i + 1]
      BY <2>0, <3>1, <3>2, <3>3, <3>4
    <3> QED BY <3>1, <3>5
  <2>3. \A i \in 1..n : i \in K
    <3>. HIDE DEF K, n
    <3> QED BY <1>2, <2>1, <2>2, UpTo
  <2>4. n \in 1..n \/ (n = 0 /\ k = 0)
    BY <1>2
  <2> QED BY <1>2, <2>0, <2>3, <2>4
<1>7. ASSUME NEW d \in Seq(Nat), Len(d) <= Len(c), \A i \in DOMAIN d : d[i] = c[i]
      PROVE  CodexTotal(d) <= Derived(c)
  <2>1. Len(d) \in 0..n
    BY <1>2, <1>7
  <2> QED BY <1>1, <1>4, <1>6, <1>7, <2>1
<1> QED BY <1>3, <1>5, <1>7

\* Those of S0 and the lines of C up to the k-th of the file f.
Grown(S0, f, C, k) == S0 \cup {<<f, j>> : j \in {i \in C : i <= k}}

\* s states, for the lines of C and no other, what they weigh; S0 has none of them.
StatesLines(n, C, w, f, S0, s) ==
  /\ C \subseteq 1..n /\ s \in [1..n -> Nat]
  /\ \A i \in C : w[<<f, i>>] \in Nat /\ s[i] = w[<<f, i>>] /\ <<f, i>> \notin S0
  /\ \A i \in (1..n) \ C : s[i] = 0

\* What the lines add up to is what they weigh.
LEMMA LinesAddUp ==
  ASSUME NEW n \in Nat, NEW C, NEW w, NEW f, NEW S0, NEW s, StatesLines(n, C, w, f, S0, s),
         IsFiniteSet(Units(S0, w)), Weight(S0, w) \in Nat
  PROVE  /\ IsFiniteSet(Units(Grown(S0, f, C, n), w))
         /\ Total(s) \in Nat /\ Weight(Grown(S0, f, C, n), w) = Weight(S0, w) + Total(s)
<1>. DEFINE W == Weight(S0, w)
<1>1. s \in Seq(Nat) /\ Len(s) = n /\ s \in [1..n -> Nat] /\ C \subseteq 1..n
  BY DEF StatesLines
<1>2. PICK t : Sums(s, t) /\ Total(s) = t[Len(s)]
  BY <1>1, TotalSums
<1>3. /\ t \in [0..n -> Nat] /\ t[0] = 0 /\ Total(s) = t[n]
      /\ \A i \in 1..n : t[i] = t[i - 1] + s[i]
  BY <1>1, <1>2 DEF Sums
<1>. DEFINE G(k) == Grown(S0, f, C, k)
            Holds(k) == IsFiniteSet(Units(G(k), w)) /\ Weight(G(k), w) = W + t[k]
            K == {k \in 1..n : Holds(k)}
<1>4. Holds(0)
  <2>1. G(0) = S0
    BY <1>1 DEF Grown
  <2> QED BY <1>3, <2>1
<1>5. ASSUME NEW k \in 0..n - 1, Holds(k) PROVE Holds(k + 1)
  <2>1. k + 1 \in 1..n /\ (k + 1) - 1 = k /\ k \in 0..n /\ k \in Nat
    OBVIOUS
  <2>2. t[k + 1] = t[k] + s[k + 1] /\ t[k] \in Nat /\ s[k + 1] \in Nat
    BY <1>1, <1>3, <2>1
  <2>3. CASE k + 1 \in C
    <3>1. C \subseteq Nat /\ <<f, k + 1>> \notin S0 /\ w[<<f, k + 1>>] \in Nat /\ s[k + 1] = w[<<f, k + 1>>]
      BY <2>3 DEF StatesLines
    <3>2. /\ IsFiniteSet(Units(G(k + 1), w))
          /\ Weight(G(k + 1), w) = Weight(G(k), w) + w[<<f, k + 1>>]
      <4>. DEFINE y == <<f, k + 1>>
                  T == G(k)
                  U == G(k + 1)
      <4>1. U = T \cup {y}
        <5>1. \A i \in C : i \in Nat
          BY <3>1
        <5>2. \A i \in C : i <= k + 1 <=> i <= k \/ i = k + 1
          BY <2>1, <5>1
        <5>3. {i \in C : i <= k + 1} = {i \in C : i <= k} \cup {k + 1}
          BY <2>3, <5>2, Zenon
        <5> QED BY <5>3 DEF Grown
      <4>2. y \notin T
        <5>1. \A j \in {i \in C : i <= k} : j # k + 1
          BY <2>1, <3>1
        <5> QED BY <3>1, <5>1 DEF Grown
      <4>3. w[y] \in Nat /\ IsFiniteSet(Units(T, w))
        BY <1>5, <3>1
      <4>. HIDE DEF y, T, U
      <4>4. IsFiniteSet(Units(T \cup {y}, w)) /\ Weight(T \cup {y}, w) = Weight(T, w) + w[y]
        BY <4>2, <4>3, WeightOfOneMore
      <4>5. IsFiniteSet(Units(U, w)) /\ Weight(U, w) = Weight(T, w) + w[y]
        BY <4>1, <4>4
      <4> QED BY <4>5 DEF y, T, U
    <3>3. Weight(G(k), w) = W + t[k] /\ W \in Nat
      BY <1>5
    <3>. DEFINE v == w[<<f, k + 1>>]
    <3>. HIDE DEF G, W, v
    <3>4. Weight(G(k + 1), w) = W + t[k + 1]
      BY <2>2, <3>1, <3>2, <3>3 DEF v
    <3> QED BY <3>2, <3>4
  <2>4. CASE k + 1 \notin C
    <3>1. {i \in C : i <= k + 1} = {i \in C : i <= k}
      <4>1. \A i \in C : i \in Nat /\ i # k + 1
        BY <1>1, <2>4
      <4>2. \A i \in C : i <= k + 1 <=> i <= k
        BY <2>1, <4>1
      <4> QED BY <4>2
    <3>2. G(k + 1) = G(k)
      BY <3>1 DEF Grown
    <3>3. s[k + 1] = 0
      BY <2>1, <2>4 DEF StatesLines
    <3>4. t[k + 1] = t[k]
      BY <2>2, <3>3
    <3> QED BY <1>5, <3>2, <3>4
  <2> QED BY <2>3, <2>4
<1>. HIDE DEF Holds
<1>6. 1 \in K \/ n = 0
  <2>1. ASSUME n # 0 PROVE 1 \in K
    <3>1. 0 \in 0..n - 1 /\ 1 \in 1..n /\ 0 + 1 = 1
      BY <2>1
    <3>2. Holds(0 + 1)
      BY <1>4, <1>5, <3>1
    <3> QED BY <3>1, <3>2
  <2> QED BY <2>1
<1>7. ASSUME NEW k \in 1..n - 1, k \in K PROVE k + 1 \in K
  <2>1. k \in 0..n - 1 /\ k + 1 \in 1..n
    OBVIOUS
  <2> QED BY <1>5, <1>7, <2>1
<1>8. \A k \in 1..n : k \in K
  <2>. HIDE DEF K
  <2> QED BY <1>6, <1>7, UpTo
<1>9. Holds(n)
  <2>1. n = 0 \/ n \in 1..n
    OBVIOUS
  <2> QED BY <1>4, <1>8, <2>1
<1>10. n \in 0..n
  OBVIOUS
<1> QED BY <1>3, <1>9, <1>10 DEF Holds

TokensOf == [claude : Nat, codex : Nat]
WeightsOf(ts) == [x \in StatedIn(ts) |-> ts[x[1]][x[2]][2]]
FirstsOf(ts, left) == {x \in StatedIn(ts) : FirstStated(ts, x) /\ x[1] \notin left}
MarksOf(ts, cs) == [f \in Transcript \cup {0} |-> IF f = 0 THEN Len(cs) ELSE Len(ts[f])]
Totals == [claude |-> ClaudeTotal(transcripts), codex |-> CodexTotal(counters)]

\* What is assumed of files and tokens.
LEMMA TokenFacts ==
  /\ Transcript \subseteq Nat /\ 0 \notin Transcript /\ IsFiniteSet(Transcript)
  /\ MaxTokens \in Nat /\ MaxAppends \in Nat
BY TokenAssumption DEF TokenAssumption

\* The files read are the first in the order of their paths.
InPathOrder == \A f \in Transcript \ unreadFiles, g \in unreadFiles : g = 0 \/ f < g

\* A record of the next file counts as it does in all files.
LEMMA FileAdds ==
  ASSUME TokenTypeOK, NEW f \in Transcript, NextFile(f), InPathOrder,
         seen = {IdentityOf(transcripts, x) : x \in {y \in StatedIn(transcripts) : y[1] \notin unreadFiles}},
         IsFiniteSet(Units(FirstsOf(transcripts, unreadFiles), WeightsOf(transcripts))),
         tokens.claude = Weight(FirstsOf(transcripts, unreadFiles), WeightsOf(transcripts))
  PROVE  LET left == unreadFiles \ {f}
             state == CountFile(f, [seen |-> seen, sum |-> tokens.claude])
         IN /\ state.seen = {IdentityOf(transcripts, x) : x \in {y \in StatedIn(transcripts) : y[1] \notin left}}
            /\ IsFiniteSet(Units(FirstsOf(transcripts, left), WeightsOf(transcripts)))
            /\ state.sum = Weight(FirstsOf(transcripts, left), WeightsOf(transcripts))
            /\ \A g \in Transcript \ left, h \in left : h = 0 \/ g < h
<1>. DEFINE ts == transcripts
            lines == DOMAIN ts[f]
            n == Len(ts[f])
            id(i) == Identity(f, i, ts[f][i][1])
            C == {i \in lines : id(i) \notin seen /\ \A j \in 1..i - 1 : id(j) # id(i)}
            s == [i \in lines |-> IF i \in C THEN ts[f][i][2] ELSE 0]
            S0 == FirstsOf(ts, unreadFiles)
            w == WeightsOf(ts)
            left == unreadFiles \ {f}
            St == StatedIn(ts)
            state == CountFile(f, [seen |-> seen, sum |-> tokens.claude])
<1>1. /\ f \in Nat /\ f # 0 /\ f \in unreadFiles
      /\ \A g \in unreadFiles : g = f \/ g = 0 \/ g > f
  BY TokenFacts DEF NextFile
<1>2. ts[f] \in Seq(MessageId \X (0..MaxTokens)) /\ lines = 1..n /\ n \in Nat
  BY DEF TokenTypeOK
<1>3. \A x : x \in St <=> \E g \in Transcript : \E i \in DOMAIN ts[g] : x = <<g, i>>
  BY DEF StatedIn
<1>4. \A i \in lines : <<f, i>> \in St /\ IdentityOf(ts, <<f, i>>) = id(i) /\ w[<<f, i>>] = ts[f][i][2]
  BY <1>3 DEF IdentityOf, WeightsOf
<1>5. \A i \in lines : ts[f][i][2] \in Nat
  <2>1. \A i \in lines : ts[f][i] \in MessageId \X (0..MaxTokens)
    BY <1>2
  <2> QED BY <2>1, TokenFacts
<1>6. /\ state.seen = seen \cup {id(i) : i \in lines}
      /\ state.sum = tokens.claude + Total(s)
  BY DEF CountFile
<1>7. \A y \in St : \/ y[1] \notin unreadFiles /\ y[1] \in Nat /\ y[1] < f
                    \/ y[1] = f /\ y[2] \in lines /\ y = <<f, y[2]>>
                    \/ y[1] \in left /\ y[1] \in Nat /\ f < y[1]
  <2>1. ASSUME NEW y \in St PROVE \/ y[1] \notin unreadFiles /\ y[1] \in Nat /\ y[1] < f
                                  \/ y[1] = f /\ y[2] \in lines /\ y = <<f, y[2]>>
                                  \/ y[1] \in left /\ y[1] \in Nat /\ f < y[1]
    <3>1. PICK g \in Transcript : \E i \in DOMAIN ts[g] : y = <<g, i>>
      BY <1>3
    <3>2. g \in Nat /\ g # 0
      BY TokenFacts
    <3>3. CASE g = f
      BY <3>1, <3>3
    <3>4. CASE g # f /\ g \in unreadFiles
      BY <1>1, <3>1, <3>2, <3>4
    <3>5. CASE g \notin unreadFiles
      BY <1>1, <3>1, <3>2, <3>5 DEF InPathOrder
    <3> QED BY <3>3, <3>4, <3>5
  <2> QED BY <2>1
<1>8. ASSUME NEW i \in lines PROVE i \in C <=> FirstStated(ts, <<f, i>>)
  <2>0. i \in Nat /\ \A j \in lines : j \in Nat
    BY <1>2
  <2>1. ASSUME i \in C, NEW y \in St, IdentityOf(ts, y) = IdentityOf(ts, <<f, i>>)
        PROVE  f < y[1] \/ (f = y[1] /\ i <= y[2])
    <3>1. CASE y[1] \notin unreadFiles
      <4>1. IdentityOf(ts, y) \in seen
        BY <3>1
      <4> QED BY <1>4, <2>1, <4>1
    <3>2. CASE y[1] = f
      <4>1. y[2] \in lines /\ y = <<f, y[2]>>
        BY <1>1, <1>7, <3>2
      <4>2. id(y[2]) = id(i)
        BY <1>4, <2>1, <4>1
      <4>3. y[2] \notin 1..i - 1
        BY <2>1, <4>2
      <4>. DEFINE k == y[2]
      <4>4. k \in 1..n /\ k \notin 1..i - 1
        BY <1>2, <4>1, <4>3
      <4>. HIDE DEF k
      <4>5. i <= k
        BY <1>2, <2>0, <4>4
      <4> QED BY <3>2, <4>5 DEF k
    <3>3. CASE y[1] \in left
      BY <1>1, <1>7, <3>3
    <3> QED BY <1>7, <3>1, <3>2, <3>3
  <2>2. ASSUME FirstStated(ts, <<f, i>>) PROVE i \in C
    <3>1. \A y \in St : IdentityOf(ts, y) = id(i) => f < y[1] \/ (f = y[1] /\ i <= y[2])
      BY <1>4, <2>2 DEF FirstStated
    <3>2. id(i) \notin seen
      <4>1. ASSUME id(i) \in seen PROVE FALSE
        <5>1. PICK y \in St : y[1] \notin unreadFiles /\ IdentityOf(ts, y) = id(i)
          BY <4>1
        <5>2. y[1] \in Nat /\ y[1] < f
          BY <1>1, <1>7, <5>1
        <5> QED BY <1>1, <3>1, <5>1, <5>2
      <4> QED BY <4>1
    <3>3. ASSUME NEW j \in 1..i - 1, id(j) = id(i) PROVE FALSE
      <4>1. j \in lines /\ j < i /\ j \in Nat
        BY <1>2, <2>0
      <4>2. f < f \/ i <= j
        BY <1>4, <3>1, <3>3, <4>1
      <4> QED BY <1>1, <2>0, <4>1, <4>2
    <3> QED BY <3>2, <3>3
  <2> QED BY <2>1, <2>2 DEF FirstStated
<1>9. FirstsOf(ts, left) = Grown(S0, f, C, n)
  <2>1. {i \in C : i <= n} = C
    BY <1>2
  <2>2. ASSUME NEW x \in FirstsOf(ts, left) PROVE x \in S0 \/ \E i \in C : x = <<f, i>>
    <3>1. x \in St /\ FirstStated(ts, x) /\ x[1] \notin left
      BY DEF FirstsOf
    <3>2. CASE x[1] \notin unreadFiles
      BY <3>1, <3>2 DEF FirstsOf
    <3>3. CASE x[1] = f
      <4>1. x[2] \in lines /\ x = <<f, x[2]>>
        BY <1>1, <1>7, <3>1, <3>3
      <4> QED BY <1>8, <3>1, <4>1
    <3> QED BY <1>7, <3>1, <3>2, <3>3
  <2>3. ASSUME NEW x \in S0 PROVE x \in FirstsOf(ts, left)
    BY DEF FirstsOf
  <2>4. ASSUME NEW i \in C PROVE <<f, i>> \in FirstsOf(ts, left)
    BY <1>4, <1>8 DEF FirstsOf
  <2>5. \A x : x \in Grown(S0, f, C, n) <=> x \in S0 \/ \E i \in C : x = <<f, i>>
    BY <2>1 DEF Grown
  <2>. HIDE DEF S0, C
  <2> QED BY <2>2, <2>3, <2>4, <2>5
<1>10. \A i \in C : w[<<f, i>>] \in Nat /\ s[i] = w[<<f, i>>] /\ <<f, i>> \notin S0
  BY <1>1, <1>4, <1>5 DEF FirstsOf
<1>11. C \in SUBSET (1..n) /\ (\A i \in (1..n) \ C : s[i] = 0) /\ s \in [1..n -> Nat]
  <2>1. C \subseteq lines
    OBVIOUS
  <2>2. s \in [lines -> Nat]
    <3>. HIDE DEF C, lines
    <3> QED BY <1>5
  <2> QED BY <1>2, <2>1, <2>2
<1>. DEFINE W == Weight(S0, w)
<1>12. W \in Nat
  <2>1. W = Cardinality(Units(S0, w))
    BY DEF Weight, Units
  <2> QED BY <2>1, FS_CardinalityType
<1>. HIDE DEF C, s, S0, w, n, state, W
<1>13. /\ IsFiniteSet(Units(Grown(S0, f, C, n), w))
       /\ Weight(Grown(S0, f, C, n), w) = Weight(S0, w) + Total(s)
  <2>1. IsFiniteSet(Units(S0, w)) /\ Weight(S0, w) \in Nat
    BY <1>12 DEF W, S0, w
  <2>2. n \in Nat
    BY <1>2 DEF n
  <2>3. StatesLines(n, C, w, f, S0, s)
    BY <1>10, <1>11 DEF StatesLines
  <2> QED BY <2>1, <2>2, <2>3, LinesAddUp
<1>14. state.sum = Weight(FirstsOf(ts, left), w)
  BY <1>6, <1>9, <1>13 DEF S0, w
<1>15. state.seen = {IdentityOf(ts, x) : x \in {y \in St : y[1] \notin left}}
  <2>. DEFINE A == {y \in St : y[1] \notin unreadFiles}
              B == {y \in St : y[1] \notin left}
              L == {<<f, i>> : i \in lines}
  <2>1. B = A \cup L
    <3>1. \A y \in St : y \in B <=> y \in A \/ y \in L
      <4>1. ASSUME NEW y \in St PROVE y \in B <=> y \in A \/ y \in L
        <5>1. CASE y[1] \notin unreadFiles
          BY <5>1
        <5>2. CASE y[1] = f /\ y[2] \in lines /\ y = <<f, y[2]>>
          BY <5>2
        <5>3. CASE y[1] \in left /\ f < y[1]
          BY <1>1, <5>3
        <5> QED BY <1>7, <5>1, <5>2, <5>3
      <4> QED BY <4>1
    <3>2. L \subseteq St
      BY <1>4
    <3>. HIDE DEF L, St
    <3> QED BY <3>1, <3>2
  <2>2. {IdentityOf(ts, x) : x \in L} = {id(i) : i \in lines}
    <3>. DEFINE P == {IdentityOf(ts, x) : x \in L}
                Q == {id(i) : i \in lines}
    <3>1. \A q : q \in Q <=> \E i \in lines : q = id(i)
      OBVIOUS
    <3>2. \A q : q \in P <=> \E i \in lines : q = IdentityOf(ts, <<f, i>>)
      OBVIOUS
    <3>. HIDE DEF P, Q, id, lines
    <3>3. P = Q
      BY <1>4, <3>1, <3>2
    <3> QED BY <3>3 DEF P, Q
  <2>3. seen = {IdentityOf(ts, x) : x \in A}
    OBVIOUS
  <2>. HIDE DEF A, B, L
  <2>4. {IdentityOf(ts, x) : x \in B} = {IdentityOf(ts, x) : x \in A} \cup {IdentityOf(ts, x) : x \in L}
    BY <2>1
  <2> QED BY <1>6, <2>2, <2>3, <2>4 DEF B
<1>16. \A g \in Transcript \ left, h \in left : h = 0 \/ g < h
  BY <1>1 DEF InPathOrder
<1> QED BY <1>9, <1>13, <1>14, <1>15, <1>16 DEF state, w

\* Marks as sizes were when taken: none has shrunk since.
MarkedBefore(m) ==
  /\ m \in [Transcript \cup {0} -> Nat]
  /\ \A f \in Transcript \cup {0} : m[f] <= Marks[f]

\* The result kept is that of the files as long as none has grown.
KeptIsTrue ==
  tokenCache.held =>
    /\ MarkedBefore(tokenCache.marks) /\ tokenCache.tokens \in TokensOf
    /\ tokenCache.marks = Marks => tokenCache.tokens = Totals

\* The files have only grown since the marks were taken.
GrownSince ==
  /\ MarkedBefore(MarksOf(atStart[1], atStart[2]))
  /\ atStart[2] \in Seq(0..MaxTokens) /\ Len(atStart[2]) <= Len(counters)
  /\ \A i \in DOMAIN atStart[2] : atStart[2][i] = counters[i]

\* What is counted is what the files read state.
CountedSoFar ==
  /\ seen = {IdentityOf(transcripts, x) : x \in {y \in StatedIn(transcripts) : y[1] \notin unreadFiles}}
  /\ IsFiniteSet(Units(FirstsOf(transcripts, unreadFiles), WeightsOf(transcripts)))
  /\ tokens.claude = Weight(FirstsOf(transcripts, unreadFiles), WeightsOf(transcripts))
  /\ 0 \notin unreadFiles => tokens.codex = CodexTotal(counters)

\* While files are read the marks are those of the start.
ReadingCounts ==
  collecting = "reading" =>
    /\ marks = MarksOf(atStart[1], atStart[2]) /\ InPathOrder
    /\ 0 \in unreadFiles \/ (unreadFiles = {} /\ CodexTotal(atStart[2]) <= tokens.codex)
    /\ marks = Marks => CountedSoFar

\* The inductive invariant of the token counts.
TokenInv ==
  /\ TokenTypeOK /\ tokens \in TokensOf
  /\ KeptIsTrue /\ GrownSince /\ ReadingCounts /\ TokensFollowTheFiles

\* The marks are the sizes of the files.
LEMMA MarksAreSizes ==
  ASSUME TokenTypeOK
  PROVE  Marks = MarksOf(transcripts, counters) /\ Marks \in [Transcript \cup {0} -> Nat]
<1>1. Marks = MarksOf(transcripts, counters)
  BY DEF Marks, MarksOf
<1>2. Len(counters) \in Nat /\ \A f \in Transcript : Len(transcripts[f]) \in Nat
  BY DEF TokenTypeOK
<1> QED BY <1>1, <1>2 DEF MarksOf

\* What a file adds is a number.
LEMMA CountIsANumber ==
  ASSUME TokenTypeOK, NEW f \in Transcript, NEW z, NEW c \in Nat
  PROVE  CountFile(f, [seen |-> z, sum |-> c]).sum \in Nat
<1>. DEFINE ts == transcripts
            lines == DOMAIN ts[f]
            n == Len(ts[f])
            id(i) == Identity(f, i, ts[f][i][1])
            C == {i \in lines : id(i) \notin z /\ \A j \in 1..i - 1 : id(j) # id(i)}
            s == [i \in lines |-> IF i \in C THEN ts[f][i][2] ELSE 0]
<1>1. ts[f] \in Seq(MessageId \X (0..MaxTokens)) /\ lines = 1..n /\ n \in Nat
  BY DEF TokenTypeOK
<1>2. \A i \in lines : ts[f][i][2] \in Nat
  <2>1. \A i \in lines : ts[f][i] \in MessageId \X (0..MaxTokens)
    BY <1>1
  <2> QED BY <2>1, TokenFacts
<1>3. CountFile(f, [seen |-> z, sum |-> c]).sum = c + Total(s)
  BY DEF CountFile
<1>4. s \in [1..n -> Nat]
  <2>1. s \in [lines -> Nat]
    <3>. HIDE DEF C, lines
    <3> QED BY <1>2
  <2> QED BY <1>1, <2>1
<1>. HIDE DEF s, n
<1>5. s \in Seq(Nat) /\ Len(s) = n
  BY <1>1, <1>4
<1>6. PICK t : Sums(s, t) /\ Total(s) = t[Len(s)]
  BY <1>5, TotalSums
<1>7. Total(s) \in Nat
  BY <1>1, <1>5, <1>6 DEF Sums
<1> QED BY <1>3, <1>7

\* The invariant of the token counts holds at first.
LEMMA TokensStart == TokenInit => TokenInv
<1>. SUFFICES ASSUME TokenInit PROVE TokenInv
  OBVIOUS
<1>. USE TokenFacts
<1>1. TokenTypeOK /\ tokens \in TokensOf
  BY DEF TokenInit, TokenTypeOK, TokensOf, NoCache
<1>2. KeptIsTrue /\ ReadingCounts /\ TokensFollowTheFiles
  BY DEF TokenInit, NoCache, KeptIsTrue, ReadingCounts, TokensFollowTheFiles, CountsWhatWasUsed, CacheSaysTheSame
<1>3. GrownSince
  <2>1. atStart[1] = transcripts /\ atStart[2] = counters /\ counters \in Seq(0..MaxTokens)
    BY <1>1 DEF TokenInit, TokenTypeOK
  <2>2. Marks \in [Transcript \cup {0} -> Nat] /\ Marks = MarksOf(transcripts, counters)
    BY <1>1, MarksAreSizes
  <2>3. \A f \in Transcript \cup {0} : Marks[f] <= Marks[f]
    <3>. HIDE DEF Marks
    <3> QED BY <2>2
  <2>4. Len(counters) <= Len(counters)
    BY <2>1
  <2> QED BY <2>1, <2>2, <2>3, <2>4 DEF GrownSince, MarkedBefore
<1> QED BY <1>1, <1>2, <1>3 DEF TokenInv

\* The files grow, and with them a mark.
LEMMA AppendKeeps ==
  ASSUME TokenInv, AppendRecord
  PROVE  TokenInv'
<1>. USE TokenFacts
<1>1. /\ TokenTypeOK /\ tokens \in TokensOf /\ KeptIsTrue /\ GrownSince /\ ReadingCounts
      /\ CountsWhatWasUsed /\ CacheSaysTheSame
  BY DEF TokenInv, TokensFollowTheFiles
<1>2. UNCHANGED <<tokenCache, marks, unreadFiles, seen, tokens, collecting, atStart>>
  BY DEF AppendRecord
<1>3. TokenTypeOK'
  <2>1. appends' \in 0..MaxAppends
    BY <1>1 DEF AppendRecord, TokenTypeOK
  <2>2. transcripts' \in [Transcript -> Seq(MessageId \X (0..MaxTokens))] /\ counters' \in Seq(0..MaxTokens)
    <3>1. CASE /\ \E f \in Transcript, m \in MessageId, t \in 1..MaxTokens :
                    transcripts' = [transcripts EXCEPT ![f] = Append(@, <<m, t>>)]
               /\ UNCHANGED counters
      <4>1. PICK f \in Transcript, m \in MessageId, t \in 1..MaxTokens :
                    transcripts' = [transcripts EXCEPT ![f] = Append(@, <<m, t>>)]
        BY <3>1
      <4>2. <<m, t>> \in MessageId \X (0..MaxTokens)
        OBVIOUS
      <4>. DEFINE r == <<m, t>>
                  X == MessageId \X (0..MaxTokens)
      <4>3. transcripts \in [Transcript -> Seq(X)] /\ r \in X
        BY <1>1, <4>2 DEF TokenTypeOK
      <4>. HIDE DEF r, X
      <4>4. Append(transcripts[f], r) \in Seq(X)
        BY <4>3
      <4>5. transcripts' \in [Transcript -> Seq(X)]
        BY <4>1, <4>3, <4>4 DEF r
      <4> QED BY <1>1, <3>1, <4>5 DEF X, TokenTypeOK
    <3>2. CASE (\E t \in 0..MaxTokens : counters' = Append(counters, t)) /\ UNCHANGED transcripts
      BY <1>1, <3>2 DEF TokenTypeOK
    <3> QED BY <3>1, <3>2 DEF AppendRecord
  <2> QED BY <1>1, <1>2, <2>1, <2>2 DEF TokenTypeOK
<1>4. /\ Marks \in [Transcript \cup {0} -> Nat] /\ Marks' \in [Transcript \cup {0} -> Nat]
      /\ Marks = MarksOf(transcripts, counters) /\ Marks' = MarksOf(transcripts', counters')
  <2>1. Marks \in [Transcript \cup {0} -> Nat] /\ Marks = MarksOf(transcripts, counters)
    BY <1>1, MarksAreSizes
  <2>2. Marks' = MarksOf(transcripts', counters')
    BY DEF Marks, MarksOf
  <2>3. Len(counters') \in Nat /\ \A f \in Transcript : Len(transcripts'[f]) \in Nat
    BY <1>3 DEF TokenTypeOK
  <2>4. MarksOf(transcripts', counters') \in [Transcript \cup {0} -> Nat]
    BY <2>3 DEF MarksOf
  <2> QED BY <2>1, <2>2, <2>4
<1>5. /\ \A f \in Transcript \cup {0} : Marks[f] <= Marks'[f]
      /\ \E f \in Transcript \cup {0} : Marks[f] < Marks'[f]
  <2>0. /\ \A f \in Transcript : Marks[f] = Len(transcripts[f]) /\ Marks'[f] = Len(transcripts'[f])
        /\ Marks[0] = Len(counters) /\ Marks'[0] = Len(counters')
    BY DEF Marks
  <2>1. CASE /\ \E f \in Transcript, m \in MessageId, t \in 1..MaxTokens :
                  transcripts' = [transcripts EXCEPT ![f] = Append(@, <<m, t>>)]
             /\ UNCHANGED counters
    <3>1. PICK f \in Transcript, m \in MessageId, t \in 1..MaxTokens :
                  transcripts' = [transcripts EXCEPT ![f] = Append(@, <<m, t>>)]
      BY <2>1
    <3>. DEFINE r == <<m, t>>
                X == MessageId \X (0..MaxTokens)
    <3>2. transcripts \in [Transcript -> Seq(X)] /\ r \in X
      BY <1>1 DEF TokenTypeOK
    <3>3. transcripts'[f] = Append(transcripts[f], r) /\ \A g \in Transcript : g # f => transcripts'[g] = transcripts[g]
      BY <3>1, <3>2
    <3>. HIDE DEF r, X
    <3>4. Len(transcripts'[f]) = Len(transcripts[f]) + 1 /\ Len(transcripts[f]) \in Nat
      BY <3>2, <3>3
    <3>5. Marks'[f] = Marks[f] + 1 /\ Marks[f] \in Nat
      BY <2>0, <3>4
    <3>6. \A g \in Transcript \cup {0} : g # f => Marks'[g] = Marks[g] /\ Marks[g] \in Nat
      <4>. HIDE DEF Marks
      <4> QED BY <1>4, <2>0, <2>1, <3>3
    <3>. HIDE DEF Marks
    <3>7. \A g \in Transcript \cup {0} : Marks[g] <= Marks'[g]
      BY <3>5, <3>6
    <3>8. Marks[f] < Marks'[f]
      BY <3>5
    <3> QED BY <3>7, <3>8
  <2>2. CASE (\E t \in 0..MaxTokens : counters' = Append(counters, t)) /\ UNCHANGED transcripts
    <3>1. Len(counters') = Len(counters) + 1 /\ Len(counters) \in Nat
      BY <1>1, <2>2 DEF TokenTypeOK
    <3>2. Marks'[0] = Marks[0] + 1 /\ Marks[0] \in Nat
      BY <2>0, <3>1
    <3>3. \A g \in Transcript : Marks'[g] = Marks[g] /\ Marks[g] \in Nat
      <4>. HIDE DEF Marks
      <4> QED BY <1>4, <2>0, <2>2
    <3>. HIDE DEF Marks
    <3>4. \A g \in Transcript \cup {0} : Marks[g] <= Marks'[g]
      BY <3>2, <3>3
    <3>5. Marks[0] < Marks'[0]
      BY <3>2
    <3> QED BY <3>4, <3>5
  <2> QED BY <2>1, <2>2 DEF AppendRecord
<1>6. ASSUME NEW m, MarkedBefore(m)
      PROVE  m \in [Transcript \cup {0} -> Nat] /\ (\A f \in Transcript \cup {0} : m[f] <= Marks'[f]) /\ m # Marks'
  <2>. HIDE DEF Marks
  <2>1. \A f \in Transcript \cup {0} : m[f] \in Nat /\ Marks[f] \in Nat /\ Marks'[f] \in Nat /\ m[f] <= Marks[f]
    BY <1>4, <1>6 DEF MarkedBefore
  <2>2. ASSUME NEW f \in Transcript \cup {0} PROVE m[f] <= Marks'[f] /\ (Marks[f] < Marks'[f] => m[f] # Marks'[f])
    <3>. DEFINE x == m[f]
                y == Marks[f]
                z == Marks'[f]
    <3>1. x \in Nat /\ y \in Nat /\ z \in Nat /\ x <= y /\ y <= z
      BY <1>5, <2>1
    <3>. HIDE DEF x, y, z
    <3>2. x <= z /\ (y < z => x # z)
      BY <3>1
    <3> QED BY <3>2 DEF x, y, z
  <2>3. PICK f \in Transcript \cup {0} : Marks[f] < Marks'[f]
    BY <1>5
  <2>4. m[f] # Marks'[f]
    BY <2>2, <2>3
  <2> QED BY <1>6, <2>2, <2>4 DEF MarkedBefore
<1>7. KeptIsTrue'
  <2>1. CASE tokenCache.held
    <3>. DEFINE m == tokenCache.marks
    <3>1. MarkedBefore(m) /\ tokenCache.tokens \in TokensOf
      BY <1>1, <2>1 DEF KeptIsTrue
    <3>. HIDE DEF m
    <3>2. m \in [Transcript \cup {0} -> Nat] /\ (\A f \in Transcript \cup {0} : m[f] <= Marks'[f]) /\ m # Marks'
      BY <1>6, <3>1
    <3>3. tokenCache' = tokenCache /\ m = tokenCache.marks
      BY <1>2 DEF m
    <3> QED BY <3>1, <3>2, <3>3 DEF KeptIsTrue, MarkedBefore, TokensOf
  <2> QED BY <1>2, <2>1 DEF KeptIsTrue
<1>8. GrownSince'
  <2>. DEFINE b == atStart[2]
              m == MarksOf(atStart[1], atStart[2])
  <2>1. MarkedBefore(m) /\ b \in Seq(0..MaxTokens) /\ Len(b) <= Len(counters) /\ \A i \in DOMAIN b : b[i] = counters[i]
    BY <1>1 DEF GrownSince
  <2>2. MarkedBefore(MarksOf(atStart[1], atStart[2]))'
    <3>. HIDE DEF m
    <3>1. m \in [Transcript \cup {0} -> Nat] /\ (\A f \in Transcript \cup {0} : m[f] <= Marks'[f])
      BY <1>6, <2>1
    <3>2. MarksOf(atStart[1], atStart[2])' = m
      BY <1>2 DEF m, MarksOf
    <3> QED BY <3>1, <3>2 DEF MarkedBefore
  <2>3. Len(b) <= Len(counters') /\ \A i \in DOMAIN b : b[i] = counters'[i]
    <3>1. CASE UNCHANGED counters
      BY <2>1, <3>1
    <3>2. CASE \E t \in 0..MaxTokens : counters' = Append(counters, t)
      <4>1. counters \in Seq(0..MaxTokens)
        BY <1>1 DEF TokenTypeOK
      <4>. HIDE DEF b
      <4>2. Len(counters') = Len(counters) + 1 /\ \A i \in 1..Len(counters) : counters'[i] = counters[i]
        BY <3>2, <4>1
      <4>3. DOMAIN b = 1..Len(b) /\ Len(b) \in Nat /\ Len(counters) \in Nat
        BY <2>1, <4>1
      <4> QED BY <2>1, <4>2, <4>3
    <3> QED BY <3>1, <3>2 DEF AppendRecord
  <2> QED BY <1>2, <2>1, <2>2, <2>3 DEF GrownSince
<1>9. Marks' # MarksOf(atStart[1], atStart[2])
  <2>. DEFINE m == MarksOf(atStart[1], atStart[2])
  <2>1. MarkedBefore(m)
    BY <1>1 DEF GrownSince
  <2>. HIDE DEF m
  <2>2. m # Marks'
    BY <1>6, <2>1
  <2> QED BY <2>2 DEF m
<1>10. ReadingCounts'
  BY <1>1, <1>2, <1>9 DEF ReadingCounts, InPathOrder, MarksOf
<1>11. CountsWhatWasUsed'
  <2>1. atStart # <<transcripts', counters'>>
    <3>1. ASSUME atStart = <<transcripts', counters'>> PROVE FALSE
      <4>1. atStart[1] = transcripts' /\ atStart[2] = counters'
        BY <3>1
      <4> QED BY <1>4, <1>9, <4>1
    <3> QED BY <3>1
  <2> QED BY <1>1, <1>2, <2>1 DEF CountsWhatWasUsed
<1>12. CacheSaysTheSame'
  BY <1>1, <1>2 DEF CacheSaysTheSame
<1>13. tokens' \in TokensOf
  BY <1>1, <1>2
<1> QED BY <1>3, <1>7, <1>8, <1>10, <1>11, <1>12, <1>13 DEF TokenInv, TokensFollowTheFiles, TokensOf

\* Of no file read nothing is counted.
LEMMA NothingRead ==
  ASSUME TokenTypeOK, NEW U, U = Transcript \cup {0}, NEW ts, ts = transcripts
  PROVE  FirstsOf(ts, U) = {} /\ {y \in StatedIn(ts) : y[1] \notin U} = {}
<1>1. \A y \in StatedIn(ts) : y[1] \in Transcript
  BY DEF StatedIn
<1> QED BY <1>1 DEF FirstsOf

\* Starting a count keeps it: nothing is counted, or what is kept is served.
LEMMA CollectKeeps ==
  ASSUME TokenInv, Collect
  PROVE  TokenInv'
<1>. USE TokenFacts
<1>1. /\ TokenTypeOK /\ tokens \in TokensOf /\ KeptIsTrue
  BY DEF TokenInv
<1>2. /\ UNCHANGED <<transcripts, counters, tokenCache, appends>>
      /\ marks' = Marks /\ atStart' = <<transcripts, counters>>
      /\ collecting' \in {"hit", "reading"}
  BY DEF Collect
<1>3. /\ Marks \in [Transcript \cup {0} -> Nat] /\ Marks = MarksOf(transcripts, counters)
      /\ Marks' = Marks
  BY <1>1, <1>2, MarksAreSizes DEF Marks
<1>4. Totals' = Totals
  BY <1>2 DEF Totals, ClaudeTotal, CodexTotal, StatedIn, FirstStated, IdentityOf
<1>5. KeptIsTrue'
  <2>1. CASE tokenCache.held
    <3>1. MarkedBefore(tokenCache.marks) /\ tokenCache.tokens \in TokensOf /\ (tokenCache.marks = Marks => tokenCache.tokens = Totals)
      BY <1>1, <2>1 DEF KeptIsTrue
    <3>2. MarkedBefore(tokenCache.marks)'
      <4>. HIDE DEF Marks
      <4> QED BY <1>2, <1>3, <3>1 DEF MarkedBefore
    <3>. HIDE DEF Marks, Totals
    <3>3. (tokenCache.marks = Marks => tokenCache.tokens = Totals)'
      BY <1>2, <1>3, <1>4, <3>1
    <3> QED BY <1>2, <3>1, <3>2, <3>3 DEF KeptIsTrue, TokensOf
  <2> QED BY <1>2, <2>1 DEF KeptIsTrue
<1>6. GrownSince'
  <2>1. atStart'[1] = transcripts' /\ atStart'[2] = counters' /\ counters' \in Seq(0..MaxTokens)
    BY <1>1, <1>2 DEF TokenTypeOK
  <2>2. MarksOf(atStart[1], atStart[2])' = Marks' /\ Marks' \in [Transcript \cup {0} -> Nat]
    BY <1>3, <2>1, <1>2 DEF MarksOf
  <2>3. \A f \in Transcript \cup {0} : Marks'[f] <= Marks'[f]
    <3>. HIDE DEF Marks
    <3> QED BY <2>2
  <2>4. Len(counters') <= Len(counters')
    BY <2>1
  <2>5. MarkedBefore(MarksOf(atStart[1], atStart[2]))'
    <3>. HIDE DEF Marks
    <3> QED BY <2>2, <2>3 DEF MarkedBefore
  <2> QED BY <2>1, <2>4, <2>5 DEF GrownSince
<1>7. CASE tokenCache.held /\ tokenCache.marks = marks'
  <2>1. collecting' = "hit" /\ tokens' = tokenCache.tokens /\ UNCHANGED <<unreadFiles, seen>>
    BY <1>7 DEF Collect
  <2>2. tokens' = Totals /\ tokens' \in TokensOf
    BY <1>1, <1>2, <1>7, <2>1 DEF KeptIsTrue
  <2>3. TokenTypeOK'
    BY <1>1, <1>2, <2>1, <2>2 DEF TokenTypeOK, TokensOf
  <2>4. CacheSaysTheSame'
    <3>1. atStart'[1] = transcripts /\ atStart'[2] = counters
      BY <1>2
    <3>2. tokens' = [claude |-> ClaudeTotal(transcripts), codex |-> CodexTotal(counters)]
      BY <2>2 DEF Totals
    <3>3. ClaudeTotal(atStart[1])' = ClaudeTotal(transcripts) /\ CodexTotal(atStart[2])' = CodexTotal(counters)
      BY <3>1 DEF ClaudeTotal, CodexTotal, StatedIn, FirstStated, IdentityOf
    <3> QED BY <3>2, <3>3 DEF CacheSaysTheSame
  <2>5. ReadingCounts' /\ CountsWhatWasUsed'
    BY <2>1 DEF ReadingCounts, CountsWhatWasUsed
  <2> QED BY <1>5, <1>6, <2>2, <2>3, <2>4, <2>5 DEF TokenInv, TokensFollowTheFiles, TokensOf
<1>8. CASE ~(tokenCache.held /\ tokenCache.marks = marks')
  <2>1. /\ collecting' = "reading" /\ tokens' = [claude |-> 0, codex |-> 0]
        /\ unreadFiles' = Transcript \cup {0} /\ seen' = {}
    BY <1>8 DEF Collect
  <2>2. TokenTypeOK' /\ tokens' \in TokensOf
    BY <1>1, <1>2, <2>1 DEF TokenTypeOK, TokensOf
  <2>3. CacheSaysTheSame' /\ CountsWhatWasUsed'
    BY <2>1 DEF CacheSaysTheSame, CountsWhatWasUsed
  <2>4. CountedSoFar'
    <3>. DEFINE ts == transcripts'
                U == unreadFiles'
                w == WeightsOf(transcripts)'
    <3>1. ts = transcripts /\ U = Transcript \cup {0}
      BY <1>2, <2>1
    <3>2. FirstsOf(ts, U) = {} /\ {y \in StatedIn(ts) : y[1] \notin U} = {}
      <4>. HIDE DEF ts, U
      <4> QED BY <1>1, <3>1, NothingRead
    <3>3. 0 \in U
      BY <2>1
    <3>4. IsFiniteSet(Units({}, w)) /\ Weight({}, w) = 0
      BY NothingWeighsNothing
    <3>5. seen' = {IdentityOf(ts, x) : x \in {}} /\ tokens'.claude = 0
      BY <2>1
    <3>6. FirstsOf(transcripts, unreadFiles)' = FirstsOf(ts, U) /\ StatedIn(transcripts)' = StatedIn(ts)
      BY DEF FirstsOf, StatedIn, FirstStated, IdentityOf
    <3>7. IsFiniteSet(Units(FirstsOf(transcripts, unreadFiles), WeightsOf(transcripts))')
          /\ tokens'.claude = Weight(FirstsOf(transcripts, unreadFiles), WeightsOf(transcripts))'
      BY <3>2, <3>4, <3>5, <3>6 DEF Units, Weight
    <3>8. seen' = {IdentityOf(transcripts, x) : x \in {y \in StatedIn(transcripts) : y[1] \notin unreadFiles}}'
      BY <3>2, <3>5 DEF StatedIn
    <3> QED BY <3>3, <3>7, <3>8 DEF CountedSoFar
  <2>5. ReadingCounts'
    <3>1. marks' = MarksOf(atStart[1], atStart[2])'
      BY <1>2, <1>3 DEF MarksOf
    <3>2. InPathOrder' /\ 0 \in unreadFiles'
      BY <2>1 DEF InPathOrder
    <3> QED BY <2>4, <3>1, <3>2 DEF ReadingCounts
  <2> QED BY <1>5, <1>6, <2>2, <2>3, <2>5 DEF TokenInv, TokensFollowTheFiles, TokensOf
<1> QED BY <1>7, <1>8

\* A step that leaves the files and what is known of them.
LEMMA StillKept ==
  ASSUME KeptIsTrue, GrownSince, UNCHANGED <<transcripts, counters, tokenCache, atStart>>
  PROVE  KeptIsTrue' /\ GrownSince'
<1>1. Marks' = Marks /\ Totals' = Totals
  BY DEF Marks, Totals, ClaudeTotal, CodexTotal, StatedIn, FirstStated, IdentityOf
<1>2. \A x : x = MarksOf(atStart[1], atStart[2]) => (MarksOf(atStart[1], atStart[2]))' = x
  BY DEF MarksOf
<1>3. GrownSince'
  <2>1. MarkedBefore(MarksOf(atStart[1], atStart[2]))'
    BY <1>1, <1>2 DEF GrownSince, MarkedBefore
  <2> QED BY <2>1 DEF GrownSince
<1>4. KeptIsTrue'
  BY <1>1 DEF KeptIsTrue, MarkedBefore, TokensOf
<1> QED BY <1>3, <1>4

\* Counting one transcript keeps it.
LEMMA ReadTranscriptKeeps ==
  ASSUME TokenInv, NEW f \in Transcript, ReadTranscript(f)
  PROVE  TokenInv'
<1>. USE TokenFacts
<1>1. /\ TokenTypeOK /\ tokens \in TokensOf /\ KeptIsTrue /\ GrownSince /\ ReadingCounts
  BY DEF TokenInv
<1>2. /\ UNCHANGED <<transcripts, counters, tokenCache, marks, collecting, atStart, appends>>
      /\ collecting = "reading" /\ NextFile(f) /\ unreadFiles' = unreadFiles \ {f}
  BY DEF ReadTranscript
<1>. DEFINE state == CountFile(f, [seen |-> seen, sum |-> tokens.claude])
<1>3. seen' = state.seen /\ tokens' = [tokens EXCEPT !.claude = state.sum]
  BY DEF ReadTranscript
<1>4. state.sum \in Nat
  <2>1. tokens.claude \in Nat
    BY <1>1 DEF TokensOf
  <2> QED BY <1>1, <2>1, CountIsANumber
<1>5. tokens' \in TokensOf /\ tokens'.claude = state.sum /\ tokens'.codex = tokens.codex
  <2>. HIDE DEF state
  <2> QED BY <1>1, <1>3, <1>4 DEF TokensOf
<1>6. TokenTypeOK'
  <2>1. unreadFiles' \subseteq Transcript \cup {0} /\ {tokens'.claude, tokens'.codex} \subseteq Nat
    BY <1>1, <1>2, <1>5 DEF TokenTypeOK, TokensOf
  <2> QED BY <1>1, <1>2, <2>1 DEF TokenTypeOK
<1>7. KeptIsTrue' /\ GrownSince'
  BY <1>1, <1>2, StillKept
<1>8. TokensFollowTheFiles'
  BY <1>2 DEF TokensFollowTheFiles, CountsWhatWasUsed, CacheSaysTheSame
<1>9. InPathOrder'
  <2>1. InPathOrder /\ f \in unreadFiles /\ \A g \in unreadFiles : g = f \/ g = 0 \/ g > f
    BY <1>1, <1>2 DEF ReadingCounts, NextFile
  <2>2. ASSUME NEW g \in Transcript \ (unreadFiles \ {f}), NEW h \in unreadFiles \ {f} PROVE h = 0 \/ g < h
    <3>1. CASE g = f
      <4>1. h = 0 \/ h \in Nat
        BY <1>1 DEF TokenTypeOK
      <4> QED BY <2>1, <3>1, <4>1
    <3>2. CASE g # f
      BY <2>1, <3>2 DEF InPathOrder
    <3> QED BY <3>1, <3>2
  <2> QED BY <1>2, <2>2 DEF InPathOrder
<1>10. 0 \in unreadFiles'
  BY <1>1, <1>2 DEF ReadingCounts, NextFile
<1>11. ASSUME (marks = Marks)' PROVE CountedSoFar'
  <2>1. marks = Marks
    <3>1. Marks' = Marks
      BY <1>2 DEF Marks
    <3>. HIDE DEF Marks
    <3> QED BY <1>2, <1>11, <3>1
  <2>2. CountedSoFar
    BY <1>1, <1>2, <2>1 DEF ReadingCounts
  <2>. DEFINE left == unreadFiles \ {f}
              ts == transcripts
  <2>3. /\ state.seen = {IdentityOf(ts, x) : x \in {y \in StatedIn(ts) : y[1] \notin left}}
        /\ IsFiniteSet(Units(FirstsOf(ts, left), WeightsOf(ts)))
        /\ state.sum = Weight(FirstsOf(ts, left), WeightsOf(ts))
    BY <1>1, <1>2, <2>2, FileAdds DEF CountedSoFar, ReadingCounts
  <2>4. FirstsOf(transcripts, unreadFiles)' = FirstsOf(ts, left) /\ WeightsOf(transcripts)' = WeightsOf(ts)
        /\ StatedIn(transcripts)' = StatedIn(ts) /\ unreadFiles' = left
    BY <1>2 DEF FirstsOf, WeightsOf, StatedIn, FirstStated, IdentityOf
  <2>. HIDE DEF state
  <2>5. seen' = {IdentityOf(transcripts, x) : x \in {y \in StatedIn(transcripts) : y[1] \notin unreadFiles}}'
    BY <1>2, <1>3, <2>3, <2>4 DEF IdentityOf
  <2>6. IsFiniteSet(Units(FirstsOf(transcripts, unreadFiles), WeightsOf(transcripts))')
        /\ tokens'.claude = Weight(FirstsOf(transcripts, unreadFiles), WeightsOf(transcripts))'
    BY <1>5, <2>3, <2>4 DEF Units, Weight
  <2> QED BY <1>10, <2>5, <2>6 DEF CountedSoFar
<1>12. marks' = MarksOf(atStart[1], atStart[2])'
  BY <1>1, <1>2 DEF ReadingCounts, MarksOf
<1>13. ReadingCounts'
  BY <1>9, <1>10, <1>11, <1>12 DEF ReadingCounts
<1> QED BY <1>5, <1>6, <1>7, <1>8, <1>13 DEF TokenInv, TokensOf

\* Counting the rollout keeps it.
LEMMA ReadRolloutKeeps ==
  ASSUME TokenInv, ReadRollout
  PROVE  TokenInv'
<1>. USE TokenFacts
<1>1. /\ TokenTypeOK /\ tokens \in TokensOf /\ KeptIsTrue /\ GrownSince /\ ReadingCounts
  BY DEF TokenInv
<1>2. /\ UNCHANGED <<transcripts, counters, tokenCache, marks, seen, collecting, atStart, appends>>
      /\ collecting = "reading" /\ unreadFiles = {0} /\ unreadFiles' = {}
      /\ tokens' = [tokens EXCEPT !.codex = Derived(counters)]
  BY DEF ReadRollout
<1>3. counters \in Seq(Nat) /\ atStart[2] \in Seq(Nat) /\ Len(atStart[2]) <= Len(counters)
      /\ \A i \in DOMAIN atStart[2] : atStart[2][i] = counters[i]
  BY <1>1 DEF TokenTypeOK, GrownSince
<1>4. Derived(counters) \in Nat /\ Derived(counters) = CodexTotal(counters) /\ CodexTotal(atStart[2]) <= Derived(counters)
  <2>. DEFINE b == atStart[2]
  <2>1. b \in Seq(Nat) /\ Len(b) <= Len(counters) /\ \A i \in DOMAIN b : b[i] = counters[i]
    BY <1>3
  <2>. HIDE DEF b
  <2>2. Derived(counters) \in Nat /\ Derived(counters) = CodexTotal(counters) /\ CodexTotal(b) <= Derived(counters)
    BY <1>3, <2>1, DerivedIsUsed
  <2> QED BY <2>2 DEF b
<1>5. tokens' \in TokensOf /\ tokens'.claude = tokens.claude /\ tokens'.codex = Derived(counters)
  BY <1>1, <1>2, <1>4 DEF TokensOf
<1>6. TokenTypeOK'
  <2>1. {tokens'.claude, tokens'.codex} \subseteq Nat
    BY <1>5 DEF TokensOf
  <2> QED BY <1>1, <1>2, <2>1 DEF TokenTypeOK
<1>7. KeptIsTrue' /\ GrownSince'
  BY <1>1, <1>2, StillKept
<1>8. TokensFollowTheFiles'
  BY <1>2 DEF TokensFollowTheFiles, CountsWhatWasUsed, CacheSaysTheSame
<1>9. InPathOrder'
  BY <1>2 DEF InPathOrder
<1>10. unreadFiles' = {} /\ (CodexTotal(atStart[2]) <= tokens.codex)'
  BY <1>2, <1>4, <1>5 DEF CodexTotal
<1>11. ASSUME (marks = Marks)' PROVE CountedSoFar'
  <2>1. marks = Marks
    <3>1. Marks' = Marks
      BY <1>2 DEF Marks
    <3>. HIDE DEF Marks
    <3> QED BY <1>2, <1>11, <3>1
  <2>2. CountedSoFar
    BY <1>1, <1>2, <2>1 DEF ReadingCounts
  <2>3. \A y \in StatedIn(transcripts) : y[1] \notin unreadFiles
    BY <1>2 DEF StatedIn
  <2>. DEFINE w == WeightsOf(transcripts)
              F == FirstsOf(transcripts, unreadFiles)
  <2>4. FirstsOf(transcripts, unreadFiles)' = F /\ WeightsOf(transcripts)' = w
    BY <1>2, <2>3 DEF FirstsOf, WeightsOf, StatedIn, FirstStated, IdentityOf
  <2>5. {y \in StatedIn(transcripts) : y[1] \notin unreadFiles}' = {y \in StatedIn(transcripts) : y[1] \notin unreadFiles}
    BY <1>2, <2>3 DEF StatedIn
  <2>6. seen' = {IdentityOf(transcripts, x) : x \in {y \in StatedIn(transcripts) : y[1] \notin unreadFiles}}'
    <3>. DEFINE A == {y \in StatedIn(transcripts) : y[1] \notin unreadFiles}
    <3>1. seen = {IdentityOf(transcripts, x) : x \in A} /\ A' = A
      BY <2>2, <2>5 DEF CountedSoFar
    <3>. HIDE DEF A
    <3>2. seen' = {IdentityOf(transcripts, x) : x \in A}'
      BY <1>2, <3>1 DEF IdentityOf
    <3> QED BY <3>2 DEF A
  <2>7. IsFiniteSet(Units(FirstsOf(transcripts, unreadFiles), WeightsOf(transcripts))')
        /\ tokens'.claude = Weight(FirstsOf(transcripts, unreadFiles), WeightsOf(transcripts))'
    BY <1>5, <2>2, <2>4 DEF Units, Weight, CountedSoFar
  <2>8. tokens'.codex = CodexTotal(counters)'
    BY <1>2, <1>4, <1>5 DEF CodexTotal
  <2> QED BY <2>6, <2>7, <2>8 DEF CountedSoFar
<1>12. marks' = MarksOf(atStart[1], atStart[2])'
  BY <1>1, <1>2 DEF ReadingCounts, MarksOf
<1>13. ReadingCounts'
  BY <1>9, <1>10, <1>11, <1>12 DEF ReadingCounts
<1> QED BY <1>5, <1>6, <1>7, <1>8, <1>13 DEF TokenInv, TokensOf

\* Keeping the result keeps it: if no file has grown since the marks were taken,
\* the result is that of the files, and if one has, the marks do not match again.
LEMMA KeepResultKeeps ==
  ASSUME TokenInv, KeepResult
  PROVE  TokenInv'
<1>1. /\ TokenTypeOK /\ tokens \in TokensOf /\ KeptIsTrue /\ GrownSince /\ ReadingCounts
  BY DEF TokenInv
<1>2. /\ UNCHANGED <<transcripts, counters, marks, unreadFiles, seen, tokens, atStart, appends>>
      /\ collecting = "reading" /\ unreadFiles = {} /\ collecting' = "done"
      /\ tokenCache' = [held |-> TRUE, marks |-> marks, tokens |-> tokens]
  BY DEF KeepResult
<1>3. /\ Marks' = Marks /\ Totals' = Totals /\ Marks = MarksOf(transcripts, counters)
  BY <1>1, <1>2, MarksAreSizes DEF Marks, Totals, ClaudeTotal, CodexTotal, StatedIn, FirstStated, IdentityOf
<1>4. marks = MarksOf(atStart[1], atStart[2]) /\ MarkedBefore(marks) /\ CodexTotal(atStart[2]) <= tokens.codex
  BY <1>1, <1>2 DEF ReadingCounts, GrownSince
<1>5. ASSUME marks = Marks PROVE tokens = Totals
  <2>1. CountedSoFar
    BY <1>1, <1>2, <1>5 DEF ReadingCounts
  <2>2. FirstsOf(transcripts, unreadFiles) = {x \in StatedIn(transcripts) : FirstStated(transcripts, x)}
    BY <1>2 DEF FirstsOf
  <2>3. ClaudeTotal(transcripts) = Weight(FirstsOf(transcripts, unreadFiles), WeightsOf(transcripts))
    BY <2>2 DEF ClaudeTotal, WeightsOf
  <2>4. tokens.claude = ClaudeTotal(transcripts) /\ tokens.codex = CodexTotal(counters)
    BY <1>2, <2>1, <2>3 DEF CountedSoFar
  <2> QED BY <1>1, <2>4 DEF Totals, TokensOf
<1>6. TokenTypeOK'
  BY <1>1, <1>2 DEF TokenTypeOK
<1>7. KeptIsTrue'
  <2>1. MarkedBefore(tokenCache.marks)'
    <3>. HIDE DEF Marks
    <3> QED BY <1>2, <1>3, <1>4 DEF MarkedBefore
  <2>2. (tokenCache.marks = Marks => tokenCache.tokens = Totals)'
    <3>. HIDE DEF Marks, Totals
    <3> QED BY <1>2, <1>3, <1>5
  <2> QED BY <1>1, <1>2, <2>1, <2>2 DEF KeptIsTrue, TokensOf
<1>8. GrownSince'
  <2>1. Marks' = Marks /\ (MarksOf(atStart[1], atStart[2]))' = MarksOf(atStart[1], atStart[2])
    BY <1>2, <1>3 DEF MarksOf
  <2>2. MarkedBefore(MarksOf(atStart[1], atStart[2]))'
    <3>. HIDE DEF Marks
    <3> QED BY <1>1, <2>1 DEF GrownSince, MarkedBefore
  <2> QED BY <1>1, <1>2, <2>2 DEF GrownSince
<1>9. ReadingCounts' /\ CacheSaysTheSame'
  BY <1>2 DEF ReadingCounts, CacheSaysTheSame
<1>10. CountsWhatWasUsed'
  <2>1. (CodexTotal(atStart[2]) <= tokens.codex)'
    BY <1>2, <1>4 DEF CodexTotal
  <2>2. ASSUME (atStart = <<transcripts, counters>>)' PROVE tokens' = Totals'
    <3>1. atStart[1] = transcripts /\ atStart[2] = counters
      BY <1>2, <2>2
    <3>2. marks = Marks
      BY <1>3, <1>4, <3>1
    <3> QED BY <1>2, <1>3, <1>5, <3>2
  <2> QED BY <2>1, <2>2 DEF CountsWhatWasUsed, Totals
<1>11. tokens' \in TokensOf
  BY <1>1, <1>2
<1> QED BY <1>6, <1>7, <1>8, <1>9, <1>10, <1>11 DEF TokenInv, TokensFollowTheFiles, TokensOf

\* Every step keeps it.
LEMMA TokensKeep == TokenInv /\ [TokenNext]_tokenVars => TokenInv'
<1>. SUFFICES ASSUME TokenInv, [TokenNext]_tokenVars PROVE TokenInv'
  OBVIOUS
<1>1. CASE AppendRecord
  BY <1>1, AppendKeeps
<1>2. CASE Collect
  BY <1>2, CollectKeeps
<1>3. ASSUME NEW f \in Transcript, ReadTranscript(f) PROVE TokenInv'
  BY <1>3, ReadTranscriptKeeps
<1>4. CASE ReadRollout
  BY <1>4, ReadRolloutKeeps
<1>5. CASE KeepResult
  BY <1>5, KeepResultKeeps
<1>6. CASE UNCHANGED tokenVars
  <2>1. /\ UNCHANGED <<transcripts, counters, tokenCache, marks, unreadFiles, seen, tokens, collecting, atStart, appends>>
    BY <1>6 DEF tokenVars
  <2>2. /\ TokenTypeOK /\ tokens \in TokensOf /\ KeptIsTrue /\ GrownSince /\ ReadingCounts
        /\ TokensFollowTheFiles
    BY DEF TokenInv
  <2>3. TokenTypeOK' /\ tokens' \in TokensOf
    BY <2>1, <2>2 DEF TokenTypeOK
  <2>4. KeptIsTrue' /\ GrownSince'
    BY <2>1, <2>2, StillKept
  <2>5. TokensFollowTheFiles'
    BY <2>1, <2>2 DEF TokensFollowTheFiles, CountsWhatWasUsed, CacheSaysTheSame, ClaudeTotal, CodexTotal,
                      StatedIn, FirstStated, IdentityOf
  <2>6. CountedSoFar' <=> CountedSoFar
    BY <2>1 DEF CountedSoFar, FirstsOf, WeightsOf, StatedIn, FirstStated, IdentityOf, Units, Weight, CodexTotal
  <2>7. ReadingCounts'
    BY <2>1, <2>2, <2>6 DEF ReadingCounts, InPathOrder, Marks, MarksOf, CodexTotal
  <2> QED BY <2>3, <2>4, <2>5, <2>7 DEF TokenInv, TokensOf
<1> QED BY <1>1, <1>2, <1>3, <1>4, <1>5, <1>6 DEF TokenNext

\* The invariant of the token counts.
LEMMA TokenInvariant == TokenSpec => []TokenInv
<1>1. TokenInit => TokenInv
  BY TokensStart
<1>2. TokenInv /\ [TokenNext]_tokenVars => TokenInv'
  BY TokensKeep
<1> QED BY <1>1, <1>2, PTL DEF TokenSpec

\* The files, the cache and what is counted so far are well typed (token_usage.py).
THEOREM TokensAreTyped == TokenSpec => []TokenTypeOK
<1>1. TokenInv => TokenTypeOK
  BY DEF TokenInv
<1> QED BY <1>1, TokenInvariant, PTL

\* Every message of the transcripts counts once, whichever files restate it, and the
\* rollout counts what its counters rose to before each fall; a result served from the
\* cache is the one reading the files would give (token_usage.collect_token_usage).
THEOREM TokenCountsFollowTheFiles == TokenSpec => []TokensFollowTheFiles
<1>1. TokenInv => TokensFollowTheFiles
  BY DEF TokenInv
<1> QED BY <1>1, TokenInvariant, PTL
=============================================================================
