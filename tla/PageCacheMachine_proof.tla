------------------------- MODULE PageCacheMachine_proof -------------------------
(***************************************************************************)
(* The page cache keeps its two fields in step, answers with what was put  *)
(* last, and keeps what was used last, for any capacity, documents, pages  *)
(* and sizes and whatever sequence of calls it gets.  The argument is that *)
(* its order is always the beginning of the recency list: every operation  *)
(* does to the order what it does to the list, and an eviction shortens    *)
(* the order from the back.                                                *)
(*                                                                         *)
(* The first part is about `Without`, which is recursive in the length of  *)
(* its sequence.  A recursive function is the choice of a solution of its  *)
(* equation, so that there is one has to be proved first; induction is had *)
(* from the library's fact that < is well founded on the naturals.         *)
(***************************************************************************)
EXTENDS PageCacheMachine, SequenceTheorems, WellFoundedInduction, TLAPS

-----------------------------------------------------------------------------
(* Induction and recursion up to a bound.                                  *)

\* A set of naturals that is not empty has a least member.
LEMMA LeastNatural ==
  ASSUME NEW T, T \subseteq Nat, T # {}
  PROVE  \E n \in T : \A m \in T : n <= m
<1> DEFINE Less == { pair \in Nat \X Nat : pair[1] < pair[2] }
<1>1. IsWellFoundedOn(Less, Nat)
  <2>1. OpToRel(<, Nat) = Less
    BY DEF OpToRel
  <2> QED BY <2>1, NatLessThanWellFounded
<1>2. \E n \in T : \A m \in T : << m, n >> \notin Less
  <2> HIDE DEF Less
  <2> QED BY <1>1, WFMin, Zenon
<1>3. \A m, n \in Nat : << m, n >> \notin Less => n <= m
  OBVIOUS
<1> HIDE DEF Less
<1> QED BY <1>2, <1>3

\* A set with 0 and with the successor of each of its members below the bound has
\* every number up to the bound.
LEMMA Induction ==
  ASSUME NEW T, NEW bound \in Nat, 0 \in T,
         \A n \in 0 .. bound - 1 : n \in T => n + 1 \in T
  PROVE  0 .. bound \subseteq T
<1> SUFFICES ASSUME NEW a \in 0 .. bound, a \notin T PROVE FALSE
  OBVIOUS
<1> DEFINE rest == { n \in 0 .. bound : n \notin T }
<1>1. PICK n \in rest : \A m \in rest : n <= m
  <2>1. rest \subseteq Nat /\ rest # {}
    OBVIOUS
  <2> HIDE DEF rest
  <2> QED BY <2>1, LeastNatural
<1>2. n # 0 /\ n - 1 \in 0 .. bound - 1
  BY <1>1
<1>3. n - 1 \in T
  BY <1>1, <1>2
<1> QED BY <1>1, <1>2, <1>3

\* The runs of `bound` steps from a, the n-th of them by step[n].
Runs(S, bound, a, step) ==
  { f \in [0 .. bound -> S] :
      f[0] = a /\ \A n \in 1 .. bound : f[n] = step[n][f[n - 1]] }

\* There is such a run.
LEMMA Recursion ==
  ASSUME NEW S, NEW bound \in Nat, NEW a \in S,
         NEW step \in [1 .. bound -> [S -> S]]
  PROVE  Runs(S, bound, a, step) # {}
<1> DEFINE Run(f, m) == /\ f \in [0 .. m -> S]
                        /\ f[0] = a
                        /\ \A n \in 1 .. m : f[n] = step[n][f[n - 1]]
           T == { m \in 0 .. bound : \E f : Run(f, m) }
<1>1. 0 \in T
  <2>1. Run([i \in 0 .. 0 |-> a], 0)
    OBVIOUS
  <2> HIDE DEF Run
  <2> QED BY <2>1
<1>2. ASSUME NEW m \in 0 .. bound - 1, m \in T
      PROVE  m + 1 \in T
  <2>1. PICK f : Run(f, m)
    BY <1>2
  <2> DEFINE g == [i \in 0 .. m + 1 |-> IF i <= m THEN f[i] ELSE step[m + 1][f[m]]]
  <2>2. f[m] \in S /\ m + 1 \in 1 .. bound /\ \A i \in 0 .. m : f[i] \in S
    BY <2>1
  <2>3. step[m + 1][f[m]] \in S
    BY <2>2
  <2>4. g \in [0 .. m + 1 -> S]
    BY <2>2, <2>3
  <2>5. g[0] = a /\ \A i \in 0 .. m : g[i] = f[i]
    BY <2>1
  <2>6. g[m + 1] = step[m + 1][f[m]]
    BY <2>1
  <2> HIDE DEF g
  <2>7. ASSUME NEW n \in 1 .. m + 1 PROVE g[n] = step[n][g[n - 1]]
    <3>1. CASE n = m + 1
      BY <3>1, <2>5, <2>6
    <3>2. CASE n \in 1 .. m
      BY <3>2, <2>5, <2>1
    <3> QED BY <3>1, <3>2
  <2>8. Run(g, m + 1)
    BY <2>4, <2>5, <2>7
  <2> HIDE DEF Run
  <2> QED BY <2>8
<1> HIDE DEF T
<1>3. 0 .. bound \subseteq T
  BY <1>1, <1>2, Induction
<1>4. \E f : Run(f, bound)
  BY <1>3 DEF T
<1> QED BY <1>4 DEF Runs

-----------------------------------------------------------------------------
(* What `retain` does to an order.                                         *)

\* kept[n] is what is left of the first n keys.
Retains(kept, K, s, gone) ==
  /\ kept \in [0 .. Len(s) -> Seq(K)]
  /\ kept[0] = << >>
  /\ \A n \in 1 .. Len(s) :
       kept[n] = IF s[n] \in gone THEN kept[n - 1] ELSE Append(kept[n - 1], s[n])

\* The equation of `Without` has a solution.
LEMMA WithoutUnfolds ==
  ASSUME NEW K, NEW s \in Seq(K), NEW gone
  PROVE  \E kept : Retains(kept, K, s, gone) /\ Without(s, gone) = kept[Len(s)]
<1> DEFINE N == Len(s)
           S == Seq(K)
           empty == << >>
           step == [n \in 1 .. N |-> [q \in S |->
                      IF s[n] \in gone THEN q ELSE Append(q, s[n])]]
           Solves(f) == f = [n \in 0 .. N |->
                              IF n = 0 THEN << >>
                              ELSE IF s[n] \in gone THEN f[n - 1]
                              ELSE Append(f[n - 1], s[n])]
<1>1. N \in Nat /\ empty \in S
  OBVIOUS
<1>2. step \in [1 .. N -> [S -> S]]
  OBVIOUS
<1>3. \A q \in S, n \in 1 .. N :
        /\ step[n][q] = IF s[n] \in gone THEN q ELSE Append(q, s[n])
        /\ Append(q, s[n]) \in S
  OBVIOUS
<1>4. PICK f \in [0 .. N -> S] :
        f[0] = << >> /\ \A n \in 1 .. N : f[n] = step[n][f[n - 1]]
  <2> HIDE DEF N, S, empty, step
  <2>1. Runs(S, N, empty, step) # {}
    BY <1>1, <1>2, Recursion
  <2> QED BY <2>1 DEF Runs, empty
<1>5. Solves(f)
  <2> DEFINE Body(n) == IF n = 0 THEN << >>
                        ELSE IF s[n] \in gone THEN f[n - 1]
                        ELSE Append(f[n - 1], s[n])
  <2>1. /\ \A n \in 0 .. N : n # 0 => n \in 1 .. N
        /\ \A n \in 1 .. N : n - 1 \in 0 .. N
    BY <1>1
  <2> HIDE DEF step, S, N
  <2>2. \A n \in 0 .. N : f[n] = Body(n)
    BY <1>3, <1>4, <2>1
  <2>3. f = [n \in 0 .. N |-> f[n]]
    BY <1>4
  <2> HIDE DEF Body
  <2>4. f = [n \in 0 .. N |-> Body(n)]
    BY <2>2, <2>3
  <2> QED BY <2>4 DEF Body
<1> DEFINE kept == CHOOSE g : Solves(g)
<1>6. Solves(kept)
  <2> HIDE DEF Solves
  <2> QED BY <1>5
<1>7. Without(s, gone) = kept[N]
  BY DEF Without
<1>8. /\ kept[0] = << >>
      /\ \A n \in 1 .. N :
           kept[n] = IF s[n] \in gone THEN kept[n - 1] ELSE Append(kept[n - 1], s[n])
  <2> HIDE DEF kept
  <2>1. 0 \in 0 .. N /\ \A n \in 1 .. N : n \in 0 .. N /\ n # 0
    BY <1>1
  <2> HIDE DEF N
  <2> QED BY <1>6, <2>1
<1>9. kept \in [0 .. N -> S]
  <2> DEFINE T == { n \in 0 .. N : kept[n] \in S }
  <2> HIDE DEF kept, step, S, N
  <2>1. 0 \in T
    BY <1>8, <1>1 DEF empty
  <2>2. ASSUME NEW n \in 0 .. N - 1, n \in T PROVE n + 1 \in T
    <3>1. n + 1 \in 1 .. N /\ (n + 1) - 1 = n
      BY <1>1
    <3>2. kept[n + 1] \in S
      BY <3>1, <2>2, <1>8, <1>3
    <3> QED BY <3>1, <3>2
  <2> HIDE DEF T
  <2>3. 0 .. N \subseteq T
    BY <2>1, <2>2, <1>1, Induction
  <2>4. \A n \in 0 .. N : kept[n] \in S
    BY <2>3 DEF T
  <2>5. kept = [n \in 0 .. N |-> kept[n]]
    BY <1>6
  <2> QED BY <2>4, <2>5
<1> HIDE DEF kept
<1> QED BY <1>7, <1>8, <1>9 DEF Retains

\* What is left of an order without duplicates is the rest of it, without duplicates.
LEMMA WithoutLeavesRest ==
  ASSUME NEW K, NEW s \in Seq(K), IsInjective(s), NEW gone
  PROVE  /\ Without(s, gone) \in Seq(K) /\ IsInjective(Without(s, gone))
         /\ ToSet(Without(s, gone)) = ToSet(s) \ gone
         /\ Len(Without(s, gone)) <= Len(s)
<1>1. PICK kept : Retains(kept, K, s, gone) /\ Without(s, gone) = kept[Len(s)]
  BY WithoutUnfolds
<1> DEFINE N == Len(s)
           FirstKeys(n) == { s[i] : i \in 1 .. n }
           Good(n) == /\ IsInjective(kept[n]) /\ Len(kept[n]) <= n
                      /\ ToSet(kept[n]) = FirstKeys(n) \ gone
           T == { n \in 0 .. N : Good(n) }
<1>2. N \in Nat /\ \A n \in 0 .. N : kept[n] \in Seq(K)
  <2>1. N \in Nat
    OBVIOUS
  <2> HIDE DEF N
  <2>2. kept \in [0 .. N -> Seq(K)]
    BY <1>1 DEF Retains, N
  <2> QED BY <2>1, <2>2
<1>3. 0 \in T
  BY <1>1, <1>2 DEF Retains, IsInjective, ToSet
<1>4. ASSUME NEW n \in 0 .. N - 1, n \in T PROVE n + 1 \in T
  <2> DEFINE a == kept[n]
             b == kept[n + 1]
             e == s[n + 1]
  <2>1. /\ n + 1 \in 1 .. N /\ a \in Seq(K) /\ e \in K
        /\ b = IF e \in gone THEN a ELSE Append(a, e)
    BY <1>1, <1>2 DEF Retains
  <2>2. /\ IsInjective(a) /\ Len(a) <= n /\ ToSet(a) = FirstKeys(n) \ gone
    BY <1>4
  <2>3. FirstKeys(n + 1) = FirstKeys(n) \cup { e }
    BY <2>1
  <2>4. e \notin FirstKeys(n)
    BY <2>1 DEF IsInjective
  <2> HIDE DEF a, b, e, N, FirstKeys
  <2>5. CASE e \in gone
    BY <2>1, <2>2, <2>3, <2>5 DEF a, b
  <2>6. CASE e \notin gone
    <3>1. b = Append(a, e)
      BY <2>1, <2>6
    <3>2. /\ Len(b) = Len(a) + 1 /\ b[Len(a) + 1] = e
          /\ \A i \in 1 .. Len(a) : b[i] = a[i]
          /\ DOMAIN b = 1 .. Len(a) + 1 /\ DOMAIN a = 1 .. Len(a) /\ Len(a) \in Nat
      <4>1. /\ Len(Append(a, e)) = Len(a) + 1 /\ Append(a, e) \in Seq(K)
            /\ \A i \in 1 .. Len(a) : Append(a, e)[i] = a[i]
            /\ Append(a, e)[Len(a) + 1] = e
        BY <2>1, AppendProperties
      <4> QED BY <3>1, <4>1, <2>1
    <3>3. ToSet(b) = ToSet(a) \cup { e }
      BY <3>2 DEF ToSet
    <3>4. e \notin ToSet(a)
      BY <2>2, <2>4
    <3>5. IsInjective(b)
      BY <2>2, <3>2, <3>4 DEF IsInjective, ToSet
    <3>6. ToSet(b) = FirstKeys(n + 1) \ gone
      BY <2>2, <2>3, <2>6, <3>3
    <3>7. Len(b) <= n + 1
      BY <1>2, <2>2, <3>2
    <3>8. n + 1 \in 0 .. N
      BY <1>2
    <3> QED BY <3>5, <3>6, <3>7, <3>8 DEF b
  <2> QED BY <2>5, <2>6
<1> HIDE DEF T
<1>5. 0 .. N \subseteq T
  BY <1>2, <1>3, <1>4, Induction
<1>6. Good(N)
  BY <1>2, <1>5 DEF T
<1>7. FirstKeys(N) = ToSet(s)
  BY DEF ToSet
<1> QED BY <1>1, <1>2, <1>6, <1>7

\* One key more at the back.
LEMMA OneMore ==
  ASSUME NEW K, NEW q \in Seq(K), NEW e \in K
  PROVE  /\ Append(q, e) \in Seq(K) /\ Len(Append(q, e)) = Len(q) + 1 /\ Len(q) \in Nat
         /\ \A i \in 1 .. Len(q) : Append(q, e)[i] = q[i]
         /\ Append(q, e)[Len(q) + 1] = e
  BY AppendProperties, LenProperties

\* s is the beginning of t.
Begins(s, t) == Len(s) <= Len(t) /\ \A i \in 1 .. Len(s) : s[i] = t[i]

\* The same keys taken out of a sequence and of its beginning leave a beginning.
LEMMA WithoutBegins ==
  ASSUME NEW K, NEW s \in Seq(K), NEW t \in Seq(K), Begins(s, t), NEW gone, NEW lost,
         \A i \in 1 .. Len(s) : s[i] \in gone <=> s[i] \in lost
  PROVE  Begins(Without(s, gone), Without(t, lost))
<1>1. PICK a : Retains(a, K, s, gone) /\ Without(s, gone) = a[Len(s)]
  BY WithoutUnfolds
<1>2. PICK b : Retains(b, K, t, lost) /\ Without(t, lost) = b[Len(t)]
  BY WithoutUnfolds
<1> DEFINE M == Len(s)
           N == Len(t)
           Same == { n \in 0 .. M : a[n] = b[n] }
           Longer == { m \in 0 .. N - M : Begins(b[M], b[M + m]) }
<1>3. M \in Nat /\ N \in Nat /\ M <= N /\ \A i \in 1 .. M : s[i] = t[i]
  BY DEF Begins
<1>4. 0 .. M \subseteq Same
  <2>1. 0 \in Same
    BY <1>1, <1>2, <1>3 DEF Retains
  <2>2. ASSUME NEW n \in 0 .. M - 1, n \in Same PROVE n + 1 \in Same
    <3>1. n + 1 \in 1 .. M /\ n + 1 \in 1 .. N /\ (n + 1) - 1 = n /\ n + 1 \in 0 .. M
      BY <1>3
    <3>2. /\ a[n + 1] = IF s[n + 1] \in gone THEN a[n] ELSE Append(a[n], s[n + 1])
          /\ b[n + 1] = IF t[n + 1] \in lost THEN b[n] ELSE Append(b[n], t[n + 1])
      BY <1>1, <1>2, <3>1 DEF Retains
    <3>3. s[n + 1] = t[n + 1] /\ (s[n + 1] \in gone <=> s[n + 1] \in lost)
      BY <1>3, <3>1
    <3>4. a[n] = b[n]
      BY <2>2
    <3> QED BY <3>1, <3>2, <3>3, <3>4
  <2> HIDE DEF Same, M
  <2> QED BY <2>1, <2>2, <1>3, Induction
<1>5. \A n \in 0 .. N : b[n] \in Seq(K) /\ Len(b[n]) \in Nat
  <2> HIDE DEF N
  <2>1. b \in [0 .. N -> Seq(K)]
    BY <1>2 DEF Retains, N
  <2> QED BY <2>1, LenProperties
<1>6. 0 .. N - M \subseteq Longer
  <2> HIDE DEF M, N
  <2>1. 0 \in Longer
    <3>1. M \in 0 .. N /\ M + 0 = M /\ 0 \in 0 .. N - M
      BY <1>3
    <3> QED BY <3>1, <1>5 DEF Begins
  <2>2. ASSUME NEW m \in 0 .. N - M - 1, m \in Longer PROVE m + 1 \in Longer
    <3> DEFINE j == M + m
    <3>1. /\ j + 1 \in 1 .. N /\ j + 1 = M + (m + 1) /\ j \in 0 .. N
          /\ m + 1 \in 0 .. N - M /\ M \in 0 .. N /\ (j + 1) - 1 = j
      BY <1>3
    <3>2. t[j + 1] \in K
      BY <3>1, ElementOfSeq DEF N
    <3>3. Begins(b[M], b[j])
      BY <2>2
    <3> HIDE DEF j
    <3>4. b[j + 1] = IF t[j + 1] \in lost THEN b[j] ELSE Append(b[j], t[j + 1])
      BY <1>2, <3>1 DEF Retains, N
    <3>5. CASE t[j + 1] \in lost
      BY <3>1, <3>3, <3>4, <3>5
    <3>6. CASE t[j + 1] \notin lost
      <4>1. /\ Len(b[j + 1]) = Len(b[j]) + 1
            /\ \A i \in 1 .. Len(b[j]) : b[j + 1][i] = b[j][i]
        BY <3>1, <3>2, <3>4, <3>6, <1>5, OneMore
      <4>2. Len(b[M]) \in Nat /\ Len(b[j]) \in Nat
        BY <3>1, <1>5
      <4>3. /\ Len(b[M]) <= Len(b[j])
            /\ \A i \in 1 .. Len(b[M]) : i \in 1 .. Len(b[j]) /\ b[M][i] = b[j][i]
        BY <3>3, <4>2 DEF Begins
      <4>4. Len(b[M]) <= Len(b[j + 1])
        BY <4>1, <4>2, <4>3
      <4>5. \A i \in 1 .. Len(b[M]) : b[j + 1][i] = b[M][i]
        BY <4>1, <4>3
      <4>6. Begins(b[M], b[j + 1])
        BY <4>4, <4>5 DEF Begins
      <4> QED BY <3>1, <4>6
    <3> QED BY <3>5, <3>6
  <2>3. N - M \in Nat
    BY <1>3
  <2> HIDE DEF Longer
  <2> QED BY <2>1, <2>2, <2>3, Induction
<1>7. a[M] = b[M]
  BY <1>3, <1>4
<1>8. Begins(b[M], b[N])
  <2> HIDE DEF M, N
  <2>1. N - M \in 0 .. N - M /\ M + (N - M) = N
    BY <1>3
  <2>2. N - M \in Longer
    BY <1>6, <2>1
  <2>3. Begins(b[M], b[M + (N - M)])
    BY <2>2
  <2> QED BY <2>1, <2>3
<1> QED BY <1>1, <1>2, <1>7, <1>8

\* A key that is at most once in a sequence, at p or, if p is behind its end, nowhere:
\* taking it out closes the gap.
LEMMA WithoutOne ==
  ASSUME NEW K, NEW s \in Seq(K), NEW key, NEW p \in 1 .. Len(s) + 1,
         \A i \in 1 .. Len(s) : s[i] = key <=> i = p
  PROVE  /\ Len(Without(s, { key })) = IF p = Len(s) + 1 THEN Len(s) ELSE Len(s) - 1
         /\ \A i \in 1 .. Len(Without(s, { key })) :
              Without(s, { key })[i] = IF i < p THEN s[i] ELSE s[i + 1]
<1>1. PICK kept : Retains(kept, K, s, { key }) /\ Without(s, { key }) = kept[Len(s)]
  BY WithoutUnfolds
<1> DEFINE N == Len(s)
           Good(n) == /\ Len(kept[n]) = IF n < p THEN n ELSE n - 1
                      /\ \A i \in 1 .. Len(kept[n]) :
                           kept[n][i] = IF i < p THEN s[i] ELSE s[i + 1]
           T == { n \in 0 .. N : Good(n) }
<1>2. N \in Nat /\ p \in 1 .. N + 1
  OBVIOUS
<1>3. \A n \in 0 .. N : kept[n] \in Seq(K)
  <2> HIDE DEF N
  <2>1. kept \in [0 .. N -> Seq(K)]
    BY <1>1 DEF Retains, N
  <2> QED BY <2>1
<1>4. 0 \in T
  <2>1. kept[0] = << >> /\ Len(<< >>) = 0
    BY <1>1 DEF Retains
  <2> QED BY <1>2, <2>1
<1>5. ASSUME NEW n \in 0 .. N - 1, n \in T PROVE n + 1 \in T
  <2>1. n + 1 \in 1 .. N /\ n + 1 \in 0 .. N /\ (n + 1) - 1 = n /\ n \in 0 .. N /\ n \in Nat
    BY <1>2
  <2>2. s[n + 1] \in K /\ (s[n + 1] = key <=> n + 1 = p)
    BY <2>1, ElementOfSeq
  <2>3. kept[n + 1] = IF n + 1 = p THEN kept[n] ELSE Append(kept[n], s[n + 1])
    BY <1>1, <2>1, <2>2 DEF Retains
  <2>4. Good(n)
    BY <1>5
  <2> HIDE DEF N
  <2>5. CASE n + 1 = p
    BY <1>2, <2>1, <2>3, <2>4, <2>5
  <2>6. CASE n + 1 # p
    <3> DEFINE a == kept[n]
               b == kept[n + 1]
    <3>1. /\ Len(b) = Len(a) + 1 /\ Len(a) \in Nat /\ b[Len(a) + 1] = s[n + 1]
          /\ \A i \in 1 .. Len(a) : b[i] = a[i]
      BY <2>1, <2>2, <2>3, <2>6, <1>3, OneMore
    <3>2. /\ Len(a) = IF n < p THEN n ELSE n - 1
          /\ \A i \in 1 .. Len(a) : a[i] = IF i < p THEN s[i] ELSE s[i + 1]
      BY <2>4
    <3> HIDE DEF a, b
    <3>3. Len(b) = IF n + 1 < p THEN n + 1 ELSE (n + 1) - 1
      BY <1>2, <2>1, <2>6, <3>1, <3>2
    <3>4. ASSUME NEW i \in 1 .. Len(b)
          PROVE  b[i] = IF i < p THEN s[i] ELSE s[i + 1]
      <4>1. CASE i \in 1 .. Len(a)
        BY <3>1, <3>2, <4>1
      <4>2. CASE i = Len(a) + 1
        BY <1>2, <2>1, <2>6, <3>1, <3>2, <4>2
      <4> QED BY <3>1, <4>1, <4>2
    <3> QED BY <2>1, <3>3, <3>4 DEF b
  <2> QED BY <2>5, <2>6
<1> HIDE DEF T
<1>6. 0 .. N \subseteq T
  BY <1>2, <1>4, <1>5, Induction
<1>7. Good(N)
  <2>1. N \in T
    BY <1>2, <1>6
  <2> QED BY <2>1 DEF T
<1>8. N < p <=> p = N + 1
  BY <1>2
<1> HIDE DEF N
<1>9. /\ Len(kept[N]) = IF p = N + 1 THEN N ELSE N - 1
      /\ \A i \in 1 .. Len(kept[N]) :
           kept[N][i] = IF i < p THEN s[i] ELSE s[i + 1]
  BY <1>7, <1>8
<1> QED BY <1>1, <1>9 DEF N

-----------------------------------------------------------------------------
(* Orders.                                                                 *)

\* A key pushed in front.
LEMMA Pushed ==
  ASSUME NEW K, NEW s \in Seq(K), NEW key \in K
  PROVE  /\ << key >> \o s \in Seq(K) /\ Len(<< key >> \o s) = Len(s) + 1
         /\ Len(s) \in Nat /\ (<< key >> \o s)[1] = key
         /\ \A i \in 1 .. Len(s) : (<< key >> \o s)[i + 1] = s[i]
<1> DEFINE one == << key >>
<1>1. one \in Seq(K) /\ Len(one) = 1 /\ one[1] = key
  OBVIOUS
<1>2. Len(s) \in Nat
  OBVIOUS
<1> HIDE DEF one
<1>3. /\ one \o s \in Seq(K) /\ Len(one \o s) = 1 + Len(s)
      /\ \A i \in 1 .. 1 + Len(s) : (one \o s)[i] = IF i <= 1 THEN one[i] ELSE s[i - 1]
  <2>1. /\ one \o s \in Seq(K) /\ Len(one \o s) = Len(one) + Len(s)
        /\ \A i \in 1 .. Len(one) + Len(s) :
             (one \o s)[i] = IF i <= Len(one) THEN one[i] ELSE s[i - Len(one)]
    BY <1>1, ConcatProperties
  <2> QED BY <1>1, <2>1
<1>4. (one \o s)[1] = key
  BY <1>1, <1>2, <1>3
<1>5. ASSUME NEW i \in 1 .. Len(s) PROVE (one \o s)[i + 1] = s[i]
  <2>1. i + 1 \in 1 .. 1 + Len(s) /\ ~(i + 1 <= 1) /\ (i + 1) - 1 = i
    BY <1>2
  <2> QED BY <1>3, <2>1
<1> QED BY <1>2, <1>3, <1>4, <1>5 DEF one

\* ... keeps the sequence free of duplicates when it was not in it.
LEMMA PushedIsInjective ==
  ASSUME NEW K, NEW s \in Seq(K), NEW key \in K, IsInjective(s), key \notin ToSet(s)
  PROVE  /\ IsInjective(<< key >> \o s)
         /\ ToSet(<< key >> \o s) = ToSet(s) \cup { key }
<1> DEFINE q == << key >> \o s
<1>1. /\ q \in Seq(K) /\ Len(q) = Len(s) + 1 /\ Len(s) \in Nat /\ q[1] = key
      /\ \A i \in 1 .. Len(s) : q[i + 1] = s[i]
  BY Pushed
<1> HIDE DEF q
<1>2. DOMAIN q = 1 .. Len(s) + 1 /\ DOMAIN s = 1 .. Len(s)
  BY <1>1, LenProperties
<1>3. \A j \in DOMAIN q : j = 1 \/ (j - 1 \in DOMAIN s /\ q[j] = s[j - 1])
  <2>1. ASSUME NEW j \in 1 .. Len(s) + 1, j # 1
        PROVE  j - 1 \in 1 .. Len(s) /\ q[j] = s[j - 1]
    <3>1. j - 1 \in 1 .. Len(s) /\ (j - 1) + 1 = j
      BY <1>1, <2>1
    <3> QED BY <1>1, <3>1
  <2> QED BY <1>2, <2>1
<1>4. \A i \in DOMAIN s : i + 1 \in DOMAIN q /\ q[i + 1] = s[i]
  BY <1>1, <1>2
<1>5. \A i \in DOMAIN s : s[i] # key
  BY DEF ToSet
<1>6. IsInjective(q)
  <2> SUFFICES ASSUME NEW a \in DOMAIN q, NEW b \in DOMAIN q, q[a] = q[b] PROVE a = b
    BY DEF IsInjective
  <2>1. CASE a = 1 \/ b = 1
    BY <2>1, <1>1, <1>3, <1>5
  <2>2. CASE a # 1 /\ b # 1
    <3>1. /\ a - 1 \in DOMAIN s /\ b - 1 \in DOMAIN s
          /\ s[a - 1] = s[b - 1]
      BY <2>2, <1>3
    <3>2. \A i, j \in DOMAIN s : s[i] = s[j] => i = j
      BY DEF IsInjective
    <3>3. a - 1 = b - 1
      BY <3>1, <3>2
    <3>4. a \in Int /\ b \in Int
      BY <1>1, <1>2
    <3> QED BY <3>3, <3>4
  <2> QED BY <2>1, <2>2
<1>7. ToSet(q) = ToSet(s) \cup { key }
  <2>1. 1 \in DOMAIN q /\ q[1] = key
    BY <1>1, <1>2
  <2>2. \A j \in DOMAIN q : q[j] \in ToSet(s) \cup { key }
    BY <1>3, <2>1 DEF ToSet
  <2>3. \A i \in DOMAIN s : s[i] \in ToSet(q)
    BY <1>4 DEF ToSet
  <2>4. key \in ToSet(q)
    BY <2>1 DEF ToSet
  <2>5. ToSet(q) \subseteq ToSet(s) \cup { key }
    BY <2>2 DEF ToSet
  <2>6. ToSet(s) \subseteq ToSet(q)
    BY <2>3 DEF ToSet
  <2> QED BY <2>4, <2>5, <2>6
<1> QED BY <1>6, <1>7 DEF q

\* Touching the key at p moves it to the front and those before it back by one
\* (PageCache::touch).
LEMMA TouchedMoves ==
  ASSUME NEW K, NEW s \in Seq(K), IsInjective(s), NEW p \in 1 .. Len(s)
  PROVE  /\ Touched(s, s[p]) \in Seq(K) /\ Len(Touched(s, s[p])) = Len(s)
         /\ \A i \in 1 .. Len(s) :
              Touched(s, s[p])[i] = IF i = 1 THEN s[p]
                                    ELSE IF i <= p THEN s[i - 1] ELSE s[i]
<1> DEFINE key == s[p]
           before == SubSeq(s, 1, p - 1)
           after == SubSeq(s, p + 1, Len(s))
<1>1. Len(s) \in Nat /\ DOMAIN s = 1 .. Len(s) /\ p \in Nat /\ key \in K
  BY LenProperties, ElementOfSeq
<1>2. Positions(s, key) = { p }
  BY <1>1 DEF Positions, IsInjective
<1>3. Touched(s, key) = << key >> \o before \o after
  <2>1. (CHOOSE i \in Positions(s, key) : \A j \in Positions(s, key) : i <= j) = p
    <3>1. p <= p
      BY <1>1
    <3> HIDE DEF key
    <3> QED BY <1>2, <3>1
  <2>2. Positions(s, key) # {}
    BY <1>2
  <2> HIDE DEF key
  <2> QED BY <2>1, <2>2 DEF Touched
<1>4. /\ before \in Seq(K) /\ Len(before) = p - 1
      /\ \A i \in 1 .. p - 1 : before[i] = s[i]
  <2>1. \A i \in 1 .. p - 1 : s[i] \in K
    BY <1>1, ElementOfSeq
  <2>2. /\ before \in Seq(K)
        /\ Len(before) = IF 1 <= p - 1 THEN (p - 1) - 1 + 1 ELSE 0
        /\ \A i \in 1 .. (p - 1) - 1 + 1 : before[i] = s[1 + i - 1]
    BY <1>1, <2>1, SubSeqProperties
  <2> HIDE DEF before
  <2>3. Len(before) = p - 1
    <3>1. CASE p = 1
      BY <1>1, <2>2, <3>1
    <3>2. CASE p # 1
      <4>1. 1 <= p - 1 /\ (p - 1) - 1 + 1 = p - 1
        BY <1>1, <3>2
      <4> QED BY <2>2, <4>1
    <3> QED BY <3>1, <3>2
  <2>4. ASSUME NEW i \in 1 .. p - 1 PROVE before[i] = s[i]
    <3>1. i \in 1 .. (p - 1) - 1 + 1 /\ 1 + i - 1 = i
      BY <1>1
    <3> QED BY <2>2, <3>1
  <2> QED BY <2>2, <2>3, <2>4
<1>5. /\ after \in Seq(K) /\ Len(after) = Len(s) - p
      /\ \A i \in 1 .. Len(s) - p : after[i] = s[p + i]
  <2>1. \A i \in p + 1 .. Len(s) : s[i] \in K
    BY <1>1, ElementOfSeq
  <2>2. /\ after \in Seq(K)
        /\ Len(after) = IF p + 1 <= Len(s) THEN Len(s) - (p + 1) + 1 ELSE 0
        /\ \A i \in 1 .. Len(s) - (p + 1) + 1 : after[i] = s[(p + 1) + i - 1]
    BY <1>1, <2>1, SubSeqProperties
  <2> HIDE DEF after
  <2>3. Len(after) = Len(s) - p
    <3>1. CASE p = Len(s)
      BY <1>1, <2>2, <3>1
    <3>2. CASE p # Len(s)
      <4>1. \A n \in Nat : \A x \in 1 .. n :
              x # n => x + 1 <= n /\ n - (x + 1) + 1 = n - x
        OBVIOUS
      <4>2. p + 1 <= Len(s) /\ Len(s) - (p + 1) + 1 = Len(s) - p
        BY <1>1, <3>2, <4>1
      <4> QED BY <2>2, <4>2
    <3> QED BY <3>1, <3>2
  <2>4. ASSUME NEW i \in 1 .. Len(s) - p PROVE after[i] = s[p + i]
    <3>1. i \in 1 .. Len(s) - (p + 1) + 1 /\ (p + 1) + i - 1 = p + i
      BY <1>1
    <3> QED BY <2>2, <3>1
  <2> QED BY <2>2, <2>3, <2>4
<1> DEFINE front == << key >> \o before
<1> HIDE DEF before, after
<1>6. /\ front \in Seq(K) /\ Len(front) = p /\ front[1] = key
      /\ \A i \in 1 .. p - 1 : front[i + 1] = s[i]
  <2> HIDE DEF key
  <2>1. /\ front \in Seq(K) /\ Len(front) = Len(before) + 1 /\ front[1] = key
        /\ \A i \in 1 .. Len(before) : front[i + 1] = before[i]
    BY <1>1, <1>4, Pushed
  <2> HIDE DEF front
  <2> QED BY <1>1, <1>4, <2>1
<1> HIDE DEF front
<1>7. /\ front \o after \in Seq(K) /\ Len(front \o after) = Len(s)
      /\ \A i \in 1 .. Len(s) :
           (front \o after)[i] = IF i <= p THEN front[i] ELSE after[i - p]
  <2>1. /\ front \o after \in Seq(K)
        /\ Len(front \o after) = Len(front) + Len(after)
        /\ \A i \in 1 .. Len(front) + Len(after) :
             (front \o after)[i] = IF i <= Len(front) THEN front[i]
                                   ELSE after[i - Len(front)]
    BY <1>5, <1>6, ConcatProperties
  <2>2. Len(front) + Len(after) = Len(s)
    BY <1>1, <1>5, <1>6
  <2> QED BY <1>6, <2>1, <2>2
<1>8. ASSUME NEW i \in 1 .. Len(s)
      PROVE  (front \o after)[i] = IF i = 1 THEN key
                                   ELSE IF i <= p THEN s[i - 1] ELSE s[i]
  <2>1. CASE i = 1
    BY <1>1, <1>6, <1>7, <2>1
  <2>2. CASE i # 1 /\ i <= p
    <3>1. i - 1 \in 1 .. p - 1 /\ (i - 1) + 1 = i
      BY <1>1, <2>2
    <3> QED BY <1>6, <1>7, <2>2, <3>1
  <2>3. CASE ~(i <= p)
    <3>1. i - p \in 1 .. Len(s) - p /\ p + (i - p) = i /\ i # 1
      BY <1>1, <2>3
    <3> QED BY <1>5, <1>7, <2>3, <3>1
  <2> QED BY <2>1, <2>2, <2>3
<1>9. Touched(s, key) = front \o after
  BY <1>3 DEF front
<1> QED BY <1>7, <1>8, <1>9

\* ... and so keeps its keys, each once.
LEMMA TouchedKeepsKeys ==
  ASSUME NEW K, NEW s \in Seq(K), IsInjective(s), NEW p \in 1 .. Len(s)
  PROVE  /\ IsInjective(Touched(s, s[p]))
         /\ ToSet(Touched(s, s[p])) = ToSet(s)
<1> DEFINE t == Touched(s, s[p])
<1>1. /\ t \in Seq(K) /\ Len(t) = Len(s)
      /\ \A i \in 1 .. Len(s) :
           t[i] = IF i = 1 THEN s[p] ELSE IF i <= p THEN s[i - 1] ELSE s[i]
  BY TouchedMoves
<1> HIDE DEF t
<1> DEFINE from(i) == IF i = 1 THEN p ELSE IF i <= p THEN i - 1 ELSE i
           to(i) == IF i = p THEN 1 ELSE IF i < p THEN i + 1 ELSE i
<1>2. Len(s) \in Nat /\ DOMAIN s = 1 .. Len(s) /\ DOMAIN t = 1 .. Len(s)
  BY <1>1, LenProperties
<1>3. \A i \in 1 .. Len(s) : from(i) \in 1 .. Len(s) /\ t[i] = s[from(i)]
  BY <1>1, <1>2
<1>4. \A i, j \in 1 .. Len(s) : from(i) = from(j) => i = j
  BY <1>2
<1>5. \A i \in 1 .. Len(s) : to(i) \in 1 .. Len(s) /\ from(to(i)) = i
  <2> SUFFICES ASSUME NEW i \in 1 .. Len(s)
               PROVE  to(i) \in 1 .. Len(s) /\ from(to(i)) = i
    OBVIOUS
  <2>1. CASE i = p
    BY <2>1, <1>2
  <2>2. CASE i < p
    BY <2>2, <1>2
  <2>3. CASE i > p
    BY <2>3, <1>2
  <2> QED BY <2>1, <2>2, <2>3, <1>2
<1> HIDE DEF from, to
<1>6. IsInjective(t)
  BY <1>2, <1>3, <1>4 DEF IsInjective
<1>7. ToSet(t) = ToSet(s)
  <2>1. \A i \in 1 .. Len(s) : to(i) \in DOMAIN t /\ t[to(i)] = s[i]
    BY <1>2, <1>3, <1>5
  <2>2. ToSet(t) \subseteq ToSet(s)
    BY <1>2, <1>3 DEF ToSet
  <2>3. \A i \in DOMAIN s : s[i] \in ToSet(t)
    BY <1>2, <2>1 DEF ToSet
  <2>4. ToSet(s) \subseteq ToSet(t)
    BY <2>3 DEF ToSet
  <2> QED BY <2>2, <2>4
<1> QED BY <1>6, <1>7 DEF t

\* Where a key is in an order without duplicates.
LEMMA PositionOf ==
  ASSUME NEW K, NEW s \in Seq(K), IsInjective(s), NEW key
  PROVE  \E p \in 1 .. Len(s) + 1 :
           /\ \A i \in 1 .. Len(s) : s[i] = key <=> i = p
           /\ key \in ToSet(s) <=> p \in 1 .. Len(s)
<1>1. Len(s) \in Nat /\ DOMAIN s = 1 .. Len(s)
  BY LenProperties
<1>2. CASE key \in ToSet(s)
  <2>1. PICK p \in 1 .. Len(s) : s[p] = key
    BY <1>1, <1>2 DEF ToSet
  <2>2. \A i \in 1 .. Len(s) : s[i] = key <=> i = p
    BY <1>1, <2>1 DEF IsInjective
  <2>3. p \in 1 .. Len(s) + 1
    BY <1>1
  <2> QED BY <1>2, <2>2, <2>3
<1>3. CASE key \notin ToSet(s)
  <2>1. \A i \in 1 .. Len(s) : s[i] # key
    BY <1>1, <1>3 DEF ToSet
  <2> DEFINE p == Len(s) + 1
  <2>2. p \in 1 .. Len(s) + 1 /\ p \notin 1 .. Len(s)
    BY <1>1
  <2>3. \A i \in 1 .. Len(s) : s[i] = key <=> i = p
    BY <2>1, <2>2
  <2> HIDE DEF p
  <2> QED BY <1>3, <2>2, <2>3
<1> QED BY <1>2, <1>3

\* Using a key keeps the recency list free of duplicates.
LEMMA MovedToFront ==
  ASSUME NEW K, NEW r \in Seq(K), IsInjective(r), NEW key \in K
  PROVE  MoveToFront(r, key) \in Seq(K) /\ IsInjective(MoveToFront(r, key))
<1>1. /\ Without(r, { key }) \in Seq(K) /\ IsInjective(Without(r, { key }))
      /\ key \notin ToSet(Without(r, { key }))
  BY WithoutLeavesRest
<1> QED BY <1>1, Pushed, PushedIsInjective DEF MoveToFront

\* A hit does to the order what it does to the recency list.
LEMMA TouchedBegins ==
  ASSUME NEW K, NEW s \in Seq(K), NEW r \in Seq(K), IsInjective(r), Begins(s, r),
         IsInjective(s), NEW p \in 1 .. Len(s)
  PROVE  Begins(Touched(s, s[p]), MoveToFront(r, s[p]))
<1> DEFINE key == s[p]
           w == Without(r, { key })
           t == Touched(s, key)
           m == << key >> \o w
<1>1. /\ Len(s) \in Nat /\ Len(r) \in Nat /\ DOMAIN r = 1 .. Len(r)
      /\ Len(s) <= Len(r) /\ \A i \in 1 .. Len(s) : s[i] = r[i]
  BY LenProperties DEF Begins
<1>2. p \in 1 .. Len(r) /\ p \in 1 .. Len(r) + 1 /\ r[p] = key /\ p # Len(r) + 1
  BY <1>1
<1>3. \A i \in 1 .. Len(r) : r[i] = key <=> i = p
  BY <1>1, <1>2 DEF IsInjective
<1>4. /\ t \in Seq(K) /\ Len(t) = Len(s)
      /\ \A i \in 1 .. Len(s) :
           t[i] = IF i = 1 THEN key ELSE IF i <= p THEN s[i - 1] ELSE s[i]
  BY TouchedMoves
<1>5. key \in K /\ w \in Seq(K)
  BY <1>2, ElementOfSeq, WithoutLeavesRest
<1> HIDE DEF key
<1>6. /\ Len(w) = Len(r) - 1
      /\ \A i \in 1 .. Len(w) : w[i] = IF i < p THEN r[i] ELSE r[i + 1]
  BY <1>2, <1>3, WithoutOne
<1> HIDE DEF w, t
<1>7. /\ Len(m) = Len(w) + 1 /\ m[1] = key
      /\ \A i \in 1 .. Len(w) : m[i + 1] = w[i]
  BY <1>5, Pushed
<1> HIDE DEF m
<1>8. ASSUME NEW i \in 1 .. Len(s) PROVE t[i] = m[i]
  <2>1. CASE i = 1
    BY <1>4, <1>7, <2>1
  <2>2. CASE i # 1
    <3>1. /\ i - 1 \in 1 .. Len(w) /\ (i - 1) + 1 = i /\ i \in 1 .. Len(r)
          /\ i - 1 \in 1 .. Len(s) /\ i - 1 \in 1 .. Len(r)
      BY <1>1, <1>6, <2>2
    <3>2. m[i] = IF i - 1 < p THEN r[i - 1] ELSE r[i]
      BY <1>6, <1>7, <3>1
    <3>3. t[i] = IF i <= p THEN s[i - 1] ELSE s[i]
      BY <1>4, <2>2
    <3>4. s[i] = r[i] /\ s[i - 1] = r[i - 1] /\ (i - 1 < p <=> i <= p)
      BY <1>1, <3>1
    <3> QED BY <3>2, <3>3, <3>4
  <2> QED BY <2>1, <2>2
<1>9. Len(t) <= Len(m)
  BY <1>1, <1>4, <1>6, <1>7
<1> QED BY <1>4, <1>8, <1>9 DEF Begins, MoveToFront, t, m, w, key

\* So does a new key, before anything is evicted.
LEMMA PushedBegins ==
  ASSUME NEW K, NEW s \in Seq(K), NEW r \in Seq(K), IsInjective(r), Begins(s, r),
         NEW key \in K, key \notin ToSet(s)
  PROVE  Begins(<< key >> \o s, MoveToFront(r, key))
<1> DEFINE w == Without(r, { key })
           q == << key >> \o s
           m == << key >> \o w
<1>1. /\ Len(s) \in Nat /\ Len(r) \in Nat /\ DOMAIN s = 1 .. Len(s)
      /\ Len(s) <= Len(r) /\ \A i \in 1 .. Len(s) : s[i] = r[i]
  BY LenProperties DEF Begins
<1>2. PICK p \in 1 .. Len(r) + 1 : /\ \A i \in 1 .. Len(r) : r[i] = key <=> i = p
                                   /\ key \in ToSet(r) <=> p \in 1 .. Len(r)
  BY PositionOf
<1>3. Len(s) < p
  <2>1. \A i \in 1 .. Len(s) : s[i] # key
    BY <1>1 DEF ToSet
  <2>2. p \notin 1 .. Len(s)
    <3> SUFFICES ASSUME p \in 1 .. Len(s) PROVE FALSE
      OBVIOUS
    <3>1. p \in 1 .. Len(r)
      BY <1>1
    <3> QED BY <1>1, <1>2, <2>1, <3>1
  <2> QED BY <1>1, <2>2
<1>4. /\ Len(w) = IF p = Len(r) + 1 THEN Len(r) ELSE Len(r) - 1
      /\ \A i \in 1 .. Len(w) : w[i] = IF i < p THEN r[i] ELSE r[i + 1]
  BY <1>2, WithoutOne
<1>5. w \in Seq(K)
  BY WithoutLeavesRest
<1> HIDE DEF w
<1>6. /\ Len(m) = Len(w) + 1 /\ m[1] = key /\ \A i \in 1 .. Len(w) : m[i + 1] = w[i]
  BY <1>5, Pushed
<1>7. /\ Len(q) = Len(s) + 1 /\ q[1] = key /\ \A i \in 1 .. Len(s) : q[i + 1] = s[i]
  BY Pushed
<1> HIDE DEF m, q
<1>8. Len(s) <= Len(w) /\ Len(w) \in Nat
  BY <1>1, <1>3, <1>4
<1>9. ASSUME NEW i \in 1 .. Len(q) PROVE q[i] = m[i]
  <2>1. CASE i = 1
    BY <1>6, <1>7, <2>1
  <2>2. CASE i # 1
    <3>1. /\ i - 1 \in 1 .. Len(s) /\ i - 1 \in 1 .. Len(w) /\ (i - 1) + 1 = i
          /\ i - 1 < p
      BY <1>1, <1>3, <1>7, <1>8, <2>2
    <3>2. m[i] = r[i - 1] /\ q[i] = s[i - 1] /\ s[i - 1] = r[i - 1]
      BY <1>1, <1>4, <1>6, <1>7, <3>1
    <3> QED BY <3>2
  <2> QED BY <2>1, <2>2
<1>10. Len(q) <= Len(m)
  BY <1>1, <1>6, <1>7, <1>8
<1> QED BY <1>9, <1>10 DEF Begins, MoveToFront, q, m, w

-----------------------------------------------------------------------------
(* The operations of the cache.                                            *)

\* The order lists the keys of the entries, each once.
InStep(c) ==
  /\ c = [order |-> c.order, entries |-> c.entries]
  /\ c.order \in Seq(Keys) /\ IsInjective(c.order)
  /\ DOMAIN c.entries = ToSet(c.order)
  /\ \A k \in DOMAIN c.entries : c.entries[k] \in Rasters

LEMMA CapacityIsPositive == EffectiveCapacity \in Nat \ {0}
  BY CapacityAssumption DEF CapacityAssumption, EffectiveCapacity

\* The keys of an order are keys.
LEMMA OrderedAreKeys ==
  ASSUME NEW K, NEW s \in Seq(K)
  PROVE  /\ ToSet(s) \subseteq K
         /\ ToSet(s) = { s[i] : i \in 1 .. Len(s) } /\ Range(s) = ToSet(s)
<1>1. DOMAIN s = 1 .. Len(s) /\ \A i \in 1 .. Len(s) : s[i] \in K
  BY LenProperties, ElementOfSeq
<1> QED BY <1>1 DEF ToSet, Range

\* An eviction pops the keys beyond the capacity and frees their entries
\* (PageCache::evict).
LEMMA EvictedFits ==
  ASSUME NEW c, InStep(c)
  PROVE  /\ InStep(Evicted(c)) /\ Len(Evicted(c).order) <= EffectiveCapacity
         /\ Begins(Evicted(c).order, c.order)
         /\ c.order # << >> => Evicted(c).order # << >>
         /\ \A k \in DOMAIN Evicted(c).entries :
              k \in DOMAIN c.entries /\ Evicted(c).entries[k] = c.entries[k]
         /\ \A k \in DOMAIN c.entries \ DOMAIN Evicted(c).entries :
              \E i \in EffectiveCapacity + 1 .. Len(c.order) : k = c.order[i]
<1> DEFINE N == EffectiveCapacity
           q == c.order
<1>1. N \in Nat /\ N >= 1 /\ q \in Seq(Keys) /\ Len(q) \in Nat /\ DOMAIN q = 1 .. Len(q)
  BY CapacityIsPositive, LenProperties DEF InStep
<1>2. CASE Len(q) <= N
  <2>1. Evicted(c) = c
    BY <1>2 DEF Evicted
  <2>2. Begins(q, q)
    BY <1>1 DEF Begins
  <2> QED BY <1>2, <2>1, <2>2
<1>3. CASE ~(Len(q) <= N)
  <2> DEFINE kept == SubSeq(q, 1, N)
             out == { q[i] : i \in N + 1 .. Len(q) }
             left == DOMAIN c.entries \ out
             e == Evicted(c)
  <2>1. e = [order |-> kept, entries |-> Restrict(c.entries, left)]
    BY <1>3 DEF Evicted
  <2>2. /\ kept \in Seq(Keys) /\ Len(kept) = N
        /\ \A i \in 1 .. N : i \in 1 .. Len(q) /\ kept[i] = q[i]
    <3>1. \A i \in 1 .. N : i \in 1 .. Len(q) /\ q[i] \in Keys
      BY <1>1, <1>3, ElementOfSeq
    <3>2. /\ kept \in Seq(Keys) /\ Len(kept) = IF 1 <= N THEN N - 1 + 1 ELSE 0
          /\ \A i \in 1 .. N - 1 + 1 : kept[i] = q[1 + i - 1]
      BY <1>1, <3>1, SubSeqProperties
    <3> HIDE DEF kept, q, N
    <3>3. Len(kept) = N
      BY <1>1, <3>2
    <3>4. ASSUME NEW i \in 1 .. N PROVE kept[i] = q[i]
      <4>1. i \in 1 .. N - 1 + 1 /\ 1 + i - 1 = i
        BY <1>1
      <4> QED BY <3>2, <4>1
    <3> QED BY <3>1, <3>2, <3>3, <3>4
  <2> HIDE DEF kept
  <2>3. DOMAIN kept = 1 .. N
    BY <2>2, LenProperties
  <2>4. IsInjective(kept)
    BY <1>1, <2>2, <2>3 DEF IsInjective, InStep
  <2>5. ToSet(kept) = left
    <3>1. DOMAIN c.entries = { q[i] : i \in 1 .. Len(q) }
      BY <1>1 DEF InStep, ToSet
    <3>2. \A i \in 1 .. Len(q) : i \in 1 .. N \/ i \in N + 1 .. Len(q)
      BY <1>1
    <3>3. \A i \in 1 .. N : q[i] \notin out
      <4>1. \A i \in 1 .. N, j \in N + 1 .. Len(q) :
              i \in 1 .. Len(q) /\ j \in 1 .. Len(q) /\ i # j
        BY <1>1, <1>3
      <4> QED BY <1>1, <4>1 DEF IsInjective, InStep
    <3> HIDE DEF q, N
    <3>4. ToSet(kept) = { q[i] : i \in 1 .. N }
      BY <2>2, <2>3 DEF ToSet
    <3> QED BY <2>2, <3>1, <3>2, <3>3, <3>4
  <2>6. /\ DOMAIN e.entries = left /\ e.order = kept
        /\ \A k \in left : e.entries[k] = c.entries[k]
        /\ e = [order |-> e.order, entries |-> e.entries]
    <3> HIDE DEF left
    <3> QED BY <2>1 DEF Restrict
  <2> HIDE DEF e, q, N
  <2>7. InStep(e)
    BY <2>2, <2>4, <2>5, <2>6 DEF InStep
  <2>8. Begins(kept, q)
    BY <1>1, <1>3, <2>2 DEF Begins
  <2>9. kept # << >>
    BY <1>1, <2>2
  <2>10. Len(e.order) <= N /\ Begins(e.order, q) /\ e.order # << >>
    BY <1>1, <2>2, <2>6, <2>8, <2>9
  <2>11. /\ \A k \in DOMAIN e.entries :
              k \in DOMAIN c.entries /\ e.entries[k] = c.entries[k]
         /\ \A k \in DOMAIN c.entries \ DOMAIN e.entries :
              \E i \in N + 1 .. Len(q) : k = q[i]
    BY <2>6
  <2> QED BY <2>7, <2>10, <2>11 DEF e, q, N
<1> QED BY <1>2, <1>3

\* A lookup changes no page and does to the order what it does to the recency list.
LEMMA GetMoves ==
  ASSUME NEW c, InStep(c), NEW key, NEW r \in Seq(Keys), IsInjective(r),
         Begins(c.order, r)
  PROVE  /\ InStep(CacheGet(c, key)) /\ CacheGet(c, key).entries = c.entries
         /\ Len(CacheGet(c, key).order) = Len(c.order)
         /\ CacheHas(c, key) => Begins(CacheGet(c, key).order, MoveToFront(r, key))
         /\ ~CacheHas(c, key) => CacheGet(c, key) = c
<1>1. CASE CacheHas(c, key)
  <2> DEFINE t == Touched(c.order, key)
  <2>1. CacheGet(c, key) = [order |-> t, entries |-> c.entries]
    BY <1>1 DEF CacheGet, InStep
  <2>2. PICK p \in 1 .. Len(c.order) : key = c.order[p]
    BY <1>1, OrderedAreKeys DEF CacheHas, InStep
  <2>3. /\ t \in Seq(Keys) /\ Len(t) = Len(c.order)
        /\ IsInjective(t) /\ ToSet(t) = ToSet(c.order)
    BY <2>2, TouchedMoves, TouchedKeepsKeys DEF InStep
  <2>4. Begins(t, MoveToFront(r, key))
    BY <2>2, TouchedBegins DEF InStep
  <2> HIDE DEF t
  <2> QED BY <1>1, <2>1, <2>3, <2>4 DEF InStep
<1>2. CASE ~CacheHas(c, key)
  BY <1>2 DEF CacheGet
<1> QED BY <1>1, <1>2

\* A put stores its page under its key, in front, and takes away at most the page that
\* was last in a full order, for a key that is new.
LEMMA PutMoves ==
  ASSUME NEW c, InStep(c), Len(c.order) <= EffectiveCapacity,
         NEW key \in Keys, NEW raster \in Rasters,
         NEW r \in Seq(Keys), IsInjective(r), Begins(c.order, r)
  PROVE  /\ InStep(CachePut(c, key, raster))
         /\ Len(CachePut(c, key, raster).order) <= EffectiveCapacity
         /\ Begins(CachePut(c, key, raster).order, MoveToFront(r, key))
         /\ \A k \in DOMAIN CachePut(c, key, raster).entries :
              /\ k \in DOMAIN c.entries \cup { key }
              /\ CachePut(c, key, raster).entries[k] =
                   IF k = key THEN raster ELSE c.entries[k]
         /\ \A k \in DOMAIN c.entries \ DOMAIN CachePut(c, key, raster).entries :
              /\ Len(c.order) = EffectiveCapacity /\ k = Last(c.order)
              /\ Head(CachePut(c, key, raster).order) \notin DOMAIN c.entries
<1> DEFINE new == CachePut(c, key, raster)
<1>1. CASE CacheHas(c, key)
  <2> DEFINE t == Touched(c.order, key)
             f == [c.entries EXCEPT ![key] = raster]
  <2>1. new = [order |-> t, entries |-> f]
    BY <1>1 DEF CachePut
  <2>2. PICK p \in 1 .. Len(c.order) : key = c.order[p]
    BY <1>1, OrderedAreKeys DEF CacheHas, InStep
  <2>3. /\ t \in Seq(Keys) /\ Len(t) = Len(c.order)
        /\ IsInjective(t) /\ ToSet(t) = ToSet(c.order)
    BY <2>2, TouchedMoves, TouchedKeepsKeys DEF InStep
  <2>4. Begins(t, MoveToFront(r, key))
    BY <2>2, TouchedBegins DEF InStep
  <2>5. /\ DOMAIN f = DOMAIN c.entries
        /\ \A k \in DOMAIN f : f[k] = IF k = key THEN raster ELSE c.entries[k]
    OBVIOUS
  <2> HIDE DEF t, f
  <2>6. InStep(new)
    BY <2>1, <2>3, <2>5 DEF InStep
  <2> HIDE DEF new
  <2> QED BY <2>1, <2>3, <2>4, <2>5, <2>6 DEF new
<1>2. CASE ~CacheHas(c, key)
  <2> DEFINE q == << key >> \o c.order
             f == [k \in DOMAIN c.entries \cup { key } |->
                     IF k = key THEN raster ELSE c.entries[k]]
             added == [order |-> q, entries |-> f]
  <2>1. new = Evicted(added)
    BY <1>2 DEF CachePut
  <2>2. key \notin ToSet(c.order) /\ c.order \in Seq(Keys) /\ IsInjective(c.order)
    BY <1>2 DEF CacheHas, InStep
  <2>3. /\ q \in Seq(Keys) /\ Len(q) = Len(c.order) + 1 /\ Len(c.order) \in Nat
        /\ q[1] = key /\ \A i \in 1 .. Len(c.order) : q[i + 1] = c.order[i]
    BY <2>2, Pushed
  <2>4. IsInjective(q) /\ ToSet(q) = ToSet(c.order) \cup { key }
    BY <2>2, PushedIsInjective
  <2>5. Begins(q, MoveToFront(r, key))
    BY <2>2, PushedBegins
  <2>6. /\ DOMAIN f = DOMAIN c.entries \cup { key }
        /\ \A k \in DOMAIN f : f[k] = IF k = key THEN raster ELSE c.entries[k]
    OBVIOUS
  <2> HIDE DEF q, f
  <2>7. InStep(added) /\ added.order = q /\ added.entries = f
    BY <2>3, <2>4, <2>6 DEF InStep
  <2> HIDE DEF added
  <2>8. /\ InStep(new) /\ Len(new.order) <= EffectiveCapacity
        /\ Begins(new.order, q) /\ new.order # << >>
        /\ \A k \in DOMAIN new.entries : k \in DOMAIN f /\ new.entries[k] = f[k]
        /\ \A k \in DOMAIN f \ DOMAIN new.entries :
             \E i \in EffectiveCapacity + 1 .. Len(q) : k = q[i]
    <3>1. q # << >>
      BY <2>3
    <3> QED BY <2>1, <2>7, <3>1, EvictedFits
  <2> HIDE DEF new
  <2>9. Len(new.order) \in Nat /\ Len(new.order) >= 1 /\ Head(new.order) = new.order[1]
    <3>1. new.order \in Seq(Keys)
      BY <2>8 DEF InStep
    <3> QED BY <2>8, <3>1
  <2>10. Begins(new.order, MoveToFront(r, key))
    <3>1. /\ Len(new.order) <= Len(q)
          /\ \A i \in 1 .. Len(new.order) : i \in 1 .. Len(q) /\ new.order[i] = q[i]
      BY <2>3, <2>8, <2>9 DEF Begins
    <3>2. MoveToFront(r, key) \in Seq(Keys)
      BY MovedToFront
    <3>3. Len(MoveToFront(r, key)) \in Nat
      BY <3>2, LenProperties
    <3> QED BY <2>3, <2>5, <2>9, <3>1, <3>3 DEF Begins
  <2>11. Head(new.order) = key
    <3>1. 1 \in 1 .. Len(new.order)
      BY <2>9
    <3> QED BY <2>3, <2>8, <2>9, <3>1 DEF Begins
  <2>12. ASSUME NEW k \in DOMAIN c.entries \ DOMAIN new.entries
         PROVE  Len(c.order) = EffectiveCapacity /\ k = Last(c.order)
    <3>1. PICK i \in EffectiveCapacity + 1 .. Len(q) : k = q[i]
      BY <2>6, <2>8
    <3>2. Len(c.order) = EffectiveCapacity /\ i = Len(c.order) + 1 /\ Len(c.order) >= 1
      BY <2>3, CapacityIsPositive
    <3>3. Len(c.order) \in 1 .. Len(c.order)
      BY <2>3, <3>2
    <3> QED BY <2>3, <3>1, <3>2, <3>3 DEF Last
  <2>13. key \notin DOMAIN c.entries
    BY <1>2 DEF CacheHas
  <2> QED BY <2>6, <2>8, <2>10, <2>11, <2>12, <2>13 DEF new
<1> QED BY <1>1, <1>2

\* A removal takes exactly the pages of the document, out of both fields
\* (PageCache::remove_document).
LEMMA RemovalMoves ==
  ASSUME NEW c, InStep(c), NEW document, NEW r \in Seq(Keys), IsInjective(r),
         Begins(c.order, r)
  PROVE  /\ InStep(CacheRemoveDocument(c, document))
         /\ Len(CacheRemoveDocument(c, document).order) <= Len(c.order)
         /\ Begins(CacheRemoveDocument(c, document).order,
                   Without(r, OfDocument(Range(r), document)))
         /\ DOMAIN CacheRemoveDocument(c, document).entries =
              DOMAIN c.entries \ OfDocument(DOMAIN c.entries, document)
         /\ \A k \in DOMAIN CacheRemoveDocument(c, document).entries :
              CacheRemoveDocument(c, document).entries[k] = c.entries[k]
<1> DEFINE new == CacheRemoveDocument(c, document)
           gone == OfDocument(Range(c.order), document)
           lost == OfDocument(Range(r), document)
           w == Without(c.order, gone)
           left == DOMAIN c.entries \ OfDocument(DOMAIN c.entries, document)
<1>1. new = [order |-> w, entries |-> Restrict(c.entries, left)]
  BY DEF CacheRemoveDocument
<1>2. c.order \in Seq(Keys) /\ IsInjective(c.order) /\ Range(c.order) = DOMAIN c.entries
  BY OrderedAreKeys DEF InStep
<1>3. /\ w \in Seq(Keys) /\ IsInjective(w) /\ ToSet(w) = ToSet(c.order) \ gone
      /\ Len(w) <= Len(c.order)
  BY <1>2, WithoutLeavesRest
<1>4. ToSet(w) = left
  BY <1>2, <1>3 DEF InStep
<1>5. Begins(w, Without(r, lost))
  <2>1. \A i \in 1 .. Len(c.order) : c.order[i] \in gone <=> c.order[i] \in lost
    <3>1. ASSUME NEW i \in 1 .. Len(c.order)
          PROVE  c.order[i] \in Range(c.order) /\ c.order[i] \in Range(r)
      <4>1. i \in DOMAIN c.order /\ i \in DOMAIN r /\ c.order[i] = r[i]
        <5>1. /\ DOMAIN c.order = 1 .. Len(c.order) /\ DOMAIN r = 1 .. Len(r)
              /\ Len(c.order) \in Nat /\ Len(r) \in Nat
          BY <1>2, LenProperties
        <5> QED BY <5>1 DEF Begins
      <4> QED BY <4>1 DEF Range
    <3> QED BY <3>1 DEF OfDocument
  <2> HIDE DEF gone, lost
  <2> QED BY <1>2, <2>1, WithoutBegins
<1> HIDE DEF w, left
<1>6. /\ new.order = w /\ DOMAIN new.entries = left
      /\ \A k \in left : new.entries[k] = c.entries[k]
      /\ new = [order |-> new.order, entries |-> new.entries]
  BY <1>1 DEF Restrict
<1>7. left \subseteq DOMAIN c.entries
  BY DEF left
<1> HIDE DEF new
<1>8. InStep(new)
  BY <1>3, <1>4, <1>6, <1>7 DEF InStep
<1> QED BY <1>3, <1>5, <1>6, <1>8 DEF new, w, left

-----------------------------------------------------------------------------
(* The inductive invariant and the steps.                                  *)

\* The order is the beginning of the recency list.  Neither half of what is promised is
\* inductive without it: what a new key pushes out is the least recently used one only
\* because it is the last of such a beginning.
IInv ==
  /\ InStep(cache) /\ Len(cache.order) <= EffectiveCapacity
  /\ recency \in Seq(Keys) /\ IsInjective(recency)
  /\ Begins(cache.order, recency)
  /\ HitIsLatest

LEMMA InitIInv == Init => IInv
<1> SUFFICES ASSUME Init PROVE IInv
  OBVIOUS
<1> DEFINE none == << >>
<1>1. /\ cache.order = none /\ DOMAIN cache.entries = {} /\ recency = none
      /\ cache = [order |-> cache.order, entries |-> cache.entries]
  BY DEF Init, EmptyCache
<1>2. none \in Seq(Keys) /\ Len(none) = 0 /\ DOMAIN none = {}
  OBVIOUS
<1> HIDE DEF none
<1>3. IsInjective(none) /\ ToSet(none) = {}
  BY <1>2 DEF IsInjective, ToSet
<1>4. InStep(cache) /\ Len(cache.order) <= EffectiveCapacity
  BY <1>1, <1>2, <1>3, CapacityIsPositive DEF InStep
<1>5. Begins(cache.order, recency) /\ HitIsLatest
  BY <1>1, <1>2 DEF Begins, HitIsLatest
<1> QED BY <1>1, <1>2, <1>3, <1>4, <1>5 DEF IInv

\* What a page may leave the cache for.
Justified ==
  \A k \in DOMAIN cache.entries \ DOMAIN cache'.entries :
    \/ k \notin ToSet(recency')
    \/ /\ Len(cache.order) = EffectiveCapacity
       /\ k = Last(cache.order)
       /\ Head(cache'.order) \notin DOMAIN cache.entries

LEMMA KeyInKeys ==
  ASSUME NEW d \in Documents, NEW p \in Pages, NEW t \in Targets
  PROVE  CacheKey(d, p, t) \in Keys
  BY DEF CacheKey, Keys

LEMMA GetStep ==
  ASSUME IInv, NEW key \in Keys, Get(key)
  PROVE  IInv' /\ Justified
<1>1. /\ InStep(cache') /\ cache'.entries = cache.entries
      /\ Len(cache'.order) = Len(cache.order)
      /\ CacheHas(cache, key) => Begins(cache'.order, MoveToFront(recency, key))
      /\ ~CacheHas(cache, key) => cache' = cache
  BY GetMoves DEF IInv, Get
<1>2. /\ recency' \in Seq(Keys) /\ IsInjective(recency')
      /\ Begins(cache'.order, recency')
  <2>1. CASE CacheHas(cache, key)
    BY <1>1, <2>1, MovedToFront DEF IInv, Get
  <2>2. CASE ~CacheHas(cache, key)
    BY <1>1, <2>2 DEF IInv, Get
  <2> QED BY <2>1, <2>2
<1>3. HitIsLatest'
  BY <1>1 DEF IInv, HitIsLatest, Get
<1> QED BY <1>1, <1>2, <1>3 DEF IInv, Justified

LEMMA PutStep ==
  ASSUME IInv, NEW key \in Keys, NEW raster \in Rasters, Put(key, raster)
  PROVE  IInv' /\ Justified
<1>1. /\ InStep(cache') /\ Len(cache'.order) <= EffectiveCapacity
      /\ Begins(cache'.order, recency')
      /\ \A k \in DOMAIN cache'.entries :
           /\ k \in DOMAIN cache.entries \cup { key }
           /\ cache'.entries[k] = IF k = key THEN raster ELSE cache.entries[k]
      /\ \A k \in DOMAIN cache.entries \ DOMAIN cache'.entries :
           /\ Len(cache.order) = EffectiveCapacity /\ k = Last(cache.order)
           /\ Head(cache'.order) \notin DOMAIN cache.entries
  BY PutMoves DEF IInv, Put
<1>2. recency' \in Seq(Keys) /\ IsInjective(recency')
  BY MovedToFront DEF IInv, Put
<1>3. HitIsLatest'
  <2>1. /\ DOMAIN latest' = DOMAIN latest \cup { key }
        /\ \A k \in DOMAIN latest' : latest'[k] = IF k = key THEN raster ELSE latest[k]
    BY DEF Put
  <2> QED BY <1>1, <2>1 DEF IInv, HitIsLatest
<1>4. Justified
  BY <1>1 DEF Justified
<1> QED BY <1>1, <1>2, <1>3, <1>4 DEF IInv

LEMMA RemoveDocumentStep ==
  ASSUME IInv, NEW document \in Documents, RemoveDocument(document)
  PROVE  IInv' /\ Justified
<1>1. /\ InStep(cache') /\ Len(cache'.order) <= Len(cache.order)
      /\ Begins(cache'.order, recency')
      /\ DOMAIN cache'.entries =
           DOMAIN cache.entries \ OfDocument(DOMAIN cache.entries, document)
      /\ \A k \in DOMAIN cache'.entries : cache'.entries[k] = cache.entries[k]
  BY RemovalMoves DEF IInv, RemoveDocument
<1>2. /\ recency' \in Seq(Keys) /\ IsInjective(recency')
      /\ ToSet(recency') = ToSet(recency) \ OfDocument(Range(recency), document)
  BY WithoutLeavesRest DEF IInv, RemoveDocument
<1>3. Len(cache'.order) <= EffectiveCapacity
  <2>1. Len(cache'.order) \in Nat /\ Len(cache.order) \in Nat
    BY <1>1, LenProperties DEF IInv, InStep
  <2> QED BY <1>1, <2>1, CapacityIsPositive DEF IInv
<1>4. HitIsLatest'
  <2>1. /\ DOMAIN latest' = DOMAIN latest \ OfDocument(DOMAIN latest, document)
        /\ \A k \in DOMAIN latest' : latest'[k] = latest[k]
    BY DEF RemoveDocument, Restrict
  <2> QED BY <1>1, <2>1 DEF IInv, HitIsLatest, OfDocument
<1>5. Justified
  <2>1. Range(recency) = ToSet(recency)
    BY OrderedAreKeys DEF IInv
  <2> QED BY <1>1, <1>2, <2>1 DEF Justified, OfDocument
<1> QED BY <1>1, <1>2, <1>3, <1>4, <1>5 DEF IInv

LEMMA NextStep ==
  ASSUME IInv, [Next]_vars
  PROVE  IInv' /\ (UNCHANGED vars \/ Justified)
<1>1. CASE UNCHANGED vars
  <2>1. cache' = cache /\ recency' = recency /\ latest' = latest
    BY <1>1 DEF vars
  <2> QED BY <1>1, <2>1 DEF IInv, HitIsLatest
<1>2. CASE Next
  <2>1. \/ \E key \in Keys : Get(key) \/ \E raster \in Rasters : Put(key, raster)
        \/ \E document \in Documents : RemoveDocument(document)
    BY <1>2, KeyInKeys DEF Next
  <2> QED BY <2>1, GetStep, PutStep, RemoveDocumentStep
<1> QED BY <1>1, <1>2

-----------------------------------------------------------------------------

\* Whatever sequence of calls the cache gets, its order is the beginning of the recency
\* list and indexes its entries, and its entries are what was put last (cache.rs).
THEOREM CacheInvariance == Spec => []IInv
<1>1. IInv /\ [Next]_vars => IInv'
  BY NextStep
<1> QED BY <1>1, InitIInv, PTL DEF Spec

\* `order` and `entries` never get out of step and never hold more than the capacity
\* (PageCache::touch, evict, remove_document).
THEOREM CacheTypes == Spec => []TypeOK
<1>1. IInv => TypeOK
  BY OrderedAreKeys DEF IInv, InStep, TypeOK, OrderIndexesEntries
<1> QED BY <1>1, CacheInvariance, PTL

\* A hit returns what was put last under its key (PageCache::get, put).
THEOREM HitsAreLatest == Spec => []HitIsLatest
<1>1. IInv => HitIsLatest
  BY DEF IInv
<1> QED BY <1>1, CacheInvariance, PTL

\* A page leaves the cache with its document or as the least recently used one of a full
\* cache, when a new key comes in, and never otherwise (PageCache::evict).
THEOREM EvictsLeastRecentlyUsed == Spec => KeepsMostRecentlyUsed
<1>1. IInv' => IsPrefix(cache'.order, recency')
  <2> SUFFICES ASSUME IInv' PROVE IsPrefix(cache'.order, recency')
    OBVIOUS
  <2> DEFINE s == cache'.order
             t == recency'
  <2>1. s \in Seq(Keys) /\ t \in Seq(Keys) /\ Begins(s, t)
    BY DEF IInv, InStep
  <2>2. Len(s) \in Nat /\ Len(t) \in Nat
    BY <2>1, LenProperties
  <2> HIDE DEF s, t
  <2>3. SubSeq(s, 1, Len(s)) = SubSeq(t, 1, Len(s))
    BY <2>1, <2>2 DEF Begins
  <2> QED BY <2>1, <2>3 DEF IsPrefix, Begins, s, t
<1>2. IInv /\ [Next]_vars =>
        [ /\ IsPrefix(cache'.order, recency')
          /\ \A k \in DOMAIN cache.entries \ DOMAIN cache'.entries :
               \/ k \notin ToSet(recency')
               \/ /\ Len(cache.order) = EffectiveCapacity
                  /\ k = Last(cache.order)
                  /\ Head(cache'.order) \notin DOMAIN cache.entries ]_vars
  BY <1>1, NextStep DEF Justified
<1> QED BY <1>2, CacheInvariance, PTL DEF Spec, KeepsMostRecentlyUsed
================================================================================
