----------------------------- MODULE DataLemmas -----------------------------
(***************************************************************************)
(* Facts on numbers and sequences that the proofs about files and buffers  *)
(* share.  Induction is over a set of numbers in place of a predicate,     *)
(* since the backends are first-order.                                     *)
(***************************************************************************)
EXTENDS Integers, Sequences, SequenceTheorems, WellFoundedInduction, TLAPS

\* A set of natural numbers that is not empty has a least.
LEMMA LeastIn ==
  ASSUME NEW T \in SUBSET Nat, T # {}
  PROVE  \E x \in T : \A y \in T : x <= y
<1>1. PICK x \in T : \A y \in T : ~ (<<y, x>> \in OpToRel(<, Nat))
  BY NatLessThanWellFounded, WFMin
<1>2. ASSUME NEW y \in T PROVE x <= y
  <2>1. x \in Nat /\ y \in Nat
    OBVIOUS
  <2>2. y < x => <<y, x>> \in OpToRel(<, Nat)
    BY <2>1 DEF OpToRel
  <2>3. ~ (y < x)
    BY <1>1, <1>2, <2>2
  <2> QED BY <2>1, <2>3
<1> QED BY <1>1, <1>2

\* A set that holds 0 and the successor of what it holds holds every number.
LEMMA Inductive ==
  ASSUME NEW T \in SUBSET Nat, 0 \in T, \A n \in T : n + 1 \in T
  PROVE  T = Nat
<1>1. SUFFICES ASSUME Nat \ T # {} PROVE FALSE
  OBVIOUS
<1>2. PICK x \in Nat \ T : \A y \in Nat \ T : x <= y
  BY <1>1, LeastIn
<1>3. x - 1 \in Nat /\ x - 1 < x
  <2>1. x \in Nat /\ x # 0
    BY <1>2
  <2> QED BY <2>1
<1>4. x - 1 \in T
  BY <1>2, <1>3
<1> QED BY <1>2, <1>3, <1>4

\* A function that is t at 1, and wherever it was t before, is t throughout.
LEMMA Steady ==
  ASSUME NEW f, NEW t, NEW R \in Nat \ {0},
         f[1] = t, \A n \in 2 .. R : f[n - 1] = t => f[n] = t
  PROVE  f[R] = t
<1> DEFINE T == {n \in Nat : n + 1 \in 1 .. R => f[n + 1] = t}
<1>1. 0 \in T
  OBVIOUS
<1>2. ASSUME NEW n \in T PROVE n + 1 \in T
  <2>1. ASSUME NEW k \in 1 .. R, k = n + 1 + 1 PROVE f[k] = t
    <3>1. n + 1 \in 1 .. R /\ k \in 2 .. R /\ k - 1 = n + 1
      BY <2>1
    <3> QED BY <3>1
  <2>2. n + 1 + 1 \in 1 .. R => f[n + 1 + 1] = t
    BY <2>1
  <2> QED BY <2>2
<1>3. T \in SUBSET Nat
  OBVIOUS
<1>4. R - 1 \in Nat /\ R - 1 + 1 = R /\ R \in 1 .. R
  OBVIOUS
<1> HIDE DEF T
<1>5. R - 1 \in T
  BY <1>1, <1>2, <1>3, <1>4, Inductive
<1> QED BY <1>4, <1>5 DEF T

\* Functions that agree at b, and at a number when they agree before it.
Together(f, g, b, R) ==
  f[b] = g[b] /\ \A n \in b + 1 .. R : f[n - 1] = g[n - 1] => f[n] = g[n]

LEMMA Agree ==
  ASSUME NEW f, NEW g, NEW b \in Nat, NEW R \in Nat, Together(f, g, b, R)
  PROVE  \A n \in b .. R : f[n] = g[n]
<1> DEFINE T == {n \in Nat : b + n \in b .. R => f[b + n] = g[b + n]}
<1>1. 0 \in T
  BY DEF Together
<1>2. ASSUME NEW n \in T PROVE n + 1 \in T
  <2>1. ASSUME NEW k \in b .. R, k = b + (n + 1) PROVE f[k] = g[k]
    <3>1. k \in b + 1 .. R /\ k - 1 = b + n /\ b + n \in b .. R
      BY <2>1
    <3> QED BY <3>1 DEF Together
  <2>2. b + (n + 1) \in b .. R => f[b + (n + 1)] = g[b + (n + 1)]
    BY <2>1
  <2> QED BY <2>2
<1>3. T \in SUBSET Nat
  OBVIOUS
<1> HIDE DEF T
<1>4. T = Nat
  BY <1>1, <1>2, <1>3, Inductive
<1>5. ASSUME NEW n \in b .. R PROVE f[n] = g[n]
  <2>1. n - b \in T /\ b + (n - b) = n
    BY <1>4
  <2>2. b + (n - b) \in b .. R => f[b + (n - b)] = g[b + (n - b)]
    BY <2>1 DEF T
  <2> QED BY <2>1, <2>2
<1> QED BY <1>5

\* What a start and a step define is there for every number.
Machine(V, v, G) == v \in V /\ G \in [Nat \X V -> V]
Run(f, v, G) == f[0] = v /\ \A n \in Nat : f[n + 1] = G[<<n, f[n]>>]

LEMMA Recursion ==
  ASSUME NEW V, NEW v, NEW G, Machine(V, v, G)
  PROVE  \E f \in [Nat -> V] : Run(f, v, G)
<1> USE DEF Machine
<1> DEFINE Runs(f, R) == f[0] = v /\ \A n \in 0 .. R - 1 : f[n + 1] = G[<<n, f[n]>>]
           T == {R \in Nat : \E f \in [0 .. R -> V] : Runs(f, R)}
<1>1. 0 \in T
  <2>1. [n \in 0 .. 0 |-> v] \in [0 .. 0 -> V] /\ Runs([n \in 0 .. 0 |-> v], 0)
    OBVIOUS
  <2> QED BY <2>1
<1>2. ASSUME NEW R \in T PROVE R + 1 \in T
  <2>1. PICK f \in [0 .. R -> V] : Runs(f, R)
    OBVIOUS
  <2> DEFINE g == [n \in 0 .. R + 1 |-> IF n = R + 1 THEN G[<<R, f[R]>>] ELSE f[n]]
  <2>2. g \in [0 .. R + 1 -> V]
    <3>1. f[R] \in V /\ <<R, f[R]>> \in Nat \X V
      OBVIOUS
    <3>2. \A n \in 0 .. R + 1 : n # R + 1 => n \in 0 .. R
      OBVIOUS
    <3> QED BY <3>1, <3>2
  <2>3. Runs(g, R + 1)
    <3>1. g[0] = f[0] /\ \A n \in 0 .. R : g[n] = f[n]
      OBVIOUS
    <3>2. g[R + 1] = G[<<R, f[R]>>]
      OBVIOUS
    <3> HIDE DEF g
    <3>3. ASSUME NEW n \in 0 .. R + 1 - 1 PROVE g[n + 1] = G[<<n, g[n]>>]
      <4>1. CASE n = R
        BY <3>1, <3>2, <4>1
      <4>2. CASE n # R
        <5>1. n \in 0 .. R - 1 /\ n + 1 \in 0 .. R /\ n \in 0 .. R
          BY <4>2
        <5> QED BY <2>1, <3>1, <5>1
      <4> QED BY <4>1, <4>2
    <3> QED BY <2>1, <3>1, <3>3
  <2> HIDE DEF g
  <2> QED BY <2>2, <2>3
<1>3. T = Nat
  <2>1. T \in SUBSET Nat
    OBVIOUS
  <2> HIDE DEF T
  <2> QED BY <1>1, <1>2, <2>1, Inductive
<1> DEFINE run(R) == CHOOSE f \in [0 .. R -> V] : Runs(f, R)
           F == [R \in Nat |-> run(R)[R]]
<1>4. ASSUME NEW R \in Nat PROVE run(R) \in [0 .. R -> V] /\ Runs(run(R), R)
  <2>1. \E f \in [0 .. R -> V] : Runs(f, R)
    BY <1>3
  <2> HIDE DEF Runs
  <2> QED BY <2>1
<1> HIDE DEF run
<1>5. F \in [Nat -> V]
  <2>1. ASSUME NEW R \in Nat PROVE run(R)[R] \in V
    BY <1>4
  <2> QED BY <2>1
<1>6. F[0] = v
  BY <1>4
<1>7. ASSUME NEW R \in Nat PROVE F[R + 1] = G[<<R, F[R]>>]
  <2>1. Runs(run(R), R) /\ Runs(run(R + 1), R + 1)
    BY <1>4
  <2> DEFINE f == run(R)
             g == run(R + 1)
  <2>2. /\ f[0] = v /\ \A n \in 0 .. R - 1 : f[n + 1] = G[<<n, f[n]>>]
        /\ g[0] = v /\ \A n \in 0 .. R : g[n + 1] = G[<<n, g[n]>>]
    BY <2>1
  <2>3. F[R] = f[R] /\ F[R + 1] = g[R + 1]
    OBVIOUS
  <2> HIDE DEF f, g
  <2>4. ASSUME NEW n \in 0 + 1 .. R, f[n - 1] = g[n - 1] PROVE f[n] = g[n]
    <3>1. n - 1 \in 0 .. R - 1 /\ n - 1 \in 0 .. R /\ n - 1 + 1 = n
      OBVIOUS
    <3>2. f[n - 1 + 1] = G[<<n - 1, f[n - 1]>>] /\ g[n - 1 + 1] = G[<<n - 1, g[n - 1]>>]
      BY <2>2, <3>1
    <3> QED BY <2>4, <3>1, <3>2
  <2>5. \A n \in 0 .. R : f[n] = g[n]
    <3>1. f[0] = g[0] /\ 0 \in Nat
      BY <2>2
    <3>2. \A n \in 0 + 1 .. R : f[n - 1] = g[n - 1] => f[n] = g[n]
      BY <2>4
    <3>3. Together(f, g, 0, R)
      BY <3>1, <3>2 DEF Together
    <3> QED BY <3>1, <3>3, Agree
  <2>6. R \in 0 .. R
    OBVIOUS
  <2>7. f[R] = g[R] /\ g[R + 1] = G[<<R, g[R]>>]
    BY <2>2, <2>5, <2>6
  <2> QED BY <2>3, <2>7
<1> QED BY <1>5, <1>6, <1>7 DEF Run

-----------------------------------------------------------------------------
\* The elements of a concatenation, and of a part of a sequence.
LEMMA ConcatIs ==
  ASSUME NEW S, NEW s \in Seq(S), NEW t \in Seq(S)
  PROVE  /\ s \o t \in Seq(S) /\ Len(s \o t) = Len(s) + Len(t)
         /\ Len(s) \in Nat /\ Len(t) \in Nat
         /\ \A i \in 1 .. Len(s) : (s \o t)[i] = s[i]
         /\ \A i \in 1 .. Len(t) : (s \o t)[Len(s) + i] = t[i]
<1> DEFINE u == s \o t
           m == Len(s)
           n == Len(t)
<1>1. m \in Nat /\ n \in Nat
  BY LenProperties
<1>2. /\ u \in Seq(S) /\ Len(u) = m + n
      /\ \A i \in 1 .. m + n : u[i] = IF i <= m THEN s[i] ELSE t[i - m]
  BY ConcatProperties
<1> HIDE DEF u, m, n
<1>3. \A i \in 1 .. m : u[i] = s[i]
  BY <1>1, <1>2
<1>4. ASSUME NEW i \in 1 .. n PROVE u[m + i] = t[i]
  <2>1. ASSUME NEW j, j = m + i PROVE u[j] = t[i]
    <3>1. j \in 1 .. m + n /\ ~ (j <= m) /\ j - m = i
      BY <1>1, <2>1
    <3>2. u[j] = t[j - m]
      BY <1>2, <3>1
    <3> QED BY <3>1, <3>2
  <2> QED BY <2>1
<1> QED BY <1>1, <1>2, <1>3, <1>4 DEF u, m, n

LEMMA SubSeqIs ==
  ASSUME NEW S, NEW s \in Seq(S), NEW m \in Nat \ {0}, NEW n \in Nat,
         m <= n + 1, n <= Len(s)
  PROVE  /\ SubSeq(s, m, n) \in Seq(S) /\ Len(SubSeq(s, m, n)) = n + 1 - m
         /\ \A i \in 1 .. n + 1 - m : SubSeq(s, m, n)[i] = s[m + i - 1]
<1> DEFINE u == SubSeq(s, m, n)
<1>1. \A i \in m .. n : s[i] \in S
  <2>1. \A i \in 1 .. Len(s) : s[i] \in S
    BY ElementOfSeq
  <2>2. Len(s) \in Nat
    BY LenProperties
  <2> QED BY <2>1, <2>2
<1>2. /\ u \in Seq(S) /\ Len(u) = IF m <= n THEN n - m + 1 ELSE 0
      /\ \A i \in 1 .. n - m + 1 : u[i] = s[m + i - 1]
  <2>1. m \in Int /\ n \in Int
    OBVIOUS
  <2> QED BY <1>1, <2>1, SubSeqProperties
<1> HIDE DEF u
<1>3. n - m + 1 = n + 1 - m /\ (~ (m <= n) => n + 1 - m = 0)
  OBVIOUS
<1> QED BY <1>2, <1>3 DEF u

\* What a concatenation has behind its first part is its second.
LEMMA BehindFirst ==
  ASSUME NEW S, NEW s \in Seq(S), NEW t \in Seq(S)
  PROVE  SubSeq(s \o t, Len(s) + 1, Len(s \o t)) = t
<1>1. /\ Len(s) \in Nat /\ Len(t) \in Nat /\ s \o t \in Seq(S) /\ Len(s \o t) = Len(s) + Len(t)
      /\ \A j \in 1 .. Len(s) + Len(t) : j > Len(s) => (s \o t)[j] = t[j - Len(s)]
  BY ConcatProperties, LenProperties
<1>2. ASSUME NEW u \in Seq(S), NEW l \in Nat, Len(u) = l + Len(t),
             \A j \in 1 .. l + Len(t) : j > l => u[j] = t[j - l]
      PROVE  SubSeq(u, l + 1, Len(u)) = t
  <2> DEFINE m == l + 1
             n == Len(u)
             v == SubSeq(u, m, n)
  <2>1. m \in Int /\ n \in Int /\ \A i \in m .. n : u[i] \in S
    <3>1. \A i \in 1 .. Len(u) : u[i] \in S
      BY ElementOfSeq
    <3> QED BY <1>1, <1>2, <3>1
  <2>2. m = l + 1 /\ n = l + Len(t)
    BY <1>2
  <2> HIDE DEF m, n
  <2>3. /\ v \in Seq(S)
        /\ Len(v) = IF m <= n THEN n - m + 1 ELSE 0
        /\ \A i \in 1 .. n - m + 1 : v[i] = u[m + i - 1]
    BY <2>1, SubSeqProperties
  <2> HIDE DEF v
  <2>4. Len(v) = Len(t)
    BY <1>1, <2>2, <2>3
  <2>5. ASSUME NEW i \in 1 .. Len(v) PROVE v[i] = t[i]
    <3>1. i \in 1 .. n - m + 1 /\ m + i - 1 = l + i
          /\ l + i \in 1 .. l + Len(t) /\ l + i > l /\ l + i - l = i
      BY <1>1, <2>2, <2>4
    <3>2. v[i] = u[l + i]
      BY <2>3, <3>1
    <3>3. u[l + i] = t[l + i - l]
      BY <1>2, <3>1
    <3> QED BY <3>1, <3>2, <3>3
  <2>6. v = t
    BY <2>3, <2>4, <2>5, SeqEqual
  <2> QED BY <2>6 DEF v, m, n
<1> QED BY <1>1, <1>2
=============================================================================
