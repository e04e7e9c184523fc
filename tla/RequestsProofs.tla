--------------------------- MODULE RequestsProofs ----------------------------
(***************************************************************************)
(* The safety of the input of a client, for any requests, any segments of  *)
(* up to a cbuf and any cuts: what is searched for in a list of cbufs is   *)
(* found where it is in its text, and the states take one request after    *)
(* another from it.                                                        *)
(***************************************************************************)
EXTENDS Requests, DataLemmas

-----------------------------------------------------------------------------
(* Lists of cbufs.                                                         *)

\* A cbuf in a list is never empty.
Lists(S) == Seq(Seq(S) \ {<<>>})

LEMMA ListIs ==
  ASSUME NEW S, NEW list \in Lists(S)
  PROVE  /\ Len(list) \in Nat /\ DOMAIN list = 1 .. Len(list)
         /\ \A k \in 1 .. Len(list) :
              /\ list[k] \in Seq(S) /\ list[k] # <<>>
              /\ Len(list[k]) \in Nat /\ Len(list[k]) > 0
              /\ \A o \in 1 .. Len(list[k]) : list[k][o] \in S
<1>1. Len(list) \in Nat /\ DOMAIN list = 1 .. Len(list)
  BY LenProperties DEF Lists
<1>2. ASSUME NEW k \in 1 .. Len(list)
      PROVE  /\ list[k] \in Seq(S) /\ list[k] # <<>>
             /\ Len(list[k]) \in Nat /\ Len(list[k]) > 0
             /\ \A o \in 1 .. Len(list[k]) : list[k][o] \in S
  <2>1. list[k] \in Seq(S) \ {<<>>}
    BY <1>1, ElementOfSeq DEF Lists
  <2>2. Len(list[k]) \in Nat /\ Len(list[k]) # 0
    BY <2>1, LenProperties, EmptySeq
  <2> QED BY <2>1, <2>2, ElementOfSeq
<1> QED BY <1>1, <1>2

\* The lengths of the first k cbufs, added up.
LEMMA LenToSteps ==
  ASSUME NEW S, NEW list \in Lists(S)
  PROVE  /\ LenTo(list, 0) = 0
         /\ \A k \in 0 .. Len(list) : LenTo(list, k) \in Nat
         /\ \A k \in 1 .. Len(list) : LenTo(list, k) = LenTo(list, k - 1) + Len(list[k])
<1> DEFINE N == Len(list)
           G == [x \in Nat \X Nat |->
                   IF x[1] + 1 \in 1 .. N THEN x[2] + Len(list[x[1] + 1]) ELSE 0]
<1>1. N \in Nat /\ \A k \in 1 .. N : Len(list[k]) \in Nat
  BY ListIs
<1> HIDE DEF N
<1>2. G \in [Nat \X Nat -> Nat]
  <2>1. ASSUME NEW x \in Nat \X Nat
        PROVE  (IF x[1] + 1 \in 1 .. N THEN x[2] + Len(list[x[1] + 1]) ELSE 0) \in Nat
    BY <1>1
  <2> QED BY <2>1
<1>3. PICK F \in [Nat -> Nat] : F[0] = 0 /\ \A n \in Nat : F[n + 1] = G[<<n, F[n]>>]
  <2>1. Machine(Nat, 0, G)
    BY <1>2 DEF Machine
  <2> HIDE DEF G
  <2>2. \E f \in [Nat -> Nat] : Run(f, 0, G)
    BY <2>1, Recursion
  <2> QED BY <2>2 DEF Run
<1>4. ASSUME NEW n \in 1 .. N PROVE F[n] = F[n - 1] + Len(list[n])
  <2>1. n - 1 \in Nat /\ n - 1 + 1 = n
    BY <1>1
  <2>2. F[n - 1 + 1] = G[<<n - 1, F[n - 1]>>]
    BY <1>3, <2>1
  <2>3. <<n - 1, F[n - 1]>> \in Nat \X Nat
    BY <1>3, <2>1
  <2> QED BY <2>1, <2>2, <2>3
<1>5. ASSUME NEW k \in 0 .. N PROVE LenTo(list, k) = F[k]
  <2> DEFINE loop(f) == f = [j \in 0 .. k |-> IF j = 0 THEN 0 ELSE f[j - 1] + Len(list[j])]
             g == [j \in 0 .. k |-> F[j]]
             len == CHOOSE f : loop(f)
  <2>1. LenTo(list, k) = len[k]
    BY DEF LenTo
  <2>2. loop(g)
    <3>1. ASSUME NEW j \in 0 .. k
          PROVE  F[j] = IF j = 0 THEN 0 ELSE g[j - 1] + Len(list[j])
      <4>1. CASE j = 0
        BY <1>3, <4>1
      <4>2. CASE j # 0
        <5>1. j - 1 \in 0 .. k /\ j \in 1 .. N
          BY <1>1, <4>2
        <5> QED BY <1>4, <4>2, <5>1
      <4> QED BY <4>1, <4>2
    <3> QED BY <3>1
  <2>3. loop(len)
    <3> HIDE DEF loop, g
    <3> QED BY <2>2
  <2> HIDE DEF len
  <2>4. len = [j \in 0 .. k |-> IF j = 0 THEN 0 ELSE len[j - 1] + Len(list[j])]
    BY <2>3
  <2>5. Together(len, F, 0, k)
    <3>1. len[0] = F[0]
      BY <1>1, <1>3, <2>4
    <3>2. ASSUME NEW n \in 0 + 1 .. k, len[n - 1] = F[n - 1] PROVE len[n] = F[n]
      <4>1. n \in 0 .. k /\ n # 0 /\ n \in 1 .. N
        BY <1>1
      <4>2. len[n] = len[n - 1] + Len(list[n])
        BY <2>4, <4>1
      <4> QED BY <1>4, <3>2, <4>1, <4>2
    <3> QED BY <3>1, <3>2 DEF Together
  <2> HIDE DEF loop, g, G
  <2>6. \A n \in 0 .. k : len[n] = F[n]
    <3>1. 0 \in Int /\ k \in Int
      BY <1>1
    <3> QED BY <2>5, <3>1, Agree
  <2> QED BY <1>1, <2>1, <2>6
<1>6. 0 \in 0 .. N /\ \A k \in 1 .. N : k \in 0 .. N /\ k - 1 \in 0 .. N
  BY <1>1
<1> HIDE DEF G
<1>7. LenTo(list, 0) = 0
  BY <1>3, <1>5, <1>6
<1>8. \A k \in 0 .. N : LenTo(list, k) \in Nat
  BY <1>1, <1>3, <1>5
<1>9. \A k \in 1 .. N : LenTo(list, k) = LenTo(list, k - 1) + Len(list[k])
  BY <1>4, <1>5, <1>6
<1> QED BY <1>7, <1>8, <1>9 DEF N

\* So they grow.
LEMMA LenToGrows ==
  ASSUME NEW S, NEW list \in Lists(S), NEW j \in 0 .. Len(list), NEW k \in 0 .. Len(list),
         j < k
  PROVE  LenTo(list, j) < LenTo(list, k)
<1> DEFINE N == Len(list)
           T == {d \in Nat : j + 1 + d \in 1 .. N => LenTo(list, j) < LenTo(list, j + 1 + d)}
<1>1. N \in Nat /\ \A n \in 1 .. N : Len(list[n]) \in Nat /\ Len(list[n]) > 0
  BY ListIs
<1>2. /\ \A n \in 0 .. N : LenTo(list, n) \in Nat
      /\ \A n \in 1 .. N : LenTo(list, n) = LenTo(list, n - 1) + Len(list[n])
  BY LenToSteps
<1> HIDE DEF N
<1>3. ASSUME NEW n \in 1 .. N PROVE LenTo(list, n - 1) < LenTo(list, n)
  <2>1. n - 1 \in 0 .. N
    BY <1>1
  <2> QED BY <1>1, <1>2, <2>1
<1>4. 0 \in T
  <2>1. j + 1 \in 1 .. N => LenTo(list, j + 1 - 1) < LenTo(list, j + 1)
    BY <1>3
  <2>2. j + 1 - 1 = j /\ j + 1 + 0 = j + 1
    BY <1>1
  <2> QED BY <2>1, <2>2
<1>5. ASSUME NEW d \in T PROVE d + 1 \in T
  <2>1. ASSUME NEW m \in 1 .. N, m = j + 1 + (d + 1) PROVE LenTo(list, j) < LenTo(list, m)
    <3>1. m - 1 = j + 1 + d /\ m - 1 \in 1 .. N
      BY <1>1, <2>1
    <3>2. LenTo(list, j) < LenTo(list, m - 1) /\ LenTo(list, m - 1) < LenTo(list, m)
      BY <1>3, <3>1
    <3>3. LenTo(list, j) \in Nat /\ LenTo(list, m - 1) \in Nat /\ LenTo(list, m) \in Nat
      <4>1. j \in 0 .. N /\ m - 1 \in 0 .. N /\ m \in 0 .. N
        BY <1>1, <3>1 DEF N
      <4> QED BY <1>2, <4>1
    <3> QED BY <3>2, <3>3
  <2> QED BY <2>1
<1>6. T \in SUBSET Nat
  OBVIOUS
<1>7. k - j - 1 \in Nat /\ j + 1 + (k - j - 1) = k /\ k \in 1 .. N
  BY <1>1 DEF N
<1> HIDE DEF T
<1>8. k - j - 1 \in T
  BY <1>4, <1>5, <1>6, <1>7, Inductive
<1>9. j + 1 + (k - j - 1) \in 1 .. N => LenTo(list, j) < LenTo(list, j + 1 + (k - j - 1))
  BY <1>8 DEF T
<1> QED BY <1>7, <1>9

-----------------------------------------------------------------------------
(* The text of a list.                                                     *)

\* What FlattenSeq walks through.
LEMMA FlattenSteps ==
  ASSUME NEW S, NEW list \in Lists(S)
  PROVE  \E F \in [Nat -> Seq(S)] :
           /\ F[0] = <<>> /\ F[Len(list)] = FlattenSeq(list)
           /\ \A n \in 1 .. Len(list) : F[n] = F[n - 1] \o list[n]
<1> DEFINE N == Len(list)
           G == [x \in Nat \X Seq(S) |->
                   IF x[1] + 1 \in 1 .. N THEN x[2] \o list[x[1] + 1] ELSE <<>>]
<1>1. N \in Nat /\ \A k \in 1 .. N : list[k] \in Seq(S)
  BY ListIs
<1> HIDE DEF N
<1>2. <<>> \in Seq(S) /\ \A t \in Seq(S) : <<>> \o t = t
  BY EmptySeq, ConcatEmptySeq
<1>3. G \in [Nat \X Seq(S) -> Seq(S)]
  <2>1. ASSUME NEW x \in Nat \X Seq(S)
        PROVE  (IF x[1] + 1 \in 1 .. N THEN x[2] \o list[x[1] + 1] ELSE <<>>) \in Seq(S)
    <3>1. CASE x[1] + 1 \in 1 .. N
      <4>1. x[2] \in Seq(S) /\ list[x[1] + 1] \in Seq(S)
        BY <1>1, <3>1
      <4>2. x[2] \o list[x[1] + 1] \in Seq(S)
        BY <4>1, ConcatProperties
      <4> QED BY <3>1, <4>2
    <3>2. CASE x[1] + 1 \notin 1 .. N
      BY <1>2, <3>2
    <3> QED BY <3>1, <3>2
  <2> QED BY <2>1
<1>4. PICK F \in [Nat -> Seq(S)] : F[0] = <<>> /\ \A n \in Nat : F[n + 1] = G[<<n, F[n]>>]
  <2>1. Machine(Seq(S), <<>>, G)
    BY <1>2, <1>3 DEF Machine
  <2> HIDE DEF G
  <2>2. \E f \in [Nat -> Seq(S)] : Run(f, <<>>, G)
    BY <2>1, Recursion
  <2> QED BY <2>2 DEF Run
<1>5. ASSUME NEW n \in 1 .. N PROVE F[n] = F[n - 1] \o list[n]
  <2>1. n - 1 \in Nat /\ n - 1 + 1 = n
    BY <1>1
  <2>2. F[n - 1 + 1] = G[<<n - 1, F[n - 1]>>]
    BY <1>4, <2>1
  <2>3. <<n - 1, F[n - 1]>> \in Nat \X Seq(S)
    BY <1>4, <2>1
  <2>4. G[<<n - 1, F[n - 1]>>] = F[n - 1] \o list[n - 1 + 1]
    BY <2>1, <2>3
  <2> QED BY <2>1, <2>2, <2>4
<1> HIDE DEF G
<1>6. F[N] = FlattenSeq(list)
  <2>1. CASE N = 0
    <3>1. list = <<>>
      BY <2>1, EmptySeq DEF N, Lists
    <3>2. FlattenSeq(list) = list
      BY <2>1 DEF FlattenSeq, N
    <3> QED BY <1>4, <2>1, <3>1, <3>2
  <2>2. CASE N # 0
    <3> DEFINE step(f, i) == IF i = 1 THEN list[i] ELSE f[i - 1] \o list[i]
               loop(f) == f = [i \in 1 .. N |-> step(f, i)]
               g == [i \in 1 .. N |-> F[i]]
               flatten == CHOOSE f : loop(f)
    <3>1. FlattenSeq(list) = flatten[N]
      BY <2>2 DEF FlattenSeq, N
    <3>2. F[1] = list[1]
      <4>1. 1 \in 1 .. N /\ 1 - 1 = 0
        BY <1>1, <2>2
      <4>2. F[1] = F[1 - 1] \o list[1] /\ list[1] \in Seq(S)
        BY <1>1, <1>5, <4>1
      <4> QED BY <1>2, <1>4, <4>1, <4>2
    <3>3. loop(g)
      <4>1. ASSUME NEW i \in 1 .. N PROVE F[i] = step(g, i)
        <5>1. CASE i = 1
          BY <3>2, <5>1
        <5>2. CASE i # 1
          <6>1. i - 1 \in 1 .. N
            BY <1>1, <5>2
          <6>2. g[i - 1] = F[i - 1]
            BY <6>1
          <6> HIDE DEF g
          <6> QED BY <1>5, <5>2, <6>2
        <5> QED BY <5>1, <5>2
      <4> QED BY <4>1
    <3>4. loop(flatten)
      <4> HIDE DEF loop, g
      <4> QED BY <3>3
    <3> HIDE DEF flatten
    <3>5. flatten = [i \in 1 .. N |-> step(flatten, i)]
      BY <3>4
    <3>6. Together(flatten, F, 1, N)
      <4>1. flatten[1] = F[1]
        BY <1>1, <2>2, <3>2, <3>5
      <4>2. ASSUME NEW n \in 1 + 1 .. N, flatten[n - 1] = F[n - 1] PROVE flatten[n] = F[n]
        <5>1. n \in 1 .. N /\ n # 1
          BY <1>1
        <5>2. flatten[n] = step(flatten, n)
          <6> HIDE DEF step
          <6> QED BY <3>5, <5>1
        <5> QED BY <1>5, <4>2, <5>1, <5>2
      <4> QED BY <4>1, <4>2 DEF Together
    <3>7. \A n \in 1 .. N : flatten[n] = F[n]
      BY <1>1, <3>6, Agree
    <3> QED BY <1>1, <2>2, <3>1, <3>7
  <2> QED BY <2>1, <2>2
<1> QED BY <1>4, <1>5, <1>6 DEF N

\* text has the bytes of the first k cbufs at its beginning, and is as long.
Spells(text, list, k) ==
  /\ Len(text) = LenTo(list, k)
  /\ \A j \in 1 .. k : \A o \in 1 .. Len(list[j]) : text[LenTo(list, j - 1) + o] = list[j][o]

LEMMA FlattenIs ==
  ASSUME NEW S, NEW list \in Lists(S)
  PROVE  FlattenSeq(list) \in Seq(S) /\ Spells(FlattenSeq(list), list, Len(list))
<1>1. PICK F \in [Nat -> Seq(S)] :
        /\ F[0] = <<>> /\ F[Len(list)] = FlattenSeq(list)
        /\ \A n \in 1 .. Len(list) : F[n] = F[n - 1] \o list[n]
  BY FlattenSteps
<1> DEFINE N == Len(list)
           T == {k \in Nat : k \in 0 .. N => Spells(F[k], list, k)}
<1>2. /\ N \in Nat
      /\ \A k \in 1 .. N : list[k] \in Seq(S) /\ Len(list[k]) \in Nat
  BY ListIs
<1>3. /\ LenTo(list, 0) = 0 /\ \A k \in 0 .. N : LenTo(list, k) \in Nat
      /\ \A k \in 1 .. N : LenTo(list, k) = LenTo(list, k - 1) + Len(list[k])
  BY LenToSteps
<1>4. \A n \in 1 .. N : F[n] = F[n - 1] \o list[n]
  BY <1>1
<1>5. F[N] = FlattenSeq(list)
  BY <1>1
<1> HIDE DEF N
<1>6. 0 \in T
  <2>1. Len(F[0]) = 0
    BY <1>1, EmptySeq
  <2> QED BY <1>3, <2>1 DEF Spells
<1>7. ASSUME NEW k \in 1 .. N, Spells(F[k - 1], list, k - 1) PROVE Spells(F[k], list, k)
  <2>1. /\ F[k - 1] \in Seq(S) /\ list[k] \in Seq(S) /\ F[k] = F[k - 1] \o list[k]
        /\ Len(F[k - 1]) = LenTo(list, k - 1)
    <3>1. k - 1 \in Nat
      BY <1>2
    <3> QED BY <1>1, <1>2, <1>4, <1>7, <3>1 DEF Spells
  <2> DEFINE t == F[k - 1]
             u == F[k]
             l == LenTo(list, k - 1)
             m == Len(list[k])
  <2>2. l \in Nat /\ m \in Nat /\ LenTo(list, k) = l + m
    <3>1. k - 1 \in 0 .. N
      BY <1>2
    <3> QED BY <1>2, <1>3, <3>1
  <2>3. /\ Len(u) = l + m /\ \A i \in 1 .. l : u[i] = t[i]
        /\ \A o \in 1 .. m : u[l + o] = list[k][o]
    <3> DEFINE w == list[k]
    <3>1. t \in Seq(S) /\ w \in Seq(S)
      BY <2>1
    <3>2. u = t \o w /\ Len(t) = l
      BY <2>1
    <3> HIDE DEF u, t, l, w
    <3>3. /\ Len(t \o w) = Len(t) + Len(w)
          /\ \A i \in 1 .. Len(t) : (t \o w)[i] = t[i]
          /\ \A i \in 1 .. Len(w) : (t \o w)[Len(t) + i] = w[i]
      BY <3>1, ConcatIs
    <3>4. /\ Len(u) = l + Len(w)
          /\ \A i \in 1 .. l : u[i] = t[i]
          /\ \A i \in 1 .. Len(w) : u[l + i] = w[i]
      BY <3>2, <3>3
    <3> QED BY <3>4 DEF w
  <2>4. ASSUME NEW j \in 1 .. k, NEW o \in 1 .. Len(list[j])
        PROVE  u[LenTo(list, j - 1) + o] = list[j][o]
    <3>1. CASE j = k
      <4>1. o \in 1 .. m /\ LenTo(list, j - 1) = l /\ list[j] = list[k]
        BY <3>1
      <4> HIDE DEF u, t, l, m
      <4>2. u[l + o] = list[j][o]
        BY <2>3, <4>1
      <4> QED BY <4>1, <4>2
    <3>2. CASE j # k
      <4>1. j \in 1 .. k - 1 /\ j \in 1 .. N
        BY <1>2, <3>2
      <4>2. t[LenTo(list, j - 1) + o] = list[j][o]
        BY <1>7, <4>1 DEF Spells
      <4>3. LenTo(list, j - 1) + o \in 1 .. l
        <5>1. j - 1 \in 0 .. N /\ j \in 0 .. N /\ k - 1 \in 0 .. N
          BY <1>2, <4>1
        <5>2. /\ LenTo(list, j - 1) \in Nat /\ LenTo(list, j) \in Nat
              /\ LenTo(list, j) = LenTo(list, j - 1) + Len(list[j]) /\ Len(list[j]) \in Nat
          BY <1>2, <1>3, <4>1, <5>1
        <5>3. j = k - 1 \/ j < k - 1
          BY <1>2, <4>1
        <5>4. LenTo(list, j) <= l
          <6>1. j < k - 1 => LenTo(list, j) < LenTo(list, k - 1)
            BY <5>1, LenToGrows DEF N
          <6>2. CASE j = k - 1
            <7>1. LenTo(list, j) = l
              BY <6>2
            <7> HIDE DEF l
            <7> QED BY <2>2, <7>1
          <6>3. CASE j < k - 1
            <7>1. LenTo(list, j) < l
              BY <6>1, <6>3
            <7> HIDE DEF l
            <7> QED BY <2>2, <5>2, <7>1
          <6> QED BY <5>3, <6>2, <6>3
        <5> DEFINE a == LenTo(list, j - 1)
                   b == LenTo(list, j)
                   c == Len(list[j])
        <5>5. a \in Nat /\ b \in Nat /\ c \in Nat /\ b = a + c /\ b <= l /\ l \in Nat /\ o \in 1 .. c
          BY <2>2, <5>2, <5>4
        <5> HIDE DEF a, b, c, l
        <5>6. a + o \in 1 .. l
          BY <5>5
        <5> QED BY <5>6 DEF a
      <4>4. u[LenTo(list, j - 1) + o] = t[LenTo(list, j - 1) + o]
        <5> HIDE DEF u, t, l, m
        <5> QED BY <2>3, <4>3
      <4> QED BY <4>2, <4>4
    <3> QED BY <3>1, <3>2
  <2> QED BY <2>2, <2>3, <2>4 DEF Spells
<1>8. ASSUME NEW n \in T PROVE n + 1 \in T
  <2>1. ASSUME NEW k \in 0 .. N, k = n + 1 PROVE Spells(F[k], list, k)
    <3>1. k \in 1 .. N /\ k - 1 = n /\ n \in 0 .. N
      BY <1>2, <2>1
    <3> QED BY <1>7, <3>1
  <2>2. n + 1 \in 0 .. N => Spells(F[n + 1], list, n + 1)
    BY <2>1
  <2> QED BY <2>2
<1>9. T \in SUBSET Nat
  OBVIOUS
<1> HIDE DEF T
<1>10. N \in T
  BY <1>2, <1>6, <1>8, <1>9, Inductive
<1>11. Spells(F[N], list, N) /\ F[N] \in Seq(S)
  BY <1>1, <1>2, <1>10 DEF T
<1> QED BY <1>5, <1>11 DEF N

-----------------------------------------------------------------------------
(* Places in a list.                                                       *)

LEMMA TotalIs ==
  ASSUME NEW S, NEW list \in Lists(S)
  PROVE  /\ Total(list) \in Nat /\ Total(list) = LenTo(list, Len(list))
         /\ Total(list) = Len(FlattenSeq(list))
         /\ (Len(list) = 0 <=> Total(list) = 0)
<1>1. Len(list) \in Nat /\ Total(list) = LenTo(list, Len(list))
  BY ListIs DEF Total
<1>2. 0 \in 0 .. Len(list) /\ Len(list) \in 0 .. Len(list)
  BY <1>1
<1>3. LenTo(list, Len(list)) \in Nat /\ LenTo(list, 0) = 0
  BY <1>2, LenToSteps
<1>4. Len(FlattenSeq(list)) = LenTo(list, Len(list))
  BY FlattenIs DEF Spells
<1>5. Len(list) # 0 => LenTo(list, 0) < LenTo(list, Len(list))
  <2>1. Len(list) # 0 => 0 < Len(list)
    BY <1>1
  <2> QED BY <1>2, <2>1, LenToGrows
<1> QED BY <1>1, <1>3, <1>4, <1>5

\* p is the place of the byte at index i, or the end of the list.
At(list, p, i) ==
  \E k \in 1 .. Len(list) + 1, o \in Nat :
    /\ p = <<k, o>> /\ i = LenTo(list, k - 1) + o
    /\ IF k <= Len(list) THEN o < Len(list[k]) ELSE o = 0

LEMMA PlaceIs ==
  ASSUME NEW S, NEW list \in Lists(S), NEW i \in 0 .. Total(list)
  PROVE  At(list, Place(list, i), i)
<1> DEFINE N == Len(list)
           in == {k \in DOMAIN list : i < LenTo(list, k)}
<1>1. /\ N \in Nat /\ DOMAIN list = 1 .. N /\ LenTo(list, 0) = 0
      /\ Total(list) = LenTo(list, N) /\ Total(list) \in Nat
      /\ \A k \in 0 .. N : LenTo(list, k) \in Nat
      /\ \A k \in 1 .. N : LenTo(list, k) = LenTo(list, k - 1) + Len(list[k])
  BY ListIs, LenToSteps, TotalIs
<1> HIDE DEF N
<1>2. CASE in = {}
  <2>1. Place(list, i) = <<N + 1, 0>>
    BY <1>2 DEF Place, N
  <2>2. i = LenTo(list, N)
    <3>1. CASE N = 0
      BY <1>1, <3>1
    <3>2. CASE N # 0
      <4>1. N \in 1 .. N
        BY <1>1, <3>2
      <4>2. ~ (i < LenTo(list, N))
        BY <1>1, <1>2, <4>1
      <4> QED BY <1>1, <4>2
    <3> QED BY <3>1, <3>2
  <2>3. N + 1 - 1 = N /\ N + 1 \in 1 .. N + 1 /\ ~ (N + 1 <= N) /\ 0 \in Nat
    BY <1>1
  <2>4. i = LenTo(list, N + 1 - 1) + 0
    BY <1>1, <2>2, <2>3
  <2> QED BY <2>1, <2>3, <2>4 DEF At, N
<1>3. CASE in # {}
  <2>1. \E x \in in : \A y \in in : x <= y
    <3>1. in \in SUBSET Nat
      BY <1>1
    <3> HIDE DEF in
    <3> QED BY <1>3, <3>1, LeastIn
  <2> DEFINE k == CHOOSE x \in in : \A y \in in : x <= y
             o == i - LenTo(list, k - 1)
  <2>2. k \in in /\ \A y \in in : k <= y
    <3> HIDE DEF in
    <3> QED BY <2>1
  <2>3. Place(list, i) = <<k, o>>
    BY <1>3 DEF Place
  <2> HIDE DEF k
  <2>4. k \in 1 .. N /\ i < LenTo(list, k) /\ k - 1 \in 0 .. N
    BY <1>1, <2>2
  <2>5. LenTo(list, k - 1) <= i
    <3>1. CASE k = 1
      <4>1. LenTo(list, k - 1) = 0
        BY <1>1, <3>1
      <4> QED BY <4>1
    <3>2. CASE k # 1
      <4>1. k - 1 \in 1 .. N /\ ~ (k <= k - 1)
        BY <1>1, <2>4, <3>2
      <4>2. ~ (i < LenTo(list, k - 1))
        BY <1>1, <2>2, <4>1
      <4> QED BY <1>1, <2>4, <4>2
    <3> QED BY <3>1, <3>2
  <2>6. LenTo(list, k - 1) \in Nat /\ LenTo(list, k) = LenTo(list, k - 1) + Len(list[k])
        /\ LenTo(list, k) \in Nat
    BY <1>1, <2>4
  <2>7. o \in Nat /\ i = LenTo(list, k - 1) + o /\ o < Len(list[k])
    <3>1. Len(list[k]) \in Nat
      BY <2>4, ListIs DEF N
    <3> QED BY <1>1, <2>4, <2>5, <2>6, <3>1
  <2>8. k \in 1 .. N + 1 /\ k <= N
    BY <1>1, <2>4
  <2> HIDE DEF o
  <2> QED BY <2>3, <2>7, <2>8 DEF At, N
<1> QED BY <1>2, <1>3

\* There is one place.
LEMMA PlaceIsUnique ==
  ASSUME NEW S, NEW list \in Lists(S), NEW i, NEW p, NEW q, At(list, p, i), At(list, q, i)
  PROVE  p = q
<1> DEFINE N == Len(list)
<1>1. /\ N \in Nat
      /\ \A k \in 0 .. N : LenTo(list, k) \in Nat
      /\ \A k \in 1 .. N : LenTo(list, k) = LenTo(list, k - 1) + Len(list[k])
  BY ListIs, LenToSteps
<1>2. PICK k \in 1 .. N + 1, o \in Nat :
        /\ p = <<k, o>> /\ i = LenTo(list, k - 1) + o
        /\ IF k <= N THEN o < Len(list[k]) ELSE o = 0
  BY DEF At
<1>3. PICK l \in 1 .. N + 1, r \in Nat :
        /\ q = <<l, r>> /\ i = LenTo(list, l - 1) + r
        /\ IF l <= N THEN r < Len(list[l]) ELSE r = 0
  BY DEF At
<1> HIDE DEF N
<1>4. ASSUME NEW a \in 1 .. N + 1, NEW b \in 1 .. N + 1, NEW x \in Nat, NEW y \in Nat, a < b,
             i = LenTo(list, a - 1) + x, i = LenTo(list, b - 1) + y,
             a <= N => x < Len(list[a])
      PROVE  FALSE
  <2>1. a \in 1 .. N /\ a - 1 \in 0 .. N /\ a \in 0 .. N /\ b - 1 \in 0 .. N
    BY <1>1, <1>4
  <2>2. LenTo(list, a) = LenTo(list, a - 1) + Len(list[a]) /\ Len(list[a]) \in Nat
    BY <1>1, <2>1, ListIs DEF N
  <2>3. LenTo(list, a) <= LenTo(list, b - 1)
    <3>1. CASE a = b - 1
      <4>1. LenTo(list, a) = LenTo(list, b - 1)
        BY <3>1
      <4> QED BY <1>1, <2>1, <4>1
    <3>2. CASE a # b - 1
      <4>1. a < b - 1
        BY <1>1, <1>4, <3>2
      <4>2. LenTo(list, a) < LenTo(list, b - 1)
        BY <2>1, <4>1, LenToGrows DEF N
      <4> QED BY <1>1, <2>1, <4>2
    <3> QED BY <3>1, <3>2
  <2>4. x < Len(list[a])
    BY <1>1, <1>4, <2>1
  <2>5. LenTo(list, a - 1) \in Nat /\ LenTo(list, b - 1) \in Nat /\ LenTo(list, a) \in Nat
    BY <1>1, <2>1
  <2> QED BY <1>4, <2>2, <2>3, <2>4, <2>5
<1>5. k = l
  <2>1. k < l \/ l < k \/ k = l
    BY <1>1
  <2>2. k <= N => o < Len(list[k])
    BY <1>2
  <2>3. l <= N => r < Len(list[l])
    BY <1>3
  <2>4. ~ (k < l)
    BY <1>2, <1>3, <1>4, <2>2
  <2>5. ~ (l < k)
    BY <1>2, <1>3, <1>4, <2>3
  <2> QED BY <2>1, <2>4, <2>5
<1>6. o = r
  <2>1. LenTo(list, k - 1) \in Nat
    BY <1>1
  <2> QED BY <1>2, <1>3, <1>5, <2>1
<1> QED BY <1>2, <1>3, <1>5, <1>6

\* A byte of the list is the byte of its text, and the next place is behind it.
LEMMA AfterIs ==
  ASSUME NEW S, NEW list \in Lists(S), NEW i \in Nat, i < Total(list),
         NEW p, At(list, p, i)
  PROVE  /\ p[1] \in 1 .. Len(list) /\ p[2] \in Nat
         /\ list[p[1]][p[2] + 1] = FlattenSeq(list)[i + 1]
         /\ At(list, After(list, p), i + 1)
<1> DEFINE N == Len(list)
<1>1. /\ N \in Nat /\ Total(list) = LenTo(list, N)
      /\ \A k \in 0 .. N : LenTo(list, k) \in Nat
      /\ \A k \in 1 .. N : LenTo(list, k) = LenTo(list, k - 1) + Len(list[k])
  BY ListIs, LenToSteps, TotalIs
<1>2. PICK k \in 1 .. N + 1, o \in Nat :
        /\ p = <<k, o>> /\ i = LenTo(list, k - 1) + o
        /\ IF k <= N THEN o < Len(list[k]) ELSE o = 0
  BY DEF At
<1>3. k \in 1 .. N
  <2>1. CASE k = N + 1
    <3>1. LenTo(list, k - 1) = LenTo(list, N)
      <4>1. k - 1 = N
        BY <1>1, <2>1
      <4> QED BY <4>1
    <3>2. ~ (k <= N)
      BY <1>1, <2>1
    <3>3. o = 0 /\ N \in 0 .. N
      BY <1>1, <1>2, <3>2
    <3> QED BY <1>1, <1>2, <3>1, <3>3
  <2>2. CASE k # N + 1
    <3> HIDE DEF N
    <3> QED BY <1>1, <2>2
  <2> QED BY <2>1, <2>2
<1>4. /\ p[1] = k /\ p[2] = o /\ o < Len(list[k]) /\ Len(list[k]) \in Nat
  BY <1>1, <1>2, <1>3, ListIs
<1>5. list[k][o + 1] = FlattenSeq(list)[i + 1]
  <2>1. o + 1 \in 1 .. Len(list[k])
    BY <1>4
  <2>2. FlattenSeq(list)[LenTo(list, k - 1) + (o + 1)] = list[k][o + 1]
    BY <1>3, <2>1, FlattenIs DEF Spells
  <2>3. LenTo(list, k - 1) \in Nat
    <3>1. k - 1 \in 0 .. N
      BY <1>1, <1>3
    <3> QED BY <1>1, <3>1
  <2>4. LenTo(list, k - 1) + (o + 1) = i + 1
    BY <1>2, <2>3
  <2> QED BY <2>2, <2>4
<1>6. At(list, After(list, p), i + 1)
  <2> HIDE DEF N
  <2>1. /\ LenTo(list, k - 1) \in Nat /\ LenTo(list, k) \in Nat
        /\ LenTo(list, k) = LenTo(list, k - 1) + Len(list[k])
    <3>1. k - 1 \in 0 .. N /\ k \in 0 .. N
      BY <1>1, <1>3
    <3> QED BY <1>1, <1>3, <3>1
  <2>2. CASE o + 1 = Len(list[k])
    <3>1. After(list, p) = <<k + 1, 0>>
      BY <1>4, <2>2 DEF After
    <3>2. k + 1 \in 1 .. N + 1 /\ 0 \in Nat /\ k + 1 - 1 = k
      BY <1>1, <1>3
    <3>3. i + 1 = LenTo(list, k) + 0
      BY <1>2, <2>1, <2>2
    <3>4. i + 1 = LenTo(list, k + 1 - 1) + 0
      BY <3>2, <3>3
    <3>5. IF k + 1 <= N THEN 0 < Len(list[k + 1]) ELSE 0 = 0
      <4>1. k + 1 <= N => k + 1 \in 1 .. Len(list)
        BY <1>1, <1>3 DEF N
      <4> QED BY <4>1, ListIs
    <3> QED BY <3>1, <3>2, <3>4, <3>5 DEF At, N
  <2>3. CASE o + 1 # Len(list[k])
    <3>1. After(list, p) = <<k, o + 1>>
      BY <1>4, <2>3 DEF After
    <3>2. k \in 1 .. N + 1 /\ o + 1 \in Nat /\ k <= N
      BY <1>1, <1>3
    <3>3. i + 1 = LenTo(list, k - 1) + (o + 1) /\ o + 1 < Len(list[k])
      BY <1>2, <1>4, <2>1, <2>3
    <3> QED BY <3>1, <3>2, <3>3 DEF At, N
  <2> QED BY <2>2, <2>3
<1> QED BY <1>3, <1>4, <1>5, <1>6

-----------------------------------------------------------------------------
(* Comparing.                                                              *)

\* The first n bytes of str are those of text behind i.
Matches(text, i, str, n) == i + n <= Len(text) /\ \A j \in 1 .. n : text[i + j] = str[j]

\* What comparing n bytes leads to.
Verdict(list, i, str, n) ==
  IF Matches(FlattenSeq(list), i, str, n) THEN Place(list, i + n)
  ELSE IF \E m \in 0 .. n - 1 : Matches(FlattenSeq(list), i, str, m) /\ i + m = Total(list)
    THEN Ends
  ELSE Differs

LEMMA PlacesAre ==
  ASSUME NEW S, NEW list \in Lists(S), NEW i \in 0 .. Total(list)
  PROVE  /\ Place(list, i) \notin {Ends, Differs}
         /\ Place(list, i)[1] \in Nat
         /\ (Place(list, i)[1] > Len(list) <=> i = Total(list))
<1>1. At(list, Place(list, i), i)
  BY PlaceIs
<1>2. PICK k \in 1 .. Len(list) + 1, o \in Nat :
        /\ Place(list, i) = <<k, o>> /\ i = LenTo(list, k - 1) + o
        /\ IF k <= Len(list) THEN o < Len(list[k]) ELSE o = 0
  BY <1>1 DEF At
<1>3. Len(list) \in Nat /\ Total(list) \in Nat /\ Total(list) = LenTo(list, Len(list))
  BY ListIs, TotalIs
<1>4. Place(list, i) \notin {Ends, Differs} /\ Place(list, i)[1] = k
  BY <1>2, <1>3 DEF Ends, Differs
<1>5. k > Len(list) => i = Total(list)
  <2>1. ASSUME k > Len(list) PROVE i = Total(list)
    <3>1. k - 1 = Len(list) /\ ~ (k <= Len(list))
      BY <1>2, <1>3, <2>1
    <3>2. LenTo(list, k - 1) = Total(list) /\ o = 0
      BY <1>2, <1>3, <3>1
    <3> QED BY <1>2, <1>3, <3>2
  <2> QED BY <2>1
<1>6. ASSUME k <= Len(list) PROVE i < Total(list)
  <2> DEFINE N == Len(list)
  <2>1. k \in 1 .. N /\ k \in 0 .. N /\ k - 1 \in 0 .. N /\ N \in 0 .. N
    BY <1>2, <1>3, <1>6
  <2> HIDE DEF N
  <2>2. /\ LenTo(list, k) = LenTo(list, k - 1) + Len(list[k]) /\ o < Len(list[k])
        /\ LenTo(list, k - 1) \in Nat /\ LenTo(list, k) \in Nat /\ LenTo(list, N) \in Nat
        /\ Len(list[k]) \in Nat
    BY <1>2, <1>6, <2>1, LenToSteps, ListIs DEF N
  <2>3. k = N \/ LenTo(list, k) < LenTo(list, N)
    <3>1. k = N \/ k < N
      BY <1>3, <2>1 DEF N
    <3> QED BY <2>1, <3>1, LenToGrows DEF N
  <2>4. LenTo(list, k) <= LenTo(list, N)
    <3>1. CASE k = N
      <4>1. LenTo(list, k) = LenTo(list, N)
        BY <3>1
      <4> QED BY <2>2, <4>1
    <3> QED BY <2>2, <2>3, <3>1
  <2> QED BY <1>2, <1>3, <2>2, <2>4 DEF N
<1>7. i \in Nat /\ i <= Total(list) /\ k \in Nat
  BY <1>2, <1>3
<1>8. k > Len(list) <=> i = Total(list)
  <2> DEFINE N == Len(list)
             M == Total(list)
  <2>1. N \in Nat /\ M \in Nat /\ (k > N => i = M) /\ (k <= N => i < M)
    BY <1>3, <1>5, <1>6, <1>7
  <2> HIDE DEF N, M
  <2>2. k > N <=> i = M
    BY <1>7, <2>1
  <2> QED BY <2>2 DEF N, M
<1> QED BY <1>4, <1>7, <1>8

\* One more byte.
LEMMA VerdictSteps ==
  ASSUME NEW S, NEW list \in Lists(S), NEW i \in 0 .. Total(list), NEW str, NEW n \in Nat \ {0}
  PROVE  LET q == Verdict(list, i, str, n - 1)
         IN  Verdict(list, i, str, n) =
               IF q \in {Ends, Differs} THEN q
               ELSE IF q[1] > Len(list) THEN Ends
               ELSE IF list[q[1]][q[2] + 1] # str[n] THEN Differs
               ELSE After(list, q)
<1> DEFINE text == FlattenSeq(list)
           N == Total(list)
           q == Verdict(list, i, str, n - 1)
           M(m) == Matches(text, i, str, m)
           end(m) == \E x \in 0 .. m - 1 : M(x) /\ i + x = N
<1>1. N \in Nat /\ Len(text) = N
  BY TotalIs
<1>2. /\ q = IF M(n - 1) THEN Place(list, i + (n - 1)) ELSE IF end(n - 1) THEN Ends ELSE Differs
      /\ Verdict(list, i, str, n) =
           IF M(n) THEN Place(list, i + n) ELSE IF end(n) THEN Ends ELSE Differs
  BY DEF Verdict
<1>3. /\ (M(n) <=> M(n - 1) /\ i + (n - 1) < N /\ text[i + n] = str[n])
      /\ (M(n - 1) => i + (n - 1) <= N)
  <2> HIDE DEF text, N
  <2>1. ASSUME M(n) PROVE M(n - 1) /\ i + (n - 1) < N /\ text[i + n] = str[n]
    <3>1. i + n <= N /\ \A j \in 1 .. n : text[i + j] = str[j]
      BY <1>1, <2>1 DEF Matches
    <3>2. n \in 1 .. n /\ \A j \in 1 .. n - 1 : j \in 1 .. n
      OBVIOUS
    <3>3. i + (n - 1) < N /\ i + (n - 1) <= N
      BY <1>1, <3>1
    <3> QED BY <1>1, <3>1, <3>2, <3>3 DEF Matches
  <2>2. ASSUME M(n - 1), i + (n - 1) < N, text[i + n] = str[n] PROVE M(n)
    <3>1. \A j \in 1 .. n - 1 : text[i + j] = str[j]
      BY <2>2 DEF Matches
    <3>2. i + n <= N
      BY <1>1, <2>2
    <3>3. ASSUME NEW j \in 1 .. n PROVE text[i + j] = str[j]
      <4>1. j = n \/ j \in 1 .. n - 1
        OBVIOUS
      <4> QED BY <2>2, <3>1, <4>1
    <3> QED BY <1>1, <3>2, <3>3 DEF Matches
  <2>3. M(n - 1) => i + (n - 1) <= N
    BY <1>1 DEF Matches
  <2> QED BY <2>1, <2>2, <2>3
<1> HIDE DEF text, N, M, q
<1>4. CASE ~ M(n - 1)
  <2>1. end(n) <=> end(n - 1)
    <3>1. \A x \in 0 .. n - 1 : x \in 0 .. n - 1 - 1 \/ x = n - 1
      OBVIOUS
    <3>2. \A x \in 0 .. n - 1 - 1 : x \in 0 .. n - 1
      OBVIOUS
    <3> QED BY <1>4, <3>1, <3>2
  <2> HIDE DEF end
  <2>2. q \in {Ends, Differs}
    BY <1>2, <1>4
  <2>3. Verdict(list, i, str, n) = q
    BY <1>2, <1>3, <1>4, <2>1
  <2> QED BY <2>2, <2>3 DEF q
<1>5. CASE M(n - 1)
  <2>1. i + (n - 1) \in 0 .. N /\ q = Place(list, i + (n - 1))
    <3>1. i \in Nat
      BY <1>1 DEF N
    <3>2. i + (n - 1) <= N
      BY <1>3, <1>5
    <3> QED BY <1>1, <1>2, <1>5, <3>1, <3>2
  <2>2. /\ q \notin {Ends, Differs} /\ (q[1] > Len(list) <=> i + (n - 1) = N)
        /\ At(list, q, i + (n - 1)) /\ q[1] \in Nat
    BY <2>1, PlacesAre, PlaceIs DEF N
  <2>3. CASE i + (n - 1) = N
    <3>1. q[1] > Len(list)
      BY <2>2, <2>3
    <3>2. ~ M(n)
      BY <1>1, <1>3, <2>3
    <3>3. end(n)
      BY <1>5, <2>3
    <3> HIDE DEF end
    <3>4. Verdict(list, i, str, n) = Ends
      BY <1>2, <3>2, <3>3
    <3> QED BY <2>2, <3>1, <3>4 DEF q
  <2>4. CASE i + (n - 1) # N
    <3>1. ~ (q[1] > Len(list))
      BY <2>2, <2>4
    <3>2. i + (n - 1) \in Nat /\ i + (n - 1) < N /\ i + (n - 1) + 1 = i + n
      BY <1>1, <2>1, <2>4
    <3>3. /\ list[q[1]][q[2] + 1] = text[i + n]
          /\ At(list, After(list, q), i + n)
      <4>1. /\ list[q[1]][q[2] + 1] = FlattenSeq(list)[i + (n - 1) + 1]
            /\ At(list, After(list, q), i + (n - 1) + 1)
        BY <2>2, <3>2, AfterIs DEF N
      <4> QED BY <3>2, <4>1 DEF text
    <3>4. CASE text[i + n] = str[n]
      <4>1. M(n)
        BY <1>3, <1>5, <3>2, <3>4
      <4>2. i + n \in 0 .. N
        BY <1>1, <3>2
      <4>3. At(list, Place(list, i + n), i + n)
        BY <4>2, PlaceIs DEF N
      <4>4. After(list, q) = Place(list, i + n)
        BY <3>3, <4>3, PlaceIsUnique
      <4>5. Verdict(list, i, str, n) = After(list, q)
        BY <1>2, <4>1, <4>4
      <4> QED BY <2>2, <3>1, <3>3, <3>4, <4>5 DEF q
    <3>5. CASE text[i + n] # str[n]
      <4>1. ~ M(n)
        BY <1>3, <3>5
      <4>2. ~ end(n)
        <5>1. ASSUME NEW x \in 0 .. n - 1 PROVE i + x # N
          <6>1. i \in Nat /\ i + (n - 1) < N /\ x <= n - 1
            BY <1>1, <3>2 DEF N
          <6> QED BY <1>1, <6>1
        <5> QED BY <5>1
      <4> HIDE DEF end
      <4>3. Verdict(list, i, str, n) = Differs
        BY <1>2, <4>1, <4>2
      <4> QED BY <2>2, <3>1, <3>3, <3>5, <4>3 DEF q
    <3> QED BY <3>4, <3>5
  <2> QED BY <2>3, <2>4
<1> QED BY <1>4, <1>5

LEMMA CompareIs ==
  ASSUME NEW S, NEW list \in Lists(S), NEW i \in 0 .. Total(list), NEW str, Len(str) \in Nat
  PROVE  Compare(list, Place(list, i), str) = Verdict(list, i, str, Len(str))
<1> DEFINE L == Len(str)
           p == Place(list, i)
           step(q, c) ==
             IF q \in {Ends, Differs} THEN q
             ELSE IF q[1] > Len(list) THEN Ends
             ELSE IF list[q[1]][q[2] + 1] # c THEN Differs
             ELSE After(list, q)
           loop(f) == f = [n \in 0 .. L |-> IF n = 0 THEN p ELSE step(f[n - 1], str[n])]
           g == [n \in 0 .. L |-> Verdict(list, i, str, n)]
           after == CHOOSE f : loop(f)
<1>1. Compare(list, p, str) = after[L]
  BY DEF Compare
<1>2. Verdict(list, i, str, 0) = p
  <2>1. Len(FlattenSeq(list)) = Total(list) /\ Total(list) \in Nat
    BY TotalIs
  <2>2. i + 0 = i /\ i <= Total(list)
    BY <2>1
  <2>3. Matches(FlattenSeq(list), i, str, 0)
    BY <2>1, <2>2 DEF Matches
  <2> QED BY <2>2, <2>3 DEF Verdict
<1> HIDE DEF p
<1>3. ASSUME NEW n \in 1 .. L
      PROVE  Verdict(list, i, str, n) = step(Verdict(list, i, str, n - 1), str[n])
  <2>1. n \in Nat \ {0}
    OBVIOUS
  <2> QED BY <2>1, VerdictSteps
<1> HIDE DEF step
<1>4. loop(g)
  <2>1. ASSUME NEW n \in 0 .. L
        PROVE  Verdict(list, i, str, n) = IF n = 0 THEN p ELSE step(g[n - 1], str[n])
    <3>1. CASE n = 0
      BY <1>2, <3>1
    <3>2. CASE n # 0
      <4>1. n - 1 \in 0 .. L /\ n \in 1 .. L
        BY <3>2
      <4>2. g[n - 1] = Verdict(list, i, str, n - 1)
        BY <4>1
      <4> HIDE DEF g
      <4> QED BY <1>3, <3>2, <4>1, <4>2
    <3> QED BY <3>1, <3>2
  <2>2. g = [n \in 0 .. L |-> Verdict(list, i, str, n)]
    OBVIOUS
  <2> HIDE DEF g
  <2>3. [n \in 0 .. L |-> Verdict(list, i, str, n)]
          = [n \in 0 .. L |-> IF n = 0 THEN p ELSE step(g[n - 1], str[n])]
    BY <2>1
  <2> QED BY <2>2, <2>3
<1>5. loop(after)
  <2> HIDE DEF loop, g
  <2> QED BY <1>4
<1> HIDE DEF after
<1>6. after = [n \in 0 .. L |-> IF n = 0 THEN p ELSE step(after[n - 1], str[n])]
  BY <1>5
<1>7. Together(after, g, 0, L)
  <2>1. 0 \in 0 .. L /\ g[0] = Verdict(list, i, str, 0)
    OBVIOUS
  <2>2. after[0] = p
    BY <1>6, <2>1
  <2>3. ASSUME NEW n \in 0 + 1 .. L, after[n - 1] = g[n - 1] PROVE after[n] = g[n]
    <3>1. n \in 0 .. L /\ n \in 1 .. L /\ n # 0 /\ n - 1 \in 0 .. L
      OBVIOUS
    <3>2. g[n - 1] = Verdict(list, i, str, n - 1) /\ g[n] = Verdict(list, i, str, n)
      BY <3>1
    <3> HIDE DEF g
    <3>3. after[n] = step(after[n - 1], str[n])
      BY <1>6, <3>1
    <3> QED BY <1>3, <2>3, <3>1, <3>2, <3>3
  <2> HIDE DEF g
  <2> QED BY <1>2, <2>1, <2>2, <2>3 DEF Together
<1>8. \A n \in 0 .. L : after[n] = g[n]
  <2> HIDE DEF g
  <2> QED BY <1>7, Agree
<1>9. L \in 0 .. L
  OBVIOUS
<1>10. after[L] = Verdict(list, i, str, L)
  BY <1>8, <1>9
<1> QED BY <1>1, <1>10 DEF p

LEMMA SameIs ==
  ASSUME NEW S, NEW list \in Lists(S), NEW i \in 0 .. Total(list), NEW str, Len(str) \in Nat
  PROVE  Same(list, i, str) <=> Matches(FlattenSeq(list), i, str, Len(str))
<1>1. Same(list, i, str) <=> Verdict(list, i, str, Len(str)) \notin {Ends, Differs}
  BY CompareIs DEF Same
<1>2. ASSUME Matches(FlattenSeq(list), i, str, Len(str))
      PROVE  Verdict(list, i, str, Len(str)) \notin {Ends, Differs}
  <2>1. i + Len(str) \in 0 .. Total(list)
    <3>1. i + Len(str) <= Len(FlattenSeq(list))
      BY <1>2 DEF Matches
    <3>2. Len(FlattenSeq(list)) = Total(list) /\ Total(list) \in Nat
      BY TotalIs
    <3> QED BY <3>1, <3>2
  <2> QED BY <1>2, <2>1, PlacesAre DEF Verdict
<1>3. ASSUME ~ Matches(FlattenSeq(list), i, str, Len(str))
      PROVE  Verdict(list, i, str, Len(str)) \in {Ends, Differs}
  BY <1>3 DEF Verdict
<1> QED BY <1>1, <1>2, <1>3

\* It is so in the text.
LEMMA OccursIs ==
  ASSUME NEW S, NEW text \in Seq(S), NEW i \in 0 .. Len(text), NEW T, NEW str \in Seq(T)
  PROVE  Occurs(text, i, str) <=> Matches(text, i, str, Len(str))
<1> DEFINE rest == SubSeq(text, i + 1, Len(text))
           L == Len(str)
           N == Len(text)
<1>1. N \in Nat /\ L \in Nat /\ i \in Nat /\ i <= N
  BY LenProperties
<1>2. /\ rest \in Seq(S) /\ Len(rest) = N + 1 - (i + 1)
      /\ \A j \in 1 .. N + 1 - (i + 1) : rest[j] = text[i + 1 + j - 1]
  <2>1. i + 1 \in Nat \ {0} /\ N \in Nat /\ i + 1 <= N + 1 /\ N <= Len(text)
    BY <1>1
  <2> QED BY <2>1, SubSeqIs
<1>3. Len(rest) = N - i /\ \A j \in 1 .. N - i : rest[j] = text[i + j]
  <2>1. N + 1 - (i + 1) = N - i
    BY <1>1
  <2>2. ASSUME NEW j \in 1 .. N - i PROVE rest[j] = text[i + j]
    <3>1. i + 1 + j - 1 = i + j
      BY <1>1
    <3>2. rest[j] = text[i + 1 + j - 1]
      <4> HIDE DEF rest
      <4> QED BY <1>2, <2>1
    <3> QED BY <3>1, <3>2
  <2> HIDE DEF rest
  <2> QED BY <1>2, <2>1, <2>2
<1> HIDE DEF rest, L, N
<1>4. Occurs(text, i, str) <=> L <= N - i /\ SubSeq(str, 1, L) = SubSeq(rest, 1, L)
  BY <1>3 DEF Occurs, IsPrefix, rest, L, N
<1>5. L <= N - i <=> i + L <= N
  BY <1>1
<1>6. ASSUME L <= N - i
      PROVE  SubSeq(str, 1, L) = SubSeq(rest, 1, L) <=> \A j \in 1 .. L : text[i + j] = str[j]
  <2> DEFINE a == SubSeq(str, 1, L)
             b == SubSeq(rest, 1, L)
  <2>1. a \in Seq(T) /\ Len(a) = L + 1 - 1 /\ \A j \in 1 .. L + 1 - 1 : a[j] = str[1 + j - 1]
    <3>1. 1 \in Nat \ {0} /\ 1 <= L + 1 /\ L <= Len(str)
      BY <1>1 DEF L
    <3> QED BY <1>1, <3>1, SubSeqIs
  <2>2. b \in Seq(S) /\ Len(b) = L + 1 - 1 /\ \A j \in 1 .. L + 1 - 1 : b[j] = rest[1 + j - 1]
    <3>1. 1 \in Nat \ {0} /\ 1 <= L + 1 /\ L <= Len(rest)
      BY <1>1, <1>3, <1>6
    <3> QED BY <1>1, <1>2, <3>1, SubSeqIs
  <2> HIDE DEF a, b
  <2>3. L + 1 - 1 = L /\ \A j \in 1 .. L : 1 + j - 1 = j /\ j \in 1 .. N - i
    BY <1>1, <1>6
  <2>4. \A j \in 1 .. L : a[j] = str[j] /\ b[j] = text[i + j]
    <3>1. ASSUME NEW j \in 1 .. L PROVE a[j] = str[j] /\ b[j] = text[i + j]
      <4>1. a[j] = str[1 + j - 1] /\ b[j] = rest[1 + j - 1]
        BY <2>1, <2>2, <2>3
      <4>2. 1 + j - 1 = j
        BY <2>3
      <4>3. rest[j] = text[i + j]
        BY <1>3, <2>3
      <4> QED BY <4>1, <4>2, <4>3
    <3> QED BY <3>1
  <2>5. Len(a) = L /\ Len(b) = L
    BY <2>1, <2>2, <2>3
  <2>6. a = b => \A j \in 1 .. L : text[i + j] = str[j]
    BY <2>4
  <2>7. ASSUME \A j \in 1 .. L : text[i + j] = str[j] PROVE a = b
    <3>1. \A j \in 1 .. Len(a) : a[j] = b[j]
      BY <2>4, <2>5, <2>7
    <3>2. a \in Seq(S \cup T) /\ b \in Seq(S \cup T)
      BY <2>1, <2>2, SeqMonotonic
    <3> QED BY <2>5, <3>1, <3>2, SeqEqual
  <2> QED BY <2>6, <2>7 DEF a, b
<1>7. Matches(text, i, str, Len(str)) <=> i + L <= N /\ \A j \in 1 .. L : text[i + j] = str[j]
  BY DEF Matches, L, N
<1> QED BY <1>4, <1>5, <1>6, <1>7

-----------------------------------------------------------------------------
(* Searching.                                                              *)

Least(T) == CHOOSE x \in T : \A y \in T : x <= y

LEMMA LeastIs ==
  ASSUME NEW T \in SUBSET Nat, T # {}
  PROVE  Least(T) \in T /\ \A y \in T : Least(T) <= y
<1>1. \E x \in T : \A y \in T : x <= y
  BY LeastIn
<1> QED BY <1>1 DEF Least

LEMMA LeastIsUnique ==
  ASSUME NEW T \in SUBSET Nat, NEW x \in T, \A y \in T : x <= y
  PROVE  Least(T) = x
<1>1. Least(T) \in T /\ \A y \in T : Least(T) <= y
  BY LeastIs
<1>2. Least(T) <= x /\ x <= Least(T) /\ x \in Nat /\ Least(T) \in Nat
  BY <1>1
<1> QED BY <1>2

\* Where str is in the text from index on.
Finds(text, index, str) ==
  {i \in index .. Len(text) - 1 : Matches(text, i, str, Len(str))}

LEMMA FirstOfIs ==
  ASSUME NEW S, NEW text \in Seq(S), NEW index \in Nat, NEW T, NEW str \in Seq(T)
  PROVE  FirstOf(text, index, str) =
           IF Finds(text, index, str) = {} THEN -1 ELSE Least(Finds(text, index, str))
<1> DEFINE at == {i \in index .. Len(text) - 1 : Occurs(text, i, str)}
<1>1. at = Finds(text, index, str)
  <2>1. ASSUME NEW i \in index .. Len(text) - 1
        PROVE  Occurs(text, i, str) <=> Matches(text, i, str, Len(str))
    <3>1. Len(text) \in Nat
      BY LenProperties
    <3>2. i \in 0 .. Len(text)
      BY <3>1
    <3> QED BY <3>2, OccursIs
  <2> QED BY <2>1 DEF Finds
<1>2. FirstOf(text, index, str) = IF at = {} THEN -1 ELSE Least(at)
  BY DEF FirstOf, Least
<1> QED BY <1>1, <1>2

\* The search stops at the first place where str is, or where the list ends in it.
LEMMA StrstrIs ==
  ASSUME NEW S, NEW list \in Lists(S), NEW index \in Nat, NEW T, NEW str \in Seq(T), str # <<>>
  PROVE  Strstr(list, index, str) =
           IF Finds(FlattenSeq(list), index, str) = {} THEN -1
           ELSE Least(Finds(FlattenSeq(list), index, str))
<1> DEFINE text == FlattenSeq(list)
           N == Total(list)
           L == Len(str)
           stops == {i \in index .. N - 1 : Compare(list, Place(list, i), str) # Differs}
           at == Finds(text, index, str)
<1>1. N \in Nat /\ Len(text) = N /\ L \in Nat /\ L # 0
  BY TotalIs, LenProperties, EmptySeq
<1>2. Strstr(list, index, str) =
        IF stops = {} THEN -1
        ELSE IF Same(list, Least(stops), str) THEN Least(stops) ELSE -1
  BY DEF Strstr, Least
<1>3. at = {i \in index .. N - 1 : Matches(text, i, str, L)}
  BY <1>1 DEF Finds
<1> HIDE DEF text, N, L, at
<1>4. ASSUME NEW i \in index .. N - 1
      PROVE  /\ i \in 0 .. N
             /\ Same(list, i, str) <=> Matches(text, i, str, L)
             /\ Compare(list, Place(list, i), str) # Differs
                  <=> Matches(text, i, str, L)
                        \/ \E m \in 0 .. L - 1 : Matches(text, i, str, m) /\ i + m = N
  <2>1. i \in 0 .. N
    BY <1>1
  <2>2. Same(list, i, str) <=> Matches(text, i, str, L)
    BY <1>1, <2>1, SameIs DEF text, N, L
  <2>3. Compare(list, Place(list, i), str) = Verdict(list, i, str, L)
    BY <1>1, <2>1, CompareIs DEF N, L
  <2>4. Matches(text, i, str, L) => Verdict(list, i, str, L) # Differs
    <3>1. ASSUME Matches(text, i, str, L) PROVE Verdict(list, i, str, L) # Differs
      <4>1. i + L \in 0 .. N
        BY <1>1, <2>1, <3>1 DEF Matches
      <4>2. Verdict(list, i, str, L) = Place(list, i + L)
        BY <3>1 DEF Verdict, text
      <4> QED BY <4>1, <4>2, PlacesAre DEF N
    <3> QED BY <3>1
  <2>5. ~ Matches(text, i, str, L) =>
          (Verdict(list, i, str, L) # Differs
             <=> \E m \in 0 .. L - 1 : Matches(text, i, str, m) /\ i + m = N)
    BY DEF Verdict, Ends, Differs, text, N
  <2> QED BY <2>1, <2>2, <2>3, <2>4, <2>5
<1>5. CASE at = {}
  <2>1. ASSUME stops # {} PROVE ~ Same(list, Least(stops), str)
    <3>1. Least(stops) \in stops
      <4>1. stops \in SUBSET Nat
        BY <1>1
      <4> HIDE DEF stops
      <4> QED BY <2>1, <4>1, LeastIs
    <3>2. Least(stops) \in index .. N - 1
      BY <3>1
    <3> HIDE DEF stops
    <3> QED BY <1>3, <1>4, <1>5, <3>2
  <2> HIDE DEF stops
  <2>2. Strstr(list, index, str) = -1
    BY <1>2, <2>1
  <2> QED BY <1>5, <2>2 DEF at, text
<1>6. CASE at # {}
  <2>1. at \in SUBSET Nat
    BY <1>1, <1>3
  <2>2. Least(at) \in at /\ \A j \in at : Least(at) <= j
    BY <1>6, <2>1, LeastIs
  <2> DEFINE a == Least(at)
  <2> HIDE DEF a
  <2>3. a \in index .. N - 1 /\ Matches(text, a, str, L) /\ \A j \in at : a <= j
    BY <1>3, <2>2 DEF a
  <2>4. a \in stops
    BY <1>4, <2>3
  <2>5. ASSUME NEW j \in stops PROVE a <= j
    <3>1. j \in index .. N - 1
      OBVIOUS
    <3>2. CASE Matches(text, j, str, L)
      BY <1>3, <2>3, <3>1, <3>2
    <3>3. CASE ~ Matches(text, j, str, L)
      <4>1. Compare(list, Place(list, j), str) # Differs
        OBVIOUS
      <4>2. PICK m \in 0 .. L - 1 : j + m = N
        BY <1>4, <3>1, <3>3, <4>1
      <4>3. a + L <= N
        BY <1>1, <2>3 DEF Matches
      <4>4. a \in Nat /\ j \in Nat /\ m <= L - 1 /\ m \in Nat
        BY <1>1, <2>3, <3>1
      <4> QED BY <1>1, <4>2, <4>3, <4>4
    <3> QED BY <3>2, <3>3
  <2>6. stops \in SUBSET Nat
    BY <1>1
  <2> HIDE DEF stops
  <2>7. Least(stops) = a
    BY <2>4, <2>5, <2>6, LeastIsUnique
  <2>8. stops # {} /\ Same(list, Least(stops), str)
    BY <1>4, <2>3, <2>4, <2>7
  <2>9. Strstr(list, index, str) = a
    BY <1>2, <2>7, <2>8
  <2> QED BY <1>6, <2>9 DEF a, at, text
<1> QED BY <1>5, <1>6

\* Copying takes what is between the indices.
LEMMA StrcpyIs ==
  ASSUME NEW S, NEW list \in Lists(S), NEW index0 \in Nat, NEW index1 \in Nat,
         index0 <= index1 + 1, index1 < Total(list)
  PROVE  Strcpy(list, index0, index1) = SubSeq(FlattenSeq(list), index0 + 1, index1 + 1)
<1> DEFINE text == FlattenSeq(list)
           N == Total(list)
           R == index1 - index0 + 1
           step(s) == [str |-> Append(s.str, list[s.at[1]][s.at[2] + 1]), at |-> After(list, s.at)]
           start == [str |-> <<>>, at |-> Place(list, index0)]
           loop(f) == f = [n \in 0 .. R |-> IF n = 0 THEN start ELSE step(f[n - 1])]
           part(n) == SubSeq(text, index0 + 1, index0 + n)
           g == [n \in 0 .. R |-> [str |-> part(n), at |-> Place(list, index0 + n)]]
           copied == CHOOSE f : loop(f)
<1>1. /\ N \in Nat /\ Len(text) = N /\ text \in Seq(S) /\ R \in Nat
      /\ index0 + R = index1 + 1 /\ index0 + R <= N
  BY TotalIs, FlattenIs
<1>2. Strcpy(list, index0, index1) = copied[R].str
  BY DEF Strcpy
<1> HIDE DEF text, N, R
<1>3. ASSUME NEW n \in 0 .. R
      PROVE  /\ part(n) \in Seq(S) /\ Len(part(n)) = n
             /\ \A i \in 1 .. n : part(n)[i] = text[index0 + i]
  <2> DEFINE m == index0 + 1
             l == index0 + n
             u == SubSeq(text, m, l)
  <2>1. /\ m \in Nat \ {0} /\ l \in Nat /\ m <= l + 1 /\ l <= N /\ l + 1 - m = n
        /\ \A i \in 1 .. n : m + i - 1 = index0 + i
    BY <1>1
  <2>2. part(n) = u
    OBVIOUS
  <2> HIDE DEF m, l
  <2>3. u \in Seq(S) /\ Len(u) = l + 1 - m /\ \A i \in 1 .. l + 1 - m : u[i] = text[m + i - 1]
    BY <1>1, <2>1, SubSeqIs
  <2> HIDE DEF part, u
  <2> QED BY <2>1, <2>2, <2>3
<1>4. part(0) = <<>>
  <2>1. 0 \in 0 .. R
    BY <1>1
  <2> HIDE DEF part
  <2>2. part(0) \in Seq(S) /\ Len(part(0)) = 0
    BY <1>3, <2>1
  <2> QED BY <2>2, EmptySeq
<1>5. ASSUME NEW n \in 1 .. R
      PROVE  [str |-> part(n), at |-> Place(list, index0 + n)]
               = step([str |-> part(n - 1), at |-> Place(list, index0 + (n - 1))])
  <2> DEFINE i == index0 + (n - 1)
             p == Place(list, i)
             c == list[p[1]][p[2] + 1]
  <2>1. /\ n - 1 \in 0 .. R /\ n \in 0 .. R /\ i \in Nat /\ i < N /\ i \in 0 .. N
        /\ i + 1 = index0 + n /\ i + 1 \in 0 .. N
    BY <1>1
  <2>2. step([str |-> part(n - 1), at |-> p]) = [str |-> Append(part(n - 1), c), at |-> After(list, p)]
    OBVIOUS
  <2> HIDE DEF i, step, part
  <2>3. At(list, p, i)
    BY <2>1, PlaceIs DEF N
  <2>4. c = text[i + 1] /\ At(list, After(list, p), i + 1)
    BY <2>1, <2>3, AfterIs DEF N, text
  <2>5. After(list, p) = Place(list, i + 1)
    <3> DEFINE j == i + 1
    <3>1. At(list, After(list, p), j) /\ j \in 0 .. N
      BY <2>1, <2>4
    <3> HIDE DEF j
    <3>2. At(list, Place(list, j), j)
      BY <3>1, PlaceIs DEF N
    <3>3. After(list, p) = Place(list, j)
      BY <3>1, <3>2, PlaceIsUnique
    <3> QED BY <3>3 DEF j
  <2>6. Append(part(n - 1), c) = part(n)
    <3> DEFINE s == part(n - 1)
    <3>1. /\ s \in Seq(S) /\ Len(s) = n - 1
          /\ \A x \in 1 .. n - 1 : s[x] = text[index0 + x]
      BY <1>3, <2>1
    <3>2. /\ part(n) \in Seq(S) /\ Len(part(n)) = n
          /\ \A x \in 1 .. n : part(n)[x] = text[index0 + x]
      BY <1>3, <2>1
    <3>3. c \in S
      <4>1. i + 1 \in 1 .. Len(text)
        BY <1>1, <2>1
      <4> QED BY <1>1, <2>4, <4>1, ElementOfSeq
    <3> HIDE DEF s, c
    <3>4. /\ Append(s, c) \in Seq(S) /\ Len(Append(s, c)) = n
          /\ \A x \in 1 .. n - 1 : Append(s, c)[x] = s[x]
          /\ Append(s, c)[n] = c
      BY <3>1, <3>3, AppendProperties
    <3>5. ASSUME NEW x \in 1 .. n PROVE Append(s, c)[x] = part(n)[x]
      <4>1. CASE x = n
        <5>1. part(n)[n] = text[index0 + n]
          BY <3>2, <4>1
        <5> QED BY <2>1, <2>4, <3>4, <4>1, <5>1
      <4>2. CASE x # n
        <5>1. x \in 1 .. n - 1
          BY <4>2
        <5> QED BY <3>1, <3>2, <3>4, <5>1
      <4> QED BY <4>1, <4>2
    <3>6. Append(s, c) = part(n)
      BY <3>2, <3>4, <3>5, SeqEqual
    <3> QED BY <3>6 DEF s
  <2> QED BY <2>1, <2>2, <2>5, <2>6 DEF i
<1>6. g[0] = start
  <2>1. 0 \in 0 .. R /\ index0 + 0 = index0
    BY <1>1
  <2> HIDE DEF part
  <2> QED BY <1>4, <2>1
<1> HIDE DEF part, start
<1>7. ASSUME NEW n \in 1 .. R PROVE g[n] = step(g[n - 1]) /\ n \in 0 .. R /\ n - 1 \in 0 .. R
  <2>1. n \in 0 .. R /\ n - 1 \in 0 .. R
    BY <1>1
  <2> HIDE DEF step
  <2> QED BY <1>5, <2>1
<1> HIDE DEF step
<1>8. loop(g)
  <2>1. ASSUME NEW n \in 0 .. R PROVE g[n] = IF n = 0 THEN start ELSE step(g[n - 1])
    <3>1. n = 0 \/ n \in 1 .. R
      BY <1>1
    <3> HIDE DEF g
    <3> QED BY <1>6, <1>7, <3>1
  <2>2. g = [n \in 0 .. R |-> g[n]]
    OBVIOUS
  <2> HIDE DEF g
  <2>3. [n \in 0 .. R |-> g[n]] = [n \in 0 .. R |-> IF n = 0 THEN start ELSE step(g[n - 1])]
    BY <2>1
  <2> QED BY <2>2, <2>3
<1>9. loop(copied)
  <2> HIDE DEF loop, g
  <2> QED BY <1>8
<1> HIDE DEF copied
<1>10. copied = [n \in 0 .. R |-> IF n = 0 THEN start ELSE step(copied[n - 1])]
  BY <1>9
<1>11. Together(copied, g, 0, R)
  <2>1. 0 \in 0 .. R
    BY <1>1
  <2>2. copied[0] = start
    BY <1>10, <2>1
  <2>3. ASSUME NEW n \in 0 + 1 .. R, copied[n - 1] = g[n - 1] PROVE copied[n] = g[n]
    <3>1. n \in 1 .. R /\ n \in 0 .. R /\ n # 0
      BY <1>1
    <3> HIDE DEF g
    <3>2. copied[n] = step(copied[n - 1])
      BY <1>10, <3>1
    <3> QED BY <1>7, <2>3, <3>1, <3>2
  <2> HIDE DEF g
  <2> QED BY <1>6, <2>2, <2>3 DEF Together
<1>12. R \in 0 .. R
  BY <1>1
<1>13. copied[R] = g[R]
  <2> HIDE DEF g
  <2> QED BY <1>1, <1>11, <1>12, Agree
<1>14. g[R].str = part(R)
  BY <1>12
<1>15. part(R) = SubSeq(text, index0 + 1, index1 + 1)
  BY <1>1 DEF part
<1> HIDE DEF g
<1> QED BY <1>2, <1>13, <1>14, <1>15 DEF text

-----------------------------------------------------------------------------
(* Joining.                                                                *)

\* The lengths are what is added up from 0.
LEMMA LenToIs ==
  ASSUME NEW S, NEW list \in Lists(S), NEW F, F[0] = 0,
         \A k \in 1 .. Len(list) : F[k] = F[k - 1] + Len(list[k])
  PROVE  \A k \in 0 .. Len(list) : LenTo(list, k) = F[k]
<1> DEFINE N == Len(list)
           g == [k \in 0 .. N |-> LenTo(list, k)]
<1>1. N \in Nat
  BY ListIs
<1>2. LenTo(list, 0) = 0 /\ \A k \in 1 .. N : LenTo(list, k) = LenTo(list, k - 1) + Len(list[k])
  BY LenToSteps
<1>3. \A k \in 1 .. N : F[k] = F[k - 1] + Len(list[k])
  OBVIOUS
<1> HIDE DEF N
<1>4. \A k \in 0 .. N : g[k] = LenTo(list, k)
  OBVIOUS
<1> HIDE DEF g
<1>5. Together(g, F, 0, N)
  <2>1. g[0] = F[0]
    BY <1>1, <1>2, <1>4
  <2>2. ASSUME NEW k \in 0 + 1 .. N, g[k - 1] = F[k - 1] PROVE g[k] = F[k]
    <3>1. k \in 1 .. N /\ k \in 0 .. N /\ k - 1 \in 0 .. N
      BY <1>1
    <3>2. g[k] = LenTo(list, k) /\ g[k - 1] = LenTo(list, k - 1)
      BY <1>4, <3>1
    <3> QED BY <1>2, <1>3, <2>2, <3>1, <3>2
  <2> QED BY <2>1, <2>2 DEF Together
<1>6. \A k \in 0 .. N : g[k] = F[k]
  BY <1>1, <1>5, Agree
<1> QED BY <1>4, <1>6 DEF N

\* Where a byte of a cbuf is in the text.
LEMMA ByteIs ==
  ASSUME NEW S, NEW list \in Lists(S), NEW k \in 1 .. Len(list), NEW o \in 1 .. Len(list[k])
  PROVE  /\ LenTo(list, k - 1) + o \in 1 .. Total(list)
         /\ FlattenSeq(list)[LenTo(list, k - 1) + o] = list[k][o]
<1> DEFINE N == Len(list)
           a == LenTo(list, k - 1)
           b == LenTo(list, k)
           l == Len(list[k])
<1>1. N \in Nat /\ l \in Nat /\ k \in 0 .. N /\ k - 1 \in 0 .. N /\ N \in 0 .. N
  BY ListIs
<1>2. a \in Nat /\ b \in Nat /\ b = a + l /\ Total(list) \in Nat /\ Total(list) = LenTo(list, N)
  BY <1>1, LenToSteps, TotalIs
<1>3. b <= Total(list)
  <2>1. CASE k = N
    <3>1. b = Total(list)
      BY <1>2, <2>1
    <3> HIDE DEF b
    <3> QED BY <1>2, <3>1
  <2>2. CASE k # N
    <3>1. k < N
      <4> HIDE DEF N
      <4> QED BY <1>1, <2>2
    <3>2. b < LenTo(list, N)
      BY <1>1, <3>1, LenToGrows
    <3> HIDE DEF b, N
    <3> QED BY <1>2, <3>2
  <2> QED BY <2>1, <2>2
<1>4. a + o \in 1 .. Total(list)
  <2>1. o \in 1 .. l
    OBVIOUS
  <2> HIDE DEF a, b, l
  <2> QED BY <1>1, <1>2, <1>3, <2>1
<1>5. FlattenSeq(list)[a + o] = list[k][o]
  BY FlattenIs DEF Spells
<1> QED BY <1>4, <1>5

\* Every byte of the text is one of a cbuf.
LEMMA FlattenIsUnique ==
  ASSUME NEW S, NEW list \in Lists(S), NEW t \in Seq(S), Spells(t, list, Len(list))
  PROVE  t = FlattenSeq(list)
<1> DEFINE text == FlattenSeq(list)
           N == Total(list)
<1>1. text \in Seq(S) /\ Len(text) = N /\ Len(t) = N /\ N \in Nat
  BY FlattenIs, TotalIs DEF Spells
<1>2. ASSUME NEW i \in 1 .. N PROVE t[i] = text[i]
  <2> DEFINE h == i - 1
  <2>1. h \in 0 .. N /\ h \in Nat /\ h < N /\ h + 1 = i
    BY <1>1
  <2> HIDE DEF h
  <2>2. At(list, Place(list, h), h)
    BY <2>1, PlaceIs
  <2>3. PICK k \in 1 .. Len(list) + 1, o \in Nat :
          /\ Place(list, h) = <<k, o>> /\ h = LenTo(list, k - 1) + o
          /\ IF k <= Len(list) THEN o < Len(list[k]) ELSE o = 0
    BY <2>2 DEF At
  <2>4. Place(list, h)[1] \in 1 .. Len(list)
    BY <2>1, <2>2, AfterIs
  <2>5. k \in 1 .. Len(list) /\ k - 1 \in 0 .. Len(list)
    BY <2>3, <2>4
  <2>6. o + 1 \in 1 .. Len(list[k])
    BY <2>3, <2>5, ListIs
  <2>7. LenTo(list, k - 1) \in Nat
    BY <2>5, LenToSteps
  <2>8. LenTo(list, k - 1) + (o + 1) = i
    BY <2>1, <2>3, <2>7
  <2>9. t[LenTo(list, k - 1) + (o + 1)] = list[k][o + 1]
    BY <2>5, <2>6 DEF Spells
  <2>10. text[LenTo(list, k - 1) + (o + 1)] = list[k][o + 1]
    BY <2>5, <2>6, FlattenIs DEF Spells
  <2> QED BY <2>8, <2>9, <2>10
<1> HIDE DEF text, N
<1>3. t = text
  BY <1>1, <1>2, SeqEqual
<1> QED BY <1>3 DEF text

\* The text of a list that is joined to another is its text joined to the other's.
LEMMA JoinIs ==
  ASSUME NEW S, NEW a \in Lists(S), NEW b \in Lists(S)
  PROVE  /\ a \o b \in Lists(S) /\ Len(a \o b) = Len(a) + Len(b)
         /\ \A k \in 0 .. Len(a) : LenTo(a \o b, k) = LenTo(a, k)
         /\ \A k \in 0 .. Len(b) : LenTo(a \o b, Len(a) + k) = Total(a) + LenTo(b, k)
         /\ Total(a \o b) = Total(a) + Total(b)
         /\ FlattenSeq(a \o b) = FlattenSeq(a) \o FlattenSeq(b)
<1> DEFINE N == Len(a)
           M == Len(b)
           A == Total(a)
           c == a \o b
           F == [k \in 0 .. N + M |-> IF k <= N THEN LenTo(a, k) ELSE A + LenTo(b, k - N)]
<1>1. /\ c \in Lists(S) /\ Len(c) = N + M /\ N \in Nat /\ M \in Nat
      /\ \A k \in 1 .. N : c[k] = a[k]
      /\ \A k \in 1 .. M : c[N + k] = b[k]
  <2>1. a \in Seq(Seq(S) \ {<<>>}) /\ b \in Seq(Seq(S) \ {<<>>})
    BY DEF Lists
  <2> QED BY <2>1, ConcatIs DEF Lists
<1>2. /\ LenTo(a, 0) = 0 /\ \A k \in 0 .. N : LenTo(a, k) \in Nat
      /\ \A k \in 1 .. N : LenTo(a, k) = LenTo(a, k - 1) + Len(a[k])
      /\ A \in Nat /\ A = LenTo(a, N)
  BY LenToSteps, TotalIs
<1>3. /\ LenTo(b, 0) = 0 /\ \A k \in 0 .. M : LenTo(b, k) \in Nat
      /\ \A k \in 1 .. M : LenTo(b, k) = LenTo(b, k - 1) + Len(b[k])
      /\ Total(b) = LenTo(b, M)
  BY LenToSteps, TotalIs
<1>4. \A k \in 1 .. N : Len(a[k]) \in Nat
  BY ListIs
<1>5. \A k \in 1 .. M : Len(b[k]) \in Nat
  BY ListIs
<1> HIDE DEF c, N, M, A
<1>6. ASSUME NEW k \in 1 .. N + M PROVE F[k] = F[k - 1] + Len(c[k])
  <2>1. k \in 0 .. N + M /\ k - 1 \in 0 .. N + M
    BY <1>1
  <2>2. /\ F[k] = IF k <= N THEN LenTo(a, k) ELSE A + LenTo(b, k - N)
        /\ F[k - 1] = IF k - 1 <= N THEN LenTo(a, k - 1) ELSE A + LenTo(b, k - 1 - N)
    BY <2>1
  <2> HIDE DEF F
  <2>3. CASE k <= N
    <3>1. k \in 1 .. N /\ k - 1 <= N
      BY <1>1, <2>3
    <3> QED BY <1>1, <1>2, <2>2, <2>3, <3>1
  <2>4. CASE ~ (k <= N)
    <3> DEFINE l == k - N
    <3>1. l \in 1 .. M /\ N + l = k /\ l - 1 \in 0 .. M /\ k - 1 - N = l - 1
      BY <1>1, <2>4
    <3> HIDE DEF l
    <3>2. F[k] = A + LenTo(b, l)
      BY <2>2, <2>4 DEF l
    <3>3. F[k - 1] = A + LenTo(b, l - 1)
      <4>1. CASE k - 1 <= N
        <5>1. k - 1 = N /\ l - 1 = 0
          BY <1>1, <2>4, <3>1, <4>1
        <5>2. F[k - 1] = LenTo(a, N)
          BY <2>2, <4>1, <5>1
        <5> QED BY <1>2, <1>3, <5>1, <5>2
      <4>2. CASE ~ (k - 1 <= N)
        BY <2>2, <3>1, <4>2
      <4> QED BY <4>1, <4>2
    <3>4. c[k] = b[l] /\ Len(b[l]) \in Nat
      BY <1>1, <1>5, <3>1
    <3>5. LenTo(b, l) = LenTo(b, l - 1) + Len(b[l]) /\ LenTo(b, l - 1) \in Nat
      BY <1>3, <3>1
    <3> QED BY <1>2, <3>2, <3>3, <3>4, <3>5
  <2> QED BY <2>3, <2>4
<1>7. F[0] = 0
  <2>1. 0 \in 0 .. N + M /\ 0 <= N
    BY <1>1
  <2> QED BY <1>2, <2>1
<1>8. /\ \A k \in 0 .. N : F[k] = LenTo(a, k)
      /\ \A k \in 0 .. M : F[N + k] = A + LenTo(b, k)
  <2>1. \A k \in 0 .. N : F[k] = LenTo(a, k)
    BY <1>1
  <2>2. ASSUME NEW k \in 0 .. M PROVE F[N + k] = A + LenTo(b, k)
    <3>1. ASSUME NEW l \in 0 .. N + M, l = N + k PROVE F[l] = A + LenTo(b, k)
      <4>1. F[l] = IF l <= N THEN LenTo(a, l) ELSE A + LenTo(b, l - N)
        OBVIOUS
      <4> HIDE DEF F
      <4>2. CASE k = 0
        <5>1. l = N /\ N <= N
          BY <1>1, <3>1, <4>2
        <5>2. F[l] = LenTo(a, N)
          BY <4>1, <5>1
        <5> QED BY <1>2, <1>3, <4>2, <5>2
      <4>3. CASE k # 0
        <5>1. ~ (l <= N) /\ l - N = k
          BY <1>1, <3>1, <4>3
        <5> QED BY <4>1, <5>1
      <4> QED BY <4>2, <4>3
    <3>2. N + k \in 0 .. N + M
      BY <1>1
    <3> HIDE DEF F
    <3> QED BY <3>1, <3>2
  <2> HIDE DEF F
  <2> QED BY <2>1, <2>2
<1> HIDE DEF F
<1>9. \A k \in 0 .. N + M : LenTo(c, k) = F[k]
  <2>1. \A k \in 1 .. Len(c) : F[k] = F[k - 1] + Len(c[k])
    BY <1>1, <1>6
  <2>2. \A k \in 0 .. Len(c) : LenTo(c, k) = F[k]
    BY <1>1, <1>7, <2>1, LenToIs
  <2> QED BY <1>1, <2>2
<1>10. /\ \A k \in 0 .. N : LenTo(c, k) = LenTo(a, k)
       /\ \A k \in 0 .. M : LenTo(c, N + k) = A + LenTo(b, k)
  <2>1. \A k \in 0 .. N : k \in 0 .. N + M
    BY <1>1
  <2>2. \A k \in 0 .. M : N + k \in 0 .. N + M
    BY <1>1
  <2> QED BY <1>8, <1>9, <2>1, <2>2
<1>11. Total(c) = A + Total(b)
  <2>1. M \in 0 .. M
    BY <1>1
  <2>2. Total(c) = LenTo(c, N + M)
    BY <1>1 DEF Total
  <2> QED BY <1>3, <1>10, <2>1, <2>2
<1>12. FlattenSeq(c) = FlattenSeq(a) \o FlattenSeq(b)
  <2> DEFINE f == FlattenSeq(a)
             g == FlattenSeq(b)
             t == f \o g
  <2>1. f \in Seq(S) /\ g \in Seq(S) /\ Len(f) = A /\ Len(g) = Total(b)
    BY FlattenIs, TotalIs DEF A
  <2>2. \A k \in 1 .. N : \A o \in 1 .. Len(a[k]) :
          LenTo(a, k - 1) + o \in 1 .. A /\ f[LenTo(a, k - 1) + o] = a[k][o]
    BY ByteIs DEF A, N
  <2>3. \A k \in 1 .. M : \A o \in 1 .. Len(b[k]) :
          LenTo(b, k - 1) + o \in 1 .. Total(b) /\ g[LenTo(b, k - 1) + o] = b[k][o]
    BY ByteIs DEF M
  <2> HIDE DEF f, g
  <2>4. /\ t \in Seq(S) /\ Len(t) = Len(f) + Len(g)
        /\ \A i \in 1 .. Len(f) : t[i] = f[i]
        /\ \A i \in 1 .. Len(g) : t[Len(f) + i] = g[i]
    <3>1. f \in Seq(S) /\ g \in Seq(S)
      BY <2>1
    <3> QED BY <3>1, ConcatIs
  <2> HIDE DEF t
  <2>5. /\ t \in Seq(S) /\ Len(t) = A + Total(b)
        /\ \A i \in 1 .. A : t[i] = f[i]
        /\ \A i \in 1 .. Total(b) : t[A + i] = g[i]
    BY <2>1, <2>4
  <2>6. ASSUME NEW j \in 1 .. N + M, NEW o \in 1 .. Len(c[j])
        PROVE  t[LenTo(c, j - 1) + o] = c[j][o]
    <3>1. CASE j <= N
      <4>1. j \in 1 .. N /\ j - 1 \in 0 .. N
        BY <1>1, <3>1
      <4>2. c[j] = a[j] /\ LenTo(c, j - 1) = LenTo(a, j - 1)
        BY <1>1, <1>10, <4>1
      <4>3. LenTo(a, j - 1) + o \in 1 .. A /\ f[LenTo(a, j - 1) + o] = a[j][o]
        BY <2>2, <4>1, <4>2
      <4> QED BY <2>5, <4>2, <4>3
    <3>2. CASE ~ (j <= N)
      <4> DEFINE l == j - N
      <4>1. l \in 1 .. M /\ N + l = j /\ l - 1 \in 0 .. M /\ N + (l - 1) = j - 1
        BY <1>1, <3>2
      <4> HIDE DEF l
      <4>2. c[j] = b[l] /\ LenTo(c, j - 1) = A + LenTo(b, l - 1)
        BY <1>1, <1>10, <4>1
      <4>3. LenTo(b, l - 1) + o \in 1 .. Total(b) /\ g[LenTo(b, l - 1) + o] = b[l][o]
        BY <2>3, <4>1, <4>2
      <4>4. t[A + (LenTo(b, l - 1) + o)] = b[l][o]
        BY <2>5, <4>3
      <4>5. A + LenTo(b, l - 1) + o = A + (LenTo(b, l - 1) + o)
        BY <1>2, <1>3, <4>1
      <4> QED BY <4>2, <4>4, <4>5
    <3> QED BY <3>1, <3>2
  <2>7. Spells(t, c, Len(c))
    <3>1. LenTo(c, Len(c)) = A + Total(b)
      BY <1>11 DEF Total
    <3> QED BY <1>1, <2>5, <2>6, <3>1 DEF Spells
  <2>8. t = FlattenSeq(c)
    BY <1>1, <2>5, <2>7, FlattenIsUnique
  <2> QED BY <2>8 DEF t, f, g
<1> QED BY <1>1, <1>10, <1>11, <1>12 DEF c, N, M, A

LEMMA EmptyIs ==
  ASSUME NEW S
  PROVE  <<>> \in Lists(S) /\ FlattenSeq(<<>>) = <<>> /\ Total(<<>>) = 0 /\ Len(<<>>) = 0
<1>1. <<>> \in Lists(S) /\ Len(<<>>) = 0
  BY EmptySeq DEF Lists
<1>2. Total(<<>>) = 0
  BY <1>1, TotalIs
<1>3. FlattenSeq(<<>>) \in Seq(S) /\ Len(FlattenSeq(<<>>)) = 0
  BY <1>1, <1>2, FlattenIs, TotalIs
<1> QED BY <1>1, <1>2, <1>3, EmptySeq

LEMMA OneIs ==
  ASSUME NEW S, NEW c \in Seq(S), c # <<>>
  PROVE  /\ <<c>> \in Lists(S) /\ Len(<<c>>) = 1 /\ LenTo(<<c>>, 0) = 0
         /\ LenTo(<<c>>, 1) = Len(c) /\ Total(<<c>>) = Len(c)
         /\ FlattenSeq(<<c>>) = c
<1>1. <<c>> \in Lists(S) /\ Len(<<c>>) = 1 /\ <<c>>[1] = c
  BY DEF Lists
<1>2. /\ LenTo(<<c>>, 0) = 0
      /\ \A k \in 1 .. Len(<<c>>) : LenTo(<<c>>, k) = LenTo(<<c>>, k - 1) + Len(<<c>>[k])
  BY <1>1, LenToSteps
<1>3. Len(c) \in Nat
  BY LenProperties
<1> DEFINE one == <<c>>
<1> HIDE DEF one
<1>4. LenTo(one, 1) = Len(c) /\ Total(one) = Len(c)
  <2>1. 1 \in 1 .. Len(one) /\ 1 - 1 = 0
    BY <1>1 DEF one
  <2>2. LenTo(one, 1) = LenTo(one, 1 - 1) + Len(one[1])
    BY <1>2, <2>1 DEF one
  <2>3. LenTo(one, 0) = 0 /\ one[1] = c /\ Len(one) = 1
    BY <1>1, <1>2 DEF one
  <2>4. LenTo(one, 1) = Len(c)
    BY <1>3, <2>1, <2>2, <2>3
  <2> QED BY <2>3, <2>4 DEF Total
<1>5. Spells(c, one, Len(one))
  <2>1. Len(one) = 1 /\ one[1] = c /\ LenTo(one, 0) = 0
    BY <1>1, <1>2 DEF one
  <2>2. ASSUME NEW j \in 1 .. Len(one), NEW o \in 1 .. Len(one[j])
        PROVE  c[LenTo(one, j - 1) + o] = one[j][o]
    <3>1. j = 1
      BY <2>1
    <3>2. LenTo(one, j - 1) + o = o
      BY <2>1, <3>1
    <3> QED BY <2>1, <3>1, <3>2
  <2> QED BY <1>4, <2>1, <2>2 DEF Spells
<1>6. one \in Lists(S)
  BY <1>1 DEF one
<1>7. FlattenSeq(one) = c
  BY <1>5, <1>6, FlattenIsUnique
<1> QED BY <1>1, <1>2, <1>4, <1>7 DEF one

\* Where cbufs begin and end.
Bounds(list) == {LenTo(list, k) : k \in 0 .. Len(list)}

LEMMA BoundsOfJoin ==
  ASSUME NEW S, NEW a \in Lists(S), NEW b \in Lists(S)
  PROVE  Bounds(a \o b) = Bounds(a) \cup {Total(a) + x : x \in Bounds(b)}
<1> DEFINE N == Len(a)
           M == Len(b)
           A == Total(a)
           c == a \o b
           right == Bounds(a) \cup {A + x : x \in Bounds(b)}
<1>1. /\ Len(c) = N + M /\ N \in Nat /\ M \in Nat
      /\ \A k \in 0 .. N : LenTo(c, k) = LenTo(a, k)
      /\ \A k \in 0 .. M : LenTo(c, N + k) = A + LenTo(b, k)
  BY JoinIs, ListIs
<1> HIDE DEF c, N, M, A
<1>2. ASSUME NEW k \in 0 .. N + M PROVE LenTo(c, k) \in right
  <2>1. CASE k <= N
    <3>1. k \in 0 .. N
      BY <1>1, <2>1
    <3> QED BY <1>1, <3>1 DEF Bounds, N
  <2>2. CASE ~ (k <= N)
    <3> DEFINE l == k - N
    <3>1. l \in 0 .. M /\ N + l = k
      BY <1>1, <2>2
    <3> HIDE DEF l
    <3>2. LenTo(c, k) = A + LenTo(b, l) /\ LenTo(b, l) \in Bounds(b)
      BY <1>1, <3>1 DEF Bounds, M
    <3> QED BY <3>2
  <2> QED BY <2>1, <2>2
<1>3. ASSUME NEW k \in 0 .. N PROVE LenTo(a, k) \in Bounds(c)
  <2>1. k \in 0 .. Len(c)
    BY <1>1
  <2> QED BY <1>1, <2>1 DEF Bounds
<1>4. ASSUME NEW k \in 0 .. M PROVE A + LenTo(b, k) \in Bounds(c)
  <2>1. N + k \in 0 .. Len(c)
    BY <1>1
  <2> QED BY <1>1, <2>1 DEF Bounds
<1>5. Bounds(c) \subseteq right
  BY <1>1, <1>2 DEF Bounds
<1>6. \A x \in Bounds(a) : x \in Bounds(c)
  BY <1>3 DEF Bounds, N
<1>7. \A x \in Bounds(b) : A + x \in Bounds(c)
  BY <1>4 DEF Bounds, M
<1> HIDE DEF c
<1>8. Bounds(c) = Bounds(a) \cup {A + x : x \in Bounds(b)}
  BY <1>5, <1>6, <1>7
<1> QED BY <1>8 DEF c, A

LEMMA BoundsOfOne ==
  ASSUME NEW S, NEW c \in Seq(S), c # <<>>
  PROVE  Bounds(<<c>>) = {0, Len(c)}
<1> DEFINE one == <<c>>
<1>1. Len(one) = 1 /\ LenTo(one, 0) = 0 /\ LenTo(one, 1) = Len(c)
  BY OneIs
<1> HIDE DEF one
<1>2. 0 .. Len(one) = {0, 1}
  BY <1>1
<1>3. Bounds(one) = {LenTo(one, 0), LenTo(one, 1)}
  BY <1>2 DEF Bounds
<1> QED BY <1>1, <1>3 DEF one

LEMMA BoundsAre ==
  ASSUME NEW S, NEW list \in Lists(S)
  PROVE  /\ 0 \in Bounds(list) /\ Total(list) \in Bounds(list)
         /\ \A b \in Bounds(list) : b \in Nat /\ b <= Total(list)
<1> DEFINE N == Len(list)
<1>1. N \in Nat /\ 0 \in 0 .. N /\ N \in 0 .. N /\ Total(list) = LenTo(list, N)
      /\ Total(list) \in Nat
  BY ListIs, TotalIs
<1>2. LenTo(list, 0) = 0 /\ \A k \in 0 .. N : LenTo(list, k) \in Nat
  BY LenToSteps
<1>3. ASSUME NEW k \in 0 .. N PROVE LenTo(list, k) <= Total(list)
  <2>1. CASE k = N
    <3>1. LenTo(list, k) = Total(list)
      BY <1>1, <2>1
    <3> HIDE DEF N
    <3> QED BY <1>1, <3>1
  <2>2. CASE k # N
    <3>1. k < N
      <4> HIDE DEF N
      <4> QED BY <1>1, <2>2
    <3>2. LenTo(list, k) < LenTo(list, N)
      BY <1>1, <3>1, LenToGrows
    <3> HIDE DEF N
    <3> QED BY <1>1, <1>2, <3>2
  <2> QED BY <2>1, <2>2
<1> QED BY <1>1, <1>2, <1>3 DEF Bounds

-----------------------------------------------------------------------------
(* Cutting.                                                                *)

Narrow(list) == \A k \in DOMAIN list : Len(list[k]) < Width

\* Two lists that a list is cut into at n.
CutInto(list, n, p, q) ==
  /\ Rechain(list, n) = p \o q
  /\ Total(p) = n /\ FlattenSeq(list) = FlattenSeq(p) \o FlattenSeq(q)
  /\ Narrow(q)
  /\ \A b \in Bounds(q) : b = 0 \/ n + b \in Bounds(list)
  /\ \A b \in Bounds(list) : b > n => b - n \in Bounds(q)

LEMMA EndsInIs ==
  ASSUME NEW S, NEW list \in Lists(S), NEW n \in 1 .. Total(list)
  PROVE  /\ EndsIn(list, n) \in 1 .. Len(list)
         /\ LenTo(list, EndsIn(list, n) - 1) < n /\ n <= LenTo(list, EndsIn(list, n))
<1> DEFINE N == Len(list)
           T == {k \in 1 .. N : n <= LenTo(list, k)}
<1>1. /\ N \in Nat /\ DOMAIN list = 1 .. N /\ Total(list) \in Nat /\ Total(list) = LenTo(list, N)
      /\ LenTo(list, 0) = 0 /\ \A k \in 0 .. N : LenTo(list, k) \in Nat
  BY ListIs, TotalIs, LenToSteps
<1> HIDE DEF N
<1>2. T \in SUBSET Nat /\ N \in T
  <2>1. N # 0
    BY <1>1
  <2>2. N \in 1 .. N /\ n <= LenTo(list, N)
    BY <1>1, <2>1
  <2> QED BY <1>1, <2>2
<1>3. PICK k \in T : \A j \in T : k <= j
  <2> HIDE DEF T
  <2> QED BY <1>2, LeastIn
<1>4. k \in DOMAIN list /\ LenTo(list, k - 1) < n /\ n <= LenTo(list, k)
  <2>1. k \in 1 .. N /\ n <= LenTo(list, k)
    BY <1>3
  <2>2. LenTo(list, k - 1) < n
    <3>1. CASE k = 1
      <4>1. LenTo(list, k - 1) = 0
        BY <1>1, <3>1
      <4> QED BY <4>1
    <3>2. CASE k # 1
      <4>1. k - 1 \in 1 .. N /\ ~ (k <= k - 1) /\ k - 1 \in 0 .. N
        BY <1>1, <2>1, <3>2
      <4>2. ~ (n <= LenTo(list, k - 1))
        BY <1>3, <4>1
      <4>3. LenTo(list, k - 1) \in Nat /\ n \in Nat
        BY <1>1, <4>1
      <4> QED BY <4>2, <4>3
    <3> QED BY <3>1, <3>2
  <2> QED BY <1>1, <2>1, <2>2
<1> DEFINE P(x) == LenTo(list, x - 1) < n /\ n <= LenTo(list, x)
<1>5. EndsIn(list, n) = CHOOSE x \in DOMAIN list : P(x)
  BY DEF EndsIn
<1> HIDE DEF P
<1>6. P(k)
  BY <1>4 DEF P
<1>7. EndsIn(list, n) \in DOMAIN list /\ P(EndsIn(list, n))
  BY <1>4, <1>5, <1>6
<1> QED BY <1>1, <1>7 DEF P, N

\* Lists are the same where their lengths are: the places of bounds are unique.
LEMMA SplitAtIs ==
  ASSUME NEW S, NEW p \in Lists(S), NEW q \in Lists(S), NEW n, Total(p) = n,
         Len(p) # 0
  PROVE  Splits(p \o q, n) /\ SplitAt(p \o q, n) = Len(p)
<1> DEFINE c == p \o q
           N == Len(p)
<1>1. /\ c \in Lists(S) /\ N \in Nat /\ DOMAIN c = 1 .. Len(c) /\ Len(c) \in Nat /\ N <= Len(c)
      /\ \A k \in 0 .. N : LenTo(c, k) = LenTo(p, k)
  <2>1. c \in Lists(S) /\ Len(c) = N + Len(q) /\ \A k \in 0 .. N : LenTo(c, k) = LenTo(p, k)
    BY JoinIs
  <2>2. N \in Nat /\ Len(q) \in Nat
    BY ListIs
  <2>3. DOMAIN c = 1 .. Len(c)
    BY <2>1, ListIs
  <2> HIDE DEF c, N
  <2> QED BY <2>1, <2>2, <2>3
<1>2. n = LenTo(p, N)
  BY DEF Total
<1> HIDE DEF c, N
<1>3. N \in DOMAIN c /\ LenTo(c, N) = n
  <2>1. N # 0
    BY DEF N
  <2> QED BY <1>1, <1>2, <2>1
<1>4. ASSUME NEW k \in DOMAIN c, LenTo(c, k) = n PROVE k = N
  <2>1. k \in 0 .. Len(c) /\ N \in 0 .. Len(c)
    BY <1>1
  <2>2. k < N => LenTo(c, k) < LenTo(c, N)
    BY <1>1, <2>1, LenToGrows
  <2>3. N < k => LenTo(c, N) < LenTo(c, k)
    BY <1>1, <2>1, LenToGrows
  <2>4. LenTo(c, k) \in Nat /\ LenTo(c, N) \in Nat
    BY <1>1, <2>1, LenToSteps
  <2>5. ~ (k < N) /\ ~ (N < k)
    BY <1>3, <1>4, <2>2, <2>3, <2>4
  <2> QED BY <1>1, <2>1, <2>5
<1>5. SplitAt(c, n) = N
  BY <1>3, <1>4 DEF SplitAt
<1> QED BY <1>3, <1>5 DEF Splits, c, N

LEMMA PartsAre ==
  ASSUME NEW T, NEW s \in Seq(T), NEW k \in 0 .. Len(s)
  PROVE  /\ SubSeq(s, 1, k) \in Seq(T) /\ Len(SubSeq(s, 1, k)) = k
         /\ SubSeq(s, k + 1, Len(s)) \in Seq(T) /\ Len(SubSeq(s, k + 1, Len(s))) = Len(s) - k
         /\ \A i \in 1 .. k : SubSeq(s, 1, k)[i] = s[i]
         /\ \A i \in 1 .. Len(s) - k : SubSeq(s, k + 1, Len(s))[i] = s[k + i]
         /\ SubSeq(s, 1, k) \o SubSeq(s, k + 1, Len(s)) = s
<1> DEFINE N == Len(s)
<1>1. N \in Nat /\ k \in Nat /\ k <= N
  BY LenProperties
<1>2. /\ SubSeq(s, 1, k) \in Seq(T) /\ Len(SubSeq(s, 1, k)) = k
      /\ \A i \in 1 .. k : SubSeq(s, 1, k)[i] = s[i]
  <2> DEFINE u == SubSeq(s, 1, k)
  <2>1. 1 \in Nat \ {0} /\ 1 <= k + 1 /\ k + 1 - 1 = k /\ \A i \in 1 .. k : 1 + i - 1 = i
    BY <1>1
  <2>2. u \in Seq(T) /\ Len(u) = k + 1 - 1 /\ \A i \in 1 .. k + 1 - 1 : u[i] = s[1 + i - 1]
    BY <1>1, <2>1, SubSeqIs
  <2> HIDE DEF u
  <2>3. Len(u) = k /\ \A i \in 1 .. k : u[i] = s[1 + i - 1]
    BY <2>1, <2>2
  <2>4. \A i \in 1 .. k : u[i] = s[i]
    BY <2>1, <2>3
  <2> QED BY <2>2, <2>3, <2>4 DEF u
<1>3. /\ SubSeq(s, k + 1, N) \in Seq(T) /\ Len(SubSeq(s, k + 1, N)) = N - k
      /\ \A i \in 1 .. N - k : SubSeq(s, k + 1, N)[i] = s[k + i]
  <2> DEFINE m == k + 1
             u == SubSeq(s, m, N)
  <2>1. m \in Nat \ {0} /\ m <= N + 1 /\ N + 1 - m = N - k /\ N <= N
        /\ \A i \in 1 .. N - k : m + i - 1 = k + i
    BY <1>1
  <2> HIDE DEF m
  <2>2. u \in Seq(T) /\ Len(u) = N + 1 - m /\ \A i \in 1 .. N + 1 - m : u[i] = s[m + i - 1]
    BY <1>1, <2>1, SubSeqIs
  <2> HIDE DEF u, N
  <2>3. Len(u) = N - k /\ \A i \in 1 .. N - k : u[i] = s[m + i - 1]
    BY <2>1, <2>2
  <2>4. \A i \in 1 .. N - k : u[i] = s[k + i]
    BY <2>1, <2>3
  <2> QED BY <2>2, <2>3, <2>4 DEF u, m
<1>4. SubSeq(s, 1, k) \o SubSeq(s, k + 1, N) = s
  <2>1. 1 \in 1 .. N + 1 /\ k \in 1 - 1 .. N /\ N \in k .. N
    BY <1>1
  <2>2. SubSeq(s, 1, k) \o SubSeq(s, k + 1, N) = SubSeq(s, 1, N)
    BY <2>1, ConcatAdjacentSubSeq
  <2> QED BY <2>2, SubSeqFull
<1> QED BY <1>2, <1>3, <1>4

LEMMA PairIs ==
  ASSUME NEW T, NEW a \in T, NEW b \in T
  PROVE  <<a, b>> = <<a>> \o <<b>> /\ <<a, b>> \in Seq(T)
<1> DEFINE u == <<a, b>>
           s == <<a>>
           t == <<b>>
           v == s \o t
<1>1. u \in Seq(T) /\ Len(u) = 2 /\ u[1] = a /\ u[2] = b
  OBVIOUS
<1>2. s \in Seq(T) /\ t \in Seq(T) /\ Len(s) = 1 /\ Len(t) = 1 /\ s[1] = a /\ t[1] = b
  OBVIOUS
<1> HIDE DEF u, s, t
<1>3. /\ v \in Seq(T) /\ Len(v) = Len(s) + Len(t)
      /\ \A i \in 1 .. Len(s) : v[i] = s[i]
      /\ \A i \in 1 .. Len(t) : v[Len(s) + i] = t[i]
  <2>1. s \in Seq(T) /\ t \in Seq(T)
    BY <1>2
  <2> QED BY <2>1, ConcatIs
<1> HIDE DEF v
<1>4. Len(v) = 2 /\ v[1] = a /\ v[2] = b
  <2>1. 1 \in 1 .. Len(s) /\ 1 \in 1 .. Len(t) /\ Len(s) + 1 = 2 /\ Len(s) + Len(t) = 2
    BY <1>2
  <2> QED BY <1>2, <1>3, <2>1
<1>5. \A i \in 1 .. Len(u) : u[i] = v[i]
  BY <1>1, <1>4
<1>6. u = v
  BY <1>1, <1>3, <1>4, <1>5, SeqEqual
<1> QED BY <1>1, <1>6 DEF u, v, s, t

\* Rechaining and splitting at the end of a cbuf, or within the first.
LEMMA RechainIs ==
  ASSUME NEW S, NEW list \in Lists(S), Narrow(list), NEW n \in 1 .. Total(list),
         n \in Bounds(list) \/ n <= Len(list[1])
  PROVE  \E p, q \in Lists(S) : CutInto(list, n, p, q)
<1> DEFINE N == Len(list)
           k == EndsIn(list, n)
           s == n - LenTo(list, k - 1)
           T == Seq(S) \ {<<>>}
<1>1. k \in 1 .. N /\ LenTo(list, k - 1) < n /\ n <= LenTo(list, k)
  BY EndsInIs
<1>2. /\ N \in Nat /\ LenTo(list, 0) = 0 /\ \A j \in 0 .. N : LenTo(list, j) \in Nat
      /\ \A j \in 1 .. N : LenTo(list, j) = LenTo(list, j - 1) + Len(list[j])
      /\ list \in Seq(T) /\ DOMAIN list = 1 .. N
  BY ListIs, LenToSteps DEF Lists
<1> HIDE DEF k, N
<1>3. \A j \in 1 .. N : list[j] \in Seq(S) /\ list[j] # <<>> /\ Len(list[j]) \in Nat /\ Len(list[j]) < Width
  BY <1>2, ListIs DEF N, Narrow
<1>4. CASE n = LenTo(list, k)
  <2> DEFINE p == SubSeq(list, 1, k)
             q == SubSeq(list, k + 1, N)
  <2>1. k \in 0 .. N /\ k - 1 \in 0 .. N
    BY <1>1, <1>2
  <2>2. s = Len(list[k])
    BY <1>1, <1>2, <1>3, <1>4, <2>1
  <2>3. Rechain(list, n) = list
    BY <2>2 DEF Rechain, k
  <2>4. /\ p \in Seq(T) /\ Len(p) = k /\ q \in Seq(T) /\ Len(q) = N - k /\ p \o q = list
        /\ \A i \in 1 .. N - k : q[i] = list[k + i]
    <3>1. k \in 0 .. Len(list) /\ list \in Seq(T)
      BY <1>2, <2>1 DEF N
    <3> HIDE DEF T
    <3> QED BY <3>1, PartsAre DEF N
  <2>5. p \in Lists(S) /\ q \in Lists(S)
    BY <2>4 DEF Lists
  <2> HIDE DEF p, q, T
  <2>6. Narrow(q)
    <3>1. DOMAIN q = 1 .. N - k
      BY <2>4, <2>5, ListIs
    <3>2. ASSUME NEW i \in 1 .. N - k PROVE Len(q[i]) < Width
      <4>1. k + i \in 1 .. N
        BY <1>1, <1>2
      <4> QED BY <1>3, <2>4, <4>1
    <3> QED BY <3>1, <3>2 DEF Narrow
  <2>7. Total(p) = n
    <3>1. k \in 0 .. k
      BY <1>1
    <3>2. LenTo(p \o q, k) = LenTo(p, k)
      BY <2>4, <2>5, <3>1, JoinIs
    <3> QED BY <1>4, <2>4, <3>2 DEF Total
  <2>8. FlattenSeq(list) = FlattenSeq(p) \o FlattenSeq(q)
    BY <2>4, <2>5, JoinIs
  <2>9. Bounds(list) = Bounds(p) \cup {Total(p) + b : b \in Bounds(q)}
    BY <2>4, <2>5, BoundsOfJoin
  <2>10. \A b \in Bounds(list) : b > n => b - n \in Bounds(q)
    <3>1. ASSUME NEW b \in Bounds(list), b > n PROVE b - n \in Bounds(q)
      <4>1. b \notin Bounds(p)
        <5>1. \A x \in Bounds(p) : x <= n /\ x \in Nat
          BY <2>5, <2>7, BoundsAre
        <5> QED BY <3>1, <5>1
      <4>2. PICK x \in Bounds(q) : b = n + x
        BY <2>7, <2>9, <4>1
      <4>3. x \in Nat
        BY <2>5, BoundsAre
      <4> QED BY <4>2, <4>3
    <3> QED BY <3>1
  <2>11. CutInto(list, n, p, q)
    BY <2>3, <2>4, <2>6, <2>7, <2>8, <2>9, <2>10 DEF CutInto
  <2> QED BY <2>5, <2>11
<1>5. CASE n # LenTo(list, k)
  <2>1. n < LenTo(list, k) /\ k - 1 \in 0 .. N /\ k \in 0 .. N /\ n \in Nat
    <3>1. k - 1 \in 0 .. N /\ k \in 0 .. N
      BY <1>1, <1>2
    <3>2. LenTo(list, k) \in Nat
      BY <1>2, <3>1
    <3> QED BY <1>1, <1>5, <3>1, <3>2
  <2>2. n \notin Bounds(list)
    <3>1. ASSUME NEW j \in 0 .. N, n = LenTo(list, j) PROVE FALSE
      <4>1. j < k => j = k - 1 \/ j < k - 1
        BY <1>1, <1>2
      <4>2. j < k - 1 => LenTo(list, j) < LenTo(list, k - 1)
        BY <2>1, LenToGrows DEF N
      <4>3. k < j => LenTo(list, k) < LenTo(list, j)
        BY <2>1, LenToGrows DEF N
      <4>4. LenTo(list, k - 1) \in Nat /\ LenTo(list, k) \in Nat
        BY <1>2, <2>1
      <4>5. ~ (k < j)
        BY <2>1, <3>1, <4>3, <4>4
      <4>6. j # k
        BY <1>5, <3>1
      <4>7. j # k - 1
        BY <1>1, <2>1, <3>1, <4>4
      <4>8. ~ (j < k - 1)
        BY <1>1, <2>1, <3>1, <4>2, <4>4
      <4> QED BY <1>1, <1>2, <4>1, <4>5, <4>6, <4>7, <4>8
    <3> QED BY <3>1 DEF Bounds, N
  <2>3. k = 1 /\ n < Len(list[1]) /\ 1 \in 1 .. N
    <3>1. 1 \in 1 .. N /\ 1 \in 0 .. N /\ 1 - 1 = 0
      BY <1>1, <1>2
    <3>2. LenTo(list, 1) = Len(list[1])
      BY <1>2, <1>3, <3>1
    <3>3. n <= LenTo(list, 1)
      BY <2>2, <3>2
    <3>4. k # 1 => 1 < k
      BY <1>1, <1>2
    <3>5. 1 < k => 1 = k - 1 \/ 1 < k - 1
      BY <1>1, <1>2
    <3>6. 1 < k - 1 => LenTo(list, 1) < LenTo(list, k - 1)
      BY <2>1, <3>1, LenToGrows DEF N
    <3>7. LenTo(list, 1) \in Nat /\ LenTo(list, k - 1) \in Nat
      BY <1>2, <2>1, <3>1
    <3>8. ~ (1 < k - 1)
      BY <1>1, <2>1, <3>3, <3>6, <3>7
    <3>9. 1 # k - 1
      BY <1>1, <2>1, <3>3, <3>7
    <3>10. k = 1
      BY <3>4, <3>5, <3>8, <3>9
    <3> QED BY <2>1, <3>1, <3>2, <3>10
  <2> DEFINE c == list[1]
             m == Len(c)
             rest == SubSeq(list, 2, N)
             a == SubSeq(c, 1, n)
             b == SubSeq(c, n + 1, m)
             p == <<a>>
             q == <<b>> \o rest
  <2>4. s = n
    BY <1>2, <2>1, <2>3
  <2>5. c \in Seq(S) /\ m \in Nat /\ n < m /\ m < Width /\ n \in 0 .. m /\ c # <<>> /\ n > 0
    BY <1>3, <2>1, <2>3
  <2> HIDE DEF c, m
  <2>6. (m - n) % Width = m - n
    <3>1. Width \in Nat \ {0} /\ m - n \in Nat /\ m - n < Width
      BY <2>1, <2>5, CbufAssumption
    <3> QED BY <3>1
  <2>7. /\ a \in Seq(S) /\ Len(a) = n /\ b \in Seq(S) /\ Len(b) = m - n /\ a \o b = c
        /\ \A i \in 1 .. n : a[i] = c[i]
        /\ \A i \in 1 .. m - n : b[i] = c[n + i]
    BY <2>5, PartsAre DEF m
  <2> HIDE DEF s, a, b
  <2>8. /\ [i \in 1 .. m - (m - n) |-> IF i = n + 1 THEN Junk ELSE c[i]] = a
        /\ [i \in 1 .. m - n |-> IF n + i <= m THEN c[n + i] ELSE Junk] = b
    <3>1. m - (m - n) = n /\ \A i \in 1 .. n : i # n + 1
      BY <2>1, <2>5
    <3>2. \A i \in 1 .. m - n : n + i <= m
      BY <2>1, <2>5
    <3>3. a = [i \in 1 .. n |-> a[i]] /\ b = [i \in 1 .. m - n |-> b[i]]
      BY <2>7, LenProperties
    <3>4. [i \in 1 .. n |-> IF i = n + 1 THEN Junk ELSE c[i]] = [i \in 1 .. n |-> a[i]]
      BY <2>7, <3>1
    <3>5. [i \in 1 .. m - n |-> IF n + i <= m THEN c[n + i] ELSE Junk] = [i \in 1 .. m - n |-> b[i]]
      BY <2>7, <3>2
    <3> QED BY <3>1, <3>3, <3>4, <3>5
  <2>9. Rechain(list, n) = SubSeq(list, 1, 0) \o <<a, b>> \o rest
    <3> DEFINE after == (Len(list[1]) - s) % Width
               prepended == <<SubSeq(list[k], 1, s), SubSeq(list[k], s + 1, Len(list[k]))>>
               appended ==
                 <<[i \in 1 .. Len(list[k]) - after |-> IF i = s + 1 THEN Junk ELSE list[k][i]],
                   [i \in 1 .. after |-> IF s + i <= Len(list[k]) THEN list[k][s + i] ELSE Junk]>>
    <3>1. Rechain(list, n) =
            IF s = Len(list[k]) THEN list
            ELSE SubSeq(list, 1, k - 1) \o (IF s < after THEN prepended ELSE appended)
                   \o SubSeq(list, k + 1, N)
      BY DEF Rechain, k, s, N
    <3>2. list[k] = c /\ list[1] = c /\ Len(list[k]) = m /\ Len(list[1]) = m /\ s # m
          /\ k - 1 = 0 /\ k + 1 = 2
      BY <2>3, <2>4, <2>5 DEF c, m
    <3>3. after = m - n
      BY <2>4, <2>6, <3>2
    <3> HIDE DEF after
    <3>4. prepended = <<a, b>>
      BY <2>4, <3>2 DEF a, b
    <3>5. appended = <<a, b>>
      BY <2>4, <2>8, <3>2, <3>3
    <3> HIDE DEF prepended, appended
    <3> QED BY <3>1, <3>2, <3>4, <3>5
  <2>10. /\ rest \in Lists(S) /\ <<c>> \o rest = list /\ Narrow(rest)
    <3>1. 1 \in 0 .. N
      BY <2>3
    <3>2. /\ SubSeq(list, 1, 1) \in Seq(T) /\ Len(SubSeq(list, 1, 1)) = 1
          /\ SubSeq(list, 1 + 1, N) \in Seq(T) /\ Len(SubSeq(list, 1 + 1, N)) = N - 1
          /\ \A i \in 1 .. 1 : SubSeq(list, 1, 1)[i] = list[i]
          /\ \A i \in 1 .. N - 1 : SubSeq(list, 1 + 1, N)[i] = list[1 + i]
          /\ SubSeq(list, 1, 1) \o SubSeq(list, 1 + 1, N) = list
      BY <1>2, <3>1, PartsAre DEF N
    <3>3. 1 + 1 = 2
      OBVIOUS
    <3>4. SubSeq(list, 1, 1) = <<c>>
      <4> DEFINE u == SubSeq(list, 1, 1)
      <4>1. u \in Seq(T) /\ Len(u) = 1 /\ u[1] = c
        BY <3>2 DEF c
      <4> HIDE DEF u
      <4>2. <<c>> \in Seq(T) /\ Len(<<c>>) = 1 /\ <<c>>[1] = c
        BY <2>5
      <4>3. \A i \in 1 .. Len(u) : u[i] = <<c>>[i]
        BY <4>1, <4>2
      <4>4. u = <<c>>
        BY <4>1, <4>2, <4>3, SeqEqual
      <4> QED BY <4>4 DEF u
    <3>5. rest \in Seq(T) /\ Len(rest) = N - 1 /\ \A i \in 1 .. N - 1 : rest[i] = list[1 + i]
      BY <3>2, <3>3
    <3>6. <<c>> \o rest = list
      BY <3>2, <3>3, <3>4
    <3> HIDE DEF rest
    <3>7. Narrow(rest)
      <4>1. DOMAIN rest = 1 .. N - 1
        BY <3>5, LenProperties
      <4>2. \A i \in 1 .. N - 1 : 1 + i \in 1 .. N
        BY <1>2
      <4> QED BY <1>3, <3>5, <4>1, <4>2 DEF Narrow
    <3> QED BY <3>5, <3>6, <3>7 DEF Lists
  <2> HIDE DEF rest
  <2>11. a # <<>> /\ b # <<>>
    <3>1. Len(a) # 0 /\ Len(b) # 0
      BY <2>1, <2>5, <2>7
    <3> QED BY <3>1, EmptySeq
  <2>12. /\ p \in Lists(S) /\ <<b>> \in Lists(S) /\ <<c>> \in Lists(S) /\ q \in Lists(S)
    <3>1. p \in Lists(S) /\ <<b>> \in Lists(S) /\ <<c>> \in Lists(S)
      BY <2>5, <2>7, <2>11, OneIs
    <3>2. <<b>> \o rest \in Lists(S)
      BY <2>10, <3>1, JoinIs
    <3> QED BY <3>1, <3>2
  <2>13. Rechain(list, n) = p \o q
    <3>1. SubSeq(list, 1, 0) = <<>>
      BY SubSeqEmpty
    <3>2. <<a, b>> = p \o <<b>> /\ <<a, b>> \in Seq(T)
      <4>1. a \in T /\ b \in T
        BY <2>7, <2>11
      <4> HIDE DEF T
      <4> QED BY <4>1, PairIs
    <3>3. <<>> \o <<a, b>> = <<a, b>>
      BY <3>2, ConcatEmptySeq
    <3>4. (p \o <<b>>) \o rest = p \o (<<b>> \o rest)
      BY <2>10, <2>12, ConcatAssociative DEF Lists
    <3> QED BY <2>9, <3>1, <3>2, <3>3, <3>4
  <2>14. Total(p) = n /\ FlattenSeq(p) = a
    BY <2>7, <2>11, OneIs
  <2>15. FlattenSeq(list) = FlattenSeq(p) \o FlattenSeq(q)
    <3> DEFINE r == FlattenSeq(rest)
    <3>1. FlattenSeq(list) = FlattenSeq(<<c>>) \o r
      BY <2>10, <2>12, JoinIs
    <3>2. FlattenSeq(q) = FlattenSeq(<<b>>) \o r
      BY <2>10, <2>12, JoinIs
    <3>3. FlattenSeq(<<c>>) = c /\ FlattenSeq(<<b>>) = b
      BY <2>5, <2>7, <2>11, OneIs
    <3>4. (a \o b) \o r = a \o (b \o r)
      <4>1. r \in Seq(S) /\ a \in Seq(S) /\ b \in Seq(S)
        BY <2>7, <2>10, FlattenIs
      <4> HIDE DEF r
      <4> QED BY <4>1, ConcatAssociative
    <3> QED BY <2>7, <2>14, <3>1, <3>2, <3>3, <3>4
  <2>16. Narrow(q)
    <3>1. Len(q) = 1 + Len(rest) /\ \A i \in 1 .. Len(rest) : q[1 + i] = rest[i]
      <4>1. <<b>> \in Seq(T) /\ rest \in Seq(T) /\ Len(<<b>>) = 1
        BY <2>10, <2>12 DEF Lists
      <4>2. /\ Len(<<b>> \o rest) = Len(<<b>>) + Len(rest)
            /\ \A i \in 1 .. Len(rest) : (<<b>> \o rest)[Len(<<b>>) + i] = rest[i]
        <5>1. <<b>> \in Seq(T) /\ rest \in Seq(T)
          BY <4>1
        <5> QED BY <5>1, ConcatIs
      <4> QED BY <4>1, <4>2
    <3>2. q[1] = b
      <4>1. <<b>> \in Seq(T) /\ rest \in Seq(T) /\ Len(<<b>>) = 1 /\ <<b>>[1] = b
        BY <2>10, <2>12 DEF Lists
      <4>2. \A i \in 1 .. Len(<<b>>) : (<<b>> \o rest)[i] = <<b>>[i]
        <5>1. <<b>> \in Seq(T) /\ rest \in Seq(T)
          BY <4>1
        <5> QED BY <5>1, ConcatIs
      <4> QED BY <4>1, <4>2
    <3> HIDE DEF q
    <3>3. Len(rest) \in Nat /\ DOMAIN rest = 1 .. Len(rest) /\ DOMAIN q = 1 .. Len(q)
      BY <2>10, <2>12, ListIs
    <3>4. Len(b) < Width
      <4>1. Len(b) = m - n /\ m \in Nat /\ n \in Nat /\ m < Width /\ Width \in Nat
        BY <2>1, <2>5, <2>7, CbufAssumption
      <4> QED BY <4>1
    <3>5. ASSUME NEW j \in 1 .. Len(q) PROVE Len(q[j]) < Width
      <4>1. CASE j = 1
        BY <3>2, <3>4, <4>1
      <4>2. CASE j # 1
        <5> DEFINE i == j - 1
        <5>1. i \in 1 .. Len(rest) /\ 1 + i = j
          BY <3>1, <3>3, <4>2
        <5> HIDE DEF i
        <5> QED BY <2>10, <3>1, <3>3, <5>1 DEF Narrow
      <4> QED BY <4>1, <4>2
    <3> QED BY <3>3, <3>5 DEF Narrow
  <2>17. /\ \A x \in Bounds(q) : x = 0 \/ n + x \in Bounds(list)
         /\ \A x \in Bounds(list) : x > n => x - n \in Bounds(q)
    <3>1. Bounds(list) = Bounds(<<c>>) \cup {m + y : y \in Bounds(rest)}
      <4>1. Total(<<c>>) = m
        BY <2>5, OneIs DEF m
      <4>2. Bounds(<<c>> \o rest) = Bounds(<<c>>) \cup {Total(<<c>>) + y : y \in Bounds(rest)}
        BY <2>10, <2>12, BoundsOfJoin
      <4>3. <<c>> \o rest = list
        BY <2>10
      <4> QED BY <4>1, <4>2, <4>3
    <3>2. Bounds(q) = {0, m - n} \cup {(m - n) + y : y \in Bounds(rest)}
      <4>1. Total(<<b>>) = Len(b) /\ Bounds(<<b>>) = {0, Len(b)}
        <5>1. b \in Seq(S) /\ b # <<>>
          BY <2>7, <2>11
        <5> QED BY <5>1, OneIs, BoundsOfOne
      <4>2. Bounds(q) = Bounds(<<b>>) \cup {Total(<<b>>) + y : y \in Bounds(rest)}
        BY <2>10, <2>12, BoundsOfJoin
      <4>3. Len(b) = m - n
        BY <2>7
      <4> HIDE DEF q
      <4> QED BY <4>1, <4>2, <4>3
    <3>3. Bounds(<<c>>) = {0, m}
      BY <2>5, BoundsOfOne DEF m
    <3>4. \A y \in Bounds(rest) : y \in Nat
      BY <2>10, BoundsAre
    <3>5. ASSUME NEW x \in Bounds(q) PROVE x = 0 \/ n + x \in Bounds(list)
      <4>1. x = 0 \/ x = m - n \/ \E y \in Bounds(rest) : x = (m - n) + y
        BY <3>2
      <4>2. CASE x = 0
        BY <4>2
      <4>3. CASE x = m - n
        <5>1. n + x = m
          BY <2>1, <2>5, <4>3
        <5> QED BY <3>1, <3>3, <5>1
      <4>4. ASSUME NEW y \in Bounds(rest), x = (m - n) + y PROVE n + x = m + y
        BY <2>1, <2>5, <3>4, <4>4
      <4>5. CASE \E y \in Bounds(rest) : x = (m - n) + y
        BY <3>1, <4>4, <4>5
      <4> QED BY <4>1, <4>2, <4>3, <4>5
    <3>6. ASSUME NEW x \in Bounds(list), x > n PROVE x - n \in Bounds(q)
      <4>1. x = 0 \/ x = m \/ \E y \in Bounds(rest) : x = m + y
        BY <3>1, <3>3
      <4>2. x # 0
        BY <2>1, <3>6
      <4>3. CASE x = m
        BY <3>2, <4>3
      <4>4. ASSUME NEW y \in Bounds(rest), x = m + y PROVE x - n = (m - n) + y
        BY <2>1, <2>5, <3>4, <4>4
      <4>5. CASE \E y \in Bounds(rest) : x = m + y
        BY <3>2, <4>4, <4>5
      <4> QED BY <4>1, <4>2, <4>3, <4>5
    <3> QED BY <3>5, <3>6
  <2>18. CutInto(list, n, p, q)
    BY <2>13, <2>14, <2>15, <2>16, <2>17 DEF CutInto
  <2> QED BY <2>12, <2>18
<1> QED BY <1>4, <1>5

-----------------------------------------------------------------------------
(* Heads in a text.                                                        *)

\* A part of a text is str when its bytes are.
LEMMA PartEquals ==
  ASSUME NEW S, NEW text \in Seq(S), NEW T, NEW str \in Seq(T), NEW i \in Nat, NEW e,
         e = i + Len(str), e <= Len(text)
  PROVE  SubSeq(text, i + 1, e) = str <=> \A j \in 1 .. Len(str) : text[i + j] = str[j]
<1> DEFINE L == Len(str)
           m == i + 1
           u == SubSeq(text, m, e)
<1>1. L \in Nat /\ e \in Nat /\ m \in Nat \ {0} /\ m <= e + 1 /\ e + 1 - m = L
      /\ \A j \in 1 .. L : m + j - 1 = i + j
  <2>1. L \in Nat
    BY LenProperties
  <2> QED BY <2>1
<1> HIDE DEF m, L
<1>2. u \in Seq(S) /\ Len(u) = e + 1 - m /\ \A j \in 1 .. e + 1 - m : u[j] = text[m + j - 1]
  BY <1>1, SubSeqIs
<1> HIDE DEF u
<1>3. Len(u) = L /\ \A j \in 1 .. L : u[j] = text[m + j - 1]
  BY <1>1, <1>2
<1>4. \A j \in 1 .. L : u[j] = text[i + j]
  BY <1>1, <1>3
<1>5. u = str => \A j \in 1 .. L : text[i + j] = str[j]
  BY <1>4
<1>6. ASSUME \A j \in 1 .. L : text[i + j] = str[j] PROVE u = str
  <2>1. \A j \in 1 .. Len(u) : u[j] = str[j]
    BY <1>3, <1>4, <1>6
  <2>2. u \in Seq(S \cup T) /\ str \in Seq(S \cup T)
    BY <1>2, SeqMonotonic
  <2>3. Len(u) = Len(str)
    BY <1>3 DEF L
  <2> QED BY <2>1, <2>2, <2>3, SeqEqual
<1> QED BY <1>5, <1>6 DEF u, m, L

EndsHead(text, e) == \A j \in 1 .. 4 : text[e - 4 + j] = EndOfHead[j]

LEMMA EndOfHeadIs == EndOfHead \in Seq({"\r", "\n"}) /\ Len(EndOfHead) = 4 /\ EndOfHead # <<>>
BY DEF EndOfHead

LEMMA HeadEndsAre ==
  ASSUME NEW S, NEW text \in Seq(S)
  PROVE  /\ Len(text) \in Nat /\ HeadEnds(text) \in SUBSET Nat
         /\ \A e : e \in HeadEnds(text) <=> e \in 4 .. Len(text) /\ EndsHead(text, e)
<1>1. Len(text) \in Nat
  BY LenProperties
<1>2. ASSUME NEW e \in 4 .. Len(text)
      PROVE  SubSeq(text, e - 3, e) = EndOfHead <=> EndsHead(text, e)
  <2> DEFINE i == e - 4
  <2>1. i \in Nat /\ e = i + 4 /\ e <= Len(text) /\ i + 1 = e - 3
    BY <1>1
  <2> HIDE DEF i
  <2>2. e = i + Len(EndOfHead)
    BY <2>1, EndOfHeadIs
  <2>3. SubSeq(text, i + 1, e) = EndOfHead <=> \A j \in 1 .. Len(EndOfHead) : text[i + j] = EndOfHead[j]
    BY <2>1, <2>2, EndOfHeadIs, PartEquals
  <2>4. EndsHead(text, e) <=> \A j \in 1 .. 4 : text[i + j] = EndOfHead[j]
    BY DEF EndsHead, i
  <2> QED BY <2>1, <2>3, <2>4, EndOfHeadIs
<1>3. HeadEnds(text) = {e \in 4 .. Len(text) : SubSeq(text, e - 3, e) = EndOfHead}
  BY DEF HeadEnds
<1>4. HeadEnds(text) = {e \in 4 .. Len(text) : EndsHead(text, e)}
  BY <1>2, <1>3
<1>5. HeadEnds(text) \in SUBSET Nat
  BY <1>1, <1>4
<1>6. \A e : e \in HeadEnds(text) <=> e \in 4 .. Len(text) /\ EndsHead(text, e)
  BY <1>4
<1> QED BY <1>1, <1>5, <1>6

\* Heads that end in the first part of a text, and in the second.
LEMMA HeadEndsOfJoin ==
  ASSUME NEW S, NEW u \in Seq(S), NEW v \in Seq(S)
  PROVE  /\ \A e \in HeadEnds(u) : e \in HeadEnds(u \o v)
         /\ \A e \in HeadEnds(u \o v) : e <= Len(u) => e \in HeadEnds(u)
         /\ \A e \in HeadEnds(v) : Len(u) + e \in HeadEnds(u \o v)
         /\ \A e \in HeadEnds(u \o v) : e >= Len(u) + 4 => e - Len(u) \in HeadEnds(v)
<1> DEFINE t == u \o v
           M == Len(u)
           N == Len(v)
<1>1. /\ t \in Seq(S) /\ Len(t) = M + N /\ M \in Nat /\ N \in Nat
      /\ \A i \in 1 .. M : t[i] = u[i]
      /\ \A i \in 1 .. N : t[M + i] = v[i]
  BY ConcatIs
<1>2. \A e : e \in HeadEnds(u) <=> e \in 4 .. M /\ EndsHead(u, e)
  BY HeadEndsAre
<1>3. \A e : e \in HeadEnds(v) <=> e \in 4 .. N /\ EndsHead(v, e)
  BY HeadEndsAre
<1>4. \A e : e \in HeadEnds(t) <=> e \in 4 .. M + N /\ EndsHead(t, e)
  <2>1. Len(t) = M + N /\ t \in Seq(S)
    BY <1>1
  <2> HIDE DEF t, M, N
  <2> QED BY <2>1, HeadEndsAre
<1> HIDE DEF t, M, N
<1>5. ASSUME NEW e \in 4 .. M PROVE EndsHead(t, e) <=> EndsHead(u, e)
  <2>1. \A j \in 1 .. 4 : e - 4 + j \in 1 .. M
    BY <1>1
  <2>2. \A j \in 1 .. 4 : t[e - 4 + j] = u[e - 4 + j]
    BY <1>1, <2>1
  <2> QED BY <2>2 DEF EndsHead
<1>6. ASSUME NEW e \in 4 .. N, NEW f, f = M + e PROVE EndsHead(t, f) <=> EndsHead(v, e)
  <2>1. ASSUME NEW j \in 1 .. 4 PROVE t[f - 4 + j] = v[e - 4 + j]
    <3> DEFINE i == e - 4 + j
    <3>1. i \in 1 .. N /\ f - 4 + j = M + i
      BY <1>1, <1>6
    <3> HIDE DEF i
    <3>2. t[f - 4 + j] = v[i]
      BY <1>1, <3>1
    <3> QED BY <3>2 DEF i
  <2> QED BY <2>1 DEF EndsHead
<1>7. \A e \in HeadEnds(u) : e \in HeadEnds(t)
  <2>1. \A e \in 4 .. M : e \in 4 .. M + N
    BY <1>1
  <2> QED BY <1>2, <1>4, <1>5, <2>1
<1>8. \A e \in HeadEnds(t) : e <= M => e \in HeadEnds(u)
  <2>1. \A e \in 4 .. M + N : e <= M => e \in 4 .. M
    BY <1>1
  <2> QED BY <1>2, <1>4, <1>5, <2>1
<1>9. ASSUME NEW e \in HeadEnds(v) PROVE M + e \in HeadEnds(t)
  <2>1. e \in 4 .. N /\ EndsHead(v, e)
    BY <1>3
  <2>2. M + e \in 4 .. M + N
    BY <1>1, <2>1
  <2>3. EndsHead(t, M + e)
    BY <1>6, <2>1
  <2> QED BY <1>4, <2>2, <2>3
<1>10. ASSUME NEW f \in HeadEnds(t), f >= M + 4 PROVE f - M \in HeadEnds(v)
  <2>1. f \in 4 .. M + N /\ EndsHead(t, f)
    BY <1>4
  <2>2. f - M \in 4 .. N /\ f = M + (f - M)
    BY <1>1, <1>10, <2>1
  <2>3. EndsHead(v, f - M)
    BY <1>6, <2>1, <2>2
  <2> QED BY <1>3, <2>2, <2>3
<1> QED BY <1>7, <1>8, <1>9, <1>10 DEF t, M, N

\* Every head of a text, from where it may begin, has a length of 16 bits.
HeadsFit(text) ==
  \A b \in {0} \cup HeadEnds(text), e \in HeadEnds(text) :
    b + 4 <= e /\ (\A h \in HeadEnds(text) : ~ (b + 4 <= h /\ h < e)) => e - b < Width

LEMMA FirstFits ==
  ASSUME NEW S, NEW text \in Seq(S), HeadsFit(text),
         NEW n \in HeadEnds(text), \A e \in HeadEnds(text) : n <= e
  PROVE  n \in Nat /\ n % Width = n /\ n < Width
<1>1. n \in 4 .. Len(text) /\ Len(text) \in Nat /\ \A e \in HeadEnds(text) : e \in Nat
  BY HeadEndsAre
<1>2. 0 + 4 <= n /\ \A h \in HeadEnds(text) : ~ (0 + 4 <= h /\ h < n)
  BY <1>1
<1>3. n - 0 < Width
  BY <1>2 DEF HeadsFit
<1>4. n < Width /\ n \in Nat /\ Width \in Nat \ {0}
  BY <1>1, <1>3, CbufAssumption
<1>5. n % Width = n
  BY <1>4
<1> QED BY <1>4, <1>5

\* Behind the first head, too.
LEMMA BehindHead ==
  ASSUME NEW S, NEW u \in Seq(S), NEW v \in Seq(S), HeadsFit(u \o v),
         Len(u) \in HeadEnds(u \o v)
  PROVE  HeadsFit(v)
<1> DEFINE t == u \o v
           n == Len(u)
           N == Len(v)
<1>1. /\ t \in Seq(S) /\ Len(t) = n + N /\ n \in Nat /\ N \in Nat
  BY ConcatIs
<1>2. /\ \A e \in HeadEnds(v) : n + e \in HeadEnds(t)
      /\ \A e \in HeadEnds(t) : e >= n + 4 => e - n \in HeadEnds(v)
  BY HeadEndsOfJoin
<1>3. n \in HeadEnds(t)
  OBVIOUS
<1>4. \A b \in {0} \cup HeadEnds(t), e \in HeadEnds(t) :
        b + 4 <= e /\ (\A h \in HeadEnds(t) : ~ (b + 4 <= h /\ h < e)) => e - b < Width
  BY DEF HeadsFit
<1>5. \A e \in HeadEnds(t) : e \in Nat
  <2>1. t \in Seq(S)
    BY <1>1
  <2> HIDE DEF t
  <2> QED BY <2>1, HeadEndsAre
<1>6. \A e \in HeadEnds(v) : e \in Nat
  BY HeadEndsAre
<1> HIDE DEF t, n, N
<1>7. SUFFICES ASSUME NEW b \in {0} \cup HeadEnds(v), NEW e \in HeadEnds(v), b + 4 <= e,
                      \A h \in HeadEnds(v) : ~ (b + 4 <= h /\ h < e)
               PROVE  e - b < Width
  BY DEF HeadsFit
<1> DEFINE c == n + b
           f == n + e
<1>8. b \in Nat /\ e \in Nat
  BY <1>6
<1>9. c \in HeadEnds(t) /\ f \in HeadEnds(t)
  <2>1. CASE b = 0
    <3>1. c = n
      BY <1>1, <2>1
    <3> HIDE DEF c
    <3> QED BY <1>2, <1>3, <3>1
  <2>2. CASE b # 0
    BY <1>2, <2>2
  <2> QED BY <2>1, <2>2
<1>10. c + 4 <= f
  BY <1>1, <1>7, <1>8
<1>11. ASSUME NEW h \in HeadEnds(t), c + 4 <= h, h < f PROVE FALSE
  <2>1. h \in Nat /\ h >= n + 4
    BY <1>1, <1>5, <1>8, <1>11
  <2>2. h - n \in HeadEnds(v)
    BY <1>2, <2>1
  <2>3. b + 4 <= h - n /\ h - n < e
    BY <1>1, <1>8, <1>11, <2>1
  <2> QED BY <1>7, <2>2, <2>3
<1>12. f - c = e - b
  BY <1>1, <1>8
<1> HIDE DEF c, f
<1>13. f - c < Width
  BY <1>4, <1>9, <1>10, <1>11
<1> QED BY <1>12, <1>13

\* The search for the end of a head finds the first.
LEMMA HeadFound ==
  ASSUME NEW S, NEW list \in Lists(S)
  PROVE  Strstr(list, 0, EndOfHead) =
           IF HeadEnds(FlattenSeq(list)) = {} THEN -1 ELSE Least(HeadEnds(FlattenSeq(list))) - 4
<1> DEFINE text == FlattenSeq(list)
           F == Finds(text, 0, EndOfHead)
           H == HeadEnds(text)
           N == Len(text)
<1>1. text \in Seq(S) /\ N \in Nat
  BY FlattenIs, LenProperties
<1>2. Strstr(list, 0, EndOfHead) = IF F = {} THEN -1 ELSE Least(F)
  BY EndOfHeadIs, StrstrIs
<1>3. H \in SUBSET Nat /\ \A e : e \in H <=> e \in 4 .. N /\ EndsHead(text, e)
  <2> HIDE DEF text
  <2> QED BY <1>1, HeadEndsAre
<1>4. F = {i \in 0 .. N - 1 : Matches(text, i, EndOfHead, 4)}
  BY EndOfHeadIs DEF Finds
<1> HIDE DEF text, F, H
<1>5. ASSUME NEW i \in F PROVE i \in Nat /\ i + 4 \in H
  <2>1. i \in 0 .. N - 1 /\ i + 4 <= N /\ \A j \in 1 .. 4 : text[i + j] = EndOfHead[j]
    BY <1>4 DEF Matches
  <2>2. i + 4 \in 4 .. N /\ \A j \in 1 .. 4 : i + 4 - 4 + j = i + j
    BY <1>1, <2>1
  <2>3. EndsHead(text, i + 4)
    BY <2>1, <2>2 DEF EndsHead
  <2> QED BY <1>3, <2>1, <2>2, <2>3
<1>6. ASSUME NEW e \in H PROVE e \in Nat /\ e - 4 \in F
  <2>1. e \in 4 .. N /\ \A j \in 1 .. 4 : text[e - 4 + j] = EndOfHead[j]
    BY <1>3 DEF EndsHead
  <2>2. e - 4 \in 0 .. N - 1 /\ e - 4 + 4 <= N
    BY <1>1, <2>1
  <2>3. Matches(text, e - 4, EndOfHead, 4)
    BY <2>1, <2>2 DEF Matches
  <2> QED BY <1>4, <2>1, <2>2, <2>3
<1>7. CASE H = {}
  <2>1. F = {}
    BY <1>5, <1>7
  <2> QED BY <1>2, <1>7, <2>1 DEF H, text
<1>8. CASE H # {}
  <2>1. Least(H) \in H /\ \A e \in H : Least(H) <= e
    BY <1>3, <1>8, LeastIs
  <2> DEFINE h == Least(H)
             i == h - 4
  <2>2. h \in Nat /\ i \in F /\ h \in H /\ \A e \in H : h <= e
    BY <1>6, <2>1
  <2> HIDE DEF h
  <2>3. F \in SUBSET Nat
    BY <1>5
  <2>4. ASSUME NEW j \in F PROVE i <= j
    <3>1. j \in Nat /\ h <= j + 4
      BY <1>5, <2>2
    <3> QED BY <2>2, <3>1
  <2> HIDE DEF i
  <2>5. Least(F) = i
    BY <2>2, <2>3, <2>4, LeastIsUnique
  <2>6. Strstr(list, 0, EndOfHead) = i
    BY <1>2, <2>2, <2>5
  <2> QED BY <1>8, <2>6 DEF i, h, H, text
<1> QED BY <1>7, <1>8

-----------------------------------------------------------------------------
(* The input of a client.                                                  *)

\* A head that is in more than one cbuf ends with one.
Closed(list) ==
  \A e \in HeadEnds(FlattenSeq(list)), b \in Bounds(list) :
    0 < b /\ b < e =>
      e \in Bounds(list) \/ \E d \in Nat : b <= d /\ d < e /\ Clear(FlattenSeq(list), d)

\* What a segment that fits adds.
LEMMA ClosedWith ==
  ASSUME NEW S, NEW list \in Lists(S), NEW c \in Seq(S), c # <<>>, Closed(list),
         \/ FlattenSeq(list) = <<>>
         \/ Clear(FlattenSeq(list), Len(FlattenSeq(list)))
         \/ HeadEnds(FlattenSeq(list) \o c) \ HeadEnds(FlattenSeq(list))
              \subseteq {Len(FlattenSeq(list)) + Len(c)}
  PROVE  /\ list \o <<c>> \in Lists(S)
         /\ FlattenSeq(list \o <<c>>) = FlattenSeq(list) \o c
         /\ Closed(list \o <<c>>)
<1> DEFINE text == FlattenSeq(list)
           joined == list \o <<c>>
           T == text \o c
           N == Len(text)
           m == Len(c)
<1>1. /\ joined \in Lists(S) /\ FlattenSeq(joined) = T
      /\ Bounds(joined) = Bounds(list) \cup {Total(list) + x : x \in Bounds(<<c>>)}
  <2> DEFINE one == <<c>>
  <2>1. one \in Lists(S) /\ FlattenSeq(one) = c
    BY OneIs
  <2> HIDE DEF one
  <2>2. /\ list \o one \in Lists(S)
        /\ FlattenSeq(list \o one) = FlattenSeq(list) \o FlattenSeq(one)
    BY <2>1, JoinIs
  <2>3. Bounds(list \o one) = Bounds(list) \cup {Total(list) + x : x \in Bounds(one)}
    BY <2>1, BoundsOfJoin
  <2> QED BY <2>1, <2>2, <2>3 DEF one
<1>2. Bounds(<<c>>) = {0, m} /\ m \in Nat /\ m # 0
  BY BoundsOfOne, EmptySeq
<1>3. /\ text \in Seq(S) /\ N = Total(list) /\ N \in Nat
      /\ N \in Bounds(list) /\ \A b \in Bounds(list) : b \in Nat /\ b <= N
  BY FlattenIs, TotalIs, BoundsAre
<1>4. Bounds(joined) = Bounds(list) \cup {N + m}
  <2>1. Bounds(joined) = Bounds(list) \cup {N + x : x \in {0, m}}
    BY <1>1, <1>2, <1>3
  <2>2. N + 0 = N
    BY <1>3
  <2> QED BY <1>3, <2>1, <2>2
<1>5. /\ \A e \in HeadEnds(text) : e \in HeadEnds(T)
      /\ \A e \in HeadEnds(T) : e <= N => e \in HeadEnds(text)
  <2> HIDE DEF text
  <2> QED BY <1>3, HeadEndsOfJoin
<1>6. \A e \in HeadEnds(T) : e \in 4 .. N + m
  <2>1. T \in Seq(S) /\ Len(T) = N + m
    <3> HIDE DEF text
    <3> QED BY <1>3, ConcatIs
  <2> HIDE DEF T, N, m
  <2> QED BY <2>1, HeadEndsAre
<1>7. \/ N = 0
      \/ Clear(text, N)
      \/ \A e \in HeadEnds(T) : e \notin HeadEnds(text) => e = N + m
  BY EmptySeq
<1>8. \A e \in HeadEnds(text), b \in Bounds(list) :
        0 < b /\ b < e => e \in Bounds(list) \/ \E d \in Nat : b <= d /\ d < e /\ Clear(text, d)
  BY DEF Closed
<1> HIDE DEF text, T, N, m, joined
<1>11. \A e \in HeadEnds(text) : e \in Nat /\ e <= N
  <2>1. text \in Seq(S) /\ N = Len(text)
    BY <1>3 DEF N
  <2> QED BY <1>3, <2>1, HeadEndsAre
<1>12. ASSUME NEW d \in Nat, Clear(text, d) PROVE Clear(T, d)
  <2>1. d \in HeadEnds(text) /\ d <= N /\ \A h \in HeadEnds(text) : h < d => h + 4 <= d
    BY <1>11, <1>12 DEF Clear
  <2>2. ASSUME NEW h \in HeadEnds(T), h < d PROVE h + 4 <= d
    <3>1. h \in Nat /\ h <= N
      BY <1>2, <1>3, <1>6, <2>1, <2>2
    <3> QED BY <1>5, <2>1, <2>2, <3>1
  <2> QED BY <1>5, <2>1, <2>2 DEF Clear
<1>9. ASSUME NEW e \in HeadEnds(T), NEW b \in Bounds(joined), 0 < b, b < e
      PROVE  e \in Bounds(joined) \/ \E d \in Nat : b <= d /\ d < e /\ Clear(T, d)
  <2>1. e \in Nat /\ e <= N + m /\ b \in Bounds(list) /\ b \in Nat /\ b <= N
    <3>1. e \in Nat /\ e <= N + m
      BY <1>2, <1>3, <1>6
    <3>2. b # N + m
      BY <1>2, <1>3, <1>9, <3>1
    <3> QED BY <1>3, <1>4, <3>1, <3>2
  <2>2. CASE e <= N
    <3>1. e \in HeadEnds(text)
      BY <1>5, <2>2
    <3> QED BY <1>4, <1>8, <1>9, <1>12, <2>1, <3>1
  <2>3. CASE ~ (e <= N)
    <3>1. CASE N = 0
      BY <1>9, <2>1, <3>1
    <3>2. CASE Clear(text, N)
      BY <1>3, <1>12, <2>1, <2>3, <3>2
    <3>3. CASE \A f \in HeadEnds(T) : f \notin HeadEnds(text) => f = N + m
      <4>1. e \notin HeadEnds(text)
        <5>1. \A f \in HeadEnds(text) : f <= N
          BY <1>3, HeadEndsAre DEF N
        <5> QED BY <2>3, <5>1
      <4> QED BY <1>4, <3>3, <4>1
    <3> QED BY <1>7, <3>1, <3>2, <3>3
  <2> QED BY <2>2, <2>3
<1>10. Closed(joined)
  BY <1>1, <1>9 DEF Closed
<1> QED BY <1>1, <1>10 DEF joined, T, text

\* No head yet, or no memory.
Stays(list) == rcv' = list /\ state' = "receive" /\ req' = req /\ failed' = failed

\* The first head is split off.
Takes(list, rest) ==
  /\ state' = "parse" /\ failed' = failed /\ size' = Total(req')
  /\ req' \in Lists(Byte) /\ rcv' \in Lists(Byte) /\ Narrow(rcv') /\ Closed(rcv')
  /\ FlattenSeq(req') \o FlattenSeq(rcv') = FlattenSeq(list)
  /\ Len(FlattenSeq(req')) \in HeadEnds(FlattenSeq(list))
  /\ \A e \in HeadEnds(FlattenSeq(list)) : Len(FlattenSeq(req')) <= e
  /\ HeadsFit(FlattenSeq(rcv') \o rest)

LEMMA HeadersReceivedIs ==
  ASSUME NEW list \in Lists(Byte), NEW rest \in Seq(Byte), Narrow(list), Closed(list),
         HeadsFit(FlattenSeq(list) \o rest), HeadersReceived(list)
  PROVE  Stays(list) \/ Takes(list, rest)
<1> DEFINE text == FlattenSeq(list)
           H == HeadEnds(text)
           index0 == Strstr(list, 0, EndOfHead)
           n == index0 + 4
           len == n % Width
<1>1. \/ Stays(list)
      \/ index0 # -1 /\ size' = len /\ Split(list, len)
  BY DEF HeadersReceived, Stays
<1>2. CASE index0 # -1 /\ size' = len /\ Split(list, len)
  <2>1. H # {} /\ index0 = Least(H) - 4
    BY <1>2, HeadFound
  <2>2. /\ text \in Seq(Byte) /\ Len(text) = Total(list) /\ Len(text) \in Nat
        /\ H \in SUBSET Nat /\ \A e \in H : e \in 4 .. Len(text)
    <3>1. text \in Seq(Byte) /\ Len(text) = Total(list)
      BY FlattenIs, TotalIs
    <3> HIDE DEF text
    <3> QED BY <3>1, HeadEndsAre
  <2>3. n \in H /\ (\A e \in H : n <= e) /\ n \in 4 .. Len(text)
    <3>1. Least(H) \in H /\ \A e \in H : Least(H) <= e
      <4> HIDE DEF H
      <4> QED BY <2>1, <2>2, LeastIs
    <3>2. Least(H) \in 4 .. Len(text)
      BY <2>2, <3>1
    <3> HIDE DEF H
    <3>3. n = Least(H)
      BY <2>1, <3>2
    <3> QED BY <3>1, <3>2, <3>3
  <2> DEFINE full == text \o rest
  <2> HIDE DEF n, index0, len, H, text
  <2>12. full \in Seq(Byte) /\ HeadsFit(full)
    BY <2>2, ConcatProperties DEF text
  <2>14. /\ \A e \in H : e \in HeadEnds(full)
         /\ \A e \in HeadEnds(full) : e <= Len(text) => e \in H
    BY <2>2, HeadEndsOfJoin DEF H
  <2>15. \A e \in HeadEnds(full) : e \in Nat
    <3> HIDE DEF full
    <3> QED BY <2>12, HeadEndsAre
  <2> HIDE DEF full
  <2>13. n \in HeadEnds(full) /\ \A e \in HeadEnds(full) : n <= e
    <3>1. n \in HeadEnds(full)
      BY <2>3, <2>14
    <3>2. ASSUME NEW e \in HeadEnds(full) PROVE n <= e
      <4>1. CASE e <= Len(text)
        BY <2>3, <2>14, <4>1
      <4>2. CASE ~ (e <= Len(text))
        BY <2>2, <2>3, <2>15, <4>2
      <4> QED BY <4>1, <4>2
    <3> QED BY <3>1, <3>2
  <2>17. len = n
    BY <2>12, <2>13, FirstFits DEF len
  <2>4. n \in 1 .. Total(list) /\ n \in Nat
    BY <2>2, <2>3
  <2>5. n \in Bounds(list) \/ n <= Len(list[1])
    <3>1. 1 \in 0 .. Len(list) /\ 1 \in 1 .. Len(list)
      BY <2>4, ListIs, TotalIs
    <3> DEFINE b == LenTo(list, 1)
    <3>2. b = Len(list[1]) /\ b \in Bounds(list) /\ 0 < b /\ b \in Nat
      <4>1. LenTo(list, 0) = 0 /\ LenTo(list, 1) = LenTo(list, 1 - 1) + Len(list[1]) /\ 1 - 1 = 0
        BY <3>1, LenToSteps
      <4>2. Len(list[1]) \in Nat /\ Len(list[1]) > 0
        BY <3>1, ListIs
      <4>3. b \in Bounds(list)
        BY <3>1 DEF Bounds
      <4> QED BY <4>1, <4>2, <4>3
    <3> HIDE DEF b
    <3>3. b < n => n \in Bounds(list) \/ \E d \in Nat : b <= d /\ d < n /\ d \in H
      BY <2>3, <3>2 DEF Closed, Clear, H, text
    <3>4. \A d \in H : ~ (d < n)
      BY <2>2, <2>3, <2>4
    <3>5. CASE b < n
      BY <3>3, <3>4, <3>5
    <3>6. CASE ~ (b < n)
      <4>1. n <= b
        BY <2>4, <3>2, <3>6
      <4> QED BY <3>2, <4>1
    <3> QED BY <3>5, <3>6
  <2>6. PICK p \in Lists(Byte), q \in Lists(Byte) : CutInto(list, n, p, q)
    BY <2>4, <2>5, RechainIs
  <2>7. /\ Rechain(list, n) = p \o q /\ Total(p) = n /\ text = FlattenSeq(p) \o FlattenSeq(q)
        /\ Narrow(q)
        /\ \A b \in Bounds(q) : b = 0 \/ n + b \in Bounds(list)
        /\ \A b \in Bounds(list) : b > n => b - n \in Bounds(q)
    BY <2>6 DEF CutInto, text
  <2>8. Len(p) \in Nat \ {0} /\ Len(FlattenSeq(p)) = n
    <3>1. Len(p) # 0
      BY <2>4, <2>7, TotalIs
    <3> QED BY <2>7, <3>1, ListIs, TotalIs
  <2>9. Splits(p \o q, n) /\ SplitAt(p \o q, n) = Len(p)
    BY <2>7, <2>8, SplitAtIs
  <2>10. /\ req' = SubSeq(p \o q, 1, Len(p)) /\ rcv' = SubSeq(p \o q, Len(p) + 1, Len(p \o q))
         /\ state' = "parse" /\ failed' = failed /\ size' = n
    <3>1. size' = n /\ Split(list, n)
      BY <1>2, <2>17
    <3>2. n # 0 /\ Rechain(list, n) = p \o q
      BY <2>4, <2>7
    <3> QED BY <2>9, <3>1, <3>2 DEF Split
  <2>11. req' = p /\ rcv' = q
    <3>1. Len(p) \in 1 .. Len(p) /\ 1 \in 1 .. Len(p)
      BY <2>8
    <3>2. SubSeq(p \o q, 1, Len(p)) = SubSeq(p, 1, Len(p))
      BY <3>1, SubSeqOfConcat1 DEF Lists
    <3>3. SubSeq(p, 1, Len(p)) = p
      BY SubSeqFull DEF Lists
    <3>4. SubSeq(p \o q, Len(p) + 1, Len(p \o q)) = q
      BY BehindFirst DEF Lists
    <3> QED BY <2>10, <3>2, <3>3, <3>4
  <2> DEFINE u == FlattenSeq(p)
             v == FlattenSeq(q)
  <2>22. u \in Seq(Byte) /\ v \in Seq(Byte) /\ text = u \o v /\ Len(u) = n
    BY <2>7, <2>8, FlattenIs
  <2> HIDE DEF u, v
  <2> DEFINE w == v \o rest
  <2>23. w \in Seq(Byte) /\ full = u \o w
    BY <2>22, ConcatProperties, ConcatAssociative DEF full
  <2>16. /\ \A e \in HeadEnds(v) : n + e \in H
         /\ \A e \in H : e >= n + 4 => e - n \in HeadEnds(v)
    BY <2>22, HeadEndsOfJoin DEF H
  <2> HIDE DEF w
  <2>18. HeadsFit(w)
    BY <2>12, <2>13, <2>22, <2>23, BehindHead
  <2>19. ASSUME NEW d \in Nat, Clear(text, d), d > n
         PROVE  d - n \in Nat /\ Clear(v, d - n)
    <3>1. d \in H /\ \A h \in H : h < d => h + 4 <= d
      BY <2>19 DEF Clear, H
    <3>2. n + 4 <= d
      BY <2>3, <2>19, <3>1
    <3>3. d - n \in HeadEnds(v) /\ d - n \in Nat
      BY <2>4, <2>16, <3>1, <3>2
    <3>4. ASSUME NEW h \in HeadEnds(v), h < d - n PROVE h + 4 <= d - n
      <4>1. h \in Nat
        BY <2>22, HeadEndsAre
      <4>2. n + h \in H /\ n + h < d
        BY <2>4, <2>16, <3>4, <4>1
      <4>3. n + h + 4 <= d
        BY <3>1, <4>2
      <4> QED BY <2>4, <4>1, <4>3
    <3> QED BY <3>3, <3>4 DEF Clear
  <2>20. Closed(q)
    <3>1. ASSUME NEW e \in HeadEnds(v), NEW b \in Bounds(q), 0 < b, b < e
          PROVE  e \in Bounds(q) \/ \E d \in Nat : b <= d /\ d < e /\ Clear(v, d)
      <4> DEFINE f == n + e
                 c == n + b
      <4>1. e \in Nat /\ b \in Nat
        BY <2>22, BoundsAre, HeadEndsAre
      <4>2. f \in H /\ c \in Bounds(list) /\ 0 < c /\ c < f /\ f > n /\ f - n = e
        BY <2>4, <2>7, <2>16, <3>1, <4>1
      <4> HIDE DEF f, c
      <4>3. f \in Bounds(list) \/ \E d \in Nat : c <= d /\ d < f /\ Clear(text, d)
        BY <4>2 DEF Closed, H, text
      <4>4. CASE f \in Bounds(list)
        BY <2>7, <4>2, <4>4
      <4>5. ASSUME NEW d \in Nat, c <= d, d < f, Clear(text, d)
            PROVE  d - n \in Nat /\ Clear(v, d - n) /\ b <= d - n /\ d - n < e
        <5>1. d > n /\ b <= d - n /\ d - n < e
          BY <2>4, <3>1, <4>1, <4>5 DEF f, c
        <5> QED BY <2>19, <4>5, <5>1
      <4> QED BY <4>3, <4>4, <4>5
    <3> QED BY <3>1 DEF Closed, v
  <2>21. Takes(list, rest)
    <3>1. FlattenSeq(req') = u /\ FlattenSeq(rcv') = v
      BY <2>11 DEF u, v
    <3>2. size' = Total(req')
      BY <2>7, <2>10, <2>11, <2>17
    <3>3. u \o v = text /\ Len(u) \in H /\ \A e \in H : Len(u) <= e
      BY <2>3, <2>22
    <3> QED BY <2>7, <2>10, <2>11, <2>18, <2>20, <3>1, <3>2, <3>3 DEF Takes, H, text, w
  <2> QED BY <2>21
<1> QED BY <1>1, <1>2

-----------------------------------------------------------------------------
(* Parsing.                                                                *)

LEMMA SameOne ==
  ASSUME NEW S, NEW list \in Lists(S), NEW i \in 0 .. Total(list), NEW a
  PROVE  Same(list, i, <<a>>) <=> i + 1 <= Total(list) /\ FlattenSeq(list)[i + 1] = a
<1> DEFINE str == <<a>>
           text == FlattenSeq(list)
<1>1. Len(str) = 1 /\ str[1] = a
  OBVIOUS
<1> HIDE DEF str
<1>2. Same(list, i, str) <=> Matches(text, i, str, 1)
  <2>1. Len(str) \in Nat
    BY <1>1
  <2> QED BY <1>1, <2>1, SameIs
<1>3. Len(text) = Total(list)
  BY TotalIs
<1> HIDE DEF text
<1>4. Matches(text, i, str, 1) <=> i + 1 <= Total(list) /\ text[i + 1] = a
  <2>1. (\A j \in 1 .. 1 : text[i + j] = str[j]) <=> text[i + 1] = a
    BY <1>1
  <2> QED BY <1>3, <2>1 DEF Matches
<1> QED BY <1>2, <1>4 DEF str, text

LEMMA SameTwo ==
  ASSUME NEW S, NEW list \in Lists(S), NEW i \in 0 .. Total(list), NEW a, NEW b
  PROVE  Same(list, i, <<a, b>>) <=>
           i + 2 <= Total(list) /\ FlattenSeq(list)[i + 1] = a /\ FlattenSeq(list)[i + 2] = b
<1> DEFINE str == <<a, b>>
           text == FlattenSeq(list)
<1>1. Len(str) = 2 /\ str[1] = a /\ str[2] = b
  OBVIOUS
<1> HIDE DEF str
<1>2. Same(list, i, str) <=> Matches(text, i, str, 2)
  <2>1. Len(str) \in Nat
    BY <1>1
  <2> QED BY <1>1, <2>1, SameIs
<1>3. Len(text) = Total(list)
  BY TotalIs
<1> HIDE DEF text
<1>4. Matches(text, i, str, 2) <=> i + 2 <= Total(list) /\ text[i + 1] = a /\ text[i + 2] = b
  <2>1. \A j \in 1 .. 2 : j = 1 \/ j = 2
    OBVIOUS
  <2>2. (\A j \in 1 .. 2 : text[i + j] = str[j]) <=> text[i + 1] = a /\ text[i + 2] = b
    BY <1>1, <2>1
  <2> QED BY <1>3, <2>2 DEF Matches
<1> QED BY <1>2, <1>4 DEF str, text

\* A search finds the only place it can.
LEMMA StrstrFinds ==
  ASSUME NEW S, NEW list \in Lists(S), NEW index \in Nat, NEW T, NEW str \in Seq(T), str # <<>>,
         NEW i \in index .. Total(list) - 1, Matches(FlattenSeq(list), i, str, Len(str)),
         \A j \in index .. i - 1 : ~ Matches(FlattenSeq(list), j, str, Len(str))
  PROVE  Strstr(list, index, str) = i
<1> DEFINE text == FlattenSeq(list)
           F == Finds(text, index, str)
<1>1. Len(text) = Total(list) /\ Total(list) \in Nat
  BY TotalIs
<1>2. Strstr(list, index, str) = IF F = {} THEN -1 ELSE Least(F)
  BY StrstrIs
<1>3. F = {j \in index .. Total(list) - 1 : Matches(text, j, str, Len(str))}
  BY <1>1 DEF Finds
<1> HIDE DEF F
<1>4. i \in F /\ F \in SUBSET Nat
  BY <1>1, <1>3
<1>5. ASSUME NEW j \in F PROVE i <= j
  <2>1. j \in index .. Total(list) - 1 /\ Matches(text, j, str, Len(str))
    BY <1>3
  <2>2. j < i => j \in index .. i - 1
    BY <1>1, <2>1
  <2> QED BY <1>1, <2>1, <2>2
<1>6. Least(F) = i
  BY <1>4, <1>5, LeastIsUnique
<1> QED BY <1>2, <1>4, <1>6

\* The prover of arithmetic does not read the literal of a space.
LEMMA SpaceIs ==
  /\ Space = Stream!Space
  /\ Space # "GET" /\ Space # "HEAD" /\ Space # "POST" /\ Space # "HTTP/1.1"
BY DEF Space, Stream!Space

LEMMA EndOfLineIs == EndOfLine = Stream!EndOfLine
BY SpaceIs DEF EndOfLine, Stream!EndOfLine

\* Where the words of a request line are.
Words(head, first, last, n) ==
  /\ Len(head) \in Nat
  /\ 3 <= first /\ first <= last /\ last < n /\ n + 3 <= Len(head)
  /\ head[1] \in {"GET", "HEAD", "POST"} /\ head[2] = Space
  /\ \A i \in 2 .. first - 1 : head[i] = Space
  /\ \A i \in last + 1 .. n : head[i] = Space
  /\ \A i \in first .. last : head[i] # Space /\ head[i] # "HTTP/1.1"
  /\ SubSeq(head, n, n + 3) = EndOfLine

LEMMA WordsAre ==
  ASSUME NEW S, NEW head \in Seq(S), Stream!IsHead(head)
  PROVE  \E first, last, n \in Nat : Words(head, first, last, n)
<1> DEFINE N == Len(head)
<1>1. N \in Nat
  BY LenProperties
<1>2. PICK first \in 3 .. N - 3, last \in 3 .. N - 3, n \in 3 .. N - 3 :
        /\ first <= last /\ last < n /\ head[1] \in {"GET", "HEAD", "POST"}
        /\ \A i \in (2 .. first - 1) \cup (last + 1 .. n) : head[i] = Space
        /\ \A i \in first .. last : head[i] \notin {Space, "HTTP/1.1"}
        /\ SubSeq(head, n, n + 3) = EndOfLine
  BY SpaceIs, EndOfLineIs DEF Stream!IsHead
<1> HIDE DEF N
<1>3. /\ first \in Nat /\ last \in Nat /\ n \in Nat /\ 3 <= first /\ n + 3 <= N
  <2>1. first \in 3 .. N - 3 /\ last \in 3 .. N - 3 /\ n \in 3 .. N - 3
    BY <1>2
  <2> QED BY <1>1, <2>1
<1>4. \A i \in 2 .. first - 1 : head[i] = Space
  BY <1>2
<1>5. 2 \in 2 .. first - 1
  BY <1>3
<1>6. \A i \in last + 1 .. n : head[i] = Space
  BY <1>2
<1>7. \A i \in first .. last : head[i] # Space /\ head[i] # "HTTP/1.1"
  BY <1>2
<1>8. head[2] = Space
  BY <1>4, <1>5
<1>9. Words(head, first, last, n)
  <2>1. first <= last /\ last < n /\ head[1] \in {"GET", "HEAD", "POST"}
        /\ SubSeq(head, n, n + 3) = EndOfLine
    BY <1>2
  <2> QED BY <1>1, <1>3, <1>4, <1>6, <1>7, <1>8, <2>1 DEF Words, N
<1> QED BY <1>3, <1>9

LEMMA UrlOfHead ==
  ASSUME NEW head, NEW first \in Nat, NEW last \in Nat, NEW n \in Nat,
         Words(head, first, last, n)
  PROVE  Stream!Url(head) = SubSeq(head, first, last)
<1> DEFINE N == Len(head)
           begins(i) == head[i] # Space /\ \A j \in 2 .. i - 1 : head[j] = Space
           ends(m) == head[m + 1] = Space /\ \A j \in first .. m : head[j] # Space
           b == CHOOSE i \in 2 .. N : begins(i)
           e == CHOOSE m \in first .. N : ends(m)
<1>1. /\ N \in Nat /\ first \in Nat /\ last \in Nat /\ n \in Nat
      /\ 3 <= first /\ first <= last /\ last < n /\ n + 3 <= N
  BY DEF Words
<1>2. /\ \A i \in 2 .. first - 1 : head[i] = Space
      /\ \A i \in last + 1 .. n : head[i] = Space
      /\ \A i \in first .. last : head[i] # Space
  BY DEF Words
<1> HIDE DEF N
<1>3. b = first
  <2>1. first \in 2 .. N /\ head[first] # Space
    <3>1. first \in 2 .. N /\ first \in first .. last
      BY <1>1
    <3> QED BY <1>2, <3>1
  <2>2. begins(first)
    BY <1>2, <2>1
  <2>3. ASSUME NEW i \in 2 .. N, begins(i) PROVE i = first
    <3>1. first < i => first \in 2 .. i - 1
      BY <1>1
    <3>2. i < first => i \in 2 .. first - 1
      BY <1>1
    <3>3. head[i] # Space /\ \A j \in 2 .. i - 1 : head[j] = Space
      BY <2>3
    <3>4. ~ (first < i) /\ ~ (i < first)
      BY <1>2, <2>1, <3>1, <3>2, <3>3
    <3> QED BY <1>1, <3>4
  <2> HIDE DEF begins
  <2> QED BY <2>1, <2>2, <2>3
<1>4. e = last
  <2>1. last \in first .. N /\ head[last + 1] = Space
    <3>1. last \in first .. N /\ last + 1 \in last + 1 .. n
      BY <1>1
    <3> QED BY <1>2, <3>1
  <2>2. ends(last)
    BY <1>2, <2>1
  <2>3. ASSUME NEW m \in first .. N, ends(m) PROVE m = last
    <3>1. last < m => last + 1 \in first .. m
      BY <1>1
    <3>2. m < last => m + 1 \in first .. last
      BY <1>1
    <3>3. head[m + 1] = Space /\ \A j \in first .. m : head[j] # Space
      BY <2>3
    <3>4. ~ (last < m) /\ ~ (m < last)
      BY <1>2, <2>1, <3>1, <3>2, <3>3
    <3> QED BY <1>1, <3>4
  <2> HIDE DEF ends
  <2> QED BY <2>1, <2>2, <2>3
<1> DEFINE e2(i) == CHOOSE m \in i .. N : head[m + 1] = Space /\ \A j \in i .. m : head[j] # Space
<1>5. Stream!Url(head) = SubSeq(head, b, e2(b))
  BY SpaceIs DEF Stream!Url, N
<1> HIDE DEF b
<1>6. e2(b) = e
  BY <1>3
<1> HIDE DEF e, e2
<1> QED BY <1>3, <1>4, <1>5, <1>6

\* parse finds the method and the url of its head.
LEMMA ParseIs ==
  ASSUME req \in Lists(Byte), Stream!IsHead(FlattenSeq(req))
  PROVE  /\ ~ Refused /\ ~ UrlLost
         /\ [method |-> Method, url |-> Url] = Stream!Named(FlattenSeq(req))
<1> DEFINE head == FlattenSeq(req)
           N == Total(req)
<1>1. head \in Seq(Byte) /\ Len(head) = N /\ N \in Nat
  BY FlattenIs, TotalIs
<1>2. PICK first \in Nat, last \in Nat, n \in Nat : Words(head, first, last, n)
  BY <1>1, WordsAre
<1> HIDE DEF head, N
<1>3. /\ head[1] \in {"GET", "HEAD", "POST"} /\ head[2] = Space
      /\ \A i \in 2 .. first - 1 : head[i] = Space
      /\ \A i \in last + 1 .. n : head[i] = Space
      /\ \A i \in first .. last : head[i] # Space /\ head[i] # "HTTP/1.1"
  BY <1>2 DEF Words
<1>4. /\ first \in Nat /\ last \in Nat /\ n \in Nat /\ 3 <= first /\ n + 3 <= N
      /\ first <= last /\ last < n
  BY <1>1, <1>2 DEF Words
<1>5. \A i \in 0 .. N : Blank(i) <=> i + 1 <= N /\ head[i + 1] = Space
  BY SameOne DEF Blank, head, N
<1>6. \A a, b : \A i \in 0 .. N : Same(req, i, <<a, b>>) <=> i + 2 <= N /\ head[i + 1] = a /\ head[i + 2] = b
  BY SameTwo DEF head, N
<1>7. Method = head[1]
  <2>1. 0 \in 0 .. N /\ 0 + 2 <= N /\ 0 + 1 = 1 /\ 0 + 2 = 2
    BY <1>1, <1>4
  <2>2. \A a : Same(req, 0, <<a, Space>>) <=> head[1] = a
    BY <1>3, <1>6, <2>1
  <2> QED BY <1>3, <2>2 DEF Method
<1>8. Strstr(req, 0, <<Space>>) = 1
  <2> DEFINE str == <<Space>>
  <2>1. str \in Seq({Space}) /\ Len(str) = 1 /\ str[1] = Space /\ str # <<>>
    OBVIOUS
  <2> HIDE DEF str
  <2>2. \A i \in 0 .. N : Matches(head, i, str, Len(str)) <=> i + 1 <= N /\ head[i + 1] = Space
    <3>1. \A i \in 0 .. N : Matches(head, i, str, Len(str)) <=> i + 1 <= N /\ \A j \in {1} : head[i + j] = str[j]
      BY <1>1, <2>1 DEF Matches
    <3> QED BY <2>1, <3>1
  <2>3. Matches(head, 1, str, Len(str))
    BY <1>1, <1>3, <1>4, <2>2
  <2>4. ASSUME NEW j \in 0 .. 1 - 1 PROVE ~ Matches(head, j, str, Len(str))
    <3>1. j = 0 /\ j \in 0 .. N /\ j + 1 = 1
      BY <1>1
    <3>2. head[1] # Space
      BY <1>3, SpaceIs
    <3> QED BY <2>2, <3>1, <3>2
  <2>5. 1 \in 0 .. N - 1
    BY <1>1, <1>4
  <2>6. Strstr(req, 0, str) = 1
    BY <2>1, <2>3, <2>4, <2>5, StrstrFinds DEF head, N
  <2> QED BY <2>6 DEF str
<1>9. Strstr(req, 0, EndOfLine) = n - 1
  <2> DEFINE i == n - 1
  <2>1. /\ EndOfLine \in Seq({Space, "HTTP/1.1", "\r", "\n"}) /\ Len(EndOfLine) = 4
        /\ EndOfLine[2] = "HTTP/1.1" /\ EndOfLine # <<>>
    BY DEF EndOfLine
  <2>2. i \in 0 .. N - 1 /\ i + 1 = n /\ i + 4 = n + 3 /\ i + 4 <= N /\ i \in Nat
    BY <1>1, <1>4
  <2> HIDE DEF i
  <2>3. Matches(head, i, EndOfLine, Len(EndOfLine))
    <3>1. i + 4 = i + Len(EndOfLine) /\ i + 4 <= Len(head)
      BY <1>1, <2>1, <2>2
    <3>2. SubSeq(head, i + 1, i + 4) = EndOfLine
      BY <1>2, <2>2 DEF Words
    <3>3. \A j \in 1 .. Len(EndOfLine) : head[i + j] = EndOfLine[j]
      BY <1>1, <2>1, <2>2, <3>1, <3>2, PartEquals
    <3> QED BY <3>1, <3>3 DEF Matches
  <2>4. ASSUME NEW j \in 0 .. i - 1 PROVE ~ Matches(head, j, EndOfLine, Len(EndOfLine))
    <3>1. head[j + 2] # "HTTP/1.1"
      <4>1. j + 2 \in 2 .. n
        BY <1>4, <2>2
      <4>2. j + 2 \in 2 .. first - 1 \/ j + 2 \in first .. last \/ j + 2 \in last + 1 .. n
        BY <1>3, <1>4, <4>1
      <4> QED BY <1>3, <4>2, SpaceIs
    <3>2. 2 \in 1 .. Len(EndOfLine)
      BY <2>1
    <3> QED BY <2>1, <3>1, <3>2 DEF Matches
  <2>5. Strstr(req, 0, EndOfLine) = i
    <3>1. EndOfLine \in Seq({Space, "HTTP/1.1", "\r", "\n"}) /\ EndOfLine # <<>>
      BY <2>1
    <3>2. i \in 0 .. Total(req) - 1
      BY <2>2 DEF N
    <3>3. /\ Matches(FlattenSeq(req), i, EndOfLine, Len(EndOfLine))
          /\ \A j \in 0 .. i - 1 : ~ Matches(FlattenSeq(req), j, EndOfLine, Len(EndOfLine))
      BY <2>3, <2>4 DEF head
    <3> QED BY <3>1, <3>2, <3>3, StrstrFinds
  <2> QED BY <2>5 DEF i
<1>10. UrlBegins = first - 1
  <2> DEFINE begins(j) == ~ Blank(j) /\ \A k \in 2 .. j - 1 : Blank(k)
  <2>1. UrlBegins = CHOOSE j \in 2 .. N : begins(j)
    <3>1. UrlBegins = SkipBlanks(1 + 1) /\ 1 + 1 = 2
      BY <1>8 DEF UrlBegins
    <3>2. SkipBlanks(2) = CHOOSE j \in 2 .. N : begins(j)
      BY DEF SkipBlanks, N
    <3> HIDE DEF begins
    <3> QED BY <3>1, <3>2
  <2>2. \A k \in 2 .. first - 1 - 1 : Blank(k)
    <3>1. ASSUME NEW k \in 2 .. first - 1 - 1 PROVE Blank(k)
      <4>1. k + 1 \in 2 .. first - 1 /\ k \in 0 .. N /\ k + 1 <= N
        BY <1>1, <1>3, <1>4
      <4> QED BY <1>3, <1>5, <4>1
    <3> QED BY <3>1
  <2>3. ~ Blank(first - 1)
    <3>1. first - 1 \in 0 .. N /\ first - 1 + 1 = first /\ first \in first .. last
      BY <1>1, <1>3, <1>4
    <3> QED BY <1>3, <1>5, <3>1
  <2>4. first - 1 \in 2 .. N /\ begins(first - 1)
    BY <1>1, <1>3, <1>4, <2>2, <2>3
  <2>5. ASSUME NEW j \in 2 .. N, begins(j) PROVE j = first - 1
    <3>1. ~ (first - 1 < j)
      BY <1>4, <2>3, <2>5
    <3>2. ~ (j < first - 1)
      BY <1>4, <2>2, <2>5
    <3> QED BY <1>4, <3>1, <3>2
  <2> HIDE DEF begins
  <2> QED BY <2>1, <2>4, <2>5
<1>11. UrlEnds = last - 1
  <2> DEFINE m == n - 1 - 1
             ends(j) == ~ Blank(j) /\ \A k \in j + 1 .. m : Blank(k)
  <2>1. UrlEnds = CHOOSE j \in 0 .. m : ends(j)
    <3>1. UrlEnds = SkipBlanksBack(m)
      BY <1>9 DEF UrlEnds
    <3> HIDE DEF m
    <3> QED BY <3>1 DEF SkipBlanksBack
  <2>2. m = n - 2 /\ m \in Nat
    BY <1>4
  <2> HIDE DEF m
  <2>3. \A k \in last - 1 + 1 .. m : Blank(k)
    <3>1. ASSUME NEW k \in last - 1 + 1 .. m PROVE Blank(k)
      <4>1. k + 1 \in last + 1 .. n /\ k \in 0 .. N /\ k + 1 <= N
        BY <1>1, <1>3, <1>4, <2>2
      <4> QED BY <1>3, <1>5, <4>1
    <3> QED BY <3>1
  <2>4. ~ Blank(last - 1)
    <3>1. last - 1 \in 0 .. N /\ last - 1 + 1 = last /\ last \in first .. last
      BY <1>1, <1>3, <1>4
    <3> QED BY <1>3, <1>5, <3>1
  <2>5. last - 1 \in 0 .. m /\ ends(last - 1)
    BY <1>1, <1>3, <1>4, <2>2, <2>3, <2>4
  <2>6. ASSUME NEW j \in 0 .. m, ends(j) PROVE j = last - 1
    <3>1. ~ (last - 1 < j)
      BY <1>4, <2>2, <2>3, <2>6
    <3>2. ~ (j < last - 1)
      BY <1>3, <1>4, <2>2, <2>4, <2>6
    <3> QED BY <1>4, <2>2, <3>1, <3>2
  <2> HIDE DEF ends
  <2> QED BY <2>1, <2>5, <2>6
<1> DEFINE url == SubSeq(head, first, last)
<1>12. Stream!Url(head) = url
  BY <1>2, UrlOfHead
<1>13. Strcpy(req, UrlBegins, UrlEnds) = url
  <2> DEFINE index0 == first - 1
             index1 == last - 1
  <2>1. /\ index0 \in Nat /\ index1 \in Nat /\ index0 <= index1 + 1 /\ index1 < N
        /\ index0 + 1 = first /\ index1 + 1 = last
    BY <1>1, <1>3, <1>4
  <2>2. UrlBegins = index0 /\ UrlEnds = index1
    BY <1>10, <1>11
  <2> HIDE DEF index0, index1
  <2>3. Strcpy(req, index0, index1) = SubSeq(head, index0 + 1, index1 + 1)
    BY <2>1, StrcpyIs DEF head, N
  <2> QED BY <2>1, <2>2, <2>3
<1>14. Same(req, UrlBegins, <<"/", Space>>) <=> url = <<"/">>
  <2>1. Same(req, UrlBegins, <<"/", Space>>) <=> head[first] = "/" /\ head[first + 1] = Space
    <3> DEFINE i == first - 1
    <3>1. i \in 0 .. N /\ i + 2 <= N /\ i + 1 = first /\ i + 2 = first + 1 /\ UrlBegins = i
      BY <1>1, <1>4, <1>10
    <3> HIDE DEF i
    <3> QED BY <1>6, <3>1
  <2>2. head[first + 1] = Space <=> first = last
    <3>1. CASE first = last
      <4>1. first + 1 \in last + 1 .. n
        BY <1>3, <1>4, <3>1
      <4> QED BY <1>3, <3>1, <4>1
    <3>2. CASE first # last
      <4>1. first + 1 \in first .. last
        BY <1>3, <1>4, <3>2
      <4> QED BY <1>3, <3>2, <4>1
    <3> QED BY <3>1, <3>2
  <2>3. url \in Seq(Byte) /\ Len(url) = last + 1 - first /\ url[1] = head[first]
    <3>1. first \in Nat \ {0} /\ last \in Nat /\ first <= last + 1 /\ last <= Len(head)
          /\ 1 \in 1 .. last + 1 - first /\ first + 1 - 1 = first
      BY <1>1, <1>3, <1>4
    <3>2. /\ url \in Seq(Byte) /\ Len(url) = last + 1 - first
          /\ \A j \in 1 .. last + 1 - first : url[j] = head[first + j - 1]
      BY <1>1, <3>1, SubSeqIs
    <3> HIDE DEF url
    <3> QED BY <3>1, <3>2
  <2> HIDE DEF url
  <2>4. ASSUME url = <<"/">> PROVE first = last /\ head[first] = "/"
    <3>1. Len(url) = 1 /\ url[1] = "/"
      BY <2>4
    <3>2. head[first] = "/" /\ last + 1 - first = 1
      BY <2>3, <3>1
    <3> QED BY <1>4, <3>2
  <2>5. ASSUME first = last, head[first] = "/" PROVE url = <<"/">>
    <3>1. Len(url) = 1 /\ url[1] = "/"
      BY <1>4, <2>3, <2>5
    <3>2. <<"/">> \in Seq({"/"}) /\ Len(<<"/">>) = 1 /\ <<"/">>[1] = "/"
      OBVIOUS
    <3>3. \A j \in 1 .. Len(url) : url[j] = <<"/">>[j]
      BY <3>1, <3>2
    <3>4. url \in Seq(Byte \cup {"/"}) /\ <<"/">> \in Seq(Byte \cup {"/"})
      BY <2>3, <3>2, SeqMonotonic
    <3> QED BY <3>1, <3>2, <3>3, <3>4, SeqEqual
  <2> QED BY <2>1, <2>2, <2>4, <2>5
<1> HIDE DEF url
<1>15. Url = IF url = <<"/">> THEN IndexPage ELSE url
  BY <1>13, <1>14 DEF Url, AtRoot
<1>16. Stream!Named(head) = [method |-> head[1], url |-> IF url = <<"/">> THEN IndexPage ELSE url]
  BY <1>12 DEF Stream!Named
<1>17. Method # "none"
  BY <1>3, <1>7
<1>18. n - 1 # -1
  BY <1>4
<1>19. UrlBegins \in Nat /\ UrlEnds \in Nat /\ UrlBegins < N /\ UrlBegins <= UrlEnds
  BY <1>1, <1>4, <1>10, <1>11
<1>20. ~ Refused
  BY <1>8, <1>9, <1>17, <1>18 DEF Refused
<1>21. ~ UrlLost
  BY <1>1, <1>19 DEF UrlLost, N
<1> QED BY <1>7, <1>15, <1>16, <1>20, <1>21 DEF head

-----------------------------------------------------------------------------
(* The states.                                                             *)

Input == rcv \o waiting

BuffersOK ==
  /\ rcv \in Lists(Byte) /\ waiting \in Lists(Byte)
  /\ Narrow(Input) /\ Closed(Input)

UnsentOK == unsent \in Seq(Byte) /\ HeadsFit(FlattenSeq(Input) \o unsent)

RequestOK ==
  /\ req \in Lists(Byte)
  /\ state \in {"parse", "prepare"} => size = Total(req)

StatesOK ==
  /\ state \in {"receive", "parse", "prepare", "answer", "error"}
  /\ failed \in {"none", "url"}
  /\ failed = "url" => ~ Stream!IsHead(FlattenSeq(req))
  /\ state = "receive" => waiting = <<>>

IInv == BuffersOK /\ UnsentOK /\ RequestOK /\ StatesOK

LEMMA HeadLengthIs ==
  ASSUME NEW S, NEW text \in Seq(S), NEW n \in HeadEnds(text), \A e \in HeadEnds(text) : n <= e
  PROVE  Stream!HeadLength(text) = n
<1>1. EndOfHead = Stream!EndOfHead
  BY DEF EndOfHead, Stream!EndOfHead
<1>2. Stream!HeadLength(text) = IF HeadEnds(text) = {} THEN 0 ELSE Least(HeadEnds(text))
  BY <1>1 DEF Stream!HeadLength, HeadEnds, Least
<1>3. HeadEnds(text) \in SUBSET Nat
  BY HeadEndsAre
<1>4. Least(HeadEnds(text)) = n
  BY <1>3, LeastIsUnique
<1> QED BY <1>2, <1>4

\* Joining is associative.
LEMMA JoinsTwice ==
  ASSUME NEW S, NEW a \in Seq(S), NEW b \in Seq(S), NEW c \in Seq(S)
  PROVE  (a \o b) \o c = a \o (b \o c)
<1> QED BY ConcatAssociative

\* What a segment that is read adds to the input.
LEMMA SegmentIs ==
  ASSUME ~ Straddle, IInv, NEW n \in Cuts, Segment(n), NEW seg, seg = SubSeq(unsent, 1, n)
  PROVE  /\ seg \in Seq(Byte) /\ seg # <<>> /\ <<seg>> \in Lists(Byte)
         /\ unsent' \in Seq(Byte) /\ Len(unsent') <= Len(unsent)
         /\ Input \o <<seg>> \in Lists(Byte) /\ Narrow(Input \o <<seg>>) /\ Closed(Input \o <<seg>>)
         /\ FlattenSeq(Input \o <<seg>>) \o unsent' = FlattenSeq(Input) \o unsent
<1> DEFINE text == FlattenSeq(Input)
           N == Len(unsent)
<1>1. /\ Input \in Lists(Byte) /\ Narrow(Input) /\ Closed(Input) /\ unsent \in Seq(Byte)
  BY JoinIs DEF IInv, BuffersOK, UnsentOK, Input
<1>2. /\ n <= N /\ unsent' = SubSeq(unsent, n + 1, N)
      /\ Fits(n)
  BY DEF Segment
<1>3. n \in Nat /\ n # 0 /\ n < Width /\ N \in Nat
  BY <1>1, RequestsAssumption, CbufAssumption, LenProperties
<1>4. /\ seg \in Seq(Byte) /\ Len(seg) = n
      /\ unsent' \in Seq(Byte) /\ Len(unsent') = N - n /\ seg \o unsent' = unsent
  <2>1. n \in 0 .. Len(unsent)
    BY <1>2, <1>3
  <2> QED BY <1>1, <1>2, <2>1, PartsAre
<1>5. seg # <<>>
  BY <1>3, <1>4, EmptySeq
<1>6. \/ text = <<>> \/ Clear(text, Len(text))
      \/ HeadEnds(text \o seg) \ HeadEnds(text) \subseteq {Len(text) + n}
  BY <1>2 DEF Fits, Input
<1>7. text \in Seq(Byte)
  BY <1>1, FlattenIs
<1>8. /\ Input \o <<seg>> \in Lists(Byte)
      /\ FlattenSeq(Input \o <<seg>>) = text \o seg
      /\ Closed(Input \o <<seg>>)
  <2>1. \/ text = <<>> \/ Clear(text, Len(text))
        \/ HeadEnds(text \o seg) \ HeadEnds(text) \subseteq {Len(text) + Len(seg)}
    BY <1>4, <1>6
  <2>2. seg \in Seq(Byte)
    BY <1>4
  <2> QED BY <1>1, <1>5, <2>1, <2>2, ClosedWith
<1>9. <<seg>> \in Lists(Byte)
  BY <1>4, <1>5, OneIs
<1>10. Narrow(Input \o <<seg>>)
  <2> DEFINE a == Input
             b == <<seg>>
             c == a \o b
             T == Seq(Byte) \ {<<>>}
  <2>1. b \in Lists(Byte) /\ Len(b) = 1 /\ b[1] = seg
    BY <1>9
  <2> HIDE DEF a, b
  <2>2. /\ Len(c) = Len(a) + Len(b) /\ Len(a) \in Nat
        /\ \A i \in 1 .. Len(a) : c[i] = a[i]
        /\ \A i \in 1 .. Len(b) : c[Len(a) + i] = b[i]
    <3>1. a \in Seq(T) /\ b \in Seq(T)
      BY <1>1, <2>1 DEF Lists, a
    <3> HIDE DEF T
    <3> QED BY <3>1, ConcatIs
  <2>3. DOMAIN c = 1 .. Len(c) /\ DOMAIN a = 1 .. Len(a)
    BY <1>1, <1>8, ListIs DEF a, b
  <2> HIDE DEF c
  <2>4. ASSUME NEW i \in 1 .. Len(c) PROVE Len(c[i]) < Width
    <3>1. CASE i \in 1 .. Len(a)
      <4>1. Len(a[i]) < Width
        BY <1>1, <2>3, <3>1 DEF Narrow, a
      <4> QED BY <2>2, <3>1, <4>1
    <3>2. CASE i \notin 1 .. Len(a)
      <4>1. Len(b) = 1 /\ b[1] = seg
        BY <2>1
      <4>2. i = Len(a) + 1 /\ 1 \in 1 .. Len(b)
        BY <2>2, <3>2, <4>1
      <4>3. c[Len(a) + 1] = b[1]
        BY <2>2, <4>2
      <4>4. c[i] = seg
        BY <4>1, <4>2, <4>3
      <4> QED BY <1>3, <1>4, <4>4
    <3> QED BY <3>1, <3>2
  <2>5. Narrow(c)
    BY <2>3, <2>4 DEF Narrow
  <2> QED BY <2>5 DEF a, b, c
<1>11. FlattenSeq(Input \o <<seg>>) \o unsent' = text \o unsent
  <2> DEFINE full == FlattenSeq(Input \o <<seg>>)
             rest == unsent'
  <2>1. /\ seg \in Seq(Byte) /\ rest \in Seq(Byte) /\ text \in Seq(Byte)
        /\ full = text \o seg /\ seg \o rest = unsent
    BY <1>4, <1>7, <1>8
  <2>2. \A t, s, r \in Seq(Byte) : (t \o s) \o r = t \o (s \o r)
    BY JoinsTwice
  <2> HIDE DEF text, full, rest
  <2>3. full \o rest = text \o unsent
    <3>1. (text \o seg) \o rest = text \o (seg \o rest)
      BY <2>1, <2>2
    <3> QED BY <2>1, <3>1
  <2> QED BY <2>3 DEF full, rest, text
<1>12. Len(unsent') <= Len(unsent)
  BY <1>3, <1>4
<1> QED BY <1>4, <1>5, <1>8, <1>9, <1>10, <1>11, <1>12

\* What looking for a head preserves.
LEMMA HeadersReceivedKeeps ==
  ASSUME IInv, NEW list \in Lists(Byte), Narrow(list), Closed(list),
         unsent' \in Seq(Byte), HeadsFit(FlattenSeq(list) \o unsent'),
         failed = "none", waiting' = <<>>, HeadersReceived(list)
  PROVE  /\ IInv'
         /\ \/ Stays(list) /\ Input' = list
            \/ Takes(list, unsent') /\ Input' = rcv'
<1>1. req \in Lists(Byte)
  BY DEF IInv, RequestOK
<1>2. Stays(list) \/ Takes(list, unsent')
  BY HeadersReceivedIs
<1>3. <<>> \in Lists(Byte) /\ \A l \in Lists(Byte) : l \o <<>> = l
  BY EmptyIs, ConcatEmptySeq DEF Lists
<1>4. CASE Stays(list)
  <2>1. rcv' = list /\ state' = "receive" /\ req' = req /\ failed' = failed
    BY <1>4 DEF Stays
  <2>2. Input' = list
    BY <1>3, <2>1 DEF Input
  <2>3. BuffersOK'
    BY <1>3, <2>1, <2>2 DEF BuffersOK
  <2>4. UnsentOK'
    BY <2>2 DEF UnsentOK
  <2>5. RequestOK' /\ StatesOK'
    BY <1>1, <2>1 DEF RequestOK, StatesOK
  <2> QED BY <1>4, <2>2, <2>3, <2>4, <2>5 DEF IInv
<1>5. CASE Takes(list, unsent')
  <2>1. /\ state' = "parse" /\ failed' = failed /\ size' = Total(req')
        /\ req' \in Lists(Byte) /\ rcv' \in Lists(Byte) /\ Narrow(rcv') /\ Closed(rcv')
        /\ HeadsFit(FlattenSeq(rcv') \o unsent')
    BY <1>5 DEF Takes
  <2>2. Input' = rcv'
    BY <1>3, <2>1 DEF Input
  <2>3. BuffersOK'
    BY <1>3, <2>1, <2>2 DEF BuffersOK
  <2>4. UnsentOK'
    BY <2>1, <2>2 DEF UnsentOK
  <2>5. RequestOK' /\ StatesOK'
    BY <1>1, <2>1 DEF RequestOK, StatesOK
  <2> QED BY <1>5, <2>2, <2>3, <2>4, <2>5 DEF IInv
<1> QED BY <1>2, <1>4, <1>5

\* What taking a request is for its text.
TakesHead(text) ==
  /\ state' = "parse"
  /\ FlattenSeq(req') \o FlattenSeq(rcv') = text
  /\ FlattenSeq(req') # <<>> /\ Len(FlattenSeq(req')) = Stream!HeadLength(text)

LEMMA TakenIs ==
  ASSUME NEW list, NEW rest, FlattenSeq(list) \in Seq(Byte), Takes(list, rest)
  PROVE  TakesHead(FlattenSeq(list))
<1> DEFINE text == FlattenSeq(list)
           n == Len(FlattenSeq(req'))
<1>1. /\ state' = "parse" /\ FlattenSeq(req') \o FlattenSeq(rcv') = text
      /\ n \in HeadEnds(text) /\ \A e \in HeadEnds(text) : n <= e
  BY DEF Takes
<1>2. n # 0
  <2>1. text \in Seq(Byte)
    OBVIOUS
  <2> HIDE DEF text, n
  <2>2. n \in 4 .. Len(text)
    BY <1>1, <2>1, HeadEndsAre
  <2>3. Len(text) \in Nat
    BY <2>1, LenProperties
  <2> QED BY <2>2, <2>3
<1>3. FlattenSeq(req') # <<>>
  BY <1>2, EmptySeq
<1> HIDE DEF n
<1>4. Stream!HeadLength(text) = n
  BY <1>1, HeadLengthIs
<1> QED BY <1>1, <1>3, <1>4 DEF TakesHead, n

\* A read without a complete head is an arrival; with one it takes a request.
LEMMA ReceiveIs ==
  ASSUME IInv, NEW list \in Lists(Byte), Narrow(list), Closed(list),
         unsent' \in Seq(Byte), Len(unsent') <= Len(unsent),
         FlattenSeq(list) \o unsent' = FlattenSeq(Input) \o unsent,
         state = "receive", failed = "none", waiting' = <<>>, found' = found, HeadersReceived(list)
  PROVE  IInv' /\ Stream!Next
<1> DEFINE text == FlattenSeq(list)
<1>1. HeadsFit(text \o unsent')
  BY DEF IInv, UnsentOK
<1>2. /\ IInv'
      /\ \/ Stays(list) /\ Input' = list
         \/ Takes(list, unsent') /\ Input' = rcv'
  BY <1>1, HeadersReceivedKeeps
<1>3. text \in Seq(Byte)
  BY FlattenIs
<1>4. CASE Stays(list) /\ Input' = list
  <2>1. state' = state /\ req' = req
    BY <1>4 DEF Stays
  <2>2. PhaseOf(state') = PhaseOf(state) /\ FlattenSeq(req') = FlattenSeq(req)
    BY <2>1
  <2>3. FlattenSeq(rcv' \o waiting') = text /\ FlattenSeq(Input) = FlattenSeq(rcv \o waiting)
    BY <1>4 DEF Input
  <2>4. Stream!Arrive
    BY <2>2, <2>3 DEF Stream!Arrive
  <2> QED BY <1>2, <2>4 DEF Stream!Next
<1>5. CASE Takes(list, unsent') /\ Input' = rcv'
  <2>1. TakesHead(text)
    BY <1>3, <1>5, TakenIs
  <2>2. PhaseOf(state) = "waiting" /\ PhaseOf(state') = "taken"
    BY <2>1 DEF PhaseOf, TakesHead
  <2>3. FlattenSeq(rcv' \o waiting') = FlattenSeq(rcv') /\ FlattenSeq(Input) = FlattenSeq(rcv \o waiting)
    BY <1>5 DEF Input
  <2>4. FlattenSeq(req') \o FlattenSeq(rcv') \o unsent' = FlattenSeq(rcv \o waiting) \o unsent
    BY <2>1, <2>3 DEF TakesHead
  <2>5. /\ FlattenSeq(req') # <<>>
        /\ Len(FlattenSeq(req')) = Stream!HeadLength(FlattenSeq(req') \o FlattenSeq(rcv'))
    BY <2>1 DEF TakesHead
  <2>6. Stream!Take
    BY <2>2, <2>3, <2>4, <2>5 DEF Stream!Take
  <2> QED BY <1>2, <2>6 DEF Stream!Next
<1> QED BY <1>2, <1>4, <1>5

LEMMA StepIs ==
  ASSUME ~ Straddle, IInv, [Next]_vars
  PROVE  IInv' /\ [Stream!Next]_(Stream!vars)
<1>1. /\ rcv \in Lists(Byte) /\ waiting \in Lists(Byte) /\ req \in Lists(Byte)
      /\ Input \in Lists(Byte) /\ Narrow(Input) /\ Closed(Input)
      /\ unsent \in Seq(Byte) /\ Len(unsent) \in Nat
  BY JoinIs, LenProperties DEF IInv, BuffersOK, UnsentOK, RequestOK, Input
<1>2. ASSUME NEW n \in Cuts, ReadAhead(n) PROVE IInv' /\ Stream!Next
  <2> DEFINE seg == SubSeq(unsent, 1, n)
             one == <<seg>>
  <2>1. /\ Segment(n) /\ waiting' = Append(waiting, seg)
        /\ UNCHANGED <<state, rcv, req, size, found, failed>> /\ state # "receive"
        /\ failed = "none"
    BY <1>2 DEF ReadAhead
  <2>2. /\ seg \in Seq(Byte) /\ seg # <<>> /\ one \in Lists(Byte)
        /\ unsent' \in Seq(Byte) /\ Len(unsent') <= Len(unsent)
        /\ Input \o one \in Lists(Byte) /\ Narrow(Input \o one) /\ Closed(Input \o one)
        /\ FlattenSeq(Input \o one) \o unsent' = FlattenSeq(Input) \o unsent
    BY <2>1, SegmentIs
  <2>3. waiting' = waiting \o one /\ Input' = Input \o one /\ waiting' \in Lists(Byte)
    <3>1. seg \in Seq(Byte) \ {<<>>} /\ waiting \in Seq(Seq(Byte) \ {<<>>})
      BY <1>1, <2>2 DEF Lists
    <3>2. Append(waiting, seg) = waiting \o one
      <4> HIDE DEF seg
      <4> QED BY <3>1, AppendIsConcat
    <3> HIDE DEF one
    <3>3. (rcv \o waiting) \o one = rcv \o (waiting \o one)
      <4> DEFINE T == Seq(Byte) \ {<<>>}
      <4>1. rcv \in Seq(T) /\ waiting \in Seq(T) /\ one \in Seq(T)
        BY <1>1, <2>2 DEF Lists
      <4> HIDE DEF T
      <4> QED BY <4>1, JoinsTwice
    <3> QED BY <1>1, <2>1, <2>2, <3>2, <3>3, JoinIs DEF Input
  <2> HIDE DEF seg, one
  <2>4. IInv'
    <3>1. BuffersOK'
      BY <1>1, <2>1, <2>2, <2>3 DEF BuffersOK
    <3>2. UnsentOK'
      BY <2>2, <2>3 DEF UnsentOK, IInv
    <3>3. RequestOK' /\ StatesOK'
      BY <2>1 DEF IInv, RequestOK, StatesOK
    <3> QED BY <3>1, <3>2, <3>3 DEF IInv
  <2>5. Stream!Arrive
    <3>1. FlattenSeq(rcv' \o waiting') = FlattenSeq(Input \o one)
      BY <2>3 DEF Input
    <3>2. FlattenSeq(rcv' \o waiting') \o unsent' = FlattenSeq(rcv \o waiting) \o unsent
      BY <2>2, <3>1 DEF Input
    <3> QED BY <2>1, <2>2, <3>2 DEF Stream!Arrive
  <2> QED BY <2>4, <2>5 DEF Stream!Next
<1>3. ASSUME NEW n \in Cuts, ReceiveRead(n) PROVE IInv' /\ Stream!Next
  <2> DEFINE seg == SubSeq(unsent, 1, n)
             one == <<seg>>
             list == Append(rcv, seg)
  <2>1. /\ Segment(n) /\ HeadersReceived(list)
        /\ state = "receive" /\ failed = "none" /\ waiting' = waiting /\ found' = found
    BY <1>3 DEF ReceiveRead
  <2>2. /\ seg \in Seq(Byte) /\ seg # <<>> /\ one \in Lists(Byte)
        /\ unsent' \in Seq(Byte) /\ Len(unsent') <= Len(unsent)
        /\ Input \o one \in Lists(Byte) /\ Narrow(Input \o one) /\ Closed(Input \o one)
        /\ FlattenSeq(Input \o one) \o unsent' = FlattenSeq(Input) \o unsent
    BY <2>1, SegmentIs
  <2>3. waiting = <<>> /\ list = Input \o one
    <3>1. waiting = <<>>
      BY <2>1 DEF IInv, StatesOK
    <3>2. rcv \o <<>> = rcv
      BY <1>1, ConcatEmptySeq DEF Lists
    <3>3. seg \in Seq(Byte) \ {<<>>} /\ rcv \in Seq(Seq(Byte) \ {<<>>})
      BY <1>1, <2>2 DEF Lists
    <3>4. Append(rcv, seg) = rcv \o one
      <4> HIDE DEF seg
      <4> QED BY <3>3, AppendIsConcat
    <3> QED BY <3>1, <3>2, <3>4 DEF Input
  <2> HIDE DEF list, one
  <2> QED BY <2>1, <2>2, <2>3, ReceiveIs
<1>4. ASSUME ReceivePoll PROVE IInv' /\ Stream!Next
  <2>1. /\ HeadersReceived(rcv) /\ state = "receive" /\ failed = "none"
        /\ unsent' = unsent /\ waiting' = waiting /\ found' = found
    BY <1>4 DEF ReceivePoll
  <2>2. waiting = <<>> /\ Input = rcv
    <3>1. waiting = <<>>
      BY <2>1 DEF IInv, StatesOK
    <3>2. rcv \o <<>> = rcv
      BY <1>1, ConcatEmptySeq DEF Lists
    <3> QED BY <3>1, <3>2 DEF Input
  <2>3. unsent' \in Seq(Byte) /\ Len(unsent') <= Len(unsent)
        /\ FlattenSeq(rcv) \o unsent' = FlattenSeq(Input) \o unsent
    BY <1>1, <2>1, <2>2
  <2> QED BY <1>1, <2>1, <2>2, <2>3, ReceiveIs
<1>5. ASSUME Parse PROVE IInv' /\ Stream!Next
  <2>1. state = "parse" /\ failed = "none" /\ UNCHANGED <<unsent, waiting, rcv, req, size>>
    BY <1>5 DEF Parse
  <2>2. Stream!IsHead(FlattenSeq(req)) =>
          /\ ~ Refused /\ ~ UrlLost
          /\ [method |-> Method, url |-> Url] = Stream!Named(FlattenSeq(req))
    BY <1>1, ParseIs
  <2>3. /\ Input' = Input /\ FlattenSeq(rcv' \o waiting') = FlattenSeq(rcv \o waiting)
        /\ FlattenSeq(req') = FlattenSeq(req) /\ PhaseOf(state) = "taken"
    BY <2>1 DEF Input, PhaseOf
  <2>4. BuffersOK' /\ UnsentOK'
    BY <2>1, <2>3 DEF IInv, BuffersOK, UnsentOK
  <2>5. CASE Refused /\ state' = "error" /\ UNCHANGED <<found, failed>>
    <3>1. IInv'
      BY <2>1, <2>3, <2>4, <2>5 DEF IInv, RequestOK, StatesOK
    <3>2. PhaseOf(state') = "refused" /\ ~ Stream!IsHead(FlattenSeq(req))
      BY <2>2, <2>5 DEF PhaseOf
    <3>3. Stream!Parse
      BY <2>1, <2>3, <2>5, <3>2 DEF Stream!Parse
    <3> QED BY <3>1, <3>3 DEF Stream!Next
  <2>6. CASE UrlLost /\ failed' = "url" /\ UNCHANGED <<state, found>>
    <3>1. ~ Stream!IsHead(FlattenSeq(req'))
      BY <2>2, <2>3, <2>6
    <3>2. IInv'
      BY <2>1, <2>3, <2>4, <2>6, <3>1 DEF IInv, RequestOK, StatesOK
    <3>3. Stream!Arrive
      <4>1. Len(unsent') <= Len(unsent)
        BY <1>1, <2>1
      <4> QED BY <2>1, <2>3, <2>6, <4>1 DEF Stream!Arrive
    <3> QED BY <3>2, <3>3 DEF Stream!Next
  <2>7. CASE /\ state' = "prepare" /\ found' = [method |-> Method, url |-> Url]
             /\ UNCHANGED failed
    <3>1. IInv'
      BY <2>1, <2>3, <2>4, <2>7 DEF IInv, RequestOK, StatesOK
    <3>2. PhaseOf(state') = "known"
      BY <2>7 DEF PhaseOf
    <3>3. Stream!IsHead(FlattenSeq(req)) => found' = Stream!Named(FlattenSeq(req))
      BY <2>2, <2>7
    <3>4. Stream!Parse
      BY <2>1, <2>3, <3>2, <3>3 DEF Stream!Parse
    <3> QED BY <3>1, <3>4 DEF Stream!Next
  <2> QED BY <1>5, <2>5, <2>6, <2>7 DEF Parse
<1>6. ASSUME Prepare \/ Free PROVE IInv' /\ Stream!Next
  <2>1. /\ state = "prepare" /\ failed = "none" /\ state' = "answer" /\ found' = None
        /\ UNCHANGED <<unsent, waiting, rcv, size, failed>>
    BY <1>6 DEF Prepare, Free
  <2>2. req' = <<>>
    <3>1. size = Total(req) /\ Total(req) \in Nat
      BY <1>1, <2>1, TotalIs DEF IInv, RequestOK
    <3>2. Dropn(req, size) = <<>>
      BY <3>1 DEF Dropn
    <3> QED BY <1>6, <3>2 DEF Prepare, Free
  <2>3. <<>> \in Lists(Byte) /\ FlattenSeq(<<>>) = <<>>
    BY EmptyIs
  <2>4. Input' = Input
    BY <2>1 DEF Input
  <2>5. IInv'
    BY <2>1, <2>2, <2>3, <2>4 DEF IInv, BuffersOK, UnsentOK, RequestOK, StatesOK
  <2>6. Stream!Serve
    <3>1. PhaseOf(state) = "known" /\ PhaseOf(state') = "served"
      BY <2>1 DEF PhaseOf
    <3>2. FlattenSeq(rcv' \o waiting') = FlattenSeq(rcv \o waiting) /\ FlattenSeq(req') = <<>>
      BY <2>1, <2>2, <2>3
    <3> QED BY <2>1, <3>1, <3>2 DEF Stream!Serve
  <2> QED BY <2>5, <2>6 DEF Stream!Next
<1>7. ASSUME KeepAlive PROVE IInv' /\ Stream!Next
  <2>1. /\ state = "answer" /\ failed = "none" /\ HeadersReceived(Input)
        /\ waiting' = <<>> /\ unsent' = unsent /\ found' = found
    BY <1>7 DEF KeepAlive, Input
  <2>2. HeadsFit(FlattenSeq(Input) \o unsent') /\ unsent' \in Seq(Byte)
    BY <1>1, <2>1 DEF IInv, UnsentOK
  <2>3. /\ IInv'
        /\ \/ Stays(Input) /\ Input' = Input
           \/ Takes(Input, unsent') /\ Input' = rcv'
    BY <1>1, <2>1, <2>2, HeadersReceivedKeeps
  <2>4. CASE Stays(Input) /\ Input' = Input
    <3>1. PhaseOf(state) = "served" /\ PhaseOf(state') = "waiting"
      BY <2>1, <2>4 DEF PhaseOf, Stays
    <3>2. FlattenSeq(rcv' \o waiting') = FlattenSeq(rcv \o waiting) /\ FlattenSeq(req') = FlattenSeq(req)
      BY <2>4 DEF Stays, Input
    <3>3. Stream!GoOn
      BY <2>1, <3>1, <3>2 DEF Stream!GoOn
    <3> QED BY <2>3, <3>3 DEF Stream!Next
  <2>5. CASE Takes(Input, unsent') /\ Input' = rcv'
    <3>1. TakesHead(FlattenSeq(Input))
      BY <1>1, <2>5, TakenIs, FlattenIs
    <3>2. PhaseOf(state) = "served" /\ PhaseOf(state') = "taken"
      BY <2>1, <3>1 DEF PhaseOf, TakesHead
    <3>3. FlattenSeq(rcv' \o waiting') = FlattenSeq(rcv') /\ FlattenSeq(Input) = FlattenSeq(rcv \o waiting)
      BY <2>5 DEF Input
    <3>4. /\ FlattenSeq(req') \o FlattenSeq(rcv') = FlattenSeq(rcv \o waiting)
          /\ FlattenSeq(req') # <<>>
          /\ Len(FlattenSeq(req')) = Stream!HeadLength(FlattenSeq(rcv \o waiting))
      BY <3>1, <3>3 DEF TakesHead
    <3>5. Stream!GoOnTaking
      BY <2>1, <3>2, <3>3, <3>4 DEF Stream!GoOnTaking
    <3> QED BY <2>3, <3>5 DEF Stream!Next
  <2> QED BY <2>3, <2>4, <2>5
<1>8. ASSUME UNCHANGED vars PROVE IInv' /\ UNCHANGED Stream!vars
  <2>1. UNCHANGED <<state, unsent, waiting, rcv, req, size, found, failed>>
    BY <1>8 DEF vars
  <2>2. Input' = Input
    BY <2>1 DEF Input
  <2>3. IInv'
    BY <2>1, <2>2 DEF IInv, BuffersOK, UnsentOK, RequestOK, StatesOK
  <2>4. UNCHANGED Stream!vars
    BY <2>1 DEF Stream!vars
  <2> QED BY <2>3, <2>4
<1>9. CASE Next
  BY <1>2, <1>3, <1>4, <1>5, <1>6, <1>7, <1>9 DEF Next
<1>10. CASE UNCHANGED vars
  BY <1>8, <1>10
<1> QED BY <1>9, <1>10

\* No peer sends a head of 2^16 bytes or more.
HeadsAreShort == \A script \in Scripts : HeadsFit(script)

LEMMA InitIs == ASSUME HeadsAreShort PROVE Init => IInv /\ Stream!Init
<1> SUFFICES ASSUME Init PROVE IInv /\ Stream!Init
  OBVIOUS
<1>1. /\ state = "receive" /\ unsent \in Scripts /\ waiting = <<>> /\ rcv = <<>> /\ req = <<>>
      /\ found = None /\ failed = "none"
  BY DEF Init
<1>2. <<>> \in Lists(Byte) /\ FlattenSeq(<<>>) = <<>> /\ <<>> \o <<>> = <<>>
      /\ Total(<<>>) = 0
  BY EmptyIs, ConcatEmptySeq DEF Lists
<1>3. Input = <<>>
  BY <1>1, <1>2 DEF Input
<1>4. Narrow(<<>>)
  BY DEF Narrow
<1>5. Closed(<<>>)
  <2>1. \A b \in Bounds(<<>>) : b \in Nat /\ b <= 0
    BY <1>2, BoundsAre
  <2> QED BY <2>1 DEF Closed
<1>6. unsent \in Seq(Byte) /\ HeadsFit(unsent) /\ <<>> \o unsent = unsent
  BY <1>1, RequestsAssumption, ConcatEmptySeq DEF HeadsAreShort
<1>7. IInv
  BY <1>1, <1>2, <1>3, <1>4, <1>5, <1>6 DEF IInv, BuffersOK, UnsentOK, RequestOK, StatesOK
<1>8. Stream!Init
  BY <1>1, <1>2 DEF Stream!Init, PhaseOf
<1> QED BY <1>7, <1>8

LEMMA IInvHolds == ASSUME ~ Straddle, HeadsAreShort PROVE Spec => []IInv
<1>1. Init => IInv
  BY InitIs
<1>2. IInv /\ [Next]_vars => IInv'
  BY StepIs
<1> QED BY <1>1, <1>2, PTL DEF Spec

-----------------------------------------------------------------------------
(* The theorems.                                                           *)

\* Where a head that lies in more than one cbuf ends with one, and none is of
\* 65536 bytes or more, splitting never fails its assertions (cbuf.c:63 and 78),
\* whatever is sent: what rechain cuts is what split moves.  Longer ones are cut at
\* their length modulo 65536, which headers_len keeps (http.c:12).
THEOREM SplitsAreAtSize == ASSUME ~ Straddle, HeadsAreShort PROVE Spec => []SplitsAtSize
<1>1. IInv => SplitsAtSize
  BY DEF IInv, StatesOK, SplitsAtSize
<1> QED BY <1>1, IInvHolds, PTL

\* There, the assertion on the ends of a url (cbuf.c:210) fails only for a head
\* that does not begin with a method, a url and the version.
THEOREM UrlsAreFound == ASSUME ~ Straddle, HeadsAreShort PROVE Spec => []UrlIsFound
<1>1. IInv => UrlIsFound
  BY DEF IInv, StatesOK, UrlIsFound
<1> QED BY <1>1, IInvHolds, PTL

\* Searching and comparing the buffer lists of the program is searching and
\* comparing their texts, from every index (cbuf.c:170-204 and 234-299).
THEOREM ListsReadAsText == ASSUME ~ Straddle, HeadsAreShort PROVE Spec => []SearchesAgree
<1>1. ASSUME IInv PROVE SearchesAgree
  <2> DEFINE T == {Space, "HTTP/1.1", "\r", "\n", "/"}
  <2>1. SUFFICES ASSUME NEW list \in {rcv, req},
                        NEW str \in {EndOfHead, EndOfLine, <<Space>>, <<"/", Space>>},
                        NEW i \in 0 .. Total(list) - 1
                 PROVE  /\ Strstr(list, i, str) = FirstOf(FlattenSeq(list), i, str)
                        /\ Same(list, i, str) <=> Occurs(FlattenSeq(list), i, str)
    BY DEF SearchesAgree
  <2>2. list \in Lists(Byte)
    BY <1>1 DEF IInv, BuffersOK, RequestOK
  <2>3. str \in Seq(T) /\ str # <<>> /\ Len(str) \in Nat
    <3>1. str = EndOfHead \/ str = EndOfLine \/ str = <<Space>> \/ str = <<"/", Space>>
      OBVIOUS
    <3>2. EndOfHead \in Seq(T) /\ EndOfHead # <<>>
      BY DEF EndOfHead
    <3>3. EndOfLine \in Seq(T) /\ EndOfLine # <<>>
      BY DEF EndOfLine
    <3>4. <<Space>> \in Seq(T) /\ <<Space>> # <<>>
      OBVIOUS
    <3>5. <<"/", Space>> \in Seq(T) /\ <<"/", Space>> # <<>>
      OBVIOUS
    <3> HIDE DEF T
    <3> QED BY <3>1, <3>2, <3>3, <3>4, <3>5, LenProperties
  <2>4. FlattenSeq(list) \in Seq(Byte) /\ Len(FlattenSeq(list)) = Total(list) /\ Total(list) \in Nat
    BY <2>2, FlattenIs, TotalIs
  <2>5. i \in Nat /\ i \in 0 .. Total(list)
    BY <2>4
  <2> HIDE DEF T
  <2>6. Strstr(list, i, str) = FirstOf(FlattenSeq(list), i, str)
    <3>1. Strstr(list, i, str) =
            IF Finds(FlattenSeq(list), i, str) = {} THEN -1
            ELSE Least(Finds(FlattenSeq(list), i, str))
      BY <2>2, <2>3, <2>5, StrstrIs
    <3>2. FirstOf(FlattenSeq(list), i, str) =
            IF Finds(FlattenSeq(list), i, str) = {} THEN -1
            ELSE Least(Finds(FlattenSeq(list), i, str))
      BY <2>3, <2>4, <2>5, FirstOfIs
    <3> QED BY <3>1, <3>2
  <2>7. Same(list, i, str) <=> Occurs(FlattenSeq(list), i, str)
    <3>1. Same(list, i, str) <=> Matches(FlattenSeq(list), i, str, Len(str))
      BY <2>2, <2>3, <2>5, SameIs
    <3>2. Occurs(FlattenSeq(list), i, str) <=> Matches(FlattenSeq(list), i, str, Len(str))
      BY <2>3, <2>4, <2>5, OccursIs
    <3> QED BY <3>1, <3>2
  <2> QED BY <2>6, <2>7
<1>2. IInv => SearchesAgree
  BY <1>1
<1> QED BY <1>2, IInvHolds, PTL

\* There, the states take from the buffers what the stream of the peer has, one
\* head after another, and find the method and url of each that begins with them and
\* the version; whatever else is sent (xxxws.c:92-206, http.c:3-97).
THEOREM RequestsAreTakenAsSent == ASSUME ~ Straddle, HeadsAreShort PROVE Spec => StreamSpec
<1>1. Init => Stream!Init
  BY InitIs
<1>2. IInv /\ [Next]_vars => [Stream!Next]_(Stream!vars)
  BY StepIs
<1> QED BY <1>1, <1>2, IInvHolds, PTL DEF Spec, StreamSpec, Stream!Spec
=============================================================================
