-------------------------------- MODULE Cbuf --------------------------------
(***************************************************************************)
(* The buffer lists of cbuf.c: a cbuf is the sequence of its bytes, a list *)
(* the sequence of its cbufs.  The operations walk from cbuf to cbuf, and  *)
(* are written here as they walk; what they find or cut must not depend on *)
(* where one cbuf ends and the next begins.                                *)
(***************************************************************************)
EXTENDS Integers, Sequences, SequencesExt

CONSTANTS
  Width,  \* 2^16, of alloc_sz1 and alloc_sz2
  Junk    \* a byte that is not the peer's: the '\0' after data, or beyond it

ASSUME CbufAssumption == Width \in Nat \ {0}

\* The bytes of the first k cbufs of a list.
LenTo(list, k) ==
  LET len[j \in 0 .. k] == IF j = 0 THEN 0 ELSE len[j - 1] + Len(list[j])
  IN  len[k]
Total(list) == LenTo(list, Len(list))

-----------------------------------------------------------------------------
(* Cutting.                                                                *)

\* The cbuf in which the first n bytes end.
EndsIn(list, n) == CHOOSE k \in DOMAIN list : LenTo(list, k - 1) < n /\ n <= LenTo(list, k)

\* Bug: the byte after the cut is in both halves.
Bug_RechainTwice(list, n) ==
  LET k == EndsIn(list, n)
      s == n - LenTo(list, k - 1)
  IN  IF s = Len(list[k]) THEN list
      ELSE SubSeq(list, 1, k - 1)
             \o <<SubSeq(list[k], 1, s), SubSeq(list[k], s, Len(list[k]))>>
             \o SubSeq(list, k + 1, Len(list))

\* Bug: one byte too many stays before the cut.
Bug_RechainLate(list, n) ==
  LET k == EndsIn(list, n)
      s == n - LenTo(list, k - 1) + 1
  IN  IF s >= Len(list[k]) THEN list
      ELSE SubSeq(list, 1, k - 1)
             \o <<SubSeq(list[k], 1, s), SubSeq(list[k], s + 1, Len(list[k]))>>
             \o SubSeq(list, k + 1, Len(list))

\* xxxws_cbuf_rechain: cut the cbuf n ends in, by a new cbuf before it or after
\* it, whichever is shorter.  What follows the cut is measured by the length of
\* the first cbuf of the list.
Rechain(list, n) ==
  LET k == EndsIn(list, n)
      cbuf == list[k]
      s == n - LenTo(list, k - 1)
      after == (Len(list[1]) - s) % Width
      prepended == <<SubSeq(cbuf, 1, s), SubSeq(cbuf, s + 1, Len(cbuf))>>
      appended ==
        <<[i \in 1 .. Len(cbuf) - after |-> IF i = s + 1 THEN Junk ELSE cbuf[i]],
          [i \in 1 .. after |-> IF s + i <= Len(cbuf) THEN cbuf[s + i] ELSE Junk]>>
  IN  IF s = Len(cbuf) THEN list
      ELSE SubSeq(list, 1, k - 1) \o (IF s < after THEN prepended ELSE appended)
             \o SubSeq(list, k + 1, Len(list))

\* xxxws_cbuf_list_split of a list that has been rechained: its loop moves whole
\* cbufs until it has moved n bytes, and asserts that none is longer than what is
\* left to move.
Splits(list, n) == \E k \in DOMAIN list : LenTo(list, k) = n
SplitAt(list, n) == CHOOSE k \in DOMAIN list : LenTo(list, k) = n

\* Bug: a cbuf that is dropped whole stays in the list.
Bug_Dropn(list, n) ==
  IF n >= Total(list) THEN SubSeq(list, Len(list), Len(list))
  ELSE LET k == EndsIn(list, n + 1)
       IN  <<SubSeq(list[k], n - LenTo(list, k - 1) + 1, Len(list[k]))>>
             \o SubSeq(list, k + 1, Len(list))

\* xxxws_cbuf_list_dropn.
Dropn(list, n) ==
  IF n >= Total(list) THEN <<>>
  ELSE LET k == EndsIn(list, n + 1)
       IN  <<SubSeq(list[k], n - LenTo(list, k - 1) + 1, Len(list[k]))>>
             \o SubSeq(list, k + 1, Len(list))

-----------------------------------------------------------------------------
(* Searching.  A place is a cbuf and an offset in it, counted from 0.      *)

\* The loop at the beginning of the searches: skip whole cbufs.
Place(list, index) ==
  LET in == {k \in DOMAIN list : index < LenTo(list, k)}
  IN  IF in = {} THEN <<Len(list) + 1, 0>>
      ELSE LET k == CHOOSE k \in in : \A j \in in : k <= j
           IN  <<k, index - LenTo(list, k - 1)>>

\* The next place, in the next cbuf when this one ends.
After(list, p) ==
  IF p[2] + 1 = Len(list[p[1]]) THEN <<p[1] + 1, 0>> ELSE <<p[1], p[2] + 1>>

Ends == <<0, 0>>
Differs == <<0, 1>>

\* Where the bytes that are like str from place p on end; Ends if the list does
\* before, and Differs if they are not like it.
Compare(list, p, str) ==
  LET after[n \in 0 .. Len(str)] ==
        IF n = 0 THEN p
        ELSE LET q == after[n - 1]
             IN  IF q \in {Ends, Differs} THEN q
                 ELSE IF q[1] > Len(list) THEN Ends
                 ELSE IF list[q[1]][q[2] + 1] # str[n] THEN Differs
                 ELSE After(list, q)
  IN  after[Len(str)]

\* xxxws_cbuf_strcmp, which returns 0.
Same(list, index, str) == Compare(list, Place(list, index), str) \notin {Ends, Differs}

\* Bug: the search goes on behind the byte that differs.
Bug_Strstr(list, index, str) ==
  LET tried[i \in 0 .. Total(list)] ==
        IF i >= Total(list) THEN -1
        ELSE IF Same(list, i, str) THEN i
        ELSE IF Same(list, i, <<Head(str)>>) /\ i + 2 <= Total(list) THEN tried[i + 2]
        ELSE tried[i + 1]
  IN  tried[index]

\* xxxws_cbuf_strstr: the first place from index on where str does not differ,
\* unless the list ends there.
Strstr(list, index, str) ==
  LET stops == {i \in index .. Total(list) - 1 :
                  Compare(list, Place(list, i), str) # Differs}
  IN  IF stops = {} THEN -1
      ELSE LET i == CHOOSE i \in stops : \A j \in stops : i <= j
           IN  IF Same(list, i, str) THEN i ELSE -1

\* xxxws_cbuf_strcpy of the bytes from index0 to index1.
Strcpy(list, index0, index1) ==
  LET copied[n \in 0 .. index1 - index0 + 1] ==
        IF n = 0 THEN [str |-> <<>>, at |-> Place(list, index0)]
        ELSE LET s == copied[n - 1]
             IN  [str |-> Append(s.str, list[s.at[1]][s.at[2] + 1]), at |-> After(list, s.at)]
  IN  copied[index1 - index0 + 1].str
=============================================================================
