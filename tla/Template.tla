------------------------------ MODULE Template ------------------------------
(***************************************************************************)
(* The reader of pages with attributes, xxxws_resource_read_dynamic: it    *)
(* copies a file to its caller and puts the values of attributes in place  *)
(* of their names, through a search buffer that is shorter than the file.  *)
(* p is the reader with the file it reads; indices are the code's.         *)
(***************************************************************************)
EXTENDS Files

CONSTANT BufSize   \* sizeof(priv->sbuf)

Prefix == <<"<", "%", "=">>
Suffix == <<"%", ">">>

\* word follows the first i bytes of text.
Follows(text, i, word) == IsPrefix(word, SubSeq(text, i + 1, Len(text)))

\* The private part of a dynamic resource.
Reader ==
  [sbuf : Seq(Byte), index0 : Nat, index1 : Nat, shadow : Nat, value : Seq(Byte) \cup {None},
   replaced : Nat, eof : BOOLEAN, reset : BOOLEAN]

ASSUME TemplateAssumption == BufSize \in Nat /\ None \notin Reader

\* What malloc gives, and the request to reset: value is wbuf when it is not sbuf.
Fresh == [sbuf |-> <<>>, index0 |-> 0, index1 |-> 0, shadow |-> 0,
          value |-> None, replaced |-> 0, eof |-> FALSE, reset |-> TRUE]

\* The reset that open requests.
Reset(p) ==
  IF p.reset THEN [Fresh EXCEPT !.reset = FALSE] ELSE p

\* shift_and_fill_sbuf: what has been copied leaves the buffer, the file fills it,
\* and its last bytes, which may begin a prefix, become its shadow.
ShiftAndFill(s) ==
  LET p == s.p
      kept == SubSeq(p.sbuf, p.index0 + 1, p.index1 + p.shadow)
      space == BufSize - 1 - Len(kept)
      file == IF p.eof THEN s.file ELSE fread(s.ram, s.file, space)
      filled == kept \o SubSeq(file.seen, Len(s.file.seen) + 1, Len(file.seen))
      shadow == IF Len(filled) <= Len(Prefix) THEN 0 ELSE Len(Prefix) - 1
  IN  [s EXCEPT !.file = file,
                !.p = [p EXCEPT !.sbuf = filled, !.index0 = 0, !.shadow = shadow,
                                !.index1 = Len(filled) - shadow,
                                !.eof = @ \/ Len(filled) - Len(kept) < space]]

\* Line 214: the buffer is filled when its end has been reached, but not at 0.
Refills(p) == p.index0 # 0 /\ p.index0 = p.index1

Copy(s, size) ==
  LET p == s.p
      n == Min({size - Len(s.out), Len(p.value) - p.replaced})
      done == p.replaced + n = Len(p.value)
  IN  [s EXCEPT !.out = @ \o SubSeq(p.value, p.replaced + 1, p.replaced + n),
                !.p.replaced = @ + n, !.p.value = IF done THEN None ELSE @]

\* The name between a prefix at index0 = 0 and the suffix, if both are there; what
\* of them lies in the shadow leaves it.
SuffixesIn(p) ==
  {k \in Len(Prefix) .. Len(p.sbuf) - 1 : Follows(p.sbuf, k, Suffix)}

Replace(s, attributes) ==
  LET p == s.p
      k == Min(SuffixesIn(p))
      name == SubSeq(p.sbuf, Len(Prefix) + 1, k)
      end == k + Len(Suffix)
      over == IF end > p.index1 THEN end - p.index1 ELSE 0
  IN  [s EXCEPT !.p = [p EXCEPT !.index0 = end, !.index1 = @ + over, !.shadow = @ - over,
                                !.value = IF name \in DOMAIN attributes THEN attributes[name]
                                          ELSE <<>>,
                                !.replaced = 0]]

CopyByte(s) ==
  [s EXCEPT !.out = Append(@, s.p.sbuf[s.p.index0 + 1]), !.p.index0 = @ + 1]

\* One round of the loop; at the end of the input it breaks.
Round(s, attributes, size) ==
  IF s.p.value # None THEN Copy(s, size)
  ELSE LET t == IF Refills(s.p) THEN ShiftAndFill(s) ELSE s
       IN  IF t.p.index0 = t.p.index1 THEN [t EXCEPT !.end = TRUE]
           ELSE IF Follows(t.p.sbuf, t.p.index0, Prefix)
             THEN LET u == ShiftAndFill(t)
                  IN  IF SuffixesIn(u.p) # {} THEN Replace(u, attributes) ELSE CopyByte(u)
             ELSE CopyByte(t)

\* The loop.  A round copies a byte, puts a value in place of a name or drops an
\* empty value, so that there are no more rounds than Rounds.
Rounds(s, size) == 2 * (size + fsize(s.ram, s.file)) + 1
Loops(t, attributes, size) ==
  IF t.end \/ Len(t.out) >= size THEN t ELSE Round(t, attributes, size)
Loop(s, attributes, size) ==
  LET after[n \in 0 .. Rounds(s, size)] ==
        IF n = 0 THEN s ELSE Loops(after[n - 1], attributes, size)
  IN  after[Rounds(s, size)]

\* xxxws_resource_read_dynamic of up to size bytes: the reader and the file it
\* leaves, and what it gives (out).
read_dynamic(ram, file, p, attributes, size) ==
  Loop([ram |-> ram, p |-> Reset(p), out |-> <<>>, end |-> FALSE,
        file |-> IF p.reset THEN fseek(file, 0) ELSE file], attributes, size)

-----------------------------------------------------------------------------
\* What such a page is: its text, with the values of its attributes.
Expanded(text, attributes) ==
  LET from[i \in 0 .. Len(text)] ==
        LET ends == {k \in i + Len(Prefix) .. Len(text) : Follows(text, k, Suffix)}
            name == SubSeq(text, i + Len(Prefix) + 1, Min(ends))
        IN  IF i = Len(text) THEN <<>>
            ELSE IF Follows(text, i, Prefix) /\ ends # {}
              THEN (IF name \in DOMAIN attributes THEN attributes[name] ELSE <<>>)
                     \o from[Min(ends) + Len(Suffix)]
            ELSE <<text[i + 1]>> \o from[i + 1]
  IN  from[0]
=============================================================================
