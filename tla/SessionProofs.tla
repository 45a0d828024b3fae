--------------------------- MODULE SessionProofs ---------------------------
(***************************************************************************)
(* Theorems about Session.tla, for any vocabulary, any sizes of the ring,  *)
(* the stream, the suffix and the chunk, any budget, and any sequence of   *)
(* requests: the rows in use are those of the last tokens of the           *)
(* conversation, what they attended to is their own past (but for a chunk  *)
(* of prefill that wraps), the stored stream is a prefix of the client's   *)
(* transcript, and an answer spends its budget or ends with an EOS.        *)
(***************************************************************************)
EXTENDS Session, SequenceTheorems, TLAPS

----------------------------------------------------------------------------
(* The ring *)

\* A number below twice the ring's size, modulo that size.
LEMMA ModLess ==
    ASSUME NEW a \in Nat \ {0}, NEW x \in Nat, x < 2 * a
    PROVE  x % a = IF x < a THEN x ELSE x - a
  <1>1. /\ x % a \in 0 .. a - 1
        /\ x = a * (x \div a) + (x % a)
    BY SMT
  <1> DEFINE q == x \div a
             m == x % a
  <1>2. q \in Int /\ m \in 0 .. a - 1 /\ x = a * q + m
    BY <1>1, SMT
  <1> HIDE DEF q, m
  <1>3. q >= 0
    BY <1>2, SMT
  <1>4. q <= 1
    BY <1>2, SMT
  <1>5. m = IF x < a THEN x ELSE x - a
    <2>1. CASE q = 0  BY <2>1, <1>2, SMT
    <2>2. CASE q = 1  BY <2>2, <1>2, SMT
    <2> QED  BY <1>2, <1>3, <1>4, <2>1, <2>2, SMT
  <1> QED  BY <1>5 DEF m

\* Slot i of a chunk written from p on.
At(p, i) == (p + i) % AttnCtx

\* Where the i-th slot from p is.
LEMMA AtIs ==
    ASSUME AttnCtx \in Nat \ {0}, NEW p \in 0 .. AttnCtx - 1,
           NEW i \in 0 .. AttnCtx
    PROVE  /\ At(p, i) \in 0 .. AttnCtx - 1
           /\ At(p, i) = IF p + i < AttnCtx THEN p + i ELSE p + i - AttnCtx
  <1> DEFINE x == p + i
  <1>1. At(p, i) = x % AttnCtx
    BY DEF At
  <1>2. x \in Nat /\ x < 2 * AttnCtx
    BY SMT
  <1>3. x = p + i
    OBVIOUS
  <1> HIDE DEF x
  <1>4. x % AttnCtx = IF x < AttnCtx THEN x ELSE x - AttnCtx
    BY <1>2, ModLess
  <1> QED  BY <1>1, <1>3, <1>4, SMT

\* The slots of one chunk are all different.
LEMMA AtInjective ==
    ASSUME AttnCtx \in Nat \ {0}, NEW p \in 0 .. AttnCtx - 1,
           NEW i \in 0 .. AttnCtx - 1, NEW j \in 0 .. AttnCtx - 1,
           At(p, i) = At(p, j)
    PROVE  i = j
  <1>1. i \in 0 .. AttnCtx /\ j \in 0 .. AttnCtx
    BY SMT
  <1>2. /\ At(p, i) = IF p + i < AttnCtx THEN p + i ELSE p + i - AttnCtx
        /\ At(p, j) = IF p + j < AttnCtx THEN p + j ELSE p + j - AttnCtx
        /\ At(p, i) \in 0 .. AttnCtx - 1
    BY <1>1, AtIs, Zenon
  <1>3. \/ At(p, i) = p + i /\ p + i < AttnCtx
        \/ At(p, i) = p + i - AttnCtx
    BY <1>2, SMT
  <1>4. \/ At(p, j) = p + j /\ p + j < AttnCtx
        \/ At(p, j) = p + j - AttnCtx
    BY <1>2, Zenon
  <1> QED  BY <1>2, <1>3, <1>4, SMT

\* The row that Row(i) reads when the next slot is p.
RowAt(p, i) == (p + AttnCtx - 1 - i) % AttnCtx

\* Where the i-th newest row is.
LEMMA RowAtIs ==
    ASSUME AttnCtx \in Nat \ {0}, NEW p \in 0 .. AttnCtx - 1,
           NEW i \in 0 .. AttnCtx - 1
    PROVE  /\ RowAt(p, i) \in 0 .. AttnCtx - 1
           /\ RowAt(p, i) = IF i < p THEN p - 1 - i ELSE p + AttnCtx - 1 - i
  <1> DEFINE x == p + AttnCtx - 1 - i
  <1>1. RowAt(p, i) = x % AttnCtx
    BY DEF RowAt
  <1>2. x \in Nat /\ x < 2 * AttnCtx
    BY SMT
  <1>3. x = p + AttnCtx - 1 - i
    OBVIOUS
  <1> HIDE DEF x
  <1>4. x % AttnCtx = IF x < AttnCtx THEN x ELSE x - AttnCtx
    BY <1>2, ModLess
  <1> QED  BY <1>1, <1>3, <1>4, SMT

\* After count rows were written, the k-th newest is one of them ...
LEMMA RowNew ==
    ASSUME AttnCtx \in Nat \ {0}, NEW p \in 0 .. AttnCtx - 1,
           NEW count \in 1 .. AttnCtx, NEW k \in 0 .. count - 1,
           NEW i, i = count - 1 - k
    PROVE  RowAt(At(p, count), k) = At(p, i)
  <1>1. count \in 0 .. AttnCtx /\ i \in 0 .. AttnCtx /\ k \in 0 .. AttnCtx - 1
    BY SMT
  <1>2. /\ At(p, count) \in 0 .. AttnCtx - 1
        /\ At(p, count) = IF p + count < AttnCtx THEN p + count ELSE p + count - AttnCtx
        /\ At(p, i) = IF p + i < AttnCtx THEN p + i ELSE p + i - AttnCtx
    BY <1>1, AtIs, Zenon
  <1>3. RowAt(At(p, count), k) = IF k < At(p, count) THEN At(p, count) - 1 - k
                                 ELSE At(p, count) + AttnCtx - 1 - k
    BY <1>1, <1>2, RowAtIs, Zenon
  <1> QED  BY <1>1, <1>2, <1>3, SMT

\* ... or, from the count-th on, an older row, none of them written over.
LEMMA RowOld ==
    ASSUME AttnCtx \in Nat \ {0}, NEW p \in 0 .. AttnCtx - 1,
           NEW count \in 1 .. AttnCtx, NEW k \in count .. AttnCtx - 1,
           NEW j, j = k - count
    PROVE  /\ RowAt(At(p, count), k) = RowAt(p, j)
           /\ \A i \in 0 .. count - 1 : At(p, i) # RowAt(At(p, count), k)
  <1>1. count \in 0 .. AttnCtx /\ j \in 0 .. AttnCtx - 1 /\ k \in 0 .. AttnCtx - 1
    BY SMT
  <1>2. /\ At(p, count) \in 0 .. AttnCtx - 1
        /\ At(p, count) = IF p + count < AttnCtx THEN p + count ELSE p + count - AttnCtx
    BY <1>1, AtIs, Zenon
  <1>3. RowAt(At(p, count), k) = IF k < At(p, count) THEN At(p, count) - 1 - k
                                 ELSE At(p, count) + AttnCtx - 1 - k
    BY <1>1, <1>2, RowAtIs, Zenon
  <1>4. RowAt(p, j) = IF j < p THEN p - 1 - j ELSE p + AttnCtx - 1 - j
    BY <1>1, RowAtIs, Zenon
  <1>5. RowAt(At(p, count), k) = RowAt(p, j)
    BY <1>1, <1>2, <1>3, <1>4, SMT
  <1>6. ASSUME NEW i \in 0 .. count - 1
        PROVE  At(p, i) # RowAt(At(p, count), k)
    <2>1. i \in 0 .. AttnCtx
      BY SMT
    <2>2. At(p, i) = IF p + i < AttnCtx THEN p + i ELSE p + i - AttnCtx
      BY <2>1, AtIs, Zenon
    <2> QED  BY <1>1, <1>2, <1>3, <2>2, SMT
  <1> QED  BY <1>5, <1>6, Zenon

\* Window(i) of a ring with fill rows whose next slot is p.
Seeing(p, fill, i) ==
    {(At(p, i) + AttnCtx - j) % AttnCtx : j \in 0 .. Least(fill + i + 1, AttnCtx) - 1}

\* The ring `rows` becomes `new` when the rows of toks are written from slot p on.
Written(rows, p, fill, new, toks, first, by) ==
    /\ \A i \in 0 .. Len(toks) - 1 :
          /\ new[At(p, i)].pos = first + i
          /\ new[At(p, i)].tok = toks[i + 1]
          /\ new[At(p, i)].by = by
          /\ new[At(p, i)].seen = {new[r].pos : r \in Seeing(p, fill, i)}
    /\ \A r \in 0 .. AttnCtx - 1 :
          (\A i \in 0 .. Len(toks) - 1 : At(p, i) # r) => new[r] = rows[r]

\* What WithRows writes: the chunk's rows in their slots, with what they read
\* once all are written, and nothing else.
LEMMA WithRowsIs ==
    ASSUME AttnCtx \in Nat \ {0}, ctxPos \in 0 .. AttnCtx - 1, ctxFill \in 0 .. AttnCtx,
           kv \in [0 .. AttnCtx - 1 -> Rows],
           NEW toks \in Seq(Tokens), Len(toks) \in 1 .. AttnCtx,
           NEW first \in Nat, NEW by \in {"prefill", "decode"},
           NEW new, new = WithRows(toks, first, by)
    PROVE  /\ new \in [0 .. AttnCtx - 1 -> Rows]
           /\ Written(kv, ctxPos, ctxFill, new, toks, first, by)
  <1> DEFINE count == Len(toks)
             Of(r) == CHOOSE i \in 0 .. count - 1 : Slot(i) = r
             Hit(r) == \E i \in 0 .. count - 1 : Slot(i) = r
             Made(i) == [tok |-> toks[i + 1], pos |-> first + i, seen |-> {}, by |-> by]
             written == [r \in 0 .. AttnCtx - 1 |->
                            IF Hit(r) THEN Made(Of(r)) ELSE kv[r]]
             Seen(i) == {written[r].pos : r \in Window(i)}
  <1>0. \A i : Slot(i) = At(ctxPos, i)
    BY DEF Slot, At
  <1>1. new = [r \in 0 .. AttnCtx - 1 |->
                  IF Hit(r) THEN [written[r] EXCEPT !.seen = Seen(written[r].pos - first)]
                            ELSE kv[r]]
    BY Zenon DEF WithRows
  <1>2. count \in Nat /\ 0 .. count - 1 \subseteq 0 .. AttnCtx - 1
    BY SMT
  <1>3. ASSUME NEW r \in 0 .. AttnCtx - 1, Hit(r)
        PROVE  Of(r) \in 0 .. count - 1 /\ Slot(Of(r)) = r
    BY <1>3, Zenon
  <1>4. ASSUME NEW i \in 0 .. count - 1
        PROVE  Slot(i) \in 0 .. AttnCtx - 1 /\ Hit(Slot(i)) /\ Of(Slot(i)) = i
    <2>1. Slot(i) \in 0 .. AttnCtx - 1
      <3>1. i \in 0 .. AttnCtx
        BY <1>2, SMT
      <3>2. At(ctxPos, i) \in 0 .. AttnCtx - 1
        BY <3>1, AtIs, Zenon
      <3> QED  BY <3>2, <1>0, Zenon
    <2>2. Hit(Slot(i))
      BY Zenon
    <2>3. Of(Slot(i)) \in 0 .. count - 1 /\ Slot(Of(Slot(i))) = Slot(i)
      BY <2>1, <2>2, <1>3, Zenon
    <2> HIDE DEF Of
    <2>4. Of(Slot(i)) = i
      BY <2>3, <1>2, <1>0, AtInjective, Zenon
    <2> QED  BY <2>1, <2>2, <2>4
  <1>5. ASSUME NEW i \in 0 .. count - 1
        PROVE  /\ Made(i) = [tok |-> toks[i + 1], pos |-> first + i, seen |-> {}, by |-> by]
               /\ Made(i) \in Rows /\ Made(i).pos - first = i
               /\ \A s : [Made(i) EXCEPT !.seen = s]
                            = [tok |-> toks[i + 1], pos |-> first + i, seen |-> s, by |-> by]
    <2>1. toks[i + 1] \in Tokens
      BY <1>2, ElementOfSeq, SMT
    <2>2. first + i \in Nat /\ (first + i) - first = i
      BY <1>2, SMT
    <2>3. by \in {"none", "prefill", "decode"}
      OBVIOUS
    <2>4. {} \in SUBSET Nat
      OBVIOUS
    <2>5. Made(i) \in Rows
      BY <2>1, <2>2, <2>3, <2>4, Zenon DEF Rows
    <2>6. Made(i).pos - first = i
      BY <2>2, SMT
    <2>7. ASSUME NEW s
          PROVE  [Made(i) EXCEPT !.seen = s]
                    = [tok |-> toks[i + 1], pos |-> first + i, seen |-> s, by |-> by]
      BY SMT
    <2> QED  BY <2>5, <2>6, <2>7
  <1> HIDE DEF Of, Hit, Made
  <1>6. written \in [0 .. AttnCtx - 1 -> Rows]
    <2>1. ASSUME NEW r \in 0 .. AttnCtx - 1
          PROVE  (IF Hit(r) THEN Made(Of(r)) ELSE kv[r]) \in Rows
      BY <1>3, <1>5, Zenon
    <2> QED  BY <2>1, Zenon
  <1>7. ASSUME NEW i \in 0 .. count - 1
        PROVE  Window(i) \subseteq 0 .. AttnCtx - 1
    <2>1. Valid(i) \in 0 .. AttnCtx
      BY <1>2, SMT DEF Valid, Least
    <2>2. Slot(i) \in 0 .. AttnCtx - 1
      BY <1>4
    <2>3. ASSUME NEW j \in 0 .. Valid(i) - 1
          PROVE  (Slot(i) + AttnCtx - j) % AttnCtx \in 0 .. AttnCtx - 1
      <3>1. Slot(i) + AttnCtx - j \in Nat
        BY <2>1, <2>2, SMT
      <3> QED  BY <3>1, SMT
    <2> QED  BY <2>3, Zenon DEF Window
  <1>8. ASSUME NEW i \in 0 .. count - 1
        PROVE  Seen(i) \subseteq Nat
    <2>1. \A r \in Window(i) : written[r] \in Rows
      BY <1>6, <1>7, Zenon
    <2> HIDE DEF written
    <2>2. \A r \in Window(i) : written[r].pos \in Nat
      BY <2>1, SMT DEF Rows
    <2> QED  BY <2>2, Zenon
  <1> DEFINE Row3(i) == [tok |-> toks[i + 1], pos |-> first + i, seen |-> Seen(i), by |-> by]
  <1>9. ASSUME NEW r \in 0 .. AttnCtx - 1, Hit(r)
        PROVE  /\ new[r] = Row3(Of(r))
               /\ new[r] \in Rows
    <2>1. Of(r) \in 0 .. count - 1 /\ written[r] = Made(Of(r))
      BY <1>3, <1>9, Zenon
    <2>2. new[r] = [written[r] EXCEPT !.seen = Seen(written[r].pos - first)]
      BY <1>1, <1>9, Zenon
    <2> HIDE DEF written
    <2>3. new[r] = [Made(Of(r)) EXCEPT !.seen = Seen(Of(r))]
      BY <2>1, <2>2, <1>5, Zenon
    <2>4. new[r] = Row3(Of(r))
      BY <2>1, <2>3, <1>5, Zenon
    <2>5. Seen(Of(r)) \in SUBSET Nat
      BY <2>1, <1>8, Zenon
    <2>6. toks[Of(r) + 1] \in Tokens /\ first + Of(r) \in Nat
      <3>1. Made(Of(r)) \in Rows
        BY <2>1, <1>5, Zenon
      <3>2. Made(Of(r)).tok \in Tokens /\ Made(Of(r)).pos \in Nat
        BY <3>1, SMT DEF Rows
      <3>3. Made(Of(r)) = [tok |-> toks[Of(r) + 1], pos |-> first + Of(r), seen |-> {}, by |-> by]
        BY <2>1, <1>5, Zenon
      <3> QED  BY <3>2, <3>3, SMT
    <2> HIDE DEF Seen
    <2>7. new[r] \in Rows
      BY <2>4, <2>5, <2>6, SMT DEF Rows
    <2> QED  BY <2>4, <2>7
  <1>10. ASSUME NEW r \in 0 .. AttnCtx - 1, ~Hit(r)
         PROVE  new[r] = kv[r]
    BY <1>1, <1>10, Zenon
  <1>11. new \in [0 .. AttnCtx - 1 -> Rows]
    <2>1. new = [r \in 0 .. AttnCtx - 1 |-> new[r]]
      BY <1>1, Zenon
    <2>2. \A r \in 0 .. AttnCtx - 1 : new[r] \in Rows
      BY <1>9, <1>10, Zenon
    <2> QED  BY <2>1, <2>2, Zenon
  <1>12. ASSUME NEW i \in 0 .. count - 1
         PROVE  /\ new[Slot(i)].pos = first + i /\ new[Slot(i)].tok = toks[i + 1]
                /\ new[Slot(i)].by = by /\ new[Slot(i)].seen = Seen(i)
    <2>1. new[Slot(i)] = Row3(i)
      BY <1>4, <1>9, Zenon
    <2> HIDE DEF Seen
    <2> QED  BY <2>1, SMT
  <1>13. ASSUME NEW r \in 0 .. AttnCtx - 1, \A i \in 0 .. count - 1 : Slot(i) # r
         PROVE  new[r] = kv[r]
    BY <1>10, <1>13, Zenon DEF Hit
  <1>14. ASSUME NEW r \in 0 .. AttnCtx - 1
         PROVE  new[r].pos = written[r].pos
    <2>1. CASE Hit(r)
      <3>1. /\ Of(r) \in 0 .. count - 1 /\ new[r] = Row3(Of(r))
            /\ written[r] = Made(Of(r))
        BY <1>3, <1>9, <2>1, Zenon
      <3>2. Made(Of(r)).pos = first + Of(r)
        <4>1. Made(Of(r)) = [tok |-> toks[Of(r) + 1], pos |-> first + Of(r), seen |-> {}, by |-> by]
          BY <3>1, <1>5, Zenon
        <4> QED  BY <4>1, SMT
      <3> HIDE DEF written, Seen
      <3>3. new[r].pos = first + Of(r)
        BY <3>1, SMT
      <3> QED  BY <3>1, <3>2, <3>3, Zenon
    <2>2. CASE ~Hit(r)
      BY <1>10, <2>2, Zenon
    <2> QED  BY <2>1, <2>2
  <1>15. ASSUME NEW i \in 0 .. count - 1
         PROVE  new[Slot(i)].seen = {new[r].pos : r \in Seeing(ctxPos, ctxFill, i)}
    <2>1. Seen(i) = {new[r].pos : r \in Window(i)}
      <3>1. \A r \in Window(i) : new[r].pos = written[r].pos
        BY <1>7, <1>14, Zenon
      <3> HIDE DEF written
      <3> QED  BY <3>1, SMT
    <2>2. Window(i) = Seeing(ctxPos, ctxFill, i)
      BY <1>0, Zenon DEF Window, Seeing, Valid
    <2> QED  BY <1>12, <2>1, <2>2, Zenon
  <1>16. \A i \in 0 .. count - 1 :
            new[At(ctxPos, i)].seen = {new[r].pos : r \in Seeing(ctxPos, ctxFill, i)}
    BY <1>0, <1>15, Zenon
  <1>17. \A i \in 0 .. count - 1 : /\ new[At(ctxPos, i)].pos = first + i
                                   /\ new[At(ctxPos, i)].tok = toks[i + 1]
                                   /\ new[At(ctxPos, i)].by = by
    BY <1>0, <1>12, Zenon
  <1>18. \A r \in 0 .. AttnCtx - 1 :
            (\A i \in 0 .. count - 1 : At(ctxPos, i) # r) => new[r] = kv[r]
    BY <1>0, <1>13, Zenon
  <1> QED  BY <1>11, <1>16, <1>17, <1>18, Zenon DEF Written

\* The ring holds the last of the first `done` tokens of a conversation.
Holds(rows, p, fill, tokens, done) ==
    /\ fill = Least(done, AttnCtx)
    /\ \A k \in 0 .. fill - 1 :
          /\ rows[RowAt(p, k)].pos = done - 1 - k
          /\ done - 1 - k < Len(tokens) => rows[RowAt(p, k)].tok = tokens[done - k]

\* A chunk of the conversation's next tokens leaves the ring holding the
\* conversation.
LEMMA RingAdvances ==
    ASSUME AttnCtx \in Nat \ {0},
           NEW p \in 0 .. AttnCtx - 1, NEW fill \in 0 .. AttnCtx, NEW rows,
           NEW toks \in Seq(Tokens), NEW count \in 1 .. AttnCtx, count = Len(toks),
           NEW done \in Nat, NEW by,
           NEW old \in Seq(Tokens), NEW new \in Seq(Tokens),
           Holds(rows, p, fill, old, done),
           \A q \in 1 .. done : q <= Len(new) => q <= Len(old) /\ new[q] = old[q],
           \A i \in 1 .. count : done + i <= Len(new) => new[done + i] = toks[i],
           NEW ring1, Written(rows, p, fill, ring1, toks, done, by),
           NEW pos1, pos1 = At(p, count),
           NEW fill1, fill1 = Least(fill + count, AttnCtx),
           NEW done1, done1 = done + count
    PROVE  Holds(ring1, pos1, fill1, new, done1)
  <1>1. count \in 1 .. AttnCtx /\ pos1 = At(p, count) /\ done1 = done + count
    OBVIOUS
  <1>2. /\ \A i \in 0 .. count - 1 : ring1[At(p, i)].pos = done + i /\ ring1[At(p, i)].tok = toks[i + 1]
        /\ \A r \in 0 .. AttnCtx - 1 :
              (\A i \in 0 .. count - 1 : At(p, i) # r) => ring1[r] = rows[r]
    BY Zenon DEF Written
  <1>3. /\ fill = Least(done, AttnCtx)
        /\ \A k \in 0 .. fill - 1 :
              /\ rows[RowAt(p, k)].pos = done - 1 - k
              /\ done - 1 - k < Len(old) => rows[RowAt(p, k)].tok = old[done - k]
    BY Zenon DEF Holds
  <1>4. Len(new) \in Nat /\ Len(old) \in Nat
    BY LenProperties
  <1>5. fill1 = Least(done1, AttnCtx) /\ fill1 \in 0 .. AttnCtx
    BY <1>1, <1>3, SMT DEF Least
  <1>6. ASSUME NEW k \in 0 .. fill1 - 1
        PROVE  /\ ring1[RowAt(pos1, k)].pos = done1 - 1 - k
               /\ done1 - 1 - k < Len(new)
                     => ring1[RowAt(pos1, k)].tok = new[done1 - k]
    <2>1. k \in 0 .. AttnCtx - 1
      BY <1>5, SMT
    <2>2. pos1 \in 0 .. AttnCtx - 1
      <3>1. count \in 0 .. AttnCtx
        BY SMT
      <3> QED  BY <3>1, AtIs, Zenon
    <2>3. CASE k < count
      <3> DEFINE i == count - 1 - k
      <3>1. /\ i \in 0 .. count - 1 /\ i + 1 \in 1 .. count /\ k \in 0 .. count - 1
            /\ i = count - 1 - k
            /\ done + i = done1 - 1 - k
            /\ done + (i + 1) = done1 - k
        BY <1>1, <2>1, <2>3, SMT
      <3> HIDE DEF i
      <3>2. RowAt(pos1, k) = At(p, i)
        BY <3>1, RowNew, Zenon
      <3>3. /\ ring1[RowAt(pos1, k)].pos = done1 - 1 - k
            /\ ring1[RowAt(pos1, k)].tok = toks[i + 1]
        BY <1>2, <3>1, <3>2, Zenon
      <3>4. ASSUME done1 - 1 - k < Len(new)
            PROVE  new[done1 - k] = toks[i + 1]
        <4>1. done + (i + 1) <= Len(new)
          <5>1. done1 - k \in Int /\ done1 - k <= Len(new)
            BY <1>1, <1>4, <2>1, <3>4, SMT
          <5> QED  BY <5>1, <3>1, Zenon
        <4> QED  BY <3>1, <4>1, Zenon
      <3> QED  BY <3>3, <3>4, Zenon
    <2>4. CASE k >= count
      <3> DEFINE j == k - count
      <3>1. /\ j \in 0 .. fill - 1 /\ j = k - count /\ k \in count .. AttnCtx - 1
            /\ done - 1 - j = done1 - 1 - k
            /\ done - j = done1 - k
        BY <1>1, <1>3, <1>5, <2>1, <2>4, SMT DEF Least
      <3> HIDE DEF j
      <3>2. /\ RowAt(pos1, k) = RowAt(p, j)
            /\ \A i \in 0 .. count - 1 : At(p, i) # RowAt(pos1, k)
        <4>1. pos1 = At(p, count)
          OBVIOUS
        <4>2. RowAt(At(p, count), k) = RowAt(p, j)
          BY <3>1, RowOld, SMT
        <4>3. \A i \in 0 .. count - 1 : At(p, i) # RowAt(At(p, count), k)
          BY <3>1, RowOld, SMT
        <4> QED  BY <4>1, <4>2, <4>3, SMT
      <3>3. RowAt(pos1, k) \in 0 .. AttnCtx - 1
        BY <2>1, <2>2, RowAtIs, Zenon
      <3>4. ring1[RowAt(pos1, k)] = rows[RowAt(p, j)]
        BY <1>2, <3>2, <3>3, Zenon
      <3>5. /\ rows[RowAt(p, j)].pos = done1 - 1 - k
            /\ done1 - 1 - k < Len(old)
                  => rows[RowAt(p, j)].tok = old[done1 - k]
        BY <1>3, <3>1, Zenon
      <3>6. ASSUME done1 - 1 - k < Len(new)
            PROVE  /\ done1 - 1 - k < Len(old)
                   /\ new[done1 - k] = old[done1 - k]
        <4>1. done1 - k \in 1 .. done /\ done1 - k <= Len(new)
          <5>1. j \in 0 .. done - 1
            BY <1>3, <3>1, SMT DEF Least
          <5>2. done1 - k \in 1 .. done
            <6>1. done - j \in 1 .. done
              BY <5>1, SMT
            <6> QED  BY <3>1, <6>1, Zenon
          <5> QED  BY <1>1, <1>4, <2>1, <3>6, <5>2, SMT
        <4>2. done1 - k <= Len(old) /\ new[done1 - k] = old[done1 - k]
          BY <4>1, Zenon
        <4> QED  BY <1>1, <1>4, <2>1, <4>2, SMT
      <3> QED  BY <3>4, <3>5, <3>6, Zenon
    <2> QED  BY <1>1, <2>1, <2>3, <2>4, SMT
  <1> QED  BY <1>5, <1>6, Zenon DEF Holds

----------------------------------------------------------------------------
(* What the new rows attended to *)

\* The rows that token i of the chunk reads, as the ring is after its own row.
LEMMA SeeingIs ==
    ASSUME AttnCtx \in Nat \ {0}, NEW p \in 0 .. AttnCtx - 1,
           NEW fill \in 0 .. AttnCtx, NEW i \in 0 .. AttnCtx - 1
    PROVE  Seeing(p, fill, i)
              = {RowAt(At(p, i + 1), j) : j \in 0 .. Least(fill + i + 1, AttnCtx) - 1}
  <1>1. i \in 0 .. AttnCtx /\ i + 1 \in 0 .. AttnCtx
    BY SMT
  <1>2. /\ At(p, i) \in 0 .. AttnCtx - 1
        /\ At(p, i) = IF p + i < AttnCtx THEN p + i ELSE p + i - AttnCtx
        /\ At(p, i + 1) \in 0 .. AttnCtx - 1
        /\ At(p, i + 1) = IF p + (i + 1) < AttnCtx THEN p + (i + 1) ELSE p + (i + 1) - AttnCtx
    BY <1>1, AtIs, Zenon
  <1>3. ASSUME NEW j \in 0 .. AttnCtx - 1
        PROVE  (At(p, i) + AttnCtx - j) % AttnCtx = RowAt(At(p, i + 1), j)
    <2> DEFINE x == At(p, i) + AttnCtx - j
    <2>1. x \in Nat /\ x < 2 * AttnCtx /\ x = At(p, i) + AttnCtx - j
      BY <1>2, SMT
    <2> HIDE DEF x
    <2>2. x % AttnCtx = IF x < AttnCtx THEN x ELSE x - AttnCtx
      BY <2>1, ModLess, Zenon
    <2>3. RowAt(At(p, i + 1), j) = IF j < At(p, i + 1) THEN At(p, i + 1) - 1 - j
                                   ELSE At(p, i + 1) + AttnCtx - 1 - j
      BY <1>2, RowAtIs, Zenon
    <2>4. x % AttnCtx = RowAt(At(p, i + 1), j)
      BY <1>2, <2>1, <2>2, <2>3, SMT
    <2> QED  BY <2>4 DEF x
  <1>4. 0 .. Least(fill + i + 1, AttnCtx) - 1 \subseteq 0 .. AttnCtx - 1
    BY SMT DEF Least
  <1> QED  BY <1>3, <1>4, Zenon DEF Seeing

\* A row of the chunk and an older one are different while the ring has room for both.
LEMMA NoClash ==
    ASSUME AttnCtx \in Nat \ {0}, NEW p \in 0 .. AttnCtx - 1,
           NEW i \in 0 .. AttnCtx - 1, NEW m \in 0 .. AttnCtx - 1, i + m + 1 < AttnCtx
    PROVE  At(p, i) # RowAt(p, m)
  <1>1. i \in 0 .. AttnCtx
    BY SMT
  <1>2. At(p, i) = IF p + i < AttnCtx THEN p + i ELSE p + i - AttnCtx
    BY <1>1, AtIs, Zenon
  <1>3. RowAt(p, m) = IF m < p THEN p - 1 - m ELSE p + AttnCtx - 1 - m
    BY RowAtIs, Zenon
  <1> QED  BY <1>2, <1>3, SMT

\* A new row whose window the chunk has not written over attended to its past.
LEMMA NewCausal ==
    ASSUME AttnCtx \in Nat \ {0},
           NEW p \in 0 .. AttnCtx - 1, NEW fill \in 0 .. AttnCtx, NEW rows,
           NEW toks, NEW count \in 1 .. AttnCtx, count = Len(toks),
           NEW done \in Nat, NEW by, NEW old,
           Holds(rows, p, fill, old, done),
           NEW ring1, Written(rows, p, fill, ring1, toks, done, by),
           NEW i \in 0 .. count - 1,
           count + Least(fill + i + 1, AttnCtx) < AttnCtx + i + 2
    PROVE  Causal(ring1[At(p, i)])
  \* The j-th row back from token i is that of the position j before its own.
  <1>0. ASSUME NEW j \in 0 .. Least(fill + i + 1, AttnCtx) - 1, count + j < AttnCtx + i + 1
        PROVE  ring1[RowAt(At(p, i + 1), j)].pos = done + i - j
    <2>1. /\ j \in 0 .. AttnCtx - 1 /\ j <= fill + i /\ i + 1 \in 1 .. AttnCtx
          /\ i \in 0 .. AttnCtx - 1
      BY <1>0, SMT DEF Least
    <2>2. /\ \A k \in 0 .. count - 1 : ring1[At(p, k)].pos = done + k
          /\ \A r \in 0 .. AttnCtx - 1 :
                (\A k \in 0 .. count - 1 : At(p, k) # r) => ring1[r] = rows[r]
      BY Zenon DEF Written
    <2> DEFINE c == i + 1
    <2>c. c \in 1 .. AttnCtx /\ c = i + 1
      BY <2>1
    <2> HIDE DEF c
    <2>3. CASE j <= i
      <3> DEFINE k == i - j
      <3>1. k \in 0 .. count - 1 /\ k = c - 1 - j /\ j \in 0 .. c - 1
            /\ done + k = done + i - j
        BY <1>0, <2>1, <2>c, <2>3, SMT
      <3> HIDE DEF k
      <3>2. RowAt(At(p, c), j) = At(p, k)
        BY <2>c, <3>1, RowNew, SMT
      <3> QED  BY <2>2, <2>c, <3>1, <3>2, Zenon
    <2>4. CASE j > i
      <3> DEFINE m == j - c
      <3>1. /\ m \in 0 .. fill - 1 /\ m \in 0 .. AttnCtx - 1 /\ m = j - c
            /\ j \in c .. AttnCtx - 1
            /\ done - 1 - m = done + i - j /\ count + m < AttnCtx
        BY <1>0, <2>1, <2>c, <2>4, SMT
      <3> HIDE DEF m
      <3>2. RowAt(At(p, c), j) = RowAt(p, m)
        BY <2>c, <3>1, RowOld, SMT
      <3>3. ASSUME NEW k \in 0 .. count - 1
            PROVE  At(p, k) # RowAt(p, m)
        <4>1. k \in 0 .. AttnCtx - 1 /\ k + m + 1 < AttnCtx
          <5>1. count + m < AttnCtx /\ m \in 0 .. AttnCtx - 1
            BY <3>1, Zenon
          <5> QED  BY <5>1, SMT
        <4> QED  BY <3>1, <4>1, NoClash, Zenon
      <3>4. RowAt(p, m) \in 0 .. AttnCtx - 1
        BY <3>1, RowAtIs, Zenon
      <3>5. ring1[RowAt(p, m)] = rows[RowAt(p, m)]
        BY <2>2, <3>3, <3>4, Zenon
      <3>6. rows[RowAt(p, m)].pos = done - 1 - m
        BY <3>1, Zenon DEF Holds
      <3> QED  BY <2>c, <3>1, <3>2, <3>5, <3>6, Zenon
    <2> QED  BY <2>1, <2>3, <2>4, SMT
  <1> DEFINE valid == Least(fill + i + 1, AttnCtx)
  <1>1. /\ i \in 0 .. AttnCtx - 1 /\ fill = Least(done, AttnCtx)
        /\ ring1[At(p, i)].pos = done + i
        /\ ring1[At(p, i)].seen = {ring1[r].pos : r \in Seeing(p, fill, i)}
    <2>1. i \in 0 .. AttnCtx - 1
      BY SMT
    <2> QED  BY <2>1, Zenon DEF Holds, Written
  <1>2. valid \in 1 .. AttnCtx /\ valid = Least(done + i + 1, AttnCtx)
    BY <1>1, SMT DEF Least
  <1>3. ASSUME NEW j \in 0 .. valid - 1
        PROVE  ring1[RowAt(At(p, i + 1), j)].pos = done + i - j
    <2>1. count + j < AttnCtx + i + 1
      BY <1>2, SMT
    <2> QED  BY <2>1, <1>0, Zenon
  <1>4. Seeing(p, fill, i) = {RowAt(At(p, i + 1), j) : j \in 0 .. valid - 1}
    BY <1>1, SeeingIs, Zenon
  <1> HIDE DEF valid
  <1>5. ring1[At(p, i)].seen = {done + i - j : j \in 0 .. valid - 1}
    <2> DEFINE S == 0 .. valid - 1
               at(j) == RowAt(At(p, i + 1), j)
    <2> HIDE DEF S
    <2>1. \A j \in S : ring1[at(j)].pos = done + i - j
      BY <1>3, Zenon DEF S
    <2> HIDE DEF at
    <2>2. {ring1[r].pos : r \in {at(j) : j \in S}} = {ring1[at(j)].pos : j \in S}
      BY Zenon
    <2>3. {ring1[at(j)].pos : j \in S} = {done + i - j : j \in S}
      BY <2>1, Zenon
    <2>4. {ring1[r].pos : r \in {at(j) : j \in S}} = {done + i - j : j \in S}
      BY <2>2, <2>3, Zenon
    <2> QED  BY <1>1, <1>4, <2>4, Zenon DEF S, at
  <1>6. {done + i - j : j \in 0 .. valid - 1}
           = {q \in 0 .. done + i : done + i < q + AttnCtx}
    <2>1. ASSUME NEW j \in 0 .. valid - 1
          PROVE  done + i - j \in 0 .. done + i /\ done + i < (done + i - j) + AttnCtx
      BY <1>1, <1>2, SMT DEF Least
    <2>2. ASSUME NEW q \in 0 .. done + i, done + i < q + AttnCtx
          PROVE  \E j \in 0 .. valid - 1 : q = done + i - j
      <3>1. done + i - q \in 0 .. valid - 1 /\ q = done + i - (done + i - q)
        BY <1>1, <1>2, <2>2, SMT DEF Least
      <3> QED  BY <3>1, Zenon
    <2> QED  BY <2>1, <2>2, SMT
  <1> QED  BY <1>1, <1>5, <1>6, Zenon DEF Causal

\* Every row in use that should be causal is.
CausalRows(rows, p, fill) ==
    \A k \in 0 .. fill - 1 :
        \/ rows[RowAt(p, k)].by = "decode"
        \/ rows[RowAt(p, k)].pos + Chunk <= AttnCtx
        => Causal(rows[RowAt(p, k)])

\* A decode step, or a chunk that does not outgrow the ring, keeps the rows causal.
LEMMA CausalAdvances ==
    ASSUME AttnCtx \in Nat \ {0}, Chunk \in 1 .. AttnCtx,
           NEW p \in 0 .. AttnCtx - 1, NEW fill \in 0 .. AttnCtx, NEW rows,
           NEW toks, NEW count \in 1 .. AttnCtx, count = Len(toks),
           NEW done \in Nat, NEW by, NEW old,
           Holds(rows, p, fill, old, done),
           NEW ring1, Written(rows, p, fill, ring1, toks, done, by),
           IF by = "decode" THEN count = 1 ELSE count <= Chunk,
           CausalRows(rows, p, fill),
           NEW pos1, pos1 = At(p, count),
           NEW fill1, fill1 = Least(fill + count, AttnCtx)
    PROVE  CausalRows(ring1, pos1, fill1)
  <1> SUFFICES ASSUME NEW k \in 0 .. fill1 - 1,
                      \/ ring1[RowAt(pos1, k)].by = "decode"
                      \/ ring1[RowAt(pos1, k)].pos + Chunk <= AttnCtx
               PROVE  Causal(ring1[RowAt(pos1, k)])
    BY Zenon DEF CausalRows
  <1>1. /\ \A i \in 0 .. count - 1 : ring1[At(p, i)].pos = done + i /\ ring1[At(p, i)].by = by
        /\ \A r \in 0 .. AttnCtx - 1 :
              (\A i \in 0 .. count - 1 : At(p, i) # r) => ring1[r] = rows[r]
    BY Zenon DEF Written
  <1>2. fill = Least(done, AttnCtx)
    BY Zenon DEF Holds
  <1>3. k \in 0 .. AttnCtx - 1 /\ k - count < fill
    BY SMT DEF Least
  <1>4. CASE k < count
    <2> DEFINE i == count - 1 - k
    <2>1. i \in 0 .. count - 1 /\ i = count - 1 - k /\ k \in 0 .. count - 1
      BY <1>3, <1>4, SMT
    <2> HIDE DEF i
    <2>2. RowAt(pos1, k) = At(p, i)
      BY <2>1, RowNew, Zenon
    <2>3. \/ by = "decode"
          \/ done + i + Chunk <= AttnCtx
      BY <1>1, <2>1, <2>2, Zenon
    <2>4. count + Least(fill + i + 1, AttnCtx) < AttnCtx + i + 2
      <3>1. CASE by = "decode"
        <4>1. count = 1
          BY <3>1, Zenon
        <4> QED  BY <2>1, <4>1, SMT DEF Least
      <3>2. CASE by # "decode"
        <4>1. count <= Chunk /\ done + i + Chunk <= AttnCtx
          BY <2>3, <3>2, Zenon
        <4> QED  BY <1>2, <2>1, <4>1, SMT DEF Least
      <3> QED  BY <3>1, <3>2
    <2>5. Causal(ring1[At(p, i)])
      BY <2>1, <2>4, NewCausal, Zenon
    <2> QED  BY <2>2, <2>5, Zenon
  <1>5. CASE k >= count
    <2> DEFINE j == k - count
    <2>1. j \in 0 .. fill - 1 /\ j = k - count /\ k \in count .. AttnCtx - 1
      BY <1>3, <1>5, SMT
    <2> HIDE DEF j
    <2>2. /\ RowAt(At(p, count), k) = RowAt(p, j)
          /\ \A i \in 0 .. count - 1 : At(p, i) # RowAt(At(p, count), k)
      BY <2>1, RowOld, SMT
    <2>3. RowAt(p, j) \in 0 .. AttnCtx - 1
      <3>1. j \in 0 .. AttnCtx - 1
        BY <2>1, SMT
      <3> QED  BY <3>1, RowAtIs, Zenon
    <2>4. ring1[RowAt(p, j)] = rows[RowAt(p, j)] /\ RowAt(pos1, k) = RowAt(p, j)
      BY <1>1, <2>2, <2>3, Zenon
    <2> QED  BY <2>1, <2>4, Zenon DEF CausalRows
  <1> QED  BY <1>3, <1>4, <1>5, SMT
(* The invariant *)

Working == pc \in {"prefill", "step", "epilogue"}

\* The prompt tokens that prefill processes: all but the last.
Lead == IF prompt = <<>> THEN 0 ELSE Len(prompt) - 1

Processing == IF n < Len(prompt) THEN base + Len(prompt) ELSE base + n

\* How far a request has come, in tokens processed and printed.
ProgressInv ==
    /\ pc = "prefill" => n <= Lead /\ emitted = 0 /\ ~hitEos /\ prompt # <<>>
    /\ pc = "step" => n = Lead + emitted /\ emitted <= budget /\ ~hitEos
    /\ pc = "epilogue" => IF hitEos THEN emitted < budget /\ n = Lead + emitted + 1
                                    ELSE emitted = budget /\ n = Lead + emitted

\* The stream of a request: its tokens, then the generated ones already processed,
\* as far as there is room.
StreamInv ==
    Working =>
        /\ base + Len(prompt) <= StreamCap
        /\ Len(stream) = Least(Processing, StreamCap)
        /\ \A i \in 1 .. Len(prompt) : stream[base + i] = prompt[i]

\* What the client knows, against the stream.
SaidInv ==
    serve =>
        /\ Working => prompt # <<>> /\ budget > 0
        /\ Working => Len(said) = base + Len(prompt) + emitted
        /\ pc = "step" /\ n >= Len(prompt) => nextTok = said[base + n + 1]
        /\ pc # "exited" => Len(stream) <= Len(said)
                           /\ \A i \in 1 .. Len(stream) : stream[i] = said[i]
        /\ pc = "read" => Saturated \/ Len(said) <= Len(stream) + 1

\* The command line's request finds the ring as the boot left it.
BootInv == ~serve /\ ~oneShotDone => pc = "read" /\ ctxPos = 0 /\ ctxFill = 0

\* The ring holds the stream, outside the time when the stream cannot say so.
KvInv ==
    pc # "exited" /\ (pc = "read" => serve /\ ~Saturated)
        => Holds(kv, ctxPos, ctxFill, stream, Processed)

\* What the rows in use attended to.
CausalInv == CausalRows(kv, ctxPos, ctxFill)

IInv == TypeOK /\ ProgressInv /\ StreamInv /\ SaidInv /\ BootInv /\ KvInv
        /\ CausalInv

----------------------------------------------------------------------------
(* Sequences *)

\* The sequences a request is drawn from.
LEMMA SeqUpToIs ==
    ASSUME NEW k \in Nat, NEW s \in SeqUpTo(k)
    PROVE  s \in Seq(Tokens) /\ Len(s) \in 0 .. k
  <1>1. PICK m \in 0 .. k : s \in [1 .. m -> Tokens]
    BY Zenon DEF SeqUpTo
  <1>2. m \in Nat
    BY SMT
  <1>3. s \in Seq(Tokens)
    BY <1>1, <1>2, SeqDef, Zenon
  <1>4. Len(s) = m
    BY <1>1, <1>2, <1>3, SMT
  <1> QED  BY <1>1, <1>3, <1>4, Zenon

\* A ring that holds a stream holds every stream that agrees on what was processed.
LEMMA HoldsAgree ==
    ASSUME NEW rows, NEW p, NEW fill, NEW done \in Nat, SizeAssumption,
           NEW old \in Seq(Tokens), NEW new \in Seq(Tokens),
           Holds(rows, p, fill, old, done),
           \A q \in 1 .. done : q <= Len(new) => q <= Len(old) /\ new[q] = old[q]
    PROVE  Holds(rows, p, fill, new, done)
  <1>1. /\ fill = Least(done, AttnCtx)
        /\ \A k \in 0 .. fill - 1 :
              /\ rows[RowAt(p, k)].pos = done - 1 - k
              /\ done - 1 - k < Len(old) => rows[RowAt(p, k)].tok = old[done - k]
    BY Zenon DEF Holds
  <1>2. Len(new) \in Nat /\ Len(old) \in Nat
    BY LenProperties
  <1>3. ASSUME NEW k \in 0 .. fill - 1, done - 1 - k < Len(new)
        PROVE  rows[RowAt(p, k)].tok = new[done - k]
    <2>1. k \in 0 .. done - 1
      BY <1>1, <1>3, SMT DEF Least, SizeAssumption
    <2>2. done - k \in 1 .. done /\ done - k <= Len(new)
      BY <1>2, <1>3, <2>1, SMT
    <2>3. done - k <= Len(old) /\ new[done - k] = old[done - k]
      BY <2>2, Zenon
    <2>4. done - 1 - k < Len(old)
      BY <1>2, <2>1, <2>3, SMT
    <2> QED  BY <1>1, <1>3, <2>3, <2>4, Zenon
  <1> QED  BY <1>1, <1>3, Zenon DEF Holds

\* An empty ring holds any stream of which nothing was processed.
LEMMA HoldsNone ==
    ASSUME SizeAssumption, NEW rows, NEW p, NEW tokens
    PROVE  Holds(rows, p, 0, tokens, 0)
  <1>1. 0 = Least(0, AttnCtx)
    BY SMT DEF Least, SizeAssumption
  <1>2. \A k \in 0 .. 0 - 1 : FALSE
    BY SMT
  <1> QED  BY <1>1, <1>2, Zenon DEF Holds

\* An empty ring has no row that is not causal.
LEMMA CausalNone ==
    ASSUME NEW rows, NEW p
    PROVE  CausalRows(rows, p, 0)
  <1>1. \A k \in 0 .. 0 - 1 : FALSE
    BY SMT
  <1> QED  BY <1>1, Zenon DEF CausalRows

----------------------------------------------------------------------------
(* Requests *)

\* A request that starts where the ring ends.
LEMMA StartKeeps ==
    ASSUME SizeAssumption, TokenAssumption, IInv,
           NEW full \in Seq(Tokens), NEW from \in Nat, NEW max \in 0 .. MaxBudget,
           from <= Len(full), Len(full) - from <= SuffixCap, Len(full) <= StreamCap,
           Start(full, from, max),
           serve' = serve, oneShotDone' \in BOOLEAN, serve \/ oneShotDone',
           serve => from < Len(full) /\ max > 0,
           kv' = kv, ctxPos' \in 0 .. AttnCtx - 1, ctxFill' \in 0 .. AttnCtx,
           Holds(kv', ctxPos', ctxFill', full, from),
           CausalRows(kv', ctxPos', ctxFill')
    PROVE  IInv'
  <1> DEFINE suffix == SubSeq(full, from + 1, Len(full))
  <1>1. /\ prompt' = suffix /\ stream' = full /\ base' = from /\ n' = 0
        /\ budget' = max /\ nextTok' = FirstToken /\ hitEos' = FALSE
        /\ emitted' = 0 /\ said' = full
        /\ pc' = IF Len(full) - from > 1 THEN "prefill" ELSE "step"
    BY Zenon DEF Start
  <1>2. Len(full) \in Nat
    BY LenProperties
  <1>3. /\ suffix \in Seq(Tokens)
        /\ Len(suffix) = Len(full) - from
        /\ \A i \in 1 .. Len(full) - from : suffix[i] = full[from + i]
    <2>1. \A i \in from + 1 .. Len(full) : full[i] \in Tokens
      BY <1>2, ElementOfSeq, SMT
    <2>2. suffix \in Seq(Tokens)
      BY <1>2, <2>1, SubSeqProperties, SMT
    <2>3. Len(suffix) = Len(full) - from
      BY <1>2, SMT
    <2>4. ASSUME NEW i \in 1 .. Len(full) - from
          PROVE  suffix[i] = full[from + i]
      BY <1>2, <2>4, SMT
    <2> QED  BY <2>2, <2>3, <2>4
  <1> HIDE DEF suffix
  <1>4. suffix = <<>> => Len(suffix) = 0
    BY EmptySeq, Zenon
  <1>5. Len(suffix) = 0 => suffix = <<>>
    BY <1>3, EmptySeq, Zenon
  <1>6. /\ StreamCap \in Nat /\ SuffixCap \in Nat /\ MaxBudget \in Nat
        /\ AttnCtx \in Nat \ {0}
    BY SMT DEF SizeAssumption
  <1>t. TypeOK'
    <2>1. pc' \in {"prefill", "step"}
      BY <1>1, Zenon
    <2>2. 0 \in 0 .. MaxBudget /\ 0 \in Nat
      BY <1>6, SMT
    <2>3. serve \in BOOLEAN /\ kv \in [0 .. AttnCtx - 1 -> Rows]
      BY Zenon DEF IInv, TypeOK
    <2>4. Len(suffix) <= SuffixCap
      BY <1>3
    <2>5. FirstToken \in Tokens
      BY DEF TokenAssumption
    <2> QED  BY <1>1, <1>3, <2>1, <2>2, <2>3, <2>4, <2>5, Zenon DEF TypeOK
  <1>p. ProgressInv'
    <2>1. pc' = "prefill" => suffix # <<>>
      BY <1>1, <1>2, <1>3, <1>4, SMT
    <2>2. pc' = "step" => Lead' = 0
      BY <1>1, <1>2, <1>3, <1>4, SMT DEF Lead
    <2>3. pc' = "prefill" => 0 <= Lead'
      BY <1>1, <1>2, <1>3, <1>4, SMT DEF Lead
    <2>4. pc' # "epilogue"
      BY <1>1, Zenon
    <2>5. 0 <= max /\ 0 = 0 + 0
      BY SMT
    <2> QED  BY <1>1, <2>1, <2>2, <2>3, <2>4, <2>5, SMT DEF ProgressInv
  <1>s. StreamInv'
    <2>1. from + Len(suffix) = Len(full)
      BY <1>2, <1>3, SMT
    <2>2. Processing' = Len(full)
      BY <1>1, <1>2, <1>3, SMT DEF Processing
    <2>3. Len(full) = Least(Len(full), StreamCap)
      BY <1>2, <1>6, SMT DEF Least
    <2>4. \A i \in 1 .. Len(suffix) : full[from + i] = suffix[i]
      BY <1>3, Zenon
    <2> QED  BY <1>1, <2>1, <2>2, <2>3, <2>4, SMT DEF StreamInv
  <1>c. SaidInv'
    <2>1. ASSUME serve'
          PROVE  /\ prompt' # <<>> /\ budget' > 0
                 /\ Len(said') = base' + Len(prompt') + emitted'
                 /\ ~ (n' >= Len(prompt'))
      BY <1>1, <1>2, <1>3, <1>4, <2>1, SMT
    <2>2. pc' # "read"
      BY <1>1, Zenon
    <2>3. Len(full) <= Len(full)
      BY <1>2, SMT
    <2> QED  BY <1>1, <2>1, <2>2, <2>3, Zenon DEF SaidInv
  <1>b. BootInv'
    BY Zenon DEF BootInv
  <1>k. KvInv'
    <2>1. Processed' = from
      BY <1>1, SMT DEF Processed
    <2> QED  BY <1>1, <2>1, Zenon DEF KvInv
  <1>a. CausalInv'
    BY Zenon DEF CausalInv
  <1> QED  BY <1>t, <1>p, <1>s, <1>c, <1>b, <1>k, <1>a, Zenon DEF IInv

\* The types, as the integer and sequence facts the steps need.
LEMMA StreamFacts ==
    ASSUME SizeAssumption, TypeOK
    PROVE  /\ stream \in Seq(Tokens) /\ Len(stream) \in 0 .. StreamCap
           /\ prompt \in Seq(Tokens) /\ Len(prompt) \in 0 .. SuffixCap
           /\ said \in Seq(Tokens) /\ Len(said) \in Nat
           /\ StreamCap \in Nat /\ SuffixCap \in Nat /\ MaxBudget \in Nat
           /\ AttnCtx \in Nat \ {0} /\ Chunk \in 1 .. AttnCtx
           /\ base \in Nat /\ n \in Nat /\ budget \in 0 .. MaxBudget
           /\ emitted \in 0 .. MaxBudget
           /\ (prompt = <<>> <=> Len(prompt) = 0)
  <1>1. /\ stream \in Seq(Tokens) /\ Len(stream) <= StreamCap
        /\ prompt \in Seq(Tokens) /\ Len(prompt) <= SuffixCap
        /\ said \in Seq(Tokens)
        /\ base \in Nat /\ n \in Nat /\ budget \in 0 .. MaxBudget
        /\ emitted \in 0 .. MaxBudget
    BY Zenon DEF TypeOK
  <1>2. Len(stream) \in Nat /\ Len(prompt) \in Nat /\ Len(said) \in Nat
    BY <1>1, LenProperties, Zenon
  <1>3. prompt = <<>> <=> Len(prompt) = 0
    BY <1>1, EmptySeq, Zenon
  <1>4. /\ StreamCap \in Nat /\ SuffixCap \in Nat /\ MaxBudget \in Nat
        /\ AttnCtx \in Nat \ {0} /\ Chunk \in 1 .. AttnCtx
    BY SMT DEF SizeAssumption
  <1>5. Len(stream) \in 0 .. StreamCap /\ Len(prompt) \in 0 .. SuffixCap
    BY <1>1, <1>2, <1>4, SMT
  <1> QED  BY <1>1, <1>2, <1>3, <1>4, <1>5, Zenon

\* GEN that continues the stream.
LEMMA GenContinueKeeps ==
    ASSUME SizeAssumption, TokenAssumption, IInv,
           NEW full \in SeqUpTo(StreamCap), NEW max \in 1 .. MaxBudget,
           GenContinue(full, max)
    PROVE  IInv'
  <1>1. /\ pc = "read" /\ serve
        /\ Len(full) >= Len(stream) /\ SubSeq(full, 1, Len(stream)) = stream
        /\ Len(full) - Len(stream) \in 1 .. SuffixCap
        /\ Start(full, Len(stream), max)
        /\ serve' = serve /\ oneShotDone' = oneShotDone
        /\ ctxPos' = ctxPos /\ ctxFill' = ctxFill /\ kv' = kv
    BY Zenon DEF GenContinue, Extends, ringVars
  <1>2. TypeOK
    BY DEF IInv
  <1>3. /\ stream \in Seq(Tokens) /\ Len(stream) \in 0 .. StreamCap
        /\ StreamCap \in Nat /\ SuffixCap \in Nat /\ MaxBudget \in Nat
    BY <1>2, StreamFacts, Zenon
  <1>4. full \in Seq(Tokens) /\ Len(full) \in 0 .. StreamCap
    BY <1>3, SeqUpToIs, Zenon
  <1>5. \A q \in 1 .. Len(stream) : stream[q] = full[q]
    <2>1. ASSUME NEW q \in 1 .. Len(stream)
          PROVE  SubSeq(full, 1, Len(stream))[q] = full[q]
      BY <1>1, <1>3, <1>4, SMT
    <2> QED  BY <1>1, <2>1, Zenon
  <1>6. Holds(kv, ctxPos, ctxFill, stream, Len(stream))
    <2>1. ~Saturated
      <3>1. Len(full) - Len(stream) \in 1 .. SuffixCap
        BY <1>1, Zenon
      <3>2. Len(stream) # StreamCap
        BY <1>3, <1>4, <3>1, SMT
      <3> QED  BY <3>2, Zenon DEF Saturated
    <2>2. Processed = Len(stream)
      BY <1>1, SMT DEF Processed
    <2> QED  BY <1>1, <2>1, <2>2, SMT DEF IInv, KvInv
  <1>7. Holds(kv, ctxPos, ctxFill, full, Len(stream))
    <2>1. \A q \in 1 .. Len(stream) : q <= Len(full) => q <= Len(stream) /\ full[q] = stream[q]
      BY <1>3, <1>5, SMT
    <2> QED  BY <1>3, <1>4, <1>6, <2>1, HoldsAgree, SMT
  <1>8. /\ Len(stream) \in Nat /\ max \in 0 .. MaxBudget /\ max > 0
        /\ Len(stream) <= Len(full) /\ Len(full) - Len(stream) <= SuffixCap
        /\ Len(full) <= StreamCap /\ Len(stream) < Len(full)
    BY <1>1, <1>3, <1>4, SMT
  <1>9. /\ oneShotDone' \in BOOLEAN
        /\ ctxPos' \in 0 .. AttnCtx - 1 /\ ctxFill' \in 0 .. AttnCtx
    BY <1>1, <1>2, Zenon DEF TypeOK
  <1>10. Holds(kv', ctxPos', ctxFill', full, Len(stream))
    BY <1>1, <1>7, Zenon
  <1>11. CausalRows(kv', ctxPos', ctxFill')
    BY <1>1, Zenon DEF IInv, CausalInv
  <1> QED  BY <1>1, <1>4, <1>8, <1>9, <1>10, <1>11, StartKeeps, Zenon

\* GEN that departs from it.
LEMMA GenResetKeeps ==
    ASSUME SizeAssumption, TokenAssumption, IInv,
           NEW full \in SeqUpTo(StreamCap) \ {<<>>}, NEW max \in 1 .. MaxBudget,
           GenReset(full, max)
    PROVE  IInv'
  <1>1. /\ serve /\ Len(full) <= SuffixCap
        /\ Start(full, 0, max)
        /\ serve' = serve /\ oneShotDone' = oneShotDone
        /\ ctxPos' = 0 /\ ctxFill' = 0 /\ kv' = kv
    BY Zenon DEF GenReset
  <1>2. TypeOK
    BY DEF IInv
  <1>3. StreamCap \in Nat /\ SuffixCap \in Nat /\ MaxBudget \in Nat /\ AttnCtx \in Nat \ {0}
    BY <1>2, StreamFacts, Zenon
  <1>4. full \in Seq(Tokens) /\ Len(full) \in 0 .. StreamCap
    BY <1>3, SeqUpToIs, Zenon
  <1>5. Len(full) # 0
    BY <1>4, EmptySeq, Zenon
  <1>6. /\ 0 \in Nat /\ max \in 0 .. MaxBudget /\ max > 0
        /\ 0 <= Len(full) /\ Len(full) - 0 <= SuffixCap
        /\ Len(full) <= StreamCap /\ 0 < Len(full)
        /\ 0 \in 0 .. AttnCtx - 1 /\ 0 \in 0 .. AttnCtx
    BY <1>1, <1>3, <1>4, <1>5, SMT
  <1>7. oneShotDone' \in BOOLEAN
    BY <1>1, <1>2, Zenon DEF TypeOK
  <1>8. Holds(kv', ctxPos', ctxFill', full, 0)
    BY <1>1, HoldsNone, Zenon
  <1>9. CausalRows(kv', ctxPos', ctxFill')
    BY <1>1, CausalNone, Zenon
  <1> QED  BY <1>1, <1>4, <1>6, <1>7, <1>8, <1>9, StartKeeps, Zenon

\* The command line's request.
LEMMA OneShotKeeps ==
    ASSUME SizeAssumption, TokenAssumption, IInv,
           NEW full \in SeqUpTo(SuffixCap), NEW max \in 0 .. MaxBudget,
           OneShot(full, max)
    PROVE  IInv'
  <1>1. /\ ~serve /\ ~oneShotDone /\ oneShotDone' = TRUE
        /\ Start(full, 0, max)
        /\ serve' = serve
        /\ ctxPos' = ctxPos /\ ctxFill' = ctxFill /\ kv' = kv
    BY Zenon DEF OneShot, ringVars
  <1>2. TypeOK
    BY DEF IInv
  <1>3. StreamCap \in Nat /\ SuffixCap \in Nat /\ SuffixCap <= StreamCap
    BY SMT DEF SizeAssumption
  <1>4. full \in Seq(Tokens) /\ Len(full) \in 0 .. SuffixCap
    BY <1>3, SeqUpToIs, Zenon
  <1>5. ctxFill' = 0
    BY <1>1, Zenon DEF IInv, BootInv
  <1>6. /\ 0 \in Nat /\ 0 <= Len(full) /\ Len(full) - 0 <= SuffixCap
        /\ Len(full) <= StreamCap
    BY <1>3, <1>4, SMT
  <1>7. /\ oneShotDone' \in BOOLEAN /\ (serve \/ oneShotDone')
        /\ ctxPos' \in 0 .. AttnCtx - 1 /\ ctxFill' \in 0 .. AttnCtx
    BY <1>1, <1>2, Zenon DEF TypeOK
  <1>8. Holds(kv', ctxPos', ctxFill', full, 0)
    BY <1>5, HoldsNone, Zenon
  <1>9. CausalRows(kv', ctxPos', ctxFill')
    BY <1>5, CausalNone, Zenon
  <1> QED  BY <1>1, <1>4, <1>6, <1>7, <1>8, <1>9, StartKeeps, Zenon

\* RESET, and a GEN refused after its reset.
LEMMA ForgetKeeps ==
    ASSUME SizeAssumption, TokenAssumption, IInv, pc = "read", serve, Forget,
           UNCHANGED <<serve, oneShotDone, kv, pc, reqVars>>
    PROVE  IInv'
  <1>1. /\ ctxPos' = 0 /\ ctxFill' = 0 /\ stream' = <<>> /\ said' = <<>>
        /\ serve' = serve /\ oneShotDone' = oneShotDone /\ kv' = kv /\ pc' = pc
        /\ prompt' = prompt /\ base' = base /\ n' = n /\ budget' = budget
        /\ nextTok' = nextTok /\ hitEos' = hitEos /\ emitted' = emitted
    BY Zenon DEF Forget, reqVars
  <1>2. <<>> \in Seq(Tokens) /\ Len(<<>>) = 0
    BY EmptySeq
  <1>3. /\ StreamCap \in Nat /\ AttnCtx \in Nat \ {0}
        /\ 0 \in 0 .. AttnCtx - 1 /\ 0 \in 0 .. AttnCtx /\ 0 <= StreamCap
    BY SMT DEF SizeAssumption
  <1>t. TypeOK'
    BY <1>1, <1>2, <1>3, Zenon DEF IInv, TypeOK
  <1>p. ProgressInv'
    BY <1>1, Zenon DEF ProgressInv
  <1>s. StreamInv'
    BY <1>1, Zenon DEF StreamInv, Working
  <1>c. SaidInv'
    <2>1. \A i \in 1 .. 0 : FALSE
      BY SMT
    <2>2. 0 <= 0 /\ 0 <= 0 + 1
      BY SMT
    <2> QED  BY <1>1, <1>2, <2>1, <2>2, Zenon DEF SaidInv, Working
  <1>b. BootInv'
    BY <1>1, Zenon DEF BootInv
  <1>k. KvInv'
    <2>1. Processed' = 0
      BY <1>1, <1>2, Zenon DEF Processed
    <2>2. Holds(kv', 0, 0, <<>>, 0)
      BY HoldsNone, Zenon
    <2> QED  BY <1>1, <2>1, <2>2, Zenon DEF KvInv
  <1>a. CausalInv'
    BY <1>1, CausalNone, Zenon DEF CausalInv
  <1> QED  BY <1>t, <1>p, <1>s, <1>c, <1>b, <1>k, <1>a, Zenon DEF IInv

\* End of input.
LEMMA StopKeeps ==
    ASSUME SizeAssumption, TokenAssumption, IInv, Stop
    PROVE  IInv'
  <1>1. /\ pc' = "exited" /\ (serve \/ oneShotDone)
        /\ stream' = stream /\ said' = said
        /\ serve' = serve /\ oneShotDone' = oneShotDone /\ kv' = kv
        /\ ctxPos' = ctxPos /\ ctxFill' = ctxFill
        /\ prompt' = prompt /\ base' = base /\ n' = n /\ budget' = budget
        /\ nextTok' = nextTok /\ hitEos' = hitEos /\ emitted' = emitted
    BY Zenon DEF Stop, reqVars, ringVars
  <1>t. TypeOK'
    BY <1>1, Zenon DEF IInv, TypeOK
  <1>p. ProgressInv'
    BY <1>1, Zenon DEF ProgressInv
  <1>s. StreamInv'
    BY <1>1, Zenon DEF StreamInv, Working
  <1>c. SaidInv'
    BY <1>1, Zenon DEF SaidInv, Working
  <1>b. BootInv'
    BY <1>1, Zenon DEF BootInv
  <1>k. KvInv'
    BY <1>1, Zenon DEF KvInv
  <1>a. CausalInv'
    BY <1>1, Zenon DEF IInv, CausalInv
  <1> QED  BY <1>t, <1>p, <1>s, <1>c, <1>b, <1>k, <1>a, Zenon DEF IInv

----------------------------------------------------------------------------
(* Work *)

\* A run of a sequence, element by element.
LEMMA SubSeqFacts ==
    ASSUME NEW s \in Seq(Tokens), NEW a \in Nat, NEW count \in Nat, a + count <= Len(s)
    PROVE  /\ SubSeq(s, a + 1, a + count) \in Seq(Tokens)
           /\ Len(SubSeq(s, a + 1, a + count)) = count
           /\ \A i \in 1 .. count : SubSeq(s, a + 1, a + count)[i] = s[a + i]
  <1>1. Len(s) \in Nat
    BY LenProperties
  <1>2. \A i \in a + 1 .. a + count : s[i] \in Tokens
    BY <1>1, ElementOfSeq, SMT
  <1>3. SubSeq(s, a + 1, a + count) \in Seq(Tokens)
    BY <1>1, <1>2, SubSeqProperties, SMT
  <1>4. Len(SubSeq(s, a + 1, a + count)) = count
    BY <1>1, SMT
  <1>5. ASSUME NEW i \in 1 .. count
        PROVE  SubSeq(s, a + 1, a + count)[i] = s[a + i]
    BY <1>1, <1>5, SMT
  <1> QED  BY <1>3, <1>4, <1>5

\* The ring after a chunk or a step: the invariant's part, and the types.
LEMMA RingKept ==
    ASSUME SizeAssumption, TypeOK,
           NEW toks \in Seq(Tokens), NEW count \in 1 .. AttnCtx, count = Len(toks),
           NEW by \in {"prefill", "decode"},
           NEW done \in Nat, NEW new \in Seq(Tokens),
           Holds(kv, ctxPos, ctxFill, stream, done),
           \A q \in 1 .. done : q <= Len(new) => q <= Len(stream) /\ new[q] = stream[q],
           \A i \in 1 .. count : done + i <= Len(new) => new[done + i] = toks[i],
           kv' = WithRows(toks, done, by), Advance(count)
    PROVE  /\ kv' \in [0 .. AttnCtx - 1 -> Rows]
           /\ ctxPos' \in 0 .. AttnCtx - 1 /\ ctxFill' \in 0 .. AttnCtx
           /\ n' = n + count
           /\ Written(kv, ctxPos, ctxFill, kv', toks, done, by)
           /\ ctxPos' = At(ctxPos, count) /\ ctxFill' = Least(ctxFill + count, AttnCtx)
           /\ Holds(kv', ctxPos', ctxFill', new, done + count)
           /\ (IF by = "decode" THEN count = 1 ELSE count <= Chunk)
                 /\ CausalRows(kv, ctxPos, ctxFill)
                    => CausalRows(kv', ctxPos', ctxFill')
  <1>1. /\ AttnCtx \in Nat \ {0}
        /\ ctxPos \in 0 .. AttnCtx - 1 /\ ctxFill \in 0 .. AttnCtx
        /\ kv \in [0 .. AttnCtx - 1 -> Rows] /\ stream \in Seq(Tokens)
    BY Zenon DEF SizeAssumption, TypeOK
  <1>2. /\ ctxPos' = At(ctxPos, count)
        /\ ctxFill' = Least(ctxFill + count, AttnCtx)
        /\ n' = n + count
    BY Zenon DEF Advance, At
  <1>3. ctxFill' \in 0 .. AttnCtx /\ count \in 0 .. AttnCtx
    BY <1>1, <1>2, SMT DEF Least
  <1>4. ctxPos' \in 0 .. AttnCtx - 1
    BY <1>1, <1>2, <1>3, AtIs, Zenon
  <1>5. kv' \in [0 .. AttnCtx - 1 -> Rows]
    <2>1. Len(toks) \in 1 .. AttnCtx
      OBVIOUS
    <2> QED  BY <1>1, <2>1, WithRowsIs, Zenon
  <1>6. Written(kv, ctxPos, ctxFill, kv', toks, done, by)
    <2>1. Len(toks) \in 1 .. AttnCtx
      OBVIOUS
    <2> QED  BY <1>1, <2>1, WithRowsIs
  <1>7. Holds(kv', ctxPos', ctxFill', new, done + count)
    BY <1>1, <1>2, <1>6, RingAdvances, Zenon
  <1>8. ASSUME IF by = "decode" THEN count = 1 ELSE count <= Chunk,
               CausalRows(kv, ctxPos, ctxFill)
        PROVE  CausalRows(kv', ctxPos', ctxFill')
    <2>1. Chunk \in 1 .. AttnCtx
      BY DEF SizeAssumption
    <2> QED  BY <1>1, <1>2, <1>6, <1>8, <2>1, CausalAdvances, Zenon
  <1> QED  BY <1>2, <1>3, <1>4, <1>5, <1>6, <1>7, <1>8

\* What the invariant says of a request under way.
LEMMA WorkFacts ==
    ASSUME SizeAssumption, IInv, Working
    PROVE  /\ serve \/ oneShotDone
           /\ base + Len(prompt) <= StreamCap
           /\ Len(stream) = Least(Processing, StreamCap)
           /\ \A i \in 1 .. Len(prompt) : stream[base + i] = prompt[i]
           /\ Processed = base + n
           /\ Holds(kv, ctxPos, ctxFill, stream, base + n)
  <1>1. pc \in {"prefill", "step", "epilogue"}
    BY DEF Working
  <1>2. pc # "read" /\ pc # "exited"
    BY <1>1
  <1>3. serve \/ oneShotDone
    BY <1>2, Zenon DEF IInv, BootInv
  <1>4. Processed = base + n
    BY <1>1, Zenon DEF Processed
  <1>5. Holds(kv, ctxPos, ctxFill, stream, base + n)
    BY <1>2, <1>4, SMT DEF IInv, KvInv
  <1> QED  BY <1>3, <1>4, <1>5, Zenon DEF IInv, StreamInv

\* A chunk: n advances and the ring with it.
LEMMA PrefillChunkKeeps ==
    ASSUME SizeAssumption, TokenAssumption, IInv, PrefillChunk
    PROVE  IInv'
  <1> DEFINE toks == SubSeq(prompt, n + 1, n + ChunkLen)
  <1>1. /\ pc = "prefill" /\ n < Len(prompt) - 1
        /\ kv' = WithRows(toks, base + n, "prefill")
        /\ Advance(ChunkLen)
        /\ stream' = stream /\ said' = said /\ pc' = pc
        /\ serve' = serve /\ oneShotDone' = oneShotDone
        /\ prompt' = prompt /\ base' = base /\ budget' = budget
        /\ nextTok' = nextTok /\ hitEos' = hitEos /\ emitted' = emitted
    BY Zenon DEF PrefillChunk
  <1>2. TypeOK
    BY DEF IInv
  <1>3. /\ stream \in Seq(Tokens) /\ Len(stream) \in 0 .. StreamCap
        /\ prompt \in Seq(Tokens) /\ Len(prompt) \in 0 .. SuffixCap
        /\ said \in Seq(Tokens) /\ Len(said) \in Nat
        /\ AttnCtx \in Nat \ {0} /\ Chunk \in 1 .. AttnCtx
        /\ base \in Nat /\ n \in Nat /\ SuffixCap \in Nat /\ StreamCap \in Nat
    BY <1>2, StreamFacts, Zenon
  <1>4. /\ base + Len(prompt) <= StreamCap
        /\ \A i \in 1 .. Len(prompt) : stream[base + i] = prompt[i]
        /\ Holds(kv, ctxPos, ctxFill, stream, base + n)
        /\ serve \/ oneShotDone
    BY <1>1, WorkFacts, Zenon DEF Working
  <1>5. /\ ChunkLen \in 1 .. AttnCtx /\ ChunkLen \in Nat
        /\ n + ChunkLen <= Len(prompt) - 1 /\ n + ChunkLen <= Len(prompt)
    BY <1>1, <1>3, SMT DEF ChunkLen, Least
  <1>6. /\ toks \in Seq(Tokens) /\ ChunkLen = Len(toks)
        /\ \A i \in 1 .. ChunkLen : toks[i] = prompt[n + i]
    <2>1. /\ prompt \in Seq(Tokens) /\ n \in Nat /\ ChunkLen \in Nat
          /\ n + ChunkLen <= Len(prompt)
      BY <1>3, <1>5, Zenon
    <2> QED  BY <2>1, SubSeqFacts
  <1> HIDE DEF toks
  <1>7. ASSUME NEW i \in 1 .. ChunkLen
        PROVE  stream[base + n + i] = toks[i]
    <2>1. n + i \in 1 .. Len(prompt) /\ base + (n + i) = base + n + i
      BY <1>3, <1>5, SMT
    <2> QED  BY <1>4, <1>6, <2>1, Zenon
  <1>8. /\ kv' \in [0 .. AttnCtx - 1 -> Rows]
        /\ ctxPos' \in 0 .. AttnCtx - 1 /\ ctxFill' \in 0 .. AttnCtx
        /\ n' = n + ChunkLen
        /\ Holds(kv', ctxPos', ctxFill', stream, base + n + ChunkLen)
        /\ CausalRows(kv', ctxPos', ctxFill')
    <2>1. base + n \in Nat
      BY <1>3, SMT
    <2>2. \A q \in 1 .. base + n : q <= Len(stream) => q <= Len(stream) /\ stream[q] = stream[q]
      OBVIOUS
    <2>3. \A i \in 1 .. ChunkLen : base + n + i <= Len(stream) => stream[base + n + i] = toks[i]
      BY <1>7, Zenon
    <2>4. "prefill" \in {"prefill", "decode"} /\ "prefill" # "decode"
      OBVIOUS
    <2>5. ChunkLen <= Chunk /\ CausalRows(kv, ctxPos, ctxFill)
      <3>1. ChunkLen <= Chunk
        BY <1>1, <1>3, SMT DEF ChunkLen, Least
      <3> QED  BY <3>1, Zenon DEF IInv, CausalInv
    <2> QED  BY <1>1, <1>2, <1>3, <1>4, <1>5, <1>6, <2>1, <2>2, <2>3, <2>4, <2>5, RingKept, Zenon
  <1>9. n' \in Nat /\ n' <= Len(prompt) - 1 /\ base + n' = base + n + ChunkLen
    BY <1>3, <1>5, <1>8, SMT
  <1>t. TypeOK'
    BY <1>1, <1>2, <1>8, <1>9, Zenon DEF TypeOK
  <1>p. ProgressInv'
    <2>1. emitted = 0 /\ ~hitEos /\ prompt # <<>>
      BY <1>1, Zenon DEF IInv, ProgressInv
    <2>2. Lead' = Len(prompt) - 1
      BY <1>1, <2>1, Zenon DEF Lead
    <2> QED  BY <1>1, <1>9, <2>1, <2>2, Zenon DEF ProgressInv
  <1>s. StreamInv'
    <2>1. Processing = base + Len(prompt) /\ Processing' = base + Len(prompt)
      BY <1>1, <1>3, <1>9, SMT DEF Processing
    <2>2. Working
      BY <1>1 DEF Working
    <2> QED  BY <1>1, <2>1, <2>2, Zenon DEF IInv, StreamInv
  <1>c. SaidInv'
    BY <1>1, Zenon DEF IInv, SaidInv, Working, Saturated
  <1>b. BootInv'
    BY <1>1, <1>4, Zenon DEF BootInv
  <1>k. KvInv'
    <2>1. Processed' = base + n'
      BY <1>1, Zenon DEF Processed
    <2> QED  BY <1>1, <1>8, <1>9, <2>1, SMT DEF KvInv
  <1>a. CausalInv'
    BY <1>8, Zenon DEF CausalInv
  <1> QED  BY <1>t, <1>p, <1>s, <1>c, <1>b, <1>k, <1>a, Zenon DEF IInv

\* The last prompt token is left to the steps.
LEMMA PrefillDoneKeeps ==
    ASSUME SizeAssumption, TokenAssumption, IInv, PrefillDone
    PROVE  IInv'
  <1>1. /\ pc = "prefill" /\ n = Len(prompt) - 1 /\ pc' = "step"
        /\ stream' = stream /\ said' = said
        /\ serve' = serve /\ oneShotDone' = oneShotDone /\ kv' = kv
        /\ ctxPos' = ctxPos /\ ctxFill' = ctxFill
        /\ prompt' = prompt /\ base' = base /\ n' = n /\ budget' = budget
        /\ nextTok' = nextTok /\ hitEos' = hitEos /\ emitted' = emitted
    BY Zenon DEF PrefillDone, reqVars, ringVars
  <1>2. TypeOK
    BY DEF IInv
  <1>3. /\ Len(prompt) \in 0 .. SuffixCap /\ budget \in 0 .. MaxBudget
        /\ SuffixCap \in Nat /\ MaxBudget \in Nat
    BY <1>2, StreamFacts, Zenon
  <1>4. serve \/ oneShotDone
    BY <1>1, WorkFacts, Zenon DEF Working
  <1>5. emitted = 0 /\ ~hitEos /\ prompt # <<>>
    BY <1>1, Zenon DEF IInv, ProgressInv
  <1>t. TypeOK'
    BY <1>1, <1>2, Zenon DEF TypeOK
  <1>p. ProgressInv'
    <2>1. Lead' = Len(prompt) - 1
      BY <1>1, <1>5, Zenon DEF Lead
    <2>2. n = Len(prompt) - 1 + 0 /\ 0 <= budget
      BY <1>1, <1>3, SMT
    <2> QED  BY <1>1, <1>5, <2>1, <2>2, Zenon DEF ProgressInv
  <1>s. StreamInv'
    <2>1. Processing' = Processing
      BY <1>1, Zenon DEF Processing
    <2>2. Working
      BY <1>1 DEF Working
    <2> QED  BY <1>1, <2>1, <2>2, Zenon DEF IInv, StreamInv
  <1>c. SaidInv'
    <2>1. ~ (n >= Len(prompt))
      BY <1>1, <1>3, SMT
    <2> QED  BY <1>1, <2>1, Zenon DEF IInv, SaidInv, Working, Saturated
  <1>b. BootInv'
    BY <1>1, <1>4, Zenon DEF BootInv
  <1>k. KvInv'
    <2>1. Processed' = base + n
      BY <1>1, Zenon DEF Processed
    <2>2. Holds(kv, ctxPos, ctxFill, stream, base + n)
      BY <1>1, WorkFacts, Zenon DEF Working
    <2> QED  BY <1>1, <2>1, <2>2, Zenon DEF KvInv
  <1>a. CausalInv'
    BY <1>1, Zenon DEF IInv, CausalInv
  <1> QED  BY <1>t, <1>p, <1>s, <1>c, <1>b, <1>k, <1>a, Zenon DEF IInv

\* Where a request is when it steps.
LEMMA StepFacts ==
    ASSUME SizeAssumption, IInv, pc = "step"
    PROVE  /\ Lead \in Nat /\ n = Lead + emitted /\ emitted <= budget /\ ~hitEos
           /\ n < TotalSteps <=> emitted < budget
           /\ n = TotalSteps => emitted = budget
           /\ n < Len(prompt) => n + 1 = Len(prompt) /\ emitted = 0
           /\ prompt # <<>> => n + 1 = Len(prompt) + emitted
  <1>1. TypeOK
    BY DEF IInv
  <1>2. /\ Len(prompt) \in 0 .. SuffixCap /\ SuffixCap \in Nat /\ MaxBudget \in Nat
        /\ budget \in 0 .. MaxBudget /\ emitted \in 0 .. MaxBudget /\ n \in Nat
        /\ (prompt = <<>> <=> Len(prompt) = 0)
    BY <1>1, StreamFacts, Zenon
  <1>3. n = Lead + emitted /\ emitted <= budget /\ ~hitEos
    BY Zenon DEF IInv, ProgressInv
  <1>4. CASE prompt = <<>>
    <2>1. Lead = 0 /\ TotalSteps = Len(prompt) + budget - 0 /\ Len(prompt) = 0
      BY <1>2, <1>4, Zenon DEF Lead, TotalSteps
    <2> QED  BY <1>2, <1>3, <1>4, <2>1, SMT
  <1>5. CASE prompt # <<>>
    <2>1. Lead = Len(prompt) - 1 /\ TotalSteps = Len(prompt) + budget - 1 /\ Len(prompt) # 0
      BY <1>2, <1>5, Zenon DEF Lead, TotalSteps
    <2> QED  BY <1>2, <1>3, <1>5, <2>1, SMT
  <1> QED  BY <1>4, <1>5

\* The token a step processes.
Tok == IF IsPrompt THEN prompt[n + 1] ELSE nextTok

\* The stream after a step holds the token the step processes, if there is room.
LEMMA StepStream ==
    ASSUME SizeAssumption, IInv, pc = "step",
           IF IsPrompt THEN UNCHANGED stream ELSE Joins(nextTok)
    PROVE  /\ Tok \in Tokens
           /\ stream' \in Seq(Tokens)
           /\ Len(stream') = Least(IF n + 1 < Len(prompt) THEN base + Len(prompt)
                                                          ELSE base + n + 1, StreamCap)
           /\ \A q \in 1 .. base + n : q <= Len(stream') => /\ q <= Len(stream)
                                                            /\ stream'[q] = stream[q]
           /\ base + n + 1 <= Len(stream') => stream'[base + n + 1] = Tok
           /\ \A i \in 1 .. Len(prompt) : stream'[base + i] = prompt[i]
  <1>1. TypeOK
    BY DEF IInv
  <1>2. /\ stream \in Seq(Tokens) /\ Len(stream) \in 0 .. StreamCap
        /\ prompt \in Seq(Tokens) /\ Len(prompt) \in 0 .. SuffixCap
        /\ base \in Nat /\ n \in Nat /\ StreamCap \in Nat /\ SuffixCap \in Nat
    BY <1>1, StreamFacts, Zenon
  <1>3. /\ base + Len(prompt) <= StreamCap
        /\ Len(stream) = Least(Processing, StreamCap)
        /\ \A i \in 1 .. Len(prompt) : stream[base + i] = prompt[i]
    BY WorkFacts, Zenon DEF Working
  <1>4. CASE IsPrompt
    <2>1. n < Len(prompt) /\ stream' = stream /\ Tok = prompt[n + 1]
      BY <1>4, Zenon DEF IsPrompt, Tok
    <2>2. n + 1 = Len(prompt)
      BY <2>1, StepFacts, Zenon
    <2>3. n + 1 \in 1 .. Len(prompt) /\ base + (n + 1) = base + n + 1
          /\ ~ (n + 1 < Len(prompt)) /\ base + Len(prompt) = base + n + 1
      BY <1>2, <2>2, SMT
    <2>4. Processing = base + Len(prompt)
      BY <2>1, Zenon DEF Processing
    <2>5. Len(stream) = base + Len(prompt)
      BY <1>2, <1>3, <2>4, SMT DEF Least
    <2>6. Tok \in Tokens
      BY <1>2, <2>1, <2>3, ElementOfSeq, Zenon
    <2>7. stream'[base + n + 1] = Tok
      BY <1>3, <2>1, <2>3, Zenon
    <2>8. \A q \in 1 .. base + n : q <= Len(stream)
      BY <1>2, <2>2, <2>5, SMT
    <2>9. Len(stream') = Least(base + n + 1, StreamCap)
      BY <1>3, <2>1, <2>3, <2>4, Zenon
    <2> QED  BY <1>2, <1>3, <2>1, <2>3, <2>6, <2>7, <2>8, <2>9, Zenon
  <1>5. CASE ~IsPrompt
    <2>1. /\ ~ (n < Len(prompt)) /\ Tok = nextTok
          /\ stream' = IF Len(stream) < StreamCap THEN Append(stream, nextTok) ELSE stream
      BY <1>5, Zenon DEF IsPrompt, Tok, Joins
    <2>2. nextTok \in Tokens
      BY <1>1, Zenon DEF TypeOK
    <2>3. Len(stream) = Least(base + n, StreamCap)
      BY <1>3, <2>1, Zenon DEF Processing
    <2>4. ~ (n + 1 < Len(prompt)) /\ base + n \in Nat
      BY <1>2, <2>1, SMT
    <2>5. CASE Len(stream) < StreamCap
      <3>1. stream' = Append(stream, nextTok)
        BY <2>1, <2>5, Zenon
      <3>2. Len(stream) = base + n /\ base + n < StreamCap
        BY <1>2, <2>3, <2>4, <2>5, SMT DEF Least
      <3>3. /\ Append(stream, nextTok) \in Seq(Tokens)
            /\ Len(Append(stream, nextTok)) = Len(stream) + 1
            /\ \A q \in 1 .. Len(stream) : Append(stream, nextTok)[q] = stream[q]
            /\ Append(stream, nextTok)[Len(stream) + 1] = nextTok
        BY <1>2, <2>2, AppendProperties, SMT
      <3>4. Len(stream') = Least(base + n + 1, StreamCap)
        BY <1>2, <2>4, <3>1, <3>2, <3>3, SMT DEF Least
      <3>5. \A q \in 1 .. base + n : q <= Len(stream)
        BY <1>2, <3>2, SMT
      <3>6. ASSUME NEW i \in 1 .. Len(prompt)
            PROVE  stream'[base + i] = prompt[i]
        <4>1. base + i \in 1 .. Len(stream)
          BY <1>2, <2>1, <3>2, SMT
        <4> QED  BY <1>3, <3>1, <3>3, <4>1, Zenon
      <3> QED  BY <2>1, <2>2, <2>4, <3>1, <3>2, <3>3, <3>4, <3>5, <3>6, Zenon
    <2>6. CASE ~ (Len(stream) < StreamCap)
      <3>1. stream' = stream
        BY <2>1, <2>6, Zenon
      <3>2. Len(stream) = StreamCap /\ base + n >= StreamCap
        BY <1>2, <2>3, <2>4, <2>6, SMT DEF Least
      <3>3. ~ (base + n + 1 <= Len(stream'))
        BY <1>2, <3>1, <3>2, SMT
      <3>4. Len(stream') = Least(base + n + 1, StreamCap)
        BY <1>2, <2>4, <3>1, <3>2, SMT DEF Least
      <3> QED  BY <1>2, <1>3, <2>1, <2>2, <2>4, <3>1, <3>3, <3>4, Zenon
    <2> QED  BY <2>5, <2>6
  <1> QED  BY <1>4, <1>5

\* A step: the token's row, its place in the stream, and what was printed.
LEMMA TokenStepKeeps ==
    ASSUME SizeAssumption, TokenAssumption, IInv,
           NEW best \in Tokens, TokenStep(best)
    PROVE  IInv'
  <1> DEFINE room == Least(IF n + 1 < Len(prompt) THEN base + Len(prompt)
                                                  ELSE base + n + 1, StreamCap)
  <1>1. /\ pc = "step" /\ n < TotalSteps
        /\ (IF IsPrompt THEN UNCHANGED stream ELSE Joins(nextTok))
        /\ kv' = WithRows(<<Tok>>, StepPos, "decode")
        /\ Advance(1)
        /\ nextTok' = best
        /\ \/ /\ hitEos' = TRUE /\ pc' = "epilogue"
              /\ emitted' = emitted /\ said' = said
           \/ /\ emitted' = emitted + 1 /\ said' = Append(said, best)
              /\ hitEos' = hitEos /\ pc' = pc
        /\ serve' = serve /\ oneShotDone' = oneShotDone
        /\ prompt' = prompt /\ base' = base /\ budget' = budget
    BY Zenon DEF TokenStep, Tok, IsPrompt, Joins
  <1>2. TypeOK
    BY DEF IInv
  <1>3. /\ stream \in Seq(Tokens) /\ Len(stream) \in 0 .. StreamCap
        /\ prompt \in Seq(Tokens) /\ Len(prompt) \in 0 .. SuffixCap
        /\ said \in Seq(Tokens) /\ Len(said) \in Nat
        /\ AttnCtx \in Nat \ {0} /\ MaxBudget \in Nat
        /\ base \in Nat /\ n \in Nat /\ SuffixCap \in Nat /\ StreamCap \in Nat
        /\ budget \in 0 .. MaxBudget /\ emitted \in 0 .. MaxBudget
    BY <1>2, StreamFacts, Zenon
  <1>4. /\ serve \/ oneShotDone
        /\ base + Len(prompt) <= StreamCap
        /\ Holds(kv, ctxPos, ctxFill, stream, base + n)
    BY <1>1, WorkFacts, Zenon DEF Working
  <1>5. /\ n = Lead + emitted /\ emitted < budget /\ ~hitEos /\ Lead \in Nat
        /\ n < Len(prompt) => n + 1 = Len(prompt) /\ emitted = 0
        /\ prompt # <<>> => n + 1 = Len(prompt) + emitted
    BY <1>1, StepFacts, Zenon
  <1>6. /\ Tok \in Tokens
        /\ stream' \in Seq(Tokens)
        /\ Len(stream') = room
        /\ \A q \in 1 .. base + n : q <= Len(stream') => /\ q <= Len(stream)
                                                         /\ stream'[q] = stream[q]
        /\ base + n + 1 <= Len(stream') => stream'[base + n + 1] = Tok
        /\ \A i \in 1 .. Len(prompt) : stream'[base + i] = prompt[i]
    BY <1>1, StepStream, Zenon
  <1> HIDE DEF room
  <1>7. /\ kv' \in [0 .. AttnCtx - 1 -> Rows]
        /\ ctxPos' \in 0 .. AttnCtx - 1 /\ ctxFill' \in 0 .. AttnCtx
        /\ n' = n + 1
        /\ Holds(kv', ctxPos', ctxFill', stream', base + n + 1)
        /\ CausalRows(kv', ctxPos', ctxFill')
    <2>1. base + n \in Nat /\ 1 \in 1 .. AttnCtx
      BY <1>3, SMT
    <2>2. <<Tok>> \in Seq(Tokens) /\ 1 = Len(<<Tok>>) /\ <<Tok>>[1] = Tok
      BY <1>6, SMT
    <2>3. \A i \in 1 .. 1 : base + n + i <= Len(stream') => stream'[base + n + i] = <<Tok>>[i]
      <3>1. \A i \in 1 .. 1 : i = 1
        BY SMT
      <3> QED  BY <1>6, <2>2, <3>1, Zenon
    <2>4. "decode" \in {"prefill", "decode"}
      OBVIOUS
    <2>5. kv' = WithRows(<<Tok>>, base + n, "decode")
      BY <1>1, Zenon DEF StepPos
    <2>6. CausalRows(kv, ctxPos, ctxFill)
      BY Zenon DEF IInv, CausalInv
    <2> QED  BY <1>1, <1>2, <1>4, <1>6, <2>1, <2>2, <2>3, <2>4, <2>5, <2>6, RingKept, Zenon
  <1>8. /\ room \in Nat /\ room <= StreamCap /\ room <= base + n + 1
        /\ (base + n + 1 <= StreamCap => room = base + n + 1)
        /\ (room = IF n' < Len(prompt) THEN Least(base + Len(prompt), StreamCap)
                                       ELSE Least(base + n', StreamCap))
    <2>1. base + n + 1 = base + (n + 1)
      BY <1>3, SMT
    <2>2. ~ (n + 1 < Len(prompt))
      BY <1>3, <1>5, SMT
    <2>3. room = Least(base + n + 1, StreamCap)
      BY <2>2, Zenon DEF room
    <2>4. room = Least(base + n', StreamCap) /\ ~ (n' < Len(prompt))
      BY <1>7, <2>1, <2>2, <2>3, Zenon
    <2> QED  BY <1>3, <2>3, <2>4, SMT DEF Least
  <1>9. /\ n' \in Nat /\ base + n' = base + n + 1
        /\ emitted + 1 \in 0 .. MaxBudget /\ emitted + 1 <= budget
        /\ n' = Lead + (emitted + 1) /\ n' = Lead + emitted + 1
    BY <1>3, <1>5, <1>7, SMT
  <1>10. /\ Append(said, best) \in Seq(Tokens)
         /\ Len(Append(said, best)) = Len(said) + 1
         /\ \A i \in 1 .. Len(said) : Append(said, best)[i] = said[i]
         /\ Append(said, best)[Len(said) + 1] = best
    BY <1>3, AppendProperties, SMT
  <1>11. Lead' = Lead
    BY <1>1, Zenon DEF Lead
  <1>t. TypeOK'
    <2>1. /\ emitted' \in 0 .. MaxBudget /\ said' \in Seq(Tokens)
          /\ hitEos' \in BOOLEAN
          /\ pc' \in {"read", "prefill", "step", "epilogue", "exited"}
      BY <1>1, <1>2, <1>3, <1>9, <1>10, Zenon DEF TypeOK
    <2>2. Len(stream') <= StreamCap
      BY <1>6, <1>8, Zenon
    <2> QED  BY <1>1, <1>2, <1>6, <1>7, <1>9, <2>1, <2>2, Zenon DEF TypeOK
  <1>p. ProgressInv'
    <2>1. CASE hitEos' = TRUE /\ pc' = "epilogue" /\ emitted' = emitted
      BY <1>1, <1>5, <1>9, <1>11, <2>1, Zenon DEF ProgressInv
    <2>2. CASE emitted' = emitted + 1 /\ hitEos' = hitEos /\ pc' = pc
      BY <1>1, <1>5, <1>9, <1>11, <2>2, Zenon DEF ProgressInv
    <2> QED  BY <1>1, <2>1, <2>2
  <1>s. StreamInv'
    <2>1. Processing' = IF n' < Len(prompt) THEN base + Len(prompt) ELSE base + n'
      BY <1>1, Zenon DEF Processing
    <2>2. Len(stream') = Least(Processing', StreamCap)
      BY <1>6, <1>8, <2>1, Zenon
    <2> QED  BY <1>1, <1>4, <1>6, <2>2, Zenon DEF StreamInv
  <1>c. SaidInv'
    <2> SUFFICES ASSUME serve
                 PROVE  SaidInv'
      BY <1>1, Zenon DEF SaidInv
    <2>1. /\ prompt # <<>> /\ budget > 0
          /\ Len(said) = base + Len(prompt) + emitted
          /\ n >= Len(prompt) => nextTok = said[base + n + 1]
          /\ Len(stream) <= Len(said)
          /\ \A i \in 1 .. Len(stream) : stream[i] = said[i]
      BY <1>1, Zenon DEF IInv, SaidInv, Working
    <2>2. Len(said) = base + n + 1
      <3>1. n + 1 = Len(prompt) + emitted /\ Len(said) = base + Len(prompt) + emitted
        BY <1>5, <2>1, Zenon
      <3> QED  BY <1>3, <3>1, SMT
    <2>3. Len(stream') <= Len(said)
      BY <1>6, <1>8, <2>2, Zenon
    <2>4. \A i \in 1 .. Len(stream') : stream'[i] = said[i]
      <3> TAKE i \in 1 .. Len(stream')
      <3>1. CASE i \in 1 .. base + n
        <4>1. i <= Len(stream') /\ i \in Nat
          BY <1>6, <1>8, SMT
        <4>2. i <= Len(stream) /\ stream'[i] = stream[i]
          BY <1>6, <3>1, <4>1, Zenon
        <4>3. i \in 1 .. Len(stream)
          BY <1>3, <4>2, SMT
        <4> QED  BY <2>1, <4>2, <4>3, Zenon
      <3>2. CASE i = base + n + 1
        <4>1. base + n + 1 <= Len(stream')
          BY <1>6, <1>8, <3>2, SMT
        <4>2. stream'[i] = Tok
          BY <1>6, <3>2, <4>1, Zenon
        <4>3. CASE n < Len(prompt)
          <5>1. n + 1 = Len(prompt) /\ Tok = prompt[n + 1]
            BY <1>5, <4>3, Zenon DEF Tok, IsPrompt
          <5>2. /\ n + 1 \in 1 .. Len(prompt) /\ base + (n + 1) = base + n + 1
                /\ Processing = base + Len(prompt)
            BY <1>3, <4>3, <5>1, SMT DEF Processing
          <5>3. /\ stream[base + n + 1] = prompt[n + 1]
                /\ Len(stream) = Least(base + Len(prompt), StreamCap)
            <6>1. /\ \A j \in 1 .. Len(prompt) : stream[base + j] = prompt[j]
                  /\ Len(stream) = Least(Processing, StreamCap)
              BY <1>1, WorkFacts, Zenon DEF Working
            <6>2. stream[base + (n + 1)] = prompt[n + 1]
              BY <5>2, <6>1, Zenon
            <6>3. stream[base + n + 1] = prompt[n + 1]
              BY <5>2, <6>2, SMT
            <6>4. Len(stream) = Least(base + Len(prompt), StreamCap)
              BY <5>2, <6>1, SMT
            <6> QED  BY <6>3, <6>4
          <5>4. base + n + 1 \in 1 .. Len(stream)
            BY <1>3, <1>4, <5>1, <5>3, SMT DEF Least
          <5> QED  BY <2>1, <3>2, <4>2, <5>1, <5>3, <5>4, Zenon
        <4>4. CASE ~ (n < Len(prompt))
          <5>1. n >= Len(prompt) /\ Tok = nextTok
            BY <1>3, <4>4, SMT DEF Tok, IsPrompt
          <5> QED  BY <2>1, <3>2, <4>2, <5>1, Zenon
        <4> QED  BY <4>3, <4>4
      <3>3. i \in 1 .. base + n \/ i = base + n + 1
        BY <1>3, <1>6, <1>8, SMT
      <3> QED  BY <3>1, <3>2, <3>3
    <2>5. CASE hitEos' = TRUE /\ pc' = "epilogue" /\ emitted' = emitted /\ said' = said
      BY <1>1, <2>1, <2>3, <2>4, <2>5, Zenon DEF SaidInv
    <2>6. CASE /\ emitted' = emitted + 1 /\ said' = Append(said, best)
               /\ hitEos' = hitEos /\ pc' = pc
      <3>1. Len(said') = base + Len(prompt) + (emitted + 1) /\ Len(stream') <= Len(said')
        BY <1>3, <1>6, <1>8, <1>10, <2>1, <2>3, <2>6, SMT
      <3>2. base + n' + 1 = Len(said) + 1
        BY <1>3, <1>9, <2>2, SMT
      <3>3. nextTok' = said'[base + n' + 1]
        BY <1>1, <1>10, <2>6, <3>2, Zenon
      <3>4. \A i \in 1 .. Len(stream') : stream'[i] = said'[i]
        <4>1. \A i \in 1 .. Len(stream') : i \in 1 .. Len(said)
          BY <1>3, <1>6, <1>8, <2>3, SMT
        <4> QED  BY <1>10, <2>4, <2>6, <4>1, Zenon
      <3> QED  BY <1>1, <2>1, <2>6, <3>1, <3>3, <3>4, Zenon DEF SaidInv
    <2> QED  BY <1>1, <2>5, <2>6
  <1>b. BootInv'
    BY <1>1, <1>4, Zenon DEF BootInv
  <1>k. KvInv'
    <2>1. pc' \in {"step", "epilogue"}
      BY <1>1, Zenon
    <2>2. Processed' = base + n'
      BY <1>1, <2>1, Zenon DEF Processed
    <2>3. Holds(kv', ctxPos', ctxFill', stream', Processed')
      BY <1>7, <1>9, <2>2, SMT
    <2> QED  BY <2>3, Zenon DEF KvInv
  <1>a. CausalInv'
    BY <1>7, Zenon DEF CausalInv
  <1> QED  BY <1>t, <1>p, <1>s, <1>c, <1>b, <1>k, <1>a, Zenon DEF IInv

\* The budget is spent.
LEMMA StepsDoneKeeps ==
    ASSUME SizeAssumption, TokenAssumption, IInv, StepsDone
    PROVE  IInv'
  <1>1. /\ pc = "step" /\ n = TotalSteps /\ pc' = "epilogue"
        /\ stream' = stream /\ said' = said
        /\ serve' = serve /\ oneShotDone' = oneShotDone /\ kv' = kv
        /\ ctxPos' = ctxPos /\ ctxFill' = ctxFill
        /\ prompt' = prompt /\ base' = base /\ n' = n /\ budget' = budget
        /\ nextTok' = nextTok /\ hitEos' = hitEos /\ emitted' = emitted
    BY Zenon DEF StepsDone, reqVars, ringVars
  <1>2. TypeOK
    BY DEF IInv
  <1>3. /\ serve \/ oneShotDone
        /\ Holds(kv, ctxPos, ctxFill, stream, base + n)
    BY <1>1, WorkFacts, Zenon DEF Working
  <1>4. ~hitEos /\ n = Lead + emitted /\ emitted = budget
    BY <1>1, StepFacts, Zenon
  <1>t. TypeOK'
    BY <1>1, <1>2, Zenon DEF TypeOK
  <1>p. ProgressInv'
    BY <1>1, <1>4, Zenon DEF ProgressInv, Lead
  <1>s. StreamInv'
    BY <1>1, Zenon DEF IInv, StreamInv, Working, Processing
  <1>c. SaidInv'
    BY <1>1, Zenon DEF IInv, SaidInv, Working, Saturated
  <1>b. BootInv'
    BY <1>1, <1>3, Zenon DEF BootInv
  <1>k. KvInv'
    <2>1. Processed' = base + n
      BY <1>1, Zenon DEF Processed
    <2> QED  BY <1>1, <1>3, <2>1, Zenon DEF KvInv
  <1>a. CausalInv'
    BY <1>1, Zenon DEF IInv, CausalInv
  <1> QED  BY <1>t, <1>p, <1>s, <1>c, <1>b, <1>k, <1>a, Zenon DEF IInv

\* Back to the next line, with a stream the client can continue.
LEMMA EpilogueKeeps ==
    ASSUME SizeAssumption, TokenAssumption, IInv, Epilogue
    PROVE  IInv'
  <1>1. /\ pc = "epilogue" /\ pc' = "read"
        /\ stream' = stream /\ said' = said
        /\ serve' = serve /\ oneShotDone' = oneShotDone /\ kv' = kv
        /\ ctxPos' = ctxPos /\ ctxFill' = ctxFill
        /\ prompt' = prompt /\ base' = base /\ n' = n /\ budget' = budget
        /\ nextTok' = nextTok /\ hitEos' = hitEos /\ emitted' = emitted
    BY Zenon DEF Epilogue, reqVars, ringVars
  <1>2. TypeOK
    BY DEF IInv
  <1>3. /\ Len(stream) \in 0 .. StreamCap
        /\ Len(prompt) \in 0 .. SuffixCap /\ Len(said) \in Nat
        /\ base \in Nat /\ n \in Nat /\ SuffixCap \in Nat /\ StreamCap \in Nat
        /\ budget \in 0 .. MaxBudget /\ emitted \in 0 .. MaxBudget /\ MaxBudget \in Nat
        /\ (prompt = <<>> <=> Len(prompt) = 0)
    BY <1>2, StreamFacts, Zenon
  <1>4. /\ serve \/ oneShotDone
        /\ Len(stream) = Least(Processing, StreamCap)
        /\ Holds(kv, ctxPos, ctxFill, stream, base + n)
    BY <1>1, WorkFacts, Zenon DEF Working
  <1>5. IF hitEos THEN emitted < budget /\ n = Lead + emitted + 1
                  ELSE emitted = budget /\ n = Lead + emitted
    BY <1>1, Zenon DEF IInv, ProgressInv
  \* A served request has printed every token it processed beyond its prompt.
  <1>6. ASSUME serve
        PROVE  /\ Len(stream) = Least(base + n, StreamCap)
               /\ Len(said) <= base + n + 1
    <2>1. prompt # <<>> /\ budget > 0 /\ Len(said) = base + Len(prompt) + emitted
      BY <1>1, <1>6, Zenon DEF IInv, SaidInv, Working
    <2>2. Lead = Len(prompt) - 1
      BY <2>1, Zenon DEF Lead
    <2>3. \/ n = Len(prompt) + emitted
          \/ n = Len(prompt) - 1 + emitted /\ emitted = budget
      BY <1>3, <1>5, <2>2, SMT
    <2>4. n >= Len(prompt) /\ Len(prompt) + emitted <= n + 1
      BY <1>3, <2>1, <2>3, SMT
    <2>5. Processing = base + n
      BY <1>3, <2>4, SMT DEF Processing
    <2>6. Len(said) <= base + n + 1
      BY <1>3, <2>1, <2>4, SMT
    <2> QED  BY <1>4, <2>5, <2>6, Zenon
  <1>t. TypeOK'
    BY <1>1, <1>2, Zenon DEF TypeOK
  <1>p. ProgressInv'
    BY <1>1, Zenon DEF ProgressInv
  <1>s. StreamInv'
    BY <1>1, Zenon DEF StreamInv, Working
  <1>c. SaidInv'
    <2>1. ASSUME serve
          PROVE  Saturated' \/ Len(said') <= Len(stream') + 1
      <3>1. Len(stream) = StreamCap \/ Len(said) <= Len(stream) + 1
        BY <1>3, <1>6, <2>1, SMT DEF Least
      <3> QED  BY <1>1, <3>1, Zenon DEF Saturated
    <2>2. serve => /\ Len(stream) <= Len(said)
                   /\ \A i \in 1 .. Len(stream) : stream[i] = said[i]
      BY <1>1, Zenon DEF IInv, SaidInv
    <2> QED  BY <1>1, <2>1, <2>2, Zenon DEF SaidInv, Working
  <1>b. BootInv'
    BY <1>1, <1>4, Zenon DEF BootInv
  <1>k. KvInv'
    <2>1. ASSUME serve, Len(stream) # StreamCap
          PROVE  Len(stream) = base + n
      BY <1>3, <1>6, <2>1, SMT DEF Least
    <2>2. Processed' = Len(stream)
      BY <1>1, Zenon DEF Processed
    <2>3. ASSUME serve, Len(stream) # StreamCap
          PROVE  Holds(kv, ctxPos, ctxFill, stream, Len(stream))
      BY <1>4, <2>1, <2>3, SMT
    <2> QED  BY <1>1, <2>2, <2>3, Zenon DEF KvInv, Saturated
  <1>a. CausalInv'
    BY <1>1, Zenon DEF IInv, CausalInv
  <1> QED  BY <1>t, <1>p, <1>s, <1>c, <1>b, <1>k, <1>a, Zenon DEF IInv

\* A rejected line, and the exit.
LEMMA StutterKeeps ==
    ASSUME IInv, UNCHANGED vars
    PROVE  IInv'
  <1>1. /\ pc' = pc /\ stream' = stream /\ said' = said
        /\ serve' = serve /\ oneShotDone' = oneShotDone /\ kv' = kv
        /\ ctxPos' = ctxPos /\ ctxFill' = ctxFill
        /\ prompt' = prompt /\ base' = base /\ n' = n /\ budget' = budget
        /\ nextTok' = nextTok /\ hitEos' = hitEos /\ emitted' = emitted
    BY Zenon DEF vars, reqVars, ringVars
  <1>t. TypeOK'
    BY <1>1, Zenon DEF IInv, TypeOK
  <1>p. ProgressInv'
    BY <1>1, Zenon DEF IInv, ProgressInv, Lead
  <1>s. StreamInv'
    BY <1>1, Zenon DEF IInv, StreamInv, Working, Processing
  <1>c. SaidInv'
    BY <1>1, Zenon DEF IInv, SaidInv, Working, Saturated
  <1>b. BootInv'
    BY <1>1, Zenon DEF IInv, BootInv
  <1>k. KvInv'
    <2>1. Processed' = Processed
      BY <1>1, Zenon DEF Processed
    <2> QED  BY <1>1, <2>1, Zenon DEF IInv, KvInv, Saturated
  <1>a. CausalInv'
    BY <1>1, Zenon DEF IInv, CausalInv
  <1> QED  BY <1>t, <1>p, <1>s, <1>c, <1>b, <1>k, <1>a, Zenon DEF IInv

----------------------------------------------------------------------------
(* The invariant holds *)

\* The invariant at boot.
LEMMA InitHolds ==
    ASSUME SizeAssumption, TokenAssumption, Init
    PROVE  IInv
  <1>1. <<>> \in Seq(Tokens) /\ Len(<<>>) = 0
    BY EmptySeq
  <1>2. /\ 0 \in 0 .. AttnCtx - 1 /\ 0 \in 0 .. AttnCtx /\ 0 <= StreamCap
        /\ 0 <= SuffixCap /\ 0 \in Nat /\ 0 \in 0 .. MaxBudget
    BY SMT DEF SizeAssumption
  <1>3. NoRow \in Rows
    <2>1. {} \in SUBSET Nat /\ "none" \in {"none", "prefill", "decode"}
      OBVIOUS
    <2> QED  BY <1>2, <2>1, Zenon DEF NoRow, Rows, TokenAssumption
  <1>t. TypeOK
    <2>1. kv \in [0 .. AttnCtx - 1 -> Rows]
      BY <1>3, Zenon DEF Init
    <2>2. FirstToken \in Tokens /\ FALSE \in BOOLEAN
      BY DEF TokenAssumption
    <2> QED  BY <1>1, <1>2, <2>1, <2>2, Zenon DEF Init, TypeOK
  <1>p. ProgressInv
    BY Zenon DEF Init, ProgressInv
  <1>s. StreamInv
    BY Zenon DEF Init, StreamInv, Working
  <1>c. SaidInv
    <2>1. \A i \in 1 .. 0 : FALSE
      BY SMT
    <2>2. 0 <= 0 /\ 0 <= 0 + 1
      BY SMT
    <2> QED  BY <1>1, <2>1, <2>2, Zenon DEF Init, SaidInv, Working
  <1>b. BootInv
    BY Zenon DEF Init, BootInv
  <1>k. KvInv
    <2>1. Processed = 0
      BY <1>1, Zenon DEF Init, Processed
    <2>2. Holds(kv, ctxPos, ctxFill, stream, Processed)
      BY <2>1, HoldsNone, Zenon DEF Init
    <2> QED  BY <2>2, Zenon DEF KvInv
  <1>a. CausalInv
    BY CausalNone, Zenon DEF Init, CausalInv
  <1> QED  BY <1>t, <1>p, <1>s, <1>c, <1>b, <1>k, <1>a, Zenon DEF IInv

\* Every step keeps the invariant.
LEMMA NextKeeps ==
    ASSUME SizeAssumption, TokenAssumption, IInv, [Next]_vars
    PROVE  IInv'
  <1>1. CASE Request
    <2>1. ASSUME NEW full \in SeqUpTo(StreamCap) \ {<<>>}, NEW max \in 1 .. MaxBudget,
                 GenContinue(full, max)
          PROVE  IInv'
      BY <2>1, GenContinueKeeps, Zenon
    <2>2. ASSUME NEW full \in SeqUpTo(StreamCap) \ {<<>>}, NEW max \in 1 .. MaxBudget,
                 GenReset(full, max)
          PROVE  IInv'
      BY <2>2, GenResetKeeps, Zenon
    <2>3. ASSUME NEW full \in SeqUpTo(StreamCap) \ {<<>>}, GenTooLong(full)
          PROVE  IInv'
      BY <2>3, ForgetKeeps, Zenon DEF GenTooLong
    <2>4. ASSUME NEW full \in SeqUpTo(SuffixCap), NEW max \in 0 .. MaxBudget,
                 OneShot(full, max)
          PROVE  IInv'
      BY <2>4, OneShotKeeps, Zenon
    <2>5. CASE Reset
      BY <2>5, ForgetKeeps, Zenon DEF Reset
    <2>6. CASE Rejected
      BY <2>6, StutterKeeps, Zenon DEF Rejected
    <2>7. CASE Stop
      BY <2>7, StopKeeps, Zenon
    <2> QED  BY <1>1, <2>1, <2>2, <2>3, <2>4, <2>5, <2>6, <2>7, Zenon DEF Request
  <1>2. CASE Work
    <2>1. CASE PrefillChunk  BY <2>1, PrefillChunkKeeps, Zenon
    <2>2. CASE PrefillDone   BY <2>2, PrefillDoneKeeps, Zenon
    <2>3. ASSUME NEW best \in Tokens, TokenStep(best)
          PROVE  IInv'
      BY <2>3, TokenStepKeeps, Zenon
    <2>4. CASE StepsDone     BY <2>4, StepsDoneKeeps, Zenon
    <2>5. CASE Epilogue      BY <2>5, EpilogueKeeps, Zenon
    <2> QED  BY <1>2, <2>1, <2>2, <2>3, <2>4, <2>5, Zenon DEF Work
  <1>3. CASE Exited
    BY <1>3, StutterKeeps, Zenon DEF Exited
  <1>4. CASE UNCHANGED vars
    BY <1>4, StutterKeeps, Zenon
  <1> QED  BY <1>1, <1>2, <1>3, <1>4, Zenon DEF Next

\* The invariant is inductive.
LEMMA Inductive == Spec => []IInv
  <1>1. Init => IInv
    BY InitHolds, SizeAssumption, TokenAssumption, Zenon
  <1>2. IInv /\ [Next]_vars => IInv'
    BY NextKeeps, SizeAssumption, TokenAssumption, Zenon
  <1> QED  BY <1>1, <1>2, PTL DEF Spec

\* Every variable keeps its type: ctx_pos and ctx_fill stay within the ring, the
\* stored stream within STREAM_CAP, the suffix within its buffer.
THEOREM TypeCorrect == Spec => []TypeOK
  <1>1. IInv => TypeOK
    BY DEF IInv
  <1> QED  BY <1>1, Inductive, PTL

\* The rows in use are the last tokens of the conversation, each at its own
\* position, whatever sequence of GEN, RESET and rejected lines came before
\* (main.cpp:462-591, decode.cpp:127, prefill.cpp:204-206).
THEOREM RingHoldsStream == Spec => []KvHoldsStream
  <1>1. IInv => KvHoldsStream
    <2> SUFFICES ASSUME IInv, pc # "exited", pc = "read" => serve /\ ~Saturated
                 PROVE  /\ ctxFill = Least(Processed, AttnCtx)
                        /\ \A i \in 0 .. ctxFill - 1 :
                              LET p == Processed - 1 - i IN
                              /\ Row(i).pos = p
                              /\ p < Len(stream) => Row(i).tok = stream[p + 1]
      BY Zenon DEF KvHoldsStream
    <2>1. Holds(kv, ctxPos, ctxFill, stream, Processed)
      BY Zenon DEF IInv, KvInv
    <2>2. ctxFill = Least(Processed, AttnCtx)
      BY <2>1, Zenon DEF Holds
    <2>3. Processed \in Nat /\ ctxFill \in 0 .. AttnCtx /\ AttnCtx \in Nat
      <3>1. TypeOK
        BY DEF IInv
      <3>2. /\ Len(stream) \in 0 .. StreamCap /\ StreamCap \in Nat
            /\ base \in Nat /\ n \in Nat /\ AttnCtx \in Nat
        BY <3>1, StreamFacts, SizeAssumption, Zenon
      <3>3. ctxFill \in 0 .. AttnCtx
        BY <3>1, Zenon DEF TypeOK
      <3>4. Len(stream) \in Nat /\ base + n \in Nat
        BY <3>2, SMT
      <3> QED  BY <3>2, <3>3, <3>4, Zenon DEF Processed
    <2>4. ASSUME NEW i \in 0 .. ctxFill - 1
          PROVE  LET p == Processed - 1 - i IN
                 /\ Row(i).pos = p
                 /\ p < Len(stream) => Row(i).tok = stream[p + 1]
      <3>1. /\ kv[RowAt(ctxPos, i)].pos = Processed - 1 - i
            /\ Processed - 1 - i < Len(stream)
                  => kv[RowAt(ctxPos, i)].tok = stream[Processed - i]
        BY <2>1, Zenon DEF Holds
      <3>2. Row(i) = kv[RowAt(ctxPos, i)]
        BY DEF Row, RowAt
      <3>3. Processed - i = (Processed - 1 - i) + 1
        BY <2>3, SMT
      <3> QED  BY <3>1, <3>2, <3>3, Zenon
    <2> QED  BY <2>2, <2>4, Zenon
  <1> QED  BY <1>1, Inductive, PTL

\* Between requests the stored stream is what the client was told, but for a last
\* token printed and not processed (main.cpp:575-591).
THEOREM StreamIsHistory == Spec => []HistoryIsPrefix
  <1>1. IInv => HistoryIsPrefix
    <2> SUFFICES ASSUME IInv, pc = "read", serve
                 PROVE  /\ Len(stream) <= Len(said)
                        /\ stream = SubSeq(said, 1, Len(stream))
                        /\ Saturated \/ Len(said) <= Len(stream) + 1
      BY Zenon DEF HistoryIsPrefix
    <2>1. /\ Len(stream) <= Len(said)
          /\ \A i \in 1 .. Len(stream) : stream[i] = said[i]
          /\ Saturated \/ Len(said) <= Len(stream) + 1
      BY SMT DEF IInv, SaidInv
    <2>2. /\ stream \in Seq(Tokens) /\ said \in Seq(Tokens)
          /\ Len(stream) \in 0 .. StreamCap /\ StreamCap \in Nat
      BY StreamFacts, SizeAssumption, Zenon DEF IInv
    <2>3. 0 \in Nat /\ Len(stream) \in Nat /\ 0 + Len(stream) <= Len(said)
          /\ 0 + 1 = 1 /\ 0 + Len(stream) = Len(stream)
      BY <2>1, <2>2, SMT
    <2> DEFINE head == SubSeq(said, 1, Len(stream))
    <2>4. /\ head \in Seq(Tokens) /\ Len(head) = Len(stream)
          /\ \A i \in 1 .. Len(stream) : head[i] = said[0 + i]
      <3>1. /\ SubSeq(said, 0 + 1, 0 + Len(stream)) \in Seq(Tokens)
            /\ Len(SubSeq(said, 0 + 1, 0 + Len(stream))) = Len(stream)
            /\ \A i \in 1 .. Len(stream) :
                  SubSeq(said, 0 + 1, 0 + Len(stream))[i] = said[0 + i]
        BY <2>2, <2>3, SubSeqFacts, Zenon
      <3> QED  BY <2>3, <3>1, SMT
    <2> HIDE DEF head
    <2>5. \A i \in 1 .. Len(stream) : head[i] = stream[i]
      BY <2>1, <2>2, <2>4, SMT
    <2>6. stream = head
      BY <2>2, <2>4, <2>5, SeqEqual, Zenon
    <2> QED  BY <2>1, <2>6 DEF head
  <1> QED  BY <1>1, Inductive, PTL

\* An answer that ends by "length" printed exactly its budget, one that ends by
\* "stop" less (main.cpp:529-530, 692-709).
THEOREM AnswersBudget == Spec => []BudgetSpent
  <1>1. IInv => BudgetSpent
    BY Zenon DEF IInv, ProgressInv, BudgetSpent
  <1> QED  BY <1>1, Inductive, PTL

\* A decoded token, and a prefilled one while the ring has not wrapped, attended
\* to exactly its own past (prefill.cpp:212-247, decode.cpp:127-128).
THEOREM AttendsToPast == Spec => []CausalBeforeWrap
  <1>1. IInv => CausalBeforeWrap
    <2> SUFFICES ASSUME IInv, NEW i \in 0 .. ctxFill - 1,
                        Row(i).by = "decode" \/ Row(i).pos + Chunk <= AttnCtx
                 PROVE  Causal(Row(i))
      BY Zenon DEF CausalBeforeWrap, InUse
    <2>1. Row(i) = kv[RowAt(ctxPos, i)]
      BY DEF Row, RowAt
    <2>2. CausalRows(kv, ctxPos, ctxFill)
      BY Zenon DEF IInv, CausalInv
    <2> QED  BY <2>1, <2>2, Zenon DEF CausalRows
  <1> QED  BY <1>1, Inductive, PTL
=============================================================================
