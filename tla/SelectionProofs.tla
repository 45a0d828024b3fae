-------------------------- MODULE SelectionProofs --------------------------
(***************************************************************************)
(* Proofs about Selection.tla, for any number of experts and tokens, any   *)
(* scores with any ties, any history, window and size of the heap.         *)
(*                                                                         *)
(* Each phase has an invariant of its own: what the loop has done so far.  *)
(* The one with some depth is the heap's, which holds between two swaps of *)
(* a sift: an entry is no larger than its children, except the one being   *)
(* sifted, whose children are no smaller than its parent.                  *)
(***************************************************************************)
EXTENDS Selection, FiniteSetTheorems, SequenceTheorems, TLAPS

\* Ranks done are in order, and no smaller than what follows.
RankOK ==
    /\ score \in [Experts -> Scores]
    /\ list \in [1 .. NumExperts -> Experts] /\ IsInjective(list)
    /\ pos \in 0 .. Want
    /\ \A i \in 1 .. pos : \A j \in i .. NumExperts : P(j) <= P(i)

\* The window's tokens are penalised once, as far as it was read.
PenaltyOK ==
    /\ hist \in Seq(Tokens)
    /\ pos \in WindowStart .. Len(hist)
    /\ penalty \in [Tokens -> Nat]
    /\ \A t \in Tokens :
         penalty[t] = IF t \notin Exempt /\ \E i \in (WindowStart + 1) .. pos : hist[i] = t
                      THEN 1 ELSE 0

\* The heap, or as much of it as is filled, holds the best of the tokens scanned.
ScanOK ==
    /\ score \in [Tokens -> Scores] /\ pos \in 0 .. VocabSize
    /\ list \in Seq(Tokens) /\ IsInjective(list)
    /\ Len(list) = (IF pos < Capacity THEN pos ELSE Capacity)
    /\ \A i \in 1 .. Len(list) : list[i] < pos
    /\ pos < Capacity => \A i \in 1 .. pos : list[i] = i - 1
    /\ \A t \in 0 .. pos - 1 : t \in Range(list) \/ \A u \in Range(list) : score[t] <= score[u]

\* Entries before From are not sifted yet.
From == IF heapify = 0 THEN 1 ELSE heapify
Children(i) == {k \in 1 .. Capacity : k = 2 * i \/ k = 2 * i + 1}

HeapOK ==
    /\ at \in 0 .. Capacity /\ heapify \in 0 .. Capacity
    /\ at = 0 => heapify = 0
    /\ at # 0 => Len(list) = Capacity /\ From <= at
    /\ Len(list) = Capacity =>
         /\ \A i \in From .. Capacity : i # at => \A k \in Children(i) : P(i) <= P(k)
         /\ \A i \in From .. Capacity : at \in Children(i) => \A k \in Children(at) : P(i) <= P(k)

\* The sorted candidates are the best tokens.
WalkOK ==
    /\ score \in [Tokens -> Scores]
    /\ list \in [1 .. Capacity -> Tokens] /\ IsInjective(list)
    /\ \A i, j \in 1 .. Capacity : i <= j => P(j) <= P(i)
    /\ \A t \in Tokens : t \in Range(list) \/ \A u \in Range(list) : score[t] <= score[u]

\* The walk stopped at the first prefix that ends it.
DrawOK ==
    /\ WalkOK
    /\ req.topK \in 0 .. Capacity
    /\ pos \in 1 .. Capacity
    /\ pos = Capacity \/ Enough(pos, req.topP, req.topK)
    /\ \A m \in 1 .. pos - 1 : ~Enough(m, req.topP, req.topK)

IInv ==
    /\ pc \in {"begin", "rank", "penalty", "scan", "walk", "draw"}
    /\ pc # "scan" => at = 0 /\ heapify = 0
    /\ pc = "rank" => RankOK
    /\ pc = "penalty" => PenaltyOK
    /\ pc = "scan" => ScanOK /\ HeapOK
    /\ pc = "walk" => WalkOK
    /\ pc = "draw" => DrawOK

----------------------------------------------------------------------------
(* Numbers and arrays *)

LEMMA Sizes ==
    /\ NumExperts \in Nat \ {0} /\ VocabSize \in Nat \ {0} /\ Capacity \in 1 .. VocabSize
    /\ Window \in Nat \ {0} /\ MaxHistory \in Nat /\ MaxScore \in Nat \ {0}
    /\ Capacity \in Nat \ {0}
  BY SelectionAssumption

\* A nonempty set of numbers has a least one.
LEMMA Least ==
    ASSUME NEW S \in SUBSET Nat, S # {}
    PROVE  \E m \in S : \A n \in S : m <= n
  <1> DEFINE Below == {d \in Nat \X Nat : d[1] < d[2]}
  <1>1. IsWellFoundedOn(Below, Nat)
    BY NatLessThanWellFounded DEF OpToRel
  <1>2. \E m \in S : \A n \in S : <<n, m>> \notin Below
    <2> HIDE DEF Below
    <2> QED  BY <1>1, WFMin
  <1>3. PICK m \in S : \A n \in S : <<n, m>> \notin Below
    BY <1>2
  <1>4. ASSUME NEW n \in S PROVE m <= n
    <2>1. <<n, m>> \in Nat \X Nat /\ ~(<<n, m>>[1] < <<n, m>>[2])
      BY <1>3
    <2> QED  BY <2>1
  <1> QED  BY <1>4

\* Min and Max of two numbers.
LEMMA MaxOfTwo ==
    ASSUME NEW a \in Int, NEW b \in Int
    PROVE  Max({a, b}) = IF a >= b THEN a ELSE b
  <1>1. \E m \in {a, b} : \A y \in {a, b} : m >= y
    <2>1. CASE a >= b
      BY <2>1
    <2>2. CASE ~(a >= b)
      BY <2>2
    <2> QED  BY <2>1, <2>2
  <1>2. PICK m : m = Max({a, b})
    OBVIOUS
  <1>3. m \in {a, b} /\ \A y \in {a, b} : m >= y
    BY <1>1, <1>2 DEF Max
  <1>4. m >= a /\ m >= b /\ (m = a \/ m = b)
    BY <1>3
  <1> QED  BY <1>2, <1>4, SMT

LEMMA MinOfTwo ==
    ASSUME NEW a \in Int, NEW b \in Int
    PROVE  Min({a, b}) = IF a < b THEN a ELSE b
  <1>1. \E m \in {a, b} : \A y \in {a, b} : m =< y
    <2>1. CASE a < b
      BY <2>1
    <2>2. CASE ~(a < b)
      BY <2>2
    <2> QED  BY <2>1, <2>2
  <1>2. PICK m : m = Min({a, b})
    OBVIOUS
  <1>3. m \in {a, b} /\ \A y \in {a, b} : m =< y
    BY <1>1, <1>2 DEF Min
  <1>4. m <= a /\ m <= b /\ (m = a \/ m = b)
    BY <1>3
  <1> QED  BY <1>2, <1>4, SMT

\* The number of ranks is one of the array's indices, or none.
LEMMA WantFact == Want \in 0 .. NumExperts
  <1>1. /\ TopK + SpecWidth \in Nat /\ RankWidth \in Nat /\ NumExperts \in Nat
    BY SelectionAssumption
  <1> DEFINE W == {TopK + SpecWidth, RankWidth, NumExperts}
  <1>2. W \in SUBSET Nat /\ W # {} /\ NumExperts \in W
    BY <1>1
  <1>3. \E m \in W : \A n \in W : m =< n
    <2> HIDE DEF W
    <2> QED  BY <1>2, Least
  <1>4. Min(W) \in W /\ \A n \in W : Min(W) =< n
    <2> HIDE DEF W
    <2> QED  BY <1>3 DEF Min
  <1>5. Min(W) \in Nat /\ Min(W) <= NumExperts
    BY <1>2, <1>4
  <1> QED  BY <1>1, <1>5 DEF Want

\* A swap permutes the array.
LEMMA SwapFact ==
    ASSUME NEW n \in Nat, NEW f, DOMAIN f = 1 .. n, NEW i \in 1 .. n, NEW j \in 1 .. n,
           NEW g, g = Swap(f, i, j)
    PROVE  /\ g[i] = f[j] /\ g[j] = f[i]
           /\ \A k \in 1 .. n : k # i /\ k # j => g[k] = f[k]
           /\ Range(g) = Range(f)
           /\ IsInjective(f) => IsInjective(g)
           /\ \A T : f \in [1 .. n -> T] => g \in [1 .. n -> T]
  <1>1. /\ DOMAIN g = 1 .. n
        /\ g[i] = f[j] /\ g[j] = f[i] /\ \A k \in 1 .. n : k # i /\ k # j => g[k] = f[k]
        /\ \A T : f \in [1 .. n -> T] => g \in [1 .. n -> T]
    BY DEF Swap
  <1>2. \A x : (\E k \in 1 .. n : g[k] = x) <=> (\E k \in 1 .. n : f[k] = x)
    BY <1>1
  <1>3. Range(g) = Range(f)
    BY <1>1, <1>2 DEF Range
  <1>4. IsInjective(f) => IsInjective(g)
    BY <1>1 DEF IsInjective
  <1> QED  BY <1>1, <1>3, <1>4

----------------------------------------------------------------------------
(* The router *)

\* The search finds the first of the best entries from s on.
LEMMA BestFact ==
    ASSUME score \in [Experts -> Scores], list \in [1 .. NumExperts -> Experts],
           NEW s \in 1 .. NumExperts
    PROVE  /\ Best(s) \in s .. NumExperts
           /\ \A j \in s .. NumExperts : P(j) <= P(Best(s))
  <1>1. \A j \in s .. NumExperts : P(j) \in Nat /\ P(j) <= MaxScore /\ MaxScore - P(j) \in Nat
    BY Sizes, SMT DEF P, Scores
  <1> DEFINE Gaps == {MaxScore - P(j) : j \in s .. NumExperts}
  <1>2. Gaps \in SUBSET Nat /\ Gaps # {}
    <2>1. s \in s .. NumExperts
      BY Sizes
    <2> QED  BY <1>1, <2>1
  <1>3. \E m \in Gaps : \A n \in Gaps : m <= n
    <2> HIDE DEF Gaps
    <2> QED  BY <1>2, Least
  <1>4. PICK b \in s .. NumExperts : \A j \in s .. NumExperts : MaxScore - P(b) <= MaxScore - P(j)
    BY <1>3
  <1>5. \A j \in s .. NumExperts : P(j) <= P(b)
    BY <1>1, <1>4, Sizes, SMT
  <1> DEFINE Firsts == {j \in s .. NumExperts : P(j) = P(b)}
  <1>6. \E m \in Firsts : \A n \in Firsts : m <= n
    <2>1. Firsts \in SUBSET Nat /\ b \in Firsts
      BY Sizes
    <2> HIDE DEF Firsts
    <2> QED  BY <2>1, Least
  <1>7. PICK m \in s .. NumExperts : /\ P(m) = P(b)
                                     /\ \A j \in s .. NumExperts : P(j) = P(b) => m <= j
    BY <1>6
  <1>8. \A j \in s .. NumExperts : P(j) <= P(m) /\ (P(j) = P(m) => m <= j)
    BY <1>5, <1>7
  <1>9. \E i \in s .. NumExperts :
          \A j \in s .. NumExperts :
            score[list[j]] <= score[list[i]] /\ (score[list[j]] = score[list[i]] => i <= j)
    BY <1>8 DEF P
  <1>10. /\ Best(s) \in s .. NumExperts
         /\ \A j \in s .. NumExperts :
              /\ score[list[j]] <= score[list[Best(s)]]
              /\ score[list[j]] = score[list[Best(s)]] => Best(s) <= j
    BY <1>9 DEF Best
  <1> QED  BY <1>10 DEF P

LEMMA BeginRanksKeeps ==
    ASSUME IInv, BeginRanks
    PROVE  IInv'
  <1>1. pc' = "rank" /\ at' = 0 /\ heapify' = 0 /\ pos' = 0 /\ score' \in [Experts -> Scores]
        /\ list' = [i \in 1 .. NumExperts |-> i - 1]
    BY DEF IInv, BeginRanks
  <1>2. list' \in [1 .. NumExperts -> Experts] /\ IsInjective(list')
    BY <1>1, Sizes, SMT DEF Experts, IsInjective
  <1>3. pos' \in 0 .. Want
    BY <1>1, WantFact, Sizes, SMT
  <1>4. Want' = Want
    BY DEF Want
  <1>5. RankOK'
    <2>1. 1 .. 0 = {}
      OBVIOUS
    <2> QED  BY <1>1, <1>2, <1>3, <1>4, <2>1 DEF RankOK, Experts, Scores, IsInjective
  <1> QED  BY <1>1, <1>5 DEF IInv

\* The next rank gets the best of the rest.
LEMMA SelectRankKeeps ==
    ASSUME IInv, SelectRank
    PROVE  IInv'
  <1>1. RankOK /\ pc = "rank" /\ pc' = "rank" /\ at' = 0 /\ heapify' = 0 /\ score' = score
        /\ pos' = pos + 1 /\ pos < Want
    BY DEF IInv, SelectRank
  <1>0. PICK s : s = pos + 1
    OBVIOUS
  <1>2. /\ pos \in Nat /\ s = pos + 1 /\ s \in 1 .. NumExperts /\ pos' \in 0 .. Want
    BY <1>0, <1>1, WantFact, Sizes, SMT DEF RankOK
  <1>3. PICK b : b = Best(s)
    OBVIOUS
  <1>4. b \in s .. NumExperts /\ \A j \in s .. NumExperts : P(j) <= P(b)
    BY <1>1, <1>2, <1>3, BestFact DEF RankOK
  <1>5. b \in 1 .. NumExperts
    BY <1>2, <1>4, Sizes, SMT
  <1>6. /\ list' \in [1 .. NumExperts -> Experts] /\ IsInjective(list')
        /\ list'[s] = list[b] /\ list'[b] = list[s]
        /\ \A k \in 1 .. NumExperts : k # s /\ k # b => list'[k] = list[k]
    <2>1. list' = Swap(list, s, b)
      BY <1>0, <1>3 DEF SelectRank
    <2>2. list \in [1 .. NumExperts -> Experts] /\ IsInjective(list) /\ NumExperts \in Nat
      BY <1>1, Sizes DEF RankOK
    <2>3. DOMAIN list = 1 .. NumExperts
      BY <2>2
    <2>4. /\ list'[s] = list[b] /\ list'[b] = list[s]
          /\ \A k \in 1 .. NumExperts : k # s /\ k # b => list'[k] = list[k]
          /\ IsInjective(list) => IsInjective(list')
          /\ \A T : list \in [1 .. NumExperts -> T] => list' \in [1 .. NumExperts -> T]
      BY <1>2, <1>5, <2>1, <2>2, <2>3, SwapFact
    <2> QED  BY <2>2, <2>4
  <1>7. /\ P(s)' = P(b) /\ P(b)' = P(s)
        /\ \A k \in 1 .. NumExperts : k # s /\ k # b => P(k)' = P(k)
    BY <1>1, <1>6 DEF P
  <1>8. ASSUME NEW i \in 1 .. pos', NEW j \in i .. NumExperts
        PROVE  P(j)' <= P(i)'
    <2>1. CASE i <= pos
      <3>1. /\ i \in 1 .. pos /\ i \in 1 .. NumExperts /\ i # s /\ i # b
            /\ j \in 1 .. NumExperts /\ b \in i .. NumExperts /\ s \in i .. NumExperts
        BY <1>1, <1>2, <1>4, <1>8, <2>1, Sizes, SMT
      <3>2. \A k \in i .. NumExperts : P(k) <= P(i)
        BY <1>1, <3>1 DEF RankOK
      <3>3. P(i)' = P(i)
        BY <1>7, <3>1
      <3>4. P(j)' = P(j) \/ P(j)' = P(b) \/ P(j)' = P(s)
        BY <1>7, <3>1
      <3> QED  BY <1>8, <3>1, <3>2, <3>3, <3>4
    <2>2. CASE ~(i <= pos)
      <3>1. i = s
        BY <1>1, <1>2, <1>8, <2>2, SMT
      <3>2. j \in s .. NumExperts /\ j \in 1 .. NumExperts /\ s \in s .. NumExperts
        BY <1>2, <1>8, <3>1, Sizes, SMT
      <3>3. P(i)' = P(b)
        BY <1>7, <3>1
      <3>4. P(j)' = P(j) \/ P(j)' = P(b) \/ P(j)' = P(s)
        BY <1>7, <3>2
      <3> QED  BY <1>4, <3>2, <3>3, <3>4
    <2> QED  BY <2>1, <2>2
  <1>9. Want' = Want
    BY DEF Want
  <1>10. RankOK'
    BY <1>1, <1>2, <1>6, <1>8, <1>9 DEF RankOK, Experts, Scores, IsInjective, P
  <1> QED  BY <1>1, <1>10 DEF IInv

----------------------------------------------------------------------------
(* The penalty *)

LEMMA WindowFact ==
    ASSUME NEW n \in Nat
    PROVE  Max({0, n - Window}) \in 0 .. n
  <1>1. n - Window \in Int /\ 0 \in Int
    BY Sizes
  <1>2. Max({0, n - Window}) = IF 0 >= n - Window THEN 0 ELSE n - Window
    BY <1>1, MaxOfTwo
  <1> QED  BY <1>2, Sizes, SMT

\* A function on an initial segment is a sequence.
LEMMA FunctionSeq ==
    ASSUME NEW T, NEW n \in Nat, NEW f \in [1 .. n -> T]
    PROVE  f \in Seq(T) /\ Len(f) = n
  <1>1. f \in Seq(T)
    BY SeqDef
  <1>2. DOMAIN f = 1 .. n /\ DOMAIN f = 1 .. Len(f) /\ Len(f) \in Nat
    BY <1>1, LenProperties
  <1>3. Len(f) = n
    BY <1>2, SMT
  <1> QED  BY <1>1, <1>3

LEMMA BeginPenaltyKeeps ==
    ASSUME IInv, BeginPenalty
    PROVE  IInv'
  <1>1. pc' = "penalty" /\ at' = 0 /\ heapify' = 0 /\ penalty' = [t \in Tokens |-> 0]
    BY DEF IInv, BeginPenalty
  <1>2. PICK n \in Nat : hist' \in [1 .. n -> Tokens] /\ pos' = Max({0, n - Window})
    <2>1. PICK n \in 0 .. MaxHistory :
            \E h \in [1 .. n -> Tokens] : hist' = h /\ pos' = Max({0, n - Window})
      BY Zenon DEF BeginPenalty
    <2>2. n \in Nat
      BY Sizes
    <2> QED  BY <2>1, <2>2
  <1>3. hist' \in Seq(Tokens) /\ Len(hist') = n
    BY <1>2, FunctionSeq
  <1>4. pos' \in 0 .. n /\ WindowStart' = pos'
    BY <1>2, <1>3, WindowFact DEF WindowStart
  <1>5. pos' \in WindowStart' .. Len(hist') /\ (WindowStart' + 1) .. pos' = {}
    <2>1. \A w \in 0 .. n : w \in w .. n /\ (w + 1) .. w = {}
      BY SMT
    <2> QED  BY <1>3, <1>4, <2>1
  <1>6. PenaltyOK'
    BY <1>1, <1>3, <1>5 DEF PenaltyOK, Tokens
  <1> QED  BY <1>1, <1>6 DEF IInv

\* The next entry of the window: penalised unless it is exempt or was seen.
LEMMA PenaliseNextKeeps ==
    ASSUME IInv, PenaliseNext
    PROVE  IInv'
  <1>1. /\ PenaltyOK /\ pc = "penalty" /\ pc' = "penalty" /\ at' = 0 /\ heapify' = 0
        /\ hist' = hist /\ pos' = pos + 1 /\ pos < Len(hist)
    BY DEF IInv, PenaliseNext
  <1>2. WindowStart' = WindowStart
    BY <1>1 DEF WindowStart
  <1>3. WindowStart \in 0 .. Len(hist) /\ Len(hist) \in Nat
    BY <1>1, LenProperties, WindowFact DEF PenaltyOK, WindowStart
  <1>4. PICK u : u = hist[pos + 1]
    OBVIOUS
  <1>5. pos \in Nat /\ pos + 1 \in 1 .. Len(hist) /\ pos' \in WindowStart .. Len(hist)
    BY <1>1, <1>3, SMT DEF PenaltyOK
  <1>6. u \in Tokens
    BY <1>1, <1>4, <1>5, ElementOfSeq DEF PenaltyOK
  <1>7. Seen(pos + 1) <=> \E j \in (WindowStart + 1) .. pos : hist[j] = u
    <2>1. PICK k : k = pos + 1
      OBVIOUS
    <2>2. k - 1 = pos
      BY <1>5, <2>1
    <2>3. Seen(k) <=> \E j \in (WindowStart + 1) .. pos : hist[j] = u
      BY <1>4, <2>1, <2>2 DEF Seen
    <2> QED  BY <2>1, <2>3
  <1>8. penalty' = IF u \in Exempt \/ Seen(pos + 1) THEN penalty
                   ELSE [penalty EXCEPT ![u] = penalty[u] + 1]
    BY <1>4 DEF PenaliseNext
  <1>9. penalty' \in [Tokens -> Nat]
    BY <1>1, <1>6, <1>8 DEF PenaltyOK
  <1>10. \A t : (\E i \in (WindowStart + 1) .. pos' : hist[i] = t)
                   <=> (\E i \in (WindowStart + 1) .. pos : hist[i] = t) \/ t = u
    <2>1. \A i : i \in (WindowStart + 1) .. pos' <=> i \in (WindowStart + 1) .. pos \/ i = pos + 1
      BY <1>1, <1>3, <1>5, SMT DEF PenaltyOK
    <2> QED  BY <1>4, <2>1
  <1>11. ASSUME NEW t \in Tokens
         PROVE  penalty'[t] = IF t \notin Exempt /\ \E i \in (WindowStart + 1) .. pos' : hist[i] = t
                              THEN 1 ELSE 0
    <2>1. penalty[t] = IF t \notin Exempt /\ \E i \in (WindowStart + 1) .. pos : hist[i] = t
                       THEN 1 ELSE 0
      BY <1>1, <1>11 DEF PenaltyOK
    <2>2. CASE t = u
      <3>1. CASE u \in Exempt \/ Seen(pos + 1)
        BY <1>7, <1>8, <1>10, <2>1, <2>2, <3>1
      <3>2. CASE ~(u \in Exempt \/ Seen(pos + 1))
        <4>1. penalty[u] = 0
          BY <1>7, <2>1, <2>2, <3>2
        <4>2. penalty'[u] = penalty[u] + 1
          BY <1>1, <1>6, <1>8, <3>2 DEF PenaltyOK
        <4> QED  BY <1>10, <2>2, <3>2, <4>1, <4>2
      <3> QED  BY <3>1, <3>2
    <2>3. CASE t # u
      <3>1. penalty'[t] = penalty[t]
        BY <1>1, <1>8, <1>11, <2>3 DEF PenaltyOK
      <3> QED  BY <1>10, <2>1, <2>3, <3>1
    <2> QED  BY <2>2, <2>3
  <1>12. PenaltyOK'
    BY <1>1, <1>2, <1>5, <1>9, <1>11 DEF PenaltyOK, Tokens
  <1> QED  BY <1>1, <1>12 DEF IInv

----------------------------------------------------------------------------
(* The heap *)

\* The heap's entries are tokens with a score.
LEMMA HeapTyped ==
    ASSUME ScanOK
    PROVE  /\ Len(list) \in Nat /\ DOMAIN list = 1 .. Len(list) /\ list \in [1 .. Len(list) -> Tokens]
           /\ \A i \in 1 .. Len(list) : list[i] \in Tokens /\ P(i) \in Nat
           /\ \A t \in Tokens : score[t] \in Nat
           /\ \A x : x \in Range(list) <=> \E i \in 1 .. Len(list) : list[i] = x
           /\ pos \in Nat
  <1>1. /\ Len(list) \in Nat /\ DOMAIN list = 1 .. Len(list) /\ list \in [1 .. Len(list) -> Tokens]
    BY LenProperties DEF ScanOK
  <1>2. \A t \in Tokens : score[t] \in Nat
    BY Sizes, SMT DEF ScanOK, Scores
  <1>3. \A x : x \in Range(list) <=> \E i \in 1 .. Len(list) : list[i] = x
    BY <1>1 DEF Range
  <1>4. \A i \in 1 .. Len(list) : list[i] \in Tokens /\ P(i) \in Nat
    BY <1>1, <1>2 DEF P
  <1> QED  BY <1>1, <1>2, <1>3, <1>4 DEF ScanOK

\* The root of a heap is its least entry.
LEMMA RootLeast ==
    ASSUME ScanOK, HeapOK, at = 0, Len(list) = Capacity
    PROVE  \A i \in 1 .. Capacity : P(1) <= P(i)
  <1>1. \A i \in 1 .. Capacity : P(i) \in Nat
    BY HeapTyped
  <1>2. 1 \in 1 .. Capacity /\ Capacity \in Nat
    BY Sizes
  <1>3. \A i \in 1 .. Capacity : \A k \in 1 .. Capacity : k = 2 * i \/ k = 2 * i + 1 => P(i) <= P(k)
    <2>1. From = 1
      BY DEF HeapOK, From
    <2>2. \A i \in 1 .. Capacity : i # at
      BY <1>2
    <2> QED  BY <2>1, <2>2 DEF HeapOK, Children
  <1> DEFINE Less == {i \in 1 .. Capacity : ~(P(1) <= P(i))}
  <1>4. ASSUME Less # {} PROVE FALSE
    <2>1. Less \in SUBSET Nat
      BY <1>2
    <2>2. \E m \in Less : \A n \in Less : m <= n
      <3> HIDE DEF Less
      <3> QED  BY <1>4, <2>1, Least
    <2>3. PICK m \in 1 .. Capacity : ~(P(1) <= P(m)) /\ \A n \in 1 .. Capacity : ~(P(1) <= P(n)) => m <= n
      BY <2>2
    <2>4. m # 1
      BY <1>1, <1>2, <2>3, SMT
    <2>5. PICK g \in 1 .. Capacity : g < m /\ (m = 2 * g \/ m = 2 * g + 1)
      <3>1. \A k \in Nat : k > 1 => \E g \in Nat : g >= 1 /\ g < k /\ (k = 2 * g \/ k = 2 * g + 1)
        <4> SUFFICES ASSUME NEW k \in Nat, k > 1
                     PROVE  \E g \in Nat : g >= 1 /\ g < k /\ (k = 2 * g \/ k = 2 * g + 1)
          OBVIOUS
        <4>1. /\ k \div 2 \in Nat /\ k \div 2 >= 1 /\ k \div 2 < k
              /\ k = 2 * (k \div 2) \/ k = 2 * (k \div 2) + 1
          BY SMT
        <4> QED  BY <4>1
      <3>2. m \in Nat /\ m > 1 /\ m <= Capacity
        BY <1>2, <2>3, <2>4, SMT
      <3>3. PICK g \in Nat : g >= 1 /\ g < m /\ (m = 2 * g \/ m = 2 * g + 1)
        BY <3>1, <3>2
      <3>4. g \in 1 .. Capacity
        BY <1>2, <3>2, <3>3, SMT
      <3> QED  BY <3>3, <3>4
    <2>6. P(g) <= P(m)
      BY <1>3, <2>5
    <2>7. P(1) <= P(g)
      BY <2>3, <2>5, SMT
    <2> QED  BY <1>1, <1>2, <2>3, <2>6, <2>7, SMT
  <1> QED  BY <1>4

LEMMA BeginScanKeeps ==
    ASSUME IInv, BeginScan
    PROVE  IInv'
  <1>1. /\ pc' = "scan" /\ at' = 0 /\ heapify' = 0 /\ pos' = 0 /\ list' = <<>>
        /\ score' \in [Tokens -> Scores]
    BY DEF IInv, BeginScan
  <1>2. list' \in Seq(Tokens) /\ Len(list') = 0 /\ DOMAIN list' = 1 .. 0 /\ 1 .. 0 = {}
    <2>1. list' \in Seq(Tokens) /\ Len(list') = 0
      BY <1>1, EmptySeq
    <2> QED  BY <2>1, LenProperties
  <1>3. ScanOK'
    <2>1. 0 < Capacity /\ 0 \in 0 .. VocabSize /\ 0 .. 0 - 1 = {} /\ 1 .. 0 = {}
      BY Sizes, SMT
    <2> QED  BY <1>1, <1>2, <2>1 DEF ScanOK, Tokens, Scores, IsInjective
  <1>4. HeapOK'
    <2>1. Capacity # 0 /\ 0 \in 0 .. Capacity
      BY Sizes
    <2> QED  BY <1>1, <1>2, <2>1 DEF HeapOK
  <1> QED  BY <1>1, <1>3, <1>4 DEF IInv

\* Another token fills the array; the last one starts the heap's building.
LEMMA FillKeeps ==
    ASSUME IInv, Fill
    PROVE  IInv'
  <1>1. /\ ScanOK /\ HeapOK /\ pc = "scan" /\ pc' = "scan" /\ at = 0 /\ heapify = 0
        /\ pos < VocabSize /\ Len(list) < Capacity
        /\ list' = Append(list, pos) /\ pos' = pos + 1 /\ score' = score
        /\ at' = (IF Len(list) + 1 = Capacity THEN Capacity \div 2 ELSE 0) /\ heapify' = at'
    BY DEF IInv, Fill, HeapOK
  <1>2. /\ pos \in Nat /\ list \in Seq(Tokens) /\ DOMAIN list = 1 .. Len(list)
        /\ Len(list) = pos /\ pos < Capacity
    BY <1>1, HeapTyped, Sizes, SMT DEF ScanOK
  <1>3. pos \in Tokens
    BY <1>1, <1>2, Sizes, SMT DEF Tokens
  <1>4. /\ list' \in Seq(Tokens) /\ Len(list') = pos + 1
        /\ \A i \in 1 .. pos : list'[i] = list[i]
        /\ list'[pos + 1] = pos
    BY <1>1, <1>2, <1>3, AppendProperties
  <1>5. DOMAIN list' = 1 .. pos + 1
    BY <1>4, LenProperties
  <1>6. \A i \in 1 .. pos + 1 : list'[i] = i - 1
    BY <1>1, <1>2, <1>4, SMT DEF ScanOK
  <1>7. ScanOK'
    <2>1. IsInjective(list')
      BY <1>2, <1>5, <1>6, SMT DEF IsInjective
    <2>2. pos' \in 0 .. VocabSize /\ pos' = pos + 1
      BY <1>1, <1>2, Sizes, SMT
    <2>3. Len(list') = (IF pos' < Capacity THEN pos' ELSE Capacity)
      BY <1>2, <1>4, <2>2, Sizes, SMT
    <2>4. \A i \in 1 .. Len(list') : list'[i] < pos'
      BY <1>2, <1>4, <1>6, <2>2, SMT
    <2>5. \A t \in 0 .. pos' - 1 : t \in Range(list')
      <3> SUFFICES ASSUME NEW t \in 0 .. pos' - 1 PROVE t \in Range(list')
        OBVIOUS
      <3>1. t + 1 \in 1 .. pos + 1 /\ t + 1 - 1 = t
        BY <1>2, <2>2, SMT
      <3>2. list'[t + 1] = t
        BY <1>6, <3>1
      <3> QED  BY <1>5, <3>1, <3>2 DEF Range
    <2> QED  BY <1>1, <1>4, <1>6, <2>1, <2>2, <2>3, <2>4, <2>5
             DEF ScanOK, Tokens, Scores, IsInjective, Range
  <1>8. HeapOK'
    <2>1. CASE pos + 1 = Capacity
      <3>1. PICK h : h = Capacity \div 2
        OBVIOUS
      <3>2. h \in 0 .. Capacity /\ (Capacity = 2 * h \/ Capacity = 2 * h + 1)
        BY <3>1, Sizes, SMT
      <3>3. at' = h /\ heapify' = h /\ Len(list') = Capacity
        BY <1>1, <1>2, <1>4, <2>1, <3>1
      <3>4. CASE h = 0
        <4>1. From' = 1 /\ \A i \in 1 .. Capacity : Children(i) = {}
          BY <3>2, <3>3, <3>4, Sizes, SMT DEF From, Children
        <4>2. h \notin 1 .. Capacity
          BY <3>4
        <4> QED  BY <3>2, <3>3, <3>4, <4>1, <4>2 DEF HeapOK, Children
      <3>5. CASE h # 0
        <4>1. From' = h
          BY <3>3, <3>5 DEF From
        <4>2. \A i \in h .. Capacity : (i # h => Children(i) = {}) /\ h \notin Children(i)
          BY <3>2, <3>5, Sizes, SMT DEF Children
        <4> QED  BY <3>2, <3>3, <3>5, <4>1, <4>2 DEF HeapOK, Children
      <3> QED  BY <3>4, <3>5
    <2>2. CASE pos + 1 # Capacity
      <3>1. at' = 0 /\ heapify' = 0 /\ Len(list') # Capacity
        BY <1>1, <1>2, <1>4, <2>2
      <3> QED  BY <3>1, Sizes DEF HeapOK
    <2> QED  BY <2>1, <2>2
  <1> QED  BY <1>1, <1>7, <1>8 DEF IInv

\* A full heap was scanned past its size.
LEMMA FullHeap ==
    ASSUME ScanOK, Len(list) = Capacity
    PROVE  pos >= Capacity /\ pos \in Nat
  BY HeapTyped, Sizes, SMT DEF ScanOK

\* A better token takes the root's place: the root was the least, so nothing
\* that is not in the heap is better than what is.
LEMMA ReplaceKeeps ==
    ASSUME IInv, Replace
    PROVE  IInv'
  <1>1. /\ ScanOK /\ HeapOK /\ pc = "scan" /\ pc' = "scan" /\ at = 0 /\ heapify = 0
        /\ pos < VocabSize /\ Len(list) = Capacity /\ score[pos] > P(1)
        /\ list' = [list EXCEPT ![1] = pos] /\ pos' = pos + 1 /\ score' = score
        /\ at' = 1 /\ heapify' = 0
    BY DEF IInv, Replace, HeapOK
  <1>2. /\ pos \in Nat /\ pos >= Capacity /\ Capacity \in Nat /\ 1 \in 1 .. Capacity
        /\ DOMAIN list = 1 .. Capacity /\ list \in [1 .. Capacity -> Tokens]
        /\ \A i \in 1 .. Capacity : list[i] \in Tokens /\ P(i) \in Nat
        /\ \A t \in Tokens : score[t] \in Nat
    BY <1>1, HeapTyped, FullHeap, Sizes
  <1>3. pos \in Tokens
    BY <1>1, <1>2, Sizes, SMT DEF Tokens
  <1>4. /\ list' \in [1 .. Capacity -> Tokens] /\ DOMAIN list' = 1 .. Capacity
        /\ list'[1] = pos /\ \A i \in 1 .. Capacity : i # 1 => list'[i] = list[i]
    BY <1>1, <1>2, <1>3
  <1>5. list' \in Seq(Tokens) /\ Len(list') = Capacity
    BY <1>2, <1>4, FunctionSeq
  <1>6. \A i \in 1 .. Capacity : list[i] \in Nat /\ list[i] < pos /\ list[i] # pos
    <2>1. \A i \in 1 .. Capacity : list[i] < pos
      BY <1>1 DEF ScanOK
    <2> QED  BY <1>2, <2>1, Sizes, SMT DEF Tokens
  <1>7. IsInjective(list')
    BY <1>1, <1>2, <1>4, <1>6 DEF ScanOK, IsInjective
  <1>8. \A i \in 1 .. Capacity : score[list[1]] <= score[list[i]]
    BY <1>1, RootLeast DEF P
  <1>9. /\ \A u : u \in Range(list') <=> \E i \in 1 .. Capacity : list'[i] = u
        /\ \A u : u \in Range(list) <=> \E i \in 1 .. Capacity : list[i] = u
    BY <1>2, <1>4 DEF Range
  <1>10. \A u \in Range(list') : u = pos \/ u \in Range(list)
    BY <1>4, <1>9
  <1>11. ASSUME NEW t \in 0 .. pos' - 1, t \notin Range(list'), NEW u \in Range(list')
         PROVE  score[t] <= score[u]
    <2>1. t # pos
      BY <1>2, <1>4, <1>9, <1>11
    <2>2. t \in 0 .. pos - 1
      BY <1>1, <1>2, <1>11, <2>1, SMT
    <2>3. t \in Tokens /\ score[t] \in Nat
      <3>1. t \in Tokens
        BY <1>1, <1>2, <2>2, Sizes, SMT DEF Tokens
      <3> QED  BY <1>2, <3>1
    <2>4. score[list[1]] \in Nat /\ score[list[1]] < score[pos] /\ score[pos] \in Nat
      <3>1. P(1) \in Nat /\ score[pos] > P(1) /\ score[pos] \in Nat
        BY <1>1, <1>2, <1>3
      <3> QED  BY <3>1, SMT DEF P
    <2>5. score[t] <= score[list[1]]
      <3>1. CASE t \in Range(list)
        <4>1. t = list[1]
          BY <1>4, <1>9, <1>11, <3>1
        <4> QED  BY <2>3, <4>1
      <3>2. CASE t \notin Range(list)
        <4>1. list[1] \in Range(list)
          BY <1>2, <1>9
        <4> QED  BY <1>1, <2>2, <3>2, <4>1 DEF ScanOK
      <3> QED  BY <3>1, <3>2
    <2>6. CASE u = pos
      BY <2>3, <2>4, <2>5, <2>6, SMT
    <2>7. CASE u \in Range(list)
      <3>1. PICK i \in 1 .. Capacity : list[i] = u
        BY <1>9, <2>7
      <3>2. score[list[1]] <= score[u] /\ score[u] \in Nat
        BY <1>2, <1>8, <3>1
      <3> QED  BY <2>3, <2>4, <2>5, <3>2, SMT
    <2> QED  BY <1>10, <1>11, <2>6, <2>7
  <1>12. ScanOK'
    <2>1. pos' \in 0 .. VocabSize /\ ~(pos' < Capacity)
      BY <1>1, <1>2, Sizes, SMT
    <2>2. \A i \in 1 .. Len(list') : list'[i] < pos'
      <3>1. \A i \in 1 .. Capacity : list'[i] = pos \/ list'[i] = list[i]
        BY <1>4
      <3>2. \A x \in Nat : x <= pos => x < pos + 1
        BY <1>2, SMT
      <3>3. \A i \in 1 .. Capacity : list[i] < pos + 1
        BY <1>2, <1>6, SMT
      <3> QED  BY <1>1, <1>2, <1>5, <3>1, <3>2, <3>3
    <2> QED  BY <1>1, <1>5, <1>7, <1>11, <2>1, <2>2
             DEF ScanOK, Tokens, Scores, IsInjective, Range
  <1>13. HeapOK'
    <2>1. From' = 1 /\ From = 1
      BY <1>1 DEF From
    <2>2. \A i \in 1 .. Capacity : 1 \notin Children(i)
      BY <1>2, SMT DEF Children
    <2>3. ASSUME NEW i \in 1 .. Capacity, i # 1, NEW k \in Children(i)
          PROVE  P(i)' <= P(k)'
      <3>1. k \in 1 .. Capacity /\ k # 1
        BY <2>2, <2>3 DEF Children
      <3>2. P(i)' = P(i) /\ P(k)' = P(k)
        BY <1>1, <1>4, <2>3, <3>1 DEF P
      <3>3. i # at
        BY <1>1, <1>2, <2>3
      <3>4. P(i) <= P(k)
        BY <1>1, <2>1, <2>3, <3>3 DEF HeapOK
      <3> QED  BY <3>2, <3>4
    <2>4. 1 \in 0 .. Capacity /\ 0 \in 0 .. Capacity /\ 1 <= 1
      BY <1>2
    <2> QED  BY <1>1, <1>5, <2>1, <2>2, <2>3, <2>4 DEF HeapOK, Children, P
  <1> QED  BY <1>1, <1>12, <1>13 DEF IInv

\* A token no better than the root is passed over.
LEMMA PassOverKeeps ==
    ASSUME IInv, PassOver
    PROVE  IInv'
  <1>1. /\ ScanOK /\ HeapOK /\ pc = "scan" /\ pc' = "scan" /\ at = 0 /\ heapify = 0
        /\ pos < VocabSize /\ Len(list) = Capacity /\ score[pos] <= P(1)
        /\ list' = list /\ pos' = pos + 1 /\ score' = score /\ at' = 0 /\ heapify' = 0
    BY DEF IInv, PassOver, HeapOK
  <1>2. /\ pos \in Nat /\ pos >= Capacity /\ Capacity \in Nat /\ 1 \in 1 .. Capacity
        /\ \A i \in 1 .. Capacity : list[i] \in Tokens /\ P(i) \in Nat
        /\ \A t \in Tokens : score[t] \in Nat
        /\ \A u : u \in Range(list) <=> \E i \in 1 .. Capacity : list[i] = u
    BY <1>1, HeapTyped, FullHeap, Sizes
  <1>3. pos \in Tokens
    BY <1>1, <1>2, Sizes, SMT DEF Tokens
  <1>4. \A u \in Range(list) : score[pos] <= score[u]
    <2> SUFFICES ASSUME NEW u \in Range(list) PROVE score[pos] <= score[u]
      OBVIOUS
    <2>1. PICK i \in 1 .. Capacity : list[i] = u
      BY <1>2
    <2>2. P(1) <= P(i) /\ P(1) \in Nat /\ P(i) \in Nat /\ score[pos] \in Nat /\ P(i) = score[u]
      <3>1. P(1) <= P(i)
        BY <1>1, RootLeast
      <3>2. P(i) = score[u]
        BY <2>1 DEF P
      <3> QED  BY <1>2, <1>3, <3>1, <3>2
    <2> QED  BY <1>1, <2>2, SMT
  <1>5. \A t \in 0 .. pos' - 1 : t \in 0 .. pos - 1 \/ t = pos
    BY <1>1, <1>2, SMT
  <1>6. ScanOK'
    <2>1. pos' \in 0 .. VocabSize /\ ~(pos' < Capacity)
      BY <1>1, <1>2, Sizes, SMT
    <2>2. \A i \in 1 .. Len(list') : list'[i] < pos'
      <3>1. \A i \in 1 .. Capacity : list[i] < pos /\ list[i] \in Nat
        BY <1>1, <1>2, Sizes DEF ScanOK, Tokens
      <3>2. \A x \in Nat : x < pos => x < pos + 1
        BY <1>2, SMT
      <3> QED  BY <1>1, <3>1, <3>2
    <2>3. \A t \in 0 .. pos' - 1 : t \in Range(list) \/ \A u \in Range(list) : score[t] <= score[u]
      BY <1>1, <1>4, <1>5 DEF ScanOK
    <2> QED  BY <1>1, <2>1, <2>2, <2>3 DEF ScanOK, Tokens, Scores, IsInjective, Range
  <1>7. HeapOK'
    BY <1>1 DEF HeapOK, From, Children, P
  <1> QED  BY <1>1, <1>6, <1>7 DEF IInv

\* The parts of a sift: which of an entry and its children is the least.
LEMMA SmallestFact ==
    ASSUME ScanOK, Len(list) = Capacity, NEW i \in 1 .. Capacity
    PROVE  /\ Smallest(i) = i \/ (Smallest(i) \in Children(i) /\ P(Smallest(i)) < P(i))
           /\ \A k \in Children(i) : P(Smallest(i)) <= P(k)
           /\ P(Smallest(i)) <= P(i)
  <1>1. \A k \in 1 .. Capacity : P(k) \in Nat
    BY HeapTyped
  <1>2. i \in Nat /\ Capacity \in Nat /\ 1 <= i
    BY Sizes, SMT
  <1>3. PICK l, r : l = 2 * i /\ r = l + 1
    OBVIOUS
  <1>4. l \in Nat /\ r \in Nat /\ r = l + 1 /\ i < l /\ 1 <= l /\ 1 <= r
    BY <1>2, <1>3, SMT
  <1>5. /\ l <= Capacity <=> l \in 1 .. Capacity
        /\ r <= Capacity <=> r \in 1 .. Capacity
        /\ r <= Capacity => l <= Capacity
    BY <1>2, <1>4, SMT
  <1>6. \A k : k \in Children(i) <=> k \in 1 .. Capacity /\ (k = l \/ k = r)
    BY <1>3 DEF Children
  <1>7. PICK m : m = IF l <= Capacity /\ P(l) < P(i) THEN l ELSE i
    OBVIOUS
  <1>8. PICK b : b = IF r <= Capacity /\ P(r) < P(m) THEN r ELSE m
    OBVIOUS
  <1>9. Smallest(i) = b
    BY <1>3, <1>7, <1>8 DEF Smallest
  <1>10. /\ m = i \/ (m \in Children(i) /\ P(m) < P(i))
         /\ P(m) \in Nat /\ P(m) <= P(i) /\ (l \in 1 .. Capacity => P(m) <= P(l))
    <2>1. CASE l <= Capacity /\ P(l) < P(i)
      <3>1. m = l /\ l \in 1 .. Capacity
        BY <1>5, <1>7, <2>1
      <3>2. P(l) \in Nat /\ P(i) \in Nat
        BY <1>1, <3>1
      <3>3. P(l) <= P(l) /\ P(l) <= P(i)
        BY <2>1, <3>2
      <3> QED  BY <1>6, <2>1, <3>1, <3>2, <3>3
    <2>2. CASE ~(l <= Capacity /\ P(l) < P(i))
      <3>1. m = i
        BY <1>7, <2>2
      <3>2. P(i) \in Nat /\ P(i) <= P(i)
        BY <1>1
      <3>3. ASSUME l \in 1 .. Capacity PROVE P(i) <= P(l)
        <4>1. P(l) \in Nat
          BY <1>1, <3>3
        <4>2. ~(P(l) < P(i))
          BY <1>5, <2>2, <3>3, Zenon
        <4> QED  BY <3>2, <4>1, <4>2, SMT
      <3> QED  BY <3>1, <3>2, <3>3
    <2> QED  BY <2>1, <2>2
  <1>11. /\ b = i \/ (b \in Children(i) /\ P(b) < P(i))
         /\ P(b) <= P(i) /\ (l \in 1 .. Capacity => P(b) <= P(l)) /\ (r \in 1 .. Capacity => P(b) <= P(r))
    <2>0. /\ P(i) \in Nat /\ (l \in 1 .. Capacity => P(l) \in Nat) /\ (r \in 1 .. Capacity => P(r) \in Nat)
      BY <1>1
    <2>1. CASE r <= Capacity /\ P(r) < P(m)
      <3>1. b = r /\ r \in 1 .. Capacity /\ r \in Children(i)
        BY <1>5, <1>6, <1>8, <2>1
      <3>2. P(r) < P(i) /\ P(r) <= P(i) /\ P(r) <= P(r) /\ (l \in 1 .. Capacity => P(r) <= P(l))
        BY <1>10, <2>0, <2>1, <3>1
      <3> QED  BY <3>1, <3>2
    <2>2. CASE ~(r <= Capacity /\ P(r) < P(m))
      <3>1. b = m
        BY <1>8, <2>2
      <3>2. r \in 1 .. Capacity => P(m) <= P(r)
        BY <1>5, <1>10, <2>0, <2>2
      <3> QED  BY <1>10, <3>1, <3>2
    <2> QED  BY <2>1, <2>2
  <1>12. \A k \in Children(i) : P(b) <= P(k)
    BY <1>6, <1>11
  <1> QED  BY <1>9, <1>11, <1>12

\* The sifted entry changes places with its smaller child.
LEMMA SiftDownKeeps ==
    ASSUME IInv, SiftDown
    PROVE  IInv'
  <1>1. /\ ScanOK /\ HeapOK /\ pc = "scan" /\ pc' = "scan" /\ at # 0 /\ Smallest(at) # at
        /\ list' = Swap(list, at, Smallest(at)) /\ at' = Smallest(at)
        /\ pos' = pos /\ score' = score /\ heapify' = heapify
    BY DEF IInv, SiftDown
  <1>2. /\ Len(list) = Capacity /\ From <= at /\ at \in 1 .. Capacity /\ Capacity \in Nat
        /\ From \in 1 .. Capacity
    BY <1>1, Sizes, SMT DEF HeapOK, From
  <1>3. PICK b : b = Smallest(at)
    OBVIOUS
  <1>4. /\ b \in Children(at) /\ P(b) < P(at) /\ \A k \in Children(at) : P(b) <= P(k)
    BY <1>1, <1>2, <1>3, SmallestFact
  <1>5. b \in 1 .. Capacity /\ at < b /\ From <= b
    BY <1>2, <1>4, SMT DEF Children
  <1>6. /\ DOMAIN list = 1 .. Capacity /\ list \in [1 .. Capacity -> Tokens]
        /\ \A i \in 1 .. Capacity : P(i) \in Nat /\ list[i] \in Tokens
        /\ \A u : u \in Range(list) <=> \E i \in 1 .. Capacity : list[i] = u
        /\ pos >= Capacity /\ pos \in Nat
    BY <1>1, <1>2, HeapTyped, FullHeap
  <1>7. /\ list'[at] = list[b] /\ list'[b] = list[at]
        /\ \A k \in 1 .. Capacity : k # at /\ k # b => list'[k] = list[k]
        /\ Range(list') = Range(list)
        /\ IsInjective(list) => IsInjective(list')
        /\ \A T : list \in [1 .. Capacity -> T] => list' \in [1 .. Capacity -> T]
    BY <1>1, <1>2, <1>3, <1>5, <1>6, SwapFact
  <1>8. list' \in [1 .. Capacity -> Tokens] /\ IsInjective(list')
    BY <1>1, <1>6, <1>7 DEF ScanOK
  <1>9. list' \in Seq(Tokens) /\ Len(list') = Capacity
    BY <1>2, <1>8, FunctionSeq
  <1>10. ScanOK'
    <2>1. \A i \in 1 .. Capacity : list'[i] < pos
      <3>1. \A i \in 1 .. Capacity : list[i] < pos
        BY <1>1, <1>2 DEF ScanOK
      <3>2. \A i \in 1 .. Capacity : i = at \/ i = b \/ list'[i] = list[i]
        BY <1>7
      <3> QED  BY <1>2, <1>5, <1>7, <3>1, <3>2
    <2>2. ~(pos < Capacity)
      BY <1>2, <1>6
    <2> QED  BY <1>1, <1>7, <1>8, <1>9, <2>1, <2>2 DEF ScanOK, Tokens, Scores, IsInjective
  <1>11. PICK a : a = at
    OBVIOUS
  <1>12. a \in 1 .. Capacity /\ b \in Children(a) /\ a < b /\ From <= a
    BY <1>2, <1>4, <1>5, <1>11
  <1>13. /\ P(a)' = P(b) /\ P(b)' = P(a)
         /\ \A k \in 1 .. Capacity : k # a /\ k # b => P(k)' = P(k)
    BY <1>1, <1>7, <1>11 DEF P
  <1>14. /\ P(b) < P(a) /\ \A k \in Children(a) : P(b) <= P(k)
         /\ \A i \in 1 .. Capacity : P(i) \in Nat
         /\ b \in 1 .. Capacity
    BY <1>4, <1>5, <1>6, <1>11
  <1>15. /\ \A i \in From .. Capacity : i # a => \A k \in Children(i) : P(i) <= P(k)
         /\ \A i \in From .. Capacity : a \in Children(i) => \A k \in Children(a) : P(i) <= P(k)
    BY <1>1, <1>2, <1>11 DEF HeapOK
  <1>16. /\ \A i : \A k \in Children(i) : k \in 1 .. Capacity
         /\ \A i \in 1 .. Capacity : \A k \in Children(i) : i < k
         /\ \A i, j \in 1 .. Capacity : b \in Children(i) /\ b \in Children(j) => i = j
    BY <1>2, SMT DEF Children
  <1>17. \A i \in From .. Capacity : i \in 1 .. Capacity
    BY <1>2, SMT
  <1>18. ASSUME NEW i \in From .. Capacity, i # b, NEW k \in Children(i)
         PROVE  P(i)' <= P(k)'
    <2>0. i \in 1 .. Capacity /\ k \in 1 .. Capacity /\ i < k
      BY <1>16, <1>17, <1>18
    <2>1. CASE i = a
      <3>1. P(i)' = P(b) /\ P(b) <= P(k) /\ k # a
        BY <1>13, <1>14, <1>18, <2>0, <2>1
      <3>2. P(k)' = P(k) \/ P(k)' = P(a)
        BY <1>13, <2>0, <3>1
      <3>3. P(b) \in Nat /\ P(a) \in Nat /\ P(k) \in Nat
        BY <1>12, <1>14, <2>0
      <3> QED  BY <1>14, <3>1, <3>2, <3>3
    <2>2. CASE i # a
      <3>1. P(i)' = P(i) /\ P(i) <= P(k)
        BY <1>13, <1>15, <1>18, <2>0, <2>2
      <3>2. k # b
        BY <1>12, <1>16, <1>18, <2>0, <2>2
      <3>3. CASE k = a
        <4>1. P(i) <= P(b)
          BY <1>12, <1>15, <1>18, <3>3
        <4> QED  BY <1>13, <3>1, <3>3, <4>1
      <3>4. CASE k # a
        BY <1>13, <2>0, <3>1, <3>2, <3>4
      <3> QED  BY <3>3, <3>4
    <2> QED  BY <2>1, <2>2
  <1>19. ASSUME NEW i \in From .. Capacity, b \in Children(i), NEW k \in Children(b)
         PROVE  P(i)' <= P(k)'
    <2>1. i = a
      BY <1>12, <1>16, <1>17, <1>19
    <2>2. k \in 1 .. Capacity /\ k # b /\ k # a
      <3>1. k \in 1 .. Capacity /\ b < k /\ k \in Nat /\ a \in Nat /\ b \in Nat
        BY <1>12, <1>14, <1>16, <1>19
      <3> QED  BY <1>12, <3>1
    <2>3. P(b) <= P(k)
      <3>1. b \in From .. Capacity /\ b # a
        BY <1>2, <1>5, <1>12, SMT
      <3> QED  BY <1>15, <1>19, <3>1
    <2> QED  BY <1>13, <2>1, <2>2, <2>3
  <1>20. HeapOK'
    <2>1. From' = From /\ at' = b
      BY <1>1, <1>3 DEF From
    <2>2. b \in 0 .. Capacity /\ b # 0 /\ heapify' \in 0 .. Capacity
      BY <1>1, <1>2, <1>5, SMT DEF HeapOK
    <2>3. \A i \in From .. Capacity : i # b => \A k \in Children(i) : score'[list'[i]] <= score'[list'[k]]
      BY <1>18 DEF P
    <2>4. \A i \in From .. Capacity : b \in Children(i) =>
            \A k \in Children(b) : score'[list'[i]] <= score'[list'[k]]
      BY <1>19 DEF P
    <2> QED  BY <1>5, <1>9, <2>1, <2>2, <2>3, <2>4 DEF HeapOK, Children, P
  <1> QED  BY <1>1, <1>10, <1>20 DEF IInv

\* An entry no larger than its children: the sift is done, and the building
\* goes on with the entry before.
LEMMA SiftEndsKeeps ==
    ASSUME IInv, SiftEnds
    PROVE  IInv'
  <1>1. /\ ScanOK /\ HeapOK /\ pc = "scan" /\ pc' = "scan" /\ at # 0 /\ Smallest(at) = at
        /\ heapify' = Max({0, heapify - 1}) /\ at' = heapify'
        /\ pos' = pos /\ score' = score /\ list' = list
    BY DEF IInv, SiftEnds
  <1>2. /\ Len(list) = Capacity /\ From <= at /\ at \in 1 .. Capacity /\ Capacity \in Nat
        /\ From \in 1 .. Capacity /\ heapify \in 0 .. Capacity
    BY <1>1, Sizes, SMT DEF HeapOK, From
  <1>3. \A k \in Children(at) : P(at) <= P(k)
    BY <1>1, <1>2, SmallestFact
  <1>4. \A i \in From .. Capacity : \A k \in Children(i) : P(i) <= P(k)
    BY <1>1, <1>2, <1>3 DEF HeapOK
  <1>5. heapify' = IF 0 >= heapify - 1 THEN 0 ELSE heapify - 1
    <2>1. heapify - 1 \in Int /\ 0 \in Int
      BY <1>2
    <2> QED  BY <1>1, <2>1, MaxOfTwo
  <1>6. PICK h : h = heapify'
    OBVIOUS
  <1>7. h \in 0 .. Capacity /\ From' = (IF h = 0 THEN 1 ELSE h) /\ at' = h
    BY <1>1, <1>2, <1>5, <1>6, SMT DEF From
  <1>8. \A i \in 1 .. Capacity : i >= From' => i \in From .. Capacity \/ i = h
    BY <1>2, <1>5, <1>6, <1>7, SMT DEF From
  <1>9. \A i \in 1 .. Capacity : i >= From' => h \notin Children(i)
    BY <1>2, <1>7, SMT DEF Children
  <1>10. \A i \in From' .. Capacity : i \in 1 .. Capacity /\ i >= From'
    BY <1>2, <1>7, SMT
  <1>11. \A i \in From' .. Capacity : i # h => \A k \in Children(i) : P(i) <= P(k)
    BY <1>4, <1>8, <1>10
  <1>12. \A i \in From' .. Capacity : h \in Children(i) => FALSE
    BY <1>9, <1>10
  <1>13. h # 0 => From' <= h
    BY <1>7
  <1>14. HeapOK'
    BY <1>1, <1>2, <1>6, <1>7, <1>11, <1>12, <1>13 DEF HeapOK, Children, P
  <1>15. ScanOK'
    BY <1>1 DEF ScanOK, Tokens, Scores, IsInjective, Range
  <1> QED  BY <1>1, <1>14, <1>15 DEF IInv

----------------------------------------------------------------------------
(* The choice *)

\* An array in which no entry is larger than the one before is sorted.
LEMMA AdjacentSorted ==
    ASSUME NEW n \in Nat, NEW f, \A i \in 1 .. n : f[i] \in Nat,
           \A i \in 1 .. n - 1 : f[i + 1] <= f[i],
           NEW i \in 1 .. n, NEW j \in i .. n
    PROVE  f[j] <= f[i]
  <1> DEFINE Bad == {k \in i .. n : ~(f[k] <= f[i])}
  <1>1. ASSUME Bad # {} PROVE FALSE
    <2>1. Bad \in SUBSET Nat
      BY SMT
    <2>2. \E m \in Bad : \A k \in Bad : m <= k
      <3> HIDE DEF Bad
      <3> QED  BY <1>1, <2>1, Least
    <2>3. PICK m \in i .. n : ~(f[m] <= f[i]) /\ \A k \in i .. n : ~(f[k] <= f[i]) => m <= k
      BY <2>2
    <2>4. PICK p : p = m - 1
      OBVIOUS
    <2>5. m # i
      BY <2>3
    <2>6. p \in i .. n /\ p \in 1 .. n - 1 /\ p + 1 = m /\ ~(m <= p) /\ m \in 1 .. n
      BY <2>4, <2>5, SMT
    <2>7. f[p] <= f[i]
      BY <2>3, <2>6
    <2>8. f[m] <= f[p]
      BY <2>6
    <2>9. f[m] \in Nat /\ f[p] \in Nat /\ f[i] \in Nat
      <3>1. p \in 1 .. n
        BY <2>6, SMT
      <3> QED  BY <2>6, <3>1
    <2> QED  BY <2>3, <2>7, <2>8, <2>9, SMT
  <1>2. f[j] <= f[i] \/ j \in Bad
    OBVIOUS
  <1> QED  BY <1>1, <1>2

\* Distinct entries make a set of as many.
LEMMA PrefixSize ==
    ASSUME NEW n \in Nat, NEW f, \A i, j \in 1 .. n : f[i] = f[j] => i = j
    PROVE  /\ IsFiniteSet({f[i] : i \in 1 .. n})
           /\ Cardinality({f[i] : i \in 1 .. n}) = n
  <1> DEFINE S == {f[i] : i \in 1 .. n}
             g == [i \in 1 .. n |-> f[i]]
  <1>1. IsFiniteSet(1 .. n) /\ Cardinality(1 .. n) = n
    <2>1. Cardinality(1 .. n) = IF 1 > n THEN 0 ELSE n - 1 + 1
      BY FS_Interval
    <2>2. Cardinality(1 .. n) = n
      BY <2>1, SMT
    <2> QED  BY <2>2, FS_Interval
  <1>2. g \in Bijection(1 .. n, S)
    BY DEF Bijection, Injection, Surjection, IsInjective
  <1> HIDE DEF S, g
  <1>3. ExistsBijection(1 .. n, S)
    BY <1>2 DEF ExistsBijection
  <1>4. IsFiniteSet(S) /\ Cardinality(S) = n
    BY <1>1, <1>3, FS_Bijection
  <1> QED  BY <1>4 DEF S

LEMMA SortKeeps ==
    ASSUME IInv, Sort
    PROVE  IInv'
  <1>1. /\ ScanOK /\ HeapOK /\ pc = "scan" /\ pc' = "walk" /\ at' = 0 /\ heapify' = 0
        /\ pos = VocabSize /\ list' \in Descending /\ score' = score
    BY DEF IInv, Sort, HeapOK
  <1>2. Len(list) = Capacity /\ Capacity \in Nat /\ pos \in Nat
    BY <1>1, Sizes, SMT DEF ScanOK
  <1>3. /\ DOMAIN list = 1 .. Capacity /\ list \in [1 .. Capacity -> Tokens]
        /\ \A i \in 1 .. Capacity : list[i] \in Tokens
        /\ \A t \in Tokens : score[t] \in Nat
        /\ \A u : u \in Range(list) <=> \E i \in 1 .. Capacity : list[i] = u
    BY <1>1, <1>2, HeapTyped
  <1>4. /\ list' \in [1 .. Capacity -> Range(list)] /\ Range(list') = Range(list)
        /\ \A i \in 1 .. Capacity - 1 : score[list'[i + 1]] <= score[list'[i]]
    BY <1>1, <1>2 DEF Descending
  <1>5. list' \in [1 .. Capacity -> Tokens]
    BY <1>3, <1>4
  <1>6. IsInjective(list')
    <2> DEFINE S == Range(list)
               D == 1 .. Capacity
    <2>1. IsFiniteSet(D)
      BY <1>2, FS_Interval
    <2>2. list \in Bijection(D, S)
      BY <1>1, <1>3 DEF Bijection, Injection, Surjection, ScanOK
    <2>3. list' \in Surjection(D, S)
      BY <1>4 DEF Surjection, Range
    <2>4. PICK f : f = list'
      OBVIOUS
    <2> HIDE DEF S, D
    <2>5. Cardinality(D) = Cardinality(S)
      BY <2>1, <2>2, FS_Bijection DEF ExistsBijection
    <2>6. f \in Injection(D, S)
      BY <2>1, <2>3, <2>4, <2>5, FS_SurjSameCardinalityImpliesInj
    <2> QED  BY <2>4, <2>6 DEF Injection
  <1>7. ASSUME NEW i \in 1 .. Capacity, NEW j \in 1 .. Capacity, i <= j
        PROVE  score'[list'[j]] <= score'[list'[i]]
    <2>1. PICK f : f = [k \in 1 .. Capacity |-> score[list'[k]]]
      OBVIOUS
    <2>2. /\ \A k \in 1 .. Capacity : f[k] = score[list'[k]] /\ f[k] \in Nat
      BY <1>3, <1>5, <2>1
    <2>3. \A k \in 1 .. Capacity - 1 : k \in 1 .. Capacity /\ k + 1 \in 1 .. Capacity
      BY <1>2, SMT
    <2>4. \A k \in 1 .. Capacity - 1 : f[k + 1] <= f[k]
      BY <1>4, <2>2, <2>3
    <2>5. j \in i .. Capacity
      BY <1>2, <1>7, SMT
    <2>6. f[j] <= f[i]
      BY <1>2, <2>2, <2>4, <2>5, AdjacentSorted
    <2> QED  BY <1>1, <2>2, <2>6
  <1>8. \A t \in Tokens : t \in Range(list) \/ \A u \in Range(list) : score[t] <= score[u]
    <2>1. Tokens = 0 .. pos - 1
      BY <1>1 DEF Tokens
    <2> QED  BY <1>1, <2>1 DEF ScanOK
  <1>9. WalkOK'
    <2>1. \A t \in Tokens : t \in Range(list') \/ \A u \in Range(list') : score[t] <= score[u]
      BY <1>4, <1>8
    <2> QED  BY <1>1, <1>5, <1>6, <1>7, <2>1 DEF WalkOK, ScanOK, Tokens, Scores, IsInjective, Range, P
  <1> QED  BY <1>1, <1>9 DEF IInv

\* The walk ends at the first prefix that is enough, or takes all.
LEMMA CutoffFact ==
    ASSUME NEW topP, NEW topK, Len(list) = Capacity
    PROVE  /\ Cutoff(topP, topK) \in 1 .. Capacity
           /\ Cutoff(topP, topK) = Capacity \/ Enough(Cutoff(topP, topK), topP, topK)
           /\ \A m \in 1 .. Cutoff(topP, topK) - 1 : ~Enough(m, topP, topK)
  <1> DEFINE Ends == {n \in 1 .. Capacity : n = Capacity \/ Enough(n, topP, topK)}
  <1>1. Capacity \in Nat /\ Capacity \in 1 .. Capacity
    BY Sizes
  <1>2. \E n \in Ends : \A m \in Ends : n <= m
    <2>1. Ends \in SUBSET Nat /\ Capacity \in Ends
      BY <1>1
    <2> HIDE DEF Ends
    <2> QED  BY <2>1, Least
  <1>3. PICK n \in 1 .. Capacity : /\ n = Capacity \/ Enough(n, topP, topK)
                                   /\ \A m \in 1 .. Capacity : Enough(m, topP, topK) => n <= m
    BY <1>2
  <1>4. \A m \in 1 .. n - 1 : m \in 1 .. Capacity /\ ~(n <= m)
    BY <1>1, SMT
  <1>5. \A m \in 1 .. n - 1 : ~Enough(m, topP, topK)
    BY <1>3, <1>4, Zenon
  <1>6. \E k \in 1 .. Capacity : /\ k = Capacity \/ Enough(k, topP, topK)
                                 /\ \A m \in 1 .. k - 1 : ~Enough(m, topP, topK)
    BY <1>3, <1>5, Zenon
  <1> QED  BY <1>6, Zenon DEF Cutoff

LEMMA WalkKeeps ==
    ASSUME IInv, Walk
    PROVE  IInv'
  <1>1. /\ WalkOK /\ pc' = "draw" /\ at' = 0 /\ heapify' = 0 /\ score' = score /\ list' = list
    BY DEF IInv, Walk
  <1>2. PICK topP \in TopPs, topK \in 0 .. Capacity :
          req' = [topP |-> topP, topK |-> topK] /\ pos' = Cutoff(topP, topK)
    BY Zenon DEF Walk
  <1>3. Len(list) = Capacity
    BY <1>1, Sizes, FunctionSeq DEF WalkOK
  <1>4. PICK n : n = Cutoff(topP, topK)
    OBVIOUS
  <1>5. /\ n \in 1 .. Capacity
        /\ n = Capacity \/ Enough(n, topP, topK)
        /\ \A m \in 1 .. n - 1 : ~Enough(m, topP, topK)
    BY <1>3, <1>4, CutoffFact
  <1>6. req'.topP = topP /\ req'.topK = topK /\ pos' = n
    BY <1>2, <1>4
  <1>7. WalkOK'
    BY <1>1 DEF WalkOK, Tokens, Scores, IsInjective, Range, P
  <1>8. DrawOK'
    <2>1. \A m : Enough(m, req.topP, req.topK)' <=> Enough(m, topP, topK)
      BY <1>1, <1>6 DEF Enough, Reaches, Sum, Tokens
    <2>2. Enough(pos, req.topP, req.topK)' <=> Enough(n, topP, topK)
      BY <1>1, <1>6 DEF Enough, Reaches, Sum, Tokens
    <2>3. pos' = Capacity \/ Enough(pos, req.topP, req.topK)'
      BY <1>5, <1>6, <2>2
    <2>4. \A m \in 1 .. pos' - 1 : ~Enough(m, req.topP, req.topK)'
      BY <1>5, <1>6, <2>1
    <2> QED  BY <1>5, <1>6, <1>7, <2>3, <2>4 DEF DrawOK
  <1> QED  BY <1>1, <1>8 DEF IInv

----------------------------------------------------------------------------
(* The inductive invariant *)

LEMMA InitEstablishes == Init => IInv
  BY DEF Init, IInv

LEMMA StepKeeps ==
    ASSUME IInv, [Next]_vars
    PROVE  IInv'
  <1>1. CASE BeginRanks
    BY <1>1, BeginRanksKeeps
  <1>2. CASE SelectRank
    BY <1>2, SelectRankKeeps
  <1>3. CASE BeginPenalty
    BY <1>3, BeginPenaltyKeeps
  <1>4. CASE PenaliseNext
    BY <1>4, PenaliseNextKeeps
  <1>5. CASE BeginScan
    BY <1>5, BeginScanKeeps
  <1>6. CASE Fill
    BY <1>6, FillKeeps
  <1>7. CASE Replace
    BY <1>7, ReplaceKeeps
  <1>8. CASE PassOver
    BY <1>8, PassOverKeeps
  <1>9. CASE SiftDown
    BY <1>9, SiftDownKeeps
  <1>10. CASE SiftEnds
    BY <1>10, SiftEndsKeeps
  <1>11. CASE Sort
    BY <1>11, SortKeeps
  <1>12. CASE Walk
    BY <1>12, WalkKeeps
  <1>13. CASE Draw
    BY <1>13 DEF Draw, NextStep, IInv
  <1>14. CASE Greedy
    BY <1>14 DEF Greedy, NextStep, IInv
  <1>15. CASE UNCHANGED vars
    <2>1. /\ pc' = pc /\ score' = score /\ list' = list /\ pos' = pos /\ at' = at
          /\ heapify' = heapify /\ hist' = hist /\ penalty' = penalty /\ req' = req
      BY <1>15 DEF vars
    <2>2. RankOK' = RankOK
      BY <2>1 DEF RankOK, Experts, Scores, IsInjective, P, Want
    <2>3. PenaltyOK' = PenaltyOK
      BY <2>1 DEF PenaltyOK, Tokens, WindowStart
    <2>4. ScanOK' = ScanOK
      BY <2>1 DEF ScanOK, Tokens, Scores, IsInjective, Range
    <2>5. HeapOK' = HeapOK
      BY <2>1 DEF HeapOK, From, Children, P
    <2>6. WalkOK' = WalkOK
      BY <2>1 DEF WalkOK, Tokens, Scores, IsInjective, Range, P
    <2>7. \A m, topP, topK : Enough(m, topP, topK)' = Enough(m, topP, topK)
      BY <2>1 DEF Enough, Reaches, Sum, Tokens
    <2>8. DrawOK' = DrawOK
      BY <2>1, <2>6, <2>7 DEF DrawOK
    <2> QED  BY <2>1, <2>2, <2>3, <2>4, <2>5, <2>6, <2>8 DEF IInv
  <1> QED
    BY <1>1, <1>2, <1>3, <1>4, <1>5, <1>6, <1>7, <1>8, <1>9, <1>10, <1>11, <1>12, <1>13,
       <1>14, <1>15 DEF Next

LEMMA Invariance == Spec => []IInv
  <1>1. IInv /\ [Next]_vars => IInv'
    BY StepKeeps
  <1> QED  BY InitEstablishes, <1>1, PTL DEF Spec

----------------------------------------------------------------------------
(* Theorems *)

\* For any scores and any ties, the ranks the scout has written are distinct
\* experts in descending order, and no other expert of the layer scores better.
THEOREM RanksAreBest == Spec => []RanksExact
  <1>1. IInv => RanksExact
    BY DEF IInv, RankOK, RanksExact
  <1> QED  BY <1>1, Invariance, PTL

\* However often it occurs, a token of the window is penalised once, and no
\* token of an older part of the history is.
THEOREM PenalisesOnce == Spec => []PenalisedOnce
  <1>1. IInv => PenalisedOnce
    BY DEF IInv, PenaltyOK, PenalisedOnce
  <1> QED  BY <1>1, Invariance, PTL

\* Between two tokens the candidate heap of the sampler, of any size, holds the
\* best of all the tokens scanned, and a full one has its least at the root.
THEOREM HeapHoldsBest == Spec => []HeapKeepsBest
  <1>1. ASSUME IInv, pc = "scan", at = 0
        PROVE  /\ IsInjective(list)
               /\ Len(list) = Min({pos, Capacity})
               /\ \A i \in 1..Len(list) : list[i] < pos /\ (Len(list) = Capacity => P(1) <= P(i))
               /\ \A t \in 0..(pos - 1) : t \in Range(list) \/ \A i \in 1..Len(list) : score[t] <= P(i)
    <2>1. ScanOK /\ HeapOK
      BY <1>1 DEF IInv
    <2>2. Len(list) = Min({pos, Capacity})
      <3>1. pos \in Int /\ Capacity \in Int
        BY <2>1, HeapTyped, Sizes
      <3> QED  BY <2>1, <3>1, MinOfTwo DEF ScanOK
    <2>3. \A i \in 1 .. Len(list) : list[i] < pos /\ (Len(list) = Capacity => P(1) <= P(i))
      BY <1>1, <2>1, RootLeast DEF ScanOK
    <2>4. \A i \in 1 .. Len(list) : list[i] \in Range(list)
      BY <2>1, HeapTyped
    <2>5. \A t \in 0 .. pos - 1 : t \in Range(list) \/ \A i \in 1 .. Len(list) : score[t] <= P(i)
      BY <2>1, <2>4 DEF ScanOK, P
    <2> QED  BY <2>1, <2>2, <2>3, <2>5 DEF ScanOK
  <1>2. IInv => HeapKeepsBest
    BY <1>1, Zenon DEF HeapKeepsBest
  <1> QED  BY <1>2, Invariance, PTL

\* The tokens the draw chooses among are the most probable of the whole
\* vocabulary, as few as reach top_p, and no more than top_k of them.
THEOREM NucleusIsExact == Spec => []NucleusExact
  <1>1. ASSUME IInv, pc = "draw"
        PROVE  /\ \A t \in Tokens \ Walked, u \in Walked : score[t] <= score[u]
               /\ Cardinality(Walked) = pos /\ pos <= Max({1, req.topK})
               /\ pos = Max({1, req.topK}) \/ Reaches(Walked, req.topP)
               /\ pos > 1 => ~Reaches(Walked \ {list[pos]}, req.topP)
    <2>1. WalkOK /\ DrawOK
      BY <1>1 DEF IInv, DrawOK
    <2>2. /\ pos \in 1 .. Capacity /\ pos \in Nat /\ req.topK \in 0 .. Capacity /\ req.topK \in Nat
          /\ Capacity \in Nat
      BY <2>1, Sizes, SMT DEF DrawOK
    <2>3. /\ DOMAIN list = 1 .. Capacity /\ \A i \in 1 .. Capacity : list[i] \in Tokens
          /\ \A i, j \in 1 .. Capacity : list[i] = list[j] => i = j
          /\ \A u : u \in Range(list) <=> \E i \in 1 .. Capacity : list[i] = u
      BY <2>1 DEF WalkOK, IsInjective, Range
    <2>4. \A i \in 1 .. pos : i \in 1 .. Capacity
      BY <2>2, SMT
    <2>5. ASSUME NEW t \in Tokens \ Walked, NEW u \in Walked
          PROVE  score[t] <= score[u]
      <3>1. PICK i \in 1 .. pos : u = list[i]
        BY <2>5 DEF Walked
      <3>2. CASE t \in Range(list)
        <4>1. PICK j \in 1 .. Capacity : list[j] = t
          BY <2>3, <3>2
        <4>2. j \notin 1 .. pos
          BY <2>5, <4>1 DEF Walked
        <4>3. i <= j /\ i \in 1 .. Capacity
          BY <2>2, <3>1, <4>1, <4>2, SMT
        <4>4. P(j) <= P(i)
          BY <2>1, <4>3 DEF WalkOK
        <4> QED  BY <3>1, <4>1, <4>4 DEF P
      <3>3. CASE t \notin Range(list)
        <4>1. u \in Range(list)
          BY <2>3, <2>4, <3>1
        <4> QED  BY <2>1, <2>5, <3>3, <4>1 DEF WalkOK
      <3> QED  BY <3>2, <3>3
    <2>6. Cardinality(Walked) = pos
      <3>1. \A i, j \in 1 .. pos : list[i] = list[j] => i = j
        BY <2>3, <2>4
      <3> QED  BY <2>2, <3>1, PrefixSize DEF Walked
    <2>7. \A m \in 1 .. pos - 1 : ~Reaches({list[i] : i \in 1 .. m}, req.topP) /\ ~(m >= req.topK)
      BY <2>1 DEF DrawOK, Enough
    <2>8. pos = Capacity \/ Reaches(Walked, req.topP) \/ pos >= req.topK
      BY <2>1 DEF DrawOK, Enough, Walked
    <2>9. PICK last : last = pos - 1
      OBVIOUS
    <2>10. pos > 1 => last \in 1 .. pos - 1
      BY <2>2, <2>9, SMT
    <2>11. Max({1, req.topK}) = IF 1 >= req.topK THEN 1 ELSE req.topK
      <3>1. 1 \in Int /\ req.topK \in Int
        BY <2>2
      <3> QED  BY <3>1, MaxOfTwo
    <2>12. pos > 1 => ~(last >= req.topK)
      BY <2>7, <2>10, Zenon
    <2>13. pos <= Max({1, req.topK})
      BY <2>2, <2>9, <2>11, <2>12, SMT
    <2>14. pos >= req.topK => pos = Max({1, req.topK})
      BY <2>2, <2>11, <2>13, SMT
    <2>15. pos = Capacity => pos >= req.topK
      BY <2>2, SMT
    <2>16. ASSUME pos > 1 PROVE ~Reaches(Walked \ {list[pos]}, req.topP)
      <3>1. \A i : i \in 1 .. pos <=> i \in 1 .. last \/ i = pos
        BY <2>2, <2>9, <2>16, SMT
      <3>2. pos \notin 1 .. last
        BY <2>2, <2>9, SMT
      <3>3. \A i \in 1 .. last : list[i] # list[pos]
        BY <2>2, <2>3, <2>4, <3>1, <3>2
      <3>4. Walked \ {list[pos]} = {list[i] : i \in 1 .. last}
        BY <3>1, <3>3 DEF Walked
      <3> QED  BY <2>7, <2>10, <2>16, <3>4
    <2> QED  BY <2>5, <2>6, <2>8, <2>13, <2>14, <2>15, <2>16
  <1>2. IInv => NucleusExact
    BY <1>1, Zenon DEF NucleusExact
  <1> QED  BY <1>2, Invariance, PTL
=============================================================================
