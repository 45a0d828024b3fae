--------------------------- MODULE MoELayerProofs ---------------------------
(***************************************************************************)
(* Proofs about the layers of routed experts, for every number of experts, *)
(* ring size, top k, speculative width and chunk length.                   *)
(*                                                                         *)
(* The inductive invariant is built around Open, the claims whose          *)
(* expert is still to be read.  An open claim keeps its slot CONSUMED,     *)
(* referenced and keyed; every reference belongs to an open claim; every   *)
(* command buffer still running reads open claims only; and an expert has  *)
(* been added for its tokens exactly when its claim is closed.             *)
(***************************************************************************)
EXTENDS MoELayer, WellFoundedInduction, SequenceTheorems, TLAPS

\* The list names an expert once.
ListDistinct == \A i, j \in 1 .. Len(list) : list[i] = list[j] => i = j

\* Where each phase may be, and what is claimed there.
PlaceInv ==
    /\ idx >= 1
    /\ pc \in {"claim", "wait"} => mode = "decode"
    /\ pc = "batch" => mode = "prefill" /\ idx <= Len(list) /\ list[idx] \in Claimed
    /\ pc = "fire" => \A x \in Experts : slotOf[x] = NoSlot
    /\ pc \in {"wait", "layerDone"} => Claimed = Range(list)

\* The users of an expert are the tokens routed to it, but for the ranks of
\* the current token that prefill has not gone through yet.
RouteInv ==
    /\ \A t \in Rows, x \in Experts :
         <<t, x>> \in routed <=>
            \/ t \in users[x]
            \/ /\ pc = "fire" /\ mode = "prefill" /\ t = tok
               /\ \E j \in idx .. Len(sel) : sel[j] = x
    /\ \A x \in Experts : users[x] # {} => x \in Range(list)

\* The claims not released yet: in decode those the waits have not reached, in
\* prefill the one whose batch runs.
Open == {x \in Claimed :
    IF mode = "decode"
    THEN pc # "layerDone" /\ (pc = "wait" => \E j \in idx .. Len(list) : list[j] = x)
    ELSE pc = "batch" /\ x = list[idx]}

\* An open claim's slot is its own, and every reference is an open claim's.
RefInv ==
    /\ \A x \in Open : /\ state[slotOf[x]] = "CONSUMED"
                       /\ refCount[slotOf[x]] = 1
                       /\ key[slotOf[x]] = x
    /\ \A s \in Slots : refCount[s] # 0 => \E x \in Open : slotOf[x] = s

\* A command buffer reads claimed experts, none that another reads, and open
\* ones as long as it runs.
GroupInv ==
    /\ \A g \in 1 .. Len(groups) : \A x \in groups[g] : x \in Claimed
    /\ \A g, h \in 1 .. Len(groups) : \A x \in groups[g] : x \in groups[h] => g = h
    /\ \A g \in signaled + 1 .. Len(groups) : \A x \in groups[g] : x \in Open

\* An expert is added, once for each of its tokens, when its claim is closed.
AddedInv ==
    \A t \in Rows, x \in Experts :
        added[<<t, x>>] = IF t \in users[x] /\ x \in Claimed /\ x \notin Open THEN 1 ELSE 0

\* The ranks are distinct, and a resident expert has one slot.
RingInv ==
    /\ \A s, t \in Slots : lru[s] = lru[t] => s = t
    /\ \A s \in Slots : state[s] = "EMPTY" => key[s] = NoExpert
    /\ \A s, t \in Slots : key[s] = key[t] /\ key[s] # NoExpert => s = t

\* The loaded slots of the experts in U were used after all others.
Newer(st, k, rank, U) ==
    \A s, t \in Slots : k[s] \in U /\ k[t] \notin U /\ st[t] # "EMPTY" => rank[t] < rank[s]

UnionNewer == mode = "prefill" /\ pc # "layerDone" => Newer(state, key, lru, Range(list))

IInv ==
    /\ TypeOK /\ ListDistinct /\ PlaceInv /\ RouteInv /\ RefInv /\ GroupInv
    /\ AddedInv /\ RingInv /\ UnionNewer

-----------------------------------------------------------------------------
(***************************************************************************)
(* Numbers and sequences.                                                  *)
(***************************************************************************)
LEMMA Least ==
  ASSUME NEW S \in SUBSET Nat, S # {}
  PROVE  \E m \in S : \A n \in S : m <= n
<1> DEFINE R == {ss \in Nat \X Nat : ss[1] < ss[2]}
<1>1. IsWellFoundedOn(R, Nat)
  BY NatLessThanWellFounded DEF OpToRel
<1>2. \E x \in S : \A y \in S : ~ (<<y, x>> \in R)
  <2> HIDE DEF R
  <2>1. S \subseteq Nat
    OBVIOUS
  <2>. QED
    BY <1>1, <2>1, WFMin
<1>3. PICK x \in S : \A y \in S : ~ (<<y, x>> \in R)
  BY <1>2
<1>4. ASSUME NEW y \in S PROVE x <= y
  <2>1. <<y, x>> \in Nat \X Nat /\ ~ (<<y, x>>[1] < <<y, x>>[2])
    BY <1>3
  <2>. QED
    BY <2>1
<1>. QED
  BY <1>4

\* Of some slots one has the least rank.
LEMMA LeastRank ==
  ASSUME NEW f \in [Slots -> Slots], NEW S \in SUBSET Slots, S # {}
  PROVE  \E s \in S : \A t \in S : f[s] <= f[t]
<1> DEFINE V == {f[s] : s \in S}
<1>1. V \in SUBSET Nat /\ V # {}
  <2>1. \A s \in S : f[s] \in Nat
    BY SizesAssumption DEF Slots
  <2>. QED
    BY <2>1
<1>2. \E m \in V : \A n \in V : m <= n
  <2> HIDE DEF V
  <2>. QED
    BY <1>1, Least
<1>. QED
  BY <1>2

LEMMA LeastSlot ==
  ASSUME NEW S \in SUBSET Slots, S # {}
  PROVE  \E s \in S : \A t \in S : s <= t
BY Least, SizesAssumption DEF Slots

LEMMA SeqRange ==
  ASSUME NEW S, NEW q \in Seq(S)
  PROVE  /\ Range(q) \subseteq S
         /\ \A x : x \in Range(q) <=> \E i \in 1 .. Len(q) : q[i] = x
<1>1. DOMAIN q = 1 .. Len(q) /\ \A i \in 1 .. Len(q) : q[i] \in S
  BY LenProperties, ElementOfSeq
<1>. QED
  BY <1>1 DEF Range

LEMMA AppendRange ==
  ASSUME NEW S, NEW q \in Seq(S), NEW x \in S
  PROVE  /\ Append(q, x) \in Seq(S)
         /\ Len(Append(q, x)) = Len(q) + 1
         /\ Append(q, x)[Len(q) + 1] = x
         /\ \A i \in 1 .. Len(q) : Append(q, x)[i] = q[i]
         /\ Range(Append(q, x)) = Range(q) \cup {x}
<1> DEFINE a == Append(q, x)
<1>1. /\ a \in Seq(S) /\ Len(a) = Len(q) + 1 /\ a[Len(q) + 1] = x
      /\ \A i \in 1 .. Len(q) : a[i] = q[i]
  BY AppendProperties
<1>2. Len(q) \in Nat
  BY LenProperties
<1>3. \A y : y \in Range(a) <=> \E i \in 1 .. Len(a) : a[i] = y
  <2> HIDE DEF a
  <2>. QED
    BY <1>1, SeqRange
<1>4. \A y : y \in Range(q) <=> \E i \in 1 .. Len(q) : q[i] = y
  BY SeqRange
<1>5. \A y : y \in Range(a) <=> y \in Range(q) \/ y = x
  <2> HIDE DEF a
  <2>. QED
    BY <1>1, <1>2, <1>3, <1>4
<1>. QED
  BY <1>1, <1>5

\* The operand of a use becomes the newest, the order of the others stays.
LEMMA TouchOrder ==
  ASSUME NEW f \in [Slots -> Slots], \A a, b \in Slots : f[a] = f[b] => a = b,
         NEW s \in Slots, NEW g,
         g = [t \in Slots |-> IF t = s THEN RingSize - 1
                              ELSE IF f[t] > f[s] THEN f[t] - 1 ELSE f[t]]
  PROVE  /\ g \in [Slots -> Slots]
         /\ \A a, b \in Slots : g[a] = g[b] => a = b
         /\ \A t \in Slots : t # s => g[t] < g[s]
         /\ \A a, b \in Slots : a # s /\ b # s /\ f[a] < f[b] => g[a] < g[b]
<1>0. RingSize \in Nat /\ RingSize >= 1 /\ Slots = 0 .. RingSize - 1
  BY SizesAssumption DEF Slots
<1>1. \A t \in Slots : f[t] \in Nat /\ f[t] <= RingSize - 1 /\ (t # s => f[t] # f[s])
  BY <1>0
<1>2. g[s] = RingSize - 1
  BY <1>0
<1>3. \A t \in Slots : t # s => g[t] = IF f[t] > f[s] THEN f[t] - 1 ELSE f[t]
  OBVIOUS
<1>4. \A t \in Slots : t # s => g[t] \in Nat /\ g[t] < RingSize - 1
  <2> SUFFICES ASSUME NEW t \in Slots, t # s PROVE g[t] \in Nat /\ g[t] < RingSize - 1
    OBVIOUS
  <2>1. /\ f[t] \in Nat /\ f[s] \in Nat /\ f[t] <= RingSize - 1 /\ f[s] <= RingSize - 1
        /\ f[t] # f[s]
    BY <1>1
  <2>2. CASE f[t] > f[s]
    <3>1. g[t] = f[t] - 1
      BY <2>2, <1>3
    <3>2. \A m, n, r \in Nat : m > n /\ m <= r - 1 => m - 1 \in Nat /\ m - 1 < r - 1
      OBVIOUS
    <3>3. f[t] - 1 \in Nat /\ f[t] - 1 < RingSize - 1
      BY <1>0, <2>1, <2>2, <3>2
    <3>. QED
      BY <3>1, <3>3
  <2>3. CASE ~ (f[t] > f[s])
    <3>1. g[t] = f[t]
      BY <2>3, <1>3
    <3>2. \A m, n, r \in Nat : ~(m > n) /\ m # n /\ n <= r - 1 => m < r - 1
      OBVIOUS
    <3>3. f[t] < RingSize - 1
      BY <1>0, <2>1, <2>3, <3>2
    <3>. QED
      BY <2>1, <3>1, <3>3
  <2>. QED
    BY <2>2, <2>3
<1>5. \A t \in Slots : g[t] \in Slots
  <2> SUFFICES ASSUME NEW t \in Slots PROVE g[t] \in Slots
    OBVIOUS
  <2>1. CASE t = s
    BY <2>1, <1>0, <1>2
  <2>2. CASE t # s
    <3>1. g[t] \in Nat /\ g[t] < RingSize - 1
      BY <2>2, <1>4
    <3>2. \A m, r \in Nat : m < r - 1 => m \in 0 .. r - 1
      OBVIOUS
    <3>. QED
      BY <1>0, <3>1, <3>2
  <2>. QED
    BY <2>1, <2>2
<1>6. \A a, b \in Slots : a # s /\ b # s /\ f[a] < f[b] => g[a] < g[b]
  <2> SUFFICES ASSUME NEW a \in Slots, NEW b \in Slots, a # s, b # s, f[a] < f[b]
               PROVE  g[a] < g[b]
    OBVIOUS
  <2>1. f[a] \in Nat /\ f[b] \in Nat /\ f[s] \in Nat /\ f[a] # f[s] /\ f[b] # f[s]
    BY <1>1
  <2>2. /\ g[a] = IF f[a] > f[s] THEN f[a] - 1 ELSE f[a]
        /\ g[b] = IF f[b] > f[s] THEN f[b] - 1 ELSE f[b]
    BY <1>3
  <2>. QED
    BY <2>1, <2>2
<1>7. \A a, b \in Slots : a # b => g[a] # g[b]
  <2> SUFFICES ASSUME NEW a \in Slots, NEW b \in Slots, a # b PROVE g[a] # g[b]
    OBVIOUS
  <2>1. CASE a = s \/ b = s
    BY <2>1, <1>0, <1>2, <1>4
  <2>2. CASE a # s /\ b # s
    <3>1. f[a] < f[b] \/ f[b] < f[a]
      BY <1>1, <1>0
    <3>. QED
      BY <2>2, <3>1, <1>6, <1>4
  <2>. QED
    BY <2>1, <2>2
<1>8. g \in [Slots -> Slots]
  BY <1>5
<1>9. \A t \in Slots : t # s => g[t] < g[s]
  BY <1>2, <1>4
<1>. QED
  BY <1>6, <1>7, <1>8, <1>9

-----------------------------------------------------------------------------
(***************************************************************************)
(* The ring.                                                               *)
(***************************************************************************)
RingTyped ==
    /\ state \in [Slots -> {"EMPTY", "LOADING", "READY", "CONSUMED"}]
    /\ key \in [Slots -> Experts \cup {NoExpert}]
    /\ refCount \in [Slots -> 0 .. 1]
    /\ lru \in [Slots -> Slots]

\* A referenced slot is left as it is, and no reference is taken.
RingMove ==
    \A s \in Slots :
        /\ state[s] = "CONSUMED" /\ refCount[s] = 1
              => state'[s] = state[s] /\ refCount'[s] = 1 /\ key'[s] = key[s]
        /\ refCount[s] = 0 => refCount'[s] = 0

LEMMA TargetFact ==
  ASSUME RingTyped, Empty \cup Evictable # {}
  PROVE  /\ Target \in Slots /\ Target \in Empty \cup Evictable
         /\ state[Target] # "EMPTY" => \A t \in Evictable : lru[Target] <= lru[t]
<1>1. CASE Empty # {}
  <2>1. \E s \in Empty : \A t \in Empty : s <= t
    BY <1>1, LeastSlot DEF Empty
  <2>2. Target \in Empty
    BY <1>1, <2>1 DEF Target
  <2>. QED
    BY <2>2 DEF Empty
<1>2. CASE Empty = {}
  <2>1. Evictable \in SUBSET Slots /\ Evictable # {}
    BY <1>2 DEF Evictable
  <2>2. \E s \in Evictable : \A t \in Evictable : lru[s] <= lru[t]
    BY <2>1, LeastRank DEF RingTyped
  <2>3. Target \in Evictable /\ \A t \in Evictable : lru[Target] <= lru[t]
    BY <1>2, <2>2 DEF Target, Oldest
  <2>. QED
    BY <2>1, <2>3
<1>. QED
  BY <1>1, <1>2

LEMMA TouchedFact ==
  ASSUME RingTyped, RingInv, NEW s \in Slots, lru' = Touched(s)
  PROVE  /\ lru' \in [Slots -> Slots]
         /\ \A a, b \in Slots : lru'[a] = lru'[b] => a = b
         /\ \A t \in Slots : t # s => lru'[t] < lru'[s]
         /\ \A a, b \in Slots : a # s /\ b # s /\ lru[a] < lru[b] => lru'[a] < lru'[b]
<1> DEFINE f == lru
           g == lru'
<1>1. f \in [Slots -> Slots] /\ \A a, b \in Slots : f[a] = f[b] => a = b
  BY DEF RingTyped, RingInv
<1>2. g = [t \in Slots |-> IF t = s THEN RingSize - 1
                           ELSE IF f[t] > f[s] THEN f[t] - 1 ELSE f[t]]
  BY DEF Touched
<1>3. /\ g \in [Slots -> Slots]
      /\ \A a, b \in Slots : g[a] = g[b] => a = b
      /\ \A t \in Slots : t # s => g[t] < g[s]
      /\ \A a, b \in Slots : a # s /\ b # s /\ f[a] < f[b] => g[a] < g[b]
  <2> HIDE DEF f, g
  <2>. QED
    BY <1>1, <1>2, TouchOrder
<1>. QED
  BY <1>3

\* The three outcomes of a prefetch: a hit, a load, back-pressure.
PrefetchHit(x, s) ==
    /\ state[s] # "EMPTY" /\ key[s] = x
    /\ lru' = Touched(s)
    /\ UNCHANGED <<state, key, refCount>>

PrefetchLoad(x, s) ==
    /\ \A t \in Slots : key[t] # x
    /\ state[s] = "EMPTY" \/ s \in Evictable
    /\ state[s] # "EMPTY" => \A t \in Evictable : lru[s] <= lru[t]
    /\ state'    = [state EXCEPT ![s] = "LOADING"]
    /\ key'      = [key EXCEPT ![s] = x]
    /\ refCount' = [refCount EXCEPT ![s] = 0]
    /\ lru'      = Touched(s)

PrefetchNone(x) ==
    /\ \A t \in Slots : key[t] # x
    /\ UNCHANGED ringVars

LEMMA PrefetchCases ==
  ASSUME RingTyped, RingInv, NEW x \in Experts, Prefetch(x)
  PROVE  \/ \E s \in Slots : PrefetchHit(x, s) \/ PrefetchLoad(x, s)
         \/ PrefetchNone(x)
<1>1. Resident(x) = {} => \A t \in Slots : key[t] # x
  BY ExpertAssumption DEF Resident, RingInv
<1>2. CASE \E s \in Resident(x) : lru' = Touched(s) /\ UNCHANGED <<state, key, refCount>>
  BY <1>2 DEF Resident, PrefetchHit
<1>3. CASE Resident(x) = {} /\ Empty \cup Evictable = {} /\ UNCHANGED ringVars
  BY <1>1, <1>3 DEF PrefetchNone
<1>4. CASE /\ Resident(x) = {} /\ Empty \cup Evictable # {}
           /\ state'    = [state EXCEPT ![Target] = "LOADING"]
           /\ key'      = [key EXCEPT ![Target] = x]
           /\ refCount' = [refCount EXCEPT ![Target] = 0]
           /\ lru'      = Touched(Target)
  <2>1. Target \in Slots /\ (state[Target] = "EMPTY" \/ Target \in Evictable)
    BY <1>4, TargetFact DEF Empty
  <2>2. state[Target] # "EMPTY" => \A t \in Evictable : lru[Target] <= lru[t]
    BY <1>4, TargetFact
  <2>3. PrefetchLoad(x, Target)
    BY <1>1, <1>4, <2>1, <2>2 DEF PrefetchLoad
  <2>. QED
    BY <2>1, <2>3
<1>. QED
  BY <1>2, <1>3, <1>4 DEF Prefetch

LEMMA PrefetchRing ==
  ASSUME RingTyped, RingInv, NEW x \in Experts, Prefetch(x)
  PROVE  RingTyped' /\ RingMove /\ RingInv'
<1>1. CASE \E s \in Slots : PrefetchHit(x, s)
  <2>. PICK s \in Slots : PrefetchHit(x, s)
    BY <1>1
  <2>1. lru' = Touched(s) /\ state' = state /\ key' = key /\ refCount' = refCount
    BY DEF PrefetchHit
  <2>2. lru' \in [Slots -> Slots] /\ \A a, b \in Slots : lru'[a] = lru'[b] => a = b
    BY <2>1, TouchedFact
  <2>3. RingTyped' /\ RingMove
    BY <2>1, <2>2 DEF RingTyped, RingMove
  <2>4. RingInv'
    BY <2>1, <2>2 DEF RingInv
  <2>. QED
    BY <2>3, <2>4
<1>2. CASE \E s \in Slots : PrefetchLoad(x, s)
  <2>. PICK s \in Slots : PrefetchLoad(x, s)
    BY <1>2
  <2>1. /\ lru' = Touched(s) /\ \A t \in Slots : key[t] # x
        /\ state[s] = "EMPTY" \/ refCount[s] = 0
    BY DEF PrefetchLoad, Evictable
  <2>2. lru' \in [Slots -> Slots] /\ \A a, b \in Slots : lru'[a] = lru'[b] => a = b
    BY <2>1, TouchedFact
  <2>3. /\ state'[s] = "LOADING" /\ key'[s] = x /\ refCount'[s] = 0
        /\ \A t \in Slots : t # s => state'[t] = state[t] /\ key'[t] = key[t]
                                     /\ refCount'[t] = refCount[t]
    BY DEF PrefetchLoad, RingTyped
  <2>4. RingTyped'
    <3>1. \A t \in Slots : refCount'[t] \in 0 .. 1
      BY <2>3 DEF RingTyped
    <3>2. refCount' \in [Slots -> 0 .. 1]
      BY <3>1 DEF PrefetchLoad, RingTyped
    <3>3. state' \in [Slots -> {"EMPTY", "LOADING", "READY", "CONSUMED"}]
      BY DEF PrefetchLoad, RingTyped
    <3>4. key' \in [Slots -> Experts \cup {NoExpert}]
      BY DEF PrefetchLoad, RingTyped
    <3>. QED
      BY <2>2, <3>2, <3>3, <3>4 DEF RingTyped
  <2>5. RingMove
    BY <2>1, <2>3 DEF RingMove
  <2>6. RingInv'
    BY <2>1, <2>2, <2>3 DEF RingInv
  <2>. QED
    BY <2>4, <2>5, <2>6
<1>3. CASE PrefetchNone(x)
  BY <1>3 DEF PrefetchNone, ringVars, RingTyped, RingMove, RingInv
<1>. QED
  BY <1>1, <1>2, <1>3, PrefetchCases

LEMMA PrefetchNewer ==
  ASSUME RingTyped, RingInv, NEW x \in Experts, Prefetch(x), NEW U,
         Newer(state, key, lru, U)
  PROVE  Newer(state', key', lru', U \cup {x})
<1> SUFFICES ASSUME NEW a \in Slots, NEW b \in Slots, key'[a] \in U \cup {x},
                    key'[b] \notin U \cup {x}, state'[b] # "EMPTY"
             PROVE  lru'[b] < lru'[a]
  BY DEF Newer
<1>1. CASE \E s \in Slots : PrefetchHit(x, s) \/ PrefetchLoad(x, s)
  <2>. PICK s \in Slots : PrefetchHit(x, s) \/ PrefetchLoad(x, s)
    BY <1>1
  <2>1. /\ lru' = Touched(s) /\ key'[s] = x
        /\ \A t \in Slots : t # s => key'[t] = key[t] /\ state'[t] = state[t]
        /\ \A t \in Slots : t # s => key[t] # x
    BY ExpertAssumption DEF PrefetchHit, PrefetchLoad, RingTyped, RingInv
  <2>2. b # s
    BY <2>1
  <2>3. CASE a = s
    BY <2>1, <2>2, <2>3, TouchedFact
  <2>4. CASE a # s
    <3>1. key[a] \in U /\ key[b] \notin U /\ state[b] # "EMPTY"
      BY <2>1, <2>2, <2>4
    <3>2. lru[b] < lru[a]
      BY <3>1 DEF Newer
    <3>. QED
      BY <2>1, <2>2, <2>4, <3>2, TouchedFact
  <2>. QED
    BY <2>3, <2>4
<1>2. CASE PrefetchNone(x)
  <2>1. key' = key /\ lru' = lru /\ state' = state /\ key[a] \in U /\ key[b] \notin U
    BY <1>2 DEF PrefetchNone, ringVars
  <2>. QED
    BY <2>1 DEF Newer
<1>. QED
  BY <1>1, <1>2, PrefetchCases

\* A load that ends, one way or the other, moves no reference and no rank.
LEMMA LoadRing ==
  ASSUME RingTyped, RingInv, NEW s \in Slots, LoadEnds(s) \/ LoadFails(s)
  PROVE  /\ RingTyped' /\ RingMove /\ RingInv'
         /\ \A U \in SUBSET Experts : Newer(state, key, lru, U) => Newer(state', key', lru', U)
<1>1. /\ lru' = lru /\ refCount' = refCount /\ state[s] = "LOADING" /\ state'[s] # "LOADING"
      /\ \A t \in Slots : t # s => state'[t] = state[t] /\ key'[t] = key[t]
      /\ \/ state'[s] = "READY" /\ key'[s] = key[s]
         \/ state'[s] = "EMPTY" /\ key'[s] = NoExpert
  BY DEF LoadEnds, LoadFails, RingTyped
<1>2. RingTyped'
  BY DEF LoadEnds, LoadFails, RingTyped
<1>3. RingMove
  BY <1>1 DEF RingMove, RingTyped
<1>4. RingInv'
  BY <1>1 DEF RingInv
<1>5. ASSUME NEW U \in SUBSET Experts, Newer(state, key, lru, U)
      PROVE  Newer(state', key', lru', U)
  BY <1>1, <1>5, ExpertAssumption DEF Newer
<1>. QED
  BY <1>2, <1>3, <1>4, <1>5

\* A claim makes its slot the newest, CONSUMED and referenced.
LEMMA ClaimRing ==
  ASSUME RingTyped, RingInv, NEW x \in Experts, NEW s \in Claimable(x), Claim(s)
  PROVE  /\ s \in Slots /\ refCount[s] = 0 /\ key[s] = x
         /\ state'[s] = "CONSUMED" /\ refCount'[s] = 1 /\ key' = key
         /\ \A t \in Slots : t # s => state'[t] = state[t] /\ refCount'[t] = refCount[t]
         /\ RingTyped' /\ RingInv'
         /\ \A U : x \in U /\ Newer(state, key, lru, U) => Newer(state', key', lru', U)
<1>1. s \in Slots /\ refCount[s] = 0 /\ key[s] = x /\ state[s] # "EMPTY"
  BY DEF Claimable, Evictable, Idle
<1>2. lru' = Touched(s) /\ key' = key
  BY DEF Claim
<1>3. state'[s] = "CONSUMED" /\ refCount'[s] = 1
  BY <1>1 DEF Claim, RingTyped
<1>4. \A t \in Slots : t # s => state'[t] = state[t] /\ refCount'[t] = refCount[t]
  BY DEF Claim, RingTyped
<1>5. /\ lru' \in [Slots -> Slots]
      /\ \A a, b \in Slots : lru'[a] = lru'[b] => a = b
      /\ \A t \in Slots : t # s => lru'[t] < lru'[s]
      /\ \A a, b \in Slots : a # s /\ b # s /\ lru[a] < lru[b] => lru'[a] < lru'[b]
  BY <1>1, <1>2, TouchedFact
<1>6. RingTyped'
  <2>1. \A t \in Slots : refCount'[t] \in 0 .. 1
    BY <1>3, <1>4 DEF RingTyped
  <2>2. refCount' \in [Slots -> 0 .. 1]
    BY <2>1 DEF Claim, RingTyped
  <2>. QED
    BY <1>5, <2>2 DEF Claim, RingTyped
<1>7. RingInv'
  BY <1>1, <1>2, <1>3, <1>4, <1>5 DEF RingInv
<1>8. ASSUME NEW U, x \in U, Newer(state, key, lru, U)
      PROVE  Newer(state', key', lru', U)
  <2> SUFFICES ASSUME NEW a \in Slots, NEW b \in Slots, key[a] \in U, key[b] \notin U,
                      state'[b] # "EMPTY"
               PROVE  lru'[b] < lru'[a]
    BY <1>2 DEF Newer
  <2>1. b # s /\ state[b] # "EMPTY"
    BY <1>1, <1>4, <1>8
  <2>2. lru[b] < lru[a]
    BY <1>8, <2>1 DEF Newer
  <2>. QED
    BY <1>5, <2>1, <2>2
<1>. QED
  BY <1>1, <1>2, <1>3, <1>4, <1>6, <1>7, <1>8

LEMMA ReleaseRing ==
  ASSUME RingTyped, RingInv, NEW s \in Slots, refCount[s] = 1, Release(s)
  PROVE  /\ state' = state /\ key' = key /\ lru' = lru /\ refCount'[s] = 0
         /\ \A t \in Slots : t # s => refCount'[t] = refCount[t]
         /\ RingTyped' /\ RingInv'
<1>1. state' = state /\ key' = key /\ lru' = lru
  BY DEF Release
<1>2. refCount'[s] = 0 /\ \A t \in Slots : t # s => refCount'[t] = refCount[t]
  BY DEF Release, RingTyped
<1>3. \A t \in Slots : refCount'[t] \in 0 .. 1
  BY <1>2 DEF RingTyped
<1>4. refCount' \in [Slots -> 0 .. 1]
  BY <1>3 DEF Release, RingTyped
<1>. QED
  BY <1>1, <1>2, <1>4 DEF RingTyped, RingInv

LEMMA RingSame ==
  ASSUME RingTyped, RingInv, UNCHANGED ringVars
  PROVE  /\ RingTyped' /\ RingMove /\ RingInv'
         /\ \A U : Newer(state, key, lru, U) => Newer(state', key', lru', U)
BY DEF ringVars, RingTyped, RingMove, RingInv, Newer

-----------------------------------------------------------------------------
(***************************************************************************)
(* The ledger of claims.                                                   *)
(***************************************************************************)
LoopTyped ==
    /\ mode \in {"decode", "prefill"}
    /\ pc \in {"layerDone", "fire", "claim", "spin", "batch", "wait"}
    /\ tok \in Rows /\ sel \in Seq(Experts) /\ list \in Seq(Experts)
    /\ users \in [Experts -> SUBSET Rows] /\ routed \subseteq Rows \X Experts
    /\ idx \in Nat /\ spin \in 0 .. SpinPeriod /\ progress \in BOOLEAN
    /\ slotOf \in [Experts -> Slots \cup {NoSlot}]
    /\ groups \in Seq(SUBSET Experts) /\ signaled \in 0 .. Len(groups)
    /\ added \in [Rows \X Experts -> Nat]

LEMMA TypeParts == TypeOK <=> RingTyped /\ LoopTyped
BY DEF TypeOK, RingTyped, LoopTyped

LEMMA TypePartsNext == TypeOK' <=> RingTyped' /\ LoopTyped'
BY DEF TypeOK, RingTyped, LoopTyped

LEMMA ListRange ==
  ASSUME LoopTyped
  PROVE  /\ Range(list) \subseteq Experts /\ Len(list) \in Nat
         /\ \A i \in 1 .. Len(list) : list[i] \in Experts /\ list[i] \in Range(list)
         /\ \A x \in Range(list) : \E i \in 1 .. Len(list) : list[i] = x
<1>1. list \in Seq(Experts)
  BY DEF LoopTyped
<1>. QED
  BY <1>1, SeqRange, LenProperties, ElementOfSeq

LEMMA OpenFacts ==
  ASSUME LoopTyped, PlaceInv
  PROVE  /\ Open \subseteq Claimed /\ Claimed \subseteq Range(list) /\ Claimed \subseteq Experts
         /\ \A x \in Claimed : slotOf[x] \in Slots
         /\ pc = "fire" => Claimed = {} /\ Open = {}
         /\ pc = "layerDone" => Open = {} /\ Claimed = Range(list)
         /\ pc \in {"claim", "spin"} /\ mode = "decode" => Open = Claimed
         /\ pc = "spin" /\ mode = "prefill" => Open = {}
         /\ pc = "batch" => Open = {list[idx]}
         /\ pc = "wait" => Claimed = Range(list)
         /\ pc = "wait" => \A x : x \in Open <=> \E j \in idx .. Len(list) : list[j] = x
<1>1. Open \subseteq Claimed /\ Claimed \subseteq Range(list) /\ Claimed \subseteq Experts
  BY ListRange DEF Open, Claimed
<1>2. \A x \in Claimed : slotOf[x] \in Slots
  BY <1>1 DEF Claimed, LoopTyped
<1>3. pc = "fire" => Claimed = {} /\ Open = {}
  BY <1>1 DEF PlaceInv, Claimed
<1>4. pc = "layerDone" => Open = {} /\ Claimed = Range(list)
  BY DEF PlaceInv, Open
<1>5. pc \in {"claim", "spin"} /\ mode = "decode" => Open = Claimed
  BY DEF Open
<1>6. pc = "spin" /\ mode = "prefill" => Open = {}
  BY DEF Open
<1>7. pc = "batch" => Open = {list[idx]}
  BY DEF PlaceInv, Open
<1>8. pc = "wait" => Claimed = Range(list)
  BY DEF PlaceInv
<1>9. ASSUME pc = "wait"
      PROVE  \A x : x \in Open <=> \E j \in idx .. Len(list) : list[j] = x
  <2>1. mode = "decode" /\ Claimed = Range(list) /\ idx \in Nat /\ idx >= 1
    BY <1>9 DEF PlaceInv, LoopTyped
  <2>2. \A x : x \in Open <=> x \in Claimed /\ \E j \in idx .. Len(list) : list[j] = x
    BY <1>9, <2>1 DEF Open
  <2>3. \A j \in idx .. Len(list) : list[j] \in Range(list)
    BY <2>1, ListRange
  <2>. QED
    BY <2>1, <2>2, <2>3
<1>. QED
  BY <1>1, <1>2, <1>3, <1>4, <1>5, <1>6, <1>7, <1>8, <1>9

\* What no step of the ring alone can break.
LEMMA RefKept ==
  ASSUME RingTyped, RefInv, RingMove, \A x \in Open : slotOf[x] \in Slots,
         Open' = Open, slotOf' = slotOf
  PROVE  RefInv'
<1>1. ASSUME NEW x \in Open
      PROVE  /\ state'[slotOf'[x]] = "CONSUMED"
             /\ refCount'[slotOf'[x]] = 1
             /\ key'[slotOf'[x]] = x
  BY DEF RefInv, RingMove
<1>2. ASSUME NEW s \in Slots, refCount'[s] # 0
      PROVE  \E x \in Open : slotOf'[x] = s
  BY <1>2 DEF RefInv, RingMove
<1>. QED
  BY <1>1, <1>2 DEF RefInv

\* A load ends or fails.
LEMMA LoadStep ==
  ASSUME IInv, NEW s \in Slots, LoadEnds(s) \/ LoadFails(s)
  PROVE  IInv'
<1>0. /\ RingTyped /\ LoopTyped /\ ListDistinct /\ PlaceInv /\ RouteInv /\ RefInv /\ GroupInv
      /\ AddedInv /\ RingInv /\ UnionNewer
  BY TypeParts DEF IInv
<1>1. UNCHANGED <<pc, routeVars, loopVars, slotOf, gpuVars, added>>
  BY DEF LoadEnds, LoadFails
<1>2. /\ pc' = pc /\ mode' = mode /\ tok' = tok /\ sel' = sel /\ list' = list
      /\ users' = users /\ routed' = routed /\ idx' = idx /\ spin' = spin
      /\ progress' = progress /\ slotOf' = slotOf /\ groups' = groups
      /\ signaled' = signaled /\ added' = added
  BY <1>1 DEF routeVars, loopVars, gpuVars
<1>3. Claimed' = Claimed
  BY <1>2 DEF Claimed
<1>4. Open' = Open
  BY <1>2, <1>3 DEF Open
<1>t. TypeOK'
  <2>1. LoopTyped'
    BY <1>0, <1>2 DEF LoopTyped
  <2>. QED
    BY <1>0, <2>1, LoadRing, TypePartsNext
<1>l. ListDistinct' /\ PlaceInv' /\ RouteInv'
  BY <1>0, <1>2, <1>3 DEF ListDistinct, PlaceInv, RouteInv
<1>r. RefInv'
  BY <1>0, <1>2, <1>4, LoadRing, RefKept, OpenFacts
<1>g. GroupInv' /\ AddedInv'
  BY <1>0, <1>2, <1>3, <1>4 DEF GroupInv, AddedInv
<1>n. RingInv' /\ UnionNewer'
  BY <1>0, <1>2, LoadRing, ListRange DEF UnionNewer
<1>. QED
  BY <1>t, <1>l, <1>r, <1>g, <1>n DEF IInv

\* A step of a sweep over the list that claims nothing.
LEMMA PassOver ==
  ASSUME IInv, ClaimMiss \/ ClaimSkip
  PROVE  IInv'
<1> DEFINE x == list[idx]
<1>0. /\ RingTyped /\ LoopTyped /\ ListDistinct /\ PlaceInv /\ RouteInv /\ RefInv /\ GroupInv
      /\ AddedInv /\ RingInv /\ UnionNewer
  BY TypeParts DEF IInv
<1>1. /\ pc \in {"claim", "spin"} /\ idx <= Len(list) /\ idx' = idx + 1
      /\ UNCHANGED <<pc, routeVars, spin, progress, slotOf, gpuVars, added>>
      /\ Prefetch(x) \/ UNCHANGED ringVars
  BY DEF ClaimMiss, ClaimSkip
<1>2. /\ pc' = pc /\ mode' = mode /\ tok' = tok /\ sel' = sel /\ list' = list
      /\ users' = users /\ routed' = routed /\ spin' = spin
      /\ progress' = progress /\ slotOf' = slotOf /\ groups' = groups
      /\ signaled' = signaled /\ added' = added
  BY <1>1 DEF routeVars, gpuVars
<1>3. idx \in Nat /\ idx >= 1 /\ x \in Experts /\ x \in Range(list)
  BY <1>0, <1>1, ListRange DEF LoopTyped, PlaceInv
<1>4. Claimed' = Claimed
  BY <1>2 DEF Claimed
<1>5. Open' = Open
  BY <1>1, <1>2, <1>4 DEF Open
<1>6. /\ RingTyped' /\ RingMove /\ RingInv'
      /\ \A U : x \in U /\ Newer(state, key, lru, U) => Newer(state', key', lru', U)
  <2> HIDE DEF x
  <2>1. ASSUME NEW U, x \in U PROVE U \cup {x} = U
    BY <2>1
  <2>. QED
    BY <1>0, <1>1, <1>3, <2>1, PrefetchRing, PrefetchNewer, RingSame
<1>t. TypeOK'
  <2>1. LoopTyped'
    BY <1>0, <1>1, <1>2, <1>3 DEF LoopTyped
  <2>. QED
    BY <1>6, <2>1, TypePartsNext
<1>l. ListDistinct' /\ PlaceInv' /\ RouteInv'
  <2>1. PlaceInv'
    BY <1>0, <1>1, <1>2, <1>3, <1>4 DEF PlaceInv
  <2>. QED
    BY <1>0, <1>1, <1>2, <2>1 DEF ListDistinct, RouteInv
<1>r. RefInv'
  BY <1>0, <1>2, <1>5, <1>6, RefKept, OpenFacts
<1>g. GroupInv' /\ AddedInv'
  BY <1>0, <1>2, <1>4, <1>5 DEF GroupInv, AddedInv
<1>n. RingInv' /\ UnionNewer'
  BY <1>0, <1>2, <1>3, <1>6 DEF UnionNewer
<1>. QED
  BY <1>t, <1>l, <1>r, <1>g, <1>n DEF IInv

\* A command buffer completes: those still running were running before.
LEMMA GpuStep ==
  ASSUME IInv, GpuCompletes
  PROVE  IInv'
<1>0. /\ RingTyped /\ LoopTyped /\ ListDistinct /\ PlaceInv /\ RouteInv /\ RefInv /\ GroupInv
      /\ AddedInv /\ RingInv /\ UnionNewer
  BY TypeParts DEF IInv
<1>1. /\ signaled < Len(groups) /\ signaled' = signaled + 1
      /\ UNCHANGED <<ringVars, pc, routeVars, loopVars, slotOf, groups, added>>
  BY DEF GpuCompletes
<1>2. /\ pc' = pc /\ mode' = mode /\ tok' = tok /\ sel' = sel /\ list' = list
      /\ users' = users /\ routed' = routed /\ idx' = idx /\ spin' = spin
      /\ progress' = progress /\ slotOf' = slotOf /\ groups' = groups
      /\ added' = added /\ UNCHANGED ringVars
  BY <1>1 DEF routeVars, loopVars
<1>3. Claimed' = Claimed
  BY <1>2 DEF Claimed
<1>4. Open' = Open
  BY <1>2, <1>3 DEF Open
<1>5. RingTyped' /\ RingMove /\ RingInv'
  BY <1>0, <1>2, RingSame
<1>6. /\ groups \in Seq(SUBSET Experts) /\ Len(groups) \in Nat /\ signaled \in Nat
      /\ signaled + 1 \in 0 .. Len(groups)
      /\ \A g \in (signaled + 1) + 1 .. Len(groups) : g \in signaled + 1 .. Len(groups)
  <2>1. groups \in Seq(SUBSET Experts) /\ signaled \in 0 .. Len(groups)
    BY <1>0 DEF LoopTyped
  <2>2. Len(groups) \in Nat
    BY <2>1, LenProperties
  <2>. QED
    BY <1>1, <2>1, <2>2
<1>t. TypeOK'
  <2>1. LoopTyped'
    BY <1>0, <1>1, <1>2, <1>6 DEF LoopTyped
  <2>. QED
    BY <1>5, <2>1, TypePartsNext
<1>l. ListDistinct' /\ PlaceInv' /\ RouteInv'
  BY <1>0, <1>2, <1>3 DEF ListDistinct, PlaceInv, RouteInv
<1>r. RefInv'
  BY <1>0, <1>2, <1>4, <1>5, RefKept, OpenFacts
<1>g. GroupInv' /\ AddedInv'
  BY <1>0, <1>1, <1>2, <1>3, <1>4, <1>6 DEF GroupInv, AddedInv
<1>n. UnionNewer'
  BY <1>0, <1>2, RingSame DEF UnionNewer
<1>. QED
  BY <1>t, <1>l, <1>r, <1>g, <1>n, <1>5 DEF IInv

-----------------------------------------------------------------------------
(***************************************************************************)
(* Routing.                                                                *)
(***************************************************************************)
LEMMA RankedSeq ==
  ASSUME NEW k \in Nat, NEW r \in Ranked(k)
  PROVE  /\ r \in Seq(Experts) /\ Len(r) = k
         /\ \A i, j \in 1 .. k : r[i] = r[j] => i = j
<1>1. r \in [1 .. k -> Experts]
  BY DEF Ranked
<1>2. r \in Seq(Experts)
  BY <1>1, SeqDef
<1>3. Len(r) = k
  BY <1>1, <1>2, LenProperties
<1>. QED
  BY <1>2, <1>3 DEF Ranked

\* A layer begins with nothing claimed, and no reference is left from before.
LEMMA BeginStep ==
  ASSUME IInv, NEW m \in {"decode", "prefill"}, BeginLayer(m), pc' = "fire", idx' = 1,
         sel' \in Seq(Experts), list' \in Seq(Experts),
         users' \in [Experts -> SUBSET Rows], routed' \subseteq Rows \X Experts,
         ListDistinct', RouteInv',
         m = "prefill" => list' = <<>>
  PROVE  IInv'
<1>0. /\ RingTyped /\ LoopTyped /\ ListDistinct /\ PlaceInv /\ RouteInv /\ RefInv /\ GroupInv
      /\ AddedInv /\ RingInv /\ UnionNewer
  BY TypeParts DEF IInv
<1>1. /\ pc = "layerDone" /\ mode' = m /\ spin' = 0 /\ progress' = FALSE
      /\ slotOf' = [x \in Experts |-> NoSlot] /\ groups' = <<>> /\ signaled' = 0
      /\ added' = [p \in Rows \X Experts |-> 0] /\ tok' = 1 /\ UNCHANGED ringVars
  BY DEF BeginLayer
<1>2. RingTyped' /\ RingMove /\ RingInv'
  BY <1>0, <1>1, RingSame
<1>3. groups' \in Seq(SUBSET Experts) /\ Len(groups') = 0 /\ 1 \in Rows
  BY <1>1, EmptySeq, SizesAssumption DEF Rows
<1>4. LoopTyped'
  <2>1. slotOf' \in [Experts -> Slots \cup {NoSlot}] /\ added' \in [Rows \X Experts -> Nat]
    BY <1>1
  <2>2. signaled' \in 0 .. Len(groups') /\ spin' \in 0 .. SpinPeriod /\ idx' \in Nat
    BY <1>1, <1>3, SizesAssumption
  <2>. QED
    BY <1>1, <1>3, <2>1, <2>2 DEF LoopTyped
<1>5. PlaceInv'
  <2>1. Len(sel') \in Nat
    BY LenProperties
  <2>. QED
    BY <1>1, <2>1 DEF PlaceInv
<1>6. Claimed' = {} /\ Open' = {} /\ Open = {}
  <2>1. Range(list') \subseteq Experts
    BY SeqRange
  <2>2. Claimed' = {}
    BY <1>1, <2>1 DEF Claimed
  <2>3. Open = {}
    BY <1>0, <1>1, OpenFacts
  <2>. QED
    BY <2>2, <2>3 DEF Open
<1>r. RefInv'
  BY <1>0, <1>1, <1>6 DEF RefInv, ringVars
<1>g. GroupInv'
  BY <1>1, <1>3, <1>6 DEF GroupInv
<1>a. AddedInv'
  BY <1>1, <1>6 DEF AddedInv
<1>n. UnionNewer'
  <2>1. Range(<<>>) = {}
    BY DEF Range
  <2>. QED
    BY <1>1, <2>1 DEF UnionNewer, Newer
<1>. QED
  BY <1>2, <1>4, <1>5, <1>r, <1>g, <1>a, <1>n, TypePartsNext DEF IInv

LEMMA DecodeLayerStep ==
  ASSUME IInv, NEW r \in Ranked(TopK + SpecWidth), DecodeLayer(r)
  PROVE  IInv'
<1>0. TopK \in Nat /\ TopK + SpecWidth \in Nat /\ TopK <= TopK + SpecWidth /\ 1 \in Rows
  BY SizesAssumption DEF Rows
<1>1. /\ BeginLayer("decode") /\ sel' = r /\ list' = SubSeq(r, 1, TopK)
      /\ users' = [x \in Experts |-> IF x \in Range(list') THEN {1} ELSE {}]
      /\ routed' = {1} \X Range(list') /\ pc' = "fire" /\ idx' = 1 /\ mode' = "decode"
  BY DEF DecodeLayer, Goto, BeginLayer
<1>2. /\ r \in Seq(Experts) /\ Len(r) = TopK + SpecWidth
      /\ \A i, j \in 1 .. TopK + SpecWidth : r[i] = r[j] => i = j
  BY <1>0, RankedSeq
<1>3. /\ list' \in Seq(Experts) /\ Len(list') = TopK
      /\ \A i \in 1 .. TopK : list'[i] = r[i]
  <2>1. 1 \in 1 .. Len(r) + 1 /\ TopK \in 0 .. Len(r)
    BY <1>0, <1>2
  <2>2. /\ SubSeq(r, 1, TopK) \in Seq(Experts)
        /\ Len(SubSeq(r, 1, TopK)) = TopK - 1 + 1
        /\ \A i \in 1 .. TopK - 1 + 1 : SubSeq(r, 1, TopK)[i] = r[1 + i - 1]
    BY <1>0, <1>2, <2>1, SubSeqProperties
  <2>3. TopK - 1 + 1 = TopK /\ \A i \in 1 .. TopK : 1 + i - 1 = i
    BY <1>0
  <2>. QED
    BY <1>1, <2>2, <2>3
<1>4. ListDistinct'
  BY <1>0, <1>2, <1>3 DEF ListDistinct
<1>5. Range(list') \subseteq Experts
  BY <1>3, SeqRange
<1>6. users' \in [Experts -> SUBSET Rows] /\ routed' \subseteq Rows \X Experts
  BY <1>0, <1>1, <1>5
<1>7. RouteInv'
  BY <1>1, <1>5 DEF RouteInv
<1>. QED
  BY <1>1, <1>2, <1>3, <1>4, <1>6, <1>7, BeginStep

LEMMA PrefillLayerStep ==
  ASSUME IInv, NEW r \in Ranked(TopK), PrefillLayer(r)
  PROVE  IInv'
<1>0. TopK \in Nat /\ 1 \in Rows
  BY SizesAssumption DEF Rows
<1>1. /\ BeginLayer("prefill") /\ sel' = r /\ list' = <<>>
      /\ users' = [x \in Experts |-> {}] /\ tok' = 1
      /\ routed' = {1} \X Range(r) /\ pc' = "fire" /\ idx' = 1 /\ mode' = "prefill"
  BY DEF PrefillLayer, Goto, BeginLayer
<1>2. r \in Seq(Experts) /\ Len(r) = TopK
  BY <1>0, RankedSeq
<1>3. list' \in Seq(Experts) /\ Len(list') = 0 /\ ListDistinct'
  BY <1>1, EmptySeq DEF ListDistinct
<1>4. Range(r) \subseteq Experts /\ \A x : x \in Range(r) <=> \E j \in 1 .. Len(r) : r[j] = x
  BY <1>2, SeqRange
<1>5. users' \in [Experts -> SUBSET Rows] /\ routed' \subseteq Rows \X Experts
  BY <1>0, <1>1, <1>4
<1>6. RouteInv'
  BY <1>1, <1>4 DEF RouteInv
<1>. QED
  BY <1>1, <1>2, <1>3, <1>5, <1>6, BeginStep

LEMMA FireDecodeStep ==
  ASSUME IInv, FireDecode
  PROVE  IInv'
<1> DEFINE x == sel[idx]
<1>0. /\ RingTyped /\ LoopTyped /\ ListDistinct /\ PlaceInv /\ RouteInv /\ RefInv /\ GroupInv
      /\ AddedInv /\ RingInv /\ UnionNewer
  BY TypeParts DEF IInv
<1>1. /\ pc = "fire" /\ mode = "decode" /\ idx <= Len(sel) /\ idx' = idx + 1 /\ Prefetch(x)
      /\ UNCHANGED <<pc, routeVars, spin, progress, slotOf, gpuVars, added>>
  BY DEF FireDecode
<1>2. /\ pc' = pc /\ mode' = mode /\ tok' = tok /\ sel' = sel /\ list' = list
      /\ users' = users /\ routed' = routed /\ spin' = spin
      /\ progress' = progress /\ slotOf' = slotOf /\ groups' = groups
      /\ signaled' = signaled /\ added' = added
  BY <1>1 DEF routeVars, gpuVars
<1>3. idx \in Nat /\ idx >= 1 /\ x \in Experts
  BY <1>0, <1>1, ElementOfSeq, LenProperties DEF LoopTyped, PlaceInv
<1>4. Claimed' = Claimed
  BY <1>2 DEF Claimed
<1>5. Open' = Open
  BY <1>1, <1>2, <1>4 DEF Open
<1>6. RingTyped' /\ RingMove /\ RingInv'
  <2> HIDE DEF x
  <2>. QED
    BY <1>0, <1>1, <1>3, PrefetchRing
<1>t. TypeOK'
  <2>1. LoopTyped'
    BY <1>0, <1>1, <1>2, <1>3 DEF LoopTyped
  <2>. QED
    BY <1>6, <2>1, TypePartsNext
<1>l. ListDistinct' /\ PlaceInv' /\ RouteInv'
  <2>1. PlaceInv'
    BY <1>0, <1>1, <1>2, <1>3, <1>4 DEF PlaceInv
  <2>. QED
    BY <1>0, <1>1, <1>2, <2>1 DEF ListDistinct, RouteInv
<1>r. RefInv'
  BY <1>0, <1>2, <1>5, <1>6, RefKept, OpenFacts
<1>g. GroupInv' /\ AddedInv'
  BY <1>0, <1>2, <1>4, <1>5 DEF GroupInv, AddedInv
<1>n. UnionNewer'
  BY <1>1, <1>2 DEF UnionNewer
<1>. QED
  BY <1>t, <1>l, <1>r, <1>g, <1>n, <1>6 DEF IInv

\* The rank at idx is entered for the token: it moves from "to route" to "used".
LEMMA FirePrefillRoute ==
  ASSUME IInv, FirePrefill
  PROVE  RouteInv'
<1> DEFINE x == sel[idx]
<1>0. LoopTyped /\ RouteInv /\ PlaceInv
  BY TypeParts DEF IInv
<1>1. /\ pc = "fire" /\ mode = "prefill" /\ idx <= Len(sel) /\ idx' = idx + 1
      /\ users' = [users EXCEPT ![x] = @ \cup {tok}]
      /\ pc' = pc /\ mode' = mode /\ tok' = tok /\ sel' = sel /\ routed' = routed
      /\ (x \in Range(list) /\ list' = list) \/ list' = Append(list, x)
  BY DEF FirePrefill
<1>2. idx \in Nat /\ idx >= 1 /\ x \in Experts /\ Len(sel) \in Nat /\ list \in Seq(Experts)
  BY <1>0, <1>1, ElementOfSeq, LenProperties DEF LoopTyped, PlaceInv
<1>3. Range(list') = Range(list) \cup {x}
  <2> HIDE DEF x
  <2>1. CASE x \in Range(list) /\ list' = list
    BY <2>1
  <2>2. CASE list' = Append(list, x)
    BY <1>2, <2>2, AppendRange
  <2>. QED
    BY <1>1, <2>1, <2>2
<1>4. /\ users'[x] = users[x] \cup {tok}
      /\ \A y \in Experts : y # x => users'[y] = users[y]
  BY <1>0, <1>1, <1>2 DEF LoopTyped
<1>5. \A y : (\E j \in idx .. Len(sel) : sel[j] = y)
             <=> y = x \/ \E j \in idx + 1 .. Len(sel) : sel[j] = y
  <2>1. \A j : j \in idx .. Len(sel) <=> j = idx \/ j \in idx + 1 .. Len(sel)
    BY <1>1, <1>2
  <2>. QED
    BY <2>1
<1>6. ASSUME NEW t \in Rows, NEW y \in Experts
      PROVE  <<t, y>> \in routed' <=>
               \/ t \in users'[y]
               \/ /\ pc' = "fire" /\ mode' = "prefill" /\ t = tok'
                  /\ \E j \in idx' .. Len(sel') : sel'[j] = y
  <2>1. <<t, y>> \in routed <=>
               \/ t \in users[y]
               \/ t = tok /\ (y = x \/ \E j \in idx + 1 .. Len(sel) : sel[j] = y)
    BY <1>0, <1>1, <1>5 DEF RouteInv
  <2>2. t \in users'[y] <=> t \in users[y] \/ (t = tok /\ y = x)
    BY <1>4
  <2>. QED
    BY <1>1, <2>1, <2>2
<1>7. \A y \in Experts : users'[y] # {} => y \in Range(list')
  BY <1>0, <1>3, <1>4 DEF RouteInv
<1>. QED
  BY <1>6, <1>7 DEF RouteInv

LEMMA FirePrefillStep ==
  ASSUME IInv, FirePrefill
  PROVE  IInv'
<1> DEFINE x == sel[idx]
<1>0. /\ RingTyped /\ LoopTyped /\ ListDistinct /\ PlaceInv /\ RouteInv /\ RefInv /\ GroupInv
      /\ AddedInv /\ RingInv /\ UnionNewer
  BY TypeParts DEF IInv
<1>1. /\ pc = "fire" /\ mode = "prefill" /\ idx <= Len(sel) /\ idx' = idx + 1
      /\ users' = [users EXCEPT ![x] = @ \cup {tok}]
      /\ UNCHANGED <<pc, mode, tok, sel, routed, spin, progress, slotOf, gpuVars, added>>
      /\ \/ x \in Range(list) /\ list' = list /\ UNCHANGED ringVars
         \/ x \notin Range(list) /\ list' = Append(list, x) /\ Prefetch(x)
  BY DEF FirePrefill
<1>2. /\ pc' = pc /\ mode' = mode /\ tok' = tok /\ sel' = sel /\ routed' = routed
      /\ spin' = spin /\ progress' = progress /\ slotOf' = slotOf /\ groups' = groups
      /\ signaled' = signaled /\ added' = added
  BY <1>1 DEF gpuVars
<1>3. idx \in Nat /\ idx >= 1 /\ x \in Experts /\ Len(sel) \in Nat /\ list \in Seq(Experts)
  BY <1>0, <1>1, ElementOfSeq, LenProperties DEF LoopTyped, PlaceInv
<1>4. /\ list' \in Seq(Experts) /\ Range(list') = Range(list) \cup {x}
      /\ ListDistinct'
  <2> HIDE DEF x
  <2>1. CASE x \in Range(list) /\ list' = list
    BY <1>0, <1>3, <2>1 DEF ListDistinct
  <2>2. CASE x \notin Range(list) /\ list' = Append(list, x)
    <3>1. /\ list' \in Seq(Experts) /\ Len(list') = Len(list) + 1 /\ list'[Len(list) + 1] = x
          /\ \A i \in 1 .. Len(list) : list'[i] = list[i]
          /\ Range(list') = Range(list) \cup {x}
      BY <1>3, <2>2, AppendRange
    <3>2. \A i \in 1 .. Len(list) : list[i] # x
      BY <1>0, <2>2, ListRange
    <3>3. Len(list) \in Nat
      BY <1>3, LenProperties
    <3>4. ListDistinct'
      BY <1>0, <3>1, <3>2, <3>3 DEF ListDistinct
    <3>. QED
      BY <3>1, <3>4
  <2>. QED
    BY <1>1, <2>1, <2>2
<1>5. Claimed = {} /\ Open = {} /\ \A y \in Experts : slotOf[y] = NoSlot
  BY <1>0, <1>1, OpenFacts DEF PlaceInv
<1>6. Claimed' = {}
  BY <1>2, <1>3, <1>4, <1>5, SeqRange DEF Claimed
<1>7. Open' = Open
  BY <1>5, <1>6 DEF Open
<1>8. /\ RingTyped' /\ RingMove /\ RingInv'
      /\ Newer(state', key', lru', Range(list'))
  <2> HIDE DEF x
  <2>1. Newer(state, key, lru, Range(list))
    BY <1>0, <1>1 DEF UnionNewer
  <2>2. CASE x \in Range(list) /\ UNCHANGED ringVars
    <3>1. Range(list') = Range(list)
      BY <2>2, <1>4
    <3>. QED
      BY <1>0, <2>1, <2>2, <3>1, RingSame
  <2>3. CASE Prefetch(x)
    BY <1>0, <1>3, <1>4, <2>1, <2>3, PrefetchRing, PrefetchNewer
  <2>. QED
    BY <1>1, <2>2, <2>3
<1>t. TypeOK'
  <2>1. users' \in [Experts -> SUBSET Rows]
    BY <1>0, <1>1, <1>3 DEF LoopTyped
  <2>2. LoopTyped'
    BY <1>0, <1>1, <1>2, <1>3, <1>4, <2>1 DEF LoopTyped
  <2>. QED
    BY <1>8, <2>2, TypePartsNext
<1>l. PlaceInv'
  BY <1>0, <1>1, <1>2, <1>3, <1>5 DEF PlaceInv
<1>r. RefInv'
  BY <1>0, <1>2, <1>5, <1>7, <1>8, RefKept
<1>g. GroupInv'
  BY <1>0, <1>2, <1>5, <1>6, <1>7 DEF GroupInv
<1>a. AddedInv'
  BY <1>0, <1>2, <1>5, <1>6 DEF AddedInv
<1>n. UnionNewer'
  BY <1>8 DEF UnionNewer
<1>. QED
  BY <1>t, <1>4, <1>l, <1>r, <1>g, <1>a, <1>n, <1>8, FirePrefillRoute DEF IInv

\* The next token of the chunk: the current one has been entered for all its ranks.
LEMMA NextTokenStep ==
  ASSUME IInv, NEW r \in Ranked(TopK), NextToken(r)
  PROVE  IInv'
<1>0. /\ RingTyped /\ LoopTyped /\ ListDistinct /\ PlaceInv /\ RouteInv /\ RefInv /\ GroupInv
      /\ AddedInv /\ RingInv /\ UnionNewer
  BY TypeParts DEF IInv
<1>1. /\ pc = "fire" /\ mode = "prefill" /\ idx > Len(sel) /\ tok < Batch
      /\ tok' = tok + 1 /\ sel' = r /\ idx' = 1
      /\ routed' = routed \cup {tok'} \X Range(r)
      /\ UNCHANGED <<ringVars, pc, mode, list, users, spin, progress, slotOf, gpuVars, added>>
  BY DEF NextToken
<1>2. /\ pc' = pc /\ mode' = mode /\ list' = list /\ users' = users /\ spin' = spin
      /\ progress' = progress /\ slotOf' = slotOf /\ groups' = groups
      /\ signaled' = signaled /\ added' = added /\ UNCHANGED ringVars
  BY <1>1 DEF gpuVars
<1>3. r \in Seq(Experts) /\ Len(r) = TopK /\ TopK \in Nat
  BY SizesAssumption, RankedSeq
<1>4. /\ Range(r) \subseteq Experts
      /\ \A x : x \in Range(r) <=> \E j \in 1 .. Len(r) : r[j] = x
  BY <1>3, SeqRange
<1>5. tok' \in Rows /\ tok' # tok
  BY <1>0, <1>1, SizesAssumption DEF LoopTyped, Rows
<1>6. Claimed' = Claimed
  BY <1>2 DEF Claimed
<1>7. Open' = Open
  BY <1>1, <1>2, <1>6 DEF Open
<1>8. RingTyped' /\ RingMove /\ RingInv'
  BY <1>0, <1>2, RingSame
<1>t. TypeOK'
  <2>1. routed' \subseteq Rows \X Experts
    BY <1>0, <1>1, <1>4, <1>5 DEF LoopTyped
  <2>2. LoopTyped'
    BY <1>0, <1>1, <1>2, <1>3, <1>5, <2>1 DEF LoopTyped
  <2>. QED
    BY <1>8, <2>2, TypePartsNext
<1>d. ListDistinct' /\ PlaceInv'
  BY <1>0, <1>1, <1>2, <1>3, <1>6 DEF ListDistinct, PlaceInv
<1>u. RouteInv'
  <2>1. \A x : ~ \E j \in idx .. Len(sel) : sel[j] = x
    BY <1>0, <1>1, LenProperties DEF LoopTyped
  <2>2. ASSUME NEW t \in Rows, NEW x \in Experts
        PROVE  <<t, x>> \in routed' <=> t \in users[x] \/ (t = tok' /\ x \in Range(r))
    <3>1. <<t, x>> \in routed <=> t \in users[x]
      BY <1>0, <2>1 DEF RouteInv
    <3>2. <<t, x>> \in routed' <=> <<t, x>> \in routed \/ (t = tok' /\ x \in Range(r))
      BY <1>1
    <3>. QED
      BY <3>1, <3>2
  <2>. QED
    BY <1>0, <1>1, <1>2, <1>4, <2>2 DEF RouteInv
<1>r. RefInv'
  BY <1>0, <1>2, <1>7, <1>8, RefKept, OpenFacts
<1>g. GroupInv' /\ AddedInv'
  BY <1>0, <1>2, <1>6, <1>7 DEF GroupInv, AddedInv
<1>n. UnionNewer'
  BY <1>0, <1>2, RingSame DEF UnionNewer
<1>. QED
  BY <1>t, <1>d, <1>u, <1>r, <1>g, <1>n, <1>8 DEF IInv

\* All is routed: what the router asked for is what the lists hold.
LEMMA FiredStep ==
  ASSUME IInv, Fired
  PROVE  IInv'
<1>0. /\ RingTyped /\ LoopTyped /\ ListDistinct /\ PlaceInv /\ RouteInv /\ RefInv /\ GroupInv
      /\ AddedInv /\ RingInv /\ UnionNewer
  BY TypeParts DEF IInv
<1>1. /\ pc = "fire" /\ idx > Len(sel) /\ idx' = 1
      /\ pc' = (IF mode = "decode" THEN "claim" ELSE "spin")
      /\ UNCHANGED <<ringVars, routeVars, spin, progress, slotOf, gpuVars, added>>
  BY DEF Fired, Goto
<1>2. /\ mode' = mode /\ tok' = tok /\ sel' = sel /\ list' = list
      /\ users' = users /\ routed' = routed /\ spin' = spin
      /\ progress' = progress /\ slotOf' = slotOf /\ groups' = groups
      /\ signaled' = signaled /\ added' = added /\ UNCHANGED ringVars
  BY <1>1 DEF routeVars, gpuVars
<1>3. Claimed' = {} /\ Claimed = {} /\ Open = {}
  BY <1>0, <1>1, <1>2, OpenFacts DEF Claimed
<1>4. Open' = Open
  BY <1>3 DEF Open
<1>5. RingTyped' /\ RingMove /\ RingInv'
  BY <1>0, <1>2, RingSame
<1>t. TypeOK'
  <2>1. LoopTyped'
    BY <1>0, <1>1, <1>2 DEF LoopTyped
  <2>. QED
    BY <1>5, <2>1, TypePartsNext
<1>d. ListDistinct' /\ PlaceInv'
  BY <1>0, <1>1, <1>2 DEF ListDistinct, PlaceInv, LoopTyped
<1>u. RouteInv'
  <2>1. \A x : ~ \E j \in idx .. Len(sel) : sel[j] = x
    BY <1>0, <1>1, LenProperties DEF LoopTyped
  <2>. QED
    BY <1>0, <1>1, <1>2, <2>1 DEF RouteInv
<1>r. RefInv'
  BY <1>0, <1>2, <1>4, <1>5, RefKept, OpenFacts
<1>g. GroupInv' /\ AddedInv'
  BY <1>0, <1>2, <1>3, <1>4 DEF GroupInv, AddedInv
<1>n. UnionNewer'
  BY <1>0, <1>1, <1>2, RingSame DEF UnionNewer
<1>. QED
  BY <1>t, <1>d, <1>u, <1>r, <1>g, <1>n, <1>5 DEF IInv

-----------------------------------------------------------------------------
(***************************************************************************)
(* Claiming, running, releasing.                                           *)
(***************************************************************************)
LEMMA GroupTypes ==
  ASSUME LoopTyped
  PROVE  /\ groups \in Seq(SUBSET Experts) /\ Len(groups) \in Nat
         /\ signaled \in Nat /\ signaled <= Len(groups)
         /\ \A g \in 1 .. Len(groups) : groups[g] \subseteq Experts
         /\ \A x : x \in Running <=> \E g \in 1 .. Len(groups) : x \in groups[g]
<1>1. groups \in Seq(SUBSET Experts) /\ signaled \in 0 .. Len(groups)
  BY DEF LoopTyped
<1>2. Len(groups) \in Nat /\ \A g \in 1 .. Len(groups) : groups[g] \in SUBSET Experts
  BY <1>1, LenProperties, ElementOfSeq
<1>3. \A S : S \in Range(groups) <=> \E g \in 1 .. Len(groups) : groups[g] = S
  BY <1>1, SeqRange
<1>. QED
  BY <1>1, <1>2, <1>3 DEF Running

\* A command buffer more that reads experts no other reads.
LEMMA AppendGroup ==
  ASSUME LoopTyped, GroupInv, NEW N \in SUBSET Experts, groups' = Append(groups, N),
         \A x \in N : x \notin Running,
         NEW C, NEW O, Claimed \subseteq C, Open \subseteq O, N \subseteq C, N \subseteq O
  PROVE  /\ groups' \in Seq(SUBSET Experts) /\ Len(groups') = Len(groups) + 1
         /\ \A g \in 1 .. Len(groups') : \A x \in groups'[g] : x \in C
         /\ \A g, h \in 1 .. Len(groups') : \A x \in groups'[g] : x \in groups'[h] => g = h
         /\ \A g \in signaled + 1 .. Len(groups') : \A x \in groups'[g] : x \in O
<1>1. /\ groups \in Seq(SUBSET Experts) /\ Len(groups) \in Nat
      /\ signaled \in Nat /\ signaled <= Len(groups)
      /\ \A x : x \in Running <=> \E g \in 1 .. Len(groups) : x \in groups[g]
  BY GroupTypes
<1>2. /\ groups' \in Seq(SUBSET Experts) /\ Len(groups') = Len(groups) + 1
      /\ groups'[Len(groups) + 1] = N
      /\ \A g \in 1 .. Len(groups) : groups'[g] = groups[g]
  BY <1>1, AppendProperties
<1>3. \A g \in 1 .. Len(groups') : g = Len(groups) + 1 \/ g \in 1 .. Len(groups)
  BY <1>1, <1>2
<1>4. \A g \in 1 .. Len(groups') : \A x \in groups'[g] : x \in C
  BY <1>2, <1>3 DEF GroupInv
<1>5. ASSUME NEW g \in 1 .. Len(groups'), NEW h \in 1 .. Len(groups'),
             NEW x \in groups'[g], x \in groups'[h]
      PROVE  g = h
  <2>1. g \in 1 .. Len(groups) => x \in groups[g] /\ x \in Running
    BY <1>1, <1>2
  <2>2. h \in 1 .. Len(groups) => x \in groups[h] /\ x \in Running
    BY <1>1, <1>2, <1>5
  <2>3. g = Len(groups) + 1 \/ h = Len(groups) + 1 => x \notin Running
    BY <2>1, <2>2, <1>2, <1>5
  <2>. QED
    BY <1>3, <2>1, <2>2, <2>3 DEF GroupInv
<1>6. ASSUME NEW g \in signaled + 1 .. Len(groups'), NEW x \in groups'[g]
      PROVE  x \in O
  <2>1. g = Len(groups) + 1 \/ (g \in 1 .. Len(groups) /\ g \in signaled + 1 .. Len(groups))
    BY <1>1, <1>2
  <2>. QED
    BY <1>2, <2>1 DEF GroupInv
<1>. QED
  BY <1>2, <1>4, <1>5, <1>6

\* The end of a pass over the list: what was claimed is dispatched at once in
\* decode, and already waited for in prefill.
LEMMA PassEnds ==
  ASSUME IInv, pc \in {"claim", "spin"}, idx' = 1,
         mode = "prefill" => groups' = groups,
         Dispatch \/ groups' = groups,
         pc' \in {"spin", "wait", "layerDone"},
         pc' = "wait" => mode = "decode" /\ Claimed = Range(list),
         pc' = "layerDone" => mode = "prefill" /\ Claimed = Range(list),
         spin' \in 0 .. SpinPeriod, progress' \in BOOLEAN,
         UNCHANGED <<ringVars, routeVars, slotOf, signaled, added>>
  PROVE  IInv'
<1>0. /\ RingTyped /\ LoopTyped /\ ListDistinct /\ PlaceInv /\ RouteInv /\ RefInv /\ GroupInv
      /\ AddedInv /\ RingInv /\ UnionNewer
  BY TypeParts DEF IInv
<1>2. /\ mode' = mode /\ tok' = tok /\ sel' = sel /\ list' = list
      /\ users' = users /\ routed' = routed /\ slotOf' = slotOf
      /\ signaled' = signaled /\ added' = added /\ UNCHANGED ringVars
  BY DEF routeVars
<1>3. Claimed' = Claimed
  BY <1>2 DEF Claimed
<1>4. Open' = Open
  <2>1. CASE mode = "decode"
    <3>1. Open = Claimed /\ \A x \in Claimed : \E j \in 1 .. Len(list) : list[j] = x
      BY <1>0, <2>1, OpenFacts, ListRange
    <3>2. Open' = Claimed
      BY <1>2, <1>3, <2>1, <3>1 DEF Open
    <3>. QED
      BY <3>1, <3>2
  <2>2. CASE mode = "prefill"
    BY <1>0, <1>2, <2>2 DEF Open, PlaceInv
  <2>. QED
    BY <1>0, <2>1, <2>2 DEF LoopTyped
<1>5. RingTyped' /\ RingMove /\ RingInv'
  BY <1>0, <1>2, RingSame
<1>6. groups' \in Seq(SUBSET Experts) /\ signaled \in 0 .. Len(groups') /\ GroupInv'
  <2>1. CASE groups' = groups
    BY <1>0, <1>2, <1>3, <1>4, <2>1 DEF GroupInv, LoopTyped
  <2>2. CASE groups' # groups
    <3>1. mode = "decode" /\ groups' = Append(groups, Claimed \ Running)
      BY <1>0, <2>2 DEF Dispatch, LoopTyped
    <3>2. Open = Claimed /\ Claimed \subseteq Experts
      BY <1>0, <3>1, OpenFacts
    <3>3. /\ groups' \in Seq(SUBSET Experts) /\ Len(groups') = Len(groups) + 1
          /\ \A g \in 1 .. Len(groups') : \A x \in groups'[g] : x \in Claimed
          /\ \A g, h \in 1 .. Len(groups') : \A x \in groups'[g] : x \in groups'[h] => g = h
          /\ \A g \in signaled + 1 .. Len(groups') : \A x \in groups'[g] : x \in Open
      <4> DEFINE N == Claimed \ Running
      <4>1. /\ N \in SUBSET Experts /\ groups' = Append(groups, N)
            /\ \A x \in N : x \notin Running
            /\ N \subseteq Claimed /\ N \subseteq Open
        BY <3>1, <3>2
      <4> HIDE DEF N
      <4>. QED
        BY <1>0, <4>1, AppendGroup
    <3>4. signaled \in 0 .. Len(groups')
      BY <1>0, <3>3, GroupTypes
    <3>5. GroupInv'
      BY <1>2, <1>3, <1>4, <3>3 DEF GroupInv
    <3>. QED
      BY <3>3, <3>4, <3>5
  <2>. QED
    BY <2>1, <2>2
<1>t. TypeOK'
  <2>1. LoopTyped'
    BY <1>0, <1>2, <1>6 DEF LoopTyped
  <2>. QED
    BY <1>5, <2>1, TypePartsNext
<1>d. ListDistinct' /\ PlaceInv'
  BY <1>0, <1>2, <1>3 DEF ListDistinct, PlaceInv
<1>u. RouteInv'
  BY <1>0, <1>2 DEF RouteInv
<1>r. RefInv'
  BY <1>0, <1>2, <1>4, <1>5, RefKept, OpenFacts
<1>a. AddedInv'
  BY <1>0, <1>2, <1>3, <1>4 DEF AddedInv
<1>n. UnionNewer'
  BY <1>0, <1>2, RingSame DEF UnionNewer
<1>. QED
  BY <1>t, <1>d, <1>u, <1>r, <1>6, <1>a, <1>n, <1>5 DEF IInv

LEMMA PassEndsStep ==
  ASSUME IInv, FirstPassEnds \/ SweepEnds \/ AllClaimed
  PROVE  IInv'
<1>0. LoopTyped /\ PlaceInv
  BY TypeParts DEF IInv
<1>1. CASE FirstPassEnds
  <2>1. mode = "decode" /\ spin' = spin /\ spin \in 0 .. SpinPeriod
    BY <1>0, <1>1 DEF FirstPassEnds, PlaceInv, LoopTyped
  <2>. QED
    BY <1>1, <2>1, PassEnds DEF FirstPassEnds, Goto
<1>2. CASE SweepEnds
  <2>1. spin' \in 0 .. SpinPeriod
    BY <1>0, <1>2, SizesAssumption DEF SweepEnds, NextSpin, LoopTyped
  <2>2. mode = "decode" \/ groups' = groups
    BY <1>2 DEF SweepEnds
  <2>. QED
    BY <1>2, <2>1, <2>2, PassEnds DEF SweepEnds
<1>3. CASE AllClaimed
  <2>1. /\ spin' \in 0 .. SpinPeriod /\ progress' \in BOOLEAN
        /\ mode \in {"decode", "prefill"}
    BY <1>0, <1>3 DEF AllClaimed, LoopTyped
  <2>. QED
    BY <1>3, <2>1, PassEnds DEF AllClaimed, Goto
<1>. QED
  BY <1>1, <1>2, <1>3

\* The waits are over: no claim is open.
LEMMA WaitEndsStep ==
  ASSUME IInv, WaitEnds
  PROVE  IInv'
<1>0. /\ RingTyped /\ LoopTyped /\ ListDistinct /\ PlaceInv /\ RouteInv /\ RefInv /\ GroupInv
      /\ AddedInv /\ RingInv /\ UnionNewer
  BY TypeParts DEF IInv
<1>1. /\ pc = "wait" /\ idx > Len(list) /\ pc' = "layerDone" /\ idx' = 1
      /\ UNCHANGED <<ringVars, routeVars, spin, progress, slotOf, gpuVars, added>>
  BY DEF WaitEnds, Goto
<1>2. /\ mode' = mode /\ tok' = tok /\ sel' = sel /\ list' = list
      /\ users' = users /\ routed' = routed /\ spin' = spin
      /\ progress' = progress /\ slotOf' = slotOf /\ groups' = groups
      /\ signaled' = signaled /\ added' = added /\ UNCHANGED ringVars
  BY <1>1 DEF routeVars, gpuVars
<1>3. Claimed' = Claimed /\ mode = "decode" /\ Claimed = Range(list)
  BY <1>0, <1>1, <1>2 DEF Claimed, PlaceInv
<1>4. Open' = Open
  <2>1. Open = {}
    BY <1>0, <1>1, OpenFacts, ListRange DEF LoopTyped
  <2>2. Open' = {}
    BY <1>1, <1>2, <1>3 DEF Open
  <2>. QED
    BY <2>1, <2>2
<1>5. RingTyped' /\ RingMove /\ RingInv'
  BY <1>0, <1>2, RingSame
<1>t. TypeOK'
  <2>1. LoopTyped'
    BY <1>0, <1>1, <1>2 DEF LoopTyped
  <2>. QED
    BY <1>5, <2>1, TypePartsNext
<1>d. ListDistinct' /\ PlaceInv' /\ RouteInv'
  BY <1>0, <1>1, <1>2, <1>3 DEF ListDistinct, PlaceInv, RouteInv
<1>r. RefInv'
  BY <1>0, <1>2, <1>4, <1>5, RefKept, OpenFacts
<1>g. GroupInv' /\ AddedInv'
  BY <1>0, <1>2, <1>3, <1>4 DEF GroupInv, AddedInv
<1>n. UnionNewer'
  BY <1>1 DEF UnionNewer
<1>. QED
  BY <1>t, <1>d, <1>r, <1>g, <1>n, <1>5 DEF IInv

\* A claim opens: its slot had no reference, so no other claim's is touched.
LEMMA RefOpens ==
  ASSUME RingTyped, RingInv, LoopTyped, PlaceInv, RefInv,
         NEW x \in Experts, NEW s \in Claimable(x), Claim(s), x \notin Claimed,
         slotOf' = [slotOf EXCEPT ![x] = s], Open' = Open \cup {x}
  PROVE  RefInv'
<1>1. /\ s \in Slots /\ refCount[s] = 0 /\ key[s] = x
      /\ state'[s] = "CONSUMED" /\ refCount'[s] = 1 /\ key' = key
      /\ \A t \in Slots : t # s => state'[t] = state[t] /\ refCount'[t] = refCount[t]
  BY ClaimRing
<1>2. /\ slotOf'[x] = s
      /\ \A y \in Open : y # x /\ slotOf'[y] = slotOf[y] /\ slotOf[y] \in Slots
  BY OpenFacts DEF LoopTyped
<1>3. \A y \in Open : slotOf[y] # s
  BY <1>1 DEF RefInv
<1>4. ASSUME NEW y \in Open'
      PROVE  /\ state'[slotOf'[y]] = "CONSUMED"
             /\ refCount'[slotOf'[y]] = 1
             /\ key'[slotOf'[y]] = y
  <2>1. CASE y = x
    BY <1>1, <1>2, <2>1
  <2>2. CASE y \in Open
    BY <1>1, <1>2, <1>3, <2>2 DEF RefInv
  <2>. QED
    BY <2>1, <2>2
<1>5. ASSUME NEW t \in Slots, refCount'[t] # 0
      PROVE  \E y \in Open' : slotOf'[y] = t
  <2>1. CASE t = s
    BY <1>2, <2>1
  <2>2. CASE t # s
    BY <1>1, <1>2, <1>5, <2>2 DEF RefInv
  <2>. QED
    BY <2>1, <2>2
<1>. QED
  BY <1>4, <1>5 DEF RefInv

LEMMA ClaimHitStep ==
  ASSUME IInv, NEW s \in Slots, ClaimHit(s)
  PROVE  IInv'
<1> DEFINE x == list[idx]
<1>0. /\ RingTyped /\ LoopTyped /\ ListDistinct /\ PlaceInv /\ RouteInv /\ RefInv /\ GroupInv
      /\ AddedInv /\ RingInv /\ UnionNewer
  BY TypeParts DEF IInv
<1>1. /\ pc \in {"claim", "spin"} /\ mode = "decode" /\ idx <= Len(list)
      /\ x \notin Claimed /\ s \in Claimable(x) /\ Claim(s)
      /\ slotOf' = [slotOf EXCEPT ![x] = s] /\ progress' = TRUE /\ idx' = idx + 1
      /\ UNCHANGED <<pc, routeVars, spin, gpuVars, added>>
  BY DEF ClaimHit
<1>2. /\ pc' = pc /\ mode' = mode /\ tok' = tok /\ sel' = sel /\ list' = list
      /\ users' = users /\ routed' = routed /\ spin' = spin
      /\ groups' = groups /\ signaled' = signaled /\ added' = added
  BY <1>1 DEF routeVars, gpuVars
<1>3. idx \in Nat /\ idx >= 1 /\ x \in Experts /\ x \in Range(list)
  BY <1>0, <1>1, ListRange DEF LoopTyped, PlaceInv
<1>4. slotOf'[x] = s /\ \A y \in Experts : y # x => slotOf'[y] = slotOf[y]
  BY <1>0, <1>1, <1>3 DEF LoopTyped
<1>5. s # NoSlot
  BY SizesAssumption DEF Slots, NoSlot
<1>6. Claimed' = Claimed \cup {x}
  BY <1>0, <1>2, <1>3, <1>4, <1>5, ListRange DEF Claimed
<1>7. Open = Claimed
  BY <1>0, <1>1, OpenFacts
<1>8. Open' = Claimed'
  BY <1>1, <1>2 DEF Open
<1>9. RingTyped' /\ RingInv' /\ UnionNewer'
  BY <1>0, <1>1, <1>2, <1>3, ClaimRing DEF UnionNewer
<1>t. TypeOK'
  <2>1. slotOf' \in [Experts -> Slots \cup {NoSlot}]
    BY <1>0, <1>1, <1>3 DEF LoopTyped
  <2>2. LoopTyped'
    BY <1>0, <1>1, <1>2, <1>3, <2>1 DEF LoopTyped
  <2>. QED
    BY <1>9, <2>2, TypePartsNext
<1>d. ListDistinct' /\ PlaceInv'
  <2>1. ListDistinct'
    BY <1>0, <1>2 DEF ListDistinct
  <2>2. PlaceInv'
    BY <1>0, <1>1, <1>2, <1>3 DEF PlaceInv
  <2>. QED
    BY <2>1, <2>2
<1>u. RouteInv'
  BY <1>0, <1>1, <1>2 DEF RouteInv
<1>r. RefInv'
  <2>1. Open' = Open \cup {x}
    BY <1>6, <1>7, <1>8
  <2> HIDE DEF x
  <2>. QED
    BY <1>0, <1>1, <1>3, <2>1, RefOpens
<1>g. GroupInv'
  <2>1. \A y : (y \in Claimed => y \in Claimed') /\ (y \in Open => y \in Open')
    BY <1>6, <1>7, <1>8
  <2>. QED
    BY <1>0, <1>2, <2>1 DEF GroupInv
<1>a. AddedInv'
  <2>1. \A y : ~ (y \in Claimed /\ y \notin Open) /\ ~ (y \in Claimed' /\ y \notin Open')
    BY <1>7, <1>8
  <2>. QED
    BY <1>0, <1>2, <2>1 DEF AddedInv
<1>. QED
  BY <1>t, <1>d, <1>u, <1>r, <1>g, <1>a, <1>9 DEF IInv

LEMMA BatchStartStep ==
  ASSUME IInv, NEW s \in Slots, BatchStart(s)
  PROVE  IInv'
<1> DEFINE x == list[idx]
<1>0. /\ RingTyped /\ LoopTyped /\ ListDistinct /\ PlaceInv /\ RouteInv /\ RefInv /\ GroupInv
      /\ AddedInv /\ RingInv /\ UnionNewer
  BY TypeParts DEF IInv
<1>1. /\ pc = "spin" /\ mode = "prefill" /\ idx <= Len(list)
      /\ x \notin Claimed /\ s \in Claimable(x) /\ Claim(s)
      /\ slotOf' = [slotOf EXCEPT ![x] = s] /\ groups' = Append(groups, {x})
      /\ pc' = "batch" /\ UNCHANGED <<routeVars, loopVars, signaled, added>>
  BY DEF BatchStart
<1>2. /\ mode' = mode /\ tok' = tok /\ sel' = sel /\ list' = list
      /\ users' = users /\ routed' = routed /\ idx' = idx /\ spin' = spin
      /\ progress' = progress /\ signaled' = signaled /\ added' = added
  BY <1>1 DEF routeVars, loopVars
<1>3. idx \in Nat /\ idx >= 1 /\ x \in Experts /\ x \in Range(list)
  BY <1>0, <1>1, ListRange DEF LoopTyped, PlaceInv
<1>4. slotOf'[x] = s /\ \A y \in Experts : y # x => slotOf'[y] = slotOf[y]
  BY <1>0, <1>1, <1>3 DEF LoopTyped
<1>5. s # NoSlot
  BY SizesAssumption DEF Slots, NoSlot
<1>6. Claimed' = Claimed \cup {x}
  BY <1>0, <1>2, <1>3, <1>4, <1>5, ListRange DEF Claimed
<1>7. Open = {}
  BY <1>0, <1>1, OpenFacts
<1>8. Open' = {x}
  BY <1>1, <1>2, <1>6 DEF Open
<1>9. RingTyped' /\ RingInv' /\ UnionNewer'
  BY <1>0, <1>1, <1>2, <1>3, ClaimRing DEF UnionNewer
<1>x. \A y \in {x} : y \notin Running
  BY <1>0, <1>1, GroupTypes DEF GroupInv
<1>y. /\ groups' \in Seq(SUBSET Experts) /\ Len(groups') = Len(groups) + 1
      /\ GroupInv'
  <2> DEFINE N == {x}
  <2>1. /\ N \in SUBSET Experts /\ groups' = Append(groups, N) /\ \A y \in N : y \notin Running
        /\ Claimed \subseteq Claimed' /\ Open \subseteq Open' /\ N \subseteq Claimed'
        /\ N \subseteq Open'
    BY <1>1, <1>3, <1>6, <1>7, <1>8, <1>x
  <2> HIDE DEF N
  <2>2. /\ groups' \in Seq(SUBSET Experts) /\ Len(groups') = Len(groups) + 1
        /\ \A g \in 1 .. Len(groups') : \A y \in groups'[g] : y \in Claimed'
        /\ \A g, h \in 1 .. Len(groups') : \A y \in groups'[g] : y \in groups'[h] => g = h
        /\ \A g \in signaled + 1 .. Len(groups') : \A y \in groups'[g] : y \in Open'
    BY <1>0, <2>1, AppendGroup
  <2>. QED
    BY <1>2, <2>2 DEF GroupInv
<1>t. TypeOK'
  <2>1. slotOf' \in [Experts -> Slots \cup {NoSlot}]
    BY <1>0, <1>1, <1>3 DEF LoopTyped
  <2>2. signaled' \in 0 .. Len(groups')
    BY <1>0, <1>2, <1>y, GroupTypes
  <2>3. LoopTyped'
    BY <1>0, <1>1, <1>2, <1>y, <2>1, <2>2 DEF LoopTyped
  <2>. QED
    BY <1>9, <2>3, TypePartsNext
<1>d. ListDistinct' /\ PlaceInv'
  <2>1. ListDistinct'
    BY <1>0, <1>2 DEF ListDistinct
  <2>2. PlaceInv'
    BY <1>0, <1>1, <1>2, <1>3, <1>6 DEF PlaceInv
  <2>. QED
    BY <2>1, <2>2
<1>u. RouteInv'
  BY <1>0, <1>1, <1>2 DEF RouteInv
<1>r. RefInv'
  <2>1. Open' = Open \cup {x}
    BY <1>7, <1>8
  <2> HIDE DEF x
  <2>. QED
    BY <1>0, <1>1, <1>3, <2>1, RefOpens
<1>a. AddedInv'
  <2>1. \A y : (y \in Claimed /\ y \notin Open) <=> (y \in Claimed' /\ y \notin Open')
    BY <1>1, <1>6, <1>7, <1>8
  <2>. QED
    BY <1>0, <1>2, <2>1 DEF AddedInv
<1>. QED
  BY <1>t, <1>d, <1>u, <1>r, <1>y, <1>a, <1>9 DEF IInv

-----------------------------------------------------------------------------
\* A claim closes once its command buffer is done: no running one reads it, its
\* reference goes, and it has been added.
LEMMA CloseFacts ==
  ASSUME IInv, NEW x \in Open, Done(x), Accumulate(x), Release(slotOf[x]),
         Open' = Open \ {x}, Claimed' = Claimed,
         UNCHANGED <<routeVars, slotOf, gpuVars>>
  PROVE  /\ RefInv' /\ GroupInv' /\ AddedInv'
         /\ RingTyped' /\ RingInv' /\ added' \in [Rows \X Experts -> Nat]
         /\ state' = state /\ key' = key /\ lru' = lru
<1>0. /\ RingTyped /\ LoopTyped /\ ListDistinct /\ PlaceInv /\ RouteInv /\ RefInv /\ GroupInv
      /\ AddedInv /\ RingInv /\ UnionNewer
  BY TypeParts DEF IInv
<1>1. /\ users' = users /\ slotOf' = slotOf /\ groups' = groups /\ signaled' = signaled
  BY DEF routeVars, gpuVars
<1>2. /\ x \in Claimed /\ x \in Experts /\ slotOf[x] \in Slots /\ refCount[slotOf[x]] = 1
      /\ \A y \in Open : slotOf[y] = slotOf[x] => y = x
  BY <1>0, OpenFacts DEF RefInv
<1>3. /\ state' = state /\ key' = key /\ lru' = lru /\ refCount'[slotOf[x]] = 0
      /\ \A t \in Slots : t # slotOf[x] => refCount'[t] = refCount[t]
      /\ RingTyped' /\ RingInv'
  BY <1>0, <1>2, ReleaseRing
<1>4. RefInv'
  <2>1. \A y \in Open : slotOf[y] \in Slots
    BY <1>0, OpenFacts
  <2>2. ASSUME NEW y \in Open'
        PROVE  /\ state'[slotOf'[y]] = "CONSUMED"
               /\ refCount'[slotOf'[y]] = 1
               /\ key'[slotOf'[y]] = y
    <3>1. y \in Open /\ y # x
      OBVIOUS
    <3>. QED
      BY <1>0, <1>1, <1>2, <1>3, <2>1, <3>1 DEF RefInv
  <2>3. ASSUME NEW t \in Slots, refCount'[t] # 0
        PROVE  \E y \in Open' : slotOf'[y] = t
    <3>1. t # slotOf[x] /\ refCount[t] # 0
      BY <1>3, <2>3
    <3>2. PICK y \in Open : slotOf[y] = t
      BY <1>0, <3>1 DEF RefInv
    <3>. QED
      BY <1>1, <3>1, <3>2
  <2>. QED
    BY <2>2, <2>3 DEF RefInv
<1>5. GroupInv'
  <2>1. PICK h \in 1 .. signaled : x \in groups[h]
    BY DEF Done
  <2>2. h \in 1 .. Len(groups)
    BY <1>0, GroupTypes
  <2>3. ASSUME NEW g \in signaled + 1 .. Len(groups), NEW y \in groups[g]
        PROVE  y \in Open'
    <3>1. g \in 1 .. Len(groups) /\ g # h
      BY <1>0, GroupTypes
    <3>2. y \in Open /\ y # x
      BY <1>0, <2>1, <2>2, <2>3, <3>1 DEF GroupInv
    <3>. QED
      BY <3>2
  <2>. QED
    BY <1>0, <1>1, <2>3 DEF GroupInv
<1>6. added' \in [Rows \X Experts -> Nat] /\ AddedInv'
  <2>1. /\ added \in [Rows \X Experts -> Nat]
        /\ added' = [p \in Rows \X Experts |->
                        IF p[2] = x /\ p[1] \in users[x] THEN added[p] + 1 ELSE added[p]]
    BY <1>0 DEF Accumulate, LoopTyped
  <2>2. added' \in [Rows \X Experts -> Nat]
    BY <2>1
  <2>3. ASSUME NEW t \in Rows, NEW y \in Experts
        PROVE  added'[<<t, y>>] = IF t \in users'[y] /\ y \in Claimed' /\ y \notin Open'
                                  THEN 1 ELSE 0
    <3>1. <<t, y>> \in Rows \X Experts /\ <<t, y>>[1] = t /\ <<t, y>>[2] = y
      OBVIOUS
    <3>2. added'[<<t, y>>] = IF y = x /\ t \in users[x] THEN added[<<t, y>>] + 1
                             ELSE added[<<t, y>>]
      BY <2>1, <3>1
    <3>3. added[<<t, y>>] = IF t \in users[y] /\ y \in Claimed /\ y \notin Open THEN 1 ELSE 0
      BY <1>0 DEF AddedInv
    <3>4. CASE y = x
      <4>1. added[<<t, y>>] = 0
        BY <3>3, <3>4
      <4>. QED
        BY <1>1, <1>2, <3>2, <3>4, <4>1
    <3>5. CASE y # x
      BY <1>1, <3>2, <3>3, <3>5
    <3>. QED
      BY <3>4, <3>5
  <2>. QED
    BY <2>2, <2>3 DEF AddedInv
<1>. QED
  BY <1>3, <1>4, <1>5, <1>6

LEMMA CloseStep ==
  ASSUME IInv, WaitOne \/ BatchEnd
  PROVE  IInv'
<1> DEFINE x == list[idx]
<1>0. /\ RingTyped /\ LoopTyped /\ ListDistinct /\ PlaceInv /\ RouteInv /\ RefInv /\ GroupInv
      /\ AddedInv /\ RingInv /\ UnionNewer
  BY TypeParts DEF IInv
<1>1. /\ \/ pc = "wait" /\ idx <= Len(list) /\ pc' = "wait" /\ progress' = progress
         \/ pc = "batch" /\ pc' = "spin" /\ progress' = TRUE
      /\ Done(x) /\ Accumulate(x) /\ Release(slotOf[x]) /\ idx' = idx + 1
      /\ UNCHANGED <<routeVars, spin, slotOf, gpuVars>>
  BY DEF WaitOne, BatchEnd
<1>2. /\ mode' = mode /\ tok' = tok /\ sel' = sel /\ list' = list
      /\ users' = users /\ routed' = routed /\ spin' = spin
      /\ slotOf' = slotOf /\ groups' = groups /\ signaled' = signaled
  BY <1>1 DEF routeVars, gpuVars
<1>3. /\ idx \in Nat /\ idx >= 1 /\ idx <= Len(list) /\ Len(list) \in Nat
      /\ x \in Experts /\ x \in Range(list)
  BY <1>0, <1>1, ListRange DEF LoopTyped, PlaceInv
<1>4. Claimed' = Claimed
  BY <1>2 DEF Claimed
<1>5. x \in Open /\ Open' = Open \ {x}
  <2>1. CASE pc = "wait" /\ pc' = "wait"
    <3>1. \A y : y \in Open <=> \E j \in idx .. Len(list) : list[j] = y
      BY <1>0, <2>1, OpenFacts
    <3>2. mode = "decode" /\ Claimed = Range(list)
      BY <1>0, <2>1 DEF PlaceInv
    <3>3. \A y : y \in Open' <=> y \in Claimed /\ \E j \in idx + 1 .. Len(list) : list[j] = y
      BY <1>1, <1>2, <1>4, <2>1, <3>2 DEF Open
    <3>4. \A j : j \in idx .. Len(list) <=> j = idx \/ j \in idx + 1 .. Len(list)
      BY <1>3
    <3>5. \A j \in idx + 1 .. Len(list) : list[j] # x /\ list[j] \in Range(list)
      BY <1>0, <1>3, ListRange DEF ListDistinct
    <3>. QED
      BY <3>1, <3>2, <3>3, <3>4, <3>5
  <2>2. CASE pc = "batch" /\ pc' = "spin"
    <3>1. Open = {x} /\ mode = "prefill"
      BY <1>0, <2>2, OpenFacts DEF PlaceInv
    <3>2. Open' = {}
      BY <1>2, <2>2, <3>1 DEF Open
    <3>. QED
      BY <3>1, <3>2
  <2>. QED
    BY <1>1, <2>1, <2>2
<1>6. /\ RefInv' /\ GroupInv' /\ AddedInv'
      /\ RingTyped' /\ RingInv' /\ added' \in [Rows \X Experts -> Nat]
      /\ state' = state /\ key' = key /\ lru' = lru
  <2> HIDE DEF x
  <2>. QED
    BY <1>1, <1>4, <1>5, CloseFacts
<1>t. TypeOK'
  <2>1. progress' \in BOOLEAN
    BY <1>0, <1>1 DEF LoopTyped
  <2>2. pc' \in {"wait", "spin"} /\ idx' \in Nat
    BY <1>1, <1>3
  <2>3. LoopTyped'
    BY <1>0, <1>2, <1>6, <2>1, <2>2 DEF LoopTyped
  <2>. QED
    BY <1>6, <2>3, TypePartsNext
<1>d. ListDistinct' /\ PlaceInv' /\ RouteInv'
  <2>1. ListDistinct'
    BY <1>0, <1>2 DEF ListDistinct
  <2>2. PlaceInv'
    BY <1>0, <1>1, <1>2, <1>3, <1>4 DEF PlaceInv
  <2>3. RouteInv'
    BY <1>0, <1>1, <1>2 DEF RouteInv
  <2>. QED
    BY <2>1, <2>2, <2>3
<1>n. UnionNewer'
  BY <1>0, <1>1, <1>2, <1>6 DEF UnionNewer
<1>. QED
  BY <1>t, <1>d, <1>n, <1>6 DEF IInv

-----------------------------------------------------------------------------
(***************************************************************************)
(* The theorems.                                                           *)
(***************************************************************************)
LEMMA StutterStep ==
  ASSUME IInv, UNCHANGED vars
  PROVE  IInv'
<1>1. /\ state' = state /\ key' = key /\ refCount' = refCount /\ lru' = lru
      /\ pc' = pc /\ mode' = mode /\ tok' = tok /\ sel' = sel /\ list' = list
      /\ users' = users /\ routed' = routed /\ idx' = idx /\ spin' = spin
      /\ progress' = progress /\ slotOf' = slotOf /\ groups' = groups
      /\ signaled' = signaled /\ added' = added
  BY DEF vars, ringVars, routeVars, loopVars, gpuVars
<1>2. Claimed' = Claimed
  BY <1>1 DEF Claimed
<1>3. Open' = Open
  BY <1>1, <1>2 DEF Open
<1>4. TypeOK'
  BY <1>1 DEF IInv, TypeOK
<1>5. ListDistinct' /\ PlaceInv' /\ RouteInv'
  BY <1>1, <1>2 DEF IInv, ListDistinct, PlaceInv, RouteInv
<1>6. RefInv' /\ GroupInv' /\ AddedInv'
  BY <1>1, <1>2, <1>3 DEF IInv, RefInv, GroupInv, AddedInv
<1>7. RingInv' /\ UnionNewer'
  BY <1>1 DEF IInv, RingInv, UnionNewer
<1>. QED
  BY <1>4, <1>5, <1>6, <1>7 DEF IInv

LEMMA InitIInv == Init => IInv
<1> SUFFICES ASSUME Init PROVE IInv
  OBVIOUS
<1>0. RingSize \in Nat /\ RingSize >= 1 /\ 1 \in Rows
  BY SizesAssumption DEF Rows
<1>1. <<>> \in Seq(Experts) /\ Len(<<>>) = 0 /\ Range(<<>>) = {} /\ <<>> \in Seq(SUBSET Experts)
  BY EmptySeq DEF Range
<1>2. /\ state = [s \in Slots |-> "EMPTY"] /\ key = [s \in Slots |-> NoExpert]
      /\ refCount = [s \in Slots |-> 0] /\ lru = [s \in Slots |-> s]
      /\ mode = "decode" /\ pc = "layerDone" /\ tok = 1 /\ sel = <<>> /\ list = <<>>
      /\ users = [x \in Experts |-> {}] /\ routed = {} /\ idx = 1 /\ spin = 0
      /\ progress = FALSE /\ slotOf = [x \in Experts |-> NoSlot]
      /\ groups = <<>> /\ signaled = 0 /\ added = [p \in Rows \X Experts |-> 0]
  BY DEF Init
<1>3. Claimed = {} /\ Open = {}
  BY <1>1, <1>2 DEF Claimed, Open
<1>4. RingTyped
  BY <1>2 DEF RingTyped
<1>5. LoopTyped
  <2>1. spin \in 0 .. SpinPeriod /\ signaled \in 0 .. Len(groups)
    BY <1>1, <1>2, SizesAssumption
  <2>. QED
    BY <1>0, <1>1, <1>2, <2>1 DEF LoopTyped
<1>6. ListDistinct /\ PlaceInv /\ RouteInv
  BY <1>1, <1>2, <1>3 DEF ListDistinct, PlaceInv, RouteInv
<1>7. RefInv /\ GroupInv /\ AddedInv
  BY <1>1, <1>2, <1>3 DEF RefInv, GroupInv, AddedInv
<1>8. RingInv /\ UnionNewer
  BY <1>2 DEF RingInv, UnionNewer
<1>. QED
  BY <1>4, <1>5, <1>6, <1>7, <1>8, TypeParts DEF IInv

LEMMA IInvInductive == IInv /\ [Next]_vars => IInv'
<1> SUFFICES ASSUME IInv, [Next]_vars PROVE IInv'
  OBVIOUS
<1>1. CASE \E r \in Ranked(TopK + SpecWidth) : DecodeLayer(r)
  BY <1>1, DecodeLayerStep
<1>2. CASE \E r \in Ranked(TopK) : PrefillLayer(r)
  BY <1>2, PrefillLayerStep
<1>3. CASE Layer
  <2>1. CASE FireDecode \/ FirePrefill \/ Fired
    BY <2>1, FireDecodeStep, FirePrefillStep, FiredStep
  <2>2. CASE \E r \in Ranked(TopK) : NextToken(r)
    BY <2>2, NextTokenStep
  <2>3. CASE \E s \in Slots : ClaimHit(s) \/ BatchStart(s)
    BY <2>3, ClaimHitStep, BatchStartStep
  <2>4. CASE ClaimMiss \/ ClaimSkip
    BY <2>4, PassOver
  <2>5. CASE FirstPassEnds \/ SweepEnds \/ AllClaimed
    BY <2>5, PassEndsStep
  <2>6. CASE WaitOne \/ WaitEnds \/ BatchEnd
    BY <2>6, CloseStep, WaitEndsStep
  <2>. QED
    BY <1>3, <2>1, <2>2, <2>3, <2>4, <2>5, <2>6 DEF Layer
<1>4. CASE \E s \in Slots : LoadEnds(s) \/ LoadFails(s)
  BY <1>4, LoadStep
<1>5. CASE GpuCompletes
  BY <1>5, GpuStep
<1>6. CASE UNCHANGED vars
  BY <1>6, StutterStep
<1>. QED
  BY <1>1, <1>2, <1>3, <1>4, <1>5, <1>6 DEF Next

LEMMA Invariance == Spec => []IInv
BY InitIInv, IInvInductive, PTL DEF Spec

\* Every variable keeps its type: above all a slot never has two references.
THEOREM TypeCorrect == Spec => []TypeOK
<1>1. IInv => TypeOK
  BY DEF IInv
<1>. QED
  BY <1>1, Invariance, PTL

\* While a command buffer that reads an expert has not completed, no prefetch, no
\* load and no release has touched the slot it reads.
THEOREM GpuReadsSafe == Spec => []GpuReadsIntact
<1>1. IInv => GpuReadsIntact
  <2> SUFFICES ASSUME IInv, NEW g \in signaled + 1 .. Len(groups), NEW x \in groups[g]
               PROVE  /\ state[slotOf[x]] = "CONSUMED"
                      /\ refCount[slotOf[x]] = 1
                      /\ key[slotOf[x]] = x
    BY DEF GpuReadsIntact
  <2>1. x \in Open
    BY DEF IInv, GroupInv
  <2>. QED
    BY <2>1 DEF IInv, RefInv
<1>. QED
  BY <1>1, Invariance, PTL

\* A layer ends with each expert added exactly once for each token routed to it,
\* for no other, and with no slot referenced.
THEOREM LayersExact == Spec => []LayerExact
<1>1. IInv => LayerExact
  <2> SUFFICES ASSUME IInv, pc = "layerDone"
               PROVE  /\ \A p \in Rows \X Experts : added[p] = IF p \in routed THEN 1 ELSE 0
                      /\ \A s \in Slots : refCount[s] = 0
    BY DEF LayerExact
  <2>1. LoopTyped /\ PlaceInv /\ RouteInv /\ AddedInv /\ RefInv
    BY TypeParts DEF IInv
  <2>2. Open = {} /\ Claimed = Range(list)
    BY <2>1, OpenFacts
  <2>3. ASSUME NEW t \in Rows, NEW x \in Experts
        PROVE  added[<<t, x>>] = IF <<t, x>> \in routed THEN 1 ELSE 0
    <3>1. <<t, x>> \in routed <=> t \in users[x]
      BY <2>1 DEF RouteInv
    <3>2. t \in users[x] => x \in Claimed
      BY <2>1, <2>2 DEF RouteInv
    <3>. QED
      BY <2>1, <2>2, <3>1, <3>2 DEF AddedInv
  <2>4. \A s \in Slots : refCount[s] = 0
    BY <2>1, <2>2 DEF RefInv
  <2>. QED
    BY <2>3, <2>4
<1>. QED
  BY <1>1, Invariance, PTL

\* A step that takes a slot for a load is a prefetch, and takes the oldest.
LEMMA TakenIsOldest ==
  ASSUME IInv, Next, NEW s \in Slots, state[s] \in Idle, state'[s] = "LOADING"
  PROVE  s \in Evictable /\ \A t \in Evictable : lru[s] <= lru[t]
<1>0. RingTyped /\ LoopTyped /\ PlaceInv /\ RingInv
  BY TypeParts DEF IInv
<1>1. \E x \in Experts : Prefetch(x)
  <2>1. state' # state /\ state[s] # "LOADING"
    BY DEF Idle
  <2>2. CASE FireDecode \/ FirePrefill
    <3>1. sel[idx] \in Experts
      BY <1>0, <2>2, ElementOfSeq, LenProperties
      DEF FireDecode, FirePrefill, LoopTyped, PlaceInv
    <3>. QED
      BY <2>1, <2>2, <3>1 DEF FireDecode, FirePrefill, ringVars
  <2>3. CASE ClaimMiss
    <3>1. list[idx] \in Experts
      BY <1>0, <2>3, ListRange DEF ClaimMiss, LoopTyped, PlaceInv
    <3>. QED
      BY <2>1, <2>3, <3>1 DEF ClaimMiss, ringVars
  <2>4. CASE \E t \in Slots : ClaimHit(t) \/ BatchStart(t)
    BY <1>0, <2>1, <2>4 DEF ClaimHit, BatchStart, Claim, RingTyped
  <2>5. CASE \E t \in Slots : LoadEnds(t) \/ LoadFails(t)
    BY <1>0, <2>1, <2>5 DEF LoadEnds, LoadFails, RingTyped
  <2>6. CASE \/ \E r \in Ranked(TopK + SpecWidth) : DecodeLayer(r)
             \/ \E r \in Ranked(TopK) : PrefillLayer(r)
    BY <2>1, <2>6 DEF DecodeLayer, PrefillLayer, BeginLayer, ringVars
  <2>7. CASE (\E r \in Ranked(TopK) : NextToken(r)) \/ Fired
    BY <2>1, <2>7 DEF NextToken, Fired, ringVars
  <2>8. CASE ClaimSkip \/ FirstPassEnds \/ SweepEnds \/ AllClaimed \/ GpuCompletes
    BY <2>1, <2>8 DEF ClaimSkip, FirstPassEnds, SweepEnds, AllClaimed, GpuCompletes, ringVars
  <2>9. CASE WaitOne \/ WaitEnds \/ BatchEnd
    BY <2>1, <2>9 DEF WaitOne, WaitEnds, BatchEnd, Release, ringVars
  <2>. QED
    BY <2>2, <2>3, <2>4, <2>5, <2>6, <2>7, <2>8, <2>9 DEF Next, Layer
<1>2. PICK x \in Experts : Prefetch(x)
  BY <1>1
<1>3. PICK t \in Slots : PrefetchLoad(x, t)
  BY <1>0, <1>2, PrefetchCases DEF PrefetchHit, PrefetchNone, ringVars, Idle
<1>4. s = t
  BY <1>0, <1>3 DEF PrefetchLoad, RingTyped, Idle
<1>5. state[s] # "EMPTY"
  BY DEF Idle
<1>. QED
  BY <1>3, <1>4, <1>5 DEF PrefetchLoad

\* Prefetching for a prefill layer takes the slot of a union expert not yet run
\* only when every slot it could take instead holds one of the union too.
THEOREM UnionSpared == Spec => UnionKept
<1>1. IInv /\ [Next]_vars =>
        [mode = "prefill" /\ pc # "layerDone" =>
           \A s \in Slots :
              state[s] \in Idle /\ state'[s] = "LOADING" /\ key[s] \in Range(list) \ Claimed
              => \A t \in Evictable : key[t] \in Range(list)]_vars
  <2> SUFFICES ASSUME IInv, Next, mode = "prefill", pc # "layerDone",
                      NEW s \in Slots, state[s] \in Idle, state'[s] = "LOADING",
                      key[s] \in Range(list),
                      NEW t \in Evictable, key[t] \notin Range(list)
               PROVE  FALSE
    OBVIOUS
  <2>1. t \in Slots /\ state[t] # "EMPTY"
    BY DEF Evictable, Idle
  <2>2. lru[t] < lru[s]
    BY <2>1 DEF IInv, UnionNewer, Newer
  <2>3. lru[s] <= lru[t]
    BY TakenIsOldest
  <2>4. lru[s] \in Nat /\ lru[t] \in Nat
    <3>1. lru \in [Slots -> Slots]
      BY DEF IInv, TypeOK
    <3>2. \A n \in Slots : n \in Nat
      BY SizesAssumption DEF Slots
    <3>3. lru[s] \in Slots /\ lru[t] \in Slots
      BY <2>1, <3>1
    <3>. QED
      BY <3>2, <3>3
  <2>. QED
    BY <2>2, <2>3, <2>4
<1>. QED
  BY <1>1, Invariance, PTL DEF Spec, UnionKept
-----------------------------------------------------------------------------
(***************************************************************************)
(* The ring is a cache: what each step does to the slots.                  *)
(***************************************************************************)
RingUnchanged == UNCHANGED <<state, key, refCount>>

ClaimOf(s) == s \in Evictable /\ Claim(s)

ReleaseOf(s) == state[s] = "CONSUMED" /\ refCount[s] = 1 /\ Release(s)

LoadEnd(s) == LoadEnds(s) \/ LoadFails(s)

LEMMA Referenced ==
  ASSUME IInv, NEW s \in Slots, refCount[s] # 0
  PROVE  state[s] = "CONSUMED" /\ refCount[s] = 1
BY DEF IInv, RefInv

LEMMA PrefetchEffect ==
  ASSUME IInv, NEW x \in Experts, Prefetch(x)
  PROVE  RingUnchanged \/ \E s \in Slots : PrefetchLoad(x, s)
<1>1. RingTyped /\ RingInv
  BY TypeParts DEF IInv
<1>. QED
  BY <1>1, PrefetchCases DEF PrefetchHit, PrefetchNone, RingUnchanged, ringVars

\* What is waited for is an open claim.
LEMMA ReleaseEffect ==
  ASSUME IInv, WaitOne \/ BatchEnd
  PROVE  \E s \in Slots : ReleaseOf(s)
<1>0. LoopTyped /\ PlaceInv /\ RefInv
  BY TypeParts DEF IInv
<1>1. PICK x : x = list[idx]
  OBVIOUS
<1>2. x \in Open
  <2>1. CASE BatchEnd
    BY <1>0, <1>1, <2>1, OpenFacts DEF BatchEnd
  <2>2. CASE WaitOne
    <3>1. pc = "wait" /\ idx <= Len(list) /\ idx \in Nat /\ Len(list) \in Nat
      BY <1>0, <2>2, ListRange DEF WaitOne, LoopTyped
    <3>2. idx \in idx .. Len(list)
      BY <3>1
    <3>. QED
      BY <1>0, <1>1, <3>1, <3>2, OpenFacts
  <2>. QED
    BY <2>1, <2>2
<1>3. slotOf[x] \in Slots /\ state[slotOf[x]] = "CONSUMED" /\ refCount[slotOf[x]] = 1
  BY <1>0, <1>2, OpenFacts DEF RefInv
<1>4. Release(slotOf[x])
  BY <1>1 DEF WaitOne, BatchEnd
<1>. QED
  BY <1>3, <1>4 DEF ReleaseOf

LEMMA RingEffect ==
  ASSUME IInv, [Next]_vars
  PROVE  \/ RingUnchanged
         \/ \E x \in Experts, s \in Slots : PrefetchLoad(x, s)
         \/ \E s \in Slots : ClaimOf(s) \/ ReleaseOf(s) \/ LoadEnd(s)
<1>0. LoopTyped /\ PlaceInv
  BY TypeParts DEF IInv
<1>1. CASE FireDecode \/ FirePrefill
  <2>1. sel[idx] \in Experts
    BY <1>0, <1>1, ElementOfSeq, LenProperties
    DEF FireDecode, FirePrefill, LoopTyped, PlaceInv
  <2>. QED
    BY <1>1, <2>1, PrefetchEffect DEF FireDecode, FirePrefill, RingUnchanged, ringVars
<1>2. CASE ClaimMiss
  <2>1. list[idx] \in Experts
    BY <1>0, <1>2, ListRange DEF ClaimMiss, LoopTyped, PlaceInv
  <2>. QED
    BY <1>2, <2>1, PrefetchEffect DEF ClaimMiss, RingUnchanged, ringVars
<1>3. CASE \E s \in Slots : ClaimHit(s) \/ BatchStart(s)
  BY <1>3 DEF ClaimHit, BatchStart, Claimable, ClaimOf
<1>4. CASE WaitOne \/ BatchEnd
  BY <1>4, ReleaseEffect
<1>5. CASE \E s \in Slots : LoadEnds(s) \/ LoadFails(s)
  BY <1>5 DEF LoadEnd
<1>6. CASE \/ \E r \in Ranked(TopK + SpecWidth) : DecodeLayer(r)
           \/ \E r \in Ranked(TopK) : PrefillLayer(r)
  BY <1>6 DEF DecodeLayer, PrefillLayer, BeginLayer, RingUnchanged, ringVars
<1>7. CASE (\E r \in Ranked(TopK) : NextToken(r)) \/ Fired
  BY <1>7 DEF NextToken, Fired, RingUnchanged, ringVars
<1>8. CASE \/ ClaimSkip \/ FirstPassEnds \/ SweepEnds \/ AllClaimed \/ WaitEnds
           \/ GpuCompletes \/ UNCHANGED vars
  BY <1>8 DEF ClaimSkip, FirstPassEnds, SweepEnds, AllClaimed, WaitEnds, GpuCompletes, vars,
              RingUnchanged, ringVars
<1>. QED
  BY <1>1, <1>2, <1>3, <1>4, <1>5, <1>6, <1>7, <1>8 DEF Next, Layer

\* A slot in use has an expert's key.
Keyed == \A s \in Slots : state[s] # "EMPTY" => key[s] \in Experts

LEMMA KeyedInductive ==
  ASSUME IInv, Keyed, [Next]_vars
  PROVE  Keyed'
<1>0. RingTyped
  BY TypeParts DEF IInv
<1>1. CASE RingUnchanged
  BY <1>1 DEF RingUnchanged, Keyed
<1>2. CASE \E x \in Experts, s \in Slots : PrefetchLoad(x, s)
  BY <1>0, <1>2 DEF PrefetchLoad, Keyed, RingTyped
<1>3. CASE \E s \in Slots : ClaimOf(s) \/ ReleaseOf(s)
  <2>1. key' = key /\ \A s \in Slots : state'[s] # "EMPTY" => state[s] # "EMPTY"
    BY <1>0, <1>3 DEF ClaimOf, ReleaseOf, Claim, Release, RingTyped, Evictable, Idle
  <2>. QED
    BY <2>1 DEF Keyed
<1>4. CASE \E s \in Slots : LoadEnd(s)
  BY <1>0, <1>4 DEF LoadEnd, LoadEnds, LoadFails, Keyed, RingTyped
<1>. QED
  BY <1>1, <1>2, <1>3, <1>4, RingEffect

CacheBytes(s) == IF state[s] \in Idle THEN key[s] ELSE NoExpert

SameOthers(s) ==
    \A t \in Slots : t # s =>
        state'[t] = state[t] /\ key'[t] = key[t] /\ refCount'[t] = refCount[t]

LEMMA OthersSame ==
  ASSUME NEW s \in Slots, SameOthers(s), NEW t \in Slots, t # s
  PROVE  CacheStatus(t)' = CacheStatus(t) /\ CacheBytes(t)' = CacheBytes(t) /\ key'[t] = key[t]
BY DEF SameOthers, CacheStatus, CacheBytes

\* Each of them is one of the cache's steps.
LEMMA StepUses ==
  ASSUME IInv, Keyed, [Next]_vars
  PROVE  [Cache!Next]_(Cache!cacheVars)
<1>0. RingTyped /\ RingInv /\ RingTyped'
  BY IInvInductive, TypeParts, TypePartsNext DEF IInv
<1>. USE DEF CacheBytes
<1>1. CASE RingUnchanged
  BY <1>1 DEF RingUnchanged, Cache!cacheVars, CacheStatus
<1>2. CASE \E x \in Experts, s \in Slots : PrefetchLoad(x, s)
  <2>. PICK x \in Experts, s \in Slots : PrefetchLoad(x, s)
    BY <1>2
  <2>1. /\ state'[s] = "LOADING" /\ key'[s] = x /\ refCount'[s] = 0 /\ SameOthers(s)
        /\ \A t \in Slots : key[t] # x
        /\ state[s] = "EMPTY" \/ s \in Evictable
    BY <1>0 DEF PrefetchLoad, RingTyped, SameOthers
  <2>2. refCount[s] = 0 /\ state[s] # "LOADING"
    <3>1. state[s] = "EMPTY" => refCount[s] = 0
      BY Referenced
    <3>. QED
      BY <2>1, <3>1 DEF Evictable, Idle
  <2>3. CacheStatus(s) \in {"free", "cached"}
    BY <2>2 DEF CacheStatus
  <2>4. CacheStatus(s)' = "loading" /\ CacheBytes(s)' = NoExpert
    BY <2>1 DEF CacheStatus, Idle
  <2>5. Cache!Load(s, x)
    BY <1>0, <2>1, <2>3, <2>4, OthersSame DEF Cache!Load, Cache!Resident, RingTyped
  <2>. QED
    BY <2>5 DEF Cache!Next
<1>3. CASE \E s \in Slots : ClaimOf(s)
  <2>. PICK s \in Slots : ClaimOf(s)
    BY <1>3
  <2>1. /\ state[s] \in Idle /\ refCount[s] = 0
        /\ state'[s] = "CONSUMED" /\ key' = key /\ refCount'[s] = 1 /\ SameOthers(s)
    BY <1>0 DEF ClaimOf, Claim, Evictable, RingTyped, SameOthers
  <2>2. /\ CacheStatus(s) = "cached" /\ CacheStatus(s)' = "held"
        /\ CacheBytes(s)' = CacheBytes(s)
    BY <2>1 DEF CacheStatus, Idle
  <2>3. Cache!Claim(s)
    BY <1>0, <2>1, <2>2, OthersSame DEF Cache!Claim, RingTyped
  <2>. QED
    BY <2>3 DEF Cache!Next
<1>4. CASE \E s \in Slots : ReleaseOf(s)
  <2>. PICK s \in Slots : ReleaseOf(s)
    BY <1>4
  <2>1. /\ state[s] = "CONSUMED" /\ refCount[s] = 1
        /\ state' = state /\ key' = key /\ refCount'[s] = 0 /\ SameOthers(s)
    BY <1>0 DEF ReleaseOf, Release, RingTyped, SameOthers
  <2>2. /\ CacheStatus(s) = "held" /\ CacheStatus(s)' = "cached"
        /\ CacheBytes(s)' = CacheBytes(s)
    BY <2>1 DEF CacheStatus, Idle
  <2>3. Cache!Release(s)
    BY <1>0, <2>1, <2>2, OthersSame DEF Cache!Release, RingTyped
  <2>. QED
    BY <2>3 DEF Cache!Next
<1>5. CASE \E s \in Slots : LoadEnd(s)
  <2>. PICK s \in Slots : LoadEnd(s)
    BY <1>5
  <2>1. state[s] = "LOADING" /\ refCount[s] = 0 /\ refCount' = refCount
    <3>1. state[s] = "LOADING" /\ refCount' = refCount
      BY DEF LoadEnd, LoadEnds, LoadFails
    <3>. QED
      BY <3>1, Referenced
  <2>2. CacheStatus(s) = "loading"
    BY <2>1 DEF CacheStatus
  <2>3. CASE LoadEnds(s)
    <3>1. state'[s] = "READY" /\ key' = key /\ SameOthers(s)
      BY <1>0, <2>1, <2>3 DEF LoadEnds, RingTyped, SameOthers
    <3>2. CacheStatus(s)' = "cached" /\ CacheBytes(s)' = key[s]
      BY <2>1, <3>1 DEF CacheStatus, Idle
    <3>3. key[s] \in Experts
      BY <2>1 DEF Keyed
    <3>4. Cache!Loaded(s)
      BY <1>0, <2>2, <3>1, <3>2, <3>3, OthersSame DEF Cache!Loaded, RingTyped
    <3>. QED
      BY <3>4 DEF Cache!Next
  <2>4. CASE LoadFails(s)
    <3>1. state'[s] = "EMPTY" /\ key'[s] = NoExpert /\ SameOthers(s)
      BY <1>0, <2>1, <2>4 DEF LoadFails, RingTyped, SameOthers
    <3>2. CacheStatus(s)' = "free" /\ CacheBytes(s)' = CacheBytes(s)
      BY <2>1, <3>1 DEF CacheStatus, Idle
    <3>3. Cache!GiveUp(s)
      BY <1>0, <2>2, <3>1, <3>2, OthersSame DEF Cache!GiveUp, RingTyped
    <3>. QED
      BY <3>3 DEF Cache!Next
  <2>. QED
    BY <2>3, <2>4 DEF LoadEnd
<1>. QED
  BY <1>1, <1>2, <1>3, <1>4, <1>5, RingEffect

\* The layers use the ring by the rules of the cache which the streamer implements
\* for them, for every interleaving of claims, retries, loads and evictions.
THEOREM LayersUseCache == Spec => UsesCache
<1>1. Init => Cache!Init
  BY DEF Init, Cache!Init, CacheStatus, Idle
<1>2. IInv /\ Keyed /\ [Next]_vars => [Cache!Next]_(Cache!cacheVars)
  BY StepUses
<1>3. Init => Keyed
  BY DEF Init, Keyed
<1>4. IInv /\ Keyed /\ [Next]_vars => Keyed'
  BY KeyedInductive
<1>. QED
  BY <1>1, <1>2, <1>3, <1>4, Invariance, PTL DEF Spec, UsesCache, Cache!Spec
=============================================================================
