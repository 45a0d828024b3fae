--------------------------- MODULE MPMCQueueProofs ---------------------------
(***************************************************************************)
(* Theorems about MPMCQueue.tla, for any number of producers and consumers *)
(* and every capacity of two or more: cells are used by one thread at a    *)
(* time, a call fails only for the reason it reports, and the queue        *)
(* implements BoundedFifo.                                                 *)
(***************************************************************************)
EXTENDS MPMCQueue, SequenceTheorems, TLAPS

----------------------------------------------------------------------------
(* Positions and cells *)

\* A position is a lap and a cell.
LEMMA LapAndCell ==
    ASSUME NEW p \in Nat
    PROVE  \E lap \in Nat : p = Capacity * lap + CellOf(p) /\ CellOf(p) \in Cells
  <1> Capacity \in Nat \ {0}
    BY CapacityAssumption, SMT
  <1>1. /\ p % Capacity \in 0 .. Capacity - 1
        /\ p = Capacity * (p \div Capacity) + (p % Capacity)
        /\ p \div Capacity \in Nat
    BY SMT
  <1> QED  BY <1>1 DEF CellOf, Cells

\* A lap and a cell are a position.
LEMMA CellOfLap ==
    ASSUME NEW lap \in Nat, NEW i \in Cells
    PROVE  Capacity * lap + i \in Nat /\ CellOf(Capacity * lap + i) = i
  <1> Capacity \in Nat \ {0}
    BY CapacityAssumption, SMT
  <1>1. i \in Nat /\ i < Capacity
    BY SMT DEF Cells
  <1>2. Capacity * lap \in Nat
    BY SMT
  <1>3. (Capacity * lap + i) % Capacity = i
    BY <1>1, <1>2, SMT
  <1> QED  BY <1>1, <1>2, <1>3, SMT DEF CellOf

\* Two positions less than a lap apart are not in the same cell.
LEMMA SameCell ==
    ASSUME NEW p \in Nat, NEW q \in Nat, p <= q, q < p + Capacity, CellOf(p) = CellOf(q)
    PROVE  p = q
  <1>1. Capacity \in Nat \ {0}
    BY CapacityAssumption, SMT
  <1>2. PICK a \in Nat : p = Capacity * a + CellOf(p) /\ CellOf(p) \in Cells
    BY LapAndCell
  <1>3. PICK b \in Nat : q = Capacity * b + CellOf(q)
    BY LapAndCell
  <1>4. CellOf(p) \in Nat
    BY <1>2, SMT DEF Cells
  <1>5. Capacity * a <= Capacity * b /\ Capacity * b < Capacity * a + Capacity
    BY <1>1, <1>2, <1>3, <1>4, SMT
  <1>6. a = b
    BY <1>1, <1>5, SMT
  <1> QED  BY <1>2, <1>3, <1>6

\* A position a lap later is in the same cell.
LEMMA NextLap ==
    ASSUME NEW p \in Nat
    PROVE  p + Capacity \in Nat /\ CellOf(p + Capacity) = CellOf(p)
  <1>1. Capacity \in Nat \ {0}
    BY CapacityAssumption, SMT
  <1>2. PICK a \in Nat : p = Capacity * a + CellOf(p) /\ CellOf(p) \in Cells
    BY LapAndCell
  <1>3. p + Capacity = Capacity * (a + 1) + CellOf(p)
    BY <1>1, <1>2, SMT DEF Cells
  <1>4. a + 1 \in Nat /\ p + Capacity \in Nat
    BY <1>1, SMT
  <1>5. CellOf(Capacity * (a + 1) + CellOf(p)) = CellOf(p)
    BY <1>2, <1>4, CellOfLap
  <1> QED  BY <1>3, <1>4, <1>5

\* Every cell has a position in each lap, wherever the lap begins.
LEMMA CellInLap ==
    ASSUME NEW d \in Nat, NEW i \in Cells
    PROVE  \E p \in d .. d + Capacity - 1 : CellOf(p) = i
  <1>1. Capacity \in Nat \ {0} /\ i \in 0 .. Capacity - 1
    BY CapacityAssumption, SMT DEF Cells
  <1>2. PICK a \in Nat : d = Capacity * a + CellOf(d) /\ CellOf(d) \in Cells
    BY LapAndCell
  <1>3. CellOf(d) \in 0 .. Capacity - 1 /\ Capacity * a \in Nat
    BY <1>1, <1>2, SMT DEF Cells
  <1>4. CASE i >= CellOf(d)
    <2>1. Capacity * a + i \in d .. d + Capacity - 1
      BY <1>1, <1>2, <1>3, <1>4, SMT
    <2> QED  BY <2>1, CellOfLap
  <1>5. CASE i < CellOf(d)
    <2>1. Capacity * (a + 1) = Capacity * a + Capacity
      BY <1>1, SMT
    <2>2. Capacity * (a + 1) + i \in d .. d + Capacity - 1
      BY <1>1, <1>2, <1>3, <1>5, <2>1, SMT
    <2>3. a + 1 \in Nat
      BY SMT
    <2> QED  BY <2>2, <2>3, CellOfLap
  <1> QED  BY <1>1, <1>3, <1>4, <1>5, SMT

----------------------------------------------------------------------------
(* The invariant *)

\* The position a thread in a cell works for: a consumer makes the cell ready
\* for the next lap.
Home(t) == IF t \in Producers THEN pos[t] ELSE pos[t] + Capacity

\* There are at most Capacity items.
WindowInv == dequeuePos <= enqueuePos /\ enqueuePos <= dequeuePos + Capacity

\* A thread in a cell works within the window, and has not published yet.
HolderInv ==
    \A t \in Threads : InCell(t) =>
        IF t \in Producers
        THEN /\ dequeuePos <= pos[t] /\ pos[t] < enqueuePos
             /\ sequence[CellOf(pos[t])] = pos[t]
        ELSE /\ pos[t] < dequeuePos /\ enqueuePos <= pos[t] + Capacity
             /\ sequence[CellOf(pos[t])] = pos[t] + 1

DistinctInv ==
    \A t, u \in Threads : t # u /\ InCell(t) /\ InCell(u) => Home(t) # Home(u)

\* The sequence of a cell nobody is in tells whether it is full or free.
SettledInv ==
    \A p \in dequeuePos .. dequeuePos + Capacity - 1 :
        \/ \E t \in Threads : InCell(t) /\ Home(t) = p
        \/ sequence[CellOf(p)] = IF p < enqueuePos THEN p + 1 ELSE p

\* What a thread saw before its compare_exchange still holds if it succeeds.
CasInv ==
    \A t \in Threads :
        /\ pc[t] \in {"check", "cas"} => pos[t] <= Cursor(t)
        /\ pc[t] = "cas" /\ pos[t] = Cursor(t) => sequence[CellOf(pos[t])] = Awaited(t)

\* Requests are where they are expected.
DataInv ==
    /\ \A t \in Producers : pc[t] # "idle" => req[t] \in Items
    /\ \A p \in dequeuePos .. enqueuePos - 1 :
         \/ \E t \in Producers : pc[t] = "copy" /\ pos[t] = p
         \/ data[CellOf(p)] \in Items
    /\ \A c \in Consumers :
         /\ pc[c] = "copy" => data[CellOf(pos[c])] \in Items
         /\ pc[c] = "publish" => req[c] \in Items

IInv ==
    /\ TypeOK /\ WindowInv /\ HolderInv /\ DistinctInv /\ SettledInv /\ CasInv /\ DataInv

----------------------------------------------------------------------------
(* What the invariant says of a cell *)

\* The sides are disjoint, and positions are natural numbers.
LEMMA Sides ==
    ASSUME TypeOK
    PROVE  /\ Capacity \in Nat /\ Capacity >= 2
           /\ enqueuePos \in Nat /\ dequeuePos \in Nat
           /\ \A t \in Threads : pos[t] \in Nat /\ (t \in Producers <=> t \notin Consumers)
  BY CapacityAssumption, SidesAssumption, SMT DEF TypeOK, Threads

\* A thread in a cell works for a position of the window, in that cell.
LEMMA HomeInWindow ==
    ASSUME TypeOK, WindowInv, HolderInv, NEW t \in Threads, InCell(t)
    PROVE  /\ Home(t) \in Nat
           /\ dequeuePos <= Home(t) /\ Home(t) < dequeuePos + Capacity
           /\ CellOf(Home(t)) = CellOf(pos[t])
  <1>1. pos[t] \in Nat /\ enqueuePos \in Nat /\ dequeuePos \in Nat /\ Capacity \in Nat
    BY Sides
  <1>2. pos[t] + Capacity \in Nat /\ CellOf(pos[t] + Capacity) = CellOf(pos[t])
    BY <1>1, NextLap
  <1>3. CASE t \in Producers
    BY <1>1, <1>3, SMT DEF Home, HolderInv, WindowInv
  <1>4. CASE t \notin Producers
    BY <1>1, <1>2, <1>4, SMT DEF Home, HolderInv, WindowInv
  <1> QED  BY <1>3, <1>4

\* Two positions of the window are not in the same cell.
LEMMA WindowCells ==
    ASSUME TypeOK, NEW p \in Nat, NEW q \in Nat,
           dequeuePos <= p, p < dequeuePos + Capacity,
           dequeuePos <= q, q < dequeuePos + Capacity,
           CellOf(p) = CellOf(q)
    PROVE  p = q
  <1>1. dequeuePos \in Nat /\ Capacity \in Nat
    BY Sides
  <1>2. CASE p <= q
    <2>1. q < p + Capacity
      BY <1>1, SMT
    <2> QED  BY <1>2, <2>1, SameCell
  <1>3. CASE q <= p
    <2>1. p < q + Capacity
      BY <1>1, SMT
    <2> QED  BY <1>3, <2>1, SameCell
  <1> QED  BY <1>2, <1>3, SMT

\* Two threads in cells are in different ones.
LEMMA Exclusive ==
    ASSUME TypeOK, WindowInv, HolderInv, DistinctInv,
           NEW t \in Threads, NEW u \in Threads, t # u, InCell(t), InCell(u)
    PROVE  CellOf(pos[t]) # CellOf(pos[u])
  <1>1. Home(t) # Home(u)
    BY DEF DistinctInv
  <1>2. /\ Home(t) \in Nat /\ dequeuePos <= Home(t) /\ Home(t) < dequeuePos + Capacity
        /\ Home(u) \in Nat /\ dequeuePos <= Home(u) /\ Home(u) < dequeuePos + Capacity
        /\ CellOf(Home(t)) = CellOf(pos[t]) /\ CellOf(Home(u)) = CellOf(pos[u])
    BY HomeInWindow
  <1> QED  BY <1>1, <1>2, WindowCells

\* What a sequence can be, by the position of the window its cell stands for.
LEMMA SequenceAt ==
    ASSUME TypeOK, WindowInv, HolderInv, SettledInv,
           NEW p \in Nat, dequeuePos <= p, p < dequeuePos + Capacity
    PROVE  \/ p < enqueuePos /\ sequence[CellOf(p)] = p + 1
           \/ p >= enqueuePos /\ sequence[CellOf(p)] = p
           \/ /\ p < enqueuePos /\ sequence[CellOf(p)] = p
              /\ \E t \in Producers : InCell(t) /\ pos[t] = p
           \/ /\ p >= enqueuePos /\ sequence[CellOf(p)] = p - Capacity + 1
              /\ \E t \in Consumers : InCell(t) /\ pos[t] = p - Capacity
  <1>1. /\ enqueuePos \in Nat /\ dequeuePos \in Nat /\ Capacity \in Nat
        /\ p \in dequeuePos .. dequeuePos + Capacity - 1
    BY Sides, SMT
  <1>2. CASE sequence[CellOf(p)] = IF p < enqueuePos THEN p + 1 ELSE p
    BY <1>1, <1>2, SMT
  <1>3. ASSUME NEW t \in Threads, InCell(t), Home(t) = p, t \in Producers
        PROVE  /\ p < enqueuePos /\ sequence[CellOf(p)] = p
               /\ \E u \in Producers : InCell(u) /\ pos[u] = p
    BY <1>3 DEF Home, HolderInv
  <1>4. ASSUME NEW t \in Threads, InCell(t), Home(t) = p, t \notin Producers
        PROVE  /\ p >= enqueuePos /\ sequence[CellOf(p)] = p - Capacity + 1
               /\ \E u \in Consumers : InCell(u) /\ pos[u] = p - Capacity
    <2>1. /\ pos[t] \in Nat /\ t \in Consumers /\ p = pos[t] + Capacity
          /\ enqueuePos <= pos[t] + Capacity
          /\ sequence[CellOf(pos[t])] = pos[t] + 1
          /\ CellOf(p) = CellOf(pos[t])
      BY <1>4, Sides, HomeInWindow DEF Home, HolderInv
    <2>2. pos[t] = p - Capacity /\ pos[t] + 1 = p - Capacity + 1 /\ p >= enqueuePos
      BY <1>1, <2>1, SMT
    <2> QED  BY <1>4, <2>1, <2>2
  <1> QED  BY <1>1, <1>2, <1>3, <1>4 DEF SettledInv

\* A cell that is ready for the next push is free, and nobody is in it.
LEMMA ReadyToPush ==
    ASSUME TypeOK, WindowInv, HolderInv, SettledInv,
           sequence[CellOf(enqueuePos)] = enqueuePos
    PROVE  /\ enqueuePos < dequeuePos + Capacity
           /\ \A t \in Threads : InCell(t) => CellOf(pos[t]) # CellOf(enqueuePos)
  <1>1. /\ enqueuePos \in Nat /\ dequeuePos \in Nat /\ Capacity \in Nat /\ Capacity >= 2
        /\ \A t \in Threads : pos[t] \in Nat
    BY Sides
  <1>2. ASSUME enqueuePos = dequeuePos + Capacity PROVE FALSE
    <2>1. CellOf(enqueuePos) = CellOf(dequeuePos)
      BY <1>1, <1>2, NextLap
    <2>2. dequeuePos <= dequeuePos /\ dequeuePos < dequeuePos + Capacity /\ dequeuePos < enqueuePos
      BY <1>1, <1>2, SMT
    <2>3. sequence[CellOf(dequeuePos)] \in {dequeuePos, dequeuePos + 1}
      BY <1>1, <2>2, SequenceAt, SMT
    <2> QED  BY <1>1, <1>2, <2>1, <2>3, SMT
  <1>3. enqueuePos < dequeuePos + Capacity
    BY <1>1, <1>2, SMT DEF WindowInv
  <1>4. ASSUME NEW t \in Threads, InCell(t), CellOf(pos[t]) = CellOf(enqueuePos) PROVE FALSE
    <2>1. Home(t) = enqueuePos
      BY <1>1, <1>3, <1>4, HomeInWindow, WindowCells DEF WindowInv
    <2>2. t \notin Producers
      BY <1>1, <1>4, <2>1, SMT DEF Home, HolderInv
    <2>3. enqueuePos = pos[t] + Capacity /\ sequence[CellOf(pos[t])] = pos[t] + 1
      BY <1>4, <2>1, <2>2 DEF Home, HolderInv
    <2> QED  BY <1>1, <1>4, <2>3, SMT
  <1> QED  BY <1>3, <1>4

\* A cell that is ready for the next pop is full, and nobody is in it.
LEMMA ReadyToPop ==
    ASSUME TypeOK, WindowInv, HolderInv, SettledInv,
           sequence[CellOf(dequeuePos)] = dequeuePos + 1
    PROVE  /\ dequeuePos < enqueuePos
           /\ \A t \in Threads : InCell(t) => CellOf(pos[t]) # CellOf(dequeuePos)
  <1>1. /\ enqueuePos \in Nat /\ dequeuePos \in Nat /\ Capacity \in Nat /\ Capacity >= 2
        /\ \A t \in Threads : pos[t] \in Nat
    BY Sides
  <1>2. dequeuePos <= dequeuePos /\ dequeuePos < dequeuePos + Capacity
    BY <1>1, SMT
  <1>3. dequeuePos < enqueuePos
    BY <1>1, <1>2, SequenceAt, SMT
  <1>4. ASSUME NEW t \in Threads, InCell(t), CellOf(pos[t]) = CellOf(dequeuePos) PROVE FALSE
    <2>1. Home(t) = dequeuePos
      BY <1>1, <1>2, <1>4, HomeInWindow, WindowCells
    <2>2. t \in Producers
      BY <1>1, <1>3, <1>4, <2>1, SMT DEF Home, HolderInv
    <2>3. sequence[CellOf(dequeuePos)] = dequeuePos
      BY <1>4, <2>1, <2>2 DEF Home, HolderInv
    <2> QED  BY <1>1, <2>3, SMT
  <1> QED  BY <1>3, <1>4

\* The same for the thread that is about to win the cell.
LEMMA ReadyForCas ==
    ASSUME IInv, NEW t \in Threads, pc[t] = "cas", pos[t] = Cursor(t)
    PROVE  \A u \in Threads : InCell(u) => CellOf(pos[u]) # CellOf(pos[t])
  <1>1. sequence[CellOf(pos[t])] = Awaited(t)
    BY DEF IInv, CasInv
  <1>2. CASE t \in Producers
    BY <1>1, <1>2, ReadyToPush DEF IInv, Cursor, Awaited
  <1>3. CASE t \notin Producers
    BY <1>1, <1>3, ReadyToPop DEF IInv, Cursor, Awaited
  <1> QED  BY <1>2, <1>3

----------------------------------------------------------------------------
(* Every step keeps the invariant *)

\* Every step keeps the types.
LEMMA TypeKept ==
    ASSUME TypeOK, [Next]_vars
    PROVE  TypeOK'
  <1> USE DEF TypeOK
  <1>1. Capacity \in Nat /\ \A q \in Nat : CellOf(q) \in Cells
    BY CapacityAssumption, LapAndCell, SMT
  <1>2. ASSUME NEW t \in Threads, NEW x \in Items, BeginPush(t, x) PROVE TypeOK'
    BY <1>2, SMT DEF BeginPush, Goto, queueVars
  <1>3. ASSUME NEW t \in Threads, BeginPop(t) PROVE TypeOK'
    BY <1>3, SMT DEF BeginPop, Goto, queueVars
  <1>4. ASSUME NEW t \in Threads, CellReady(t) \/ CellBehind(t) \/ CellAhead(t) \/ CasFails(t)
        PROVE  TypeOK'
    BY <1>4, SMT DEF CellReady, CellBehind, CellAhead, CasFails, Cursor, Goto, queueVars
  <1>5. ASSUME NEW t \in Threads, PushCas(t) \/ PopCas(t) PROVE TypeOK'
    BY <1>5, SMT DEF PushCas, PopCas, Goto
  <1>6. ASSUME NEW t \in Threads, CopyIn(t) \/ CopyOut(t) PROVE TypeOK'
    BY <1>1, <1>6, SMT DEF CopyIn, CopyOut, Goto, queueVars
  <1>7. ASSUME NEW t \in Threads, PublishFull(t) \/ PublishFree(t) PROVE TypeOK'
    BY <1>1, <1>7, SMT DEF PublishFull, PublishFree, Goto
  <1>8. CASE UNCHANGED vars
    BY <1>8 DEF vars, queueVars
  <1> QED  BY <1>2, <1>3, <1>4, <1>5, <1>6, <1>7, <1>8 DEF Next, Step

\* A step of a thread that is in no cell before or after it, and leaves the
\* queue alone.
LEMMA OutsideKeeps ==
    ASSUME IInv, NEW t \in Threads, TypeOK',
           ~InCell(t), ~InCell(t)', UNCHANGED queueVars,
           \A u \in Threads \ {t} : pc'[u] = pc[u] /\ pos'[u] = pos[u] /\ req'[u] = req[u],
           t \in Producers /\ pc'[t] # "idle" => req'[t] \in Items,
           pc'[t] \in {"check", "cas"} => pos'[t] <= Cursor(t),
           pc'[t] = "cas" /\ pos'[t] = Cursor(t) => sequence[CellOf(pos'[t])] = Awaited(t)'
    PROVE  IInv'
  <1> USE DEF IInv, queueVars
  <1>1. \A u \in Threads :
           /\ InCell(u)' <=> InCell(u)
           /\ InCell(u) => u # t /\ pos'[u] = pos[u] /\ req'[u] = req[u] /\ Home(u)' = Home(u)
           /\ Cursor(u)' = Cursor(u)
    BY DEF InCell, Home, Cursor
  <1>2. WindowInv'
    BY DEF WindowInv
  <1>3. HolderInv'
    BY <1>1, Zenon DEF HolderInv
  <1>4. DistinctInv'
    BY <1>1, Zenon DEF DistinctInv
  <1>5. SettledInv'
    BY <1>1, Zenon DEF SettledInv
  <1>6. CasInv'
    <2> SUFFICES ASSUME NEW u \in Threads
                 PROVE  /\ pc'[u] \in {"check", "cas"} => pos'[u] <= Cursor(u)
                        /\ pc'[u] = "cas" /\ pos'[u] = Cursor(u) =>
                             sequence[CellOf(pos'[u])] = Awaited(u)'
      BY <1>1 DEF CasInv
    <2>1. CASE u = t
      BY <2>1
    <2>2. CASE u # t
      BY <2>2 DEF CasInv, Awaited
    <2> QED  BY <2>1, <2>2
  <1>7. DataInv'
    <2>1. \A u \in Producers : pc'[u] # "idle" => req'[u] \in Items
      BY Zenon DEF DataInv, Threads
    <2>2. \A u \in Threads : pc[u] \in {"copy", "publish"} \/ pc'[u] \in {"copy", "publish"} =>
             pc'[u] = pc[u] /\ pos'[u] = pos[u] /\ req'[u] = req[u]
      BY DEF InCell
    <2>3. \A q \in dequeuePos .. enqueuePos - 1 :
             \/ \E u \in Producers : pc'[u] = "copy" /\ pos'[u] = q
             \/ data[CellOf(q)] \in Items
      BY <2>2 DEF DataInv, Threads
    <2>4. \A c \in Consumers :
             /\ pc'[c] = "copy" => data[CellOf(pos'[c])] \in Items
             /\ pc'[c] = "publish" => req'[c] \in Items
      BY <2>2 DEF DataInv, Threads
    <2> QED  BY <2>1, <2>3, <2>4 DEF DataInv
  <1> QED  BY <1>2, <1>3, <1>4, <1>5, <1>6, <1>7

\* The steps before a cell is won.
LEMMA LookingKeeps ==
    ASSUME IInv, TypeOK', NEW t \in Threads,
           \/ \E x \in Items : BeginPush(t, x)
           \/ BeginPop(t) \/ CellReady(t) \/ CellBehind(t) \/ CellAhead(t) \/ CasFails(t)
    PROVE  IInv'
  <1> USE DEF Goto
  <1>1. Cursor(t) \in Nat /\ Cursor(t) <= Cursor(t)
    BY SMT DEF IInv, TypeOK, Cursor
  <1>2. pc \in [Threads -> {"idle", "check", "cas", "copy", "publish"}]
        /\ pos \in [Threads -> Nat] /\ req \in [Threads -> Items \cup {NoItem}]
    BY DEF IInv, TypeOK
  <1>3. ASSUME NEW x \in Items, BeginPush(t, x) PROVE IInv'
    BY <1>1, <1>2, <1>3, OutsideKeeps DEF BeginPush, InCell, Cursor
  <1>4. CASE BeginPop(t)
    <2>1. t \notin Producers
      BY <1>4, SidesAssumption DEF BeginPop
    <2> QED  BY <1>1, <1>2, <1>4, <2>1, OutsideKeeps DEF BeginPop, InCell, Cursor
  <1>5. CASE CellReady(t)
    <2>1. pos[t] <= Cursor(t) /\ (t \in Producers => req[t] \in Items)
      BY <1>5 DEF CellReady, IInv, CasInv, DataInv
    <2> QED  BY <1>1, <1>2, <1>5, <2>1, OutsideKeeps DEF CellReady, InCell, Awaited
  <1>6. CASE CellBehind(t)
    BY <1>2, <1>6, OutsideKeeps DEF CellBehind, InCell
  <1>7. CASE CellAhead(t)
    <2>1. t \in Producers => req[t] \in Items
      BY <1>7 DEF CellAhead, IInv, DataInv
    <2> QED  BY <1>1, <1>2, <1>7, <2>1, OutsideKeeps DEF CellAhead, InCell
  <1>8. CASE CasFails(t)
    <2>1. t \in Producers => req[t] \in Items
      BY <1>8 DEF CasFails, IInv, DataInv
    <2> QED  BY <1>1, <1>2, <1>8, <2>1, OutsideKeeps DEF CasFails, InCell
  <1> QED  BY <1>3, <1>4, <1>5, <1>6, <1>7, <1>8

\* A push wins the cell at enqueuePos.
LEMMA PushCasKeeps ==
    ASSUME IInv, TypeOK', NEW t \in Threads, PushCas(t)
    PROVE  IInv'
  <1> USE DEF IInv
  <1>1. /\ t \in Producers /\ pc[t] = "cas" /\ pos[t] = enqueuePos
        /\ enqueuePos' = enqueuePos + 1
        /\ pc'[t] = "copy" /\ (\A u \in Threads \ {t} : pc'[u] = pc[u])
        /\ UNCHANGED <<sequence, data, dequeuePos, pos, req>>
    BY DEF PushCas, Goto, TypeOK
  <1>2. /\ enqueuePos \in Nat /\ dequeuePos \in Nat /\ Capacity \in Nat
        /\ \A u \in Threads : pos[u] \in Nat /\ (u \in Producers <=> u \notin Consumers)
    BY Sides
  <1>3. sequence[CellOf(enqueuePos)] = enqueuePos
    BY <1>1 DEF CasInv, Cursor, Awaited
  <1>4. /\ enqueuePos < dequeuePos + Capacity
        /\ \A u \in Threads : InCell(u) => CellOf(pos[u]) # CellOf(enqueuePos)
    BY <1>3, ReadyToPush
  <1>5. \A u \in Threads :
           /\ InCell(u)' <=> InCell(u) \/ u = t
           /\ Home(u)' = Home(u)
           /\ InCell(u) => u # t
    BY <1>1 DEF InCell, Home
  <1>6. ASSUME NEW u \in Threads, InCell(u)
        PROVE  /\ Home(u) # enqueuePos
               /\ u \in Consumers => pos[u] + Capacity # enqueuePos
    <2>1. CellOf(Home(u)) # CellOf(enqueuePos)
      BY <1>4, <1>6, HomeInWindow
    <2> QED  BY <1>2, <1>6, <2>1 DEF Home
  <1>7. WindowInv'
    BY <1>1, <1>2, <1>4, SMT DEF WindowInv
  <1>8. HolderInv'
    <2> SUFFICES ASSUME NEW u \in Threads, InCell(u)'
                 PROVE  IF u \in Producers
                        THEN /\ dequeuePos <= pos[u] /\ pos[u] < enqueuePos'
                             /\ sequence[CellOf(pos[u])] = pos[u]
                        ELSE /\ pos[u] < dequeuePos /\ enqueuePos' <= pos[u] + Capacity
                             /\ sequence[CellOf(pos[u])] = pos[u] + 1
      BY <1>1 DEF HolderInv
    <2>1. CASE u = t
      BY <1>1, <1>2, <1>3, <2>1, SMT DEF WindowInv
    <2>2. CASE u # t /\ u \in Producers
      BY <1>1, <1>2, <1>5, <2>2, SMT DEF HolderInv
    <2>3. CASE u # t /\ u \notin Producers
      BY <1>1, <1>2, <1>5, <1>6, <2>3, SMT DEF HolderInv
    <2> QED  BY <2>1, <2>2, <2>3
  <1>9. DistinctInv'
    <2>1. Home(t) = enqueuePos
      BY <1>1 DEF Home
    <2> QED  BY <1>5, <1>6, <2>1 DEF DistinctInv
  <1>10. SettledInv'
    <2> SUFFICES ASSUME NEW p \in dequeuePos .. dequeuePos + Capacity - 1
                 PROVE  \/ \E u \in Threads : InCell(u)' /\ Home(u) = p
                        \/ sequence[CellOf(p)] = IF p < enqueuePos' THEN p + 1 ELSE p
      BY <1>1, <1>5 DEF SettledInv
    <2>1. CASE p = enqueuePos
      BY <1>1, <1>5, <2>1 DEF Home
    <2>2. CASE p # enqueuePos
      <3>1. p < enqueuePos' <=> p < enqueuePos
        BY <1>1, <1>2, <2>2, SMT
      <3> QED  BY <1>5, <3>1, Zenon DEF SettledInv
    <2> QED  BY <2>1, <2>2
  <1>11. CasInv'
    BY <1>1, <1>2, SMT DEF CasInv, Cursor, Awaited
  <1>12. DataInv'
    <2>1. \A u \in Producers : pc'[u] # "idle" => req'[u] \in Items
      BY <1>1 DEF DataInv, Threads
    <2>2. ASSUME NEW p \in dequeuePos .. enqueuePos
          PROVE  \/ \E u \in Producers : pc'[u] = "copy" /\ pos[u] = p
                 \/ data[CellOf(p)] \in Items
      <3>1. CASE p = enqueuePos
        BY <1>1, <3>1
      <3>2. CASE p # enqueuePos
        <4>1. p \in dequeuePos .. enqueuePos - 1
          BY <1>2, <3>2, SMT
        <4> QED  BY <1>1, <4>1 DEF DataInv, Threads
      <3> QED  BY <3>1, <3>2
    <2>3. enqueuePos' - 1 = enqueuePos
      BY <1>1, <1>2, SMT
    <2>4. \A c \in Consumers :
             /\ pc'[c] = "copy" => data[CellOf(pos[c])] \in Items
             /\ pc'[c] = "publish" => req[c] \in Items
      BY <1>1, <1>2 DEF DataInv, Threads
    <2> QED  BY <1>1, <2>1, <2>2, <2>3, <2>4 DEF DataInv
  <1> QED  BY <1>7, <1>8, <1>9, <1>10, <1>11, <1>12

\* A pop wins the cell at dequeuePos.
LEMMA PopCasKeeps ==
    ASSUME IInv, TypeOK', NEW t \in Threads, PopCas(t)
    PROVE  IInv'
  <1> USE DEF IInv
  <1>1. /\ t \in Consumers /\ pc[t] = "cas" /\ pos[t] = dequeuePos
        /\ dequeuePos' = dequeuePos + 1
        /\ pc'[t] = "copy" /\ (\A u \in Threads \ {t} : pc'[u] = pc[u])
        /\ UNCHANGED <<sequence, data, enqueuePos, pos, req>>
    BY DEF PopCas, Goto, TypeOK
  <1>2. /\ enqueuePos \in Nat /\ dequeuePos \in Nat /\ Capacity \in Nat
        /\ \A u \in Threads : pos[u] \in Nat /\ (u \in Producers <=> u \notin Consumers)
    BY Sides
  <1>3. sequence[CellOf(dequeuePos)] = dequeuePos + 1
    BY <1>1, <1>2 DEF CasInv, Cursor, Awaited
  <1>4. /\ dequeuePos < enqueuePos
        /\ \A u \in Threads : InCell(u) => CellOf(pos[u]) # CellOf(dequeuePos)
    BY <1>3, ReadyToPop
  <1>5. \A u \in Threads :
           /\ InCell(u)' <=> InCell(u) \/ u = t
           /\ Home(u)' = Home(u)
           /\ InCell(u) => u # t /\ pos[u] # dequeuePos
    BY <1>1, <1>4 DEF InCell, Home
  <1>6. WindowInv'
    BY <1>1, <1>2, <1>4, SMT DEF WindowInv
  <1>7. HolderInv'
    <2> SUFFICES ASSUME NEW u \in Threads, InCell(u)'
                 PROVE  IF u \in Producers
                        THEN /\ dequeuePos' <= pos[u] /\ pos[u] < enqueuePos
                             /\ sequence[CellOf(pos[u])] = pos[u]
                        ELSE /\ pos[u] < dequeuePos' /\ enqueuePos <= pos[u] + Capacity
                             /\ sequence[CellOf(pos[u])] = pos[u] + 1
      BY <1>1 DEF HolderInv
    <2>1. CASE u = t
      BY <1>1, <1>2, <1>3, <2>1, SMT DEF WindowInv
    <2>2. CASE u # t
      BY <1>1, <1>2, <1>5, <2>2, SMT DEF HolderInv
    <2> QED  BY <2>1, <2>2
  <1>8. DistinctInv'
    <2>1. Home(t) = dequeuePos + Capacity
      BY <1>1, <1>2 DEF Home
    <2>2. \A u \in Threads : InCell(u) => Home(u) # dequeuePos + Capacity
      BY <1>2, HomeInWindow, SMT
    <2> QED  BY <1>5, <2>1, <2>2 DEF DistinctInv
  <1>9. SettledInv'
    <2> SUFFICES ASSUME NEW p \in dequeuePos + 1 .. dequeuePos + 1 + Capacity - 1
                 PROVE  \/ \E u \in Threads : InCell(u)' /\ Home(u) = p
                        \/ sequence[CellOf(p)] = IF p < enqueuePos THEN p + 1 ELSE p
      BY <1>1, <1>5 DEF SettledInv
    <2>1. CASE p = dequeuePos + Capacity
      BY <1>1, <1>2, <1>5, <2>1 DEF Home
    <2>2. CASE p # dequeuePos + Capacity
      <3>1. p \in dequeuePos .. dequeuePos + Capacity - 1
        BY <1>2, <2>2, SMT
      <3> QED  BY <1>5, <3>1, Zenon DEF SettledInv
    <2> QED  BY <2>1, <2>2
  <1>10. CasInv'
    BY <1>1, <1>2, SMT DEF CasInv, Cursor, Awaited
  <1>11. DataInv'
    <2>1. \A u \in Producers : pc'[u] # "idle" => req'[u] \in Items
      BY <1>1, <1>2 DEF DataInv, Threads
    <2>2. ASSUME NEW p \in dequeuePos + 1 .. enqueuePos - 1
          PROVE  \/ \E u \in Producers : pc'[u] = "copy" /\ pos[u] = p
                 \/ data[CellOf(p)] \in Items
      <3>1. p \in dequeuePos .. enqueuePos - 1
        BY <1>2, SMT
      <3> QED  BY <1>1, <1>2, <3>1 DEF DataInv, Threads
    <2>3. data[CellOf(dequeuePos)] \in Items
      <3>1. dequeuePos \in dequeuePos .. enqueuePos - 1
        BY <1>2, <1>4, SMT
      <3> QED  BY <1>5, <3>1 DEF DataInv, InCell, Threads
    <2>4. \A c \in Consumers :
             /\ pc'[c] = "copy" => data[CellOf(pos[c])] \in Items
             /\ pc'[c] = "publish" => req[c] \in Items
      BY <1>1, <2>3 DEF DataInv, Threads
    <2> QED  BY <1>1, <2>1, <2>2, <2>4 DEF DataInv
  <1> QED  BY <1>6, <1>7, <1>8, <1>9, <1>10, <1>11

\* A request is copied into its cell.
LEMMA CopyInKeeps ==
    ASSUME IInv, TypeOK', NEW t \in Threads, CopyIn(t)
    PROVE  IInv'
  <1> USE DEF IInv
  <1>1. /\ t \in Producers /\ pc[t] = "copy"
        /\ data' = [data EXCEPT ![CellOf(pos[t])] = req[t]]
        /\ pc'[t] = "publish" /\ (\A u \in Threads \ {t} : pc'[u] = pc[u])
        /\ UNCHANGED <<sequence, enqueuePos, dequeuePos, pos, req>>
    BY DEF CopyIn, Goto, TypeOK
  <1>2. /\ enqueuePos \in Nat /\ dequeuePos \in Nat /\ Capacity \in Nat
        /\ \A u \in Threads : pos[u] \in Nat /\ (u \in Producers <=> u \notin Consumers)
    BY Sides
  <1>3. \A u \in Threads : (InCell(u)' <=> InCell(u)) /\ Home(u)' = Home(u)
    BY <1>1 DEF InCell, Home
  <1>4. InCell(t)
    BY <1>1 DEF InCell
  <1>5. WindowInv' /\ HolderInv' /\ DistinctInv' /\ SettledInv'
    <2>1. WindowInv'
      BY <1>1 DEF WindowInv
    <2>2. HolderInv'
      BY <1>1, <1>3, Zenon DEF HolderInv
    <2>3. DistinctInv'
      BY <1>3, Zenon DEF DistinctInv
    <2>4. SettledInv'
      BY <1>1, <1>3, Zenon DEF SettledInv
    <2> QED  BY <2>1, <2>2, <2>3, <2>4
  <1>6. CasInv'
    BY <1>1 DEF CasInv, Cursor, Awaited
  <1>7. DataInv'
    <2>1. \A u \in Producers : pc'[u] # "idle" => req'[u] \in Items
      BY <1>1 DEF DataInv, Threads
    <2>2. ASSUME NEW p \in dequeuePos .. enqueuePos - 1
          PROVE  \/ \E u \in Producers : pc'[u] = "copy" /\ pos[u] = p
                 \/ data'[CellOf(p)] \in Items
      <3>1. CASE p = pos[t]
        <4>1. CellOf(p) \in Cells /\ req[t] \in Items
          BY <1>1, <1>2, <3>1, LapAndCell DEF DataInv
        <4> QED  BY <1>1, <3>1, <4>1 DEF TypeOK
      <3>2. CASE p # pos[t]
        <4>1. /\ p \in Nat /\ dequeuePos <= p /\ p < dequeuePos + Capacity
              /\ dequeuePos <= pos[t] /\ pos[t] < dequeuePos + Capacity
          BY <1>1, <1>2, <1>4, SMT DEF WindowInv, HolderInv
        <4>2. CellOf(p) # CellOf(pos[t])
          BY <1>2, <3>2, <4>1, WindowCells
        <4>3. data'[CellOf(p)] = data[CellOf(p)]
          BY <1>1, <1>2, <4>1, <4>2, LapAndCell DEF TypeOK
        <4> QED  BY <1>1, <3>2, <4>3 DEF DataInv, Threads
      <3> QED  BY <3>1, <3>2
    <2>3. ASSUME NEW c \in Consumers
          PROVE  /\ pc'[c] = "copy" => data'[CellOf(pos[c])] \in Items
                 /\ pc'[c] = "publish" => req[c] \in Items
      <3>1. c \in Threads /\ c # t /\ pc'[c] = pc[c]
        BY <1>1, <1>2 DEF Threads
      <3>2. ASSUME pc[c] = "copy" PROVE data'[CellOf(pos[c])] = data[CellOf(pos[c])]
        <4>1. CellOf(pos[c]) # CellOf(pos[t])
          BY <1>4, <3>1, <3>2, Exclusive DEF InCell
        <4> QED  BY <1>1, <1>2, <3>1, <4>1, LapAndCell DEF TypeOK
      <3> QED  BY <3>1, <3>2 DEF DataInv
    <2> QED  BY <1>1, <2>1, <2>2, <2>3 DEF DataInv
  <1> QED  BY <1>5, <1>6, <1>7

\* A request is copied out of its cell.
LEMMA CopyOutKeeps ==
    ASSUME IInv, TypeOK', NEW t \in Threads, CopyOut(t)
    PROVE  IInv'
  <1> USE DEF IInv
  <1>1. /\ t \in Consumers /\ t \notin Producers /\ pc[t] = "copy"
        /\ req'[t] = data[CellOf(pos[t])] /\ (\A u \in Threads \ {t} : req'[u] = req[u])
        /\ pc'[t] = "publish" /\ (\A u \in Threads \ {t} : pc'[u] = pc[u])
        /\ UNCHANGED <<sequence, data, enqueuePos, dequeuePos, pos>>
    BY SidesAssumption DEF CopyOut, Goto, TypeOK, queueVars
  <1>2. \A u \in Threads : (InCell(u)' <=> InCell(u)) /\ Home(u)' = Home(u)
    BY <1>1 DEF InCell, Home
  <1>3. WindowInv' /\ HolderInv' /\ DistinctInv' /\ SettledInv'
    <2>1. WindowInv'
      BY <1>1 DEF WindowInv
    <2>2. HolderInv'
      BY <1>1, <1>2, Zenon DEF HolderInv
    <2>3. DistinctInv'
      BY <1>2, Zenon DEF DistinctInv
    <2>4. SettledInv'
      BY <1>1, <1>2, Zenon DEF SettledInv
    <2> QED  BY <2>1, <2>2, <2>3, <2>4
  <1>4. CasInv'
    BY <1>1 DEF CasInv, Cursor, Awaited
  <1>5. DataInv'
    <2>1. \A u \in Producers : pc'[u] # "idle" => req'[u] \in Items
      BY <1>1 DEF DataInv, Threads
    <2>2. \A p \in dequeuePos .. enqueuePos - 1 :
             \/ \E u \in Producers : pc'[u] = "copy" /\ pos[u] = p
             \/ data[CellOf(p)] \in Items
      BY <1>1 DEF DataInv, Threads
    <2>3. \A c \in Consumers :
             /\ pc'[c] = "copy" => data[CellOf(pos[c])] \in Items
             /\ pc'[c] = "publish" => req'[c] \in Items
      BY <1>1 DEF DataInv, Threads
    <2> QED  BY <1>1, <2>1, <2>2, <2>3 DEF DataInv
  <1> QED  BY <1>3, <1>4, <1>5

\* A thread leaves its cell: full after a push, free for the next lap after a pop.
LEMMA PublishKeeps ==
    ASSUME IInv, TypeOK', NEW t \in Threads, PublishFull(t) \/ PublishFree(t)
    PROVE  IInv'
  <1> USE DEF IInv
  <1> DEFINE here == CellOf(pos[t])
             mark == IF t \in Producers THEN pos[t] + 1 ELSE pos[t] + Capacity
  <1>1. /\ pc[t] = "publish" /\ InCell(t)
        /\ sequence' = [sequence EXCEPT ![here] = mark]
        /\ pc'[t] = "idle" /\ (\A u \in Threads \ {t} : pc'[u] = pc[u] /\ req'[u] = req[u])
        /\ UNCHANGED <<data, enqueuePos, dequeuePos, pos>>
    BY SidesAssumption DEF PublishFull, PublishFree, Goto, TypeOK, InCell
  <1>2. /\ enqueuePos \in Nat /\ dequeuePos \in Nat /\ Capacity \in Nat
        /\ \A u \in Threads : pos[u] \in Nat /\ (u \in Producers <=> u \notin Consumers)
    BY Sides
  <1>3. \A u \in Threads :
           /\ InCell(u)' <=> InCell(u) /\ u # t
           /\ Home(u)' = Home(u)
    BY <1>1 DEF InCell, Home
  <1>4. here \in Cells /\ \A q \in Nat : CellOf(q) \in Cells
    BY <1>2, LapAndCell
  <1>5. /\ sequence'[here] = mark
        /\ \A i \in Cells : i # here => sequence'[i] = sequence[i]
    BY <1>1, <1>4 DEF TypeOK
  <1> HIDE DEF here
  <1>6. WindowInv'
    BY <1>1 DEF WindowInv
  <1>7. HolderInv'
    <2> SUFFICES ASSUME NEW u \in Threads, InCell(u), u # t
                 PROVE  sequence'[CellOf(pos[u])] = sequence[CellOf(pos[u])]
      BY <1>1, <1>3, Zenon DEF HolderInv
    <2>1. CellOf(pos[u]) # here
      BY <1>1, Exclusive DEF here
    <2> QED  BY <1>2, <1>4, <1>5, <2>1
  <1>8. DistinctInv'
    BY <1>3, Zenon DEF DistinctInv
  <1>9. SettledInv'
    <2> SUFFICES ASSUME NEW p \in dequeuePos .. dequeuePos + Capacity - 1
                 PROVE  \/ \E u \in Threads : InCell(u)' /\ Home(u)' = p
                        \/ sequence'[CellOf(p)] = IF p < enqueuePos THEN p + 1 ELSE p
      BY <1>1 DEF SettledInv
    <2>1. /\ Home(t) \in Nat /\ dequeuePos <= Home(t) /\ Home(t) < dequeuePos + Capacity
          /\ CellOf(Home(t)) = here
      BY <1>1, HomeInWindow DEF here
    <2>2. p \in Nat /\ dequeuePos <= p /\ p < dequeuePos + Capacity
      BY <1>2, SMT
    <2>3. CASE p = Home(t)
      <3>1. mark = IF Home(t) < enqueuePos THEN Home(t) + 1 ELSE Home(t)
        BY <1>1, <1>2, SMT DEF Home, HolderInv
      <3> QED  BY <1>5, <2>1, <2>3, <3>1
    <2>4. CASE p # Home(t)
      <3>1. CellOf(p) # here
        BY <2>1, <2>2, <2>4, WindowCells
      <3>2. sequence'[CellOf(p)] = sequence[CellOf(p)]
        BY <1>4, <1>5, <2>2, <3>1
      <3> QED  BY <1>3, <2>4, <3>2, Zenon DEF SettledInv
    <2> QED  BY <2>3, <2>4
  <1>10. CasInv'
    <2> SUFFICES ASSUME NEW u \in Threads
                 PROVE  /\ pc'[u] \in {"check", "cas"} => pos[u] <= Cursor(u)
                        /\ pc'[u] = "cas" /\ pos[u] = Cursor(u) =>
                             sequence'[CellOf(pos[u])] = Awaited(u)
      BY <1>1 DEF CasInv, Cursor, Awaited
    <2>1. pc'[u] \in {"check", "cas"} => pc[u] = pc'[u]
      BY <1>1
    <2>2. ASSUME pc[u] = "cas", pos[u] = Cursor(u) PROVE sequence'[CellOf(pos[u])] = Awaited(u)
      <3>1. CellOf(pos[u]) # here
        BY <1>1, <2>2, ReadyForCas DEF here
      <3>2. sequence'[CellOf(pos[u])] = sequence[CellOf(pos[u])]
        BY <1>2, <1>4, <1>5, <3>1
      <3> QED  BY <2>2, <3>2 DEF CasInv
    <2> QED  BY <2>1, <2>2 DEF CasInv
  <1>11. DataInv'
    <2>1. \A u \in Producers : pc'[u] # "idle" => req'[u] \in Items
      BY <1>1 DEF DataInv, Threads
    <2>2. \A p \in dequeuePos .. enqueuePos - 1 :
             \/ \E u \in Producers : pc'[u] = "copy" /\ pos[u] = p
             \/ data[CellOf(p)] \in Items
      BY <1>1 DEF DataInv, Threads
    <2>3. \A c \in Consumers :
             /\ pc'[c] = "copy" => data[CellOf(pos[c])] \in Items
             /\ pc'[c] = "publish" => req'[c] \in Items
      BY <1>1 DEF DataInv, Threads
    <2> QED  BY <1>1, <2>1, <2>2, <2>3 DEF DataInv
  <1> QED  BY <1>6, <1>7, <1>8, <1>9, <1>10, <1>11

\* Every step keeps the invariant.
LEMMA StepKeeps == IInv /\ [Next]_vars => IInv'
  <1> SUFFICES ASSUME IInv, [Next]_vars PROVE IInv'
    OBVIOUS
  <1>1. TypeOK'
    BY TypeKept DEF IInv
  <1>2. CASE Next
    <2>1. PICK t \in Threads : (\E x \in Items : BeginPush(t, x)) \/ BeginPop(t) \/ Step(t)
      BY <1>2 DEF Next
    <2> QED  BY <1>1, <2>1, LookingKeeps, PushCasKeeps, PopCasKeeps, CopyInKeeps, CopyOutKeeps,
                PublishKeeps DEF Step
  <1>3. CASE UNCHANGED vars
    BY <1>1, <1>3 DEF vars, queueVars, IInv, WindowInv, HolderInv, DistinctInv, SettledInv,
       CasInv, DataInv, InCell, Home, Cursor, Awaited
  <1> QED  BY <1>2, <1>3

\* Every cell is free for the first lap.
LEMMA InitEstablishes == Init => IInv
  <1> SUFFICES ASSUME Init PROVE IInv
    OBVIOUS
  <1>1. Capacity \in Nat /\ Capacity >= 2
    BY CapacityAssumption, SMT
  <1>2. TypeOK
    BY <1>1, SMT DEF Init, TypeOK, Cells
  <1>3. \A t \in Threads : ~InCell(t) /\ pc[t] = "idle"
    BY DEF Init, InCell
  <1>4. WindowInv
    BY <1>1, SMT DEF Init, WindowInv
  <1>5. SettledInv
    <2> SUFFICES ASSUME NEW p \in 0 .. Capacity - 1 PROVE sequence[CellOf(p)] = p
      BY <1>1, SMT DEF Init, SettledInv
    <2>1. p \in Cells /\ 0 \in Nat /\ Capacity * 0 + p = p
      BY <1>1, SMT DEF Cells
    <2>2. CellOf(p) = p
      BY <2>1, CellOfLap
    <2> QED  BY <2>1, <2>2 DEF Init
  <1>6. HolderInv /\ DistinctInv /\ CasInv
    BY <1>3 DEF HolderInv, DistinctInv, CasInv
  <1>7. DataInv
    <2>1. dequeuePos .. enqueuePos - 1 = {}
      BY SMT DEF Init
    <2> QED  BY <1>3, <2>1 DEF DataInv, Threads
  <1> QED  BY <1>2, <1>4, <1>5, <1>6, <1>7 DEF IInv

\* The invariant holds in every reachable state.
LEMMA Invariance == Spec => []IInv
  BY InitEstablishes, StepKeeps, PTL DEF Spec

----------------------------------------------------------------------------
(* The queue implements the FIFO *)

\* ItemAt, of any state.
ItemIn(p, P, Q, R, D) ==
    IF \E t \in Producers : P[t] = "copy" /\ Q[t] = p
    THEN R[CHOOSE t \in Producers : P[t] = "copy" /\ Q[t] = p]
    ELSE D[CellOf(p)]

\* ItemIn, when one producer copies into the position,
LEMMA CopiedItem ==
    ASSUME NEW p, NEW P, NEW Q, NEW R, NEW D,
           NEW t \in Producers, P[t] = "copy", Q[t] = p,
           \A u \in Producers : P[u] = "copy" /\ Q[u] = p => u = t
    PROVE  ItemIn(p, P, Q, R, D) = R[t]
  <1>1. (CHOOSE u \in Producers : P[u] = "copy" /\ Q[u] = p) = t
    OBVIOUS
  <1> QED  BY <1>1 DEF ItemIn

\* and when none does.
LEMMA StoredItem ==
    ASSUME NEW p, NEW P, NEW Q, NEW R, NEW D,
           \A u \in Producers : ~(P[u] = "copy" /\ Q[u] = p)
    PROVE  ItemIn(p, P, Q, R, D) = D[CellOf(p)]
  BY DEF ItemIn

\* One producer at most copies into a position.
LEMMA OneCopier ==
    ASSUME DistinctInv, NEW p, NEW t \in Producers, NEW u \in Producers,
           pc[t] = "copy", pos[t] = p, pc[u] = "copy", pos[u] = p
    PROVE  u = t
  BY DEF DistinctInv, InCell, Home, Threads

\* An item being copied in is with the producer that copies it.
LEMMA CopierHasIt ==
    ASSUME DistinctInv, NEW p, NEW t \in Producers, pc[t] = "copy", pos[t] = p
    PROVE  ItemIn(p, pc, pos, req, data) = req[t]
  <1>1. \A u \in Producers : pc[u] = "copy" /\ pos[u] = p => u = t
    BY OneCopier
  <1>2. (CHOOSE u \in Producers : pc[u] = "copy" /\ pos[u] = p) = t
    BY <1>1
  <1> QED  BY <1>2 DEF ItemIn

\* A step that changes neither the copiers of a position, nor what they hold,
\* nor its cell, does not change its item.
LEMMA SameItem ==
    ASSUME DistinctInv, NEW p,
           \A u \in Producers : pc'[u] = "copy" /\ pos'[u] = p <=> pc[u] = "copy" /\ pos[u] = p,
           \A u \in Producers : pc[u] = "copy" /\ pos[u] = p => req'[u] = req[u],
           data'[CellOf(p)] = data[CellOf(p)]
    PROVE  ItemAt(p)' = ItemAt(p)
  <1>1. /\ ItemAt(p) = ItemIn(p, pc, pos, req, data)
        /\ ItemAt(p)' = ItemIn(p, pc', pos', req', data')
    BY DEF ItemAt, ItemIn
  <1>2. ASSUME NEW t \in Producers, pc[t] = "copy", pos[t] = p
        PROVE  ItemAt(p)' = ItemAt(p)
    <2>1. \A u \in Producers : pc[u] = "copy" /\ pos[u] = p => u = t
      BY <1>2, OneCopier
    <2>2. ItemIn(p, pc, pos, req, data) = req[t]
      BY <1>2, CopierHasIt
    <2>3. ItemIn(p, pc', pos', req', data') = req'[t]
      BY <1>2, <2>1, CopiedItem
    <2> QED  BY <1>1, <1>2, <2>2, <2>3
  <1>3. ASSUME \A u \in Producers : ~(pc[u] = "copy" /\ pos[u] = p)
        PROVE  ItemAt(p)' = ItemAt(p)
    BY <1>1, <1>3, StoredItem
  <1> QED  BY <1>2, <1>3

\* The items of the queue are requests.
LEMMA ItemTyped ==
    ASSUME IInv, NEW p \in dequeuePos .. enqueuePos - 1
    PROVE  ItemAt(p) \in Items
  <1>1. ItemAt(p) = ItemIn(p, pc, pos, req, data)
    BY DEF ItemAt, ItemIn
  <1>2. ASSUME NEW t \in Producers, pc[t] = "copy", pos[t] = p PROVE ItemAt(p) \in Items
    <2>1. ItemAt(p) = req[t]
      BY <1>1, <1>2, OneCopier, CopiedItem DEF IInv
    <2> QED  BY <1>2, <2>1 DEF IInv, DataInv
  <1>3. ASSUME \A u \in Producers : ~(pc[u] = "copy" /\ pos[u] = p) PROVE ItemAt(p) \in Items
    BY <1>1, <1>3, StoredItem DEF IInv, DataInv
  <1> QED  BY <1>2, <1>3

\* They are a sequence.
LEMMA QueuedTyped ==
    ASSUME IInv
    PROVE  /\ Queued \in Seq(Items)
           /\ Len(Queued) = enqueuePos - dequeuePos
           /\ \A i \in 1 .. enqueuePos - dequeuePos : Queued[i] = ItemAt(dequeuePos + i - 1)
  <1>1. enqueuePos \in Nat /\ dequeuePos \in Nat /\ dequeuePos <= enqueuePos
    BY DEF IInv, TypeOK, WindowInv
  <1> DEFINE n == enqueuePos - dequeuePos
  <1>2. n \in Nat
    BY <1>1, SMT
  <1>3. ASSUME NEW i \in 1 .. n PROVE Queued[i] = ItemAt(dequeuePos + i - 1) /\ Queued[i] \in Items
    <2>1. dequeuePos + i - 1 \in dequeuePos .. enqueuePos - 1
      BY <1>1, SMT
    <2> QED  BY <1>3, <2>1, ItemTyped DEF Queued
  <1>4. Queued \in [1 .. n -> Items]
    BY <1>3, Zenon DEF Queued
  <1> HIDE DEF n
  <1>5. Queued \in Seq(Items) /\ Len(Queued) = n
    BY <1>2, <1>4, SMT
  <1> QED  BY <1>3, <1>5 DEF n

\* A step that changes neither the cursors nor an item changes no queue.
LEMMA SameQueued ==
    ASSUME UNCHANGED <<enqueuePos, dequeuePos>>, enqueuePos \in Nat, dequeuePos \in Nat,
           \A p \in dequeuePos .. enqueuePos - 1 : ItemAt(p)' = ItemAt(p)
    PROVE  Queued' = Queued
  <1> SUFFICES ASSUME NEW i \in 1 .. enqueuePos - dequeuePos
               PROVE  ItemAt(dequeuePos + i - 1)' = ItemAt(dequeuePos + i - 1)
    BY Zenon DEF Queued
  <1>1. dequeuePos + i - 1 \in dequeuePos .. enqueuePos - 1
    BY SMT
  <1>2. (dequeuePos + i - 1)' = dequeuePos + i - 1
    OBVIOUS
  <1> QED  BY <1>1, <1>2

\* What a consumer has in hand, by the place it is at.
LEMMA TakenAt ==
    ASSUME NEW c \in Consumers
    PROVE  /\ pc[c] = "copy" => Taken[c] = data[CellOf(pos[c])]
           /\ pc[c] = "publish" => Taken[c] = req[c]
           /\ pc[c] \notin {"copy", "publish"} => Taken[c] = NoItem
  BY DEF Taken

\* If each consumer has the same in hand, nothing in hand has changed.
LEMMA SameTaken ==
    ASSUME \A c \in Consumers : Taken'[c] = Taken[c]
    PROVE  Taken' = Taken
  <1>1. Taken = [c \in Consumers |-> Taken[c]] /\ Taken' = [c \in Consumers |-> Taken'[c]]
    BY Zenon DEF Taken
  <1> QED  BY <1>1, Zenon

\* Looking for a cell changes nothing.
LEMMA LookingStutters ==
    ASSUME IInv, NEW t \in Threads,
           \/ \E x \in Items : BeginPush(t, x)
           \/ BeginPop(t) \/ CellReady(t) \/ CellBehind(t) \/ CellAhead(t) \/ CasFails(t)
    PROVE  UNCHANGED <<Queued, Taken>>
  <1>1. /\ UNCHANGED queueVars
        /\ pc[t] \in {"idle", "check", "cas"} /\ pc'[t] \in {"idle", "check", "cas"}
        /\ \A u \in Threads \ {t} : pc'[u] = pc[u] /\ pos'[u] = pos[u] /\ req'[u] = req[u]
    BY DEF BeginPush, BeginPop, CellReady, CellBehind, CellAhead, CasFails, Goto, IInv, TypeOK
  <1>2. ASSUME NEW p PROVE ItemAt(p)' = ItemAt(p)
    <2>1. /\ \A u \in Producers : pc'[u] = "copy" /\ pos'[u] = p <=> pc[u] = "copy" /\ pos[u] = p
          /\ \A u \in Producers : pc[u] = "copy" /\ pos[u] = p => req'[u] = req[u]
          /\ data'[CellOf(p)] = data[CellOf(p)]
      BY <1>1 DEF Threads, queueVars
    <2> QED  BY <2>1, SameItem DEF IInv
  <1>3. Queued' = Queued
    BY <1>1, <1>2, SameQueued DEF IInv, TypeOK, queueVars
  <1>4. Taken' = Taken
    <2>1. ASSUME NEW c \in Consumers PROVE Taken'[c] = Taken[c]
      <3>1. CASE c = t
        BY <1>1, <3>1 DEF Taken
      <3>2. CASE c # t
        BY <1>1, <3>2 DEF Taken, Threads, queueVars
      <3> QED  BY <3>1, <3>2
    <2> QED  BY <2>1, SameTaken
  <1> QED  BY <1>3, <1>4

\* Winning a cell for a push puts the request in the queue.
LEMMA PushCasPuts ==
    ASSUME IInv, IInv', NEW t \in Threads, PushCas(t)
    PROVE  \E x \in Items : Fifo!Put(x)
  <1>1. /\ t \in Producers /\ pc[t] = "cas" /\ pos[t] = enqueuePos
        /\ enqueuePos' = enqueuePos + 1
        /\ pc'[t] = "copy" /\ (\A u \in Threads \ {t} : pc'[u] = pc[u])
        /\ UNCHANGED <<sequence, data, dequeuePos, pos, req>>
    BY DEF PushCas, Goto, IInv, TypeOK
  <1>2. /\ enqueuePos \in Nat /\ dequeuePos \in Nat /\ Capacity \in Nat
        /\ dequeuePos <= enqueuePos
        /\ \A u \in Threads : u \in Producers <=> u \notin Consumers
    BY Sides DEF IInv, WindowInv
  <1>3. /\ req[t] \in Items
        /\ sequence[CellOf(enqueuePos)] = enqueuePos
    BY <1>1 DEF IInv, DataInv, CasInv, Cursor, Awaited
  <1>4. enqueuePos < dequeuePos + Capacity
    BY <1>3, ReadyToPush DEF IInv
  <1>5. ASSUME NEW p \in dequeuePos .. enqueuePos - 1 PROVE ItemAt(p)' = ItemAt(p)
    <2>1. p # pos[t]
      BY <1>1, <1>2, SMT
    <2>2. /\ \A u \in Producers : pc'[u] = "copy" /\ pos'[u] = p <=> pc[u] = "copy" /\ pos[u] = p
          /\ \A u \in Producers : pc[u] = "copy" /\ pos[u] = p => req'[u] = req[u]
          /\ data'[CellOf(p)] = data[CellOf(p)]
      BY <1>1, <2>1 DEF Threads
    <2> QED  BY <2>2, SameItem DEF IInv
  <1>7. ASSUME NEW p, p = enqueuePos PROVE ItemAt(p)' = req[t]
    <2>1. ItemAt(p)' = ItemIn(p, pc', pos', req', data')
      BY DEF ItemAt, ItemIn
    <2>2. ASSUME NEW u \in Producers, pc'[u] = "copy", pos'[u] = p PROVE u = t
      <3>1. Home(u)' = Home(t)' /\ InCell(u)' /\ InCell(t)'
        BY <1>1, <1>7, <2>2 DEF Home, InCell
      <3> QED  BY <3>1 DEF IInv, DistinctInv, Threads
    <2>3. ItemIn(p, pc', pos', req', data') = req'[t]
      BY <1>1, <1>7, <2>2, CopiedItem
    <2> QED  BY <1>1, <2>1, <2>3
  <1>8. /\ Queued \in Seq(Items) /\ Len(Queued) = enqueuePos - dequeuePos
        /\ \A i \in 1 .. enqueuePos - dequeuePos : Queued[i] = ItemAt(dequeuePos + i - 1)
    BY QueuedTyped
  <1> DEFINE n == enqueuePos - dequeuePos
             A == Append(Queued, req[t])
  <1>9. /\ A \in Seq(Items) /\ Len(A) = n + 1
        /\ \A i \in 1 .. n : A[i] = Queued[i]
        /\ A[n + 1] = req[t]
    BY <1>3, <1>8, AppendProperties
  <1>10. ASSUME NEW i \in 1 .. n + 1
         PROVE  Queued'[i] = A[i]
    <2>1. /\ i \in 1 .. enqueuePos' - dequeuePos'
          /\ (dequeuePos + i - 1)' = dequeuePos + i - 1
      BY <1>1, <1>2, SMT
    <2>2. Queued'[i] = ItemAt(dequeuePos + i - 1)'
      BY <2>1, Zenon DEF Queued
    <2>3. CASE i \in 1 .. n
      <3>1. dequeuePos + i - 1 \in dequeuePos .. enqueuePos - 1
        BY <1>2, <2>3, SMT
      <3>2. ItemAt(dequeuePos + i - 1)' = ItemAt(dequeuePos + i - 1)
        BY <1>5, <2>1, <3>1
      <3> QED  BY <1>8, <1>9, <2>2, <2>3, <3>2
    <2>4. CASE i = n + 1
      <3>1. dequeuePos + i - 1 = enqueuePos
        BY <1>2, <2>4, SMT
      <3>2. ItemAt(dequeuePos + i - 1)' = req[t]
        BY <1>7, <2>1, <3>1
      <3> QED  BY <1>9, <2>2, <2>4, <3>2
    <2>5. n \in Nat /\ i \in 1 .. n + 1
      BY <1>2, <1>10, SMT
    <2> HIDE DEF n
    <2>6. i \in 1 .. n \/ i = n + 1
      BY <2>5, SMT
    <2> QED  BY <2>3, <2>4, <2>6
  <1>11. Queued' = A
    <2>1. enqueuePos' - dequeuePos' = n + 1 /\ n + 1 \in Nat
      BY <1>1, <1>2, SMT
    <2>2. Queued' = [i \in 1 .. n + 1 |-> Queued'[i]]
      BY <2>1, Zenon DEF Queued
    <2>3. A = [i \in 1 .. n + 1 |-> A[i]]
      BY <1>9, LenProperties
    <2> QED  BY <1>10, <2>2, <2>3, Zenon
  <1>12. Taken' = Taken
    <2>1. ASSUME NEW c \in Consumers PROVE Taken'[c] = Taken[c]
      <3>1. c \in Threads \ {t}
        BY <1>1, <1>2 DEF Threads
      <3> QED  BY <1>1, <3>1 DEF Taken
    <2> QED  BY <2>1, SameTaken
  <1>13. Len(Queued) < Capacity
    BY <1>2, <1>4, <1>8, SMT
  <1> QED  BY <1>3, <1>11, <1>12, <1>13 DEF Fifo!Put

\* Winning a cell for a pop takes the oldest request.
LEMMA PopCasTakes ==
    ASSUME IInv, IInv', NEW t \in Threads, PopCas(t)
    PROVE  t \in Consumers /\ Fifo!Take(t)
  <1>1. /\ t \in Consumers /\ pc[t] = "cas" /\ pos[t] = dequeuePos
        /\ dequeuePos' = dequeuePos + 1
        /\ pc'[t] = "copy" /\ (\A u \in Threads \ {t} : pc'[u] = pc[u])
        /\ UNCHANGED <<sequence, data, enqueuePos, pos, req>>
    BY DEF PopCas, Goto, IInv, TypeOK
  <1>2. /\ enqueuePos \in Nat /\ dequeuePos \in Nat
        /\ \A u \in Threads : u \in Producers <=> u \notin Consumers
    BY Sides DEF IInv
  <1>3. sequence[CellOf(dequeuePos)] = dequeuePos + 1
    BY <1>1, <1>2 DEF IInv, CasInv, Cursor, Awaited
  <1>4. /\ dequeuePos < enqueuePos
        /\ \A u \in Threads : InCell(u) => CellOf(pos[u]) # CellOf(dequeuePos)
    BY <1>3, ReadyToPop DEF IInv
  <1>5. ASSUME NEW p PROVE ItemAt(p)' = ItemAt(p)
    <2>1. /\ \A u \in Producers : pc'[u] = "copy" /\ pos'[u] = p <=> pc[u] = "copy" /\ pos[u] = p
          /\ \A u \in Producers : pc[u] = "copy" /\ pos[u] = p => req'[u] = req[u]
          /\ data'[CellOf(p)] = data[CellOf(p)]
      BY <1>1, <1>2 DEF Threads
    <2> QED  BY <2>1, SameItem DEF IInv
  <1>6. /\ Queued \in Seq(Items) /\ Len(Queued) = enqueuePos - dequeuePos
        /\ \A i \in 1 .. enqueuePos - dequeuePos : Queued[i] = ItemAt(dequeuePos + i - 1)
    BY QueuedTyped
  <1> DEFINE n == enqueuePos - dequeuePos
  <1>7. n \in Nat \ {0}
    BY <1>2, <1>4, SMT
  <1>8. Queued # <<>>
    BY <1>6, <1>7, SMT
  <1>9. Head(Queued) = data[CellOf(dequeuePos)]
    <2>1. Head(Queued) = Queued[1]
      BY <1>6, <1>8, SMT
    <2>2. dequeuePos + 1 - 1 = dequeuePos /\ 1 \in 1 .. n
      BY <1>2, <1>7, SMT
    <2>3. Queued[1] = ItemAt(dequeuePos)
      BY <1>6, <2>2
    <2>4. \A u \in Producers : ~(pc[u] = "copy" /\ pos[u] = dequeuePos)
      BY <1>4 DEF InCell, Threads
    <2>5. ItemAt(dequeuePos) = ItemIn(dequeuePos, pc, pos, req, data)
      BY DEF ItemAt, ItemIn
    <2> QED  BY <2>1, <2>3, <2>4, <2>5, StoredItem
  <1>10. Queued' = Tail(Queued)
    <2>1. /\ Tail(Queued) \in Seq(Items) /\ Len(Tail(Queued)) = n - 1
          /\ \A i \in 1 .. n - 1 : Tail(Queued)[i] = Queued[i + 1]
      BY <1>6, <1>8, HeadTailProperties
    <2>2. enqueuePos' - dequeuePos' = n - 1
      BY <1>1, <1>2, SMT
    <2>3. ASSUME NEW i \in 1 .. n - 1 PROVE Queued'[i] = Tail(Queued)[i]
      <3>1. /\ i + 1 \in 1 .. n
            /\ (dequeuePos + i - 1)' = dequeuePos + (i + 1) - 1
        BY <1>1, <1>2, <1>7, SMT
      <3>2. Queued'[i] = ItemAt(dequeuePos + i - 1)'
        BY <2>2, Zenon DEF Queued
      <3>3. ItemAt(dequeuePos + i - 1)' = ItemAt(dequeuePos + (i + 1) - 1)
        <4>1. ASSUME NEW p, p = (dequeuePos + i - 1)' PROVE ItemAt(dequeuePos + i - 1)' = ItemAt(p)'
          BY <4>1 DEF ItemAt
        <4>2. ItemAt(dequeuePos + i - 1)' = ItemAt(dequeuePos + (i + 1) - 1)
          BY <1>5, <3>1, <4>1
        <4> QED  BY <4>2
      <3> QED  BY <1>6, <2>1, <3>1, <3>2, <3>3
    <2>4. Queued' = [i \in 1 .. n - 1 |-> Queued'[i]]
      BY <2>2, Zenon DEF Queued
    <2>5. Tail(Queued) = [i \in 1 .. n - 1 |-> Tail(Queued)[i]]
      BY <2>1, LenProperties
    <2> QED  BY <2>3, <2>4, <2>5, Zenon
  <1>11. Taken[t] = NoItem
    BY <1>1, TakenAt
  <1>12. Taken' = [Taken EXCEPT ![t] = Head(Queued)]
    <2>1. Taken'[t] = data[CellOf(dequeuePos)]
      BY <1>1 DEF Taken
    <2>2. ASSUME NEW c \in Consumers, c # t PROVE Taken'[c] = Taken[c]
      BY <1>1, <2>2 DEF Taken, Threads
    <2>3. Taken = [c \in Consumers |-> Taken[c]] /\ Taken' = [c \in Consumers |-> Taken'[c]]
      BY Zenon DEF Taken
    <2> QED  BY <1>1, <1>9, <2>1, <2>2, <2>3, Zenon
  <1> QED  BY <1>1, <1>8, <1>10, <1>11, <1>12 DEF Fifo!Take

\* Copying a request in does not change what is in the queue.
LEMMA CopyInStutters ==
    ASSUME IInv, IInv', NEW t \in Threads, CopyIn(t)
    PROVE  UNCHANGED <<Queued, Taken>>
  <1>1. /\ t \in Producers /\ pc[t] = "copy"
        /\ data' = [data EXCEPT ![CellOf(pos[t])] = req[t]]
        /\ pc'[t] = "publish" /\ (\A u \in Threads \ {t} : pc'[u] = pc[u])
        /\ UNCHANGED <<sequence, enqueuePos, dequeuePos, pos, req>>
    BY DEF CopyIn, Goto, IInv, TypeOK
  <1>2. /\ enqueuePos \in Nat /\ dequeuePos \in Nat /\ Capacity \in Nat
        /\ \A u \in Threads : pos[u] \in Nat /\ (u \in Producers <=> u \notin Consumers)
    BY Sides DEF IInv
  <1>3. InCell(t)
    BY <1>1 DEF InCell
  <1>4. ASSUME NEW p \in dequeuePos .. enqueuePos - 1 PROVE ItemAt(p)' = ItemAt(p)
    <2>1. CellOf(p) \in Cells /\ p \in Nat
      BY <1>2, LapAndCell, SMT
    <2>2. CASE p = pos[t]
      <3>1. \A u \in Producers : pc[u] = "copy" /\ pos[u] = p => u = t
        BY <1>1, <2>2, OneCopier DEF IInv
      <3>2. ItemIn(p, pc, pos, req, data) = req[t]
        BY <1>1, <2>2, CopierHasIt DEF IInv
      <3>3. ItemIn(p, pc', pos', req', data') = data'[CellOf(p)]
        <4>1. \A u \in Producers : ~(pc'[u] = "copy" /\ pos'[u] = p)
          BY <1>1, <3>1 DEF Threads
        <4> QED  BY <4>1, StoredItem
      <3>4. data'[CellOf(p)] = req[t]
        BY <1>1, <2>1, <2>2 DEF IInv, TypeOK
      <3>5. ItemAt(p) = ItemIn(p, pc, pos, req, data) /\ ItemAt(p)' = ItemIn(p, pc', pos', req', data')
        BY DEF ItemAt, ItemIn
      <3> QED  BY <3>2, <3>3, <3>4, <3>5
    <2>3. CASE p # pos[t]
      <3>1. /\ dequeuePos <= p /\ p < dequeuePos + Capacity
            /\ dequeuePos <= pos[t] /\ pos[t] < dequeuePos + Capacity
        BY <1>1, <1>2, <1>3, <2>1, SMT DEF IInv, WindowInv, HolderInv
      <3>2. CellOf(p) # CellOf(pos[t])
        BY <1>2, <2>1, <2>3, <3>1, WindowCells DEF IInv
      <3>3. /\ \A u \in Producers :
                  pc'[u] = "copy" /\ pos'[u] = p <=> pc[u] = "copy" /\ pos[u] = p
            /\ \A u \in Producers : pc[u] = "copy" /\ pos[u] = p => req'[u] = req[u]
        BY <1>1, <2>3 DEF Threads
      <3>4. data'[CellOf(p)] = data[CellOf(p)]
        BY <1>1, <2>1, <3>2 DEF IInv, TypeOK
      <3> QED  BY <3>3, <3>4, SameItem DEF IInv
    <2> QED  BY <2>2, <2>3
  <1>5. Queued' = Queued
    BY <1>1, <1>2, <1>4, SameQueued
  <1>6. Taken' = Taken
    <2>1. ASSUME NEW c \in Consumers, pc[c] = "copy"
          PROVE  data'[CellOf(pos'[c])] = data[CellOf(pos[c])]
      <3>1. c \in Threads /\ c # t
        BY <1>1, <1>2 DEF Threads
      <3>2. CellOf(pos[c]) # CellOf(pos[t])
        BY <1>3, <2>1, <3>1, Exclusive DEF InCell, IInv
      <3>3. CellOf(pos[c]) \in Cells
        BY <1>2, <3>1, LapAndCell
      <3> QED  BY <1>1, <3>2, <3>3 DEF IInv, TypeOK
    <2>2. ASSUME NEW c \in Consumers PROVE Taken'[c] = Taken[c]
      <3>1. c \in Threads \ {t}
        BY <1>1, <1>2 DEF Threads
      <3> QED  BY <1>1, <2>1, <3>1 DEF Taken
    <2> QED  BY <2>2, SameTaken
  <1> QED  BY <1>5, <1>6

\* Copying a request out does not change what a consumer has in hand.
LEMMA CopyOutStutters ==
    ASSUME IInv, NEW t \in Threads, CopyOut(t)
    PROVE  UNCHANGED <<Queued, Taken>>
  <1>1. /\ t \in Consumers /\ t \notin Producers /\ pc[t] = "copy"
        /\ req'[t] = data[CellOf(pos[t])] /\ (\A u \in Threads \ {t} : req'[u] = req[u])
        /\ pc'[t] = "publish" /\ (\A u \in Threads \ {t} : pc'[u] = pc[u])
        /\ UNCHANGED <<sequence, data, enqueuePos, dequeuePos, pos>>
    BY SidesAssumption DEF CopyOut, Goto, IInv, TypeOK, queueVars
  <1>2. ASSUME NEW p PROVE ItemAt(p)' = ItemAt(p)
    <2>1. /\ \A u \in Producers : pc'[u] = "copy" /\ pos'[u] = p <=> pc[u] = "copy" /\ pos[u] = p
          /\ \A u \in Producers : pc[u] = "copy" /\ pos[u] = p => req'[u] = req[u]
          /\ data'[CellOf(p)] = data[CellOf(p)]
      BY <1>1 DEF Threads
    <2> QED  BY <2>1, SameItem DEF IInv
  <1>3. Queued' = Queued
    BY <1>1, <1>2, SameQueued DEF IInv, TypeOK
  <1>4. ASSUME NEW c \in Consumers PROVE Taken'[c] = Taken[c]
    <2>1. CASE c = t
      BY <1>1, <2>1 DEF Taken
    <2>2. CASE c # t
      BY <1>1, <2>2 DEF Taken, Threads
    <2> QED  BY <2>1, <2>2
  <1> QED  BY <1>3, <1>4, SameTaken

\* The end of a push shows nothing.
LEMMA PublishFullStutters ==
    ASSUME IInv, NEW t \in Threads, PublishFull(t)
    PROVE  UNCHANGED <<Queued, Taken>>
  <1>1. /\ t \in Producers /\ t \notin Consumers /\ pc[t] = "publish" /\ pc'[t] = "idle"
        /\ \A u \in Threads \ {t} : pc'[u] = pc[u] /\ req'[u] = req[u]
        /\ UNCHANGED <<data, enqueuePos, dequeuePos, pos>>
    BY SidesAssumption DEF PublishFull, Goto, IInv, TypeOK
  <1>2. ASSUME NEW p PROVE ItemAt(p)' = ItemAt(p)
    <2>1. /\ \A u \in Producers : pc'[u] = "copy" /\ pos'[u] = p <=> pc[u] = "copy" /\ pos[u] = p
          /\ \A u \in Producers : pc[u] = "copy" /\ pos[u] = p => req'[u] = req[u]
          /\ data'[CellOf(p)] = data[CellOf(p)]
      BY <1>1 DEF Threads
    <2> QED  BY <2>1, SameItem DEF IInv
  <1>3. Queued' = Queued
    BY <1>1, <1>2, SameQueued DEF IInv, TypeOK
  <1>4. Taken' = Taken
    <2>1. ASSUME NEW c \in Consumers PROVE Taken'[c] = Taken[c]
      <3>1. c \in Threads \ {t}
        BY <1>1 DEF Threads
      <3> QED  BY <1>1, <3>1 DEF Taken
    <2> QED  BY <2>1, SameTaken
  <1> QED  BY <1>3, <1>4

\* The end of a pop delivers the request.
LEMMA PublishFreeDelivers ==
    ASSUME IInv, NEW t \in Threads, PublishFree(t)
    PROVE  t \in Consumers /\ Fifo!Deliver(t)
  <1>1. /\ t \in Consumers /\ t \notin Producers /\ pc[t] = "publish" /\ pc'[t] = "idle"
        /\ \A u \in Threads \ {t} : pc'[u] = pc[u] /\ req'[u] = req[u]
        /\ UNCHANGED <<data, enqueuePos, dequeuePos, pos>>
    BY SidesAssumption DEF PublishFree, Goto, IInv, TypeOK
  <1>2. ASSUME NEW p PROVE ItemAt(p)' = ItemAt(p)
    <2>1. /\ \A u \in Producers : pc'[u] = "copy" /\ pos'[u] = p <=> pc[u] = "copy" /\ pos[u] = p
          /\ \A u \in Producers : pc[u] = "copy" /\ pos[u] = p => req'[u] = req[u]
          /\ data'[CellOf(p)] = data[CellOf(p)]
      BY <1>1 DEF Threads
    <2> QED  BY <2>1, SameItem DEF IInv
  <1>3. Queued' = Queued
    BY <1>1, <1>2, SameQueued DEF IInv, TypeOK
  <1>4. Taken[t] # NoItem
    BY <1>1, TakenAt, ItemAssumption DEF IInv, DataInv
  <1>5. Taken' = [Taken EXCEPT ![t] = NoItem]
    <2>1. Taken'[t] = NoItem
      BY <1>1 DEF Taken
    <2>2. ASSUME NEW c \in Consumers, c # t PROVE Taken'[c] = Taken[c]
      BY <1>1, <2>2 DEF Taken, Threads
    <2>3. Taken = [c \in Consumers |-> Taken[c]] /\ Taken' = [c \in Consumers |-> Taken'[c]]
      BY Zenon DEF Taken
    <2> QED  BY <1>1, <2>1, <2>2, <2>3, Zenon
  <1> QED  BY <1>1, <1>3, <1>4, <1>5 DEF Fifo!Deliver

----------------------------------------------------------------------------
(* The theorems *)

\* Every variable keeps its type, for any number of threads and any capacity.
THEOREM TypeCorrect == Spec => []TypeOK
  <1>1. IInv => TypeOK
    BY DEF IInv
  <1> QED  BY <1>1, Invariance, PTL

\* Two threads are never in the same cell: the plain copies of push and pop
\* are not data races.
THEOREM CellsExclusive == Spec => []CellExclusive
  <1>1. IInv => CellExclusive
    BY Exclusive DEF IInv, CellExclusive
  <1> QED  BY <1>1, Invariance, PTL

\* A cell that is behind a thread's position is full or empty, or half done.
LEMMA BehindIsFullOrEmpty ==
    ASSUME IInv, NEW t \in Threads, pc[t] = "check",
           sequence[CellOf(pos[t])] < Awaited(t)
    PROVE  IF t \in Producers
           THEN enqueuePos - dequeuePos = Capacity \/ \E c \in Consumers : InCell(c)
           ELSE enqueuePos = dequeuePos \/ \E p \in Producers : InCell(p)
  <1>1. /\ enqueuePos \in Nat /\ dequeuePos \in Nat /\ Capacity \in Nat /\ pos[t] \in Nat
        /\ dequeuePos <= enqueuePos /\ enqueuePos <= dequeuePos + Capacity
        /\ pos[t] <= Cursor(t)
    BY Sides DEF IInv, WindowInv, CasInv
  <1>2. PICK p \in dequeuePos .. dequeuePos + Capacity - 1 : CellOf(p) = CellOf(pos[t])
    BY <1>1, LapAndCell, CellInLap
  <1>3. p \in Nat /\ dequeuePos <= p /\ p < dequeuePos + Capacity
    BY <1>1, SMT
  <1>4. CASE t \in Producers
    <2> SUFFICES ASSUME enqueuePos < dequeuePos + Capacity, ~ \E c \in Consumers : InCell(c)
                 PROVE  FALSE
      BY <1>1, <1>4, SMT
    <2>1. sequence[CellOf(p)] \in {p, p + 1}
      BY <1>3, SequenceAt DEF IInv
    <2>2. p < pos[t] /\ pos[t] < p + Capacity
      BY <1>1, <1>2, <1>3, <1>4, <2>1, SMT DEF Awaited, Cursor
    <2>3. p = pos[t]
      BY <1>1, <1>2, <1>3, <2>2, SameCell
    <2> QED  BY <1>1, <2>2, <2>3, SMT
  <1>5. CASE t \notin Producers
    <2> SUFFICES ASSUME dequeuePos < enqueuePos, ~ \E u \in Producers : InCell(u)
                 PROVE  FALSE
      BY <1>1, <1>5, SMT
    <2>1. \/ p < enqueuePos /\ sequence[CellOf(p)] = p + 1
          \/ p >= enqueuePos /\ sequence[CellOf(p)] = p
          \/ p >= enqueuePos /\ sequence[CellOf(p)] = p - Capacity + 1
      BY <1>3, SequenceAt DEF IInv
    <2>2. p >= enqueuePos /\ pos[t] <= p /\ p < pos[t] + Capacity
      BY <1>1, <1>2, <1>3, <1>5, <2>1, SMT DEF Awaited, Cursor
    <2>3. p = pos[t]
      BY <1>1, <1>2, <1>3, <2>2, SameCell
    <2> QED  BY <1>1, <1>5, <2>2, <2>3, SMT DEF Cursor
  <1> QED  BY <1>4, <1>5

\* push and pop return false for the reason they report, or because a call of
\* the other side is half done; never because they lost a race.
THEOREM FailuresHonest == Spec => FailsHonestly
  <1>1. ASSUME IInv, [Next]_vars, NEW t \in Threads, Fails(t)
        PROVE  IF t \in Producers
               THEN enqueuePos - dequeuePos = Capacity \/ \E c \in Consumers : InCell(c)
               ELSE enqueuePos = dequeuePos \/ \E p \in Producers : InCell(p)
    <2>1. pc[t] = "check" /\ pc'[t] = "idle" /\ DOMAIN pc = Threads
      BY <1>1 DEF Fails, IInv, TypeOK
    <2>2. PICK u \in Threads : (\E x \in Items : BeginPush(u, x)) \/ BeginPop(u) \/ Step(u)
      BY <1>1, <2>1 DEF Next, vars
    <2>3. u = t
      BY <2>1, <2>2 DEF BeginPush, BeginPop, Step, CellReady, CellBehind, CellAhead, CasFails,
         PushCas, PopCas, CopyIn, CopyOut, PublishFull, PublishFree, Goto
    <2>4. CellBehind(t)
      BY <2>1, <2>2, <2>3 DEF BeginPush, BeginPop, Step, CellReady, CellAhead, CasFails,
         PushCas, PopCas, CopyIn, CopyOut, PublishFull, PublishFree, Goto
    <2> QED  BY <1>1, <2>1, <2>4, BehindIsFullOrEmpty DEF CellBehind
  <1>2. IInv /\ [Next]_vars =>
          [\A t \in Threads :
             Fails(t) =>
                IF t \in Producers
                THEN enqueuePos - dequeuePos = Capacity \/ \E c \in Consumers : InCell(c)
                ELSE enqueuePos = dequeuePos \/ \E p \in Producers : InCell(p)]_vars
    BY <1>1
  <1> QED  BY <1>2, Invariance, PTL DEF Spec, FailsHonestly

\* The lock-free queue is a bounded FIFO whose push and pop are atomic:
\* requests come out once each, in the order in which their pushes won a cell.
THEOREM QueueIsFifo == Spec => ImplementsFifo
  <1>1. Init => Fifo!Init
    <2> SUFFICES ASSUME Init PROVE Fifo!Init
      OBVIOUS
    <2>1. Queued = <<>>
      BY SMT DEF Init, Queued
    <2>2. Taken = [c \in Consumers |-> NoItem]
      BY Zenon DEF Init, Taken, Threads
    <2> QED  BY <2>1, <2>2 DEF Fifo!Init
  <1>2. IInv /\ IInv' /\ [Next]_vars => [Fifo!Next]_(Fifo!fifoVars)
    <2> SUFFICES ASSUME IInv, IInv', [Next]_vars
                 PROVE  Fifo!Next \/ UNCHANGED <<Queued, Taken>>
      BY DEF Fifo!fifoVars
    <2>1. CASE UNCHANGED vars
      BY <2>1 DEF vars, queueVars, Queued, Taken, ItemAt
    <2>2. ASSUME NEW t \in Threads,
                 (\E x \in Items : BeginPush(t, x)) \/ BeginPop(t) \/ Step(t)
          PROVE  Fifo!Next \/ UNCHANGED <<Queued, Taken>>
      <3>1. CASE PushCas(t)
        BY <3>1, PushCasPuts DEF Fifo!Next
      <3>2. CASE PopCas(t)
        BY <3>2, PopCasTakes DEF Fifo!Next
      <3>3. CASE PublishFree(t)
        BY <3>3, PublishFreeDelivers DEF Fifo!Next
      <3>4. CASE CopyIn(t)
        BY <3>4, CopyInStutters
      <3>5. CASE CopyOut(t)
        BY <3>5, CopyOutStutters
      <3>6. CASE PublishFull(t)
        BY <3>6, PublishFullStutters
      <3> QED  BY <2>2, <3>1, <3>2, <3>3, <3>4, <3>5, <3>6, LookingStutters DEF Step
    <2> QED  BY <2>1, <2>2 DEF Next
  <1> QED  BY <1>1, <1>2, Invariance, PTL DEF Spec, ImplementsFifo, Fifo!Spec
=============================================================================
