--------------------------- MODULE PrewarmProofs ---------------------------
(***************************************************************************)
(* Theorems about Prewarm.tla, for any number of experts, any ring, any    *)
(* number of requests and boots: the thread yields to a request after one  *)
(* prefetch at most, its order is current when the engine is idle, a pass  *)
(* with the ring to itself evicts neither what it warmed nor the headroom, *)
(* and a boot loads the last histogram saved whole, or nothing.            *)
(***************************************************************************)
EXTENDS Prewarm, SequenceTheorems, FiniteSetTheorems, TLAPS

----------------------------------------------------------------------------
(* The invariant *)

\* A pass has budget left when it prefetches.
BudgetInv == InPass => budget > 0

\* No pass is ahead of its epoch.
EpochInv == passEpoch <= epoch

\* A pass that has made its late prefetch makes no other one.
LateInv ==
    /\ late <= 1
    /\ late = 1 /\ busy => pc \in {"top", "flags", "exited"}
    /\ late = 1 /\ pc = "prefetch" => passEpoch = epoch

\* A count changes only during a request, and the request's end starts an
\* epoch: the pass of the current epoch is sorted by the current counts.
OrderInv ==
    main = "idle" /\ passEpoch = epoch =>
        /\ pc = "sort" => ~disturbed
        /\ InPass => SortedBy(order, hits)

\* What the file is worth.
FileInv == Loaded(file) = IF cut THEN NoHits ELSE counted

IInv == TypeOK /\ BudgetInv /\ EpochInv /\ LateInv /\ OrderInv /\ FileInv

----------------------------------------------------------------------------
(* The ring *)

\* The ring without one of its slots is a sequence of experts.
LEMMA WithoutTyped ==
    ASSUME TypeOK, NEW i \in DOMAIN ring
    PROVE  Without(i) \in Seq(Expert)
  <1>1. ring \in Seq(Expert) /\ i \in 1 .. Len(ring) /\ Len(ring) \in Nat
    BY LenProperties DEF TypeOK
  <1>2. /\ \A j \in 1 .. Len(ring) : ring[j] \in Expert
        /\ i - 1 \in Int /\ i + 1 \in Int
    BY <1>1, ElementOfSeq, SMT
  <1>3. \A j \in 1 .. i - 1 : ring[j] \in Expert
    BY <1>1, <1>2, SMT
  <1>4. \A j \in i + 1 .. Len(ring) : ring[j] \in Expert
    BY <1>1, <1>2, SMT
  <1>5. SubSeq(ring, 1, i - 1) \in Seq(Expert)
    BY <1>1, <1>2, <1>3, SMT
  <1>6. SubSeq(ring, i + 1, Len(ring)) \in Seq(Expert)
    BY <1>1, <1>2, <1>4, SMT
  <1> QED  BY <1>5, <1>6, ConcatProperties DEF Without

\* Whatever prefetch does keeps the ring a ring of experts.
LEMMA PrefetchTyped ==
    ASSUME TypeOK, NEW e \in Expert, NEW taken, Prefetch(e, taken)
    PROVE  ring' \in Seq(Expert) /\ loading' \subseteq Expert
  <1>1. /\ ring \in Seq(Expert) /\ loading \subseteq Expert
        /\ \A i \in DOMAIN ring : Without(i) \in Seq(Expert)
    BY WithoutTyped DEF TypeOK
  <1>2. \A s \in Seq(Expert) : Append(s, e) \in Seq(Expert)
    BY AppendProperties
  <1>3. CASE Touch(e)
    BY <1>1, <1>2, <1>3 DEF Touch
  <1>4. CASE StartLoad(e)
    BY <1>1, <1>2, <1>4 DEF StartLoad
  <1>5. CASE Refuse
    BY <1>1, <1>5 DEF Refuse, ringVars
  <1> QED  BY <1>3, <1>4, <1>5 DEF Prefetch

----------------------------------------------------------------------------
(* The thread *)

\* The types of a pass's locals and of its history.
PassTyped ==
    /\ lastEpoch \in Nat /\ order \in [Expert -> Expert] /\ disturbed \in BOOLEAN
    /\ pos \in Expert /\ budget \in 0 .. RingSize /\ warmed \in Nat
    /\ quiet \in BOOLEAN /\ lost \subseteq Expert /\ recent \subseteq Expert

\* A new pass's locals.
LEMMA Fresh ==
    LayerMajor \in [Expert -> Expert] /\ 1 \in Expert /\ 0 \in 0 .. RingSize
  <1>1. Experts \in Nat \ {0} /\ RingSize \in Nat
    BY PrewarmAssumption
  <1> QED  BY <1>1, SMT DEF LayerMajor, Expert

\* The end of a pass, or its next entry.
LEMMA NextEntryMoves ==
    ASSUME TypeOK, NEW o \in [Expert -> Expert], NEW i \in 1 .. Experts + 1,
           NEW b \in 0 .. RingSize, NEW gone \in SUBSET Expert, NextEntry(o, i, b, gone)
    PROVE  /\ PassTyped'
           /\ \/ pc' = "top"
              \/ pc' = "flags" /\ order' = o /\ budget' > 0
  <1>1. CASE i <= Experts /\ b > 0 /\ Goto("flags")
    <2>1. i \in Expert
      BY <1>1, PrewarmAssumption, SMT DEF Expert
    <2>2. ~(i > Experts \/ b = 0)
      BY <1>1, PrewarmAssumption, SMT
    <2>3. /\ pc' = "flags" /\ order' = o /\ disturbed' = FALSE /\ pos' = i /\ budget' = b
          /\ lost' = (IF quiet THEN gone ELSE {})
          /\ UNCHANGED <<lastEpoch, warmed, quiet, recent>>
      BY <1>1, <2>2 DEF NextEntry, Goto
    <2>4. lost' \subseteq Expert
      BY <2>3
    <2>5. PassTyped'
      BY <2>1, <2>3, <2>4 DEF PassTyped, TypeOK
    <2> QED  BY <1>1, <2>3, <2>5
  <1>2. CASE (i > Experts \/ b = 0) /\ LeavePass
    <2>1. ~(i <= Experts /\ b > 0)
      BY <1>2, PrewarmAssumption, SMT
    <2>2. lastEpoch' = passEpoch /\ warmed' = passEpoch
      BY <2>1 DEF NextEntry
    <2> QED  BY <1>2, <2>2, Fresh DEF LeavePass, PassTyped, TypeOK, Goto
  <1> QED  BY <1>1, <1>2 DEF NextEntry

LEMMA BreakOffMoves ==
    ASSUME TypeOK, BreakOff
    PROVE  PassTyped' /\ pc' = "top"
  BY Fresh DEF BreakOff, LeavePass, PassTyped, TypeOK, Goto

LEMMA GoOnMoves ==
    ASSUME TypeOK, NEW label, GoOn(label)
    PROVE  /\ PassTyped' /\ pc' = label
           /\ UNCHANGED <<order, disturbed, budget>>
  BY DEF GoOn, PassTyped, TypeOK, Goto, passHistory

\* Waiting for an idle engine.
LEMMA TopKeeps ==
    ASSUME IInv, Top
    PROVE  IInv'
  <1> USE DEF IInv, Top, Goto, sharedVars, ringVars, diskVars, passHistory, threadVars
  <1>1. TypeOK'
    BY DEF TypeOK, ThreadLabels
  <1>2. BudgetInv' /\ EpochInv'
    BY DEF BudgetInv, EpochInv, InPass, TypeOK
  <1>3. LateInv'
    BY DEF LateInv, TypeOK
  <1>4. OrderInv'
    BY DEF OrderInv, InPass, SortedBy
  <1>5. FileInv'
    BY DEF FileInv, Loaded
  <1> QED  BY <1>1, <1>2, <1>3, <1>4, <1>5

\* Waiting for an epoch.
LEMMA NoNewEpochKeeps ==
    ASSUME IInv, NoNewEpoch
    PROVE  IInv'
  <1> USE DEF IInv, NoNewEpoch, Goto, sharedVars, ringVars, diskVars, passHistory, threadVars
  <1>1. TypeOK'
    BY DEF TypeOK, ThreadLabels
  <1>2. BudgetInv' /\ EpochInv'
    BY DEF BudgetInv, EpochInv, InPass, TypeOK
  <1>3. LateInv'
    BY DEF LateInv, TypeOK
  <1>4. OrderInv'
    BY DEF OrderInv, InPass, SortedBy
  <1>5. FileInv'
    BY DEF FileInv, Loaded
  <1> QED  BY <1>1, <1>2, <1>3, <1>4, <1>5

\* A pass begins in the current epoch, with no count disturbed yet.
LEMMA BeginPassKeeps ==
    ASSUME IInv, BeginPass
    PROVE  IInv'
  <1> USE DEF IInv, BeginPass, Goto, sharedVars, ringVars, diskVars
  <1>1. recent' \subseteq Expert /\ quiet' \in BOOLEAN /\ lost' \subseteq Expert
    <2>1. \A j \in DOMAIN ring : ring[j] \in Expert
      BY ElementOfSeq, LenProperties DEF TypeOK
    <2> QED  BY <2>1, Zenon
  <1>2. TypeOK'
    BY <1>1 DEF TypeOK, ThreadLabels
  <1>3. BudgetInv' /\ EpochInv'
    BY DEF BudgetInv, EpochInv, InPass, TypeOK
  <1>4. LateInv'
    BY DEF LateInv, TypeOK
  <1>5. OrderInv'
    BY DEF OrderInv, InPass, SortedBy
  <1>6. FileInv'
    BY DEF FileInv, Loaded
  <1> QED  BY <1>2, <1>3, <1>4, <1>5, <1>6

\* The sort of the current epoch's pass saw one set of counts.
LEMMA EndSortKeeps ==
    ASSUME IInv, EndSort
    PROVE  IInv'
  <1> USE DEF IInv, sharedVars, ringVars, diskVars
  <1>1. PICK o \in Orders : (disturbed \/ SortedBy(o, hits)) /\ NextEntry(o, 1, Budget, lost)
    BY DEF EndSort
  <1>2. /\ pc = "sort"
        /\ UNCHANGED <<passEpoch, busy, epoch, shutdown, ring, loading, file, counted, cut,
                       hits, main, uses, boots, late>>
    BY DEF EndSort
  <1>3. o \in [Expert -> Expert] /\ 1 \in 1 .. Experts + 1 /\ lost \in SUBSET Expert
    BY PrewarmAssumption, SMT DEF Orders, TypeOK
  <1>4. Budget \in 0 .. RingSize
    <2>1. Margin \in Nat
      BY PrewarmAssumption, SMT DEF Margin
    <2> QED  BY <2>1, PrewarmAssumption, SMT DEF Budget
  <1>5. /\ PassTyped'
        /\ pc' = "top" \/ (pc' = "flags" /\ order' = o /\ budget' > 0)
    BY <1>1, <1>3, <1>4, NextEntryMoves
  <1>6. TypeOK'
    BY <1>2, <1>5 DEF TypeOK, PassTyped, ThreadLabels
  <1>7. BudgetInv' /\ EpochInv'
    BY <1>2, <1>5 DEF BudgetInv, EpochInv, InPass
  <1>8. LateInv'
    BY <1>2, <1>5 DEF LateInv
  <1>9. OrderInv'
    BY <1>1, <1>2, <1>5 DEF OrderInv, InPass, SortedBy
  <1>10. FileInv'
    BY <1>2 DEF FileInv, Loaded
  <1> QED  BY <1>6, <1>7, <1>8, <1>9, <1>10

\* A late pass ends at its next look at busy,
LEMMA CheckFlagsKeeps ==
    ASSUME IInv, CheckFlags
    PROVE  IInv'
  <1> USE DEF IInv, sharedVars, ringVars, diskVars
  <1>1. /\ pc = "flags"
        /\ UNCHANGED <<passEpoch, busy, epoch, shutdown, ring, loading, file, counted, cut,
                       hits, main, uses, boots, late>>
    BY DEF CheckFlags
  <1>2. /\ PassTyped'
        /\ \/ pc' = "top"
           \/ pc' = "exited"
           \/ pc' = "epoch" /\ ~busy /\ UNCHANGED <<order, disturbed, budget>>
    BY BreakOffMoves, GoOnMoves DEF CheckFlags
  <1>3. TypeOK'
    BY <1>1, <1>2 DEF TypeOK, PassTyped, ThreadLabels
  <1>4. BudgetInv' /\ EpochInv'
    BY <1>1, <1>2 DEF BudgetInv, EpochInv, InPass
  <1>5. LateInv'
    BY <1>1, <1>2 DEF LateInv
  <1>6. OrderInv'
    BY <1>1, <1>2 DEF OrderInv, InPass, SortedBy
  <1>7. FileInv'
    BY <1>1 DEF FileInv, Loaded
  <1> QED  BY <1>3, <1>4, <1>5, <1>6, <1>7

\* or at its next look at the epoch.
LEMMA CheckEpochKeeps ==
    ASSUME IInv, CheckEpoch
    PROVE  IInv'
  <1> USE DEF IInv, sharedVars, ringVars, diskVars
  <1>1. /\ pc = "epoch"
        /\ UNCHANGED <<passEpoch, busy, epoch, shutdown, ring, loading, file, counted, cut,
                       hits, main, uses, boots, late>>
    BY DEF CheckEpoch
  <1>2. /\ PassTyped'
        /\ \/ pc' = "top"
           \/ pc' = "prefetch" /\ epoch = passEpoch /\ UNCHANGED <<order, disturbed, budget>>
    BY BreakOffMoves, GoOnMoves DEF CheckEpoch
  <1>3. TypeOK'
    BY <1>1, <1>2 DEF TypeOK, PassTyped, ThreadLabels
  <1>4. BudgetInv' /\ EpochInv'
    BY <1>1, <1>2 DEF BudgetInv, EpochInv, InPass
  <1>5. LateInv'
    BY <1>1, <1>2 DEF LateInv
  <1>6. OrderInv'
    BY <1>1, <1>2 DEF OrderInv, InPass, SortedBy
  <1>7. FileInv'
    BY <1>1 DEF FileInv, Loaded
  <1> QED  BY <1>3, <1>4, <1>5, <1>6, <1>7

\* A prefetch that comes late is the pass's first, and leads back to the checks.
LEMMA IssueKeeps ==
    ASSUME IInv, Issue
    PROVE  IInv'
  <1> USE DEF IInv, sharedVars, diskVars
  <1>1. PICK taken \in BOOLEAN :
          /\ Prefetch(order[pos], taken)
          /\ NextEntry(order, pos + 1, Spend(taken),
                       IF taken THEN lost \ {order[pos]} ELSE lost \cup {order[pos]})
    BY DEF Issue
  <1>2. /\ pc = "prefetch"
        /\ late' = IF busy \/ epoch # passEpoch THEN late + 1 ELSE late
        /\ UNCHANGED <<passEpoch, busy, epoch, shutdown, file, counted, cut, hits, main,
                       uses, boots>>
    BY DEF Issue
  <1>3. order[pos] \in Expert
    BY DEF TypeOK
  <1>4. ring' \in Seq(Expert) /\ loading' \subseteq Expert
    BY <1>1, <1>3, PrefetchTyped
  <1>5. /\ order \in [Expert -> Expert] /\ pos + 1 \in 1 .. Experts + 1
        /\ Spend(taken) \in 0 .. RingSize
        /\ (IF taken THEN lost \ {order[pos]} ELSE lost \cup {order[pos]}) \in SUBSET Expert
    <2>1. budget > 0
      BY <1>2 DEF BudgetInv, InPass
    <2>2. Spend(taken) \in 0 .. RingSize
      BY <2>1, PrewarmAssumption, SMT DEF Spend, TypeOK
    <2>3. pos + 1 \in 1 .. Experts + 1
      BY PrewarmAssumption, SMT DEF TypeOK, Expert
    <2> QED  BY <1>3, <2>2, <2>3 DEF TypeOK
  <1>6. /\ PassTyped'
        /\ pc' = "top" \/ (pc' = "flags" /\ order' = order /\ budget' > 0)
    BY <1>1, <1>5, NextEntryMoves
  <1>7. late' \in Nat /\ late' <= 1
    BY <1>2, SMT DEF LateInv, TypeOK
  <1>8. TypeOK'
    BY <1>2, <1>4, <1>6, <1>7 DEF TypeOK, PassTyped, ThreadLabels
  <1>9. BudgetInv' /\ EpochInv'
    BY <1>2, <1>6 DEF BudgetInv, EpochInv, InPass
  <1>10. LateInv'
    BY <1>6, <1>7 DEF LateInv
  <1>11. OrderInv'
    BY <1>2, <1>6 DEF OrderInv, InPass, SortedBy
  <1>12. FileInv'
    BY <1>2 DEF FileInv, Loaded
  <1> QED  BY <1>8, <1>9, <1>10, <1>11, <1>12

----------------------------------------------------------------------------
(* The main thread, the workers and the process *)

\* A request starts a new count of late prefetches.
LEMMA BeginRequestKeeps ==
    ASSUME IInv, BeginRequest
    PROVE  IInv'
  <1> USE DEF IInv, BeginRequest, sharedVars, ringVars, diskVars, passHistory, threadVars
  <1>1. TypeOK'
    BY DEF TypeOK, MainLabels
  <1>2. BudgetInv' /\ EpochInv'
    BY DEF BudgetInv, EpochInv, InPass, TypeOK
  <1>3. LateInv'
    BY DEF LateInv, TypeOK
  <1>4. OrderInv'
    BY DEF OrderInv, EpochInv, InPass, SortedBy, TypeOK
  <1>5. FileInv'
    BY DEF FileInv, Loaded
  <1> QED  BY <1>1, <1>2, <1>3, <1>4, <1>5

\* The end of a request's work.
LEMMA EndRequestKeeps ==
    ASSUME IInv, EndRequest
    PROVE  IInv'
  <1> USE DEF IInv, EndRequest, sharedVars, ringVars, diskVars, passHistory, threadVars
  <1>1. TypeOK'
    BY DEF TypeOK, MainLabels
  <1>2. BudgetInv' /\ EpochInv'
    BY DEF BudgetInv, EpochInv, InPass, TypeOK
  <1>3. LateInv'
    BY DEF LateInv, TypeOK
  <1>4. OrderInv'
    BY DEF OrderInv, EpochInv, InPass, SortedBy, TypeOK
  <1>5. FileInv'
    BY DEF FileInv, Loaded
  <1> QED  BY <1>1, <1>2, <1>3, <1>4, <1>5

\* The thread's pass is from an earlier epoch now.
LEMMA RearmKeeps ==
    ASSUME IInv, Rearm
    PROVE  IInv'
  <1> USE DEF IInv, Rearm, sharedVars, ringVars, diskVars, passHistory, threadVars
  <1>1. TypeOK'
    BY DEF TypeOK, MainLabels
  <1>2. BudgetInv' /\ EpochInv'
    BY DEF BudgetInv, EpochInv, InPass, TypeOK
  <1>3. LateInv'
    BY DEF LateInv, TypeOK
  <1>4. OrderInv'
    BY DEF OrderInv, EpochInv, InPass, SortedBy, TypeOK
  <1>5. FileInv'
    BY DEF FileInv, Loaded
  <1> QED  BY <1>1, <1>2, <1>3, <1>4, <1>5

\* End of input.
LEMMA StopKeeps ==
    ASSUME IInv, Stop
    PROVE  IInv'
  <1> USE DEF IInv, Stop, sharedVars, ringVars, diskVars, passHistory, threadVars
  <1>1. TypeOK'
    BY DEF TypeOK, MainLabels
  <1>2. BudgetInv' /\ EpochInv'
    BY DEF BudgetInv, EpochInv, InPass, TypeOK
  <1>3. LateInv'
    BY DEF LateInv, TypeOK
  <1>4. OrderInv'
    BY DEF OrderInv, EpochInv, InPass, SortedBy, TypeOK
  <1>5. FileInv'
    BY DEF FileInv, Loaded
  <1> QED  BY <1>1, <1>2, <1>3, <1>4, <1>5

\* The thread has ended.
LEMMA JoinKeeps ==
    ASSUME IInv, Join
    PROVE  IInv'
  <1> USE DEF IInv, Join, sharedVars, ringVars, diskVars, passHistory, threadVars
  <1>1. TypeOK'
    BY DEF TypeOK, MainLabels
  <1>2. BudgetInv' /\ EpochInv'
    BY DEF BudgetInv, EpochInv, InPass, TypeOK
  <1>3. LateInv'
    BY DEF LateInv, TypeOK
  <1>4. OrderInv'
    BY DEF OrderInv, EpochInv, InPass, SortedBy, TypeOK
  <1>5. FileInv'
    BY DEF FileInv, Loaded
  <1> QED  BY <1>1, <1>2, <1>3, <1>4, <1>5

\* A demand prefetch touches the ring only.
LEMMA DemandKeeps ==
    ASSUME IInv, Demand
    PROVE  IInv'
  <1> USE DEF IInv, Demand, sharedVars, diskVars, passHistory, threadVars
  <1>1. ring' \in Seq(Expert) /\ loading' \subseteq Expert
    BY PrefetchTyped
  <1>2. TypeOK'
    BY <1>1 DEF TypeOK
  <1>3. BudgetInv' /\ EpochInv' /\ LateInv' /\ OrderInv' /\ FileInv'
    BY DEF BudgetInv, EpochInv, LateInv, OrderInv, FileInv, InPass, SortedBy, Loaded
  <1> QED  BY <1>2, <1>3

\* A claim counts: a request is in progress.
LEMMA ClaimKeeps ==
    ASSUME IInv, Claim
    PROVE  IInv'
  <1> USE DEF IInv, sharedVars, diskVars, passHistory
  <1>1. PICK e \in Retained \ loading : Touch(e) /\ hits' = [hits EXCEPT ![e] = @ + 1]
    BY DEF Claim
  <1>2. /\ main = "work" /\ uses' = uses + 1
        /\ disturbed' = (disturbed \/ pc = "sort")
        /\ UNCHANGED <<pc, passEpoch, lastEpoch, order, pos, budget, busy, epoch, shutdown,
                       file, counted, cut, warmed, quiet, lost, recent, main, boots, late>>
    BY DEF Claim
  <1>3. e \in Expert
    <2>1. \A j \in DOMAIN ring : ring[j] \in Expert
      BY ElementOfSeq, LenProperties DEF TypeOK
    <2> QED  BY <2>1, Zenon DEF Retained
  <1>4. Prefetch(e, TRUE)
    BY <1>1 DEF Prefetch
  <1>5. ring' \in Seq(Expert) /\ loading' \subseteq Expert
    BY <1>3, <1>4, PrefetchTyped
  <1>6. hits' \in [Expert -> Nat] /\ uses' \in Nat /\ disturbed' \in BOOLEAN
    <2>1. hits' \in [Expert -> Nat] /\ uses' \in Nat
      BY <1>1, <1>2, <1>3 DEF TypeOK
    <2>2. disturbed' \in BOOLEAN
      BY <1>2, Zenon DEF TypeOK
    <2> QED  BY <2>1, <2>2
  <1>7. TypeOK'
    BY <1>2, <1>5, <1>6 DEF TypeOK
  <1>8. BudgetInv' /\ EpochInv' /\ LateInv' /\ OrderInv' /\ FileInv'
    BY <1>2 DEF BudgetInv, EpochInv, LateInv, OrderInv, FileInv, InPass, Loaded
  <1> QED  BY <1>7, <1>8

\* A load ends.
LEMMA LoadKeeps ==
    ASSUME IInv, LoadOk \/ LoadFail
    PROVE  IInv'
  <1> USE DEF IInv, sharedVars, diskVars, passHistory, threadVars
  <1>1. UNCHANGED <<pc, passEpoch, lastEpoch, order, disturbed, pos, budget, busy, epoch, shutdown,
                    file, counted, cut, warmed, quiet, recent, hits, main, uses, boots, late>>
    BY DEF LoadOk, LoadFail
  <1>2. ring' \in Seq(Expert) /\ loading' \subseteq Expert /\ lost' \subseteq Expert
    <2>1. \A j \in DOMAIN ring : ring[j] \in Expert
      BY ElementOfSeq, LenProperties DEF TypeOK
    <2>2. CASE LoadOk
      BY <2>2 DEF LoadOk, TypeOK
    <2>3. CASE LoadFail
      BY <2>1, <2>3, WithoutTyped DEF LoadFail, TypeOK
    <2> QED  BY <2>2, <2>3
  <1>3. TypeOK'
    BY <1>1, <1>2 DEF TypeOK
  <1>4. BudgetInv' /\ EpochInv' /\ LateInv' /\ OrderInv' /\ FileInv'
    BY <1>1 DEF BudgetInv, EpochInv, LateInv, OrderInv, FileInv, InPass, SortedBy, Loaded
  <1> QED  BY <1>3, <1>4

\* A save leaves the whole histogram, a part that will not be loaded, or what
\* was there before.
LEMMA SavedKeeps ==
    ASSUME TypeOK, FileInv, Saved
    PROVE  /\ FileInv'
           /\ file' \in [kept : 0 .. Experts, counts : [Expert -> Nat]]
           /\ counted' \in [Expert -> Nat] /\ cut' \in BOOLEAN
  <1>1. CASE UNCHANGED diskVars
    BY <1>1 DEF diskVars, FileInv, Loaded, TypeOK
  <1>2. ASSUME NEW k \in 0 .. Experts,
               file' = [kept |-> k, counts |-> hits],
               cut' = (k < Experts),
               counted' = IF k = Experts THEN hits ELSE counted
        PROVE  /\ FileInv'
               /\ file' \in [kept : 0 .. Experts, counts : [Expert -> Nat]]
               /\ counted' \in [Expert -> Nat] /\ cut' \in BOOLEAN
    <2>1. /\ file' \in [kept : 0 .. Experts, counts : [Expert -> Nat]]
          /\ counted' \in [Expert -> Nat] /\ cut' \in BOOLEAN
      BY <1>2 DEF TypeOK
    <2>2. CASE k = Experts
      <3>1. ~cut'
        <4>1. ~(k < Experts)
          BY <2>2, PrewarmAssumption, SMT
        <4> QED  BY <1>2, <4>1, Zenon
      <3>2. Loaded(file') = hits /\ counted' = hits
        BY <1>2, <2>2 DEF Loaded
      <3> QED  BY <2>1, <3>1, <3>2 DEF FileInv, Loaded
    <2>3. CASE k # Experts
      <3>1. cut'
        <4>1. k < Experts
          BY <2>3, PrewarmAssumption, SMT
        <4> QED  BY <1>2, <4>1, Zenon
      <3>2. Loaded(file') = NoHits
        BY <1>2, <2>3 DEF Loaded
      <3> QED  BY <2>1, <3>1, <3>2 DEF FileInv, Loaded, NoHits
    <2> QED  BY <2>2, <2>3
  <1> QED  BY <1>1, <1>2 DEF Saved

LEMMA SaveKeeps ==
    ASSUME IInv, Save
    PROVE  IInv'
  <1> USE DEF IInv, ringVars, passHistory, threadVars
  <1>1. /\ Saved /\ main = "save" /\ main' \in {"exited", "rearm"}
        /\ busy' = busy \/ busy' = FALSE
        /\ UNCHANGED <<pc, passEpoch, lastEpoch, order, disturbed, pos, budget, epoch, shutdown,
                       ring, loading, warmed, quiet, lost, recent, hits, uses, boots, late>>
    BY DEF Save
  <1>2. TypeOK'
    BY <1>1, SavedKeeps DEF TypeOK, MainLabels
  <1>3. BudgetInv' /\ EpochInv' /\ OrderInv'
    BY <1>1 DEF BudgetInv, EpochInv, OrderInv, InPass
  <1>4. LateInv'
    BY <1>1 DEF LateInv
  <1> QED  BY <1>1, <1>2, <1>3, <1>4, SavedKeeps

\* A new process.
LEMMA FreshKeeps ==
    ASSUME TypeOK, FreshMemory, hits' \in [Expert -> Nat], boots' \in Nat,
           main' \in {"down", "idle"}, FileInv',
           file' \in [kept : 0 .. Experts, counts : [Expert -> Nat]],
           counted' \in [Expert -> Nat], cut' \in BOOLEAN
    PROVE  IInv'
  <1> USE DEF FreshMemory
  <1>1. ring' \in Seq(Expert)
    BY EmptySeq
  <1>2. TypeOK'
    BY <1>1, Fresh DEF TypeOK, ThreadLabels, MainLabels
  <1>3. BudgetInv' /\ EpochInv' /\ LateInv' /\ OrderInv'
    BY DEF BudgetInv, EpochInv, LateInv, OrderInv, InPass
  <1> QED  BY <1>2, <1>3 DEF IInv

LEMMA CrashKeeps ==
    ASSUME IInv, Crash
    PROVE  IInv'
  <1>1. /\ FileInv'
        /\ file' \in [kept : 0 .. Experts, counts : [Expert -> Nat]]
        /\ counted' \in [Expert -> Nat] /\ cut' \in BOOLEAN
    <2>1. CASE Saved
      BY <2>1, SavedKeeps DEF IInv
    <2>2. CASE UNCHANGED diskVars
      BY <2>2 DEF IInv, TypeOK, FileInv, Loaded, diskVars
    <2> QED  BY <2>1, <2>2 DEF Crash
  <1>2. NoHits \in [Expert -> Nat]
    BY DEF NoHits
  <1> QED  BY <1>1, <1>2, FreshKeeps DEF IInv, Crash, TypeOK

LEMMA BootKeeps ==
    ASSUME IInv, Boot
    PROVE  IInv'
  <1>1. /\ FileInv'
        /\ file' \in [kept : 0 .. Experts, counts : [Expert -> Nat]]
        /\ counted' \in [Expert -> Nat] /\ cut' \in BOOLEAN
    BY DEF IInv, TypeOK, FileInv, Loaded, Boot, diskVars
  <1>2. hits' \in [Expert -> Nat] /\ boots' \in Nat
    BY DEF IInv, TypeOK, Loaded, NoHits, Boot
  <1> QED  BY <1>1, <1>2, FreshKeeps DEF IInv, Boot

----------------------------------------------------------------------------
(* The theorems *)

LEMMA InitEstablishes == Init => IInv
  <1> SUFFICES ASSUME Init PROVE IInv
    OBVIOUS
  <1> USE DEF Init
  <1>1. ring \in Seq(Expert) /\ NoHits \in [Expert -> Nat]
    BY EmptySeq DEF NoHits
  <1>2. file \in [kept : 0 .. Experts, counts : [Expert -> Nat]]
    BY <1>1, PrewarmAssumption DEF Emptied
  <1>3. TypeOK
    BY <1>1, <1>2, Fresh DEF TypeOK, ThreadLabels, MainLabels
  <1>4. BudgetInv /\ EpochInv /\ LateInv /\ OrderInv
    BY DEF BudgetInv, EpochInv, LateInv, OrderInv, InPass
  <1>5. FileInv
    BY PrewarmAssumption DEF FileInv, Loaded, Emptied
  <1> QED  BY <1>3, <1>4, <1>5 DEF IInv

LEMMA StepKeeps == IInv /\ [Next]_vars => IInv'
  <1> SUFFICES ASSUME IInv, [Next]_vars PROVE IInv'
    OBVIOUS
  <1>1. CASE Thread
    BY <1>1, TopKeeps, NoNewEpochKeeps, BeginPassKeeps, EndSortKeeps, CheckFlagsKeeps,
       CheckEpochKeeps, IssueKeeps DEF Thread
  <1>2. CASE BeginRequest \/ Request \/ Epilogue \/ Stop
    BY <1>2, BeginRequestKeeps, DemandKeeps, ClaimKeeps, EndRequestKeeps, SaveKeeps, RearmKeeps,
       JoinKeeps, StopKeeps DEF Request, Epilogue
  <1>3. CASE LoadOk \/ LoadFail
    BY <1>3, LoadKeeps
  <1>4. CASE Crash \/ Boot
    BY <1>4, CrashKeeps, BootKeeps
  <1>5. CASE UNCHANGED vars
    BY <1>5 DEF vars, threadVars, sharedVars, ringVars, diskVars, passHistory, IInv, TypeOK,
       BudgetInv, EpochInv, LateInv, OrderInv, FileInv, InPass, SortedBy, Loaded
  <1> QED  BY <1>1, <1>2, <1>3, <1>4, <1>5 DEF Next

LEMMA Invariance == Spec => []IInv
  BY InitEstablishes, StepKeeps, PTL DEF Spec

\* Every variable keeps its type, a pass its bounds: it never reads past its
\* list, and its budget never falls below zero.
THEOREM TypeCorrect == Spec => []TypeOK
  <1>1. IInv => TypeOK
    BY DEF IInv
  <1> QED  BY <1>1, Invariance, PTL

\* However the two threads interleave, a pass that is told to yield issues one
\* more prefetch at most.
THEOREM YieldsAtOnce == Spec => []AtMostOneLate
  <1>1. IInv => AtMostOneLate
    BY DEF IInv, LateInv, AtMostOneLate
  <1> QED  BY <1>1, Invariance, PTL

\* What the armed pass prefetches while the engine is idle follows the counts as
\* they are: an order disturbed during its sort is not used then.
THEOREM OrderIsCurrent == Spec => []OrderCurrent
  <1>1. IInv => OrderCurrent
    BY DEF IInv, OrderInv, OrderCurrent, InPass
  <1> QED  BY <1>1, Invariance, PTL

\* A boot loads the last histogram that was saved completely, or none.
THEOREM HistogramWholeOrNone == Spec => HistorySurvives
  <1>1. IInv /\ [Next]_vars => [Boot => hits' = IF cut THEN NoHits ELSE counted]_vars
    BY DEF IInv, FileInv, Boot
  <1> QED  BY <1>1, Invariance, PTL DEF Spec, HistorySurvives

----------------------------------------------------------------------------
(* A pass that has the ring to itself *)

\* An expert has one slot, and only experts with a slot are loading.
Distinct(r) == \A i, j \in DOMAIN r : r[i] = r[j] => i = j
Elements(r) == {r[i] : i \in DOMAIN r}

RingInv == Distinct(ring) /\ Len(ring) <= RingSize /\ loading \subseteq Retained

\* The thread is gone before the process ends, and a pass begun during a
\* request's work does not have the ring to itself.
StopInv ==
    /\ shutdown => main \in {"join", "save", "exited"}
    /\ shutdown /\ main = "save" => pc = "exited"
    /\ main = "exited" => pc = "exited"
    /\ main = "down" => pc = "top"
    /\ quiet => main # "work"

\* What the pass has asked for.
Passed == IF InPass THEN {order[i] : i \in 1 .. pos - 1} ELSE {}

\* The experts of U are the most recent of the ring.
UpClosed(r, U) == \A i, j \in DOMAIN r : i < j /\ r[i] \in U => r[j] \in U

\* What such a pass keeps: what it has asked for is there or was given up, and
\* no more of it than the budget spent; what it did not ask for is older; the
\* recent experts lie between the two.
Kept ==
    /\ Passed \subseteq Retained \cup lost
    /\ recent \subseteq Retained
    /\ InPass => Cardinality(Retained \cap Passed) + budget <= Budget
    /\ Cardinality(loading \ Passed) <= Margin
    /\ Cardinality(recent) <= Margin
    /\ recent # {} => loading \subseteq Passed
    /\ recent \cap loading = {}
    /\ UpClosed(ring, Passed)
    /\ UpClosed(ring, Passed \cup recent)

PassInv ==
    /\ InPass => order \in Orders
    /\ quiet /\ (InPass \/ pc = "sort") => Kept

WarmInv == RingInv /\ StopInv /\ PassInv

\* Sets of experts are finite.
LEMMA ExpertsFinite ==
    ASSUME NEW S \in SUBSET Expert
    PROVE  /\ IsFiniteSet(S) /\ Cardinality(S) \in Nat
           /\ \A T \in SUBSET S : Cardinality(T) \in Nat /\ Cardinality(T) <= Cardinality(S)
  <1>1. IsFiniteSet(Expert)
    <2>1. 1 \in Int /\ Experts \in Int
      BY PrewarmAssumption
    <2> QED  BY <2>1, FS_Interval DEF Expert
  <1>2. IsFiniteSet(S)
    BY <1>1, FS_Subset
  <1>3. \A T \in SUBSET S : IsFiniteSet(T) /\ Cardinality(T) <= Cardinality(S)
    BY <1>2, FS_Subset
  <1> QED  BY <1>2, <1>3, FS_CardinalityType

\* The ring without one of its slots, entry by entry.
LEMMA WithoutEntries ==
    ASSUME TypeOK, NEW i \in DOMAIN ring, NEW r, r = Without(i)
    PROVE  /\ r \in Seq(Expert) /\ Len(r) = Len(ring) - 1
           /\ \A k \in 1 .. Len(r) : r[k] = ring[IF k < i THEN k ELSE k + 1]
  <1>1. /\ ring \in Seq(Expert) /\ i \in 1 .. Len(ring) /\ Len(ring) \in Nat
        /\ \A k \in 1 .. Len(ring) : ring[k] \in Expert
    BY LenProperties, ElementOfSeq DEF TypeOK
  <1>2. PICK p : p = SubSeq(ring, 1, i - 1)
    OBVIOUS
  <1>3. PICK q : q = SubSeq(ring, i + 1, Len(ring))
    OBVIOUS
  <1>4. /\ p \in Seq(Expert) /\ Len(p) = i - 1
        /\ \A k \in 1 .. i - 1 : p[k] = ring[k]
    <2>1. /\ 1 \in Int /\ i - 1 \in Int
          /\ \A k \in 1 .. i - 1 : ring[k] \in Expert
      BY <1>1, SMT
    <2>2. /\ p \in Seq(Expert) /\ Len(p) = IF 1 <= i - 1 THEN i - 1 - 1 + 1 ELSE 0
          /\ \A k \in 1 .. i - 1 - 1 + 1 : p[k] = ring[1 + k - 1]
      BY <1>2, <2>1, SubSeqProperties
    <2> QED  BY <1>1, <2>2, SMT
  <1>5. /\ q \in Seq(Expert) /\ Len(q) = Len(ring) - i
        /\ \A k \in 1 .. Len(ring) - i : q[k] = ring[i + k]
    <2>1. /\ i + 1 \in Int /\ Len(ring) \in Int
          /\ \A k \in i + 1 .. Len(ring) : ring[k] \in Expert
      BY <1>1, SMT
    <2>2. /\ q \in Seq(Expert)
          /\ Len(q) = IF i + 1 <= Len(ring) THEN Len(ring) - (i + 1) + 1 ELSE 0
          /\ \A k \in 1 .. Len(ring) - (i + 1) + 1 : q[k] = ring[(i + 1) + k - 1]
      BY <1>3, <2>1, SubSeqProperties
    <2> QED  BY <1>1, <2>2, SMT
  <1>6. r = p \o q
    BY <1>2, <1>3 DEF Without
  <1>7. /\ r \in Seq(Expert) /\ Len(r) = Len(p) + Len(q)
        /\ \A k \in 1 .. Len(p) + Len(q) :
              r[k] = IF k <= Len(p) THEN p[k] ELSE q[k - Len(p)]
    BY <1>4, <1>5, <1>6, ConcatProperties
  <1>8. Len(r) = Len(ring) - 1
    BY <1>1, <1>4, <1>5, <1>7, SMT
  <1>9. ASSUME NEW k \in 1 .. Len(r)
        PROVE  r[k] = ring[IF k < i THEN k ELSE k + 1]
    <2>1. CASE k < i
      BY <1>1, <1>4, <1>5, <1>7, <1>8, <2>1, SMT
    <2>2. CASE ~(k < i)
      <3>1. PICK l : l = k - Len(p)
        OBVIOUS
      <3>2. l \in 1 .. Len(ring) - i /\ i + l = k + 1 /\ ~(k <= Len(p))
        BY <1>1, <1>4, <1>8, <2>2, <3>1, SMT
      <3>3. r[k] = q[l]
        BY <1>7, <3>1, <3>2
      <3>4. q[l] = ring[i + l]
        BY <1>5, <3>2
      <3> QED  BY <2>2, <3>2, <3>3, <3>4
    <2> QED  BY <2>1, <2>2
  <1> QED  BY <1>7, <1>8, <1>9

\* A slot is given back: the others keep their order.
LEMMA DropSlot ==
    ASSUME TypeOK, Distinct(ring), NEW i \in DOMAIN ring, NEW r, r = Without(i)
    PROVE  /\ r \in Seq(Expert) /\ Len(r) = Len(ring) - 1
           /\ Distinct(r) /\ Elements(r) = Retained \ {ring[i]}
           /\ \A U : UpClosed(ring, U) => UpClosed(r, U)
  <1>1. /\ ring \in Seq(Expert) /\ i \in 1 .. Len(ring) /\ Len(ring) \in Nat
        /\ DOMAIN ring = 1 .. Len(ring)
    BY LenProperties DEF TypeOK
  <1>2. /\ r \in Seq(Expert) /\ Len(r) = Len(ring) - 1 /\ DOMAIN r = 1 .. Len(r)
        /\ \A k \in 1 .. Len(r) : r[k] = ring[IF k < i THEN k ELSE k + 1]
    BY WithoutEntries, LenProperties
  <1> DEFINE old(k) == IF k < i THEN k ELSE k + 1
  <1>3. \A k \in DOMAIN r : old(k) \in DOMAIN ring /\ old(k) # i /\ r[k] = ring[old(k)]
    BY <1>1, <1>2, SMT
  <1>4. \A k, l \in DOMAIN r : (k < l => old(k) < old(l)) /\ (old(k) = old(l) => k = l)
    BY <1>1, <1>2, SMT
  <1>5. \A k \in DOMAIN ring : k # i => \E l \in DOMAIN r : old(l) = k
    <2> SUFFICES ASSUME NEW k \in DOMAIN ring, k # i
                 PROVE  \E l \in DOMAIN r : old(l) = k
      OBVIOUS
    <2>1. CASE k < i
      <3>1. k \in DOMAIN r /\ old(k) = k
        BY <1>1, <1>2, <2>1, SMT
      <3> QED  BY <3>1
    <2>2. CASE ~(k < i)
      <3>1. k - 1 \in DOMAIN r /\ old(k - 1) = k
        BY <1>1, <1>2, <2>2, SMT
      <3> QED  BY <3>1
    <2> QED  BY <2>1, <2>2
  <1> HIDE DEF old
  <1>6. Distinct(r)
    BY <1>3, <1>4 DEF Distinct
  <1>7. Elements(r) = Retained \ {ring[i]}
    <2>1. ASSUME NEW x \in Elements(r)
          PROVE  x \in Retained \ {ring[i]}
      <3>1. PICK k \in DOMAIN r : x = r[k]
        BY <2>1 DEF Elements
      <3> QED  BY <1>3, <3>1 DEF Retained, Distinct
    <2>2. ASSUME NEW x \in Retained, x # ring[i]
          PROVE  x \in Elements(r)
      <3>1. PICK k \in DOMAIN ring : x = ring[k]
        BY <2>2 DEF Retained
      <3>2. PICK l \in DOMAIN r : old(l) = k
        BY <1>5, <2>2, <3>1
      <3> QED  BY <1>3, <3>1, <3>2 DEF Elements
    <2> QED  BY <2>1, <2>2
  <1>8. ASSUME NEW U, UpClosed(ring, U)
        PROVE  UpClosed(r, U)
    BY <1>3, <1>4, <1>8 DEF UpClosed
  <1> QED  BY <1>2, <1>6, <1>7, <1>8

\* A slot is filled: its expert is the most recent.
LEMMA AddSlot ==
    ASSUME NEW r \in Seq(Expert), NEW e \in Expert, Distinct(r), e \notin Elements(r),
           NEW q, q = Append(r, e)
    PROVE  /\ q \in Seq(Expert) /\ Len(q) = Len(r) + 1
           /\ Distinct(q) /\ Elements(q) = Elements(r) \cup {e}
           /\ \A U : UpClosed(r, U) => UpClosed(q, U \cup {e})
  <1>1. /\ q \in Seq(Expert) /\ Len(q) = Len(r) + 1
        /\ \A k \in 1 .. Len(r) : q[k] = r[k]
        /\ q[Len(r) + 1] = e
    BY AppendProperties
  <1>2. Len(r) \in Nat /\ DOMAIN r = 1 .. Len(r) /\ DOMAIN q = 1 .. Len(q)
    BY <1>1, LenProperties
  <1> DEFINE n == Len(r) + 1
  <1>3. /\ n \in DOMAIN q /\ q[n] = e
        /\ \A k \in DOMAIN r : k \in DOMAIN q /\ q[k] = r[k]
        /\ \A k \in DOMAIN q : k = n \/ k \in DOMAIN r
        /\ \A k \in DOMAIN q : ~(n < k)
    BY <1>1, <1>2, SMT
  <1> HIDE DEF n
  <1>4. Elements(q) = Elements(r) \cup {e}
    <2>1. \A x : x \in Elements(q) <=> \E k \in DOMAIN q : x = q[k]
      BY DEF Elements
    <2>2. \A x : x \in Elements(r) <=> \E k \in DOMAIN r : x = r[k]
      BY DEF Elements
    <2> QED  BY <1>3, <2>1, <2>2
  <1>5. \A k \in DOMAIN r : r[k] # e
    BY DEF Elements
  <1>6. Distinct(q)
    BY <1>3, <1>5 DEF Distinct
  <1>7. ASSUME NEW U, UpClosed(r, U), NEW i \in DOMAIN q, NEW j \in DOMAIN q, i < j,
               q[i] \in U \cup {e}
        PROVE  q[j] \in U \cup {e}
    BY <1>3, <1>5, <1>7 DEF UpClosed
  <1>8. \A U : UpClosed(r, U) => UpClosed(q, U \cup {e})
    BY <1>7 DEF UpClosed
  <1> QED  BY <1>1, <1>4, <1>6, <1>8
\* The slot a prefetch takes when none is free: the oldest not loading.
Victims(V) ==
    \/ V = {}
    \/ Len(ring) = RingSize /\ \E i \in DOMAIN ring : IsOldest(i) /\ V = {ring[i]}

\* What a prefetch does to the ring: e becomes the most recent if it was taken,
\* and at most one expert, not loading, leaves.
LEMMA Prefetched ==
    ASSUME TypeOK, RingInv, NEW e \in Expert, NEW taken \in BOOLEAN, Prefetch(e, taken)
    PROVE  /\ RingInv'
           /\ \E V : /\ Victims(V)
                     /\ Retained' = (Retained \ V) \cup (IF taken THEN {e} ELSE {})
                     /\ ~taken => e \notin Retained
           /\ loading' = loading \/ (e \notin Retained /\ taken /\ loading' = loading \cup {e})
           /\ \A U : UpClosed(ring, U) => UpClosed(ring', U \cup {e})
  <1>1. /\ Distinct(ring) /\ Len(ring) <= RingSize /\ loading \subseteq Retained
        /\ ring \in Seq(Expert) /\ Len(ring) \in Nat /\ RingSize \in Nat
        /\ Retained = Elements(ring) /\ Retained' = Elements(ring')
    BY LenProperties, PrewarmAssumption DEF RingInv, TypeOK, Retained, Elements
  <1>2. \A U : e \notin Elements(ring') /\ UpClosed(ring', U) => UpClosed(ring', U \cup {e})
    BY DEF UpClosed, Elements
  <1>3. CASE taken /\ Touch(e)
    <2>1. PICK i \in DOMAIN ring : ring[i] = e /\ ring' = Append(Without(i), e)
      BY <1>3 DEF Touch
    <2>2. PICK r : r = Without(i)
      OBVIOUS
    <2>3. /\ r \in Seq(Expert) /\ Len(r) = Len(ring) - 1
          /\ Distinct(r) /\ Elements(r) = Retained \ {e}
          /\ \A U : UpClosed(ring, U) => UpClosed(r, U)
      BY <1>1, <2>1, <2>2, DropSlot
    <2>4. /\ Len(ring') = Len(r) + 1
          /\ Distinct(ring') /\ Elements(ring') = Elements(r) \cup {e}
          /\ \A U : UpClosed(r, U) => UpClosed(ring', U \cup {e})
      BY <2>1, <2>2, <2>3, AddSlot
    <2>5. e \in Retained /\ loading' = loading
      BY <1>3, <2>1 DEF Retained, Touch
    <2>6. Retained' = Retained
      BY <1>1, <2>3, <2>4, <2>5
    <2>7. Len(ring') <= RingSize
      BY <1>1, <2>3, <2>4, SMT
    <2>8. RingInv'
      BY <1>1, <2>4, <2>5, <2>6, <2>7 DEF RingInv
    <2>9. Victims({})
      BY DEF Victims
    <2> QED  BY <1>3, <2>3, <2>4, <2>5, <2>6, <2>8, <2>9
  <1>4. CASE e \notin Retained /\ taken /\ StartLoad(e)
    <2>1. loading' = loading \cup {e}
      BY <1>4 DEF StartLoad
    <2>2. CASE Len(ring) < RingSize /\ ring' = Append(ring, e)
      <3>1. /\ Len(ring') = Len(ring) + 1
            /\ Distinct(ring') /\ Elements(ring') = Retained \cup {e}
            /\ \A U : UpClosed(ring, U) => UpClosed(ring', U \cup {e})
        BY <1>1, <1>4, <2>2, AddSlot
      <3>2. Len(ring') <= RingSize
        BY <1>1, <2>2, <3>1, SMT
      <3>3. RingInv'
        BY <1>1, <2>1, <3>1, <3>2 DEF RingInv
      <3>4. Victims({})
        BY DEF Victims
      <3> QED  BY <1>1, <1>4, <2>1, <3>1, <3>3, <3>4
    <2>3. CASE /\ Len(ring) = RingSize
               /\ \E i \in DOMAIN ring : IsOldest(i) /\ ring' = Append(Without(i), e)
      <3>1. PICK i \in DOMAIN ring : IsOldest(i) /\ ring' = Append(Without(i), e)
        BY <2>3
      <3>2. PICK r : r = Without(i)
        OBVIOUS
      <3>3. /\ r \in Seq(Expert) /\ Len(r) = Len(ring) - 1
            /\ Distinct(r) /\ Elements(r) = Retained \ {ring[i]}
            /\ \A U : UpClosed(ring, U) => UpClosed(r, U)
        BY <1>1, <3>1, <3>2, DropSlot
      <3>4. /\ Len(ring') = Len(r) + 1
            /\ Distinct(ring') /\ Elements(ring') = Elements(r) \cup {e}
            /\ \A U : UpClosed(r, U) => UpClosed(ring', U \cup {e})
        BY <1>4, <3>1, <3>2, <3>3, AddSlot
      <3>5. Retained' = (Retained \ {ring[i]}) \cup {e}
        BY <1>1, <3>3, <3>4
      <3>6. ring[i] \notin loading
        BY <3>1 DEF IsOldest, Evictable
      <3>7. Len(ring') <= RingSize
        BY <1>1, <3>3, <3>4, SMT
      <3>8. RingInv'
        BY <1>1, <2>1, <3>4, <3>5, <3>6, <3>7 DEF RingInv
      <3>9. Victims({ring[i]})
        BY <2>3, <3>1 DEF Victims
      <3> QED  BY <1>4, <2>1, <3>3, <3>4, <3>5, <3>8, <3>9
    <2> QED  BY <1>4, <2>2, <2>3 DEF StartLoad
  <1>5. CASE e \notin Retained /\ ~taken /\ Refuse
    <2>1. loading' = loading
      BY <1>5 DEF Refuse, ringVars
    <2>2. CASE ring' = ring
      <3>1. Retained' = Retained /\ RingInv'
        BY <1>1, <2>1, <2>2 DEF RingInv
      <3>2. Victims({})
        BY DEF Victims
      <3>3. \A U : UpClosed(ring, U) => UpClosed(ring', U \cup {e})
        BY <1>1, <1>2, <1>5, <2>2
      <3> QED  BY <1>5, <2>1, <3>1, <3>2, <3>3
    <2>3. CASE /\ Len(ring) = RingSize
               /\ \E i \in DOMAIN ring : IsOldest(i) /\ ring' = Without(i)
      <3>1. PICK i \in DOMAIN ring : IsOldest(i) /\ ring' = Without(i)
        BY <2>3
      <3>2. /\ Len(ring') = Len(ring) - 1
            /\ Distinct(ring') /\ Elements(ring') = Retained \ {ring[i]}
            /\ \A U : UpClosed(ring, U) => UpClosed(ring', U)
        BY <1>1, <3>1, DropSlot
      <3>3. ring[i] \notin loading
        BY <3>1 DEF IsOldest, Evictable
      <3>4. Len(ring') <= RingSize
        BY <1>1, <3>2, SMT
      <3>5. RingInv'
        BY <1>1, <2>1, <3>2, <3>3, <3>4 DEF RingInv
      <3>6. Victims({ring[i]})
        BY <2>3, <3>1 DEF Victims
      <3>7. \A U : UpClosed(ring, U) => UpClosed(ring', U \cup {e})
        BY <1>2, <1>5, <3>2
      <3> QED  BY <1>1, <1>5, <2>1, <3>2, <3>5, <3>6, <3>7
    <2> QED  BY <1>5, <2>2, <2>3 DEF Refuse, ringVars
  <1> QED  BY <1>3, <1>4, <1>5 DEF Prefetch

\* A full ring has as many experts as slots.
LEMMA FullRing ==
    ASSUME TypeOK, RingInv
    PROVE  Cardinality(Retained) = Len(ring)
  <1>1. /\ Len(ring) \in Nat /\ DOMAIN ring = 1 .. Len(ring)
        /\ Distinct(ring)
    BY LenProperties DEF TypeOK, RingInv
  <1>2. IsFiniteSet(DOMAIN ring) /\ Cardinality(DOMAIN ring) = Len(ring)
    <2>1. 1 \in Int /\ Len(ring) \in Int
      BY <1>1
    <2>2. /\ IsFiniteSet(1 .. Len(ring))
          /\ Cardinality(1 .. Len(ring)) = IF 1 > Len(ring) THEN 0 ELSE Len(ring) - 1 + 1
      BY <2>1, FS_Interval
    <2>3. Cardinality(1 .. Len(ring)) = Len(ring)
      BY <1>1, <2>2, SMT
    <2> QED  BY <1>1, <2>2, <2>3
  <1>3. ExistsBijection(DOMAIN ring, Retained)
    <2>1. PICK f : f = [i \in DOMAIN ring |-> ring[i]]
      OBVIOUS
    <2>2. /\ f \in [DOMAIN ring -> Retained]
          /\ \A i, j \in DOMAIN ring : f[i] = f[j] => i = j
          /\ \A x \in Retained : \E i \in DOMAIN ring : f[i] = x
      BY <1>1, <2>1 DEF Retained, Distinct
    <2>3. f \in Bijection(DOMAIN ring, Retained)
      BY <2>2 DEF Bijection, Injection, Surjection, IsInjective
    <2> QED  BY <2>3 DEF ExistsBijection
  <1> QED  BY <1>2, <1>3, FS_Bijection

\* The oldest slot of a full ring is neither the pass's nor recent, while the
\* pass has budget left.
LEMMA VictimSpared ==
    ASSUME TypeOK, BudgetInv, RingInv, InPass, Kept, Len(ring) = RingSize,
           NEW i \in DOMAIN ring, IsOldest(i)
    PROVE  ring[i] \notin Passed /\ ring[i] \notin recent
  <1>1. /\ Retained \in SUBSET Expert /\ loading \in SUBSET Expert /\ recent \in SUBSET Expert
        /\ loading \subseteq Retained
    <2>1. \A j \in DOMAIN ring : ring[j] \in Expert
      BY ElementOfSeq, LenProperties DEF TypeOK
    <2> QED  BY <2>1 DEF Retained, TypeOK, RingInv
  <1>2. Cardinality(Retained) = RingSize
    BY FullRing
  <1>3. Cardinality(Retained \cap Passed) < Budget
    <2>1. Cardinality(Retained \cap Passed) \in Nat
      BY <1>1, ExpertsFinite
    <2>2. budget \in Nat /\ budget > 0 /\ Budget \in Nat
      <3>1. Margin \in Nat
        BY PrewarmAssumption, SMT DEF Margin
      <3> QED  BY <3>1, PrewarmAssumption, SMT DEF Budget, BudgetInv, TypeOK
    <2>3. Cardinality(Retained \cap Passed) + budget <= Budget
      BY DEF Kept
    <2> QED  BY <2>1, <2>2, <2>3, SMT
  <1> DEFINE Rest == Retained \ Passed
  <1>4. Cardinality(Rest) > Margin
    <2>1. Cardinality(Rest) = Cardinality(Retained) - Cardinality(Retained \cap Passed)
      BY <1>1, ExpertsFinite, FS_Difference
    <2>2. Cardinality(Retained \cap Passed) \in Nat
      BY <1>1, ExpertsFinite
    <2>3. Margin \in Nat
      BY PrewarmAssumption, SMT DEF Margin
    <2> QED  BY <1>2, <1>3, <2>1, <2>2, <2>3, PrewarmAssumption, SMT DEF Budget
  <1>5. \A S \in SUBSET Expert : Cardinality(S) <= Margin => \E x \in Rest : x \notin S
    <2> SUFFICES ASSUME NEW S \in SUBSET Expert, Cardinality(S) <= Margin, Rest \subseteq S
                 PROVE  FALSE
      OBVIOUS
    <2>1. Cardinality(S) \in Nat /\ Cardinality(Rest) \in Nat /\ Cardinality(Rest) <= Cardinality(S)
      BY ExpertsFinite
    <2>2. Margin \in Nat
      BY PrewarmAssumption, SMT DEF Margin
    <2> HIDE DEF Rest
    <2> QED  BY <1>4, <2>1, <2>2, SMT
  <1>6. PICK x \in Rest : x \notin loading \ Passed
    BY <1>1, <1>5 DEF Kept
  <1>7. PICK j \in DOMAIN ring : ring[j] = x /\ i <= j
    BY <1>6 DEF Retained, IsOldest, Evictable
  <1>8. /\ i \in Nat /\ \A k \in DOMAIN ring : k \in Nat /\ (i <= k => i < k \/ i = k)
    <2>1. DOMAIN ring = 1 .. Len(ring) /\ Len(ring) \in Nat
      BY LenProperties DEF TypeOK
    <2> QED  BY <2>1, SMT
  <1>9. ring[i] \notin Passed
    BY <1>6, <1>7, <1>8 DEF Kept, UpClosed
  <1>10. ASSUME ring[i] \in recent PROVE FALSE
    <2>1. PICK y \in Rest : y \notin recent
      BY <1>1, <1>5 DEF Kept
    <2>2. y \notin loading
      BY <1>10, <2>1 DEF Kept
    <2>3. PICK k \in DOMAIN ring : ring[k] = y /\ i <= k
      BY <2>1, <2>2 DEF Retained, IsOldest, Evictable
    <2>4. i < k
      BY <1>8, <1>10, <2>1, <2>3
    <2> QED  BY <1>10, <2>1, <2>3, <2>4 DEF Kept, UpClosed
  <1> QED  BY <1>9, <1>10
\* Steps that leave the pass and the ring alone.
LEMMA SamePass ==
    ASSUME RingInv, PassInv, UNCHANGED <<pc, order, pos, budget, ring, loading, quiet, lost, recent>>
    PROVE  RingInv' /\ PassInv'
  <1>1. Retained' = Retained /\ InPass' = InPass
    BY DEF Retained, InPass
  <1>2. Passed' = Passed
    BY <1>1 DEF Passed
  <1>3. RingInv'
    BY <1>1 DEF RingInv, Distinct
  <1>4. Kept => Kept'
    BY <1>1, <1>2 DEF Kept, UpClosed, Budget, Margin
  <1> QED  BY <1>1, <1>3, <1>4 DEF PassInv

\* A pass that has not the ring to itself, or is over.
LEMMA NoPass ==
    ASSUME PassInv, UNCHANGED <<pc, order>> \/ pc' \notin {"flags", "epoch", "prefetch"},
           ~quiet' \/ pc' \notin {"flags", "epoch", "prefetch", "sort"}
    PROVE  PassInv'
  BY DEF PassInv, InPass

\* The headroom and the budget, where a pass has any, make up the ring.
LEMMA MarginNat == Margin \in Nat /\ Budget \in Nat
  <1>1. Margin \in Nat
    BY PrewarmAssumption, SMT DEF Margin
  <1> QED  BY <1>1, PrewarmAssumption, SMT DEF Budget

\* A pass begins: nothing passed, and the newest experts are recent.
LEMMA BeginPassWarm ==
    ASSUME TypeOK, RingInv, BeginPass
    PROVE  RingInv' /\ PassInv'
  <1> USE DEF BeginPass, Goto, ringVars
  <1>1. RingInv' /\ Retained' = Retained /\ ~InPass' /\ pc' = "sort"
    BY DEF RingInv, Distinct, Retained, InPass
  <1>2. Passed' = {}
    BY <1>1 DEF Passed
  <1>3. ring \in Seq(Expert) /\ Len(ring) \in Nat /\ DOMAIN ring = 1 .. Len(ring)
    BY LenProperties DEF TypeOK
  <1> DEFINE last == {j \in DOMAIN ring : j + Margin > Len(ring)}
  <1>4. recent' = (IF loading = {} THEN {ring[i] : i \in last} ELSE {})
    OBVIOUS
  <1>5. Cardinality(recent') <= Margin
    <2>1. CASE loading # {}
      BY <1>4, <2>1, FS_EmptySet, MarginNat, SMT
    <2>2. CASE loading = {}
      <3>1. PICK a \in Int : /\ last \subseteq a .. Len(ring)
                             /\ (IF a > Len(ring) THEN 0 ELSE Len(ring) - a + 1) <= Margin
        <4>1. CASE Len(ring) < Margin
          <5>1. 1 \in Int /\ last \subseteq 1 .. Len(ring)
                /\ (IF 1 > Len(ring) THEN 0 ELSE Len(ring) - 1 + 1) <= Margin
            BY <1>3, <4>1, MarginNat, SMT
          <5> QED  BY <5>1
        <4>2. CASE ~(Len(ring) < Margin)
          <5>1. /\ Len(ring) - Margin + 1 \in Int
                /\ last \subseteq Len(ring) - Margin + 1 .. Len(ring)
                /\ (IF Len(ring) - Margin + 1 > Len(ring) THEN 0
                    ELSE Len(ring) - (Len(ring) - Margin + 1) + 1) <= Margin
            BY <1>3, <4>2, MarginNat, SMT
          <5> QED  BY <5>1
        <4> QED  BY <4>1, <4>2
      <3> HIDE DEF last
      <3>2. IsFiniteSet(a .. Len(ring)) /\ Cardinality(a .. Len(ring)) <= Margin
        BY <1>3, <3>1, FS_Interval
      <3>3. /\ IsFiniteSet(last) /\ Cardinality(last) <= Cardinality(a .. Len(ring))
        BY <3>1, <3>2, FS_Subset
      <3>4. PICK f : f = [i \in last |-> ring[i]]
        OBVIOUS
      <3>5. f \in Surjection(last, recent')
        BY <1>4, <2>2, <3>4 DEF Surjection
      <3>6. Cardinality(recent') <= Cardinality(last) /\ IsFiniteSet(recent')
        BY <3>3, <3>5, FS_Surjection
      <3>7. /\ Cardinality(recent') \in Nat /\ Cardinality(last) \in Nat
            /\ Cardinality(a .. Len(ring)) \in Nat
        BY <3>2, <3>3, <3>6, FS_CardinalityType
      <3> QED  BY <3>2, <3>3, <3>6, <3>7, MarginNat, SMT
    <2> QED  BY <2>1, <2>2
  <1>6. recent' \subseteq Retained
    BY <1>4 DEF Retained
  <1>7. UpClosed(ring, recent')
    <2> SUFFICES ASSUME NEW i \in DOMAIN ring, NEW j \in DOMAIN ring, i < j, ring[i] \in recent'
                 PROVE  ring[j] \in recent'
      BY DEF UpClosed
    <2>1. loading = {}
      BY <1>4
    <2>2. PICK k \in last : ring[k] = ring[i]
      BY <1>4, <2>1
    <2>3. k = i
      BY <2>2 DEF RingInv, Distinct
    <2>4. j \in last
      BY <1>3, <2>2, <2>3, MarginNat, SMT
    <2> QED  BY <1>4, <2>1, <2>4
  <1>8. quiet' => Kept'
    <2> SUFFICES ASSUME quiet' PROVE Kept'
      OBVIOUS
    <2>1. loading' = loading /\ ring' = ring /\ lost' = {}
      OBVIOUS
    <2>2. Cardinality(loading) <= Margin
      OBVIOUS
    <2>3. recent' # {} => loading = {}
      BY <1>4
    <2>4. UpClosed(ring, {}) /\ Margin' = Margin
      BY DEF UpClosed, Margin
    <2>5. PICK R : R = recent'
      OBVIOUS
    <2>6. /\ {} \subseteq Retained /\ R \subseteq Retained
          /\ Cardinality(loading \ {}) <= Margin /\ Cardinality(R) <= Margin
          /\ R # {} => loading \subseteq {}
          /\ R \cap loading = {}
          /\ UpClosed(ring, {}) /\ UpClosed(ring, {} \cup R)
      <3>1. loading \ {} = loading /\ {} \cup R = R
        OBVIOUS
      <3> QED  BY <1>5, <1>6, <1>7, <2>2, <2>3, <2>4, <2>5, <3>1
    <2>7. UpClosed(ring, {})' /\ UpClosed(ring, {} \cup recent)'
      BY <2>1, <2>5, <2>6 DEF UpClosed
    <2>8. UpClosed(ring, Passed)' /\ UpClosed(ring, Passed \cup recent)'
      BY <1>2, <2>7 DEF UpClosed
    <2> QED  BY <1>1, <1>2, <2>1, <2>4, <2>5, <2>6, <2>8 DEF Kept
  <1> QED  BY <1>1, <1>8 DEF PassInv

\* The list is sorted: the whole budget is left.
LEMMA EndSortWarm ==
    ASSUME TypeOK, RingInv, PassInv, EndSort
    PROVE  RingInv' /\ PassInv'
  <1>1. PICK o \in Orders : NextEntry(o, 1, Budget, lost)
    BY DEF EndSort
  <1>2. pc = "sort" /\ ring' = ring /\ loading' = loading
    BY DEF EndSort, ringVars
  <1>3. RingInv' /\ Retained' = Retained
    BY <1>2 DEF RingInv, Distinct, Retained
  <1>4. CASE Goto("flags") /\ order' = o /\ pos' = 1 /\ budget' = Budget /\ UNCHANGED <<quiet, recent>>
             /\ lost' = IF quiet THEN lost ELSE {}
    <2>1. InPass' /\ pc' = "flags"
      BY <1>4 DEF InPass, Goto
    <2>2. order' \in Orders'
      BY <1>1, <1>4 DEF Orders
    <2>3. Passed = {} /\ Passed' = {}
      <3>1. 1 .. pos' - 1 = {}
        BY <1>4, SMT
      <3> QED  BY <1>2, <2>1, <3>1 DEF Passed, InPass
    <2>4. Kept /\ quiet => Kept'
      <3> SUFFICES ASSUME Kept, quiet PROVE Kept'
        OBVIOUS
      <3>1. Retained' \cap Passed' = {} /\ Cardinality(Retained' \cap Passed') = 0
        BY <2>3, FS_EmptySet
      <3>2. Cardinality(Retained' \cap Passed') + budget' <= Budget'
        <4>1. Budget' = Budget
          BY DEF Budget, Margin
        <4> QED  BY <1>4, <3>1, <4>1, MarginNat, SMT
      <3>3. UpClosed(ring, Passed)' /\ UpClosed(ring, Passed \cup recent)'
        BY <1>2, <1>4, <2>3 DEF Kept, UpClosed
      <3>4. Margin' = Margin /\ lost' = lost
        BY <1>4 DEF Margin
      <3> QED  BY <1>2, <1>3, <1>4, <2>3, <3>2, <3>3, <3>4 DEF Kept
    <2> QED  BY <1>2, <1>3, <1>4, <2>1, <2>2, <2>4 DEF PassInv
  <1>5. CASE LeavePass
    BY <1>3, <1>5, NoPass DEF LeavePass, Goto
  <1> QED  BY <1>1, <1>4, <1>5 DEF NextEntry

\* The checks go on with the pass or leave it.
LEMMA CheckWarm ==
    ASSUME RingInv, PassInv, CheckFlags \/ CheckEpoch
    PROVE  RingInv' /\ PassInv'
  <1>1. /\ ring' = ring /\ loading' = loading /\ InPass
        /\ \/ BreakOff \/ GoOn("exited") \/ GoOn("epoch") \/ GoOn("prefetch")
    BY DEF CheckFlags, CheckEpoch, ringVars, InPass
  <1>2. RingInv' /\ Retained' = Retained
    BY <1>1 DEF RingInv, Distinct, Retained
  <1>3. CASE BreakOff
    BY <1>2, <1>3, NoPass DEF BreakOff, LeavePass, Goto
  <1>4. CASE GoOn("exited")
    BY <1>2, <1>4, NoPass DEF GoOn, Goto
  <1>5. CASE GoOn("epoch") \/ GoOn("prefetch")
    <2>1. InPass' /\ UNCHANGED <<order, pos, budget, quiet, lost, recent>>
      BY <1>5 DEF InPass, GoOn, Goto, passHistory
    <2>2. Passed' = Passed
      BY <1>1, <2>1 DEF Passed
    <2>3. Kept => Kept'
      BY <1>1, <1>2, <2>1, <2>2 DEF Kept, UpClosed, Budget, Margin
    <2> QED  BY <1>1, <1>2, <2>1, <2>3 DEF PassInv, Orders
  <1> QED  BY <1>1, <1>3, <1>4, <1>5
\* A prefetch of the pass evicts none of its experts and none of the recent.
LEMMA IssueSpares ==
    ASSUME TypeOK, BudgetInv, RingInv, Kept, pc = "prefetch", NEW V, Victims(V)
    PROVE  V \cap Passed = {} /\ V \cap recent = {}
  <1>1. InPass
    BY DEF InPass
  <1> QED  BY <1>1, VictimSpared DEF Victims

LEMMA IssueWarm ==
    ASSUME TypeOK, BudgetInv, RingInv, PassInv, Issue
    PROVE  /\ RingInv' /\ PassInv'
           /\ quiet => /\ \A i \in 1 .. pos - 1 : order[i] \in Retained' \cup lost
                       /\ recent \subseteq Retained'
  <1>0. pc = "prefetch" /\ InPass
    BY DEF Issue, InPass
  <1> DEFINE e == order[pos]
  <1>1. PICK taken \in BOOLEAN :
          /\ Prefetch(e, taken)
          /\ NextEntry(order, pos + 1, Spend(taken), IF taken THEN lost \ {e} ELSE lost \cup {e})
    BY DEF Issue
  <1>2. e \in Expert /\ pos \in 1 .. Experts /\ Experts \in Nat
    BY PrewarmAssumption DEF TypeOK, Expert
  <1>3. order \in Orders /\ e \notin Passed
    <2>1. order \in Orders
      BY <1>0 DEF PassInv
    <2>2. \A i \in 1 .. pos - 1 : i \in Expert /\ i # pos
      BY <1>2, SMT DEF Expert
    <2>3. \A i \in 1 .. pos - 1 : order[i] # order[pos]
      BY <1>2, <2>1, <2>2 DEF Orders, Expert
    <2> QED  BY <1>0, <2>1, <2>3 DEF Passed
  <1> HIDE DEF e
  <1>4. RingInv'
    BY <1>1, <1>2, Prefetched
  <1>5. PICK V : /\ Victims(V)
                 /\ Retained' = (Retained \ V) \cup (IF taken THEN {e} ELSE {})
                 /\ ~taken => e \notin Retained
    BY <1>1, <1>2, Prefetched
  <1>6. /\ loading' = loading \/ (e \notin Retained /\ taken /\ loading' = loading \cup {e})
        /\ \A U : UpClosed(ring, U) => UpClosed(ring', U \cup {e})
    BY <1>1, <1>2, Prefetched
  <1>7. quiet => Kept
    BY <1>0 DEF PassInv
  <1>8. quiet => V \cap Passed = {} /\ V \cap recent = {}
    BY <1>0, <1>5, <1>7, IssueSpares
  <1>9. quiet => /\ \A i \in 1 .. pos - 1 : order[i] \in Retained' \cup lost
                 /\ recent \subseteq Retained'
    <2> SUFFICES ASSUME quiet
                 PROVE  /\ \A i \in 1 .. pos - 1 : order[i] \in Retained' \cup lost
                        /\ recent \subseteq Retained'
      OBVIOUS
    <2>1. \A i \in 1 .. pos - 1 : order[i] \in Passed
      BY <1>0 DEF Passed
    <2> QED  BY <1>5, <1>7, <1>8, <2>1 DEF Kept
  <1>10. CASE /\ Goto("flags")
              /\ order' = order /\ pos' = pos + 1 /\ budget' = Spend(taken)
              /\ lost' = IF quiet THEN IF taken THEN lost \ {e} ELSE lost \cup {e} ELSE {}
              /\ UNCHANGED <<quiet, recent>>
    <2>1. InPass'
      BY <1>10 DEF InPass, Goto
    <2>2. Passed' = Passed \cup {e}
      <3>1. \A i : i \in 1 .. pos' - 1 <=> i \in 1 .. pos - 1 \/ i = pos
        BY <1>2, <1>10, SMT
      <3> QED  BY <1>0, <1>10, <2>1, <3>1 DEF Passed, e
    <2>3. ASSUME quiet PROVE Kept'
      <3>0. Kept /\ V \cap Passed = {} /\ V \cap recent = {} /\ Margin' = Margin /\ Budget' = Budget
        BY <1>7, <1>8, <2>3 DEF Margin, Budget
      <3>1. Passed' \subseteq Retained' \cup lost'
        BY <1>5, <1>10, <2>2, <2>3, <3>0 DEF Kept
      <3>2. recent' \subseteq Retained'
        BY <1>9, <1>10, <2>3
      <3>3. Cardinality(Retained' \cap Passed') + budget' <= Budget'
        <4>1. PICK A : A = Retained \cap Passed
          OBVIOUS
        <4>2. PICK B : B = Retained' \cap Passed'
          OBVIOUS
        <4>3. A \in SUBSET Expert /\ IsFiniteSet(A) /\ Cardinality(A) \in Nat
          <5>1. \A j \in DOMAIN ring : ring[j] \in Expert
            BY ElementOfSeq, LenProperties DEF TypeOK
          <5>2. A \in SUBSET Expert
            BY <4>1, <5>1 DEF Retained
          <5> QED  BY <5>2, ExpertsFinite
        <4>4. Cardinality(A) + budget <= Budget /\ budget \in Nat /\ budget > 0
          <5>1. budget \in Nat
            BY PrewarmAssumption, SMT DEF TypeOK
          <5> QED  BY <1>0, <3>0, <4>1, <5>1 DEF Kept, BudgetInv
        <4>5. CASE taken
          <5>1. B \subseteq A \cup {e}
            BY <1>5, <2>2, <4>1, <4>2
          <5>2. A \cup {e} \in SUBSET Expert /\ Cardinality(A \cup {e}) <= Cardinality(A) + 1
                /\ Cardinality(A \cup {e}) \in Nat
            BY <1>2, <4>3, FS_AddElement, ExpertsFinite, SMT
          <5>3. Cardinality(B) \in Nat /\ Cardinality(B) <= Cardinality(A \cup {e})
            BY <5>1, <5>2, ExpertsFinite
          <5>4. budget' = budget - 1
            BY <1>10, <4>5 DEF Spend
          <5>5. Cardinality(B) + budget' <= Budget
            BY <4>3, <4>4, <5>2, <5>3, <5>4, MarginNat, SMT
          <5> QED  BY <3>0, <4>2, <5>5
        <4>6. CASE ~taken
          <5>1. B \subseteq A
            BY <1>5, <2>2, <4>1, <4>2, <4>6
          <5>2. Cardinality(B) \in Nat /\ Cardinality(B) <= Cardinality(A)
            BY <4>3, <5>1, ExpertsFinite
          <5>3. budget' = budget
            BY <1>10, <4>6 DEF Spend
          <5>4. Cardinality(B) + budget' <= Budget
            BY <4>3, <4>4, <5>2, <5>3, MarginNat, SMT
          <5> QED  BY <3>0, <4>2, <5>4
        <4> QED  BY <4>5, <4>6
      <3>4. Cardinality(loading' \ Passed') <= Margin'
        <4>1. loading' \ Passed' \subseteq loading \ Passed
          BY <1>6, <2>2
        <4>2. loading \ Passed \in SUBSET Expert
          BY DEF TypeOK
        <4>3. PICK A : A = loading \ Passed
          OBVIOUS
        <4>4. PICK B : B = loading' \ Passed'
          OBVIOUS
        <4>5. /\ Cardinality(B) \in Nat /\ Cardinality(A) \in Nat
              /\ Cardinality(B) <= Cardinality(A) /\ Cardinality(A) <= Margin
          BY <3>0, <4>1, <4>2, <4>3, <4>4, ExpertsFinite DEF Kept
        <4>6. Cardinality(B) <= Margin
          BY <4>5, MarginNat, SMT
        <4> QED  BY <3>0, <4>4, <4>6
      <3>5. Cardinality(recent') <= Margin' /\ (recent' # {} => loading' \subseteq Passed')
        BY <1>6, <1>10, <2>2, <3>0 DEF Kept
      <3>6. recent' \cap loading' = {}
        BY <1>6, <1>10, <3>0 DEF Kept
      <3>7. UpClosed(ring', Passed \cup {e}) /\ UpClosed(ring', (Passed \cup recent) \cup {e})
        BY <1>6, <3>0 DEF Kept
      <3>8. UpClosed(ring, Passed)' /\ UpClosed(ring, Passed \cup recent)'
        BY <1>10, <2>2, <3>7 DEF UpClosed
      <3> QED  BY <3>1, <3>2, <3>3, <3>4, <3>5, <3>6, <3>8 DEF Kept
    <2> QED  BY <1>3, <1>4, <1>9, <1>10, <2>3 DEF PassInv, Orders
  <1>11. CASE LeavePass
    BY <1>4, <1>9, <1>11, NoPass DEF LeavePass, Goto
  <1> QED  BY <1>1, <1>10, <1>11 DEF NextEntry

\* A load that fails gives up its expert, one that was not among the recent.
LEMMA LoadFailWarm ==
    ASSUME TypeOK, RingInv, PassInv, LoadFail
    PROVE  /\ RingInv' /\ PassInv'
           /\ quiet /\ InPass => /\ \A i \in 1 .. pos - 1 : order[i] \in Retained' \cup lost'
                                 /\ recent \subseteq Retained'
  <1>1. PICK i \in DOMAIN ring :
          /\ ring[i] \in loading
          /\ loading' = loading \ {ring[i]}
          /\ ring' = Without(i)
          /\ lost' = IF quiet THEN lost \cup {ring[i]} ELSE lost
    BY DEF LoadFail
  <1>2. UNCHANGED <<pc, order, pos, budget, quiet, recent>>
    BY DEF LoadFail, threadVars
  <1>3. /\ Len(ring') = Len(ring) - 1
        /\ Distinct(ring') /\ Elements(ring') = Retained \ {ring[i]}
        /\ \A U : UpClosed(ring, U) => UpClosed(ring', U)
    BY <1>1, DropSlot DEF RingInv
  <1>4. Retained' = Retained \ {ring[i]}
    BY <1>3 DEF Retained, Elements
  <1>5. RingInv'
    <2>1. Len(ring) \in Nat /\ RingSize \in Nat
      BY LenProperties, PrewarmAssumption DEF TypeOK
    <2>2. Len(ring') <= RingSize
      BY <1>3, <2>1, SMT DEF RingInv
    <2> QED  BY <1>1, <1>3, <1>4, <2>2 DEF RingInv
  <1>6. InPass' = InPass
    BY <1>2 DEF InPass
  <1>7. Passed' = Passed
    BY <1>2, <1>6 DEF Passed
  <1>8. ASSUME quiet, Kept PROVE Kept'
    <2>0. Margin' = Margin /\ Budget' = Budget
      BY DEF Margin, Budget
    <2>1. Passed' \subseteq Retained' \cup lost' /\ recent' \subseteq Retained'
      BY <1>1, <1>2, <1>4, <1>7, <1>8 DEF Kept
    <2>2. InPass' => Cardinality(Retained' \cap Passed') + budget' <= Budget'
      <3> SUFFICES ASSUME InPass PROVE Cardinality(Retained' \cap Passed') + budget' <= Budget'
        BY <1>6
      <3>1. PICK A : A = Retained \cap Passed
        OBVIOUS
      <3>2. PICK B : B = Retained' \cap Passed'
        OBVIOUS
      <3>3. A \in SUBSET Expert /\ B \in SUBSET A
        <4>1. \A j \in DOMAIN ring : ring[j] \in Expert
          BY ElementOfSeq, LenProperties DEF TypeOK
        <4> QED  BY <1>4, <1>7, <3>1, <3>2, <4>1 DEF Retained
      <3>4. /\ Cardinality(A) \in Nat /\ Cardinality(B) \in Nat
            /\ Cardinality(B) <= Cardinality(A)
        BY <3>3, ExpertsFinite
      <3>5. budget' = budget /\ budget \in Nat /\ Cardinality(A) + budget <= Budget
        <4>1. budget \in Nat
          BY PrewarmAssumption, SMT DEF TypeOK
        <4> QED  BY <1>2, <1>8, <3>1, <4>1 DEF Kept
      <3>6. Cardinality(B) + budget' <= Budget
        BY <3>4, <3>5, MarginNat, SMT
      <3> QED  BY <2>0, <3>2, <3>6
    <2>3. Cardinality(loading' \ Passed') <= Margin'
      <3>1. PICK A : A = loading \ Passed
        OBVIOUS
      <3>2. PICK B : B = loading' \ Passed'
        OBVIOUS
      <3>3. A \in SUBSET Expert /\ B \in SUBSET A
        BY <1>1, <1>7, <3>1, <3>2 DEF TypeOK
      <3>4. /\ Cardinality(A) \in Nat /\ Cardinality(B) \in Nat
            /\ Cardinality(B) <= Cardinality(A) /\ Cardinality(A) <= Margin
        BY <1>8, <3>1, <3>3, ExpertsFinite DEF Kept
      <3>5. Cardinality(B) <= Margin
        BY <3>4, MarginNat, SMT
      <3> QED  BY <2>0, <3>2, <3>5
    <2>4. /\ Cardinality(recent') <= Margin' /\ (recent' # {} => loading' \subseteq Passed')
          /\ recent' \cap loading' = {}
      BY <1>1, <1>2, <1>7, <1>8, <2>0 DEF Kept
    <2>5. UpClosed(ring', Passed) /\ UpClosed(ring', Passed \cup recent)
      BY <1>3, <1>8 DEF Kept
    <2>6. UpClosed(ring, Passed)' /\ UpClosed(ring, Passed \cup recent)'
      BY <1>2, <1>7, <2>5 DEF UpClosed
    <2> QED  BY <2>1, <2>2, <2>3, <2>4, <2>6 DEF Kept
  <1>9. PassInv'
    BY <1>2, <1>6, <1>8 DEF PassInv, Orders
  <1>10. quiet /\ InPass => /\ \A k \in 1 .. pos - 1 : order[k] \in Retained' \cup lost'
                            /\ recent \subseteq Retained'
    <2> SUFFICES ASSUME quiet, InPass
                 PROVE  /\ \A k \in 1 .. pos - 1 : order[k] \in Retained' \cup lost'
                        /\ recent \subseteq Retained'
      OBVIOUS
    <2>1. Kept' /\ recent' = recent
      BY <1>2, <1>8 DEF PassInv
    <2>2. \A k \in 1 .. pos - 1 : order[k] \in Passed'
      BY <1>7 DEF Passed
    <2> QED  BY <2>1, <2>2 DEF Kept
  <1> QED  BY <1>5, <1>9, <1>10

\* A load that ends well.
LEMMA LoadOkWarm ==
    ASSUME TypeOK, RingInv, PassInv, LoadOk
    PROVE  RingInv' /\ PassInv'
  <1>1. /\ loading' \subseteq loading /\ ring' = ring
        /\ UNCHANGED <<pc, order, pos, budget, quiet, lost, recent>>
    BY DEF LoadOk, threadVars, passHistory
  <1>2. RingInv' /\ Retained' = Retained /\ InPass' = InPass
    BY <1>1 DEF RingInv, Distinct, Retained, InPass
  <1>3. Passed' = Passed
    BY <1>1, <1>2 DEF Passed
  <1>4. ASSUME Kept PROVE Kept'
    <2>0. Margin' = Margin /\ Budget' = Budget
      BY DEF Margin, Budget
    <2>1. Cardinality(loading' \ Passed') <= Margin'
      <3>1. PICK A : A = loading \ Passed
        OBVIOUS
      <3>2. PICK B : B = loading' \ Passed'
        OBVIOUS
      <3>3. A \in SUBSET Expert /\ B \in SUBSET A
        BY <1>1, <1>3, <3>1, <3>2 DEF TypeOK
      <3>4. /\ Cardinality(A) \in Nat /\ Cardinality(B) \in Nat
            /\ Cardinality(B) <= Cardinality(A) /\ Cardinality(A) <= Margin
        BY <1>4, <3>1, <3>3, ExpertsFinite DEF Kept
      <3>5. Cardinality(B) <= Margin
        BY <3>4, MarginNat, SMT
      <3> QED  BY <2>0, <3>2, <3>5
    <2>2. UpClosed(ring, Passed)' /\ UpClosed(ring, Passed \cup recent)'
      BY <1>1, <1>3, <1>4 DEF Kept, UpClosed
    <2> QED  BY <1>1, <1>2, <1>3, <1>4, <2>0, <2>1, <2>2 DEF Kept
  <1> QED  BY <1>1, <1>2, <1>4 DEF PassInv, Orders
\* The thread's other steps, and the thread as a whole.
LEMMA ThreadWarm ==
    ASSUME IInv, WarmInv, Thread
    PROVE  WarmInv'
  <1> USE DEF WarmInv
  <1>1. TypeOK /\ BudgetInv
    BY DEF IInv
  <1>2. CASE Top \/ NoNewEpoch
    <2>1. /\ UNCHANGED <<order, pos, budget, ring, loading, quiet, lost, recent, main, shutdown>>
          /\ pc \in {"top", "idleEpoch"} /\ pc' \in {"top", "idleEpoch", "exited"}
      BY <1>2 DEF Top, NoNewEpoch, Goto, sharedVars, ringVars, passHistory
    <2>2. RingInv'
      BY <2>1 DEF RingInv, Distinct, Retained
    <2>3. PassInv'
      BY <2>1 DEF PassInv, InPass
    <2>4. StopInv'
      BY <2>1 DEF StopInv, Thread, Running
    <2> QED  BY <2>2, <2>3, <2>4
  <1>3. CASE BeginPass
    <2>1. StopInv'
      BY <1>3 DEF StopInv, BeginPass, Thread, Running, Goto, sharedVars
    <2> QED  BY <1>1, <1>3, <2>1, BeginPassWarm
  <1>4. CASE EndSort \/ CheckFlags \/ CheckEpoch \/ Issue
    <2>1. RingInv' /\ PassInv'
      BY <1>1, <1>4, EndSortWarm, CheckWarm, IssueWarm
    <2>2. pc # "exited" /\ UNCHANGED <<main, shutdown>>
      BY <1>4 DEF EndSort, CheckFlags, CheckEpoch, Issue, sharedVars
    <2>3. quiet' => quiet
      BY <1>4 DEF EndSort, CheckFlags, CheckEpoch, Issue, NextEntry, LeavePass, BreakOff, GoOn,
                  passHistory
    <2>4. StopInv'
      BY <2>2, <2>3 DEF StopInv, Thread, Running
    <2> QED  BY <2>1, <2>4
  <1> QED  BY <1>2, <1>3, <1>4 DEF Thread

\* The main thread uses the ring during a request only.
LEMMA MainWarm ==
    ASSUME IInv, WarmInv, BeginRequest \/ Request \/ Epilogue \/ Stop
    PROVE  WarmInv'
  <1> USE DEF WarmInv
  <1>1. CASE BeginRequest
    <2>1. ~quiet' /\ UNCHANGED <<pc, order, ring, loading, shutdown>> /\ main' = "work" /\ main = "idle"
      BY <1>1 DEF BeginRequest, threadVars, ringVars
    <2>2. RingInv'
      BY <2>1 DEF RingInv, Distinct, Retained
    <2>3. PassInv'
      BY <2>1, NoPass
    <2>4. StopInv'
      BY <2>1 DEF StopInv
    <2> QED  BY <2>2, <2>3, <2>4
  <1>2. CASE Demand \/ Claim
    <2>1. PICK e \in Expert, taken \in BOOLEAN : Prefetch(e, taken)
      <3>1. CASE Demand
        BY <3>1 DEF Demand
      <3>2. CASE Claim
        <4>1. PICK e \in Retained : Touch(e)
          BY <3>2 DEF Claim
        <4>2. \A j \in DOMAIN ring : ring[j] \in Expert
          BY ElementOfSeq, LenProperties DEF IInv, TypeOK
        <4>3. e \in Expert
          BY <4>2 DEF Retained
        <4>4. Prefetch(e, TRUE)
          BY <4>1 DEF Prefetch
        <4> QED  BY <4>3, <4>4
      <3> QED  BY <1>2, <3>1, <3>2
    <2>2. RingInv'
      BY <2>1, Prefetched DEF IInv
    <2>3. main = "work" /\ UNCHANGED <<pc, order, quiet, main, shutdown>>
      BY <1>2 DEF Demand, Claim, threadVars, sharedVars, passHistory
    <2>4. ~quiet'
      BY <2>3 DEF StopInv
    <2>5. PassInv'
      BY <2>3, <2>4, NoPass
    <2>6. StopInv'
      BY <2>3 DEF StopInv
    <2> QED  BY <2>2, <2>5, <2>6
  <1>3. CASE EndRequest \/ Save \/ Rearm \/ Join \/ Stop
    <2>1. UNCHANGED <<pc, order, pos, budget, ring, loading, quiet, lost, recent>>
      BY <1>3 DEF EndRequest, Save, Rearm, Join, Stop, threadVars, ringVars, passHistory
    <2>2. RingInv' /\ PassInv'
      BY <2>1, SamePass
    <2>3. StopInv'
      BY <1>3, <2>1 DEF StopInv, EndRequest, Save, Rearm, Join, Stop, sharedVars
    <2> QED  BY <2>2, <2>3
  <1> QED  BY <1>1, <1>2, <1>3 DEF Request, Epilogue

\* A process that starts has an empty ring and no pass.
LEMMA EmptyRing == DOMAIN <<>> = {} /\ Len(<<>>) = 0
  <1>1. <<>> \in Seq({}) /\ Len(<<>>) = 0
    BY EmptySeq
  <1>2. DOMAIN <<>> = 1 .. 0
    BY <1>1, LenProperties
  <1> QED  BY <1>1, <1>2, SMT

LEMMA InitWarm == Init => WarmInv
  BY EmptyRing, PrewarmAssumption, SMT
  DEF Init, WarmInv, RingInv, StopInv, PassInv, InPass, Distinct

LEMMA ProcessWarm ==
    ASSUME Crash \/ Boot
    PROVE  WarmInv'
  <1>1. /\ ring' = <<>> /\ loading' = {} /\ ~quiet' /\ ~shutdown' /\ pc' = "top"
        /\ main' \in {"idle", "down"}
    BY DEF Crash, Boot, FreshMemory
  <1> QED  BY <1>1, EmptyRing, PrewarmAssumption, SMT
           DEF WarmInv, RingInv, StopInv, PassInv, InPass, Distinct

LEMMA WarmStep == IInv /\ WarmInv /\ [Next]_vars => WarmInv'
  <1> SUFFICES ASSUME IInv, WarmInv, [Next]_vars PROVE WarmInv'
    OBVIOUS
  <1>1. CASE Thread
    BY <1>1, ThreadWarm
  <1>2. CASE BeginRequest \/ Request \/ Epilogue \/ Stop
    BY <1>2, MainWarm
  <1>3. CASE LoadOk \/ LoadFail
    <2>1. RingInv' /\ PassInv'
      BY <1>3, LoadOkWarm, LoadFailWarm DEF IInv, WarmInv
    <2>2. UNCHANGED <<main, shutdown, pc, quiet>>
      BY <1>3 DEF LoadOk, LoadFail, threadVars, sharedVars, passHistory
    <2>3. StopInv'
      BY <2>2 DEF WarmInv, StopInv
    <2> QED  BY <2>1, <2>3 DEF WarmInv
  <1>4. CASE Crash \/ Boot
    BY <1>4, ProcessWarm
  <1>5. CASE UNCHANGED vars
    <2>1. UNCHANGED <<pc, order, pos, budget, ring, loading, quiet, lost, recent, main, shutdown>>
      BY <1>5 DEF vars, threadVars, sharedVars, ringVars, passHistory
    <2>2. RingInv' /\ PassInv'
      BY <2>1, SamePass DEF WarmInv
    <2>3. StopInv'
      BY <2>1 DEF WarmInv, StopInv
    <2> QED  BY <2>2, <2>3 DEF WarmInv
  <1> QED  BY <1>1, <1>2, <1>3, <1>4, <1>5 DEF Next

LEMMA WarmInvariance == Spec => [](IInv /\ WarmInv)
  BY InitWarm, WarmStep, Invariance, PTL DEF Spec

\* No step of the system takes from the ring what such a pass asked for, or what
\* was recent when it began; a load that fails is the only loss.
LEMMA StepSpares ==
    ASSUME IInv, WarmInv, Next, InPass, quiet, Running'
    PROVE  /\ \A i \in 1 .. pos - 1 : order[i] \in Retained' \cup lost \cup lost'
           /\ recent \subseteq Retained'
  <1>1. Kept
    BY DEF WarmInv, PassInv
  <1>2. \A i \in 1 .. pos - 1 : order[i] \in Passed
    BY DEF Passed
  <1>3. CASE Issue
    <2>1. TypeOK /\ BudgetInv /\ RingInv /\ PassInv
      BY DEF IInv, WarmInv
    <2>2. /\ \A i \in 1 .. pos - 1 : order[i] \in Retained' \cup lost
          /\ recent \subseteq Retained'
      BY <1>3, <2>1, IssueWarm
    <2> QED  BY <2>2
  <1>4. CASE LoadFail
    <2>1. TypeOK /\ RingInv /\ PassInv
      BY DEF IInv, WarmInv
    <2>2. /\ \A i \in 1 .. pos - 1 : order[i] \in Retained' \cup lost'
          /\ recent \subseteq Retained'
      BY <1>4, <2>1, LoadFailWarm
    <2> QED  BY <2>2
  <1>5. CASE ring' = ring
    <2>1. Retained' = Retained
      BY <1>5 DEF Retained
    <2> QED  BY <1>1, <1>2, <2>1 DEF Kept
  <1>6. ~Demand /\ ~Claim /\ ~Crash /\ ~Boot
    BY DEF WarmInv, StopInv, Demand, Claim, Crash, Boot, Running, InPass
  <1>7. Issue \/ LoadFail \/ ring' = ring
    BY <1>6
    DEF Next, Thread, Request, Epilogue, Top, NoNewEpoch, BeginPass, EndSort, CheckFlags, CheckEpoch,
        BeginRequest, EndRequest, Save, Rearm, Join, Stop, LoadOk, ringVars
  <1> QED  BY <1>3, <1>4, <1>5, <1>7

\* A pass that has the ring to itself never evicts what it brought in or touched:
\* the hottest experts, down to where it stands, stay, but for the loads given up.
THEOREM PassKeepsHottest == Spec => HottestWarmed
  <1>1. IInv /\ WarmInv /\ [Next]_vars =>
          [InPass /\ quiet /\ Running' =>
             \A i \in 1 .. pos - 1 : order[i] \in Retained' \cup lost \cup lost']_vars
    BY StepSpares
  <1> QED  BY <1>1, WarmInvariance, PTL DEF Spec, HottestWarmed

\* Nor does it evict the headroom: the experts used last before it, as many as the
\* margin, stay.
THEOREM PassKeepsHeadroom == Spec => HeadroomKept
  <1>1. IInv /\ WarmInv /\ [Next]_vars =>
          [InPass /\ quiet /\ Running' => recent \subseteq Retained']_vars
    BY StepSpares
  <1> QED  BY <1>1, WarmInvariance, PTL DEF Spec, HeadroomKept
=============================================================================
