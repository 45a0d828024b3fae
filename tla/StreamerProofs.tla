--------------------------- MODULE StreamerProofs ---------------------------
(***************************************************************************)
(* Proofs about the streamer, for every ring size, vault, number of        *)
(* workers and queue capacity.                                             *)
(*                                                                         *)
(* LoadInv holds with or without a Prewarm thread: each load has one       *)
(* owner.  With DataMatchesKey it is inductive whoever calls prefetch.     *)
(* CallerInv adds what holds when Main is the only caller of prefetch, and *)
(* is inductive only together with them: a claimed slot is safe from       *)
(* eviction because the LRU scan's choice cannot change between the scan   *)
(* and the CAS, and safe from the workers because every slot a worker      *)
(* writes is LOADING.                                                      *)
(***************************************************************************)
EXTENDS Streamer, FiniteSetTheorems, TLAPS

\* A call's arguments and locals are defined where the code reads them.
CallTypedAt(c) ==
    /\ op[c].pc # "idle" => op[c].want \in Keys
    /\ CallOwns(c) \/ At(c, "evict") => op[c].slot \in Slots
    /\ op[c].pc \in {"claimReady", "reclaim", "takeRef", "claimTick"}
          => c = Main /\ op[c].idx \in Slots
    /\ At(c, "match") => c = Main

CallTyped == \A c \in Callers : CallTypedAt(c)

\* A queued request names a LOADING slot with its own ids.
QueueLoads ==
    \A p \in Classes : \A i \in 1 .. Len(queue[p]) :
        LET r == queue[p][i] IN
        /\ state[r.slot] = "LOADING"
        /\ layerId[r.slot] = r.layer /\ expertId[r.slot] = r.expert

\* So does the request a worker is serving.
WorkerLoads ==
    \A w \in Workers :
        WorkerOwns(w) =>
            /\ wreq[w] \in Request
            /\ state[wreq[w].slot] = "LOADING"
            /\ layerId[wreq[w].slot] = wreq[w].layer
            /\ expertId[wreq[w].slot] = wreq[w].expert
            /\ wpc[w] = "publish" =>
                  filled[wreq[w].slot] /\ data[wreq[w].slot] = ReqKey(w)

\* A prefetch call that won a slot keeps it LOADING while it writes the ids.
CallLoads ==
    \A c \in Callers :
        CallOwns(c) =>
            /\ state[op[c].slot] = "LOADING"
            /\ op[c].pc # "setLayer" => layerId[op[c].slot] = op[c].want[1]
            /\ op[c].pc \notin {"setLayer", "setExpert"}
                  => expertId[op[c].slot] = op[c].want[2]

\* No two of them name one slot.
QueueDistinct ==
    \A p, q \in Classes : \A i \in 1 .. Len(queue[p]), j \in 1 .. Len(queue[q]) :
        queue[p][i].slot = queue[q][j].slot => p = q /\ i = j

WorkerDistinct ==
    \A w \in Workers :
        WorkerOwns(w) =>
            /\ \A v \in Workers : WorkerOwns(v) /\ wreq[v].slot = wreq[w].slot => v = w
            /\ \A p \in Classes : \A i \in 1 .. Len(queue[p]) :
                  queue[p][i].slot # wreq[w].slot

CallDistinct ==
    \A c \in Callers :
        CallOwns(c) =>
            /\ \A d \in Callers : CallOwns(d) /\ op[d].slot = op[c].slot => d = c
            /\ \A w \in Workers : WorkerOwns(w) => wreq[w].slot # op[c].slot
            /\ \A p \in Classes : \A i \in 1 .. Len(queue[p]) :
                  queue[p][i].slot # op[c].slot

LoadInv ==
    /\ TypeOK
    /\ CallTyped
    /\ QueueLoads
    /\ WorkerLoads
    /\ CallLoads
    /\ QueueDistinct
    /\ WorkerDistinct
    /\ CallDistinct

-----------------------------------------------------------------------------
\* A held slot carries exactly one reference, and is held once.
HeldOnce ==
    \A h \in held :
        /\ refCount[h.slot] = 1
        /\ \A g \in held : g.slot = h.slot => g = h

\* A slot nobody holds or is claiming carries none.
UnheldZero ==
    \A s \in Slots :
        (\A h \in held : h.slot # s) /\ ~ClaimingRef(s) => refCount[s] = 0

\* What Main knows of the slot it is claiming.
ClaimInv ==
    LET i == op[Main].idx
        claiming == op[Main].pc \in {"claimReady", "reclaim", "takeRef", "claimTick"}
        taken    == op[Main].pc \in {"takeRef", "claimTick"}
    IN
    /\ claiming => SlotKey(i) = op[Main].want
    /\ At(Main, "reclaim") /\ op[Main].expected = "CONSUMED" => state[i] = "CONSUMED"
    /\ taken => state[i] = "CONSUMED" /\ \A h \in held : h.slot # i
    /\ At(Main, "claimTick") => refCount[i] = 1

\* What Main knows of the victim it has chosen.
VictimInv ==
    LET v == op[Main].slot IN
    /\ At(Main, "scan") \/ At(Main, "findEmpty") => v = NoSlot
    /\ At(Main, "lru") /\ v # NoSlot => state[v] \in Idle /\ refCount[v] = 0
    /\ At(Main, "evict") => state[v] \in Idle /\ refCount[v] = 0

CallerInv ==
    /\ HeldIntact
    /\ HeldOnce
    /\ UnheldZero
    /\ ClaimInv
    /\ VictimInv

IInv == LoadInv /\ DataMatchesKey /\ CallerInv

-----------------------------------------------------------------------------
(***************************************************************************)
(* How each form of step changes the locals of the call c.                 *)
(***************************************************************************)
OpMoves(c) ==
    /\ op' \in [Callers -> Call]
    /\ \A d \in Callers : d # c => op'[d] = op[d]

\* The arguments of the call and the slot it holds are kept.
SameCall(c) ==
    /\ op'[c].want = op[c].want
    /\ op'[c].class = op[c].class
    /\ op'[c].slot = op[c].slot

LEMMA GotoEffect ==
  ASSUME TypeOK, NEW c \in Callers, NEW label \in CallLabels, Goto(c, label)
  PROVE  /\ OpMoves(c) /\ SameCall(c) /\ op'[c].pc = label
         /\ op'[c].idx = op[c].idx /\ op'[c].expected = op[c].expected
<1>1. op[c] \in Call
  BY DEF TypeOK
<1>2. op'[c] = [op[c] EXCEPT !.pc = label]
  BY DEF TypeOK, Goto
<1>3. \A d \in Callers : d # c => op'[d] = op[d]
  BY DEF TypeOK, Goto
<1>4. op'[c] \in Call
  BY <1>1, <1>2 DEF Call
<1>5. op' \in [Callers -> Call]
  BY <1>3, <1>4 DEF TypeOK, Goto
<1>. QED
  BY <1>1, <1>2, <1>3, <1>5 DEF OpMoves, SameCall, Call

LEMMA RestartEffect ==
  ASSUME TypeOK, NEW c \in Callers, NEW label \in CallLabels, Restart(c, label)
  PROVE  OpMoves(c) /\ SameCall(c) /\ op'[c].pc = label /\ op'[c].idx = 0
<1>1. op[c] \in Call
  BY DEF TypeOK
<1>2. op'[c] = [op[c] EXCEPT !.pc = label, !.idx = 0]
  BY DEF TypeOK, Restart
<1>3. \A d \in Callers : d # c => op'[d] = op[d]
  BY DEF TypeOK, Restart
<1>4. op'[c] \in Call
  <2>1. 0 \in 0 .. RingSize
    BY RingAssumption
  <2>. QED
    BY <1>1, <1>2, <2>1 DEF Call
<1>5. op' \in [Callers -> Call]
  BY <1>3, <1>4 DEF TypeOK, Restart
<1>. QED
  BY <1>1, <1>2, <1>3, <1>5 DEF OpMoves, SameCall, Call

LEMMA NextIdxEffect ==
  ASSUME TypeOK, NEW c \in Callers, InLoop(c), NextIdx(c)
  PROVE  /\ OpMoves(c) /\ SameCall(c) /\ op'[c].pc = op[c].pc
         /\ op'[c].idx = op[c].idx + 1 /\ op'[c].oldest = op[c].oldest
<1>1. op[c] \in Call /\ op[c].idx + 1 \in 0 .. RingSize
  BY RingAssumption DEF TypeOK, InLoop, Call
<1>2. op'[c] = [op[c] EXCEPT !.idx = op[c].idx + 1]
  BY DEF TypeOK, NextIdx
<1>3. \A d \in Callers : d # c => op'[d] = op[d]
  BY DEF TypeOK, NextIdx
<1>4. op'[c] \in Call
  BY <1>1, <1>2 DEF Call
<1>5. op' \in [Callers -> Call]
  BY <1>3, <1>4 DEF TypeOK, NextIdx
<1>. QED
  BY <1>1, <1>2, <1>3, <1>5 DEF OpMoves, SameCall, Call

LEMMA NoCallType == NoCall \in Call
  BY RingAssumption DEF NoCall, Call, CallLabels, Classes, States, NoSlot

LEMMA ReturnEffect ==
  ASSUME TypeOK, NEW c \in Callers, Return(c)
  PROVE  OpMoves(c) /\ op'[c] = NoCall /\ op'[c].pc = "idle"
  BY NoCallType DEF TypeOK, Return, OpMoves, NoCall

LEMMA BeginPrefetchEffect ==
  ASSUME TypeOK, NEW c \in Callers, NEW k \in Keys, NEW class \in Classes,
         BeginPrefetch(c, k, class)
  PROVE  /\ OpMoves(c) /\ op'[c].pc = "scan" /\ op'[c].want = k /\ op'[c].slot = NoSlot
         /\ op'[c].idx = 0
<1>1. op'[c] = [NoCall EXCEPT !.pc = "scan", !.want = k, !.class = class]
  BY DEF TypeOK, BeginPrefetch
<1>2. \A d \in Callers : d # c => op'[d] = op[d]
  BY DEF TypeOK, BeginPrefetch
<1>3. op'[c] \in Call
  BY <1>1, NoCallType DEF Call, CallLabels
<1>4. op' \in [Callers -> Call]
  BY <1>2, <1>3 DEF TypeOK, BeginPrefetch
<1>. QED
  BY <1>1, <1>2, <1>4 DEF OpMoves, NoCall

LEMMA BeginClaimEffect ==
  ASSUME TypeOK, NEW k \in Keys, BeginClaim(k)
  PROVE  OpMoves(Main) /\ op'[Main].pc = "match" /\ op'[Main].want = k /\ op'[Main].idx = 0
<1>. Main \in Callers
  BY DEF Callers
<1>1. op'[Main] = [NoCall EXCEPT !.pc = "match", !.want = k]
  BY DEF TypeOK, BeginClaim
<1>2. \A d \in Callers : d # Main => op'[d] = op[d]
  BY DEF TypeOK, BeginClaim
<1>3. op'[Main] \in Call
  BY <1>1, NoCallType DEF Call, CallLabels
<1>4. op' \in [Callers -> Call]
  BY <1>2, <1>3 DEF TypeOK, BeginClaim
<1>. QED
  BY <1>1, <1>2, <1>4 DEF OpMoves, NoCall

LEMMA ClaimEmptyEffect ==
  ASSUME TypeOK, NEW c \in Callers, ClaimEmpty(c)
  PROVE  /\ OpMoves(c) /\ op[c].idx \in Slots
         /\ op'[c].pc = "setLayer" /\ op'[c].want = op[c].want /\ op'[c].slot = op[c].idx
<1>1. op[c] \in Call /\ op[c].idx \in Slots
  BY RingAssumption DEF TypeOK, ClaimEmpty, InLoop, Call, Slots
<1>2. op'[c] = [op[c] EXCEPT !.pc = "setLayer", !.slot = op[c].idx]
  BY DEF TypeOK, ClaimEmpty
<1>3. \A d \in Callers : d # c => op'[d] = op[d]
  BY DEF TypeOK, ClaimEmpty
<1>4. op'[c] \in Call
  BY <1>1, <1>2 DEF Call, CallLabels
<1>5. op' \in [Callers -> Call]
  BY <1>3, <1>4 DEF TypeOK, ClaimEmpty
<1>. QED
  BY <1>1, <1>2, <1>3, <1>5 DEF OpMoves, Call

LEMMA LruTakeEffect ==
  ASSUME TypeOK, NEW c \in Callers, LruTake(c)
  PROVE  /\ OpMoves(c) /\ op[c].idx \in Slots
         /\ op'[c].pc = "lru" /\ op'[c].want = op[c].want /\ op'[c].slot = op[c].idx
         /\ op'[c].idx = op[c].idx + 1 /\ op'[c].oldest = tick[op[c].idx]
<1>1. op[c] \in Call /\ op[c].idx \in Slots
  BY RingAssumption DEF TypeOK, LruTake, InLoop, Call, Slots
<1>2. op'[c] = [op[c] EXCEPT !.slot = op[c].idx, !.oldest = tick[op[c].idx],
                             !.idx = op[c].idx + 1]
  BY DEF TypeOK, LruTake
<1>3. \A d \in Callers : d # c => op'[d] = op[d]
  BY DEF TypeOK, LruTake
<1>4. op'[c] \in Call
  <2>1. tick[op[c].idx] \in Nat /\ op[c].idx \in 0 .. RingSize /\ op[c].idx + 1 \in 0 .. RingSize
    BY <1>1, RingAssumption DEF TypeOK, Slots
  <2>. QED
    BY <1>1, <1>2, <2>1 DEF Call
<1>5. op' \in [Callers -> Call]
  BY <1>3, <1>4 DEF TypeOK, LruTake
<1>. QED
  BY <1>1, <1>2, <1>3, <1>5 DEF OpMoves, Call, LruTake, At

LEMMA EvictLoadEffect ==
  ASSUME TypeOK, NEW c \in Callers, EvictLoad(c)
  PROVE  /\ OpMoves(c) /\ SameCall(c) /\ op[c].slot \in Slots
         /\ op'[c].pc = "evict" /\ op'[c].expected = state[op[c].slot]
<1>1. op[c] \in Call /\ op[c].slot \in Slots
  BY RingAssumption DEF TypeOK, EvictLoad, Call, Slots, NoSlot
<1>2. op'[c] = [op[c] EXCEPT !.pc = "evict", !.expected = state[op[c].slot]]
  BY DEF TypeOK, EvictLoad
<1>3. \A d \in Callers : d # c => op'[d] = op[d]
  BY DEF TypeOK, EvictLoad
<1>4. op'[c] \in Call
  <2>1. state[op[c].slot] \in States
    BY <1>1 DEF TypeOK
  <2>. QED
    BY <1>1, <1>2, <2>1 DEF Call, CallLabels
<1>5. op' \in [Callers -> Call]
  BY <1>3, <1>4 DEF TypeOK, EvictLoad
<1>. QED
  BY <1>1, <1>2, <1>3, <1>5 DEF OpMoves, SameCall, Call

LEMMA ClaimNotReadyEffect ==
  ASSUME TypeOK, op[Main].idx \in Slots, ClaimNotReady
  PROVE  /\ OpMoves(Main) /\ SameCall(Main)
         /\ op'[Main].pc = "reclaim" /\ op'[Main].idx = op[Main].idx
         /\ op'[Main].expected = state[op[Main].idx]
<1>1. Main \in Callers /\ op[Main] \in Call
  BY DEF TypeOK, Callers
<1>2. op'[Main] = [op[Main] EXCEPT !.pc = "reclaim", !.expected = state[op[Main].idx]]
  BY <1>1 DEF TypeOK, ClaimNotReady
<1>3. \A d \in Callers : d # Main => op'[d] = op[d]
  BY <1>1 DEF TypeOK, ClaimNotReady
<1>4. op'[Main] \in Call
  <2>1. state[op[Main].idx] \in States
    BY DEF TypeOK
  <2>. QED
    BY <1>1, <1>2, <2>1 DEF Call, CallLabels
<1>5. op' \in [Callers -> Call]
  BY <1>1, <1>3, <1>4 DEF TypeOK, ClaimNotReady
<1>. QED
  BY <1>1, <1>2, <1>3, <1>5 DEF OpMoves, SameCall, Call

LEMMA ReclaimNotEffect ==
  ASSUME TypeOK, op[Main].idx \in Slots, ReclaimNot
  PROVE  /\ OpMoves(Main) /\ SameCall(Main) /\ op'[Main].pc = "match"
         /\ op'[Main].idx = op[Main].idx + 1
<1>1. Main \in Callers /\ op[Main] \in Call /\ op[Main].idx + 1 \in 0 .. RingSize
  BY RingAssumption DEF TypeOK, Callers, Slots
<1>2. op'[Main] = [op[Main] EXCEPT !.pc = "match", !.idx = op[Main].idx + 1]
  BY <1>1 DEF TypeOK, ReclaimNot
<1>3. \A d \in Callers : d # Main => op'[d] = op[d]
  BY <1>1 DEF TypeOK, ReclaimNot
<1>4. op'[Main] \in Call
  BY <1>1, <1>2 DEF Call, CallLabels
<1>5. op' \in [Callers -> Call]
  BY <1>1, <1>3, <1>4 DEF TypeOK, ReclaimNot
<1>. QED
  BY <1>1, <1>2, <1>3, <1>5 DEF OpMoves, SameCall, Call

-----------------------------------------------------------------------------
(***************************************************************************)
(* LoadInv is preserved.                                                   *)
(***************************************************************************)

LEMMA AppendAt ==
  ASSUME NEW S, NEW s \in Seq(S), NEW e \in S, NEW i \in 1 .. Len(Append(s, e))
  PROVE  \/ i \in 1 .. Len(s) /\ Append(s, e)[i] = s[i]
         \/ i = Len(s) + 1 /\ Append(s, e)[i] = e
  OBVIOUS

LEMMA TailAt ==
  ASSUME NEW S, NEW s \in Seq(S), s # <<>>
  PROVE  /\ Tail(s) \in Seq(S) /\ Head(s) \in S /\ Head(s) = s[1] /\ 1 \in 1 .. Len(s)
         /\ \A i \in 1 .. Len(Tail(s)) : i + 1 \in 1 .. Len(s) /\ i + 1 # 1 /\ Tail(s)[i] = s[i + 1]
  OBVIOUS

LEMMA QueueSlots ==
  ASSUME TypeOK
  PROVE  \A p \in Classes : \A i \in 1 .. Len(queue[p]) :
            queue[p][i] \in Request /\ queue[p][i].slot \in Slots
<1>1. \A p \in Classes : \A i \in 1 .. Len(queue[p]) : queue[p][i] \in Request
  BY DEF TypeOK
<1>. QED
  BY <1>1 DEF Request

\* A step that moves no slot out of LOADING and no call into ownership.
LEMMA QuietMove ==
  ASSUME LoadInv, TypeOK', CallTyped',
         UNCHANGED <<layerId, expertId, filled, data, queue, wpc, wreq>>,
         \A s \in Slots : state[s] = "LOADING" => state'[s] = "LOADING",
         \A c \in Callers : CallOwns(c)' => CallOwns(c) /\ op'[c] = op[c]
  PROVE  LoadInv'
<1>1. QueueLoads'
  <2>1. \A p \in Classes : \A i \in 1 .. Len(queue[p]) : queue[p][i].slot \in Slots
    BY QueueSlots DEF LoadInv
  <2>. QED
    BY <2>1 DEF LoadInv, QueueLoads
<1>2. WorkerLoads'
  BY DEF LoadInv, WorkerLoads, WorkerOwns, ReqKey, Request
<1>3. CallLoads'
  BY DEF LoadInv, CallLoads, CallTyped, CallTypedAt
<1>4. QueueDistinct' /\ WorkerDistinct'
  BY DEF LoadInv, QueueDistinct, WorkerDistinct, WorkerOwns
<1>5. CallDistinct'
  BY DEF LoadInv, CallDistinct, WorkerOwns
<1>. QED
  BY <1>1, <1>2, <1>3, <1>4, <1>5 DEF LoadInv

LEMMA CallTypedMove ==
  ASSUME CallTyped, NEW c \in Callers, OpMoves(c), CallTypedAt(c)'
  PROVE  CallTyped'
  BY DEF CallTyped, OpMoves, CallTypedAt, CallOwns, At

\* A step of a call that only moves its own locals, and owns no slot after it.
LEMMA LocalMove ==
  ASSUME LoadInv, NEW c \in Callers, OpMoves(c), ~CallOwns(c)', CallTypedAt(c)',
         UNCHANGED <<ringVars, workVars, mainVars>>
  PROVE  LoadInv'
<1>1. TypeOK'
  BY DEF LoadInv, TypeOK, OpMoves, ringVars, slotVars, workVars, mainVars
<1>2. CallTyped'
  BY CallTypedMove DEF LoadInv
<1>3. \A d \in Callers : CallOwns(d)' => CallOwns(d) /\ op'[d] = op[d]
  BY DEF OpMoves, CallOwns
<1>. QED
  BY <1>1, <1>2, <1>3, QuietMove DEF ringVars, slotVars, workVars

-----------------------------------------------------------------------------
(***************************************************************************)
(* prefetch.                                                               *)
(***************************************************************************)
\* A call that has not reached its slot yet: scanning, or looking for a victim.
LEMMA SearchLoadInv ==
  ASSUME LoadInv, NEW c \in Callers,
         \/ \E k \in Keys, class \in Classes : BeginPrefetch(c, k, class)
         \/ ScanNext(c) \/ ScanMiss(c) \/ EmptyNext(c) \/ NoneEmpty(c)
         \/ LruTake(c) \/ LruSkip(c) \/ LruNone(c) \/ EvictLoad(c) \/ EvictLost(c)
  PROVE  LoadInv'
<1>. USE DEF CallTypedAt, CallOwns, At
<1>0. TypeOK /\ CallTypedAt(c)
  BY DEF LoadInv, CallTyped
<1>1. CASE \E k \in Keys, class \in Classes : BeginPrefetch(c, k, class)
  <2>. PICK k \in Keys, class \in Classes : BeginPrefetch(c, k, class)
    BY <1>1
  <2>. QED
    BY <1>0, BeginPrefetchEffect, LocalMove DEF BeginPrefetch
<1>2. CASE ScanNext(c)
  BY <1>0, <1>2, NextIdxEffect, LocalMove DEF ScanNext, SameCall
<1>3. CASE ScanMiss(c)
  BY <1>0, <1>3, RestartEffect, LocalMove DEF ScanMiss, SameCall, CallLabels
<1>4. CASE EmptyNext(c)
  BY <1>0, <1>4, NextIdxEffect, LocalMove DEF EmptyNext, SameCall
<1>5. CASE NoneEmpty(c)
  BY <1>0, <1>5, RestartEffect, LocalMove DEF NoneEmpty, SameCall, CallLabels
<1>6. CASE LruTake(c)
  BY <1>0, <1>6, LruTakeEffect, LocalMove DEF LruTake
<1>7. CASE LruSkip(c)
  BY <1>0, <1>7, NextIdxEffect, LocalMove DEF LruSkip, SameCall
<1>8. CASE LruNone(c)
  BY <1>0, <1>8, ReturnEffect, LocalMove DEF LruNone
<1>9. CASE EvictLoad(c)
  BY <1>0, <1>9, EvictLoadEffect, LocalMove DEF EvictLoad, SameCall
<1>10. CASE EvictLost(c)
  BY <1>0, <1>10, ReturnEffect, LocalMove DEF EvictLost
<1>. QED
  BY <1>1, <1>2, <1>3, <1>4, <1>5, <1>6, <1>7, <1>8, <1>9, <1>10

LEMMA ScanHitLoadInv ==
  ASSUME LoadInv, NEW c \in Callers, ScanHit(c)
  PROVE  LoadInv'
<1>0. TypeOK /\ OpMoves(c) /\ op'[c].pc = "idle" /\ op[c].idx \in Slots
  <2>1. TypeOK /\ op[c] \in Call
    BY DEF LoadInv, TypeOK
  <2>2. op[c].idx \in Slots
    BY <2>1, RingAssumption DEF ScanHit, InLoop, Call, Slots
  <2>. QED
    BY <2>1, <2>2, ReturnEffect DEF ScanHit
<1>1. TypeOK'
  BY <1>0 DEF TypeOK, OpMoves, ScanHit, Touch, workVars, mainVars
<1>2. CallTyped'
  BY <1>0, CallTypedMove DEF LoadInv, CallTypedAt, CallOwns, At
<1>3. \A d \in Callers : CallOwns(d)' => CallOwns(d) /\ op'[d] = op[d]
  BY <1>0 DEF OpMoves, CallOwns
<1>. QED
  BY <1>1, <1>2, <1>3, QuietMove DEF ScanHit, workVars

\* A call takes a slot that was not LOADING, so that nobody else answers for it.
LEMMA TakeSlotLoadInv ==
  ASSUME LoadInv, NEW c \in Callers, ClaimEmpty(c) \/ EvictCas(c)
  PROVE  LoadInv'
<1> DEFINE s == op'[c].slot
<1>0. TypeOK /\ CallTyped
  BY DEF LoadInv
<1>1. /\ OpMoves(c) /\ s \in Slots /\ op'[c].pc = "setLayer" /\ op'[c].want = op[c].want
      /\ op[c].pc # "idle" /\ ~CallOwns(c)
      /\ state[s] # "LOADING"
      /\ state' = [state EXCEPT ![s] = "LOADING"]
      /\ UNCHANGED <<layerId, expertId, refCount, tick, filled, data, globalTick,
                     workVars, mainVars>>
  <2>1. CASE ClaimEmpty(c)
    BY <1>0, <2>1, ClaimEmptyEffect DEF ClaimEmpty, At, CallOwns
  <2>2. CASE EvictCas(c)
    BY <1>0, <2>2, GotoEffect
    DEF EvictCas, EvictWins, SameCall, CallTyped, CallTypedAt, At, CallOwns, CallLabels, Idle
  <2>. QED
    BY <2>1, <2>2
<1>. HIDE DEF s
<1>2. TypeOK'
  BY <1>0, <1>1 DEF TypeOK, OpMoves, States, workVars, mainVars
<1>3. CallTyped'
  BY <1>0, <1>1, CallTypedMove DEF CallTyped, CallTypedAt, CallOwns, At, s
<1>4. QueueLoads'
  <2>1. \A p \in Classes : \A i \in 1 .. Len(queue[p]) : queue[p][i].slot \in Slots
    BY <1>0, QueueSlots
  <2>. QED
    BY <1>0, <1>1, <2>1 DEF LoadInv, QueueLoads, TypeOK, workVars
<1>5. WorkerLoads'
  <2>1. \A w \in Workers : WorkerOwns(w) => wreq[w].slot \in Slots
    BY DEF LoadInv, WorkerLoads, Request
  <2>. QED
    BY <1>0, <1>1, <2>1 DEF LoadInv, WorkerLoads, WorkerOwns, ReqKey, TypeOK, workVars
<1>6. CallLoads'
  BY <1>0, <1>1
  DEF LoadInv, CallLoads, CallOwns, CallTyped, CallTypedAt, OpMoves, TypeOK, s
<1>7. QueueDistinct' /\ WorkerDistinct'
  BY <1>1 DEF LoadInv, QueueDistinct, WorkerDistinct, WorkerOwns, workVars
<1>8. CallDistinct'
  <2>1. \A d \in Callers : CallOwns(d) => state[op[d].slot] = "LOADING"
    BY DEF LoadInv, CallLoads
  <2>2. \A w \in Workers : WorkerOwns(w) => state[wreq[w].slot] = "LOADING"
    BY DEF LoadInv, WorkerLoads
  <2>3. \A p \in Classes : \A i \in 1 .. Len(queue[p]) : state[queue[p][i].slot] = "LOADING"
    BY DEF LoadInv, QueueLoads
  <2>. QED
    BY <1>1, <2>1, <2>2, <2>3
    DEF LoadInv, CallDistinct, CallOwns, WorkerOwns, OpMoves, workVars, s
<1>. QED
  BY <1>2, <1>3, <1>4, <1>5, <1>6, <1>7, <1>8 DEF LoadInv

\* The owner of a slot writes its metadata.
LEMMA SetMetaLoadInv ==
  ASSUME LoadInv, NEW c \in Callers, SetLayer(c) \/ SetExpert(c) \/ SetRef(c) \/ SetTick(c)
  PROVE  LoadInv'
<1> DEFINE s == op[c].slot
<1>0. TypeOK /\ CallTyped
  BY DEF LoadInv
<1>1. /\ OpMoves(c) /\ SameCall(c) /\ CallOwns(c) /\ CallOwns(c)'
      /\ op[c].pc # "idle" /\ op'[c].pc # "idle"
      /\ s \in Slots /\ op[c].want \in Keys
  BY <1>0, GotoEffect DEF SetLayer, SetExpert, SetRef, SetTick, At, CallOwns, CallLabels,
                          CallTyped, CallTypedAt
<1>2. TypeOK'
  <2>. USE <1>0, <1>1 DEF TypeOK, OpMoves, workVars, mainVars
  <2>1. CASE SetLayer(c)
    BY <2>1 DEF SetLayer, Keys
  <2>2. CASE SetExpert(c)
    BY <2>2 DEF SetExpert, Keys
  <2>3. CASE SetRef(c)
    BY <2>3, RingAssumption DEF SetRef
  <2>4. CASE SetTick(c)
    BY <2>4 DEF SetTick, Touch
  <2>. QED
    BY <2>1, <2>2, <2>3, <2>4
<1>3. CallTyped'
  BY <1>0, <1>1, CallTypedMove DEF CallTyped, CallTypedAt, CallOwns, At, SameCall
<1>4. /\ UNCHANGED <<state, filled, data, workVars>>
      /\ \A t \in Slots : t # s => layerId'[t] = layerId[t] /\ expertId'[t] = expertId[t]
  BY <1>0 DEF TypeOK, SetLayer, SetExpert, SetRef, SetTick
<1>5. QueueLoads'
  <2>1. \A p \in Classes : \A i \in 1 .. Len(queue[p]) :
            queue[p][i].slot \in Slots /\ queue[p][i].slot # s
    BY <1>0, <1>1, QueueSlots DEF LoadInv, CallDistinct
  <2>. QED
    BY <1>4, <2>1 DEF LoadInv, QueueLoads, workVars
<1>6. WorkerLoads'
  <2>1. \A w \in Workers : WorkerOwns(w) => wreq[w].slot \in Slots /\ wreq[w].slot # s
    BY <1>1 DEF LoadInv, WorkerLoads, CallDistinct, Request
  <2>. QED
    BY <1>4, <2>1 DEF LoadInv, WorkerLoads, WorkerOwns, ReqKey, workVars
<1>7. CallLoads'
  <2>1. ASSUME NEW d \in Callers, d # c, CallOwns(d)'
        PROVE  CallOwns(d) /\ op'[d] = op[d] /\ op[d].slot \in Slots /\ op[d].slot # s
    BY <1>0, <1>1, <2>1 DEF OpMoves, CallOwns, LoadInv, CallDistinct, CallTyped, CallTypedAt
  <2>2. ASSUME NEW d \in Callers, d # c, CallOwns(d)'
        PROVE  /\ state'[op'[d].slot] = "LOADING"
               /\ op'[d].pc # "setLayer" => layerId'[op'[d].slot] = op'[d].want[1]
               /\ op'[d].pc \notin {"setLayer", "setExpert"}
                     => expertId'[op'[d].slot] = op'[d].want[2]
    BY <1>4, <2>1, <2>2 DEF LoadInv, CallLoads
  <2>3. /\ state'[op'[c].slot] = "LOADING"
        /\ op'[c].pc # "setLayer" => layerId'[op'[c].slot] = op'[c].want[1]
        /\ op'[c].pc \notin {"setLayer", "setExpert"}
              => expertId'[op'[c].slot] = op'[c].want[2]
    BY <1>0, <1>1, <1>4, GotoEffect
    DEF LoadInv, CallLoads, SetLayer, SetExpert, SetRef, SetTick, Touch, At, CallLabels,
        SameCall, TypeOK
  <2>. QED
    BY <2>2, <2>3 DEF CallLoads
<1>8. QueueDistinct' /\ WorkerDistinct'
  BY <1>4 DEF LoadInv, QueueDistinct, WorkerDistinct, WorkerOwns, workVars
<1>9. CallDistinct'
  BY <1>1, <1>4 DEF LoadInv, CallDistinct, CallOwns, WorkerOwns, OpMoves, SameCall, workVars
<1>. QED
  BY <1>2, <1>3, <1>5, <1>6, <1>7, <1>8, <1>9 DEF LoadInv

\* The request is handed to the workers: the queue's entry replaces the call.
LEMMA PushLoadInv ==
  ASSUME LoadInv, NEW c \in Callers, Push(c)
  PROVE  LoadInv'
<1> DEFINE s == op[c].slot
           q == op[c].class
<1>0. TypeOK /\ CallTyped
  BY DEF LoadInv
<1>1. OpMoves(c) /\ op'[c].pc = "idle" /\ ~CallOwns(c)' /\ CallOwns(c)
  BY <1>0, ReturnEffect DEF Push, CallOwns, At
<1>2. s \in Slots /\ op[c].want \in Keys /\ q \in Classes
  BY <1>0, <1>1 DEF CallTyped, CallTypedAt, Push, At, TypeOK, Call
<1>3. NewRequest(c) \in Request
  BY <1>2 DEF NewRequest, Request, Keys
<1>4. /\ queue[q] \in Seq(Request)
      /\ queue'[q] = Append(queue[q], NewRequest(c))
      /\ \A p \in Classes : p # q => queue'[p] = queue[p]
      /\ queue' \in [Classes -> Seq(Request)]
  BY <1>0, <1>2, <1>3 DEF Push, TypeOK
<1>5. ASSUME NEW p \in Classes, NEW i \in 1 .. Len(queue'[p])
      PROVE  \/ i \in 1 .. Len(queue[p]) /\ queue'[p][i] = queue[p][i]
             \/ p = q /\ i = Len(queue[q]) + 1 /\ queue'[p][i] = NewRequest(c)
  <2>1. CASE p = q
    BY <2>1, <1>3, <1>4, AppendAt
  <2>2. CASE p # q
    BY <2>2, <1>4
  <2>. QED
    BY <2>1, <2>2
<1>6. UNCHANGED <<ringVars, wpc, wreq, mainVars>>
  BY DEF Push
<1>7. TypeOK'
  BY <1>0, <1>1, <1>4, <1>6 DEF TypeOK, OpMoves, ringVars, slotVars, mainVars
<1>8. CallTyped'
  BY <1>0, <1>1, CallTypedMove DEF CallTypedAt, At, CallOwns
<1>9. QueueLoads'
  <2>1. NewRequest(c).slot = s /\ state[s] = "LOADING"
        /\ layerId[s] = NewRequest(c).layer /\ expertId[s] = NewRequest(c).expert
    BY <1>1 DEF NewRequest, LoadInv, CallLoads, Push, At
  <2>2. ASSUME NEW p \in Classes, NEW i \in 1 .. Len(queue'[p])
        PROVE  LET r == queue'[p][i] IN
               /\ state[r.slot] = "LOADING"
               /\ layerId[r.slot] = r.layer /\ expertId[r.slot] = r.expert
    BY <1>5, <2>1 DEF LoadInv, QueueLoads
  <2>. QED
    BY <2>2, <1>6 DEF QueueLoads, ringVars, slotVars
<1>10. WorkerLoads'
  BY <1>6 DEF LoadInv, WorkerLoads, WorkerOwns, ReqKey, ringVars, slotVars
<1>11. CallLoads'
  BY <1>1, <1>6 DEF LoadInv, CallLoads, CallOwns, OpMoves, ringVars, slotVars
<1>12. NewRequest(c).slot = s
  BY DEF NewRequest
<1>13. QueueDistinct'
  <2>1. ASSUME NEW p \in Classes, NEW i \in 1 .. Len(queue[p])
        PROVE  queue[p][i].slot # s
    BY <1>1 DEF LoadInv, CallDistinct
  <2>2. ASSUME NEW p \in Classes, NEW r \in Classes,
               NEW i \in 1 .. Len(queue'[p]), NEW j \in 1 .. Len(queue'[r]),
               queue'[p][i].slot = queue'[r][j].slot
        PROVE  p = r /\ i = j
    <3>1. CASE i \in 1 .. Len(queue[p]) /\ queue'[p][i] = queue[p][i]
               /\ j \in 1 .. Len(queue[r]) /\ queue'[r][j] = queue[r][j]
      BY <2>2, <3>1 DEF LoadInv, QueueDistinct
    <3>. QED
      BY <1>5, <1>12, <2>1, <2>2, <3>1
  <2>. QED
    BY <2>2 DEF QueueDistinct
<1>14. WorkerDistinct'
  BY <1>1, <1>5, <1>6, <1>12 DEF LoadInv, WorkerDistinct, CallDistinct, WorkerOwns
<1>15. CallDistinct'
  BY <1>1, <1>5, <1>6, <1>12 DEF LoadInv, CallDistinct, CallOwns, WorkerOwns, OpMoves
<1>. QED
  BY <1>7, <1>8, <1>9, <1>10, <1>11, <1>13, <1>14, <1>15 DEF LoadInv

\* A slot that stops LOADING is one nobody else answers for.
LEMMA DropSlotLoadInv ==
  ASSUME LoadInv, TypeOK', CallTyped', NEW s \in Slots,
         UNCHANGED <<layerId, expertId, filled, data, queue>>,
         \A t \in Slots : t # s => state'[t] = state[t],
         \A p \in Classes : \A i \in 1 .. Len(queue[p]) : queue[p][i].slot # s,
         \A w \in Workers : WorkerOwns(w)' =>
            /\ WorkerOwns(w) /\ wreq[w].slot # s
            /\ wpc'[w] = wpc[w] /\ wreq'[w] = wreq[w],
         \A c \in Callers : CallOwns(c)' => CallOwns(c) /\ op[c].slot # s /\ op'[c] = op[c]
  PROVE  LoadInv'
<1>0. TypeOK /\ CallTyped
  BY DEF LoadInv
<1>1. QueueLoads'
  BY <1>0, QueueSlots DEF LoadInv, QueueLoads
<1>2. WorkerLoads'
  <2>1. \A w \in Workers : WorkerOwns(w) => wreq[w].slot \in Slots
    BY DEF LoadInv, WorkerLoads, Request
  <2>. QED
    BY <2>1 DEF LoadInv, WorkerLoads, ReqKey
<1>3. CallLoads'
  BY <1>0 DEF LoadInv, CallLoads, CallTyped, CallTypedAt
<1>4. QueueDistinct'
  BY DEF LoadInv, QueueDistinct
<1>5. WorkerDistinct'
  BY DEF LoadInv, WorkerDistinct
<1>6. CallDistinct'
  BY DEF LoadInv, CallDistinct
<1>. QED
  BY <1>1, <1>2, <1>3, <1>4, <1>5, <1>6 DEF LoadInv

LEMMA PushFullLoadInv ==
  ASSUME LoadInv, NEW c \in Callers, PushFull(c)
  PROVE  LoadInv'
<1> DEFINE s == op[c].slot
<1>0. TypeOK /\ CallTyped
  BY DEF LoadInv
<1>1. OpMoves(c) /\ op'[c].pc = "idle" /\ CallOwns(c) /\ ~CallOwns(c)' /\ s \in Slots
  BY <1>0, ReturnEffect DEF PushFull, CallOwns, At, CallTyped, CallTypedAt
<1>2. TypeOK'
  BY <1>0, <1>1 DEF TypeOK, OpMoves, PushFull, States, workVars, mainVars
<1>3. CallTyped'
  BY <1>0, <1>1, CallTypedMove DEF CallTypedAt, At, CallOwns
<1>4. \A t \in Slots : t # s => state'[t] = state[t]
  BY <1>0 DEF PushFull, TypeOK
<1>5. UNCHANGED <<layerId, expertId, filled, data, queue, wpc, wreq>>
  BY DEF PushFull, workVars
<1>6. \A p \in Classes : \A i \in 1 .. Len(queue[p]) : queue[p][i].slot # s
  BY <1>1 DEF LoadInv, CallDistinct
<1>7. \A w \in Workers : WorkerOwns(w)' => WorkerOwns(w) /\ wreq[w].slot # s
  BY <1>1, <1>5 DEF LoadInv, CallDistinct, WorkerOwns
<1>8. \A d \in Callers : CallOwns(d)' => CallOwns(d) /\ op[d].slot # s /\ op'[d] = op[d]
  BY <1>1 DEF LoadInv, CallDistinct, CallOwns, OpMoves
<1>. QED
  BY <1>1, <1>2, <1>3, <1>4, <1>5, <1>6, <1>7, <1>8, DropSlotLoadInv

-----------------------------------------------------------------------------
(***************************************************************************)
(* The workers.                                                            *)
(***************************************************************************)
\* The worker takes over the request from the queue's head.
LEMMA PopLoadInv ==
  ASSUME LoadInv, NEW w \in Workers, NEW q \in Classes, ~WorkerOwns(w), Pop(w, q)
  PROVE  LoadInv'
<1> DEFINE h == Head(queue[q])
<1>0. TypeOK /\ CallTyped
  BY DEF LoadInv
<1>1. /\ queue[q] \in Seq(Request) /\ queue[q] # <<>>
      /\ queue'[q] = Tail(queue[q])
      /\ \A p \in Classes : p # q => queue'[p] = queue[p]
  BY <1>0 DEF Pop, TypeOK
<1>2. h \in Request /\ h = queue[q][1] /\ 1 \in 1 .. Len(queue[q])
  BY <1>1, TailAt
<1>3. queue' \in [Classes -> Seq(Request)]
  BY <1>0, <1>1, TailAt DEF Pop, TypeOK
<1>4. ASSUME NEW p \in Classes, NEW i \in 1 .. Len(queue'[p])
      PROVE  \E j \in 1 .. Len(queue[p]) :
                /\ queue'[p][i] = queue[p][j]
                /\ j = IF p = q THEN i + 1 ELSE i
                /\ ~(p = q /\ j = 1)
  <2>1. CASE p = q
    BY <2>1, <1>1, TailAt
  <2>2. CASE p # q
    BY <2>2, <1>1
  <2>. QED
    BY <2>1, <2>2
<1>5. /\ wreq'[w] = h /\ wpc'[w] = "lookup"
      /\ \A v \in Workers : v # w => wreq'[v] = wreq[v] /\ wpc'[v] = wpc[v]
      /\ wreq' \in [Workers -> Request \cup {NoKey}]
      /\ wpc' \in [Workers -> WorkerLabels]
      /\ UNCHANGED <<ringVars, op, mainVars>>
  BY <1>0, <1>2 DEF Pop, TypeOK, WorkerLabels
<1>. HIDE DEF h
<1>6. TypeOK'
  BY <1>0, <1>3, <1>5 DEF TypeOK, ringVars, slotVars, mainVars
<1>7. CallTyped'
  BY <1>0, <1>5 DEF CallTyped, CallTypedAt, CallOwns, At
<1>8. QueueLoads'
  <2>1. ASSUME NEW p \in Classes, NEW i \in 1 .. Len(queue'[p])
        PROVE  LET r == queue'[p][i] IN
               /\ state[r.slot] = "LOADING"
               /\ layerId[r.slot] = r.layer /\ expertId[r.slot] = r.expert
    <3>1. PICK j \in 1 .. Len(queue[p]) : queue'[p][i] = queue[p][j]
      BY <1>4
    <3>. QED
      BY <3>1 DEF LoadInv, QueueLoads
  <2>. QED
    BY <2>1, <1>5 DEF QueueLoads, ringVars, slotVars
<1>9. WorkerLoads'
  <2>1. /\ state[h.slot] = "LOADING"
        /\ layerId[h.slot] = h.layer /\ expertId[h.slot] = h.expert
    BY <1>2 DEF LoadInv, QueueLoads
  <2>2. \A v \in Workers : v # w => WorkerOwns(v)' = WorkerOwns(v) /\ ReqKey(v)' = ReqKey(v)
    BY <1>5 DEF WorkerOwns, ReqKey
  <2>. QED
    BY <1>2, <1>5, <2>1, <2>2 DEF LoadInv, WorkerLoads, ringVars, slotVars
<1>10. CallLoads'
  BY <1>5 DEF LoadInv, CallLoads, CallOwns, ringVars, slotVars
<1>11. QueueDistinct'
  <2>1. ASSUME NEW p \in Classes, NEW r \in Classes,
               NEW i \in 1 .. Len(queue'[p]), NEW j \in 1 .. Len(queue'[r]),
               queue'[p][i].slot = queue'[r][j].slot
        PROVE  p = r /\ i = j
    <3>1. PICK k \in 1 .. Len(queue[p]) : /\ queue'[p][i] = queue[p][k]
                                          /\ k = IF p = q THEN i + 1 ELSE i
      BY <1>4
    <3>2. PICK m \in 1 .. Len(queue[r]) : /\ queue'[r][j] = queue[r][m]
                                          /\ m = IF r = q THEN j + 1 ELSE j
      BY <1>4
    <3>3. p = r /\ k = m
      BY <2>1, <3>1, <3>2 DEF LoadInv, QueueDistinct
    <3>4. i \in Int /\ j \in Int
      BY <1>3
    <3>. QED
      BY <3>1, <3>2, <3>3, <3>4
  <2>. QED
    BY <2>1 DEF QueueDistinct
<1>12. WorkerDistinct'
  <2>1. \A v \in Workers : WorkerOwns(v) => wreq[v].slot # h.slot
    BY <1>2 DEF LoadInv, WorkerDistinct
  <2>2. \A v \in Workers : v # w => WorkerOwns(v)' = WorkerOwns(v)
    BY <1>5 DEF WorkerOwns
  <2>3. \A p \in Classes : \A i \in 1 .. Len(queue'[p]) : queue'[p][i].slot # h.slot
    <3>1. ASSUME NEW p \in Classes, NEW i \in 1 .. Len(queue'[p])
          PROVE  queue'[p][i].slot # h.slot
      <4>1. PICK j \in 1 .. Len(queue[p]) : queue'[p][i] = queue[p][j] /\ ~(p = q /\ j = 1)
        BY <1>4
      <4>. QED
        BY <1>2, <4>1 DEF LoadInv, QueueDistinct
    <3>. QED
      BY <3>1
  <2>4. \A v \in Workers : v # w /\ WorkerOwns(v) =>
            \A p \in Classes : \A i \in 1 .. Len(queue'[p]) : queue'[p][i].slot # wreq[v].slot
    BY <1>4 DEF LoadInv, WorkerDistinct
  <2>. QED
    BY <1>5, <2>1, <2>2, <2>3, <2>4 DEF LoadInv, WorkerDistinct
<1>13. CallDistinct'
  <2>1. \A c \in Callers : CallOwns(c) => h.slot # op[c].slot
    BY <1>2 DEF LoadInv, CallDistinct
  <2>2. \A v \in Workers : v # w => WorkerOwns(v)' = WorkerOwns(v)
    BY <1>5 DEF WorkerOwns
  <2>3. \A c \in Callers : CallOwns(c) =>
            \A p \in Classes : \A i \in 1 .. Len(queue'[p]) : queue'[p][i].slot # op[c].slot
    BY <1>4 DEF LoadInv, CallDistinct
  <2>. QED
    BY <1>5, <2>1, <2>2, <2>3 DEF LoadInv, CallDistinct, CallOwns
<1>. QED
  BY <1>6, <1>7, <1>8, <1>9, <1>10, <1>11, <1>12, <1>13 DEF LoadInv

\* A worker that finds no request, or leaves its loop.
LEMMA IdleWorkerLoadInv ==
  ASSUME LoadInv, NEW w \in Workers, ~WorkerOwns(w), NEW label \in {"poll", "pollSpec", "exited"},
         wpc' = [wpc EXCEPT ![w] = label],
         UNCHANGED <<ringVars, queue, wreq, op, mainVars>>
  PROVE  LoadInv'
<1>0. TypeOK /\ CallTyped
  BY DEF LoadInv
<1>1. TypeOK'
  BY <1>0 DEF TypeOK, WorkerLabels, ringVars, slotVars, mainVars
<1>2. \A v \in Workers : WorkerOwns(v)' = WorkerOwns(v) /\ (WorkerOwns(v) => wpc'[v] = wpc[v])
  BY <1>0 DEF TypeOK, WorkerOwns
<1>3. CallTyped'
  BY <1>0 DEF CallTyped, CallTypedAt, CallOwns, At
<1>4. QueueLoads' /\ QueueDistinct' /\ CallLoads'
  BY DEF LoadInv, QueueLoads, QueueDistinct, CallLoads, CallOwns, ringVars, slotVars
<1>5. WorkerLoads' /\ WorkerDistinct'
  BY <1>2 DEF LoadInv, WorkerLoads, WorkerDistinct, ReqKey, ringVars, slotVars
<1>6. CallDistinct'
  BY <1>2 DEF LoadInv, CallDistinct, CallOwns
<1>. QED
  BY <1>1, <1>3, <1>4, <1>5, <1>6 DEF LoadInv

\* The worker writes the buffer of its slot, which stays LOADING.
LEMMA ReadLoadInv ==
  ASSUME LoadInv, NEW w \in Workers, ReadStart(w) \/ ReadOk(w)
  PROVE  LoadInv'
<1> DEFINE s == wreq[w].slot
<1>0. TypeOK /\ CallTyped
  BY DEF LoadInv
<1>1. WorkerOwns(w) /\ wreq[w] \in Request /\ s \in Slots /\ ReqKey(w) \in Keys
  BY DEF ReadStart, ReadOk, WorkerOwns, LoadInv, WorkerLoads, Request, ReqKey, Keys
<1>2. /\ UNCHANGED <<state, layerId, expertId, refCount, tick, globalTick, queue, wreq,
                     op, mainVars>>
      /\ \A t \in Slots : t # s => data'[t] = data[t] /\ filled'[t] = filled[t]
      /\ \A v \in Workers : v # w => wpc'[v] = wpc[v]
  BY <1>0 DEF ReadStart, ReadOk, TypeOK
<1>3. TypeOK'
  <2>1. CASE ReadStart(w)
    BY <1>0, <1>1, <2>1 DEF TypeOK, ReadStart, WorkerLabels, mainVars
  <2>2. CASE ReadOk(w)
    BY <1>0, <1>1, <2>2 DEF TypeOK, ReadOk, WorkerLabels, mainVars
  <2>. QED
    BY <2>1, <2>2
<1>4. /\ WorkerOwns(w)'
      /\ wpc'[w] = "publish" => filled'[s] /\ data'[s] = ReqKey(w)
  BY <1>0, <1>1 DEF TypeOK, ReadStart, ReadOk, WorkerOwns
<1>5. \A v \in Workers : WorkerOwns(v)' = WorkerOwns(v)
  BY <1>1, <1>2, <1>4 DEF WorkerOwns
<1>6. CallTyped'
  BY <1>0, <1>2 DEF CallTyped, CallTypedAt, CallOwns, At
<1>7. QueueLoads' /\ QueueDistinct' /\ CallLoads'
  BY <1>2 DEF LoadInv, QueueLoads, QueueDistinct, CallLoads, CallOwns
<1>8. WorkerLoads'
  <2>1. ASSUME NEW v \in Workers, v # w, WorkerOwns(v)
        PROVE  /\ wreq[v].slot \in Slots /\ wreq[v].slot # s
               /\ filled'[wreq[v].slot] = filled[wreq[v].slot]
               /\ data'[wreq[v].slot] = data[wreq[v].slot]
    BY <1>1, <1>2, <2>1 DEF LoadInv, WorkerLoads, WorkerDistinct, Request
  <2>. QED
    BY <1>1, <1>2, <1>4, <1>5, <2>1 DEF LoadInv, WorkerLoads, ReqKey
<1>9. WorkerDistinct' /\ CallDistinct'
  BY <1>2, <1>5 DEF LoadInv, WorkerDistinct, CallDistinct, CallOwns
<1>. QED
  BY <1>3, <1>6, <1>7, <1>8, <1>9 DEF LoadInv

\* The worker gives its slot up, or publishes it.
LEMMA FinishLoadInv ==
  ASSUME LoadInv, NEW w \in Workers, UnknownExpert(w) \/ ReadFail(w) \/ Publish(w)
  PROVE  LoadInv'
<1> DEFINE s == wreq[w].slot
<1>0. TypeOK /\ CallTyped
  BY DEF LoadInv
<1>1. WorkerOwns(w) /\ wreq[w] \in Request /\ s \in Slots
  BY DEF UnknownExpert, ReadFail, Publish, WorkerOwns, LoadInv, WorkerLoads, Request
<1>2. PICK result \in {"EMPTY", "READY"} : FinishLoad(w, result)
  BY DEF UnknownExpert, ReadFail, Publish
<1>3. UNCHANGED <<layerId, expertId, refCount, tick, filled, data, globalTick, queue, op, mainVars>>
  BY DEF UnknownExpert, ReadFail, Publish
<1>4. TypeOK'
  BY <1>0, <1>2, <1>3 DEF TypeOK, FinishLoad, States, WorkerLabels, mainVars
<1>5. CallTyped'
  BY <1>0, <1>3 DEF CallTyped, CallTypedAt, CallOwns, At
<1>6. \A t \in Slots : t # s => state'[t] = state[t]
  BY <1>0, <1>2 DEF TypeOK, FinishLoad
<1>7. \A p \in Classes : \A i \in 1 .. Len(queue[p]) : queue[p][i].slot # s
  BY <1>1 DEF LoadInv, WorkerDistinct
<1>8. \A v \in Workers : WorkerOwns(v)' =>
         /\ WorkerOwns(v) /\ wreq[v].slot # s
         /\ wpc'[v] = wpc[v] /\ wreq'[v] = wreq[v]
  BY <1>0, <1>1, <1>2 DEF TypeOK, FinishLoad, WorkerOwns, LoadInv, WorkerDistinct
<1>9. \A c \in Callers : CallOwns(c)' => CallOwns(c) /\ op[c].slot # s /\ op'[c] = op[c]
  BY <1>1, <1>3 DEF CallOwns, LoadInv, CallDistinct
<1>. QED
  BY <1>1, <1>3, <1>4, <1>5, <1>6, <1>7, <1>8, <1>9, DropSlotLoadInv

LEMMA WorkerLoadInv ==
  ASSUME LoadInv, NEW w \in Workers, WorkerStep(w)
  PROVE  LoadInv'
<1>1. CASE PollDemand(w)
  <2>1. ~WorkerOwns(w) /\ "demand" \in Classes
    BY <1>1 DEF PollDemand, WorkerOwns, Classes
  <2>2. CASE Pop(w, "demand")
    BY <2>1, <2>2, PopLoadInv
  <2>3. CASE PopMisses(w, "demand", "pollSpec")
    BY <2>1, <2>3, IdleWorkerLoadInv DEF PopMisses
  <2>. QED
    BY <1>1, <2>2, <2>3 DEF PollDemand
<1>2. CASE PollSpec(w)
  <2>1. ~WorkerOwns(w) /\ "spec" \in Classes
    BY <1>2 DEF PollSpec, WorkerOwns, Classes
  <2>2. CASE Pop(w, "spec")
    BY <2>1, <2>2, PopLoadInv
  <2>3. CASE PopMisses(w, "spec", "poll")
    BY <2>1, <2>3, IdleWorkerLoadInv DEF PopMisses
  <2>. QED
    BY <1>2, <2>2, <2>3 DEF PollSpec
<1>3. CASE UnknownExpert(w) \/ ReadFail(w) \/ Publish(w)
  BY <1>3, FinishLoadInv
<1>4. CASE ReadStart(w) \/ ReadOk(w)
  BY <1>4, ReadLoadInv
<1>5. CASE WorkerExit(w)
  BY <1>5, IdleWorkerLoadInv DEF WorkerExit, WorkerOwns
<1>. QED
  BY <1>1, <1>2, <1>3, <1>4, <1>5 DEF WorkerStep

-----------------------------------------------------------------------------
(***************************************************************************)
(* claim_specific, release and the request loop.                           *)
(***************************************************************************)
LEMMA ClaimSearchLoadInv ==
  ASSUME LoadInv,
         \/ \E k \in Keys : BeginClaim(k)
         \/ MatchKey \/ MatchNext \/ MatchNone \/ ClaimNotReady \/ Reclaim \/ ReclaimNot
  PROVE  LoadInv'
<1>. USE DEF CallTypedAt, CallOwns, At
<1>0. TypeOK /\ Main \in Callers /\ CallTypedAt(Main) /\ op[Main] \in Call
  BY DEF LoadInv, CallTyped, Callers, TypeOK
<1>1. CASE \E k \in Keys : BeginClaim(k)
  BY <1>0, <1>1, BeginClaimEffect, LocalMove DEF BeginClaim
<1>2. CASE MatchKey
  <2>1. op[Main].idx \in Slots
    BY <1>0, <1>2, RingAssumption DEF MatchKey, InLoop, Call, Slots
  <2>. QED
    BY <1>0, <1>2, <2>1, GotoEffect, LocalMove DEF MatchKey, SameCall, CallLabels
<1>3. CASE MatchNext
  BY <1>0, <1>3, NextIdxEffect, LocalMove DEF MatchNext, SameCall
<1>4. CASE MatchNone
  BY <1>0, <1>4, ReturnEffect, LocalMove DEF MatchNone
<1>5. CASE ClaimNotReady
  BY <1>0, <1>5, ClaimNotReadyEffect, LocalMove DEF ClaimNotReady, SameCall
<1>6. CASE Reclaim
  BY <1>0, <1>6, GotoEffect, LocalMove DEF Reclaim, SameCall, CallLabels
<1>7. CASE ReclaimNot
  BY <1>0, <1>7, ReclaimNotEffect, LocalMove DEF ReclaimNot, SameCall
<1>. QED
  BY <1>1, <1>2, <1>3, <1>4, <1>5, <1>6, <1>7

LEMMA ModRange ==
  ASSUME NEW n \in Nat
  PROVE  n % RefMod \in 0 .. RefMod - 1
  BY RingAssumption

LEMMA TakeClaimLoadInv ==
  ASSUME LoadInv, ClaimReady \/ TakeRef \/ ClaimDone
  PROVE  LoadInv'
<1> DEFINE i == op[Main].idx
<1>0. TypeOK /\ CallTyped /\ Main \in Callers
  BY DEF LoadInv, Callers
<1>1. /\ OpMoves(Main) /\ ~CallOwns(Main) /\ ~CallOwns(Main)'
      /\ i \in Slots /\ op[Main].want \in Keys /\ CallTypedAt(Main)'
  BY <1>0, GotoEffect, ReturnEffect
  DEF ClaimReady, TakeRef, ClaimDone, CallOwns, CallTyped, CallTypedAt, At, CallLabels, SameCall
<1>2. TypeOK'
  <2>. USE <1>0, <1>1 DEF TypeOK, OpMoves, workVars, mainVars
  <2>1. CASE ClaimReady
    BY <2>1 DEF ClaimReady, States
  <2>2. CASE TakeRef
    <3>0. refCount[i] + 1 \in Nat
      BY RingAssumption
    <3>1. (refCount[i] + 1) % RefMod \in 0 .. RefMod - 1
      BY <3>0, ModRange
    <3>. QED
      BY <2>2, <3>1 DEF TakeRef
  <2>3. CASE ClaimDone
    BY <2>3 DEF ClaimDone, Touch
  <2>. QED
    BY <2>1, <2>2, <2>3
<1>3. CallTyped'
  BY <1>0, <1>1, CallTypedMove
<1>4. \A c \in Callers : CallOwns(c)' => CallOwns(c) /\ op'[c] = op[c]
  BY <1>1 DEF OpMoves, CallOwns
<1>5. UNCHANGED <<layerId, expertId, filled, data, queue, wpc, wreq>>
  BY DEF ClaimReady, TakeRef, ClaimDone, workVars
<1>6. \A s \in Slots : state[s] = "LOADING" => state'[s] = "LOADING"
  BY <1>0 DEF ClaimReady, TakeRef, ClaimDone, TypeOK
<1>. QED
  BY <1>2, <1>3, <1>4, <1>5, <1>6, QuietMove

LEMMA OuterLoadInv ==
  ASSUME LoadInv,
         \/ \E h \in held : Release(h)
         \/ BeginRequest \/ EndRequest \/ Shutdown \/ UNCHANGED vars
  PROVE  LoadInv'
<1>0. TypeOK /\ CallTyped
  BY DEF LoadInv
<1>1. UNCHANGED <<state, layerId, expertId, filled, data, tick, globalTick, workVars, op>>
  BY DEF Release, BeginRequest, EndRequest, Shutdown, StopPrewarm, ShutdownStreamer, FreeRing,
         vars, ringVars, slotVars
<1>2. refCount' \in [Slots -> 0 .. RefMod - 1]
  <2>1. CASE \E h \in held : Release(h)
    <3>1. PICK h \in held : Release(h)
      BY <2>1
    <3>2. h.slot \in Slots
      BY <1>0 DEF TypeOK
    <3>3. refCount[h.slot] + RefMod - 1 \in Nat
      BY <1>0, <3>2, RingAssumption DEF TypeOK
    <3>. QED
      BY <1>0, <3>1, <3>2, <3>3, ModRange DEF Release, TypeOK
  <2>2. CASE refCount' = refCount
    BY <1>0, <2>2 DEF TypeOK
  <2>. QED
    BY <2>1, <2>2 DEF BeginRequest, EndRequest, Shutdown, StopPrewarm, ShutdownStreamer, FreeRing,
                      vars, ringVars, slotVars
<1>3. held' \subseteq held /\ busy' \in BOOLEAN
      /\ phase' \in {"serving", "stopping", "draining", "freed"}
  BY <1>0 DEF TypeOK, Release, BeginRequest, EndRequest, Shutdown, StopPrewarm,
              ShutdownStreamer, FreeRing, vars, mainVars
<1>4. TypeOK'
  BY <1>0, <1>1, <1>2, <1>3 DEF TypeOK, workVars
<1>5. CallTyped'
  BY <1>0, <1>1 DEF CallTyped, CallTypedAt, CallOwns, At
<1>6. \A c \in Callers : CallOwns(c)' => CallOwns(c) /\ op'[c] = op[c]
  BY <1>1 DEF CallOwns
<1>. QED
  BY <1>1, <1>4, <1>5, <1>6, QuietMove DEF workVars

LEMMA LoadInvInductive == LoadInv /\ [Next]_vars => LoadInv'
<1> SUFFICES ASSUME LoadInv, [Next]_vars PROVE LoadInv'
  OBVIOUS
<1>1. CASE Calls
  <2>1. CASE \E c \in Callers, k \in Keys, class \in Classes : BeginPrefetch(c, k, class)
    BY <2>1, SearchLoadInv
  <2>2. CASE \E k \in Keys : BeginClaim(k)
    BY <2>2, ClaimSearchLoadInv
  <2>3. CASE \E h \in held : Release(h)
    BY <2>3, OuterLoadInv
  <2>. QED
    BY <1>1, <2>1, <2>2, <2>3 DEF Calls
<1>2. CASE \E c \in Callers : PrefetchStep(c)
  <2>. PICK c \in Callers : PrefetchStep(c)
    BY <1>2
  <2>. QED
    BY SearchLoadInv, ScanHitLoadInv, TakeSlotLoadInv, SetMetaLoadInv, PushLoadInv, PushFullLoadInv
    DEF PrefetchStep
<1>3. CASE ClaimStep
  BY <1>3, ClaimSearchLoadInv, TakeClaimLoadInv DEF ClaimStep
<1>4. CASE \E w \in Workers : WorkerStep(w)
  BY <1>4, WorkerLoadInv
<1>5. CASE BeginRequest \/ EndRequest \/ Shutdown \/ Exited \/ UNCHANGED vars
  BY <1>5, OuterLoadInv DEF Exited
<1>. QED
  BY <1>1, <1>2, <1>3, <1>4, <1>5 DEF Next

LEMMA InitLoadInv == Init => LoadInv
<1> SUFFICES ASSUME Init PROVE LoadInv
  OBVIOUS
<1>1. TypeOK
  <2>1. queue \in [Classes -> Seq(Request)]
    BY DEF Init
  <2>2. 0 \in 0 .. RefMod - 1
    BY RingAssumption
  <2>3. op \in [Callers -> Call]
    BY NoCallType DEF Init
  <2>4. wreq \in [Workers -> Request \cup {NoKey}]
    BY DEF Init
  <2>. QED
    BY <2>1, <2>2, <2>3, <2>4 DEF Init, TypeOK, States, WorkerLabels
<1>2. CallTyped
  BY DEF Init, CallTyped, CallTypedAt, CallOwns, At, NoCall
<1>3. QueueLoads /\ QueueDistinct
  BY DEF Init, QueueLoads, QueueDistinct
<1>4. WorkerLoads /\ WorkerDistinct
  BY DEF Init, WorkerLoads, WorkerDistinct, WorkerOwns
<1>5. CallLoads /\ CallDistinct
  BY DEF Init, CallLoads, CallDistinct, CallOwns, NoCall
<1>. QED
  BY <1>1, <1>2, <1>3, <1>4, <1>5 DEF LoadInv

\* Every variable of the streamer keeps its type, with or without a Prewarm
\* thread: ids, reference counts and slot indices stay in range.
THEOREM TypeCorrect == Spec => []TypeOK
<1>1. LoadInv => TypeOK
  BY DEF LoadInv
<1>. QED
  BY <1>1, InitLoadInv, LoadInvInductive, PTL DEF Spec

\* With or without a Prewarm thread: the calls that own a slot, the queued
\* requests and the workers' requests are for LOADING slots with their ids, and
\* no two of them are for one slot.
THEOREM LoadsOwned == Spec => []LoadInv
  BY InitLoadInv, LoadInvInductive, PTL DEF Spec

-----------------------------------------------------------------------------
(***************************************************************************)
(* The end of the process: who may still be at work in each phase.         *)
(***************************************************************************)
\* Between requests Main is in no call and holds no slot.
QuietMain == ~busy => At(Main, "idle") /\ held = {}

\* The shutdown starts between requests, and no request starts after it.
StopsQuiet == phase # "serving" => ~busy

\* The workers' flag is raised after the Prewarm thread is joined, and the
\* memory is freed after the workers are.
Joined ==
    /\ phase \in {"draining", "freed"} => \A c \in Prewarmers : At(c, "idle")
    /\ phase = "freed" => \A w \in Workers : wpc[w] = "exited"

LifeInv == TypeOK /\ QuietMain /\ StopsQuiet /\ Joined

\* A step of a call: the caller was in one, and no other caller moves.
LEMMA CallerMoves ==
  ASSUME TypeOK, NEW c \in Callers,
         \/ \E k \in Keys, class \in Classes : BeginPrefetch(c, k, class)
         \/ PrefetchStep(c)
         \/ c = Main /\ (ClaimStep \/ \E k \in Keys : BeginClaim(k))
  PROVE  \A d \in Callers : d # c => op'[d] = op[d]
<1>. USE DEF TypeOK
<1>1. CASE \E k \in Keys, class \in Classes : BeginPrefetch(c, k, class)
  BY <1>1 DEF BeginPrefetch
<1>2. CASE PrefetchStep(c)
  BY <1>2
  DEF PrefetchStep, ScanHit, ScanNext, ScanMiss, ClaimEmpty, EmptyNext, NoneEmpty, LruTake,
      LruSkip, LruNone, EvictLoad, EvictCas, EvictLost, SetLayer, SetExpert, SetRef, SetTick,
      Push, PushFull, Return, Goto, NextIdx, Restart
<1>3. CASE c = Main /\ ClaimStep
  BY <1>3
  DEF ClaimStep, MatchKey, MatchNext, MatchNone, ClaimReady, ClaimNotReady, Reclaim, ReclaimNot,
      TakeRef, ClaimDone, Return, Goto, NextIdx
<1>4. CASE c = Main /\ \E k \in Keys : BeginClaim(k)
  BY <1>4 DEF BeginClaim
<1>. QED
  BY <1>1, <1>2, <1>3, <1>4

\* The steps of prefetch and of claim_specific are steps of a call in progress,
\* and leave the workers and the shutdown sequence alone.
LEMMA PrefetchOuter ==
  ASSUME NEW c \in Callers, PrefetchStep(c)
  PROVE  ~At(c, "idle") /\ UNCHANGED <<wpc, mainVars>>
  BY DEF At, PrefetchStep, ScanHit, ScanNext, ScanMiss, ClaimEmpty, EmptyNext, NoneEmpty, LruTake,
         LruSkip, LruNone, EvictLoad, EvictCas, EvictLost, SetLayer, SetExpert, SetRef, SetTick,
         Push, PushFull, workVars

LEMMA ClaimOuter ==
  ASSUME ClaimStep
  PROVE  ~At(Main, "idle") /\ UNCHANGED <<wpc, busy, phase>>
  BY DEF At, ClaimStep, MatchKey, MatchNext, MatchNone, ClaimReady, ClaimNotReady, Reclaim,
         ReclaimNot, TakeRef, ClaimDone, workVars, mainVars

LEMMA WorkerOuter ==
  ASSUME NEW w \in Workers, WorkerStep(w)
  PROVE  wpc[w] # "exited" /\ UNCHANGED <<op, mainVars>>
  BY DEF WorkerStep, PollDemand, PollSpec, Pop, PopMisses, UnknownExpert, ReadStart, ReadOk,
         ReadFail, Publish, WorkerExit

LEMMA LifeInvInductive == LifeInv /\ TypeOK' /\ [Next]_vars => LifeInv'
<1> SUFFICES ASSUME LifeInv, TypeOK', [Next]_vars PROVE LifeInv'
  OBVIOUS
<1>. USE DEF At
<1>0. /\ TypeOK /\ QuietMain /\ StopsQuiet /\ Joined
      /\ Main \in Callers /\ Prewarmers \subseteq Callers /\ Main \notin Prewarmers
  BY ThreadAssumption DEF LifeInv, Callers
<1>1. CASE \E c \in Callers, k \in Keys, class \in Classes : BeginPrefetch(c, k, class)
  <2>. PICK c \in Callers, k \in Keys, class \in Classes : BeginPrefetch(c, k, class)
    BY <1>1
  <2>1. phase = "serving" /\ busy = (c = Main) /\ UNCHANGED <<wpc, held, busy, phase>>
    BY DEF BeginPrefetch, MayCall, workVars, mainVars
  <2>2. c # Main => op'[Main] = op[Main]
    BY <1>0, CallerMoves
  <2>3. QuietMain'
    BY <1>0, <2>1, <2>2 DEF QuietMain
  <2>. QED
    BY <1>0, <2>1, <2>3 DEF LifeInv, StopsQuiet, Joined
<1>2. CASE \E k \in Keys : BeginClaim(k)
  <2>1. phase = "serving" /\ busy /\ UNCHANGED <<wpc, held, busy, phase>>
    BY <1>2 DEF BeginClaim, MayCall, workVars, mainVars
  <2>. QED
    BY <1>0, <2>1 DEF LifeInv, QuietMain, StopsQuiet, Joined
<1>3. CASE \E h \in held : Release(h)
  <2>1. held # {} /\ UNCHANGED <<wpc, op, busy, phase>>
    BY <1>3 DEF Release, workVars
  <2>. QED
    BY <1>0, <2>1 DEF LifeInv, QuietMain, StopsQuiet, Joined
<1>4. CASE \E c \in Callers : PrefetchStep(c)
  <2>. PICK c \in Callers : PrefetchStep(c)
    BY <1>4
  <2>1. ~At(c, "idle") /\ UNCHANGED <<wpc, held, busy, phase>>
    BY PrefetchOuter DEF mainVars
  <2>2. \A d \in Callers : d # c => op'[d] = op[d]
    BY <1>0, CallerMoves
  <2>3. QuietMain'
    BY <1>0, <2>1, <2>2 DEF QuietMain
  <2>4. Joined'
    BY <1>0, <2>1, <2>2 DEF Joined, QuietMain, StopsQuiet
  <2>. QED
    BY <1>0, <2>1, <2>3, <2>4 DEF LifeInv, StopsQuiet
<1>5. CASE ClaimStep
  <2>1. busy /\ UNCHANGED <<wpc, busy, phase>>
    BY <1>0, <1>5, ClaimOuter DEF QuietMain
  <2>2. \A d \in Callers : d # Main => op'[d] = op[d]
    BY <1>0, <1>5, CallerMoves
  <2>. QED
    BY <1>0, <2>1, <2>2 DEF LifeInv, QuietMain, StopsQuiet, Joined
<1>6. CASE \E w \in Workers : WorkerStep(w)
  <2>1. (\E w \in Workers : wpc[w] # "exited") /\ UNCHANGED <<op, held, busy, phase>>
    BY <1>6, WorkerOuter DEF mainVars
  <2>. QED
    BY <1>0, <2>1 DEF LifeInv, QuietMain, StopsQuiet, Joined
<1>7. CASE BeginRequest \/ EndRequest \/ Shutdown
  <2>1. UNCHANGED <<op, held, wpc>>
    BY <1>7 DEF BeginRequest, EndRequest, Shutdown, StopPrewarm, ShutdownStreamer, FreeRing, workVars
  <2>2. CASE BeginRequest
    BY <1>0, <2>1, <2>2 DEF BeginRequest, LifeInv, QuietMain, StopsQuiet, Joined
  <2>3. CASE EndRequest
    BY <1>0, <2>1, <2>3 DEF EndRequest, LifeInv, QuietMain, StopsQuiet, Joined
  <2>4. CASE StopPrewarm
    BY <1>0, <2>1, <2>4 DEF StopPrewarm, LifeInv, QuietMain, StopsQuiet, Joined
  <2>5. CASE ShutdownStreamer
    BY <1>0, <2>1, <2>5 DEF ShutdownStreamer, LifeInv, QuietMain, StopsQuiet, Joined
  <2>6. CASE FreeRing
    BY <1>0, <2>1, <2>6 DEF FreeRing, LifeInv, QuietMain, StopsQuiet, Joined
  <2>. QED
    BY <1>7, <2>2, <2>3, <2>4, <2>5, <2>6 DEF Shutdown
<1>8. CASE Exited \/ UNCHANGED vars
  BY <1>0, <1>8 DEF Exited, LifeInv, QuietMain, StopsQuiet, Joined, vars, workVars, mainVars
<1>. QED
  BY <1>1, <1>2, <1>3, <1>4, <1>5, <1>6, <1>7, <1>8 DEF Next, Calls

\* With or without a Prewarm thread: once the ring's memory is freed no thread
\* is in a call, no worker runs and no slot is held, so none can touch it.
THEOREM RingFreedLast == Spec => []NoUseAfterFree
<1>1. Init => LifeInv
  BY InitLoadInv DEF Init, LoadInv, LifeInv, QuietMain, StopsQuiet, Joined, At, NoCall, Callers
<1>2. LifeInv => NoUseAfterFree
  BY DEF LifeInv, QuietMain, StopsQuiet, Joined, NoUseAfterFree, Callers, At
<1>. QED
  BY <1>1, <1>2, TypeCorrect, LifeInvInductive, PTL DEF Spec

-----------------------------------------------------------------------------
(***************************************************************************)
(* No load is forgotten: each LOADING slot has an owner.                   *)
(***************************************************************************)
InQueue(s)  == \E p \in Classes : \E i \in 1 .. Len(queue[p]) : queue[p][i].slot = s
InCall(s)   == \E c \in Callers : CallOwns(c) /\ op[c].slot = s
InWorker(s) == \E w \in Workers : WorkerOwns(w) /\ wreq[w].slot = s

LoadOwned ==
    \A s \in Slots : state[s] = "LOADING" => InQueue(s) \/ InCall(s) \/ InWorker(s)

QueueBound == \A p \in Classes : Len(queue[p]) <= QueueCapacity

OwnInv == LoadOwned /\ QueueBound

\* A step that starts no load, and takes no slot from a call or a worker.
LEMMA QuietOwned ==
  ASSUME OwnInv, UNCHANGED queue,
         \A s \in Slots : state'[s] = "LOADING" => state[s] = "LOADING",
         \A c \in Callers : CallOwns(c) => CallOwns(c)' /\ op'[c].slot = op[c].slot,
         \A w \in Workers : WorkerOwns(w) => WorkerOwns(w)' /\ wreq'[w] = wreq[w]
  PROVE  OwnInv'
<1>1. QueueBound'
  BY DEF OwnInv, QueueBound
<1>2. \A s : InQueue(s) => InQueue(s)'
  BY DEF InQueue
<1>3. \A s : InCall(s) => InCall(s)'
  BY DEF InCall
<1>4. \A s : InWorker(s) => InWorker(s)'
  BY DEF InWorker
<1>. QED
  BY <1>1, <1>2, <1>3, <1>4 DEF OwnInv, LoadOwned

\* A prefetch call that moves without gaining or losing a slot.
LEMMA SearchOwned ==
  ASSUME LoadInv, OwnInv, NEW c \in Callers,
         \/ \E k \in Keys, class \in Classes : BeginPrefetch(c, k, class)
         \/ ScanHit(c) \/ ScanNext(c) \/ ScanMiss(c) \/ EmptyNext(c) \/ NoneEmpty(c)
         \/ LruTake(c) \/ LruSkip(c) \/ LruNone(c) \/ EvictLoad(c) \/ EvictLost(c)
  PROVE  OwnInv'
<1>1. ~CallOwns(c)
  BY DEF CallOwns, BeginPrefetch, MayCall, ScanHit, ScanNext, ScanMiss, EmptyNext, NoneEmpty,
         LruTake, LruSkip, LruNone, EvictLoad, EvictLost, At
<1>2. \A d \in Callers : d # c => op'[d] = op[d]
  BY CallerMoves DEF LoadInv, PrefetchStep
<1>3. UNCHANGED <<state, queue, wpc, wreq>>
  BY DEF BeginPrefetch, ScanHit, ScanNext, ScanMiss, EmptyNext, NoneEmpty, LruTake, LruSkip,
         LruNone, EvictLoad, EvictLost, ringVars, slotVars, workVars
<1>4. \A d \in Callers : CallOwns(d) => CallOwns(d)' /\ op'[d].slot = op[d].slot
  BY <1>1, <1>2 DEF CallOwns
<1>. QED
  BY <1>3, <1>4, QuietOwned DEF WorkerOwns

LEMMA SetMetaOwned ==
  ASSUME LoadInv, OwnInv, NEW c \in Callers,
         SetLayer(c) \/ SetExpert(c) \/ SetRef(c) \/ SetTick(c)
  PROVE  OwnInv'
<1>1. OpMoves(c) /\ SameCall(c) /\ CallOwns(c)'
  BY GotoEffect DEF LoadInv, SetLayer, SetExpert, SetRef, SetTick, CallOwns, CallLabels
<1>2. UNCHANGED <<state, queue, wpc, wreq>>
  BY DEF SetLayer, SetExpert, SetRef, SetTick, workVars
<1>3. \A d \in Callers : CallOwns(d) => CallOwns(d)' /\ op'[d].slot = op[d].slot
  BY <1>1 DEF CallOwns, OpMoves, SameCall
<1>. QED
  BY <1>2, <1>3, QuietOwned DEF WorkerOwns

\* The call that makes a slot LOADING owns it.
LEMMA TakeSlotOwned ==
  ASSUME LoadInv, OwnInv, NEW c \in Callers, ClaimEmpty(c) \/ EvictCas(c)
  PROVE  OwnInv'
<1> DEFINE s == op'[c].slot
<1>0. TypeOK
  BY DEF LoadInv
<1>1. /\ OpMoves(c) /\ CallOwns(c)' /\ ~CallOwns(c)
      /\ state' = [state EXCEPT ![s] = "LOADING"]
      /\ UNCHANGED <<queue, wpc, wreq>>
  <2>1. CASE ClaimEmpty(c)
    BY <1>0, <2>1, ClaimEmptyEffect DEF ClaimEmpty, At, CallOwns, workVars
  <2>2. CASE EvictCas(c)
    BY <1>0, <2>2, GotoEffect DEF EvictCas, SameCall, At, CallOwns, CallLabels, workVars
  <2>. QED
    BY <2>1, <2>2
<1>2. \A t : t = s => InCall(t)'
  BY <1>1 DEF InCall
<1>3. \A t \in Slots : t # s => state'[t] = state[t]
  BY <1>0, <1>1 DEF TypeOK
<1>4. \A t : InCall(t) => InCall(t)'
  BY <1>1 DEF InCall, CallOwns, OpMoves
<1>5. \A t : InQueue(t)' = InQueue(t) /\ InWorker(t)' = InWorker(t)
  BY <1>1 DEF InQueue, InWorker, WorkerOwns
<1>6. LoadOwned'
  BY <1>2, <1>3, <1>4, <1>5 DEF OwnInv, LoadOwned
<1>. QED
  BY <1>1, <1>6 DEF OwnInv, QueueBound

\* The queue's new entry owns the slot of the call that pushed it.
LEMMA PushOwned ==
  ASSUME LoadInv, OwnInv, NEW c \in Callers, Push(c)
  PROVE  OwnInv'
<1> DEFINE q == op[c].class
           r == NewRequest(c)
<1>0. TypeOK
  BY DEF LoadInv
<1>1. OpMoves(c) /\ UNCHANGED <<state, wpc, wreq>>
  BY <1>0, ReturnEffect DEF Push, ringVars, slotVars
<1>2. q \in Classes /\ queue[q] \in Seq(Request) /\ Len(queue[q]) < QueueCapacity
  BY <1>0 DEF Push, TypeOK, Call
<1>3. queue'[q] = Append(queue[q], r) /\ \A p \in Classes : p # q => queue'[p] = queue[p]
  BY <1>0, <1>2 DEF Push, TypeOK
<1>4. /\ Len(queue'[q]) = Len(queue[q]) + 1 /\ queue'[q][Len(queue[q]) + 1] = r
      /\ \A i \in 1 .. Len(queue[q]) : queue'[q][i] = queue[q][i]
      /\ Len(queue[q]) \in Nat
  <2>. HIDE DEF r
  <2>. QED
    BY <1>2, <1>3
<1>5. QueueBound'
  <2>1. \A m, n \in Nat : m < n => m + 1 <= n
    OBVIOUS
  <2>2. Len(queue'[q]) <= QueueCapacity
    BY <1>2, <1>4, <2>1, RingAssumption
  <2>. QED
    BY <1>3, <2>2 DEF OwnInv, QueueBound
<1>6. \A s : InQueue(s) => InQueue(s)'
  <2> SUFFICES ASSUME NEW s, InQueue(s) PROVE InQueue(s)'
    OBVIOUS
  <2>1. PICK p \in Classes : \E i \in 1 .. Len(queue[p]) : queue[p][i].slot = s
    BY DEF InQueue
  <2>2. PICK i \in 1 .. Len(queue[p]) : queue[p][i].slot = s
    BY <2>1
  <2>3. i \in 1 .. Len(queue'[p]) /\ queue'[p][i].slot = s
    <3>1. CASE p = q
      BY <3>1, <2>2, <1>4
    <3>2. CASE p # q
      BY <3>2, <2>2, <1>3
    <3>. QED
      BY <3>1, <3>2
  <2>. QED
    BY <2>3 DEF InQueue
<1>7. \A s : s = op[c].slot => InQueue(s)'
  <2>1. r.slot = op[c].slot
    BY DEF NewRequest
  <2>2. Len(queue[q]) + 1 \in 1 .. Len(queue'[q])
    BY <1>4
  <2>. QED
    BY <1>2, <1>4, <2>1, <2>2 DEF InQueue
<1>8. \A s : InCall(s) => InCall(s)' \/ s = op[c].slot
  BY <1>1 DEF InCall, CallOwns, OpMoves
<1>9. \A s : InWorker(s)' = InWorker(s)
  BY <1>1 DEF InWorker, WorkerOwns
<1>10. LoadOwned'
  BY <1>1, <1>6, <1>7, <1>8, <1>9 DEF OwnInv, LoadOwned
<1>. QED
  BY <1>5, <1>10 DEF OwnInv

\* A full queue: the call gives up the slot with its ownership.
LEMMA PushFullOwned ==
  ASSUME LoadInv, OwnInv, NEW c \in Callers, PushFull(c)
  PROVE  OwnInv'
<1> DEFINE s == op[c].slot
<1>0. TypeOK
  BY DEF LoadInv
<1>1. OpMoves(c) /\ UNCHANGED <<queue, wpc, wreq>> /\ state' = [state EXCEPT ![s] = "EMPTY"]
  BY <1>0, ReturnEffect DEF PushFull, workVars
<1>2. s \in Slots
  BY DEF PushFull, LoadInv, CallTyped, CallTypedAt, CallOwns, At
<1>3. state'[s] = "EMPTY" /\ \A t \in Slots : t # s => state'[t] = state[t]
  BY <1>0, <1>1, <1>2 DEF TypeOK
<1>4. \A t : InCall(t) => InCall(t)' \/ t = s
  BY <1>1 DEF InCall, CallOwns, OpMoves
<1>5. \A t : InQueue(t)' = InQueue(t) /\ InWorker(t)' = InWorker(t)
  BY <1>1 DEF InQueue, InWorker, WorkerOwns
<1>6. LoadOwned'
  BY <1>3, <1>4, <1>5 DEF OwnInv, LoadOwned
<1>. QED
  BY <1>1, <1>6 DEF OwnInv, QueueBound

\* The worker that pops a request owns the slot its entry owned.
LEMMA PopOwned ==
  ASSUME LoadInv, OwnInv, NEW w \in Workers, NEW q \in Classes, ~WorkerOwns(w), Pop(w, q)
  PROVE  OwnInv'
<1> DEFINE h == Head(queue[q])
<1>0. TypeOK
  BY DEF LoadInv
<1>1. /\ queue[q] \in Seq(Request) /\ queue[q] # <<>> /\ queue'[q] = Tail(queue[q])
      /\ \A p \in Classes : p # q => queue'[p] = queue[p]
      /\ UNCHANGED <<state, op>>
  BY <1>0 DEF Pop, TypeOK, ringVars, slotVars
<1>2. /\ h = queue[q][1] /\ Len(queue[q]) \in Nat /\ Len(queue'[q]) = Len(queue[q]) - 1
      /\ \A i \in 1 .. Len(queue[q]) - 1 : queue'[q][i] = queue[q][i + 1]
  BY <1>1
<1>3. /\ wreq'[w] = h /\ wpc'[w] = "lookup"
      /\ \A v \in Workers : v # w => wreq'[v] = wreq[v] /\ wpc'[v] = wpc[v]
  BY <1>0 DEF Pop, TypeOK
<1>. HIDE DEF h
<1>4. QueueBound'
  <2>1. \A m, n \in Nat : m <= n => m - 1 <= n
    OBVIOUS
  <2>2. Len(queue'[q]) <= QueueCapacity
    BY <1>2, <2>1, RingAssumption DEF OwnInv, QueueBound
  <2>. QED
    BY <1>1, <2>2 DEF OwnInv, QueueBound
<1>5. \A s : s = h.slot => InWorker(s)'
  BY <1>3 DEF InWorker, WorkerOwns
<1>6. \A s : InQueue(s) => InQueue(s)' \/ s = h.slot
  <2> SUFFICES ASSUME NEW s, InQueue(s), s # h.slot PROVE InQueue(s)'
    OBVIOUS
  <2>1. PICK p \in Classes : \E i \in 1 .. Len(queue[p]) : queue[p][i].slot = s
    BY DEF InQueue
  <2>2. PICK i \in 1 .. Len(queue[p]) : queue[p][i].slot = s
    BY <2>1
  <2>3. CASE p = q
    <3>1. i # 1
      BY <1>2, <2>2, <2>3
    <3>2. i - 1 \in 1 .. Len(queue[q]) - 1 /\ (i - 1) + 1 = i
      BY <1>2, <2>2, <2>3, <3>1
    <3>3. queue'[q][i - 1] = queue[q][i]
      BY <1>2, <3>2
    <3>. QED
      BY <1>2, <2>2, <2>3, <3>2, <3>3 DEF InQueue
  <2>4. CASE p # q
    BY <1>1, <2>2, <2>4 DEF InQueue
  <2>. QED
    BY <2>3, <2>4
<1>7. \A s : InCall(s)' = InCall(s)
  BY <1>1 DEF InCall, CallOwns
<1>8. \A s : InWorker(s) => InWorker(s)'
  BY <1>3 DEF InWorker, WorkerOwns
<1>9. LoadOwned'
  BY <1>1, <1>5, <1>6, <1>7, <1>8 DEF OwnInv, LoadOwned
<1>. QED
  BY <1>4, <1>9 DEF OwnInv

\* A worker that ends its load, one way or the other, changes its slot's state.
LEMMA FinishOwned ==
  ASSUME LoadInv, OwnInv, NEW w \in Workers, UnknownExpert(w) \/ ReadFail(w) \/ Publish(w)
  PROVE  OwnInv'
<1> DEFINE s == wreq[w].slot
<1>0. TypeOK
  BY DEF LoadInv
<1>1. s \in Slots /\ UNCHANGED <<queue, op>>
  BY DEF UnknownExpert, ReadFail, Publish, WorkerOwns, LoadInv, WorkerLoads, Request
<1>2. state'[s] # "LOADING" /\ \A t \in Slots : t # s => state'[t] = state[t]
  BY <1>0, <1>1 DEF UnknownExpert, ReadFail, Publish, FinishLoad, TypeOK
<1>3. \A v \in Workers : v # w => wreq'[v] = wreq[v] /\ wpc'[v] = wpc[v]
  BY <1>0 DEF UnknownExpert, ReadFail, Publish, FinishLoad, TypeOK
<1>4. \A t : InWorker(t) => InWorker(t)' \/ t = s
  BY <1>3 DEF InWorker, WorkerOwns
<1>5. \A t : InQueue(t)' = InQueue(t) /\ InCall(t)' = InCall(t)
  BY <1>1 DEF InQueue, InCall, CallOwns
<1>6. LoadOwned'
  BY <1>2, <1>4, <1>5 DEF OwnInv, LoadOwned
<1>. QED
  BY <1>1, <1>6 DEF OwnInv, QueueBound

LEMMA WorkerOwned ==
  ASSUME LoadInv, OwnInv, NEW w \in Workers, WorkerStep(w)
  PROVE  OwnInv'
<1>0. TypeOK
  BY DEF LoadInv
<1>1. CASE UnknownExpert(w) \/ ReadFail(w) \/ Publish(w)
  BY <1>1, FinishOwned
<1>2. CASE \E q \in Classes : ~WorkerOwns(w) /\ Pop(w, q)
  BY <1>2, PopOwned
<1>3. CASE \/ ReadStart(w) \/ ReadOk(w) \/ WorkerExit(w)
           \/ \E q \in Classes, label \in WorkerLabels : ~WorkerOwns(w) /\ PopMisses(w, q, label)
  <2>1. UNCHANGED <<queue, state, op, wreq>>
    BY <1>3 DEF ReadStart, ReadOk, WorkerExit, PopMisses, ringVars, slotVars
  <2>2. \A v \in Workers : v # w => wpc'[v] = wpc[v]
    BY <1>0, <1>3 DEF ReadStart, ReadOk, WorkerExit, PopMisses, TypeOK
  <2>3. WorkerOwns(w) => WorkerOwns(w)'
    BY <1>0, <1>3 DEF ReadStart, ReadOk, WorkerExit, PopMisses, TypeOK, WorkerOwns
  <2>4. \A v \in Workers : WorkerOwns(v) => WorkerOwns(v)' /\ wreq'[v] = wreq[v]
    BY <2>1, <2>2, <2>3 DEF WorkerOwns
  <2>5. \A c \in Callers : CallOwns(c) => CallOwns(c)' /\ op'[c].slot = op[c].slot
    BY <2>1 DEF CallOwns
  <2>. QED
    BY <2>1, <2>4, <2>5, QuietOwned
<1>4. PollDemand(w) \/ PollSpec(w) =>
        /\ ~WorkerOwns(w)
        /\ \/ \E q \in Classes : Pop(w, q)
           \/ \E q \in Classes, label \in WorkerLabels : PopMisses(w, q, label)
  BY DEF PollDemand, PollSpec, WorkerOwns, Classes, WorkerLabels
<1>. QED
  BY <1>1, <1>2, <1>3, <1>4 DEF WorkerStep

LEMMA OtherOwned ==
  ASSUME LoadInv, OwnInv,
         \/ ClaimStep \/ \E k \in Keys : BeginClaim(k)
         \/ \E h \in held : Release(h)
         \/ BeginRequest \/ EndRequest \/ Shutdown \/ UNCHANGED vars
  PROVE  OwnInv'
<1>0. TypeOK /\ Main \in Callers
  BY DEF LoadInv, Callers
<1>1. UNCHANGED <<queue, wpc, wreq>>
  BY DEF ClaimStep, MatchKey, MatchNext, MatchNone, ClaimReady, ClaimNotReady, Reclaim, ReclaimNot,
         TakeRef, ClaimDone, BeginClaim, Release, BeginRequest, EndRequest, Shutdown, StopPrewarm,
         ShutdownStreamer, FreeRing, vars, workVars
<1>2. \A s \in Slots : state'[s] = "LOADING" => state[s] = "LOADING"
  <2>1. CASE ClaimReady
    BY <1>0, <2>1 DEF ClaimReady, TypeOK
  <2>2. CASE UNCHANGED state
    BY <2>2
  <2>. QED
    BY <2>1, <2>2
    DEF ClaimStep, MatchKey, MatchNext, MatchNone, ClaimNotReady, Reclaim, ReclaimNot, TakeRef,
        ClaimDone, BeginClaim, Release, BeginRequest, EndRequest, Shutdown, StopPrewarm,
        ShutdownStreamer, FreeRing, vars, ringVars, slotVars
<1>3. \A c \in Callers : CallOwns(c) => CallOwns(c)' /\ op'[c].slot = op[c].slot
  <2>1. CASE ClaimStep \/ \E k \in Keys : BeginClaim(k)
    <3>1. ~CallOwns(Main)
      BY <2>1 DEF CallOwns, BeginClaim, MayCall, ClaimStep, MatchKey, MatchNext, MatchNone,
                  ClaimReady, ClaimNotReady, Reclaim, ReclaimNot, TakeRef, ClaimDone, At
    <3>2. \A c \in Callers : c # Main => op'[c] = op[c]
      BY <1>0, <2>1, CallerMoves
    <3>. QED
      BY <3>1, <3>2 DEF CallOwns
  <2>2. CASE UNCHANGED op
    BY <2>2 DEF CallOwns
  <2>. QED
    BY <2>1, <2>2
    DEF Release, BeginRequest, EndRequest, Shutdown, StopPrewarm, ShutdownStreamer, FreeRing, vars
<1>. QED
  BY <1>1, <1>2, <1>3, QuietOwned DEF WorkerOwns

LEMMA OwnInvInductive == LoadInv /\ OwnInv /\ [Next]_vars => OwnInv'
<1> SUFFICES ASSUME LoadInv, OwnInv, [Next]_vars PROVE OwnInv'
  OBVIOUS
<1>1. CASE \E c \in Callers : \/ PrefetchStep(c)
                              \/ \E k \in Keys, class \in Classes : BeginPrefetch(c, k, class)
  BY <1>1, SearchOwned, SetMetaOwned, TakeSlotOwned, PushOwned, PushFullOwned DEF PrefetchStep
<1>2. CASE \E w \in Workers : WorkerStep(w)
  BY <1>2, WorkerOwned
<1>. QED
  BY <1>1, <1>2, OtherOwned DEF Next, Calls, Exited

\* With at most one owner (LoadInv) and at least one (OwnInv), exactly one.
LEMMA OneOwner ==
  ASSUME LoadInv, OwnInv
  PROVE  ExclusiveLoad
<1> SUFFICES ASSUME NEW s \in Slots
             PROVE  Cardinality(QueueOwners(s)) + Cardinality(CallOwners(s))
                      + Cardinality(WorkerOwners(s)) = IF state[s] = "LOADING" THEN 1 ELSE 0
  BY DEF ExclusiveLoad
<1> DEFINE Q == QueueOwners(s)
           C == CallOwners(s)
           W == WorkerOwners(s)
<1>1. \A p \in Classes : \A i \in 1 .. Len(queue[p]) :
         queue[p][i].slot = s => <<p, i>> \in Q
  <2> SUFFICES ASSUME NEW p \in Classes, NEW i \in 1 .. Len(queue[p]), queue[p][i].slot = s
               PROVE  <<p, i>> \in Q
    OBVIOUS
  <2>1. Len(queue[p]) \in Nat /\ Len(queue[p]) <= QueueCapacity
    BY DEF LoadInv, TypeOK, OwnInv, QueueBound
  <2>2. i \in 1 .. QueueCapacity /\ i <= Len(queue[p])
    BY <2>1, RingAssumption
  <2>. QED
    BY <2>2 DEF QueueOwners
<1>2. \A e \in Q : /\ e[1] \in Classes /\ e[2] \in 1 .. Len(queue[e[1]])
                   /\ queue[e[1]][e[2]].slot = s /\ e = <<e[1], e[2]>>
  <2> SUFFICES ASSUME NEW e \in Q
               PROVE  /\ e[1] \in Classes /\ e[2] \in 1 .. Len(queue[e[1]])
                      /\ queue[e[1]][e[2]].slot = s /\ e = <<e[1], e[2]>>
    OBVIOUS
  <2>1. /\ e \in Classes \X (1 .. QueueCapacity)
        /\ e[2] <= Len(queue[e[1]]) /\ queue[e[1]][e[2]].slot = s
    BY DEF QueueOwners
  <2>2. e[1] \in Classes /\ e[2] \in 1 .. QueueCapacity /\ e = <<e[1], e[2]>>
    BY <2>1
  <2>3. Len(queue[e[1]]) \in Nat
    BY <2>2 DEF LoadInv, TypeOK
  <2>. QED
    BY <2>1, <2>2, <2>3, RingAssumption
<1>3. \A c : c \in C <=> c \in Callers /\ CallOwns(c) /\ op[c].slot = s
  BY DEF CallOwners
<1>4. \A w : w \in W <=> w \in Workers /\ WorkerOwns(w) /\ wreq[w].slot = s
  BY DEF WorkerOwners
<1>. HIDE DEF Q, C, W
<1>5. \A e, f \in Q : e = f
  BY <1>2 DEF LoadInv, QueueDistinct
<1>6. \A c, d \in C : c = d
  BY <1>3 DEF LoadInv, CallDistinct
<1>7. \A w, v \in W : w = v
  BY <1>4 DEF LoadInv, WorkerDistinct
<1>8. C # {} => Q = {} /\ W = {}
  BY <1>2, <1>3, <1>4 DEF LoadInv, CallDistinct
<1>9. W # {} => Q = {}
  BY <1>2, <1>4 DEF LoadInv, WorkerDistinct
<1>10. Q # {} \/ C # {} \/ W # {} <=> state[s] = "LOADING"
  <2>1. Q # {} => state[s] = "LOADING"
    BY <1>2 DEF LoadInv, QueueLoads
  <2>2. C # {} => state[s] = "LOADING"
    BY <1>3 DEF LoadInv, CallLoads
  <2>3. W # {} => state[s] = "LOADING"
    BY <1>4 DEF LoadInv, WorkerLoads
  <2>4. state[s] = "LOADING" => Q # {} \/ C # {} \/ W # {}
    BY <1>1, <1>3, <1>4 DEF OwnInv, LoadOwned, InQueue, InCall, InWorker
  <2>. QED
    BY <2>1, <2>2, <2>3, <2>4
<1>11. \A S : (\A x, y \in S : x = y) => Cardinality(S) = IF S = {} THEN 0 ELSE 1
  <2> SUFFICES ASSUME NEW S, \A x, y \in S : x = y
               PROVE  Cardinality(S) = IF S = {} THEN 0 ELSE 1
    OBVIOUS
  <2>1. CASE S = {}
    BY <2>1, FS_EmptySet
  <2>2. CASE S # {}
    <3>1. PICK x : x \in S
      BY <2>2
    <3>2. S = {x}
      BY <3>1
    <3>. QED
      BY <3>2, FS_Singleton
  <2>. QED
    BY <2>1, <2>2
<1>12. /\ Cardinality(Q) = IF Q = {} THEN 0 ELSE 1
       /\ Cardinality(C) = IF C = {} THEN 0 ELSE 1
       /\ Cardinality(W) = IF W = {} THEN 0 ELSE 1
  BY <1>5, <1>6, <1>7, <1>11
<1>13. Cardinality(Q) + Cardinality(C) + Cardinality(W) = IF state[s] = "LOADING" THEN 1 ELSE 0
  BY <1>8, <1>9, <1>10, <1>12
<1>. QED
  BY <1>13 DEF Q, C, W

\* With or without a Prewarm thread, whatever fails: a LOADING slot has exactly
\* one owner, so its load ends and no two preads share a buffer; no other slot
\* has any.
THEOREM LoadsExclusive == Spec => []ExclusiveLoad
<1>1. Init => OwnInv
  BY RingAssumption DEF Init, OwnInv, LoadOwned, QueueBound
<1>2. LoadInv /\ OwnInv => ExclusiveLoad
  BY OneOwner
<1>. QED
  BY <1>1, <1>2, InitLoadInv, LoadInvInductive, OwnInvInductive, PTL DEF Spec


-----------------------------------------------------------------------------
(***************************************************************************)
(* Which bytes a step may change: DataMatchesKey.                          *)
(***************************************************************************)
\* A worker changes the slot of its request only, which is LOADING; when it
\* makes the slot READY its bytes are those of the expert the ids name.
LEMMA WorkerFrame ==
  ASSUME LoadInv, NEW w \in Workers, WorkerStep(w)
  PROVE  /\ UNCHANGED <<layerId, expertId, refCount, tick, op, mainVars>>
         /\ \A s \in Slots : state[s] # "LOADING" =>
               state'[s] = state[s] /\ filled'[s] = filled[s] /\ data'[s] = data[s]
         /\ \A s \in Slots : state[s] = "LOADING" /\ state'[s] \in Idle =>
               filled'[s] /\ data'[s] = SlotKey(s)
<1>. USE DEF Idle
<1>0. TypeOK
  BY DEF LoadInv
<1>1. WorkerOwns(w) => /\ state[wreq[w].slot] = "LOADING" /\ wreq[w].slot \in Slots
                       /\ wpc[w] = "publish" => /\ filled[wreq[w].slot]
                                                /\ data[wreq[w].slot] = SlotKey(wreq[w].slot)
  BY DEF LoadInv, WorkerLoads, Request, ReqKey, SlotKey
<1>2. CASE PollDemand(w) \/ PollSpec(w) \/ WorkerExit(w)
  BY <1>2 DEF PollDemand, PollSpec, WorkerExit, Pop, PopMisses, ringVars, slotVars
<1>3. CASE UnknownExpert(w) \/ ReadFail(w)
  BY <1>0, <1>1, <1>3 DEF UnknownExpert, ReadFail, FinishLoad, WorkerOwns, TypeOK
<1>4. CASE Publish(w)
  BY <1>0, <1>1, <1>4 DEF Publish, FinishLoad, WorkerOwns, TypeOK
<1>5. CASE ReadStart(w) \/ ReadOk(w)
  BY <1>0, <1>1, <1>5 DEF ReadStart, ReadOk, WorkerOwns, TypeOK
<1>. QED
  BY <1>2, <1>3, <1>4, <1>5 DEF WorkerStep

\* No other thread changes bytes, and the ids it writes are a LOADING slot's.
LEMMA CallFrame ==
  ASSUME LoadInv, \/ Calls \/ \E c \in Callers : PrefetchStep(c)
                  \/ ClaimStep \/ BeginRequest \/ EndRequest \/ Shutdown \/ UNCHANGED vars
  PROVE  /\ UNCHANGED <<filled, data>>
         /\ \A s \in Slots : state'[s] \in Idle =>
               /\ state[s] \in Idle
               /\ layerId'[s] = layerId[s] /\ expertId'[s] = expertId[s]
<1>. USE DEF Idle
<1>0. TypeOK
  BY DEF LoadInv
<1>1. CASE \E c \in Callers : PrefetchStep(c)
  <2>. PICK c \in Callers : PrefetchStep(c)
    BY <1>1
  <2>1. CallOwns(c) => state[op[c].slot] = "LOADING" /\ op[c].slot \in Slots
    BY DEF LoadInv, CallLoads, CallTyped, CallTypedAt
  <2>2. CASE ClaimEmpty(c) \/ EvictCas(c) \/ PushFull(c)
    BY <1>0, <2>2 DEF ClaimEmpty, EvictCas, PushFull, TypeOK
  <2>3. CASE SetLayer(c) \/ SetExpert(c)
    BY <1>0, <2>1, <2>3 DEF SetLayer, SetExpert, TypeOK, CallOwns, At
  <2>4. CASE UNCHANGED <<state, layerId, expertId, filled, data>>
    BY <2>4
  <2>. QED
    BY <2>2, <2>3, <2>4
    DEF PrefetchStep, ScanHit, ScanNext, ScanMiss, EmptyNext, NoneEmpty, LruTake, LruSkip,
        LruNone, EvictLoad, EvictLost, SetRef, SetTick, Push, ringVars, slotVars
<1>2. CASE ClaimReady
  BY <1>0, <1>2 DEF ClaimReady, TypeOK
<1>3. CASE UNCHANGED <<state, layerId, expertId, filled, data>>
  BY <1>3
<1>. QED
  BY <1>1, <1>2, <1>3
  DEF Calls, BeginPrefetch, BeginClaim, Release, ClaimStep, MatchKey, MatchNext, MatchNone,
      ClaimNotReady, Reclaim, ReclaimNot, TakeRef, ClaimDone, BeginRequest, EndRequest,
      Shutdown, StopPrewarm, ShutdownStreamer, FreeRing, vars, ringVars, slotVars

LEMMA DataInductive == LoadInv /\ DataMatchesKey /\ [Next]_vars => DataMatchesKey'
<1> SUFFICES ASSUME LoadInv, DataMatchesKey, [Next]_vars PROVE DataMatchesKey'
  OBVIOUS
<1>1. CASE \E w \in Workers : WorkerStep(w)
  BY <1>1, WorkerFrame DEF DataMatchesKey, SlotKey, Idle
<1>2. CASE ~ \E w \in Workers : WorkerStep(w)
  BY <1>2, CallFrame DEF DataMatchesKey, SlotKey, Next, Exited
<1>. QED
  BY <1>1, <1>2

\* With or without a Prewarm thread, whatever reads fail: a slot a claim may
\* return holds exactly the bytes of the expert its ids name.
THEOREM DataCorrect == Spec => []DataMatchesKey
<1>1. Init => DataMatchesKey
  BY DEF Init, DataMatchesKey, Idle
<1>. QED
  BY <1>1, InitLoadInv, LoadInvInductive, DataInductive, PTL DEF Spec

-----------------------------------------------------------------------------
(***************************************************************************)
(* Claimed slots, when Main is the only caller of prefetch.                *)
(***************************************************************************)
LEMMA WorkerCallerInv ==
  ASSUME IInv, NEW w \in Workers, WorkerStep(w)
  PROVE  CallerInv'
<1>0. TypeOK /\ Main \in Callers
  BY DEF IInv, LoadInv, Callers
<1>1. /\ UNCHANGED <<layerId, expertId, refCount, op, held>>
      /\ \A s \in Slots : state[s] # "LOADING" => state'[s] = state[s] /\ data'[s] = data[s]
  BY WorkerFrame DEF IInv, mainVars
<1>2. HeldIntact'
  <2>1. \A h \in held : h.slot \in Slots
    BY <1>0 DEF TypeOK
  <2>. QED
    BY <1>1, <2>1 DEF IInv, CallerInv, HeldIntact, SlotKey
<1>3. HeldOnce' /\ UnheldZero'
  BY <1>1 DEF IInv, CallerInv, HeldOnce, UnheldZero, ClaimingRef, At
<1>4. CallTypedAt(Main)
  BY <1>0 DEF IInv, LoadInv, CallTyped
<1>5. ClaimInv'
  BY <1>1, <1>4 DEF IInv, CallerInv, ClaimInv, SlotKey, CallTypedAt, At
<1>6. VictimInv'
  <2>1. At(Main, "lru") => op[Main].slot \in Slots \cup {NoSlot}
    BY <1>0, RingAssumption DEF TypeOK, Call, Slots, NoSlot
  <2>. QED
    BY <1>1, <1>4, <2>1 DEF IInv, CallerInv, VictimInv, CallTypedAt, At, Idle
<1>. QED
  BY <1>2, <1>3, <1>5, <1>6 DEF CallerInv

\* A step of Main that changes neither slots nor claims.
LEMMA LocalCallerInv ==
  ASSUME IInv, ClaimInv', VictimInv', ~At(Main, "claimTick"), ~At(Main, "claimTick")',
         UNCHANGED <<state, layerId, expertId, refCount, data, held>>
  PROVE  CallerInv'
  BY DEF IInv, CallerInv, HeldIntact, HeldOnce, UnheldZero, ClaimingRef, SlotKey

\* A step of Main's prefetch that changes a slot nobody holds.
LEMMA FreeSlotCallerInv ==
  ASSUME IInv, NEW s \in Slots, \A h \in held : h.slot # s,
         ~At(Main, "claimTick"),
         op'[Main].pc \in {"idle", "setLayer", "setExpert", "setRef", "setTick"},
         refCount'[s] = refCount[s] \/ refCount'[s] = 0,
         \A t \in Slots : t # s => /\ state'[t] = state[t] /\ layerId'[t] = layerId[t]
                                   /\ expertId'[t] = expertId[t] /\ refCount'[t] = refCount[t],
         UNCHANGED <<data, held>>
  PROVE  CallerInv'
<1>0. \A h \in held : h.slot \in Slots
  BY DEF IInv, LoadInv, TypeOK
<1>1. HeldIntact' /\ HeldOnce'
  BY <1>0 DEF IInv, CallerInv, HeldIntact, HeldOnce, SlotKey
<1>2. UnheldZero'
  BY DEF IInv, CallerInv, UnheldZero, ClaimingRef, At
<1>3. ClaimInv' /\ VictimInv'
  BY DEF ClaimInv, VictimInv, At
<1>. QED
  BY <1>1, <1>2, <1>3 DEF CallerInv

\* Main's scans and the end of a prefetch that changes no slot.
LEMMA ScanCallerInv ==
  ASSUME IInv,
         \/ \E k \in Keys, class \in Classes : BeginPrefetch(Main, k, class)
         \/ ScanHit(Main) \/ ScanNext(Main) \/ ScanMiss(Main) \/ EmptyNext(Main) \/ NoneEmpty(Main)
         \/ LruTake(Main) \/ LruSkip(Main) \/ LruNone(Main)
         \/ EvictLoad(Main) \/ EvictLost(Main)
         \/ SetTick(Main) \/ Push(Main)
  PROVE  CallerInv'
<1>. USE DEF At, ClaimInv, VictimInv
<1>0. TypeOK /\ Main \in Callers /\ op[Main] \in Call /\ CallTypedAt(Main) /\ VictimInv
  BY DEF IInv, LoadInv, CallTyped, Callers, TypeOK, CallerInv
<1>1. CASE \E k \in Keys, class \in Classes : BeginPrefetch(Main, k, class)
  BY <1>0, <1>1, BeginPrefetchEffect, LocalCallerInv DEF BeginPrefetch, MayCall, ringVars, slotVars, mainVars
<1>2. CASE ScanHit(Main) \/ LruNone(Main) \/ EvictLost(Main) \/ Push(Main)
  BY <1>0, <1>2, ReturnEffect, LocalCallerInv
  DEF ScanHit, LruNone, EvictLost, Push, ringVars, slotVars, mainVars
<1>3. CASE ScanNext(Main) \/ EmptyNext(Main)
  BY <1>0, <1>3, NextIdxEffect, LocalCallerInv DEF ScanNext, EmptyNext, SameCall, ringVars, slotVars, mainVars
<1>4. CASE ScanMiss(Main)
  BY <1>0, <1>4, RestartEffect, LocalCallerInv DEF ScanMiss, SameCall, CallLabels, ringVars, slotVars, mainVars
<1>5. CASE NoneEmpty(Main)
  BY <1>0, <1>5, RestartEffect, LocalCallerInv DEF NoneEmpty, SameCall, CallLabels, ringVars, slotVars, mainVars
<1>6. CASE LruTake(Main)
  BY <1>0, <1>6, LruTakeEffect, LocalCallerInv DEF LruTake, IsOlder, ringVars, slotVars, mainVars
<1>7. CASE LruSkip(Main)
  BY <1>0, <1>7, NextIdxEffect, LocalCallerInv DEF LruSkip, SameCall, ringVars, slotVars, mainVars
<1>8. CASE EvictLoad(Main)
  BY <1>0, <1>8, EvictLoadEffect, LocalCallerInv DEF EvictLoad, SameCall, ringVars, slotVars, mainVars
<1>9. CASE SetTick(Main)
  BY <1>0, <1>9, GotoEffect, LocalCallerInv DEF SetTick, Touch, CallLabels, mainVars
<1>. QED
  BY <1>1, <1>2, <1>3, <1>4, <1>5, <1>6, <1>7, <1>8, <1>9

\* Main's prefetch takes a slot, writes its ids or gives it back.
LEMMA SlotCallerInv ==
  ASSUME IInv, \/ ClaimEmpty(Main) \/ EvictCas(Main)
               \/ SetLayer(Main) \/ SetExpert(Main) \/ SetRef(Main) \/ PushFull(Main)
  PROVE  CallerInv'
<1>0. TypeOK /\ Main \in Callers /\ op[Main] \in Call /\ CallTypedAt(Main) /\ VictimInv
  BY DEF IInv, LoadInv, CallTyped, Callers, TypeOK, CallerInv
<1>1. CASE ClaimEmpty(Main)
  <2> DEFINE s == op[Main].idx
  <2>1. s \in Slots /\ op'[Main].pc = "setLayer"
    BY <1>0, <1>1, ClaimEmptyEffect
  <2>2. \A h \in held : h.slot # s
    BY <1>1 DEF ClaimEmpty, IInv, CallerInv, HeldIntact
  <2>. QED
    BY <1>0, <1>1, <2>1, <2>2, FreeSlotCallerInv DEF ClaimEmpty, TypeOK, mainVars, At
<1>2. CASE EvictCas(Main)
  <2> DEFINE s == op[Main].slot
  <2>1. s \in Slots /\ refCount[s] = 0
    BY <1>0, <1>2 DEF EvictCas, CallTypedAt, VictimInv
  <2>2. \A h \in held : h.slot # s
    BY <2>1 DEF IInv, CallerInv, HeldOnce
  <2>3. op'[Main].pc = "setLayer"
    BY <1>0, <1>2, GotoEffect DEF EvictCas, CallLabels
  <2>. QED
    BY <1>0, <1>2, <2>1, <2>2, <2>3, FreeSlotCallerInv DEF EvictCas, TypeOK, mainVars, At
<1>3. CASE SetLayer(Main) \/ SetExpert(Main) \/ SetRef(Main) \/ PushFull(Main)
  <2> DEFINE s == op[Main].slot
  <2>1. CallOwns(Main)
    BY <1>3 DEF SetLayer, SetExpert, SetRef, PushFull, CallOwns, At
  <2>2. s \in Slots /\ state[s] = "LOADING"
    BY <1>0, <2>1 DEF CallTypedAt, IInv, LoadInv, CallLoads
  <2>3. \A h \in held : h.slot # s
    BY <2>2 DEF IInv, CallerInv, HeldIntact
  <2>4. CASE SetLayer(Main)
    BY <1>0, <2>4, <2>2, <2>3, GotoEffect, FreeSlotCallerInv
    DEF SetLayer, TypeOK, mainVars, At, CallLabels
  <2>5. CASE SetExpert(Main)
    BY <1>0, <2>5, <2>2, <2>3, GotoEffect, FreeSlotCallerInv
    DEF SetExpert, TypeOK, mainVars, At, CallLabels
  <2>6. CASE SetRef(Main)
    BY <1>0, <2>6, <2>2, <2>3, GotoEffect, FreeSlotCallerInv
    DEF SetRef, TypeOK, mainVars, At, CallLabels
  <2>7. CASE PushFull(Main)
    BY <1>0, <2>7, <2>2, <2>3, ReturnEffect, FreeSlotCallerInv
    DEF PushFull, TypeOK, mainVars, At
  <2>. QED
    BY <1>3, <2>4, <2>5, <2>6, <2>7
<1>. QED
  BY <1>1, <1>2, <1>3

\* claim_specific up to the slot it claims.
LEMMA MatchCallerInv ==
  ASSUME IInv, \/ \E k \in Keys : BeginClaim(k)
               \/ MatchKey \/ MatchNext \/ MatchNone \/ ClaimNotReady \/ Reclaim \/ ReclaimNot
  PROVE  CallerInv'
<1>. USE DEF At, ClaimInv, VictimInv, SlotKey
<1>0. TypeOK /\ Main \in Callers /\ op[Main] \in Call /\ CallTypedAt(Main) /\ ClaimInv
  BY DEF IInv, LoadInv, CallTyped, Callers, TypeOK, CallerInv
<1>1. CASE \E k \in Keys : BeginClaim(k)
  BY <1>0, <1>1, BeginClaimEffect, LocalCallerInv DEF BeginClaim, MayCall, ringVars, slotVars, mainVars
<1>2. CASE MatchKey
  BY <1>0, <1>2, GotoEffect, LocalCallerInv DEF MatchKey, SameCall, CallLabels, ringVars, slotVars, mainVars
<1>3. CASE MatchNext
  BY <1>0, <1>3, NextIdxEffect, LocalCallerInv DEF MatchNext, ringVars, slotVars, mainVars
<1>4. CASE MatchNone
  BY <1>0, <1>4, ReturnEffect, LocalCallerInv DEF MatchNone, ringVars, slotVars, mainVars
<1>5. CASE ClaimNotReady
  <2>1. op[Main].idx \in Slots
    BY <1>0, <1>5 DEF ClaimNotReady, CallTypedAt
  <2>. QED
    BY <1>0, <1>5, <2>1, ClaimNotReadyEffect, LocalCallerInv
    DEF ClaimNotReady, SameCall, ringVars, slotVars, mainVars
<1>6. CASE Reclaim
  <2>1. \A h \in held : h.slot # op[Main].idx
    BY <1>6 DEF Reclaim, Reclaimable, IInv, CallerInv, HeldOnce
  <2>. QED
    BY <1>0, <1>6, <2>1, GotoEffect, LocalCallerInv
    DEF Reclaim, Reclaimable, SameCall, CallLabels, ringVars, slotVars, mainVars
<1>7. CASE ReclaimNot
  <2>1. op[Main].idx \in Slots
    BY <1>0, <1>7 DEF ReclaimNot, CallTypedAt
  <2>. QED
    BY <1>0, <1>7, <2>1, ReclaimNotEffect, LocalCallerInv DEF ReclaimNot, ringVars, slotVars, mainVars
<1>. QED
  BY <1>1, <1>2, <1>3, <1>4, <1>5, <1>6, <1>7

LEMMA ClaimReadyCallerInv ==
  ASSUME IInv, ClaimReady
  PROVE  CallerInv'
<1> DEFINE i == op[Main].idx
<1>0. /\ TypeOK /\ Main \in Callers /\ i \in Slots /\ SlotKey(i) = op[Main].want
      /\ \A h \in held : h.slot # i /\ h.slot \in Slots
  BY DEF IInv, LoadInv, CallTyped, CallTypedAt, Callers, TypeOK, CallerInv, ClaimInv, HeldIntact,
         ClaimReady, At
<1>1. op'[Main].pc = "takeRef" /\ op'[Main].idx = i /\ op'[Main].want = op[Main].want
  BY <1>0, GotoEffect DEF ClaimReady, SameCall, CallLabels
<1>2. HeldIntact' /\ HeldOnce'
  BY <1>0 DEF IInv, CallerInv, HeldIntact, HeldOnce, SlotKey, ClaimReady, TypeOK, mainVars
<1>3. UnheldZero'
  BY <1>1 DEF IInv, CallerInv, UnheldZero, ClaimingRef, ClaimReady, At, mainVars
<1>4. ClaimInv' /\ VictimInv'
  BY <1>0, <1>1 DEF ClaimInv, VictimInv, ClaimReady, SlotKey, At, TypeOK, mainVars
<1>. QED
  BY <1>2, <1>3, <1>4 DEF CallerInv

LEMMA OneModRef == (0 + 1) % RefMod = 1 /\ (1 + RefMod - 1) % RefMod = 0
<1>1. \A n \in Nat : n >= 2 => (0 + 1) % n = 1 /\ (1 + n - 1) % n = 0
  OBVIOUS
<1>. QED
  BY <1>1, RingAssumption

LEMMA TakeRefCallerInv ==
  ASSUME IInv, TakeRef
  PROVE  CallerInv'
<1> DEFINE i == op[Main].idx
<1>0. /\ TypeOK /\ Main \in Callers /\ i \in Slots /\ SlotKey(i) = op[Main].want
      /\ state[i] = "CONSUMED" /\ refCount[i] = 0
      /\ \A h \in held : h.slot # i /\ h.slot \in Slots
  BY DEF IInv, LoadInv, CallTyped, CallTypedAt, Callers, TypeOK, CallerInv, ClaimInv, UnheldZero,
         ClaimingRef, TakeRef, At
<1>1. op'[Main].pc = "claimTick" /\ op'[Main].idx = i /\ op'[Main].want = op[Main].want
  BY <1>0, GotoEffect DEF TakeRef, SameCall, CallLabels
<1>2. refCount'[i] = 1 /\ \A s \in Slots : s # i => refCount'[s] = refCount[s]
  BY <1>0, OneModRef DEF TakeRef, TypeOK
<1>3. HeldIntact' /\ HeldOnce'
  BY <1>0, <1>2 DEF IInv, CallerInv, HeldIntact, HeldOnce, SlotKey, TakeRef, mainVars
<1>4. UnheldZero'
  BY <1>1, <1>2 DEF IInv, CallerInv, UnheldZero, ClaimingRef, TakeRef, At, mainVars
<1>5. ClaimInv' /\ VictimInv'
  BY <1>0, <1>1, <1>2 DEF ClaimInv, VictimInv, TakeRef, SlotKey, At, mainVars
<1>. QED
  BY <1>3, <1>4, <1>5 DEF CallerInv

LEMMA ClaimDoneCallerInv ==
  ASSUME IInv, ClaimDone
  PROVE  CallerInv'
<1> DEFINE i == op[Main].idx
           g == [slot |-> i, key |-> op[Main].want]
<1>0. /\ TypeOK /\ Main \in Callers /\ i \in Slots /\ SlotKey(i) = op[Main].want
      /\ state[i] = "CONSUMED" /\ refCount[i] = 1 /\ data[i] = SlotKey(i)
      /\ \A h \in held : h.slot # i
  BY DEF IInv, LoadInv, CallTyped, CallTypedAt, Callers, TypeOK, CallerInv, ClaimInv,
         DataMatchesKey, Idle, ClaimDone, At
<1>1. op'[Main].pc = "idle"
  BY <1>0, ReturnEffect DEF ClaimDone
<1>2. held' = held \cup {g} /\ g.slot = i /\ g.key = op[Main].want
  BY DEF ClaimDone
<1>. HIDE DEF g
<1>3. HeldIntact' /\ HeldOnce'
  BY <1>0, <1>2 DEF IInv, CallerInv, HeldIntact, HeldOnce, SlotKey, ClaimDone
<1>4. UnheldZero'
  BY <1>1, <1>2 DEF IInv, CallerInv, UnheldZero, ClaimingRef, ClaimDone, At
<1>5. ClaimInv' /\ VictimInv'
  BY <1>1 DEF ClaimInv, VictimInv, At
<1>. QED
  BY <1>3, <1>4, <1>5 DEF CallerInv

LEMMA ReleaseCallerInv ==
  ASSUME IInv, NEW h \in held, Release(h)
  PROVE  CallerInv'
<1>0. /\ TypeOK /\ h.slot \in Slots /\ op[Main].pc = "idle" /\ op' = op /\ held' = held \ {h}
      /\ \A g \in held : g.slot \in Slots
  BY DEF IInv, LoadInv, TypeOK, Release, At
<1>1. refCount'[h.slot] = 0 /\ \A s \in Slots : s # h.slot => refCount'[s] = refCount[s]
  BY <1>0, OneModRef DEF Release, TypeOK, IInv, CallerInv, HeldOnce
<1>2. HeldIntact' /\ HeldOnce'
  BY <1>0, <1>1 DEF IInv, CallerInv, HeldIntact, HeldOnce, SlotKey, Release
<1>3. UnheldZero'
  BY <1>0, <1>1 DEF IInv, CallerInv, UnheldZero, ClaimingRef, At
<1>4. ClaimInv' /\ VictimInv'
  BY <1>0 DEF ClaimInv, VictimInv, At
<1>. QED
  BY <1>2, <1>3, <1>4 DEF CallerInv

LEMMA OuterCallerInv ==
  ASSUME IInv, BeginRequest \/ EndRequest \/ Shutdown \/ UNCHANGED vars
  PROVE  CallerInv'
<1>1. UNCHANGED <<ringVars, op, held>>
  BY DEF BeginRequest, EndRequest, Shutdown, StopPrewarm, ShutdownStreamer, FreeRing, vars, mainVars
<1>. QED
  BY <1>1 DEF IInv, CallerInv, HeldIntact, HeldOnce, UnheldZero, ClaimInv, VictimInv, ClaimingRef,
              SlotKey, At, ringVars, slotVars

LEMMA CallerInvInductive ==
  ASSUME Prewarmers = {}
  PROVE  IInv /\ [Next]_vars => CallerInv'
<1> SUFFICES ASSUME IInv, [Next]_vars PROVE CallerInv'
  OBVIOUS
<1>1. CASE Calls
  <2>1. CASE \E c \in Callers, k \in Keys, class \in Classes : BeginPrefetch(c, k, class)
    BY <2>1, ScanCallerInv DEF Callers
  <2>2. CASE \E k \in Keys : BeginClaim(k)
    BY <2>2, MatchCallerInv
  <2>3. CASE \E h \in held : Release(h)
    BY <2>3, ReleaseCallerInv
  <2>. QED
    BY <1>1, <2>1, <2>2, <2>3 DEF Calls
<1>2. CASE \E c \in Callers : PrefetchStep(c)
  <2>. PrefetchStep(Main)
    BY <1>2 DEF Callers
  <2>. QED
    BY ScanCallerInv, SlotCallerInv DEF PrefetchStep
<1>3. CASE ClaimStep
  BY <1>3, MatchCallerInv, ClaimReadyCallerInv, TakeRefCallerInv, ClaimDoneCallerInv DEF ClaimStep
<1>4. CASE \E w \in Workers : WorkerStep(w)
  BY <1>4, WorkerCallerInv
<1>5. CASE BeginRequest \/ EndRequest \/ Shutdown \/ Exited \/ UNCHANGED vars
  BY <1>5, OuterCallerInv DEF Exited
<1>. QED
  BY <1>1, <1>2, <1>3, <1>4, <1>5 DEF Next

LEMMA IInvInductive ==
  ASSUME Prewarmers = {}
  PROVE  /\ Init => IInv
         /\ IInv /\ [Next]_vars => IInv'
<1>1. Init => IInv
  BY InitLoadInv
  DEF Init, IInv, DataMatchesKey, Idle, CallerInv, HeldIntact, HeldOnce, UnheldZero, ClaimInv,
      VictimInv, At, NoCall, Callers
<1>2. IInv /\ [Next]_vars => IInv'
  BY LoadInvInductive, DataInductive, CallerInvInductive DEF IInv
<1>. QED
  BY <1>1, <1>2

\* When Main is the only caller of prefetch: from claim to release a slot stays
\* CONSUMED, keeps its ids and its bytes, whatever is prefetched meanwhile.
THEOREM ClaimedSlotsIntact ==
  ASSUME Prewarmers = {}
  PROVE  Spec => []HeldIntact
<1>1. IInv => HeldIntact
  BY DEF IInv, CallerInv
<1>. QED
  BY <1>1, IInvInductive, PTL DEF Spec

LEMMA OneClaim ==
  ASSUME NEW h \in held, HeldOnce
  PROVE  Cardinality({g \in held : g.slot = h.slot}) = 1
<1>1. {g \in held : g.slot = h.slot} = {h}
  BY DEF HeldOnce
<1>. QED
  BY <1>1, FS_Singleton

\* When Main is the only caller of prefetch: the reference count of a slot is
\* exactly its number of claims, so release never wraps it below zero and no
\* slot is lost to eviction and reclaim by a reference nobody holds.
THEOREM ReferencesExact ==
  ASSUME Prewarmers = {}
  PROVE  Spec => []RefCountExact
<1>1. IInv => RefCountExact
  <2> SUFFICES ASSUME IInv, NEW s \in Slots
               PROVE  refCount[s] = Cardinality({h \in held : h.slot = s})
                                      + (IF ClaimingRef(s) THEN 1 ELSE 0)
    BY DEF RefCountExact
  <2>0. HeldOnce /\ UnheldZero /\ ClaimInv
    BY DEF IInv, CallerInv
  <2>1. CASE \E h \in held : h.slot = s
    <3>. PICK h \in held : h.slot = s
      BY <2>1
    <3>1. ~ClaimingRef(s) /\ refCount[s] = 1
      BY <2>0 DEF ClaimInv, ClaimingRef, HeldOnce, At
    <3>. QED
      BY <2>0, <3>1, OneClaim
  <2>2. CASE \A h \in held : h.slot # s
    <3>1. {h \in held : h.slot = s} = {}
      BY <2>2
    <3>2. Cardinality({h \in held : h.slot = s}) = 0
      BY <3>1, FS_EmptySet
    <3>3. refCount[s] = IF ClaimingRef(s) THEN 1 ELSE 0
      BY <2>0, <2>2 DEF ClaimInv, ClaimingRef, UnheldZero
    <3>. QED
      BY <3>2, <3>3
  <2>. QED
    BY <2>1, <2>2
<1>. QED
  BY <1>1, IInvInductive, PTL DEF Spec

-----------------------------------------------------------------------------
(***************************************************************************)
(* What one caller is promised: with Main the only caller of prefetch, a   *)
(* miss is a miss, eviction takes the least recently used slot, and the    *)
(* streamer implements ExpertCache.                                        *)
(*                                                                         *)
(* Each rests on what Main knows of the slots its loop has passed, although*)
(* the workers keep moving slots behind the loop's index: a worker only    *)
(* takes a slot out of LOADING, so it can neither make a slot CONSUMED nor *)
(* give an EMPTY one a key.  ScanInv states that knowledge for the three   *)
(* loops; it is inductive together with IInv.                              *)
(***************************************************************************)

\* claim_specific's loop has passed s: no retained slot is left behind.
Passed(s) ==
    SlotKey(s) = op[Main].want => state[s] # "CONSUMED" \/ \E h \in held : h.slot = s

MissInv ==
    /\ op[Main].pc \in {"match", "claimReady", "reclaim"}
          => \A s \in Slots : s < op[Main].idx => Passed(s)
    /\ At(Main, "reclaim") /\ op[Main].expected # "CONSUMED"
          => state[op[Main].idx] # "CONSUMED"

\* The idempotency scan has passed s: the expert is not there, nor does it come.
Absent(s) == state[s] # "EMPTY" => SlotKey(s) # op[Main].want

AbsentInv ==
    /\ At(Main, "scan") => \A s \in Slots : s < op[Main].idx => Absent(s)
    /\ op[Main].pc \in {"findEmpty", "lru", "evict"} => \A s \in Slots : Absent(s)

\* The LRU loop's choice is the oldest of the retained slots it has passed.  A
\* slot that became READY behind the loop is not among them.
Retained(s) == state[s] = "CONSUMED" /\ refCount[s] = 0

OldestInv ==
    LET v == op[Main].slot IN
    /\ At(Main, "lru") /\ v = NoSlot =>
          \A s \in Slots : s < op[Main].idx => ~Retained(s)
    /\ At(Main, "lru") /\ v # NoSlot =>
          /\ tick[v] = op[Main].oldest
          /\ \A s \in Slots : s < op[Main].idx /\ Retained(s) => tick[v] <= tick[s]
    /\ At(Main, "evict") => \A s \in Slots : Retained(s) => tick[v] <= tick[s]

ScanInv == MissInv /\ AbsentInv /\ OldestInv

-----------------------------------------------------------------------------
(***************************************************************************)
(* Steps that are not Main's.                                              *)
(***************************************************************************)
\* A worker only ends a LOADING.
LEMMA WorkerStates ==
  ASSUME LoadInv, NEW w \in Workers, WorkerStep(w), NEW s \in Slots
  PROVE  state'[s] = state[s] \/ (state[s] = "LOADING" /\ state'[s] \in {"EMPTY", "READY"})
<1>0. TypeOK
  BY DEF LoadInv
<1>1. WorkerOwns(w) => state[wreq[w].slot] = "LOADING"
  BY DEF LoadInv, WorkerLoads
<1>2. CASE UnknownExpert(w) \/ ReadFail(w) \/ Publish(w)
  BY <1>0, <1>1, <1>2 DEF UnknownExpert, ReadFail, Publish, FinishLoad, WorkerOwns, TypeOK
<1>3. CASE UNCHANGED state
  BY <1>3
<1>. QED
  BY <1>2, <1>3
  DEF WorkerStep, PollDemand, PollSpec, Pop, PopMisses, ReadStart, ReadOk, WorkerExit, ringVars,
      slotVars

\* Main's knowledge survives steps that change no id, reference, tick or claim,
\* and only end LOADINGs.
LEMMA ScanFrame ==
  ASSUME IInv, ScanInv, UNCHANGED <<layerId, expertId, refCount, tick, op, held>>,
         \A s \in Slots :
            state'[s] = state[s] \/ (state[s] = "LOADING" /\ state'[s] \in {"EMPTY", "READY"})
  PROVE  ScanInv'
<1>0. TypeOK /\ CallTypedAt(Main) /\ op[Main] \in Call
  BY DEF IInv, LoadInv, CallTyped, Callers, TypeOK
<1>1. \A s \in Slots : Passed(s) => Passed(s)'
  BY DEF Passed, SlotKey
<1>2. \A s \in Slots : Absent(s) => Absent(s)'
  BY DEF Absent, SlotKey
<1>3. \A s \in Slots : Retained(s)' => Retained(s)
  BY DEF Retained
<1>4. MissInv'
  <2>1. At(Main, "reclaim") => op[Main].idx \in Slots
    BY <1>0 DEF CallTypedAt, At
  <2>. QED
    BY <1>1, <2>1 DEF ScanInv, MissInv, At
<1>5. AbsentInv'
  BY <1>2 DEF ScanInv, AbsentInv, At
<1>6. OldestInv'
  BY <1>3 DEF ScanInv, OldestInv, At
<1>. QED
  BY <1>4, <1>5, <1>6 DEF ScanInv

\* A step that leaves Main in none of the loops.
LEMMA ScanOver ==
  ASSUME op'[Main].pc \notin {"scan", "findEmpty", "lru", "evict", "match", "claimReady", "reclaim"}
  PROVE  ScanInv'
  BY DEF ScanInv, MissInv, AbsentInv, OldestInv, At

-----------------------------------------------------------------------------
(***************************************************************************)
(* Main's loops.                                                           *)
(***************************************************************************)
LEMMA PrefetchScan ==
  ASSUME IInv, ScanInv,
         \/ \E k \in Keys, class \in Classes : BeginPrefetch(Main, k, class)
         \/ ScanNext(Main) \/ ScanMiss(Main) \/ EmptyNext(Main) \/ NoneEmpty(Main)
  PROVE  ScanInv'
<1>. USE DEF At
<1>0. /\ TypeOK /\ Main \in Callers /\ op[Main] \in Call /\ VictimInv
      /\ op[Main].idx \in Nat /\ RingSize \in Nat /\ \A s \in Slots : s \in Nat /\ s < RingSize
  <2>1. TypeOK /\ Main \in Callers /\ op[Main] \in Call /\ VictimInv
    BY DEF IInv, LoadInv, Callers, TypeOK, CallerInv
  <2>2. RingSize \in Nat /\ \A s \in Slots : s \in Nat /\ s < RingSize
    BY RingAssumption DEF Slots
  <2>3. op[Main].idx \in Nat
    BY <2>1, RingAssumption DEF Call
  <2>. QED
    BY <2>1, <2>2, <2>3
<1>1. UNCHANGED <<state, layerId, expertId, refCount, tick, held>>
  BY DEF BeginPrefetch, ScanNext, ScanMiss, EmptyNext, NoneEmpty, ringVars, slotVars, mainVars
<1>2. CASE \E k \in Keys, class \in Classes : BeginPrefetch(Main, k, class)
  <2>1. op'[Main].pc = "scan" /\ op'[Main].idx = 0
    BY <1>0, <1>2, BeginPrefetchEffect
  <2>2. \A s \in Slots : ~ (s < 0)
    BY <1>0
  <2>. QED
    BY <2>1, <2>2 DEF ScanInv, MissInv, AbsentInv, OldestInv
<1>3. CASE ScanNext(Main)
  <2>1. /\ op'[Main].pc = "scan" /\ op'[Main].idx = op[Main].idx + 1
        /\ op'[Main].want = op[Main].want /\ op[Main].pc = "scan"
    BY <1>0, <1>3, NextIdxEffect DEF ScanNext, SameCall
  <2>2. Absent(op[Main].idx)
    BY <1>3 DEF ScanNext, ScanMatches, Absent
  <2>3. \A s \in Slots : s < op[Main].idx + 1 => s < op[Main].idx \/ s = op[Main].idx
    BY <1>0
  <2>4. \A s \in Slots : s < op'[Main].idx => Absent(s)
    BY <2>1, <2>2, <2>3 DEF ScanInv, AbsentInv
  <2>5. \A s \in Slots : Absent(s)' = Absent(s)
    BY <1>1, <2>1 DEF Absent, SlotKey
  <2>. QED
    BY <2>1, <2>4, <2>5 DEF ScanInv, MissInv, AbsentInv, OldestInv
<1>4. CASE ScanMiss(Main)
  <2>1. op'[Main].pc = "findEmpty" /\ op'[Main].want = op[Main].want /\ op[Main].pc = "scan"
    BY <1>0, <1>4, RestartEffect DEF ScanMiss, SameCall, CallLabels
  <2>2. \A s \in Slots : Absent(s)
    BY <1>0, <1>4 DEF ScanMiss, LoopDone, ScanInv, AbsentInv
  <2>3. \A s \in Slots : Absent(s)' = Absent(s)
    BY <1>1, <2>1 DEF Absent, SlotKey
  <2>. QED
    BY <2>1, <2>2, <2>3 DEF ScanInv, MissInv, AbsentInv, OldestInv
<1>5. CASE EmptyNext(Main)
  <2>1. op'[Main].pc = "findEmpty" /\ op'[Main].want = op[Main].want /\ op[Main].pc = "findEmpty"
    BY <1>0, <1>5, NextIdxEffect DEF EmptyNext, SameCall
  <2>2. \A s \in Slots : Absent(s)' = Absent(s)
    BY <1>1, <2>1 DEF Absent, SlotKey
  <2>. QED
    BY <2>1, <2>2 DEF ScanInv, MissInv, AbsentInv, OldestInv
<1>6. CASE NoneEmpty(Main)
  <2>1. /\ op'[Main].pc = "lru" /\ op'[Main].idx = 0 /\ op'[Main].slot = op[Main].slot
        /\ op'[Main].want = op[Main].want /\ op[Main].pc = "findEmpty"
    BY <1>0, <1>6, RestartEffect DEF NoneEmpty, SameCall, CallLabels
  <2>2. op[Main].slot = NoSlot
    BY <1>0, <2>1 DEF VictimInv
  <2>3. \A s \in Slots : ~ (s < 0)
    BY <1>0
  <2>4. \A s \in Slots : Absent(s)' = Absent(s)
    BY <1>1, <2>1 DEF Absent, SlotKey
  <2>5. NoSlot' = NoSlot
    BY DEF NoSlot
  <2>6. OldestInv'
    BY <2>1, <2>2, <2>3, <2>5 DEF OldestInv
  <2>. QED
    BY <2>1, <2>4, <2>6 DEF ScanInv, MissInv, AbsentInv
<1>. QED
  BY <1>2, <1>3, <1>4, <1>5, <1>6

\* The LRU loop, and the state it loads for the CAS.
LEMMA LruScan ==
  ASSUME IInv, ScanInv, LruTake(Main) \/ LruSkip(Main) \/ EvictLoad(Main)
  PROVE  ScanInv'
<1>. USE DEF At
<1> DEFINE i == op[Main].idx
           v == op[Main].slot
<1>0. /\ TypeOK /\ Main \in Callers /\ op[Main] \in Call /\ VictimInv
      /\ i \in Nat /\ RingSize \in Nat /\ \A s \in Slots : s \in Nat /\ s < RingSize
  <2>1. TypeOK /\ Main \in Callers /\ op[Main] \in Call /\ VictimInv
    BY DEF IInv, LoadInv, Callers, TypeOK, CallerInv
  <2>2. RingSize \in Nat /\ \A s \in Slots : s \in Nat /\ s < RingSize
    BY RingAssumption DEF Slots
  <2>3. op[Main].idx \in Nat
    BY <2>1, RingAssumption DEF Call
  <2>. QED
    BY <2>1, <2>2, <2>3
<1>1. UNCHANGED <<state, layerId, expertId, refCount, tick, held>> /\ op[Main].pc = "lru"
  BY DEF LruTake, LruSkip, EvictLoad, ringVars, slotVars, mainVars
<1>2. \A s \in Slots : Absent(s)
  BY <1>1 DEF ScanInv, AbsentInv
<1>3. op'[Main].want = op[Main].want => \A s \in Slots : Absent(s)'
  BY <1>1, <1>2 DEF Absent, SlotKey
<1>4. \A s \in Slots : Retained(s)' = Retained(s)
  BY <1>1 DEF Retained
<1>5. /\ v = NoSlot => \A s \in Slots : s < i => ~Retained(s)
      /\ v # NoSlot => /\ tick[v] = op[Main].oldest
                       /\ \A s \in Slots : s < i /\ Retained(s) => tick[v] <= tick[s]
  BY <1>1 DEF ScanInv, OldestInv
<1>6. \A s \in Slots : tick[s] \in Nat
  BY <1>0 DEF TypeOK
<1>7. \A s \in Slots : s < i + 1 => s < i \/ s = i
  BY <1>0
<1>8. v # NoSlot => v \in Slots
  BY <1>0, RingAssumption DEF Call, Slots, NoSlot
<1>9. CASE LruTake(Main)
  <2>1. /\ op'[Main].pc = "lru" /\ op'[Main].want = op[Main].want /\ op'[Main].slot = i
        /\ op'[Main].idx = i + 1 /\ op'[Main].oldest = tick[i] /\ i \in Slots
    BY <1>0, <1>9, LruTakeEffect
  <2>2. v = NoSlot \/ tick[i] < tick[v]
    BY <1>5, <1>9 DEF LruTake, IsOlder
  <2>3. i # NoSlot
    BY <1>0, <2>1 DEF NoSlot
  <2>. HIDE DEF i, v
  <2>4. \A m, n, r \in Nat : m < n /\ n <= r => m <= r
    OBVIOUS
  <2>5. ASSUME NEW s \in Slots, s < i, Retained(s) PROVE tick[i] <= tick[s]
    <3>1. v # NoSlot /\ tick[i] < tick[v] /\ tick[v] <= tick[s]
      BY <1>5, <2>2, <2>5
    <3>. QED
      BY <1>6, <1>8, <2>1, <2>4, <3>1
  <2>6. tick[i] <= tick[i]
    BY <1>6, <2>1
  <2>7. \A s \in Slots : s < i + 1 /\ Retained(s) => tick[i] <= tick[s]
    BY <1>7, <2>5, <2>6
  <2>8. OldestInv'
    BY <1>1, <1>4, <2>1, <2>3, <2>7 DEF OldestInv, NoSlot
  <2>. QED
    BY <1>3, <2>1, <2>8 DEF ScanInv, MissInv, AbsentInv
<1>10. CASE LruSkip(Main)
  <2>1. /\ op'[Main].pc = "lru" /\ op'[Main].want = op[Main].want /\ op'[Main].slot = v
        /\ op'[Main].idx = i + 1 /\ op'[Main].oldest = op[Main].oldest
    BY <1>0, <1>10, NextIdxEffect DEF LruSkip, SameCall
  <2>2. i \in Slots
    BY <1>0, <1>10, RingAssumption DEF LruSkip, InLoop, Call, Slots
  <2>3. Retained(i) => v # NoSlot /\ ~ (tick[i] < tick[v])
    BY <1>5, <1>10 DEF LruSkip, IsOlder, Retained, Idle
  <2>. HIDE DEF i, v
  <2>4. \A m, n \in Nat : ~ (m < n) => n <= m
    OBVIOUS
  <2>5. Retained(i) => v # NoSlot /\ tick[v] <= tick[i]
    BY <1>6, <1>8, <2>2, <2>3, <2>4
  <2>6. v = NoSlot => \A s \in Slots : s < i + 1 => ~Retained(s)
    BY <1>5, <1>7, <2>5
  <2>7. v # NoSlot => \A s \in Slots : s < i + 1 /\ Retained(s) => tick[v] <= tick[s]
    BY <1>5, <1>7, <2>5
  <2>8. OldestInv'
    BY <1>1, <1>4, <1>5, <2>1, <2>6, <2>7 DEF OldestInv, NoSlot
  <2>. QED
    BY <1>3, <2>1, <2>8 DEF ScanInv, MissInv, AbsentInv
<1>11. CASE EvictLoad(Main)
  <2>1. /\ op'[Main].pc = "evict" /\ op'[Main].want = op[Main].want /\ op'[Main].slot = v
        /\ v # NoSlot /\ i = RingSize
    BY <1>0, <1>11, EvictLoadEffect DEF EvictLoad, SameCall, LoopDone
  <2>2. \A s \in Slots : Retained(s) => tick[v] <= tick[s]
    BY <1>0, <1>5, <2>1
  <2>3. OldestInv'
    BY <1>1, <1>4, <2>1, <2>2 DEF OldestInv
  <2>. QED
    BY <1>3, <2>1, <2>3 DEF ScanInv, MissInv, AbsentInv
<1>. QED
  BY <1>9, <1>10, <1>11

\* claim_specific's loop.
LEMMA MatchScan ==
  ASSUME IInv, ScanInv,
         \/ \E k \in Keys : BeginClaim(k)
         \/ MatchKey \/ MatchNext \/ ClaimNotReady \/ ReclaimNot
  PROVE  ScanInv'
<1>. USE DEF At
<1> DEFINE i == op[Main].idx
<1>0. /\ TypeOK /\ Main \in Callers /\ op[Main] \in Call /\ CallTypedAt(Main)
      /\ i \in Nat /\ \A s \in Slots : s \in Nat
  <2>1. TypeOK /\ Main \in Callers /\ op[Main] \in Call /\ CallTypedAt(Main)
    BY DEF IInv, LoadInv, CallTyped, Callers, TypeOK
  <2>2. \A s \in Slots : s \in Nat
    BY RingAssumption DEF Slots
  <2>3. op[Main].idx \in Nat
    BY <2>1, RingAssumption DEF Call
  <2>. QED
    BY <2>1, <2>2, <2>3
<1>1. UNCHANGED <<state, layerId, expertId, refCount, held>>
  BY DEF BeginClaim, MatchKey, MatchNext, ClaimNotReady, ReclaimNot, ringVars, slotVars, mainVars
<1>2. op'[Main].want = op[Main].want => \A s : Passed(s)' = Passed(s)
  BY <1>1 DEF Passed, SlotKey
<1>3. \A s \in Slots : s < i + 1 => s < i \/ s = i
  BY <1>0
<1>4. CASE \E k \in Keys : BeginClaim(k)
  <2>1. op'[Main].pc = "match" /\ op'[Main].idx = 0
    BY <1>0, <1>4, BeginClaimEffect
  <2>2. \A s \in Slots : ~ (s < 0)
    BY <1>0
  <2>. QED
    BY <2>1, <2>2 DEF ScanInv, MissInv, AbsentInv, OldestInv
<1>5. CASE MatchKey
  <2>1. /\ op'[Main].pc = "claimReady" /\ op'[Main].idx = i /\ op[Main].pc = "match"
        /\ op'[Main].want = op[Main].want
    BY <1>0, <1>5, GotoEffect DEF MatchKey, SameCall, CallLabels
  <2>. QED
    BY <1>2, <2>1 DEF ScanInv, MissInv, AbsentInv, OldestInv
<1>6. CASE MatchNext
  <2>1. /\ op'[Main].pc = "match" /\ op'[Main].idx = i + 1 /\ op[Main].pc = "match"
        /\ op'[Main].want = op[Main].want
    BY <1>0, <1>6, NextIdxEffect DEF MatchNext, SameCall
  <2>2. Passed(i)
    BY <1>6 DEF MatchNext, Passed
  <2>3. \A s \in Slots : s < i + 1 => Passed(s)
    BY <1>3, <2>1, <2>2 DEF ScanInv, MissInv
  <2>. QED
    BY <1>2, <2>1, <2>3 DEF ScanInv, MissInv, AbsentInv, OldestInv
<1>7. CASE ClaimNotReady
  <2>0. i \in Slots /\ op[Main].pc = "claimReady"
    BY <1>0, <1>7 DEF ClaimNotReady, CallTypedAt
  <2>1. /\ op'[Main].pc = "reclaim" /\ op'[Main].idx = i
        /\ op'[Main].want = op[Main].want /\ op'[Main].expected = state[i]
    BY <1>0, <1>7, <2>0, ClaimNotReadyEffect DEF SameCall
  <2>. QED
    BY <1>1, <1>2, <2>0, <2>1 DEF ScanInv, MissInv, AbsentInv, OldestInv
<1>8. CASE ReclaimNot
  <2>0. i \in Slots /\ op[Main].pc = "reclaim"
    BY <1>0, <1>8 DEF ReclaimNot, CallTypedAt
  <2>1. /\ op'[Main].pc = "match" /\ op'[Main].idx = i + 1
        /\ op'[Main].want = op[Main].want
    BY <1>0, <1>8, <2>0, ReclaimNotEffect DEF SameCall
  <2>2. Passed(i)
    <3> SUFFICES ASSUME state[i] = "CONSUMED", \A h \in held : h.slot # i PROVE FALSE
      BY DEF Passed
    <3>1. op[Main].expected = "CONSUMED"
      BY <2>0 DEF ScanInv, MissInv
    <3>2. filled[i]
      BY <2>0 DEF IInv, DataMatchesKey, Idle
    <3>3. refCount[i] = 0
      BY <2>0 DEF IInv, CallerInv, UnheldZero, ClaimingRef
    <3>. QED
      BY <1>8, <3>1, <3>2, <3>3 DEF ReclaimNot, Reclaimable
  <2>3. \A s \in Slots : s < i + 1 => Passed(s)
    BY <1>3, <2>0, <2>2 DEF ScanInv, MissInv
  <2>. QED
    BY <1>2, <2>1, <2>3 DEF ScanInv, MissInv, AbsentInv, OldestInv
<1>. QED
  BY <1>4, <1>5, <1>6, <1>7, <1>8

\* The steps after which Main is in no loop.
LEMMA EndScan ==
  ASSUME IInv,
         \/ ScanHit(Main) \/ ClaimEmpty(Main) \/ LruNone(Main) \/ EvictCas(Main) \/ EvictLost(Main)
         \/ SetLayer(Main) \/ SetExpert(Main) \/ SetRef(Main) \/ SetTick(Main)
         \/ Push(Main) \/ PushFull(Main)
         \/ MatchNone \/ ClaimReady \/ Reclaim \/ TakeRef \/ ClaimDone
  PROVE  ScanInv'
<1>0. TypeOK /\ Main \in Callers
  BY DEF IInv, LoadInv, Callers
<1>1. CASE \/ ScanHit(Main) \/ LruNone(Main) \/ EvictLost(Main) \/ Push(Main) \/ PushFull(Main)
           \/ MatchNone \/ ClaimDone
  BY <1>0, <1>1, ReturnEffect, ScanOver
  DEF ScanHit, LruNone, EvictLost, Push, PushFull, MatchNone, ClaimDone
<1>2. CASE ClaimEmpty(Main)
  BY <1>0, <1>2, ClaimEmptyEffect, ScanOver
<1>3. CASE \E label \in {"setLayer", "setExpert", "setRef", "setTick", "push", "takeRef", "claimTick"} :
              Goto(Main, label)
  <2>. PICK label \in {"setLayer", "setExpert", "setRef", "setTick", "push", "takeRef", "claimTick"} :
              Goto(Main, label)
    BY <1>3
  <2>1. label \in CallLabels
    BY DEF CallLabels
  <2>2. op'[Main].pc = label
    BY <1>0, <2>1, GotoEffect
  <2>. QED
    BY <2>2, ScanOver
<1>. QED
  BY <1>1, <1>2, <1>3
  DEF EvictCas, SetLayer, SetExpert, SetRef, SetTick, ClaimReady, Reclaim, TakeRef

LEMMA ScanInvInductive ==
  ASSUME Prewarmers = {}
  PROVE  IInv /\ ScanInv /\ [Next]_vars => ScanInv'
<1> SUFFICES ASSUME IInv, ScanInv, [Next]_vars PROVE ScanInv'
  OBVIOUS
<1>1. CASE \E c \in Callers, k \in Keys, class \in Classes : BeginPrefetch(c, k, class)
  BY <1>1, PrefetchScan DEF Callers
<1>2. CASE \E k \in Keys : BeginClaim(k)
  BY <1>2, MatchScan
<1>3. CASE \E h \in held : Release(h)
  <2>1. op'[Main].pc = "idle"
    BY <1>3 DEF Release, At
  <2>. QED
    BY <2>1, ScanOver
<1>4. CASE \E c \in Callers : PrefetchStep(c)
  <2>. PrefetchStep(Main)
    BY <1>4 DEF Callers
  <2>. QED
    BY PrefetchScan, LruScan, EndScan DEF PrefetchStep
<1>5. CASE ClaimStep
  BY <1>5, MatchScan, EndScan DEF ClaimStep
<1>6. CASE \E w \in Workers : WorkerStep(w)
  <2>. PICK w \in Workers : WorkerStep(w)
    BY <1>6
  <2>1. UNCHANGED <<layerId, expertId, refCount, tick, op, held>>
    BY WorkerFrame DEF IInv, mainVars
  <2>. QED
    BY <2>1, WorkerStates, ScanFrame DEF IInv
<1>7. CASE BeginRequest \/ EndRequest \/ Shutdown \/ Exited \/ UNCHANGED vars
  <2>1. UNCHANGED <<state, layerId, expertId, refCount, tick, op, held>>
    BY <1>7 DEF BeginRequest, EndRequest, Shutdown, StopPrewarm, ShutdownStreamer, FreeRing, Exited,
                vars, ringVars, slotVars, mainVars
  <2>. QED
    BY <2>1, ScanFrame
<1>. QED
  BY <1>1, <1>2, <1>3, <1>4, <1>5, <1>6, <1>7 DEF Next, Calls

LEMMA InitScanInv == Init => ScanInv
  BY DEF Init, ScanInv, MissInv, AbsentInv, OldestInv, At, NoCall, Callers

-----------------------------------------------------------------------------
\* When Main is the only caller of prefetch: a claim that gives up leaves no
\* retained slot of its expert unclaimed, though the workers publish and give
\* up slots behind its loop.
THEOREM MissesAreMisses ==
  ASSUME Prewarmers = {}
  PROVE  Spec => []ClaimMissIsAMiss
<1>1. IInv /\ ScanInv => ClaimMissIsAMiss
  <2> SUFFICES ASSUME ScanInv, At(Main, "match"), LoopDone(Main), NEW s \in Slots
               PROVE  Passed(s)
    BY DEF ClaimMissIsAMiss, Passed
  <2>1. s < op[Main].idx
    BY RingAssumption DEF LoopDone, Slots
  <2>. QED
    BY <2>1 DEF ScanInv, MissInv, At
<1>. QED
  BY <1>1, IInvInductive, InitScanInv, ScanInvInductive, PTL DEF Spec

\* Only the CAS of an eviction makes an idle slot LOADING.
LEMMA OnlyEvictCas ==
  ASSUME Prewarmers = {}, IInv, Next, NEW s \in Slots, state[s] \in Idle, state'[s] = "LOADING"
  PROVE  EvictCas(Main) /\ s = op[Main].slot
<1>. USE DEF Idle
<1>0. TypeOK /\ Main \in Callers
  BY DEF IInv, LoadInv, Callers
<1>1. ~ \E w \in Workers : WorkerStep(w)
  BY WorkerStates DEF IInv
<1>2. CASE \E c \in Callers : PrefetchStep(c)
  <2>. PrefetchStep(Main)
    BY <1>2 DEF Callers
  <2>1. ClaimEmpty(Main) \/ EvictCas(Main) \/ PushFull(Main)
    BY DEF PrefetchStep, ScanHit, ScanNext, ScanMiss, EmptyNext, NoneEmpty, LruTake, LruSkip,
           LruNone, EvictLoad, EvictLost, SetLayer, SetExpert, SetRef, SetTick, Push, ringVars,
           slotVars
  <2>2. ~ClaimEmpty(Main) /\ ~PushFull(Main)
    BY <1>0 DEF ClaimEmpty, PushFull, TypeOK
  <2>3. EvictCas(Main) => s = op[Main].slot
    BY <1>0 DEF EvictCas, TypeOK
  <2>. QED
    BY <2>1, <2>2, <2>3
<1>3. ~ClaimReady
  BY <1>0 DEF ClaimReady, TypeOK
<1>. QED
  BY <1>1, <1>2, <1>3
  DEF Next, Calls, BeginPrefetch, BeginClaim, Release, ClaimStep, MatchKey, MatchNext, MatchNone,
      ClaimNotReady, Reclaim, ReclaimNot, TakeRef, ClaimDone, BeginRequest, EndRequest, Shutdown,
      StopPrewarm, ShutdownStreamer, FreeRing, Exited, vars, ringVars, slotVars

\* When Main is the only caller of prefetch: the slot an eviction takes has no
\* reference, and no retained slot without one was used less recently.
THEOREM EvictsOldest ==
  ASSUME Prewarmers = {}
  PROVE  Spec => EvictsLeastRecent
<1>1. IInv /\ ScanInv /\ [Next]_vars =>
        [\A s \in Slots :
            state[s] \in Idle /\ state'[s] = "LOADING" =>
              /\ refCount[s] = 0
              /\ \A t \in Slots :
                    state[t] = "CONSUMED" /\ refCount[t] = 0 => tick[s] <= tick[t]]_vars
  <2> SUFFICES ASSUME IInv, ScanInv, Next, NEW s \in Slots, state[s] \in Idle, state'[s] = "LOADING"
               PROVE  /\ refCount[s] = 0
                      /\ \A t \in Slots : Retained(t) => tick[s] <= tick[t]
    BY DEF Retained
  <2>1. At(Main, "evict") /\ s = op[Main].slot
    BY OnlyEvictCas DEF EvictCas
  <2>. QED
    BY <2>1 DEF IInv, CallerInv, VictimInv, ScanInv, OldestInv
<1>. QED
  BY <1>1, IInvInductive, InitScanInv, ScanInvInductive, PTL DEF Spec, EvictsLeastRecent

-----------------------------------------------------------------------------
(***************************************************************************)
(* The streamer implements ExpertCache.                                    *)
(***************************************************************************)
\* From the vault's table to publishing, a worker's expert is in the vault.
WorkerVault == \A w \in Workers : wpc[w] \in {"pread", "publish"} => ReqKey(w) \in Vault

CacheBytes(s) == IF state[s] \in Idle THEN data[s] ELSE NoKey

\* Main's prefetch has won s and not handed it to the workers.
MainOwns(s) == CallOwns(Main) /\ op[Main].slot = s

\* What a step does to s, and to every slot but s, as the cache sees them.
SameSlot(s) == UNCHANGED <<CacheStatus(s), CacheKey(s), CacheBytes(s)>>
SameOthers(s) == \A t \in Slots : t # s => SameSlot(t)

\* With one caller, whose call owns s is no choice.
LEMMA KeyOfSlot ==
  ASSUME Prewarmers = {}, NEW s
  PROVE  /\ CacheKey(s) = IF state[s] = "EMPTY" THEN NoKey
                          ELSE IF MainOwns(s) THEN op[Main].want ELSE SlotKey(s)
         /\ CacheKey(s)' = IF state'[s] = "EMPTY" THEN NoKey
                           ELSE IF MainOwns(s)' THEN op'[Main].want ELSE SlotKey(s)'
<1>. USE DEF MainOwns
<1>0. Callers = {Main}
  BY DEF Callers
<1>1. CallOwners(s) = IF MainOwns(s) THEN {Main} ELSE {}
  BY <1>0 DEF CallOwners
<1>2. CallOwners(s)' = IF MainOwns(s)' THEN {Main} ELSE {}
  BY <1>0 DEF CallOwners
<1>3. MainOwns(s) => Owner(s) = Main
  BY <1>0 DEF Owner
<1>4. MainOwns(s)' => Owner(s)' = Main
  BY <1>0 DEF Owner
<1>. QED
  BY <1>1, <1>2, <1>3, <1>4 DEF CacheKey

(***************************************************************************)
(* The abstract steps, from their effect slot by slot.                     *)
(***************************************************************************)
LEMMA CacheStutters ==
  ASSUME \A s \in Slots : SameSlot(s)
  PROVE  UNCHANGED Cache!cacheVars
  BY DEF Cache!cacheVars, SameSlot, CacheBytes

LEMMA CacheLoads ==
  ASSUME NEW s \in Slots, NEW k \in Keys, SameOthers(s),
         CacheStatus(s) \in {"free", "cached"}, \A t \in Slots : CacheKey(t) # k,
         CacheStatus(s)' = "loading", CacheKey(s)' = k, CacheBytes(s)' = NoKey
  PROVE  Cache!Next
<1>1. ~Cache!Resident(k)
  BY DEF Cache!Resident
<1>2. Cache!Load(s, k)
  BY <1>1 DEF Cache!Load, SameOthers, SameSlot, CacheBytes
<1>. QED
  BY <1>2 DEF Cache!Next

LEMMA CacheLoaded ==
  ASSUME NEW s \in Slots, SameOthers(s),
         CacheStatus(s) = "loading", CacheKey(s) \in Vault,
         CacheStatus(s)' = "cached", CacheKey(s)' = CacheKey(s), CacheBytes(s)' = CacheKey(s)
  PROVE  Cache!Next
<1>1. Cache!Loaded(s)
  BY DEF Cache!Loaded, SameOthers, SameSlot, CacheBytes
<1>. QED
  BY <1>1 DEF Cache!Next

LEMMA CacheGivesUp ==
  ASSUME NEW s \in Slots, SameOthers(s), CacheStatus(s) = "loading",
         CacheStatus(s)' = "free", CacheKey(s)' = NoKey, CacheBytes(s)' = CacheBytes(s)
  PROVE  Cache!Next
<1>1. Cache!GiveUp(s)
  BY DEF Cache!GiveUp, SameOthers, SameSlot, CacheBytes
<1>. QED
  BY <1>1 DEF Cache!Next

LEMMA CacheClaims ==
  ASSUME NEW s \in Slots, SameOthers(s), CacheStatus(s) = "cached", CacheStatus(s)' = "held",
         CacheKey(s)' = CacheKey(s), CacheBytes(s)' = CacheBytes(s)
  PROVE  Cache!Next
<1>1. Cache!Claim(s)
  BY DEF Cache!Claim, SameOthers, SameSlot, CacheBytes
<1>. QED
  BY <1>1 DEF Cache!Next

LEMMA CacheReleases ==
  ASSUME NEW s \in Slots, SameOthers(s), CacheStatus(s) = "held", CacheStatus(s)' = "cached",
         CacheKey(s)' = CacheKey(s), CacheBytes(s)' = CacheBytes(s)
  PROVE  Cache!Next
<1>1. Cache!Release(s)
  BY DEF Cache!Release, SameOthers, SameSlot, CacheBytes
<1>. QED
  BY <1>1 DEF Cache!Next

-----------------------------------------------------------------------------
(***************************************************************************)
(* Which abstract step each step is.                                       *)
(***************************************************************************)
\* A slot none of whose own state changes.
LEMMA SameSlotWhen ==
  ASSUME Prewarmers = {}, NEW s,
         state'[s] = state[s], SlotKey(s)' = SlotKey(s),
         state[s] \in Idle => data'[s] = data[s],
         (\E h \in held' : h.slot = s) <=> (\E h \in held : h.slot = s),
         MainOwns(s)' <=> MainOwns(s), MainOwns(s) => op'[Main].want = op[Main].want
  PROVE  SameSlot(s)
<1>1. CacheKey(s)' = CacheKey(s)
  BY KeyOfSlot
<1>2. CacheStatus(s)' = CacheStatus(s)
  BY DEF CacheStatus
<1>3. CacheBytes(s)' = CacheBytes(s)
  BY DEF CacheBytes
<1>. QED
  BY <1>1, <1>2, <1>3 DEF SameSlot

\* A held slot is CONSUMED, so a slot in another state is not held.
LEMMA NotHeld ==
  ASSUME IInv, NEW s, state[s] # "CONSUMED"
  PROVE  \A h \in held : h.slot # s
  BY DEF IInv, CallerInv, HeldIntact

\* The loops of prefetch and claim_specific, and what only touches ticks,
\* references, queues, bytes in transit and the request loop.
LEMMA QuietSimulated ==
  ASSUME Prewarmers = {}, UNCHANGED <<state, layerId, expertId, held>>,
         \A s \in Slots : state[s] \in Idle => data'[s] = data[s],
         CallOwns(Main)' <=> CallOwns(Main),
         CallOwns(Main) => op'[Main].slot = op[Main].slot /\ op'[Main].want = op[Main].want
  PROVE  UNCHANGED Cache!cacheVars
<1>1. \A s : (MainOwns(s)' <=> MainOwns(s)) /\ (MainOwns(s) => op'[Main].want = op[Main].want)
  BY DEF MainOwns
<1>2. \A s \in Slots : SameSlot(s)
  BY <1>1, SameSlotWhen DEF SlotKey
<1>. QED
  BY <1>2, CacheStutters

LEMMA SearchSimulated ==
  ASSUME Prewarmers = {}, IInv,
         \/ \E k \in Keys, class \in Classes : BeginPrefetch(Main, k, class)
         \/ ScanHit(Main) \/ ScanNext(Main) \/ ScanMiss(Main) \/ EmptyNext(Main) \/ NoneEmpty(Main)
         \/ LruTake(Main) \/ LruSkip(Main) \/ LruNone(Main) \/ EvictLoad(Main) \/ EvictLost(Main)
  PROVE  UNCHANGED Cache!cacheVars
<1>. USE DEF At, CallOwns
<1>0. TypeOK /\ Main \in Callers
  BY DEF IInv, LoadInv, Callers
<1>1. UNCHANGED <<state, layerId, expertId, data, held>> /\ ~CallOwns(Main)
  BY DEF BeginPrefetch, MayCall, ScanHit, ScanNext, ScanMiss, EmptyNext, NoneEmpty, LruTake,
         LruSkip, LruNone, EvictLoad, EvictLost, ringVars, slotVars, mainVars
<1>2. ~CallOwns(Main)'
  <2>1. CASE \E k \in Keys, class \in Classes : BeginPrefetch(Main, k, class)
    BY <1>0, <2>1, BeginPrefetchEffect
  <2>2. CASE ScanHit(Main) \/ LruNone(Main) \/ EvictLost(Main)
    BY <1>0, <2>2, ReturnEffect DEF ScanHit, LruNone, EvictLost
  <2>3. CASE ScanNext(Main) \/ EmptyNext(Main) \/ LruSkip(Main)
    BY <1>0, <2>3, NextIdxEffect DEF ScanNext, EmptyNext, LruSkip
  <2>4. CASE ScanMiss(Main) \/ NoneEmpty(Main)
    BY <1>0, <2>4, RestartEffect DEF ScanMiss, NoneEmpty, CallLabels
  <2>5. CASE LruTake(Main)
    BY <1>0, <2>5, LruTakeEffect
  <2>6. CASE EvictLoad(Main)
    BY <1>0, <2>6, EvictLoadEffect
  <2>. QED
    BY <2>1, <2>2, <2>3, <2>4, <2>5, <2>6
<1>. QED
  BY <1>1, <1>2, QuietSimulated

\* Winning a slot is the load of an expert that is nowhere in the ring.
LEMMA TakeSlotSimulated ==
  ASSUME Prewarmers = {}, IInv, ScanInv, ClaimEmpty(Main) \/ EvictCas(Main)
  PROVE  Cache!Next
<1>. USE DEF At, CallOwns
<1> DEFINE k == op[Main].want
<1>. PICK s : s = op'[Main].slot
  OBVIOUS
<1>0. TypeOK /\ Main \in Callers /\ CallTypedAt(Main)
  BY DEF IInv, LoadInv, Callers, CallTyped
<1>1. /\ s \in Slots /\ op'[Main].pc = "setLayer" /\ op'[Main].want = k
      /\ k \in Keys /\ ~CallOwns(Main) /\ \A t \in Slots : Absent(t)
      /\ state' = [state EXCEPT ![s] = "LOADING"]
      /\ state[s] = "EMPTY" \/ (state[s] \in Idle /\ refCount[s] = 0)
      /\ UNCHANGED <<layerId, expertId, data, held>>
  <2>1. CASE ClaimEmpty(Main)
    BY <1>0, <2>1, ClaimEmptyEffect
    DEF ClaimEmpty, CallTypedAt, mainVars, ScanInv, AbsentInv
  <2>2. CASE EvictCas(Main)
    <3>1. op'[Main].pc = "setLayer" /\ SameCall(Main)
      BY <1>0, <2>2, GotoEffect DEF EvictCas, CallLabels
    <3>2. state[op[Main].slot] \in Idle /\ refCount[op[Main].slot] = 0
      BY <2>2 DEF EvictCas, IInv, CallerInv, VictimInv
    <3>. QED
      BY <1>0, <2>2, <3>1, <3>2
      DEF EvictCas, SameCall, CallTypedAt, mainVars, ScanInv, AbsentInv
  <2>. QED
    BY <2>1, <2>2
<1>2. state'[s] = "LOADING" /\ \A t \in Slots : t # s => state'[t] = state[t]
  BY <1>0, <1>1 DEF TypeOK
<1>3. \A h \in held : h.slot # s
  BY <1>1, NotHeld DEF IInv, CallerInv, HeldOnce
<1>4. \A t : ~MainOwns(t)
  BY <1>1 DEF MainOwns
<1>5. \A t : MainOwns(t)' <=> t = s
  BY <1>1 DEF MainOwns
<1>6. SameOthers(s)
  <2> SUFFICES ASSUME NEW t \in Slots, t # s PROVE SameSlot(t)
    BY DEF SameOthers
  <2>1. state'[t] = state[t] /\ SlotKey(t)' = SlotKey(t) /\ data'[t] = data[t] /\ held' = held
    BY <1>1, <1>2 DEF SlotKey
  <2>. QED
    BY <1>4, <1>5, <2>1, SameSlotWhen
<1>7. CacheStatus(s) \in {"free", "cached"}
  BY <1>1, <1>3 DEF CacheStatus, Idle
<1>8. CacheStatus(s)' = "loading"
  BY <1>1, <1>2, <1>3 DEF CacheStatus
<1>9. CacheKey(s)' = k
  BY <1>1, <1>2, <1>5, KeyOfSlot
<1>10. \A t \in Slots : CacheKey(t) # k
  BY <1>1, <1>4, KeyOfSlot, IdAssumption DEF Absent
<1>11. CacheBytes(s)' = NoKey
  BY <1>2 DEF CacheBytes, Idle
<1>. QED
  BY <1>1, <1>6, <1>7, <1>8, <1>9, <1>10, <1>11, CacheLoads

\* While the owner writes the metadata, and when its request is queued, the
\* slot's expert is the one the call is for.
LEMMA MetaSimulated ==
  ASSUME Prewarmers = {}, IInv,
         SetLayer(Main) \/ SetExpert(Main) \/ SetRef(Main) \/ SetTick(Main) \/ Push(Main)
  PROVE  UNCHANGED Cache!cacheVars
<1>. USE DEF At, CallOwns
<1>. PICK s : s = op[Main].slot
  OBVIOUS
<1>0. TypeOK /\ Main \in Callers /\ CallTypedAt(Main)
  BY DEF IInv, LoadInv, Callers, CallTyped
<1>1. CallOwns(Main) /\ s \in Slots /\ state[s] = "LOADING" /\ UNCHANGED <<state, data, held>>
  BY <1>0 DEF SetLayer, SetExpert, SetRef, SetTick, Push, CallTypedAt, IInv, LoadInv, CallLoads,
              ringVars, slotVars, mainVars
<1>2. \A t \in Slots : t # s => SlotKey(t)' = SlotKey(t)
  BY <1>0, <1>1 DEF SetLayer, SetExpert, SetRef, SetTick, Push, TypeOK, SlotKey, ringVars, slotVars
<1>3. CASE SetLayer(Main) \/ SetExpert(Main) \/ SetRef(Main) \/ SetTick(Main)
  <2>1. CallOwns(Main)' /\ op'[Main].slot = s /\ op'[Main].want = op[Main].want
    BY <1>0, <1>3, GotoEffect DEF SetLayer, SetExpert, SetRef, SetTick, SameCall, CallLabels
  <2>2. \A t : (MainOwns(t)' <=> MainOwns(t)) /\ (MainOwns(t) <=> t = s)
    BY <1>1, <2>1 DEF MainOwns
  <2>3. \A t \in Slots : t # s => SameSlot(t)
    BY <1>1, <1>2, <2>1, <2>2, SameSlotWhen
  <2>4. SameSlot(s)
    <3>1. CacheKey(s)' = CacheKey(s)
      BY <1>1, <2>1, <2>2, KeyOfSlot
    <3>2. CacheStatus(s)' = CacheStatus(s) /\ CacheBytes(s)' = CacheBytes(s)
      BY <1>1, <2>1 DEF CacheStatus, CacheBytes
    <3>. QED
      BY <3>1, <3>2 DEF SameSlot
  <2>. QED
    BY <2>3, <2>4, CacheStutters
<1>4. CASE Push(Main)
  <2>1. ~CallOwns(Main)'
    BY <1>0, <1>4, ReturnEffect DEF Push
  <2>2. op[Main].want \in Keys
    BY <1>0, <1>4 DEF Push, CallTypedAt
  <2>3. SlotKey(s) = op[Main].want
    BY <1>0, <1>1, <1>4, <2>2 DEF Push, IInv, LoadInv, CallLoads, SlotKey, Keys
  <2>4. UNCHANGED <<layerId, expertId>>
    BY <1>4 DEF Push, ringVars, slotVars
  <2>5. \A t : ~MainOwns(t)' /\ (MainOwns(t) <=> t = s)
    BY <1>1, <2>1 DEF MainOwns
  <2>6. \A t \in Slots : CacheKey(t)' = CacheKey(t)
    BY <1>1, <2>3, <2>4, <2>5, KeyOfSlot DEF SlotKey
  <2>7. \A t \in Slots : CacheStatus(t)' = CacheStatus(t) /\ CacheBytes(t)' = CacheBytes(t)
    BY <1>1 DEF CacheStatus, CacheBytes
  <2>. QED
    BY <2>6, <2>7, CacheStutters DEF SameSlot
<1>. QED
  BY <1>3, <1>4

\* A slot that goes back to EMPTY: a full queue, an unknown expert, a failed read.
LEMMA GiveUpSimulated ==
  ASSUME Prewarmers = {}, IInv, NEW s \in Slots, state[s] = "LOADING",
         state' = [state EXCEPT ![s] = "EMPTY"],
         UNCHANGED <<layerId, expertId, data, held>>,
         \A t \in Slots : t # s => (MainOwns(t)' <=> MainOwns(t)),
         \A t \in Slots : t # s /\ MainOwns(t) => op'[Main].want = op[Main].want
  PROVE  Cache!Next
<1>1. state'[s] = "EMPTY" /\ \A t \in Slots : t # s => state'[t] = state[t]
  BY DEF IInv, LoadInv, TypeOK
<1>2. \A h \in held : h.slot # s
  BY NotHeld
<1>3. SameOthers(s)
  BY <1>1, SameSlotWhen DEF SameOthers, SlotKey
<1>4. CacheStatus(s) = "loading" /\ CacheStatus(s)' = "free"
  BY <1>1, <1>2 DEF CacheStatus
<1>5. CacheKey(s)' = NoKey
  BY <1>1, KeyOfSlot
<1>6. CacheBytes(s)' = CacheBytes(s)
  BY <1>1 DEF CacheBytes, Idle
<1>. QED
  BY <1>3, <1>4, <1>5, <1>6, CacheGivesUp

LEMMA PushFullSimulated ==
  ASSUME Prewarmers = {}, IInv, PushFull(Main)
  PROVE  Cache!Next
<1>. USE DEF At, CallOwns
<1>. PICK s : s = op[Main].slot
  OBVIOUS
<1>0. TypeOK /\ Main \in Callers /\ CallTypedAt(Main)
  BY DEF IInv, LoadInv, Callers, CallTyped
<1>1. /\ CallOwns(Main) /\ s \in Slots /\ state[s] = "LOADING"
      /\ state' = [state EXCEPT ![s] = "EMPTY"]
      /\ UNCHANGED <<layerId, expertId, data, held>>
  BY <1>0 DEF PushFull, CallTypedAt, IInv, LoadInv, CallLoads, mainVars
<1>2. ~CallOwns(Main)'
  BY <1>0, ReturnEffect DEF PushFull
<1>3. \A t \in Slots : t # s => ~MainOwns(t) /\ ~MainOwns(t)'
  BY <1>2 DEF MainOwns
<1>. QED
  BY <1>1, <1>3, GiveUpSimulated

LEMMA WorkerSimulated ==
  ASSUME Prewarmers = {}, IInv, WorkerVault, NEW w \in Workers, WorkerStep(w)
  PROVE  Cache!Next \/ UNCHANGED Cache!cacheVars
<1>. PICK s : s = wreq[w].slot
  OBVIOUS
<1>0. TypeOK /\ UNCHANGED <<layerId, expertId, op, held>>
  BY WorkerFrame DEF IInv, LoadInv, mainVars
<1>1. \A t : MainOwns(t)' = MainOwns(t)
  BY <1>0 DEF MainOwns, CallOwns
<1>2. WorkerOwns(w) => /\ s \in Slots /\ state[s] = "LOADING" /\ SlotKey(s) = ReqKey(w)
                       /\ ~MainOwns(s)
  BY DEF IInv, LoadInv, WorkerLoads, CallDistinct, MainOwns, Request, SlotKey, ReqKey, Callers
<1>3. CASE UnknownExpert(w) \/ ReadFail(w)
  <2>1. /\ s \in Slots /\ state[s] = "LOADING" /\ state' = [state EXCEPT ![s] = "EMPTY"]
        /\ UNCHANGED data
    BY <1>2, <1>3 DEF UnknownExpert, ReadFail, FinishLoad, WorkerOwns
  <2>. QED
    BY <1>0, <1>1, <2>1, GiveUpSimulated
<1>4. CASE Publish(w)
  <2>1. /\ s \in Slots /\ state[s] = "LOADING" /\ SlotKey(s) = ReqKey(w) /\ ~MainOwns(s)
        /\ state' = [state EXCEPT ![s] = "READY"] /\ UNCHANGED data
        /\ ReqKey(w) \in Vault /\ data[s] = ReqKey(w)
    BY <1>2, <1>4 DEF Publish, FinishLoad, WorkerOwns, WorkerVault, IInv, LoadInv, WorkerLoads
  <2>2. state'[s] = "READY" /\ \A t \in Slots : t # s => state'[t] = state[t]
    BY <1>0, <2>1 DEF TypeOK
  <2>3. \A h \in held : h.slot # s
    BY <2>1, NotHeld
  <2>4. SameOthers(s)
    <3> SUFFICES ASSUME NEW t \in Slots, t # s PROVE SameSlot(t)
      BY DEF SameOthers
    <3>1. /\ state'[t] = state[t] /\ SlotKey(t)' = SlotKey(t) /\ data'[t] = data[t]
          /\ held' = held /\ op' = op
      BY <1>0, <2>1, <2>2 DEF SlotKey
    <3>. QED
      BY <1>1, <3>1, SameSlotWhen
  <2>5. CacheStatus(s) = "loading" /\ CacheStatus(s)' = "cached"
    BY <1>0, <2>1, <2>2, <2>3 DEF CacheStatus
  <2>6. CacheKey(s) = ReqKey(w) /\ CacheKey(s)' = ReqKey(w)
    <3>1. ~MainOwns(s)' /\ SlotKey(s)' = SlotKey(s)
      BY <1>0, <1>1, <2>1 DEF SlotKey
    <3>. QED
      BY <2>1, <2>2, <3>1, KeyOfSlot
  <2>7. CacheBytes(s)' = ReqKey(w)
    BY <2>1, <2>2 DEF CacheBytes, Idle
  <2>. QED
    BY <2>1, <2>4, <2>5, <2>6, <2>7, CacheLoaded
<1>5. CASE UNCHANGED state
  <2>1. \A t \in Slots : state[t] \in Idle => data'[t] = data[t]
    BY WorkerFrame DEF IInv, Idle
  <2>. QED
    BY <1>0, <1>5, <2>1, QuietSimulated DEF CallOwns
<1>. QED
  BY <1>3, <1>4, <1>5
  DEF WorkerStep, PollDemand, PollSpec, Pop, PopMisses, ReadStart, ReadOk, WorkerExit, ringVars,
      slotVars

\* claim_specific is a claim when it returns; before, the slot stays cached.
LEMMA ClaimSimulated ==
  ASSUME Prewarmers = {}, IInv, ClaimStep \/ \E k \in Keys : BeginClaim(k)
  PROVE  Cache!Next \/ UNCHANGED Cache!cacheVars
<1>. USE DEF At, CallOwns
<1>. PICK s : s = op[Main].idx
  OBVIOUS
<1>0. TypeOK /\ Main \in Callers /\ CallTypedAt(Main)
  BY DEF IInv, LoadInv, Callers, CallTyped
<1>1. ~CallOwns(Main) /\ UNCHANGED <<layerId, expertId, data>>
  BY DEF BeginClaim, MayCall, ClaimStep, MatchKey, MatchNext, MatchNone, ClaimReady, ClaimNotReady,
         Reclaim, ReclaimNot, TakeRef, ClaimDone, ringVars, slotVars
<1>2. ~CallOwns(Main)'
  <2>1. CASE \E k \in Keys : BeginClaim(k)
    BY <1>0, <2>1, BeginClaimEffect
  <2>2. CASE MatchKey \/ ClaimReady \/ Reclaim \/ TakeRef
    BY <1>0, <2>2, GotoEffect DEF MatchKey, ClaimReady, Reclaim, TakeRef, CallLabels
  <2>3. CASE MatchNext
    BY <1>0, <2>3, NextIdxEffect DEF MatchNext
  <2>4. CASE MatchNone \/ ClaimDone
    BY <1>0, <2>4, ReturnEffect DEF MatchNone, ClaimDone
  <2>5. CASE ClaimNotReady
    BY <1>0, <2>5, ClaimNotReadyEffect DEF ClaimNotReady, CallTypedAt
  <2>6. CASE ReclaimNot
    BY <1>0, <2>6, ReclaimNotEffect DEF ReclaimNot, CallTypedAt
  <2>. QED
    BY <2>1, <2>2, <2>3, <2>4, <2>5, <2>6 DEF ClaimStep
<1>3. \A t : ~MainOwns(t) /\ ~MainOwns(t)'
  BY <1>1, <1>2 DEF MainOwns
<1>4. CASE ClaimDone
  <2>1. /\ s \in Slots /\ state[s] = "CONSUMED" /\ \A h \in held : h.slot # s
        /\ state' = state /\ held' = held \cup {[slot |-> s, key |-> op[Main].want]}
    BY <1>0, <1>4 DEF ClaimDone, CallTypedAt, IInv, CallerInv, ClaimInv
  <2>2. /\ \E h \in held' : h.slot = s
        /\ \A t : t # s => ((\E h \in held' : h.slot = t) <=> (\E h \in held : h.slot = t))
    <3>1. PICK g : g = [slot |-> s, key |-> op[Main].want]
      OBVIOUS
    <3>2. g.slot = s /\ held' = held \cup {g}
      BY <2>1, <3>1
    <3>. QED
      BY <3>2
  <2>3. SameOthers(s)
    <3> SUFFICES ASSUME NEW t \in Slots, t # s PROVE SameSlot(t)
      BY DEF SameOthers
    <3>1. state'[t] = state[t] /\ SlotKey(t)' = SlotKey(t) /\ data'[t] = data[t]
      BY <1>1, <2>1 DEF SlotKey
    <3>. QED
      BY <1>3, <2>2, <3>1, SameSlotWhen
  <2>4. CacheStatus(s) = "cached" /\ CacheStatus(s)' = "held"
    BY <2>1, <2>2 DEF CacheStatus
  <2>5. CacheKey(s)' = CacheKey(s)
    BY <1>1, <1>3, <2>1, KeyOfSlot DEF SlotKey
  <2>6. CacheBytes(s)' = CacheBytes(s)
    BY <1>1, <2>1 DEF CacheBytes
  <2>. QED
    BY <2>1, <2>3, <2>4, <2>5, <2>6, CacheClaims
<1>5. CASE ClaimReady
  <2>1. s \in Slots /\ state[s] = "READY" /\ state' = [state EXCEPT ![s] = "CONSUMED"] /\ held' = held
    BY <1>0, <1>5 DEF ClaimReady, CallTypedAt, mainVars
  <2>2. state'[s] = "CONSUMED" /\ \A t \in Slots : t # s => state'[t] = state[t]
    BY <1>0, <2>1 DEF TypeOK
  <2>3. \A h \in held : h.slot # s
    BY <2>1, NotHeld
  <2>4. CacheStatus(s)' = CacheStatus(s)
    BY <2>1, <2>2, <2>3 DEF CacheStatus
  <2>5. CacheKey(s)' = CacheKey(s)
    BY <1>1, <1>3, <2>1, <2>2, KeyOfSlot DEF SlotKey
  <2>6. CacheBytes(s)' = CacheBytes(s)
    BY <1>1, <2>1, <2>2 DEF CacheBytes, Idle
  <2>7. \A t \in Slots : t # s => SameSlot(t)
    <3> SUFFICES ASSUME NEW t \in Slots, t # s PROVE SameSlot(t)
      OBVIOUS
    <3>1. state'[t] = state[t] /\ SlotKey(t)' = SlotKey(t) /\ data'[t] = data[t]
      BY <1>1, <2>2 DEF SlotKey
    <3>. QED
      BY <1>3, <2>1, <3>1, SameSlotWhen
  <2>8. \A t \in Slots : SameSlot(t)
    BY <2>4, <2>5, <2>6, <2>7 DEF SameSlot
  <2>. QED
    BY <2>8, CacheStutters
<1>6. CASE UNCHANGED <<state, held>>
  BY <1>1, <1>2, <1>6, QuietSimulated
<1>. QED
  BY <1>4, <1>5, <1>6
  DEF BeginClaim, ClaimStep, MatchKey, MatchNext, MatchNone, ClaimNotReady, Reclaim, ReclaimNot,
      TakeRef, ringVars, slotVars, mainVars

LEMMA ReleaseSimulated ==
  ASSUME Prewarmers = {}, IInv, NEW h \in held, Release(h)
  PROVE  Cache!Next
<1>. PICK s : s = h.slot
  OBVIOUS
<1>1. /\ s \in Slots /\ state[s] = "CONSUMED" /\ held' = held \ {h}
      /\ UNCHANGED <<state, layerId, expertId, data, op>>
      /\ \A g \in held : g.slot = s => g = h
  BY DEF Release, IInv, LoadInv, TypeOK, CallerInv, HeldIntact, HeldOnce
<1>2. /\ \A g \in held' : g.slot # s
      /\ \A t : t # s => ((\E g \in held' : g.slot = t) <=> (\E g \in held : g.slot = t))
  BY <1>1
<1>3. \A t : MainOwns(t)' = MainOwns(t)
  BY <1>1 DEF MainOwns, CallOwns
<1>4. SameOthers(s)
  <2> SUFFICES ASSUME NEW t \in Slots, t # s PROVE SameSlot(t)
    BY DEF SameOthers
  <2>1. state'[t] = state[t] /\ SlotKey(t)' = SlotKey(t) /\ data'[t] = data[t] /\ op' = op
    BY <1>1 DEF SlotKey
  <2>. QED
    BY <1>2, <1>3, <2>1, SameSlotWhen
<1>5. CacheStatus(s) = "held" /\ CacheStatus(s)' = "cached"
  BY <1>1, <1>2 DEF CacheStatus
<1>6. CacheKey(s)' = CacheKey(s)
  BY <1>1, <1>3, KeyOfSlot DEF SlotKey
<1>7. CacheBytes(s)' = CacheBytes(s)
  BY <1>1 DEF CacheBytes
<1>. QED
  BY <1>1, <1>4, <1>5, <1>6, <1>7, CacheReleases

LEMMA StepSimulated ==
  ASSUME Prewarmers = {}, IInv, ScanInv, WorkerVault, [Next]_vars
  PROVE  [Cache!Next]_(Cache!cacheVars)
<1>1. CASE \E c \in Callers, k \in Keys, class \in Classes : BeginPrefetch(c, k, class)
  BY <1>1, SearchSimulated DEF Callers
<1>2. CASE \E k \in Keys : BeginClaim(k)
  BY <1>2, ClaimSimulated
<1>3. CASE \E h \in held : Release(h)
  BY <1>3, ReleaseSimulated
<1>4. CASE \E c \in Callers : PrefetchStep(c)
  <2>. PrefetchStep(Main)
    BY <1>4 DEF Callers
  <2>. QED
    BY SearchSimulated, TakeSlotSimulated, MetaSimulated, PushFullSimulated DEF PrefetchStep
<1>5. CASE ClaimStep
  BY <1>5, ClaimSimulated
<1>6. CASE \E w \in Workers : WorkerStep(w)
  BY <1>6, WorkerSimulated
<1>7. CASE BeginRequest \/ EndRequest \/ Shutdown \/ Exited \/ UNCHANGED vars
  <2>1. UNCHANGED <<state, layerId, expertId, data, op, held>>
    BY <1>7 DEF BeginRequest, EndRequest, Shutdown, StopPrewarm, ShutdownStreamer, FreeRing, Exited,
                vars, ringVars, slotVars, mainVars
  <2>2. CallOwns(Main)' <=> CallOwns(Main)
    BY <2>1 DEF CallOwns
  <2>. QED
    BY <2>1, <2>2, QuietSimulated
<1>. QED
  BY <1>1, <1>2, <1>3, <1>4, <1>5, <1>6, <1>7 DEF Next, Calls

LEMMA InitSimulated == Init => Cache!Init
<1> SUFFICES ASSUME Init PROVE Cache!Init
  OBVIOUS
<1>1. \A s \in Slots : CacheStatus(s) = "free" /\ CacheKey(s) = NoKey /\ CacheBytes(s) = NoKey
  BY DEF Init, CacheStatus, CacheKey, CacheBytes, Idle
<1>. QED
  BY <1>1 DEF Cache!Init, CacheBytes

LEMMA WorkerVaultInductive == LoadInv /\ WorkerVault /\ [Next]_vars => WorkerVault'
<1> SUFFICES ASSUME LoadInv, WorkerVault, [Next]_vars PROVE WorkerVault'
  OBVIOUS
<1>0. TypeOK
  BY DEF LoadInv
<1>1. CASE \E w \in Workers : WorkerStep(w)
  <2>. PICK w \in Workers : WorkerStep(w)
    BY <1>1
  <2>1. \A v \in Workers : v # w => wpc'[v] = wpc[v] /\ wreq'[v] = wreq[v]
    BY <1>0 DEF WorkerStep, PollDemand, PollSpec, Pop, PopMisses, UnknownExpert, ReadStart, ReadOk,
                ReadFail, Publish, WorkerExit, FinishLoad, TypeOK
  <2>2. wpc'[w] \in {"pread", "publish"} => ReqKey(w)' = ReqKey(w) /\ ReqKey(w) \in Vault
    BY <1>0 DEF WorkerStep, PollDemand, PollSpec, Pop, PopMisses, UnknownExpert, ReadStart, ReadOk,
                ReadFail, Publish, WorkerExit, FinishLoad, TypeOK, ReqKey, WorkerVault
  <2>3. \A v \in Workers : v # w => ReqKey(v)' = ReqKey(v)
    BY <2>1 DEF ReqKey
  <2>. QED
    BY <2>1, <2>2, <2>3 DEF WorkerVault
<1>2. CASE UNCHANGED <<wpc, wreq>>
  BY <1>2 DEF WorkerVault, ReqKey
<1>3. ~(\E w \in Workers : WorkerStep(w)) => UNCHANGED <<wpc, wreq>>
  <2>1. CASE \E c \in Callers : PrefetchStep(c)
    BY <2>1
    DEF PrefetchStep, ScanHit, ScanNext, ScanMiss, ClaimEmpty, EmptyNext, NoneEmpty, LruTake,
        LruSkip, LruNone, EvictLoad, EvictCas, EvictLost, SetLayer, SetExpert, SetRef, SetTick,
        Push, PushFull, workVars
  <2>. QED
    BY <2>1
    DEF Next, Calls, BeginPrefetch, BeginClaim, Release, ClaimStep, MatchKey, MatchNext, MatchNone,
        ClaimReady, ClaimNotReady, Reclaim, ReclaimNot, TakeRef, ClaimDone, BeginRequest,
        EndRequest, Shutdown, StopPrewarm, ShutdownStreamer, FreeRing, Exited, vars, workVars
<1>. QED
  BY <1>1, <1>2, <1>3

\* When Main is the only caller of prefetch: seen from its calls, the streamer
\* with its queues, workers, failed reads and evictions is ExpertCache.
THEOREM StreamerIsCache ==
  ASSUME Prewarmers = {}
  PROVE  Spec => ImplementsCache
<1>1. Init => WorkerVault
  BY DEF Init, WorkerVault
<1>2. IInv /\ ScanInv /\ WorkerVault /\ [Next]_vars => [Cache!Next]_(Cache!cacheVars)
  BY StepSimulated
<1>3. IInv /\ WorkerVault /\ [Next]_vars => WorkerVault'
  BY WorkerVaultInductive DEF IInv
<1>. QED
  BY <1>1, <1>2, <1>3, IInvInductive, InitScanInv, ScanInvInductive, InitSimulated, PTL
  DEF Spec, ImplementsCache, Cache!Spec
=============================================================================
