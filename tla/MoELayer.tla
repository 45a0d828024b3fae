------------------------------ MODULE MoELayer ------------------------------
(***************************************************************************)
(* One mixture-of-experts layer at a time: how decode::run_token_step and  *)
(* prefill::run_layer_major get the experts a layer has been routed to     *)
(* through the streamer's ring, run them on the GPU and give them back.    *)
(*                                                                         *)
(*   decode   prefetch the top k and then the speculative ranks; claim     *)
(*            what is there and dispatch it as one group; spin for the     *)
(*            rest; then wait for each expert, add it, release it.         *)
(*   prefill  route token by token, prefetching each expert when it first  *)
(*            enters the union; claim each union expert once, run it for   *)
(*            all its tokens, release it at once.                          *)
(*                                                                         *)
(* Abstractions.  A call of the streamer is one step (Streamer.tla has its *)
(* atomic operations, and shows that with one caller they look like one    *)
(* step each); loads end in any order; the request queues are never full,  *)
(* as when RingSize <= 1024.  The GPU runs command buffers in the order of *)
(* their commits.  A routed expert is in the vault.                        *)
(***************************************************************************)
EXTENDS Naturals, Sequences, FiniteSets, Functions

CONSTANTS
    Experts,        \* <<layer, expert>> pairs, as opaque keys
    RingSize,       \* slots of the ring
    TopK,           \* cfg.moe_top_k
    SpecWidth,      \* --spec: speculative ranks after the top k
    Batch,          \* tokens of a prefill chunk
    SpinPeriod,     \* BOUND: a retry every SpinPeriod idle sweeps, not 10000
    NoExpert        \* the key of a slot never used

Slots  == 0 .. RingSize - 1
NoSlot == RingSize

ASSUME SizesAssumption ==
    /\ RingSize \in Nat \ {0} /\ TopK \in Nat \ {0} /\ Batch \in Nat \ {0}
    /\ SpecWidth \in Nat /\ SpinPeriod \in Nat \ {0}
ASSUME ExpertAssumption == NoExpert \notin Experts

VARIABLES
    state, key, refCount,   \* the ring's slots
    lru,            \* each slot's rank in the order of last_used_tick, 0 the oldest
    mode,           \* "decode" or "prefill"
    pc,             \* where the layer is
    tok,            \* prefill: the token being routed
    sel,            \* the experts ranked for the token being routed
    list,           \* pred.expert_ids, or g_union_ids: the experts to run
    users,          \* g_elist: the tokens of each expert of the list
    routed,         \* what the router asked for: <<token, expert>> pairs
    idx,            \* the loop index of the phase
    spin, progress, \* the locals of the spin loop
    slotOf,         \* active_slots: the slot claimed for each of the list
    groups,         \* committed command buffers: the list indices each runs
    signaled,       \* shared_event.signaledValue: how many have completed
    added           \* contributions accumulated: <<token, expert>> -> count

ringVars  == <<state, key, refCount, lru>>
gpuVars   == <<groups, signaled>>
routeVars == <<mode, tok, sel, list, users, routed>>
loopVars  == <<idx, spin, progress>>
vars      == <<ringVars, pc, routeVars, loopVars, slotOf, gpuVars, added>>

Idle == {"READY", "CONSUMED"}
Rows == 1 .. Batch

Init ==
    /\ state    = [s \in Slots |-> "EMPTY"]
    /\ key      = [s \in Slots |-> NoExpert]
    /\ refCount = [s \in Slots |-> 0]
    /\ lru      = [s \in Slots |-> s]
    /\ mode = "decode" /\ pc = "layerDone"
    /\ tok = 1 /\ sel = <<>> /\ list = <<>>
    /\ users = [x \in Experts |-> {}] /\ routed = {}
    /\ idx = 1 /\ spin = 0 /\ progress = FALSE
    /\ slotOf = [x \in Experts |-> NoSlot]
    /\ groups = <<>> /\ signaled = 0
    /\ added = [p \in Rows \X Experts |-> 0]

-----------------------------------------------------------------------------
(***************************************************************************)
(* The streamer's calls.                                                   *)
(***************************************************************************)
\* last_used_tick := a new tick: s becomes the most recent, the others keep
\* their order.
Touched(s) ==
    [t \in Slots |-> IF t = s THEN RingSize - 1
                     ELSE IF lru[t] > lru[s] THEN lru[t] - 1 ELSE lru[t]]

\* Mutant: a load under way is not seen.
ResidentLoaded(x) == {s \in Slots : state[s] \in Idle /\ key[s] = x}

Resident(x) == {s \in Slots : state[s] # "EMPTY" /\ key[s] = x}
Empty       == {s \in Slots : state[s] = "EMPTY"}

\* Mutant: references are not looked at.
EvictableAnyRef == {s \in Slots : state[s] \in Idle}
Evictable   == {s \in Slots : state[s] \in Idle /\ refCount[s] = 0}

\* Mutant: the most recently used slot is taken.
Newest(S) == CHOOSE s \in S : \A t \in S : lru[t] <= lru[s]

Oldest(S) == CHOOSE s \in S : \A t \in S : lru[s] <= lru[t]

\* The slot a load of a new expert goes to: the first empty one, or the least
\* recently used of the evictable ones.
Target == IF Empty # {} THEN CHOOSE s \in Empty : \A t \in Empty : s <= t
          ELSE Oldest(Evictable)

\* What prefetch(x) does to the ring.
Prefetch(x) ==
    \/ \E s \in Resident(x) :
        /\ lru' = Touched(s)
        /\ UNCHANGED <<state, key, refCount>>
    \/ /\ Resident(x) = {} /\ Empty \cup Evictable # {}
       /\ LET s == Target IN
            /\ state'    = [state EXCEPT ![s] = "LOADING"]
            /\ key'      = [key EXCEPT ![s] = x]
            /\ refCount' = [refCount EXCEPT ![s] = 0]
            /\ lru'      = Touched(s)
    \/ /\ Resident(x) = {} /\ Empty \cup Evictable = {}
       /\ UNCHANGED ringVars

\* The slots claim_specific(x) would return; at most one.
Claimable(x) == {s \in Slots : key[s] = x /\ s \in Evictable}

Claim(s) ==
    /\ state'    = [state EXCEPT ![s] = "CONSUMED"]
    /\ refCount' = [refCount EXCEPT ![s] = @ + 1]
    /\ lru'      = Touched(s)
    /\ UNCHANGED key

Release(s) ==
    /\ refCount' = [refCount EXCEPT ![s] = @ - 1]
    /\ UNCHANGED <<state, key, lru>>

\* A worker ends a load, with the expert's bytes or without.  The
\* ids of an EMPTY slot, which nothing matches, are dropped with its state.
LoadEnds(s) ==
    /\ state[s] = "LOADING"
    /\ state' = [state EXCEPT ![s] = "READY"]
    /\ UNCHANGED <<key, refCount, lru, pc, routeVars, loopVars, slotOf, gpuVars, added>>

LoadFails(s) ==
    /\ state[s] = "LOADING"
    /\ state' = [state EXCEPT ![s] = "EMPTY"]
    /\ key'   = [key EXCEPT ![s] = NoExpert]
    /\ UNCHANGED <<refCount, lru, pc, routeVars, loopVars, slotOf, gpuVars, added>>

-----------------------------------------------------------------------------
(***************************************************************************)
(* Routing.                                                                *)
(***************************************************************************)
\* compute_top_k over the gate's scores: any ranking of k distinct experts.
Ranked(k) == {r \in [1 .. k -> Experts] : \A i, j \in 1 .. k : i # j => r[i] # r[j]}

Goto(label) == pc' = label /\ idx' = 1

\* A new layer; union_reset and the loops' locals.
BeginLayer(m) ==
    /\ pc = "layerDone"
    /\ mode' = m
    /\ spin' = 0 /\ progress' = FALSE
    /\ slotOf' = [x \in Experts |-> NoSlot]
    /\ groups' = <<>> /\ signaled' = 0
    /\ added' = [p \in Rows \X Experts |-> 0]
    /\ tok' = 1
    /\ UNCHANGED ringVars

DecodeLayer(ranking) ==
    /\ BeginLayer("decode")
    /\ sel'  = ranking
    /\ list' = SubSeq(ranking, 1, TopK)
    /\ users' = [x \in Experts |-> IF x \in Range(list') THEN {1} ELSE {}]
    /\ routed' = {1} \X Range(list')
    /\ Goto("fire")

PrefillLayer(ranking) ==
    /\ BeginLayer("prefill")
    /\ sel'  = ranking
    /\ list' = <<>>
    /\ users' = [x \in Experts |-> {}]
    /\ routed' = {1} \X Range(ranking)
    /\ Goto("fire")

\* The ranks after the TopK-th are a bet on the next token.
FireDecode ==
    /\ pc = "fire" /\ mode = "decode" /\ idx <= Len(sel)
    /\ Prefetch(sel[idx])
    /\ idx' = idx + 1
    /\ UNCHANGED <<pc, routeVars, spin, progress, slotOf, gpuVars, added>>

\* Mutant: union_add returns early for an expert it already has.
FirePrefillFirstUser ==
    LET x == sel[idx] IN
    /\ pc = "fire" /\ mode = "prefill" /\ idx <= Len(sel)
    /\ IF x \in Range(list)
       THEN UNCHANGED <<ringVars, list, users>>
       ELSE /\ users' = [users EXCEPT ![x] = {tok}]
            /\ list' = Append(list, x) /\ Prefetch(x)
    /\ idx' = idx + 1
    /\ UNCHANGED <<pc, mode, tok, sel, routed, spin, progress, slotOf, gpuVars, added>>

\* union_add: prefetch on the first entry only; the token joins the users.
FirePrefill ==
    LET x == sel[idx] IN
    /\ pc = "fire" /\ mode = "prefill" /\ idx <= Len(sel)
    /\ users' = [users EXCEPT ![x] = @ \cup {tok}]
    /\ IF x \in Range(list)
       THEN UNCHANGED <<ringVars, list>>
       ELSE list' = Append(list, x) /\ Prefetch(x)
    /\ idx' = idx + 1
    /\ UNCHANGED <<pc, mode, tok, sel, routed, spin, progress, slotOf, gpuVars, added>>

\* The next token of the chunk is routed.
NextToken(ranking) ==
    /\ pc = "fire" /\ mode = "prefill" /\ idx > Len(sel)
    /\ tok < Batch
    /\ tok' = tok + 1
    /\ sel' = ranking
    /\ routed' = routed \cup {tok'} \X Range(ranking)
    /\ idx' = 1
    /\ UNCHANGED <<ringVars, pc, mode, list, users, spin, progress, slotOf,
                   gpuVars, added>>

\* All is routed (a chunk may have fewer tokens than Batch).
Fired ==
    /\ pc = "fire" /\ idx > Len(sel)
    /\ Goto(IF mode = "decode" THEN "claim" ELSE "spin")
    /\ UNCHANGED <<ringVars, routeVars, spin, progress, slotOf, gpuVars, added>>

-----------------------------------------------------------------------------
(***************************************************************************)
(* Claiming.                                                               *)
(***************************************************************************)
Claimed == {x \in Range(list) : slotOf[x] # NoSlot}     \* executed[], done[]

Running == UNION Range(groups)

\* Decode: the first pass ("claim") and the sweeps of the spin loop.
ClaimHit(s) ==
    LET x == list[idx] IN
    /\ pc \in {"claim", "spin"} /\ mode = "decode" /\ idx <= Len(list)
    /\ x \notin Claimed /\ s \in Claimable(x)
    /\ Claim(s)
    /\ slotOf' = [slotOf EXCEPT ![x] = s]
    /\ progress' = TRUE
    /\ idx' = idx + 1
    /\ UNCHANGED <<pc, routeVars, spin, gpuVars, added>>

\* Mutant: a missing expert is never prefetched again.
RetryNever == pc = "spin" /\ spin > SpinPeriod

\* A miss is prefetched again on the first sweep (decode) and then on every
\* SpinPeriod-th without progress.
RetryNow ==
    /\ pc = "spin"
    /\ spin = SpinPeriod \/ (mode = "decode" /\ spin = 0)

ClaimMiss ==
    LET x == list[idx] IN
    /\ pc \in {"claim", "spin"} /\ idx <= Len(list)
    /\ x \notin Claimed /\ Claimable(x) = {}
    /\ IF RetryNow THEN Prefetch(x) ELSE UNCHANGED ringVars
    /\ idx' = idx + 1
    /\ UNCHANGED <<pc, routeVars, spin, progress, slotOf, gpuVars, added>>

ClaimSkip ==
    /\ pc \in {"claim", "spin"} /\ idx <= Len(list)
    /\ list[idx] \in Claimed
    /\ idx' = idx + 1
    /\ UNCHANGED <<ringVars, pc, routeVars, spin, progress, slotOf, gpuVars, added>>

\* dispatch_group: what was claimed in this sweep rides one command buffer.
Dispatch ==
    groups' = IF Claimed \subseteq Running THEN groups
              ELSE Append(groups, Claimed \ Running)

FirstPassEnds ==
    /\ pc = "claim" /\ idx > Len(list)
    /\ Dispatch
    /\ Goto("spin") /\ progress' = FALSE
    /\ UNCHANGED <<ringVars, routeVars, spin, slotOf, signaled, added>>

NextSpin == IF spin = SpinPeriod THEN 1 ELSE spin + 1

\* The end of a sweep that leaves experts missing.
SweepEnds ==
    /\ pc = "spin" /\ idx > Len(list)
    /\ Claimed # Range(list)
    /\ IF mode = "decode" THEN Dispatch ELSE UNCHANGED groups
    /\ spin' = IF progress THEN spin ELSE NextSpin
    /\ idx' = 1 /\ progress' = FALSE
    /\ UNCHANGED <<ringVars, pc, routeVars, slotOf, signaled, added>>

AllClaimed ==
    /\ pc = "spin" /\ idx > Len(list)
    /\ Claimed = Range(list)
    /\ IF mode = "decode" THEN Dispatch ELSE UNCHANGED groups
    /\ Goto(IF mode = "decode" THEN "wait" ELSE "layerDone")
    /\ UNCHANGED <<ringVars, routeVars, spin, progress, slotOf, signaled, added>>

-----------------------------------------------------------------------------
(***************************************************************************)
(* Running.                                                                *)
(***************************************************************************)
\* The oldest command buffer not yet completed completes.
GpuCompletes ==
    /\ signaled < Len(groups)
    /\ signaled' = signaled + 1
    /\ UNCHANGED <<ringVars, pc, routeVars, loopVars, slotOf, groups, added>>

\* smoe_metal_wait returns once the event has reached the expert's handle.
Done(x) == \E g \in 1 .. signaled : x \in groups[g]

\* The output of expert x is added for each of its tokens.
Accumulate(x) ==
    added' = [p \in DOMAIN added |->
                 IF p[2] = x /\ p[1] \in users[x] THEN added[p] + 1 ELSE added[p]]

\* Decode, phase 4: wait for the next expert of the list, add it, release it.
WaitOne ==
    LET x == list[idx] IN
    /\ pc = "wait" /\ idx <= Len(list)
    /\ Done(x)
    /\ Accumulate(x)
    /\ Release(slotOf[x])
    /\ idx' = idx + 1
    /\ UNCHANGED <<pc, routeVars, spin, progress, slotOf, gpuVars>>

WaitEnds ==
    /\ pc = "wait" /\ idx > Len(list)
    /\ Goto("layerDone")
    /\ UNCHANGED <<ringVars, routeVars, spin, progress, slotOf, gpuVars, added>>

\* Prefill: a claimed expert is dispatched for all its tokens ...
BatchStart(s) ==
    LET x == list[idx] IN
    /\ pc = "spin" /\ mode = "prefill" /\ idx <= Len(list)
    /\ x \notin Claimed /\ s \in Claimable(x)
    /\ Claim(s)
    /\ slotOf' = [slotOf EXCEPT ![x] = s]
    /\ groups' = Append(groups, {x})
    /\ pc' = "batch"
    /\ UNCHANGED <<routeVars, loopVars, signaled, added>>

\* ... and waited for, added and released before the next is claimed.
BatchEnd ==
    LET x == list[idx] IN
    /\ pc = "batch"
    /\ Done(x)
    /\ Accumulate(x)
    /\ Release(slotOf[x])
    /\ progress' = TRUE
    /\ pc' = "spin" /\ idx' = idx + 1
    /\ UNCHANGED <<routeVars, spin, slotOf, gpuVars>>

-----------------------------------------------------------------------------
Layer ==
    \/ FireDecode \/ FirePrefill
    \/ \E r \in Ranked(TopK) : NextToken(r)
    \/ Fired
    \/ \E s \in Slots : ClaimHit(s) \/ BatchStart(s)
    \/ ClaimMiss \/ ClaimSkip \/ FirstPassEnds \/ SweepEnds \/ AllClaimed
    \/ WaitOne \/ WaitEnds \/ BatchEnd

Next ==
    \/ \E r \in Ranked(TopK + SpecWidth) : DecodeLayer(r)
    \/ \E r \in Ranked(TopK) : PrefillLayer(r)
    \/ Layer
    \/ \E s \in Slots : LoadEnds(s) \/ LoadFails(s)
    \/ GpuCompletes

Spec == Init /\ [][Next]_vars

\* The thread runs, every load ends, the GPU finishes what it was given.
Fairness ==
    /\ WF_vars(Layer)
    /\ WF_vars(GpuCompletes)
    /\ \A s \in Slots : WF_vars(LoadEnds(s) \/ LoadFails(s))

\* Reads stop failing at some point.
ReadsRecover == <>[][\A s \in Slots : ~ LoadFails(s)]_vars

FairSpec == Spec /\ Fairness

-----------------------------------------------------------------------------
(***************************************************************************)
(* Properties.                                                             *)
(***************************************************************************)
\* The types of every variable.
TypeOK ==
    /\ state \in [Slots -> {"EMPTY", "LOADING", "READY", "CONSUMED"}]
    /\ key \in [Slots -> Experts \cup {NoExpert}]
    /\ refCount \in [Slots -> 0 .. 1]
    /\ lru \in [Slots -> Slots]
    /\ mode \in {"decode", "prefill"}
    /\ pc \in {"layerDone", "fire", "claim", "spin", "batch", "wait"}
    /\ tok \in Rows /\ sel \in Seq(Experts) /\ list \in Seq(Experts)
    /\ users \in [Experts -> SUBSET Rows] /\ routed \subseteq Rows \X Experts
    /\ idx \in Nat /\ spin \in 0 .. SpinPeriod /\ progress \in BOOLEAN
    /\ slotOf \in [Experts -> Slots \cup {NoSlot}]
    /\ groups \in Seq(SUBSET Experts) /\ signaled \in 0 .. Len(groups)
    /\ added \in [Rows \X Experts -> Nat]

\* While a command buffer that reads an expert has not completed, the slot it
\* was claimed in is CONSUMED, referenced and still that expert's.
GpuReadsIntact ==
    \A g \in signaled + 1 .. Len(groups) : \A x \in groups[g] :
        LET s == slotOf[x] IN
        state[s] = "CONSUMED" /\ refCount[s] = 1 /\ key[s] = x

\* A layer ends with every expert added exactly once for each token routed to
\* it and for no other, whatever was resident, evicted, late or failed, and
\* with every claim released.
LayerExact ==
    pc = "layerDone" =>
        /\ \A p \in Rows \X Experts : added[p] = IF p \in routed THEN 1 ELSE 0
        /\ \A s \in Slots : refCount[s] = 0

\* Evicting for a prefill layer spares the layer: an expert of the union that is
\* loaded and not yet run loses its slot only when every slot that could be
\* taken instead holds an expert of the union too.
UnionKept ==
    [][mode = "prefill" /\ pc # "layerDone" =>
         \A s \in Slots :
            state[s] \in Idle /\ state'[s] = "LOADING" /\ key[s] \in Range(list) \ Claimed
            => \A t \in Evictable : key[t] \in Range(list)]_vars

\* Once reads stop failing, every layer whose experts fit the ring ends, whatever
\* the ring held before it, whatever the speculative reads evict and however the
\* loads and the retries interleave.
LayerEnds ==
    ReadsRecover =>
        (pc # "layerDone" ~> pc = "layerDone" \/ Cardinality(Range(list)) > RingSize)

(***************************************************************************)
(* The ring as the layers use it is the cache that the streamer implements *)
(* (ImplementsCache of Streamer): a referenced slot is held.               *)
(***************************************************************************)
CacheStatus(s) ==
    IF refCount[s] # 0 THEN "held"
    ELSE IF state[s] = "EMPTY" THEN "free"
    ELSE IF state[s] = "LOADING" THEN "loading"
    ELSE "cached"

Cache == INSTANCE ExpertCache WITH
            Keys   <- Experts, Vault <- Experts, NoKey <- NoExpert,
            status <- [s \in Slots |-> CacheStatus(s)],
            bytes  <- [s \in Slots |-> IF state[s] \in Idle THEN key[s] ELSE NoExpert]

\* Decode and prefill keep the cache's rules: whatever is late, evicted or asked
\* for again, no expert is loaded while another slot has or awaits it, no slot
\* is reloaded while it is held, only loaded slots are claimed, and only by one
\* claim at a time, and only held ones are released.
UsesCache == Cache!Spec
=============================================================================
