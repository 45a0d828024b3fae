------------------------------ MODULE Streamer ------------------------------
(***************************************************************************)
(* The expert streamer of src/src/io/streamer.{hpp,cpp}: a fixed ring of   *)
(* slots that I/O workers fill by pread() from the vault and that the      *)
(* inference thread claims, reads (through the GPU) and releases.          *)
(*                                                                         *)
(* All synchronisation in the code is by single atomic operations, so an   *)
(* action here is one atomic operation of one thread (a load, a CAS, a     *)
(* store) with the private computation around it.  Three kinds of thread:  *)
(*   Main        decode / prefill: prefetch, claim_specific, release       *)
(*   Prewarmers  the Prewarm thread of engine.cpp (none or one): prefetch  *)
(*   Workers     Impl::run                                                 *)
(*                                                                         *)
(* Abstractions.  A request queue is a bounded FIFO whose push and pop are *)
(* one step (MPMCQueue.tla models the lock-free queue itself); the 64-bit  *)
(* tick never wraps; a slot's bytes are the key of the expert they came    *)
(* from, or NoKey when they are no expert's bytes (zero-filled, a pread in *)
(* progress, or a read that failed half way).  Telemetry is left out.      *)
(***************************************************************************)
EXTENDS Naturals, Sequences, FiniteSets

CONSTANTS
    RingSize,       \* slots in the ring (--ring, or autotuned)
    Layers,         \* layer ids callers may name
    Experts,        \* expert ids callers may name
    Vault,          \* the <<layer, expert>> pairs of the vault's expert table
    Workers,        \* I/O worker threads
    Main,           \* the inference thread
    Prewarmers,     \* the Prewarm thread: {} or a singleton
    QueueCapacity,  \* REQUEST_QUEUE_CAPACITY
    RefMod,         \* ref_count is unsigned: arithmetic is modulo RefMod
    NoId,           \* 0xFFFFFFFF, the id in a slot never used
    NoKey,          \* "no expert": bytes that are not an expert's
    MaxTick         \* BOUND: no operation starts once this many ticks are used

Slots   == 0 .. RingSize - 1
Keys    == Layers \X Experts
Callers == {Main} \cup Prewarmers

ASSUME RingAssumption ==
    /\ RingSize \in Nat \ {0}
    /\ QueueCapacity \in Nat \ {0}
    /\ RefMod \in Nat /\ RefMod >= 2
    /\ MaxTick \in Nat
ASSUME VaultAssumption  == Vault \subseteq Keys
ASSUME IdAssumption     == NoId \notin Layers \cup Experts /\ NoKey \notin Keys
ASSUME ThreadAssumption == Main \notin Prewarmers

Classes == {"demand", "spec"}    \* the two priorities of a request

NoSlot == RingSize      \* a null RingSlot*, and best_idx = -1

Request == [layer : Layers, expert : Experts, slot : Slots]

VARIABLES
    state,        \* RingSlot::state
    layerId,      \* RingSlot::layer_id   (not atomic)
    expertId,     \* RingSlot::expert_id  (not atomic)
    refCount,     \* RingSlot::ref_count
    tick,         \* RingSlot::last_used_tick
    filled,       \* RingSlot::data_size > 0
    data,         \* the bytes of the slot's buffer
    globalTick,   \* Impl::global_tick
    queue,        \* Impl::request_queue ("demand") and Impl::spec_queue ("spec")
    wpc, wreq,    \* each worker: where it is in Impl::run, and its request
    op,           \* each caller: the call it is in and the call's locals
    held,         \* Main's claims not yet released: [slot, key]
    busy,         \* Prewarm::busy_
    phase         \* the shutdown sequence at the end of main()

slotVars == <<state, layerId, expertId, refCount, tick, filled, data>>
ringVars == <<slotVars, globalTick>>
workVars == <<queue, wpc, wreq>>
mainVars == <<held, busy, phase>>
vars     == <<ringVars, workVars, op, mainVars>>

-----------------------------------------------------------------------------
States == {"EMPTY", "LOADING", "READY", "CONSUMED"}
Idle   == {"READY", "CONSUMED"}      \* the states an eviction considers

SlotKey(s) == <<layerId[s], expertId[s]>>

\* last_used_tick.store(global_tick.fetch_add(1)): the slot is the most recent.
Touch(s) ==
    /\ tick' = [tick EXCEPT ![s] = globalTick]
    /\ globalTick' = globalTick + 1

\* A caller outside any call.  pc names the atomic operation performed next;
\* idx is the loop index, slot the local of that name (and best_idx), oldest
\* is oldest_tick, expected the operand of the CAS.
NoCall == [pc |-> "idle", want |-> NoKey, class |-> "demand", idx |-> 0,
           slot |-> NoSlot, oldest |-> 0, expected |-> "EMPTY"]

Return(c)      == op' = [op EXCEPT ![c] = NoCall]
Goto(c, label) == op' = [op EXCEPT ![c].pc = label]
NextIdx(c)     == op' = [op EXCEPT ![c].idx = @ + 1]
Restart(c, label) == op' = [op EXCEPT ![c].pc = label, ![c].idx = 0]

At(c, label)   == op[c].pc = label
InLoop(c)      == op[c].idx < RingSize
LoopDone(c)    == op[c].idx = RingSize

Init ==
    /\ state    = [s \in Slots |-> "EMPTY"]
    /\ layerId  = [s \in Slots |-> NoId]
    /\ expertId = [s \in Slots |-> NoId]
    /\ refCount = [s \in Slots |-> 0]
    /\ tick     = [s \in Slots |-> 0]
    /\ filled   = [s \in Slots |-> FALSE]
    /\ data     = [s \in Slots |-> NoKey]
    /\ globalTick = 0
    /\ queue = [p \in Classes |-> <<>>]
    /\ wpc  = [w \in Workers |-> "poll"]
    /\ wreq = [w \in Workers |-> NoKey]
    /\ op   = [c \in Callers |-> NoCall]
    /\ held = {}
    /\ busy = FALSE
    /\ phase = "serving"

-----------------------------------------------------------------------------
(***************************************************************************)
(* prefetch(layer_id, expert_id, speculative).  Main calls it inside a     *)
(* request (busy is set), Prewarm after it has seen busy clear; the call   *)
(* it then makes may overlap a request that starts meanwhile.              *)
(***************************************************************************)
MayCall(c) ==
    /\ At(c, "idle")
    /\ phase = "serving"
    /\ busy = (c = Main)
    /\ globalTick < MaxTick

BeginPrefetch(c, k, class) ==
    /\ MayCall(c)
    /\ class = "spec" => c = Main
    /\ op' = [op EXCEPT ![c] = [NoCall EXCEPT !.pc = "scan", !.want = k,
                                              !.class = class]]
    /\ UNCHANGED <<ringVars, workVars, mainVars>>

\* Idempotency scan: a slot that is not EMPTY and carries the key.
ScanMatches(c) == state[op[c].idx] # "EMPTY" /\ SlotKey(op[c].idx) = op[c].want

ScanHit(c) ==
    /\ At(c, "scan") /\ InLoop(c)
    /\ ScanMatches(c)
    /\ Touch(op[c].idx)
    /\ Return(c)
    /\ UNCHANGED <<state, layerId, expertId, refCount, filled, data, workVars, mainVars>>

ScanNext(c) ==
    /\ At(c, "scan") /\ InLoop(c)
    /\ ~ScanMatches(c)
    /\ NextIdx(c)
    /\ UNCHANGED <<ringVars, workVars, mainVars>>

ScanMiss(c) ==
    /\ At(c, "scan") /\ LoopDone(c)
    /\ Restart(c, "findEmpty")
    /\ UNCHANGED <<ringVars, workVars, mainVars>>

\* CAS EMPTY -> LOADING on each slot in turn; the winner owns the slot.
ClaimEmpty(c) ==
    /\ At(c, "findEmpty") /\ InLoop(c)
    /\ state[op[c].idx] = "EMPTY"
    /\ state' = [state EXCEPT ![op[c].idx] = "LOADING"]
    /\ op' = [op EXCEPT ![c].pc = "setLayer", ![c].slot = op[c].idx]
    /\ UNCHANGED <<layerId, expertId, refCount, tick, filled, data, globalTick,
                   workVars, mainVars>>

EmptyNext(c) ==
    /\ At(c, "findEmpty") /\ InLoop(c)
    /\ state[op[c].idx] # "EMPTY"
    /\ NextIdx(c)
    /\ UNCHANGED <<ringVars, workVars, mainVars>>

NoneEmpty(c) ==
    /\ At(c, "findEmpty") /\ LoopDone(c)
    /\ Restart(c, "lru")
    /\ UNCHANGED <<ringVars, workVars, mainVars>>

\* Mutants: the reference guard is forgotten; the scan is first-fit, not LRU.
IsOlderUnguarded(c) ==
    /\ state[op[c].idx] \in Idle
    /\ op[c].slot = NoSlot \/ tick[op[c].idx] < op[c].oldest

IsOlderFirstFit(c) ==
    /\ state[op[c].idx] \in Idle
    /\ refCount[op[c].idx] = 0
    /\ op[c].slot = NoSlot

\* LRU scan: the idle slot without a reference whose tick is the oldest.
IsOlder(c) ==
    LET i == op[c].idx IN
    /\ state[i] \in Idle
    /\ refCount[i] = 0
    /\ op[c].slot = NoSlot \/ tick[i] < op[c].oldest

LruTake(c) ==
    /\ At(c, "lru") /\ InLoop(c)
    /\ IsOlder(c)
    /\ op' = [op EXCEPT ![c].slot = op[c].idx, ![c].oldest = tick[op[c].idx],
                        ![c].idx = @ + 1]
    /\ UNCHANGED <<ringVars, workVars, mainVars>>

LruSkip(c) ==
    /\ At(c, "lru") /\ InLoop(c)
    /\ ~IsOlder(c)
    /\ NextIdx(c)
    /\ UNCHANGED <<ringVars, workVars, mainVars>>

\* No victim: back-pressure, prefetch returns false.
LruNone(c) ==
    /\ At(c, "lru") /\ LoopDone(c)
    /\ op[c].slot = NoSlot
    /\ Return(c)
    /\ UNCHANGED <<ringVars, workVars, mainVars>>

\* The victim's state is loaded again, and is the operand of a single CAS.
EvictLoad(c) ==
    /\ At(c, "lru") /\ LoopDone(c)
    /\ op[c].slot # NoSlot
    /\ op' = [op EXCEPT ![c].pc = "evict", ![c].expected = state[op[c].slot]]
    /\ UNCHANGED <<ringVars, workVars, mainVars>>

\* Mutant: a plain store in place of the CAS.
EvictStore(c) == op[c].expected \in Idle

EvictWins(c) == op[c].expected \in Idle /\ state[op[c].slot] = op[c].expected

EvictCas(c) ==
    /\ At(c, "evict")
    /\ EvictWins(c)
    /\ state' = [state EXCEPT ![op[c].slot] = "LOADING"]
    /\ Goto(c, "setLayer")
    /\ UNCHANGED <<layerId, expertId, refCount, tick, filled, data, globalTick,
                   workVars, mainVars>>

EvictLost(c) ==
    /\ At(c, "evict")
    /\ ~EvictWins(c)
    /\ Return(c)
    /\ UNCHANGED <<ringVars, workVars, mainVars>>

\* The metadata of the new load: two plain stores, then two atomic ones.
SetLayer(c) ==
    /\ At(c, "setLayer")
    /\ layerId' = [layerId EXCEPT ![op[c].slot] = op[c].want[1]]
    /\ Goto(c, "setExpert")
    /\ UNCHANGED <<state, expertId, refCount, tick, filled, data, globalTick,
                   workVars, mainVars>>

SetExpert(c) ==
    /\ At(c, "setExpert")
    /\ expertId' = [expertId EXCEPT ![op[c].slot] = op[c].want[2]]
    /\ Goto(c, "setRef")
    /\ UNCHANGED <<state, layerId, refCount, tick, filled, data, globalTick,
                   workVars, mainVars>>

SetRef(c) ==
    /\ At(c, "setRef")
    /\ refCount' = [refCount EXCEPT ![op[c].slot] = 0]
    /\ Goto(c, "setTick")
    /\ UNCHANGED <<state, layerId, expertId, tick, filled, data, globalTick,
                   workVars, mainVars>>

SetTick(c) ==
    /\ At(c, "setTick")
    /\ Touch(op[c].slot)
    /\ Goto(c, "push")
    /\ UNCHANGED <<state, layerId, expertId, refCount, filled, data, workVars, mainVars>>

NewRequest(c) == [layer |-> op[c].want[1], expert |-> op[c].want[2], slot |-> op[c].slot]

Push(c) ==
    /\ At(c, "push")
    /\ Len(queue[op[c].class]) < QueueCapacity
    /\ queue' = [queue EXCEPT ![op[c].class] = Append(@, NewRequest(c))]
    /\ Return(c)
    /\ UNCHANGED <<ringVars, wpc, wreq, mainVars>>

\* Mutant: the slot goes back to the state it had, with the ids of the new load.
PushFullRestore(c) ==
    /\ At(c, "push")
    /\ Len(queue[op[c].class]) >= QueueCapacity
    /\ state' = [state EXCEPT ![op[c].slot] = op[c].expected]
    /\ Return(c)
    /\ UNCHANGED <<layerId, expertId, refCount, tick, filled, data, globalTick,
                   workVars, mainVars>>

\* Queue full: the slot goes back to EMPTY and prefetch returns false.
PushFull(c) ==
    /\ At(c, "push")
    /\ Len(queue[op[c].class]) >= QueueCapacity
    /\ state' = [state EXCEPT ![op[c].slot] = "EMPTY"]
    /\ Return(c)
    /\ UNCHANGED <<layerId, expertId, refCount, tick, filled, data, globalTick,
                   workVars, mainVars>>

-----------------------------------------------------------------------------
(***************************************************************************)
(* claim_specific(layer_id, expert_id) and release(slot), by Main only.    *)
(***************************************************************************)
BeginClaim(k) ==
    /\ MayCall(Main)
    /\ op' = [op EXCEPT ![Main] = [NoCall EXCEPT !.pc = "match", !.want = k]]
    /\ UNCHANGED <<ringVars, workVars, mainVars>>

MatchKey ==
    /\ At(Main, "match") /\ InLoop(Main)
    /\ SlotKey(op[Main].idx) = op[Main].want
    /\ Goto(Main, "claimReady")
    /\ UNCHANGED <<ringVars, workVars, mainVars>>

MatchNext ==
    /\ At(Main, "match") /\ InLoop(Main)
    /\ SlotKey(op[Main].idx) # op[Main].want
    /\ NextIdx(Main)
    /\ UNCHANGED <<ringVars, workVars, mainVars>>

\* The loop ends: the expert is not resident, nullptr.
MatchNone ==
    /\ At(Main, "match") /\ LoopDone(Main)
    /\ Return(Main)
    /\ UNCHANGED <<ringVars, workVars, mainVars>>

\* CAS READY -> CONSUMED; the reference is taken by a later operation.
ClaimReady ==
    /\ At(Main, "claimReady")
    /\ state[op[Main].idx] = "READY"
    /\ state' = [state EXCEPT ![op[Main].idx] = "CONSUMED"]
    /\ Goto(Main, "takeRef")
    /\ UNCHANGED <<layerId, expertId, refCount, tick, filled, data, globalTick,
                   workVars, mainVars>>

\* The CAS fails: its operand now holds the state it found.
ClaimNotReady ==
    /\ At(Main, "claimReady")
    /\ state[op[Main].idx] # "READY"
    /\ op' = [op EXCEPT ![Main].pc = "reclaim", ![Main].expected = state[op[Main].idx]]
    /\ UNCHANGED <<ringVars, workVars, mainVars>>

\* Mutant: no retained-cache hit.
NeverReclaimable == FALSE

\* Retained-cache hit: an idle CONSUMED slot with data is claimed without a CAS.
Reclaimable ==
    /\ op[Main].expected = "CONSUMED"
    /\ refCount[op[Main].idx] = 0
    /\ filled[op[Main].idx]

Reclaim ==
    /\ At(Main, "reclaim")
    /\ Reclaimable
    /\ Goto(Main, "takeRef")
    /\ UNCHANGED <<ringVars, workVars, mainVars>>

ReclaimNot ==
    /\ At(Main, "reclaim")
    /\ ~Reclaimable
    /\ op' = [op EXCEPT ![Main].pc = "match", ![Main].idx = @ + 1]
    /\ UNCHANGED <<ringVars, workVars, mainVars>>

TakeRef ==
    /\ At(Main, "takeRef")
    /\ refCount' = [refCount EXCEPT ![op[Main].idx] = (@ + 1) % RefMod]
    /\ Goto(Main, "claimTick")
    /\ UNCHANGED <<state, layerId, expertId, tick, filled, data, globalTick,
                   workVars, mainVars>>

\* The slot is returned to the caller, which hands its data to the GPU.
ClaimDone ==
    /\ At(Main, "claimTick")
    /\ Touch(op[Main].idx)
    /\ held' = held \cup {[slot |-> op[Main].idx, key |-> op[Main].want]}
    /\ Return(Main)
    /\ UNCHANGED <<state, layerId, expertId, refCount, filled, data,
                   workVars, busy, phase>>

\* Mutant: the reference is not dropped.
ReleaseLeak(h) ==
    /\ At(Main, "idle")
    /\ h \in held
    /\ held' = held \ {h}
    /\ UNCHANGED <<ringVars, workVars, op, busy, phase>>

\* release(slot), after the GPU work that reads the slot is done.
Release(h) ==
    /\ At(Main, "idle")
    /\ h \in held
    /\ held' = held \ {h}
    /\ refCount' = [refCount EXCEPT ![h.slot] = (@ + RefMod - 1) % RefMod]
    /\ UNCHANGED <<state, layerId, expertId, tick, filled, data, globalTick,
                   workVars, op, busy, phase>>

-----------------------------------------------------------------------------
(***************************************************************************)
(* Impl::run, one worker.  The shutdown flag is read at the loop's top.    *)
(***************************************************************************)
\* Mutant: the flag is raised after the join, not before it.
ShuttingDownLate == phase = "freed"

ShuttingDown == phase \in {"draining", "freed"}

Pop(w, class) ==
    /\ queue[class] # <<>>
    /\ wreq'  = [wreq EXCEPT ![w] = Head(queue[class])]
    /\ wpc'   = [wpc EXCEPT ![w] = "lookup"]
    /\ queue' = [queue EXCEPT ![class] = Tail(@)]
    /\ UNCHANGED <<ringVars, op, mainVars>>

PopMisses(w, class, label) ==
    /\ queue[class] = <<>>
    /\ wpc' = [wpc EXCEPT ![w] = label]
    /\ UNCHANGED <<ringVars, queue, wreq, op, mainVars>>

PollDemand(w) ==
    /\ wpc[w] = "poll" /\ ~ShuttingDown
    /\ Pop(w, "demand") \/ PopMisses(w, "demand", "pollSpec")

\* With no work at all the worker yields and tests the shutdown flag again.
PollSpec(w) ==
    /\ wpc[w] = "pollSpec"
    /\ Pop(w, "spec") \/ PopMisses(w, "spec", "poll")

ReqKey(w) == <<wreq[w].layer, wreq[w].expert>>

FinishLoad(w, result) ==
    /\ state' = [state EXCEPT ![wreq[w].slot] = result]
    /\ wpc'   = [wpc EXCEPT ![w] = "poll"]
    /\ wreq'  = [wreq EXCEPT ![w] = NoKey]

\* Mutant: the request is dropped and its slot stays LOADING.
UnknownExpertLeak(w) ==
    /\ wpc[w] = "lookup"
    /\ ReqKey(w) \notin Vault
    /\ FinishLoad(w, "LOADING")
    /\ UNCHANGED <<layerId, expertId, refCount, tick, filled, data, globalTick,
                   queue, op, mainVars>>

\* The vault has no such expert: the slot is given up at once.
UnknownExpert(w) ==
    /\ wpc[w] = "lookup"
    /\ ReqKey(w) \notin Vault
    /\ FinishLoad(w, "EMPTY")
    /\ UNCHANGED <<layerId, expertId, refCount, tick, filled, data, globalTick,
                   queue, op, mainVars>>

\* pread() starts to overwrite the buffer.
ReadStart(w) ==
    /\ wpc[w] = "lookup"
    /\ ReqKey(w) \in Vault
    /\ data' = [data EXCEPT ![wreq[w].slot] = NoKey]
    /\ wpc'  = [wpc EXCEPT ![w] = "pread"]
    /\ UNCHANGED <<state, layerId, expertId, refCount, tick, filled, globalTick,
                   queue, wreq, op, mainVars>>

ReadOk(w) ==
    /\ wpc[w] = "pread"
    /\ data'   = [data EXCEPT ![wreq[w].slot] = ReqKey(w)]
    /\ filled' = [filled EXCEPT ![wreq[w].slot] = TRUE]
    /\ wpc'    = [wpc EXCEPT ![w] = "publish"]
    /\ UNCHANGED <<state, layerId, expertId, refCount, tick, globalTick,
                   queue, wreq, op, mainVars>>

\* Mutant: a short read is published like a full one.
ReadFailPublished(w) ==
    /\ wpc[w] = "pread"
    /\ FinishLoad(w, "READY")
    /\ UNCHANGED <<layerId, expertId, refCount, tick, filled, data, globalTick,
                   queue, op, mainVars>>

\* I/O error or short read: the slot is given up; data_size keeps its old value.
ReadFail(w) ==
    /\ wpc[w] = "pread"
    /\ FinishLoad(w, "EMPTY")
    /\ UNCHANGED <<layerId, expertId, refCount, tick, filled, data, globalTick,
                   queue, op, mainVars>>

Publish(w) ==
    /\ wpc[w] = "publish"
    /\ FinishLoad(w, "READY")
    /\ UNCHANGED <<layerId, expertId, refCount, tick, filled, data, globalTick,
                   queue, op, mainVars>>

WorkerExit(w) ==
    /\ wpc[w] = "poll" /\ ShuttingDown
    /\ wpc' = [wpc EXCEPT ![w] = "exited"]
    /\ UNCHANGED <<ringVars, queue, wreq, op, mainVars>>

-----------------------------------------------------------------------------
(***************************************************************************)
(* The request loop of main() around the streamer, as far as it decides    *)
(* who may call it, and the shutdown at its end.                           *)
(***************************************************************************)
\* prewarm.set_busy(true) at the start of a request.
BeginRequest ==
    /\ phase = "serving" /\ ~busy
    /\ busy' = TRUE
    /\ UNCHANGED <<ringVars, workVars, op, held, phase>>

\* prewarm.set_busy(false): every claim of the request has been released.
EndRequest ==
    /\ phase = "serving" /\ busy
    /\ At(Main, "idle") /\ held = {}
    /\ busy' = FALSE
    /\ UNCHANGED <<ringVars, workVars, op, held, phase>>

\* prewarm.stop(): the flag; the thread finishes the call it is in.
StopPrewarm ==
    /\ phase = "serving" /\ ~busy
    /\ phase' = "stopping"
    /\ UNCHANGED <<ringVars, workVars, op, held, busy>>

\* Mutant: the Prewarm thread is detached, not joined.
ShutdownDetached ==
    /\ phase = "stopping"
    /\ phase' = "draining"
    /\ UNCHANGED <<ringVars, workVars, op, held, busy>>

\* ... its join() returns, and Streamer::shutdown() raises the workers' flag.
ShutdownStreamer ==
    /\ phase = "stopping"
    /\ \A c \in Prewarmers : At(c, "idle")
    /\ phase' = "draining"
    /\ UNCHANGED <<ringVars, workVars, op, held, busy>>

\* The workers are joined; the slots and the data pool are freed.
FreeRing ==
    /\ phase = "draining"
    /\ \A w \in Workers : wpc[w] = "exited"
    /\ phase' = "freed"
    /\ UNCHANGED <<ringVars, workVars, op, held, busy>>

\* The process has exited.
Exited == phase = "freed" /\ UNCHANGED vars

-----------------------------------------------------------------------------
PrefetchStep(c) ==
    \/ ScanHit(c) \/ ScanNext(c) \/ ScanMiss(c)
    \/ ClaimEmpty(c) \/ EmptyNext(c) \/ NoneEmpty(c)
    \/ LruTake(c) \/ LruSkip(c) \/ LruNone(c)
    \/ EvictLoad(c) \/ EvictCas(c) \/ EvictLost(c)
    \/ SetLayer(c) \/ SetExpert(c) \/ SetRef(c) \/ SetTick(c)
    \/ Push(c) \/ PushFull(c)

ClaimStep ==
    \/ MatchKey \/ MatchNext \/ MatchNone
    \/ ClaimReady \/ ClaimNotReady \/ Reclaim \/ ReclaimNot
    \/ TakeRef \/ ClaimDone

WorkerStep(w) ==
    \/ PollDemand(w) \/ PollSpec(w)
    \/ UnknownExpert(w) \/ ReadStart(w) \/ ReadOk(w) \/ ReadFail(w) \/ Publish(w)
    \/ WorkerExit(w)

Calls ==
    \/ \E c \in Callers, k \in Keys, class \in Classes : BeginPrefetch(c, k, class)
    \/ \E k \in Keys : BeginClaim(k)
    \/ \E h \in held : Release(h)

Shutdown == StopPrewarm \/ ShutdownStreamer \/ FreeRing

Next ==
    \/ Calls
    \/ \E c \in Callers : PrefetchStep(c)
    \/ ClaimStep
    \/ \E w \in Workers : WorkerStep(w)
    \/ BeginRequest \/ EndRequest
    \/ Shutdown
    \/ Exited

Spec == Init /\ [][Next]_vars

\* A started call runs on, the workers are scheduled, and a shutdown that has
\* begun proceeds; new calls, requests and the decision to stop are free.
Fairness ==
    /\ \A c \in Callers : WF_vars(PrefetchStep(c))
    /\ WF_vars(ClaimStep)
    /\ \A w \in Workers : WF_vars(WorkerStep(w))
    /\ WF_vars(ShutdownStreamer) /\ WF_vars(FreeRing)

FairSpec == Spec /\ Fairness

-----------------------------------------------------------------------------
(***************************************************************************)
(* Properties.                                                             *)
(***************************************************************************)
CallLabels   == {"idle", "scan", "findEmpty", "lru", "evict", "setLayer", "setExpert",
                 "setRef", "setTick", "push", "match", "claimReady", "reclaim",
                 "takeRef", "claimTick"}
WorkerLabels == {"poll", "pollSpec", "lookup", "pread", "publish", "exited"}
Call == [pc : CallLabels, want : Keys \cup {NoKey}, class : Classes, idx : 0 .. RingSize,
         slot : 0 .. RingSize, oldest : Nat, expected : States]

\* The types of every variable of the streamer.
TypeOK ==
    /\ state    \in [Slots -> States]
    /\ layerId  \in [Slots -> Layers \cup {NoId}]
    /\ expertId \in [Slots -> Experts \cup {NoId}]
    /\ refCount \in [Slots -> 0 .. RefMod - 1]
    /\ tick     \in [Slots -> Nat]
    /\ filled   \in [Slots -> BOOLEAN]
    /\ data     \in [Slots -> Keys \cup {NoKey}]
    /\ globalTick \in Nat
    /\ queue \in [Classes -> Seq(Request)]
    /\ wpc   \in [Workers -> WorkerLabels]
    /\ wreq  \in [Workers -> Request \cup {NoKey}]
    /\ op \in [Callers -> Call]
    /\ held \subseteq [slot : Slots, key : Keys]
    /\ busy \in BOOLEAN
    /\ phase \in {"serving", "stopping", "draining", "freed"}

(***************************************************************************)
(* Who answers for the load of a LOADING slot: the prefetch call that won  *)
(* it and has not pushed yet, the request in a queue, or the worker that   *)
(* popped it.                                                              *)
(***************************************************************************)
CallOwns(c)   == op[c].pc \in {"setLayer", "setExpert", "setRef", "setTick", "push"}
WorkerOwns(w) == wpc[w] \in {"lookup", "pread", "publish"}

QueueOwners(s)  == {e \in Classes \X (1 .. QueueCapacity) :
                        e[2] <= Len(queue[e[1]]) /\ queue[e[1]][e[2]].slot = s}
CallOwners(s)   == {c \in Callers : CallOwns(c) /\ op[c].slot = s}
WorkerOwners(s) == {w \in Workers : WorkerOwns(w) /\ wreq[w].slot = s}

\* Exactly one party answers for each LOADING slot and none for any other: no
\* load is forgotten by a failure path (the slot would be LOADING for ever) and
\* no two preads ever write one buffer, nor one that is not LOADING.
ExclusiveLoad ==
    \A s \in Slots :
        Cardinality(QueueOwners(s)) + Cardinality(CallOwners(s))
            + Cardinality(WorkerOwners(s)) = IF state[s] = "LOADING" THEN 1 ELSE 0

\* A slot that may be claimed holds the bytes of the expert its ids name: a
\* failed or partial read is never offered as an expert.
DataMatchesKey ==
    \A s \in Slots : state[s] \in Idle => filled[s] /\ data[s] = SlotKey(s)

\* A slot Main has claimed and not released stays CONSUMED, keeps the ids and
\* the bytes it was claimed for, and no worker writes it: the GPU reads it.
HeldIntact ==
    \A h \in held :
        /\ state[h.slot] = "CONSUMED"
        /\ SlotKey(h.slot) = h.key
        /\ data[h.slot] = h.key

\* Main is between taking the reference and recording the claim.
ClaimingRef(s) == At(Main, "claimTick") /\ op[Main].idx = s

\* ref_count counts exactly the claims not yet released: it never wraps below
\* zero, and no slot is left referenced by nobody (it could not be evicted or
\* claimed again).
RefCountExact ==
    \A s \in Slots :
        refCount[s] = Cardinality({h \in held : h.slot = s})
                        + (IF ClaimingRef(s) THEN 1 ELSE 0)

\* When claim_specific gives up on an expert, no slot retains it: an expert the
\* idempotency scan calls "already in the ring" is one a claim can get, so
\* Main's claim/prefetch loop cannot spin on a resident expert.
ClaimMissIsAMiss ==
    At(Main, "match") /\ LoopDone(Main) =>
        \A s \in Slots :
            SlotKey(s) = op[Main].want =>
                \/ state[s] # "CONSUMED"
                \/ \E h \in held : h.slot = s

\* After the ring is freed no thread can touch it.
NoUseAfterFree ==
    phase = "freed" =>
        /\ \A c \in Callers : At(c, "idle")
        /\ \A w \in Workers : wpc[w] = "exited"
        /\ held = {}

\* Eviction takes a slot nobody references, and the least recently used of the
\* retained ones: an expert just loaded is not the next victim.
EvictsLeastRecent ==
    [][\A s \in Slots :
         state[s] \in Idle /\ state'[s] = "LOADING" =>
            /\ refCount[s] = 0
            /\ \A t \in Slots :
                  state[t] = "CONSUMED" /\ refCount[t] = 0 => tick[s] <= tick[t]]_vars

(***************************************************************************)
(* With one caller the streamer implements ExpertCache.  A slot is held    *)
(* from the end of the claim to the release; while prefetch still writes   *)
(* the ids of its slot, the slot's expert is the one the call is for.      *)
(***************************************************************************)
Owner(s) == CHOOSE c \in Callers : CallOwns(c) /\ op[c].slot = s

CacheStatus(s) ==
    IF \E h \in held : h.slot = s THEN "held"
    ELSE IF state[s] = "EMPTY" THEN "free"
    ELSE IF state[s] = "LOADING" THEN "loading"
    ELSE "cached"

CacheKey(s) ==
    IF state[s] = "EMPTY" THEN NoKey
    ELSE IF CallOwners(s) # {} THEN op[Owner(s)].want
    ELSE SlotKey(s)

Cache == INSTANCE ExpertCache WITH
            status <- [s \in Slots |-> CacheStatus(s)],
            key    <- [s \in Slots |-> CacheKey(s)],
            bytes  <- [s \in Slots |-> IF state[s] \in Idle THEN data[s] ELSE NoKey]

\* The streamer, with its queues, workers, failed reads and evictions, is the
\* cache: loads, hits and evictions happen one expert at a time.
ImplementsCache == Cache!Spec

\* A slot whose load was requested leaves LOADING, loaded or given up, unless
\* the streamer shuts down first: Main's wait for a demanded expert ends.
LoadsResolve ==
    \A s \in Slots : state[s] = "LOADING" ~> state[s] # "LOADING" \/ ShuttingDown

\* Shutdown ends: every worker sees the flag and is joined.
ShutdownCompletes == phase = "stopping" ~> phase = "freed"
=============================================================================
