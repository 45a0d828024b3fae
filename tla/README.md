# S-MoE in TLA+

S-MoE runs mixture-of-experts models whose experts do not fit in memory: an
engine (C++/Metal) streams the experts each token is routed to from a vault file
into a ring of slots, and the GPU runs them from there. This directory holds
TLA+ models of the engine, the TLC configurations that check them on small
instances, and proofs checked by TLAPS. Paths below are relative to the
repository; `streamer.cpp` is `src/io/streamer.cpp`, and so on.

## 1. The system

| Part | State it keeps | Operations | Talks to |
|---|---|---|---|
| **Streamer** `src/io/streamer.{hpp,cpp}` | a ring of slots (state, layer and expert ids, reference count, last-used tick, data), two request queues, worker threads | `prefetch`, `claim_specific`, `release`, worker loop, `shutdown` | called by decode, prefill, prewarm; reads the vault with `pread` |
| **Request queue** `streamer.cpp:75-140` | cells with sequence numbers, two cursors | `push`, `pop` | inside the streamer |
| **Request loop** `src/main.cpp:401-738`, `src/serve.hpp` | stored token stream, attention ring cursors, the request's locals | `GEN`, `RESET`, one-shot, end of input | line protocol on stdin/stdout; calls prefill and decode |
| **Prefill** `src/prefill.cpp` | static union and per-expert token lists, activation planes | `run_layer_major` | streamer, Metal bridge, scout |
| **Decode** `src/decode.cpp` | attention ring, scratch | `run_token_step` | streamer, Metal bridge, scout |
| **Metal bridge** `src/compute/metal_bridge.mm` | buffer registry, event value, per-expert scratch regions | dispatch, wait | decode, prefill |
| **Prewarm, histogram, boot** `src/engine.cpp` | `busy_`, `epoch_`, `shutdown_`, hit counts | fill the idle ring by popularity; size the ring; load/save counts | streamer |
| **Scout** `src/scout/scout.cpp` | mapped router and attention weights | gates, `compute_top_k` | decode, prefill |
| **Sampler** `src/sampler.hpp` | history of sampled tokens | penalties, top-k/top-p, sampling | request loop |
| **HTTP front end** `serve.py` | the engine process, a lock, the active model, tokenizers | generate, drain, switch model, respawn | engine pipe, HTTP threads |
| **Vault tools** `scripts/*.py` | the vault file | shatter, upgrade in place, recover a header | the files the engine maps |
| **Clients** `chat.py`, `webchat.html` | display | | line protocol, HTTP |

Where it is hard:

* *Concurrency.* Three kinds of thread touch the slot ring through single
  atomic operations, with plain stores of the ids between them. The design says
  that prefetch and claim run on one thread; the prewarm thread also calls
  prefetch.
* *Failure.* Reads fail, queues fill, experts are evicted between their load and
  their claim. Recovery is by polling: a caller asks again every so many sweeps.
* *Ordering.* The GPU reads a slot's memory until an event value is reached; a
  slot is overwritten once it is released. The rows of an attention ring are
  overwritten in the order the code writes them.
* *Protocol.* The attention ring outlives the request. What it holds must be what
  the next request's prefix test believes it holds.
* *Shutdown.* Prewarm, workers and the memory pool stop in a fixed order.
* *Persistence.* The histogram is rewritten in place at the end of every request; the vault
  is laid out, patched and repaired in place by scripts that may be killed, and that
  compute its offsets independently of one another.
* *Boundaries.* Heaps, windows and partial sorts whose mistakes a user would see as a
  slightly worse model.

`PROJECT.json` lists each hazard at its line, with the properties that cover it
or the reason why none does.

## 2. The modules

| Module | Models | Abstract counterpart |
|---|---|---|
| `Streamer` | the streamer, one action per atomic operation | `ExpertCache`, by `ImplementsCache` |
| `ExpertCache` | what the streamer promises one caller: free, loading, cached, held | |
| `MPMCQueue` | the request queue, one action per atomic operation | `BoundedFifo`, by `ImplementsFifo` |
| `BoundedFifo` | a bounded queue whose items come out once, in order | |
| `Session` | the request loop and the rows of the attention ring | |
| `MoELayer` | one layer's experts in decode and prefill: streamer calls, GPU, accumulation | `ExpertCache`, by `UsesCache` |
| `ServeFront` | `serve.py`'s handler threads around one engine process | |
| `Prewarm` | the prewarm thread beside the request loop, the histogram and its file, crashes | |
| `Vault` | the vault file and the three scripts that write it, kills and power failures | |
| `Selection` | the router's ranking, the repetition penalty, the sampler's heap and cutoffs | a sort and a sum over the whole vocabulary, in the properties |
| `StreamerProofs`, `MPMCQueueProofs`, `SessionProofs`, `MoELayerProofs`, `PrewarmProofs`, `VaultProofs`, `SelectionProofs`, `ServeFrontProofs` | theorems about the module each is named after | |
| `MC*` | values of constants for TLC | |

They fit together by abstraction. `Streamer` uses a queue whose push and pop are
one step; `MPMCQueue` shows that the lock-free queue behaves so when it succeeds,
and says when it fails. `MoELayer` uses a streamer whose calls are one step;
`Streamer` shows that, with one caller, they look so (`ImplementsCache`,
`ClaimMissIsAMiss`, `EvictsLeastRecent`), and `UsesCache` that the layers use them by the rules of
the same `ExpertCache`. `Session` is above the layers: a token
is processed whole. `ServeFront` is outside the engine: its engine is any process that
answers each line with tokens and a terminator or with an error, which is what
`Session`'s `RequestEnds` says of the real one. `Prewarm` uses a streamer of one-step calls
as `MoELayer` does, and has the thread that `Streamer` calls `Prewarmers` in full; `Vault` is
where the experts of `Streamer`'s `Vault` constant come from; `Selection` computes the
ranking that `MoELayer` takes as any and the token that `Session` takes as any.

A definition under a comment beginning with *Mutant* is not part of the
model: it is a wrong version of the definition after it, kept to show that the
properties notice.

### Streamer

State: the fields of `RingSlot` (`state`, `layerId`, `expertId`, `refCount`,
`tick`, `filled` for `data_size > 0`, `data` for what the bytes are), `globalTick`,
the two queues, each worker's place and request, each caller's call with its
locals (`op`), and around it `held` (Main's unreleased claims), `busy` and `phase`
(the end of `main`).

| Code | Actions |
|---|---|
| `prefetch`, idempotency scan (`streamer.cpp:418-427`) | `BeginPrefetch ScanHit ScanNext ScanMiss` |
| first EMPTY slot, by CAS (429-441) | `ClaimEmpty EmptyNext NoneEmpty` |
| LRU scan and eviction (443-481) | `LruTake LruSkip LruNone EvictLoad EvictCas EvictLost` |
| metadata, push, rollback (483-502) | `SetLayer SetExpert SetRef SetTick Push PushFull` |
| `claim_specific` (505-545) | `BeginClaim MatchKey MatchNext MatchNone ClaimReady ClaimNotReady Reclaim ReclaimNot TakeRef ClaimDone` |
| `release` (547-552) | `Release` |
| `Impl::run` (230-310) | `PollDemand PollSpec UnknownExpert ReadStart ReadOk ReadFail Publish WorkerExit` |
| request boundaries, exit (`main.cpp:514-516, 695-698, 731-738`) | `BeginRequest EndRequest StopPrewarm ShutdownStreamer FreeRing Exited` |

Abstractions:

* Operations are sequentially consistent. The relaxed loads and stores of the code
  could be reordered further; nothing here speaks about that.
* The tick's fetch-add and its store to the slot are one step, and so are the loads
  of state, count and tick of one slot in the LRU scan: with one caller no other
  thread writes count or tick, and the state of an idle slot changes by callers
  only. With the prewarm thread it is an abstraction that leaves out some
  interleavings; the runs that find something wrong there do not need them.
* Failed reads leave bytes that are no expert's.
* Statistics and page advice are left out.

### MPMCQueue

A thread in `push` or `pop` is at the load of its cell's sequence, at the CAS, in
the copy or at the release store. `compare_exchange_weak` may fail for no reason.
The cells' data is not atomic, so `CellExclusive` matters: it says that between the
CAS that wins a cell and the release store a thread is alone in it.

### Session

A row of the ring records the token and position its key and value were computed
from and the positions its own attention read; that is enough to say what the
arithmetic saw. One layer stands for all. The sampled token is any token. The
request loop is complete: end of input, the one-shot request, `RESET`, a GEN that
extends the stored stream, one that departs from it, one too long, one refused;
chunks of prefill; token steps with EOS and budget; the epilogue. `said` is a
history variable: what the client knows of the conversation, the request's tokens
followed by the ones printed.

### MoELayer

The ring's slots with state, key, count and recency (`lru`, a rank per slot, which is all
that comparing ticks sees); `list` is the experts to run
(`pred.expert_ids`, or the prefill union), `slotOf` the slot claimed for each,
`groups` the command buffers committed, `signaled` the event's value, `added` how
often each token got each expert's output. `routed` is a history variable: the pairs
the router asked for. Loads end, or fail, at any time. Layers of both kinds follow one
another in any order on the same ring, so each finds whatever the last one left.

Abstractions: streamer calls are one step (see above), and the ring is used by the
one thread; queues are never full (they hold 1024 requests; a ring of at most
that many slots cannot have more loads pending); dispatches succeed; a routed expert
is in the vault. The retry after 10,000 idle sweeps is a retry after `SpinPeriod`.

### ServeFront

Each client is one POST and one handler thread. `active`, `tok`, `toks` and `proc` are
the fields of `Engine`; `proc` carries the process's liveness, its vault, its two pipes and
the request it is answering. `want` is the model the handler resolved before it had
the lock, `encoded` and `ran` what its prompt was tokenized with and which vault it
was written to, `got` the tokens passed on. The steps of `_ensure` are separate actions, since
handlers read `active` without the lock; the lock is held from `Acquire` to `Leave`.
A client may hang up at any time, and any write to it from then on may raise or not. A
tokenizer of a model in `Unloadable` may fail to load the first time.

Of the engine there is the request loop of `main.cpp` (432-506, 660-711) as `serve.py` sees
it, a line read, refused or answered word by word through a pipe of `PipeSize` words, and its exit: at
its start, when it cannot open its vault (237-273), or by a crash at any time. `bad_request` is told
apart from other errors only for a line with overrides, the one case that `serve.py`
treats differently (345-357). Left out: the two wire protocols, holding back of incomplete UTF-8, the
15 s grace before a kill, the health and model pages, a `Popen` that fails.

### Prewarm

One action is one access of the thread or of the main thread to what they share: the flags
`busy`, `epoch`, `shutdown`, and the counts `hits`. `pc` is the thread's place,
`passEpoch`, `lastEpoch`, `order`, `pos`, `budget` its locals; `main` the main thread's
place; `ring` the retained experts by recency and `loading` those being read; `file` the
histogram on disk, of which a prefix may have been written.

| Code | Actions |
|---|---|
| `Prewarm::start`'s loop (`engine.cpp:253-291`) | `Top NoNewEpoch BeginPass EndSort CheckFlags CheckEpoch Issue` |
| requests and their epilogue (`main.cpp:514-516, 692-699`) | `BeginRequest Demand Claim EndRequest Save Rearm` |
| end of input (`main.cpp:731-738`) | `Stop Join Save` |
| workers | `LoadOk LoadFail` |
| a crash or a kill, the next start (`engine.cpp:208-235`) | `Crash Boot` |

The counts are plain integers that the thread's sort reads while claims increment them. A
sort that a claim falls into may leave any permutation (`disturbed`); undefined behaviour
beyond that is not modelled. `late`, `warmed`, `quiet`, `lost`, `recent`, `counted`, `cut`
are history variables. Every model shares one histogram file (`engine.hpp:28`): after a
switch of vaults the order follows the other model's counts; the model has one vault.

### Vault

The file has four regions; `cache` is the file as processes see it, `disk` what a power failure
leaves of it. A script may be killed after any write (`Kill`), the system may write any
region back at any time (`Writeback`), `PowerFails` loses the rest. A truncation is taken to
reach the disk at once. `model` records how the blobs were laid out, so that `Right` can
say whether every expert of the table is found at its own bytes: `n` of them, of the `all` that
the checkpoint has (`--max-layers` and `--max-experts` leave the others out).

| Code | Actions |
|---|---|
| `shatter_moe.py:947-1098` | `BeginShatter WriteBlob WriteHead WriteTables WriteBlock` |
| `upgrade_vault_v2.py:82-136` | `BeginUpgrade Stamp SyncBlock PatchExt PatchVersion SyncHeader` |
| `recover_header.py:29-138` | `RecoverHead RecoverRows` |
| `main.cpp:96-163`, `streamer.cpp:182-216` | `Opens`, `Right` |

Offsets are computed in bytes with the code's sizes and alignments. All experts have one
padded size, of `BlobPages` pages.

`recover_header.py` says (82-83) that it must keep the offset the file was created with, and ends
with SUCCESS (140), but the model shows two ways for it to fail. It computes the first blob's offset
without the arch block (29-34): where the block of a version 2 vault reaches the next page the
two offsets differ, and each recovered expert is read from wrong bytes. And it counts every expert
of the checkpoint (26-27), where `shatter_moe.py` counts those it was asked for (929-936): the tables
of a vault of a part may then name other experts than it has, at an offset that need not be
its own, and be longer than the room before its first blob (`Miscounted`).
`RecoveredExactly` takes neither for right. It claims, of a vault of the whole checkpoint, that nothing is
listed which cannot be read to its end, and that a recovery which does find the original
offset is exact; a script that kept the offset would satisfy it in all cases.

A version 2 vault whose shatter was killed after its header and before its block is
refused by the engine, and opens after `upgrade_vault_v2.py --force`, with
tables that may be missing (`forced`); nothing in the properties speaks of it from then on.
Nor do they speak of a vault whose shatter was not on disk when the power
failed (`lost`): shatter does not fsync.

### Selection

One token step: the router's ranks (`scout.cpp:98-118`), the penalty loop and the
candidate heap of `sampler.hpp`. `list` is the array being permuted, `pos` the loop's index,
`at` the heap entry being sifted down. Scores are small integers; the penalty and the
temperature leave any integers, at least one of them positive. Sums are exact, where the
code adds floats. `std::sort` leaves equal candidates in any order. The inner scan of the selection
sort (`scout.cpp:102-105`) is taken by its result, the first of the best entries; a penalty of 1, for
which the loop is skipped (`sampler.hpp:42`), changes no score.

## 3. What TLC checks

Every run finishes within two minutes. *Pass* means no error; *violation* means that a
statement the repository makes about itself does not hold of the code, and TLC shows how.

| Run | Question | Result |
|---|---|---|
| `streamer_caller` | one caller, two workers: data, claims, references, LRU, refinement of `ExpertCache` | pass |
| `streamer_pair` | main and the prewarm thread on one ring: loads owned, no use after free, loads resolve, shutdown ends | pass |
| `streamer_held` | is a claimed slot safe from the prewarm thread's eviction? | **violation** of `HeldIntact` |
| `mpmc` | two producers, two consumers: exclusivity, honest failures, refinement of `BoundedFifo` | pass |
| `session` | ring rows, causality, prefix reuse, budget, progress | pass |
| `session_causal` | does every prefill token attend to its own past only? | **violation** of `CausalAttention` |
| `moelayer` | GPU reads, exact sums, eviction within a union, progress, refinement of `ExpertCache` | pass |
| `serve` | own answers, the right vault, progress | pass |
| `serve_tokenizer` | is a prompt always encoded with the tokenizer of the vault that runs it? | **violation** of `OwnTokenizer` |
| `prewarm` | yielding, popularity, headroom, the histogram across crashes, passes not missed | pass |
| `vault` | what the engine opens after any mix of the three scripts, killed anywhere, with power failures | pass |
| `selection` | do the partial sorts and the heap give what full sorts would? | pass |

The properties, by the question they answer:

* *Streamer.* `ExclusiveLoad`: each LOADING slot has exactly one party that will
  finish it, and no other slot has any, so no failure path forgets a slot and no two
  reads write one buffer. `DataMatchesKey`: a slot that can be claimed has the bytes
  of the expert its ids name. `HeldIntact`: a claimed slot is left alone until it is
  released. `RefCountExact`: counts are the unreleased claims. `ClaimMissIsAMiss`: a
  claim fails only if no slot retains the expert, so the callers' prefetch/claim loop
  cannot spin on a resident one. `EvictsLeastRecent`: the victim is unreferenced and,
  among retained slots, least recently used. `ImplementsCache`: with one caller the
  ring is a cache whose experts are in one slot at most. `NoUseAfterFree`,
  `ShutdownCompletes`, `LoadsResolve`: the ends of things.
* *Queue.* `CellExclusive`; `FailsHonestly`: full and empty are reported only when
  they are so or another thread is half way through a cell; `ImplementsFifo`.
* *Session.* `KvHoldsStream`: the rows in use are those of the last tokens processed,
  at their own positions, in a request and between requests. `CausalBeforeWrap`: a
  decoded token, and a prefilled one before the ring wraps, attended to exactly its
  past. `HistoryIsPrefix`: the stored stream is the client's transcript, short of one
  token at most. `BudgetSpent`, `RequestEnds`.
* *Layer.* `GpuReadsIntact`: a slot an unfinished command buffer reads is claimed and
  unchanged. `LayerExact`: when a layer ends each routed pair was added once, nothing
  else was, and all claims are released. `UnionKept`: prefetching for a prefill layer
  evicts one of the layer's own unrun experts only when nothing else can go.
  `LayerEnds`: once reads stop failing, a layer whose experts fit the ring ends.
  `UsesCache`: late, lost and repeated prefetches never load an expert twice nor reload a held
  slot; only loaded slots are claimed, once at a time, and only held ones released.
* *Front end.* `OwnAnswer`: a client is passed tokens of its own answer only, and all of
  them if its request ends well. `RightModel`: a prompt is run by the vault its request
  resolved to, and encoded by its tokenizer where that loads. `Answered`.
* *Prewarm.* `AtMostOneLate`: a pass told to yield issues one more prefetch at most.
  `OrderCurrent`: what the armed pass prefetches while the engine is idle follows the
  counts, though an earlier sort may have raced with them. `HottestWarmed`, `HeadroomKept`: an
  undisturbed pass evicts neither what it brought in nor the margin it found ready (the
  margin is spoken of only if no load is in flight when the pass begins).
  `HistorySurvives`: a boot loads the last histogram saved whole, or none.
  `WarmsWhenIdle`: no re-arming is missed.
* *Vault.* `OpenedIsWhole`: a vault the engine opens serves each expert of its table from
  that expert's bytes, whichever script was killed when. `UpgradeCrashSafe`: an upgrade
  of a vault that is on disk leaves one that opens at every instant. `BlockInGap`: the
  arch block never touches tables or blobs. `RecoveredExactly`: a completed recovery of a vault
  of the whole checkpoint lists only experts that can be read to their end, and where it
  finds the offset they were written at, all the complete ones, each at its own bytes.
* *Selection.* `RanksExact`: the widened ranking begins with the experts a direct one
  routes to. `PenalisedOnce`. `HeapKeepsBest`, `NucleusExact`: the prefix the token is
  drawn from is the one a sort of the whole vocabulary would give.

### What the violations show

1. **A claimed slot can be evicted** (`streamer_held`). `streamer.cpp:527-529`
   justifies the claim of a retained slot without a CAS by "eviction and claiming both
   run on the caller thread only". The prewarm thread evicts as well. A prefetch it
   begins while the engine is idle reads a reference count of 0; a request starts and
   claims the slot, whose state is CONSUMED before and after; the eviction's CAS
   compares the state only, and succeeds. It takes a request that starts within the
   few operations between the scan and the CAS.
2. **Prefill over a full ring sees the future** (`session_causal`). The rows of a chunk
   are written before its tokens attend; where the ring wraps they replace rows which
   the chunk's first tokens' windows cover, against `prefill.cpp:210-211`.
3. **A failed switch leaves the wrong tokenizer** (`serve_tokenizer`). `_ensure` sets the
   active model before its tokenizer is loaded. If the load raises, the next request for that
   model is not a switch any more; it finds no engine, spawns the new vault and encodes
   its prompt with the old tokenizer, against `serve.py:38-40`.

The models also show some behaviour that no run names. With the prewarm thread both
scans of a prefetch can miss the other's load: that costs a slot and a read. A prefill
union larger than the ring is read more than once, against `README.md:111` and
`prefill.cpp:313-314`; the sums are still exact (`LayerExact`). A request that names no
model is resolved before it waits for the lock, so it may switch the vault back, against
`serve.py:34-35`. A recovered header may point at wrong bytes, or name other experts than the
vault has, as said under *Vault*.

### Bounds

| Run | Bounds | Why they are enough |
|---|---|---|
| `streamer_caller` | 2 slots, 3 experts of which 1 is not in the vault, 2 workers, queues of 1, 5 ticks | more experts than slots forces evictions; two workers can hold two loads; a queue of one fills at once; five ticks are five touches: load, evict, claim, release and reclaim of one slot while the other is used |
| `streamer_pair` | 1 slot, 2 layers of 1 expert, 1 of them not in the vault, 1 worker, 4 ticks | two callers compete for the only slot at every step, with liveness |
| `streamer_held` | 2 slots, 2 layers of 1 expert, 1 worker, 5 ticks | two callers compete for every slot and key |
| `mpmc` | 2 cells, 2 producers, 2 consumers, 2 items, 5 positions | every cell is used in three laps, so a thread can be a lap behind |
| `session` | ring of 3 rows, stream of 6, suffix of 3, chunks of 2, budget of 2, 2 tokens of which 1 is EOS | streams of twice the ring wrap it; suffixes need one chunk or two; the stream's cap is reached |
| `moelayer` | 2 slots, 3 experts, top-2 with one speculative rank, chunk of 2 tokens, retry every 2 idle sweeps | the ring is as small as one token's experts; a speculative read takes a slot a demand needs; a union can exceed the ring |
| `serve` | 2 requests, 2 vaults, answers of 2 tokens, 2 words in the pipe, 1 exit of the engine | one request can leave the pipe, the lock and the engine to the other in every state; an answer is longer than what is read before a hang-up |
| `prewarm` | 4 experts, ring of 3 with 1 slot of margin, 3 loads in flight, 2 calls a request, 1 request, 2 boots | a pass has a budget of two on a ring of three, so it evicts, skips and runs out; the request falls at every point of it; the second boot reads what a crash of the first left |
| `vault` | 1, 2 or 6 experts of 2 pages of 512 bytes, of a checkpoint of as many or more | with two experts the arch block crosses the page the tables end on, with one and six it does not; the tables of six are longer than the file of one; two pages let a shatter end within an expert |
| `selection` | 4 experts ranked to 3, of 3 scores; 6 tokens, heap of 4, window of 3 of a history of 4 | ties everywhere; a heap whose second entry has one child, replaced at its root; a history longer than its window |

`MaxTick` and `MaxPos` stop new calls, never a call in progress; `MaxExits` bounds the engine's
exits, `MaxTokens` and `PipeSize` its answers; `MaxUses`, `MaxRequests` and `MaxBoots` the
requests and boots of `Prewarm`. `RefMod` is the modulus of the unsigned reference count.

### Fairness

* `Streamer!FairSpec`: weak fairness of each caller's call in progress, of the
  claim loop, of each worker and of the steps of a shutdown in progress. The code has
  no locks; each of these is a running thread. Nothing says that a new call, request
  or shutdown ever comes.
* `Session!FairSpec`: weak fairness of the work of a request that has begun; the next
  line is up to the client.
* `MoELayer!FairSpec`: weak fairness of the engine's thread, of the GPU and of each
  load's end, with or without success. That reads stop failing at some point is a
  hypothesis of `LayerEnds`, not an assumption of the specification: a read that fails
  for ever keeps the layer spinning, as the code would.
  `LayerEnds` speaks of layers whose experts fit the ring. For a larger union TLC finds
  a schedule that never ends: loads that always end during a retry sweep, just after the
  sweep has passed their expert, and are evicted by a later prefetch of the same sweep.
  It needs every load to meet one sweep in ten thousand, for ever.
* `ServeFront!FairSpec`: weak fairness of each handler thread and of the engine's answers
  to the lines it was given. Python's lock is not fair, but each thread takes it once. The engine
  need not exit, and clients need not hang up.
* `Prewarm!FairSpec`: weak fairness of the thread, of the end of a request's work and of
  each step of the epilogue and of the shutdown. Loads need not end, requests need not come.
  The thread is not starved: it sleeps, it does not wait for anyone.

## 4. What is proved

Each theorem is about the specification of its module, for every value of the constants
that the named assumptions admit: any number of threads, slots, cells, experts, requests,
blobs. The bounds of the runs (`MaxTick`, `MaxPos`, ...) are constants too, so they
are arbitrary there. The pattern is the same everywhere: the property is not inductive, an
invariant `IInv` that is (checked by TLC first) implies it, and there is one lemma
or step for each action.

### StreamerProofs

From `RingAssumption` (positive sizes; the count's modulus is at least 2),
`VaultAssumption`, `IdAssumption` (the null id and the null key are no id and no key)
and `ThreadAssumption`:

| Theorem | States |
|---|---|
| `TypeCorrect` | `Spec => []TypeOK` |
| `LoadsOwned` | `Spec => []LoadInv` |
| `DataCorrect` | `Spec => []DataMatchesKey` |
| `ClaimedSlotsIntact` | `Spec => []HeldIntact`, if there is no prewarm thread |
| `ReferencesExact` | `Spec => []RefCountExact`, if there is no prewarm thread |
| `LoadsExclusive` | `Spec => []ExclusiveLoad` |
| `RingFreedLast` | `Spec => []NoUseAfterFree` |
| `MissesAreMisses` | `Spec => []ClaimMissIsAMiss`, if there is no prewarm thread |
| `EvictsOldest` | `Spec => EvictsLeastRecent`, if there is no prewarm thread |
| `StreamerIsCache` | `Spec => ImplementsCache`, if there is no prewarm thread: every step is a step of `ExpertCache` or none |

The argument. None of the properties is inductive. `LoadInv` adds to the types what
each party to a load knows: a prefetch call that won a slot, a request in a queue and a
request with a worker each name a LOADING slot that carries the ids they will load
(`CallLoads`, `QueueLoads`, `WorkerLoads`), and no two of them name one slot
(`CallDistinct`, `QueueDistinct`, `WorkerDistinct`). It is inductive with any number of
callers: each CAS that starts a load changes a slot that was not LOADING, so nobody
had it; the queues hand it over whole; a worker gives it up as it publishes.
`DataMatchesKey` follows since the bytes and ids of a slot change only while it is
LOADING, and it is published by the worker that has just read the expert its ids name.

`CallerInv` adds what one caller may rely on: a held slot has a count of one and is held
once, other slots have zero, the slot being claimed keeps the key it was matched for
(`ClaimInv`), and the victim chosen by the LRU scan is still idle and unreferenced at
the CAS (`VictimInv`). The last is where a second caller breaks it, and why
`ClaimedSlotsIntact` and `ReferencesExact` assume `Prewarmers = {}`; `streamer_held`
shows that the assumption is needed.

`OwnInv` is the converse of `LoadInv`: every LOADING slot is some party's (`LoadOwned`), and
a queue is never longer than its capacity (`QueueBound`), without which a push could lose a
request. Together they make the owners of a slot exactly one, counted over queue
positions, calls and workers, as `ExclusiveLoad` says.

`LifeInv` orders the end: between requests Main is in no call and holds nothing
(`QuietMain`), shutdown starts between requests (`StopsQuiet`), the workers' flag is raised
after the prewarm thread is out of its call and the memory freed after the workers left
(`Joined`). The guards of the actions alone do not give it: it is the order of `main`'s exit.

The proof has a lemma for each kind of change (a call that only moves, a slot taken, its
ids written, a push, a pop, a read, a publication), and one step for each action.

The last three rest on what a loop over the slots knows of those it has passed, while the workers move
slots behind its index. `ScanInv` states it for the three loops: no passed slot retains the
expert a claim wants (`MissInv`); the scan for a resident copy, once over, stays right until
the slot is taken (`AbsentInv`); the LRU choice is the oldest of the retained slots passed,
and of all at the CAS (`OldestInv`). It is inductive because a worker only ends a LOADING: it
makes no slot CONSUMED, and gives no EMPTY slot a key. The fields of a slot change in the
middle of a prefetch, so the mapping reads the key of a slot being taken from the call
that took it, until its ids are written. For the simulation, `SameSlot` says that the cache
sees no change in a slot; there is a lemma for each abstract action and one for each
kind of step of the streamer.

### MoELayerProofs

From `SizesAssumption` (a ring of at least one slot, positive top k, chunk and spin period) and
`ExpertAssumption` (the null id is no expert).

| Theorem | States |
|---|---|
| `TypeCorrect` | `Spec => []TypeOK` |
| `GpuReadsSafe` | `Spec => []GpuReadsIntact` |
| `LayersExact` | `Spec => []LayerExact` |
| `UnionSpared` | `Spec => UnionKept` |
| `LayersUseCache` | `Spec => UsesCache`: every step is a step of `ExpertCache` or none |

The invariant is built around `Open`, the claims not released yet. `RefInv`: an open claim's slot is
CONSUMED, has a count of one and the claimed expert's key, and every reference is an open
claim's. `GroupInv`: command buffers that have not completed read open claims only, and no
expert is in two. `AddedInv`: an expert has been added for exactly its tokens when its claim
is closed, and for none before. `RouteInv` ties the lists of users, which prefill builds rank by
rank, to what the router asked for. From these follow both invariants.
`UnionNewer` is for eviction: throughout a prefill layer, loaded slots of the union are newer
than all other slots that hold an expert, since the first prefetches and each claim and retry make
them so; the victim, the oldest that may go (`Least`: a nonempty set of slots has a slot of least
rank), is then of the union only if all that may go are.

`LayersUseCache` reads a referenced slot as held. `RingEffect` says what each step is to the ring:
nothing, a load, a claim, a release of an open claim, the end of a load; `Keyed`, that a slot in use
has an expert's key, is what it needs beyond `IInv`. `ExpertCache` is where the two models
meet: the streamer does no more than it allows and the layers ask no more of it.

### MPMCQueueProofs

From `CapacityAssumption`: a capacity of two or more. (The code's `static_assert` at
`streamer.cpp:70` also admits one, for which a full cell and an empty one have the same sequence
number and the algorithm breaks; only 1024 is instantiated.)

| Theorem | States |
|---|---|
| `TypeCorrect` | `Spec => []TypeOK` |
| `CellsExclusive` | `Spec => []CellExclusive` |
| `FailuresHonest` | `Spec => FailsHonestly` |
| `QueueIsFifo` | `Spec => ImplementsFifo`: every step is a step of `BoundedFifo` or none |

The cursors are never more than a lap apart (`WindowInv`). `HolderInv` says what the
sequence number of a cell is while a thread is in it, and `DistinctInv` that no two threads
are in cells of the same position; `SettledInv` says that a cell nobody is in has the
sequence number of the lap its position is at: filled, or free. `CasInv` is what a thread
that has read a sequence number may still conclude when its CAS succeeds: the position
has not moved, so neither has the lap. `DataInv` gives the item of each position that is
pushed and not popped, from which the abstract queue is read.

### SessionProofs

From `SizeAssumption` (a ring of at least one row, chunks no longer than the ring, a
suffix buffer no longer than the stream's) and `TokenAssumption`.

| Theorem | States |
|---|---|
| `TypeCorrect` | `Spec => []TypeOK` |
| `RingHoldsStream` | `Spec => []KvHoldsStream` |
| `AttendsToPast` | `Spec => []CausalBeforeWrap` |
| `StreamIsHistory` | `Spec => []HistoryIsPrefix` |
| `AnswersBudget` | `Spec => []BudgetSpent` |

Two lemmas carry the ring. `RowNew` and `RowOld` say where the k-th newest row is after
a chunk of `count` rows: in the chunk, or at the place of an older row that no row of the
chunk was written over. From them `RingAdvances`: a ring that holds the first `done`
tokens of a conversation holds the first `done + count` after the next `count` are
written, wrapped or not. `CausalAdvances` adds what the rows attended to: the window of a
new row is undisturbed if the chunk is one row long, or if the chunk and everything
before it fit in the ring; what happens otherwise is the violation of `session_causal`.
`ProgressInv` counts a request's steps, `StreamInv` gives the length and the prompt's place
in the stream, `SaidInv` ties `next_heavy_token` to the last token printed, which makes
the token that a step appends the one the client already knows.

### PrewarmProofs

From `PrewarmAssumption` (sizes are positive).

| Theorem | States |
|---|---|
| `TypeCorrect` | `Spec => []TypeOK` |
| `YieldsAtOnce` | `Spec => []AtMostOneLate` |
| `OrderIsCurrent` | `Spec => []OrderCurrent` |
| `HistogramWholeOrNone` | `Spec => HistorySurvives` |
| `PassKeepsHottest` | `Spec => HottestWarmed` |
| `PassKeepsHeadroom` | `Spec => HeadroomKept` |

`LateInv` says that a pass that has made its late prefetch stands before a check that ends
it; `OrderInv` that the pass of the current epoch, while the main thread is idle, was sorted
by the counts as they are, since a request that changes them ends by starting a new epoch;
`FileInv` that the file loads as the last complete save, or as nothing once a save was cut
short.

The other two are one counting argument, in `WarmInv`. Seen by recency, the ring of a pass
that has it to itself is in three parts: the experts it has asked for (`Passed`) are the
newest, before them come those that were used last when it began (`recent`, at most the
margin), and the rest is older (`UpClosed`, twice). A prefetch evicts the oldest expert that is not
loading. The pass has brought in or touched no more than it has spent, and its budget is the
ring less the margin (`Kept`), so when the ring is full and there is budget left, more than
the margin of what it holds was not asked for; of those at most the margin are loading
or recent, and one that is neither is there to be the victim (`VictimSpared`). Loads that fail
only shrink the parts. `StopInv` says when a pass has the ring to itself and keeps it.

### VaultProofs

From `LayoutAssumption` (pages of at least 128 bytes, blobs of at least one page,
models of at least one expert).

| Theorem | States |
|---|---|
| `TypeCorrect` | `Spec => []TypeOK` |
| `OpenedVaultWhole` | `Spec => []OpenedIsWhole` |
| `UpgradeSafe` | `Spec => []UpgradeCrashSafe` |
| `BlockPlaced` | `Spec => []BlockInGap` |
| `RecoveryExact` | `Spec => []RecoveredExactly` |
| `RecoveryUsable` | `Spec => []RecoveredUsable`: a right recovery opens at once or can be upgraded |

The invariant follows each region through the writes of each script, in `cache` and,
for the upgrade, in `disk`: what an fsync separates is ordered in both. The alignment
arithmetic is in lemmas about `AlignUp`: it never rounds down, and it is
monotonic, so a recovered offset is never behind the original one. `Listed` is what every header and table speak of, whoever wrote it: all experts
that were to be laid out or, of a whole checkpoint, those a recovery would find; that
the two agree once all are written (`WrittenBounds`) is what carries the gap through a recovery and
an upgrade after it. Of a miscounted recovery (`Miscounted`) nothing is claimed.

### SelectionProofs

From `SelectionAssumption` (a heap no larger than the vocabulary, a window of at least one entry,
rank buffers that hold the top k).

| Theorem | States |
|---|---|
| `RanksAreBest` | `Spec => []RanksExact` |
| `PenalisesOnce` | `Spec => []PenalisedOnce` |
| `HeapHoldsBest` | `Spec => []HeapKeepsBest` |
| `NucleusIsExact` | `Spec => []NucleusExact` |

Each phase has an invariant that says what its loop has done so far, and the theorems are what
it says at the loop's end: `RankOK` for the selection sort, `PenaltyOK` for the window,
`ScanOK` for the set of candidates, `WalkOK` for their order, `DrawOK` for the cutoff. The heap's own
is `HeapOK`, which holds between any two swaps: from the entry the building has come
to (`From`), every entry but the one being sifted (`at`) is no larger than its children, and
the children of that one are no smaller than its parent. A swap moves the exception down
and a sift that ends removes it, in the bottom-up building of the heap and after a replacement at the
root alike. That the root of a heap is its least (`RootLeast`), and that the scan therefore
discards nothing better than what it keeps, is by the least counterexample: an entry smaller
than the root has a parent that is smaller too. `std::sort` is any permutation in which no
entry exceeds the one before; that such an array has as many distinct entries as the one it
permutes is a matter of cardinalities (`SortKeeps`). The walk's sums are compared with top_p
but never computed: whatever a sum is, the cutoff is the first prefix for which the test
holds.

### ServeFrontProofs

From `ModelAssumption`, `ClientAssumption` and `BoundAssumption`.

| Theorem | States |
|---|---|
| `TypeCorrect` | `Spec => []TypeOK` |
| `AnswersOwn` | `Spec => []OwnAnswer` |
| `RunsItsModel` | `Spec => []RightModel` |
| `BoundaryWhenFree` | whenever the lock is free, a live engine is at a request boundary |

`LockInv` says which labels hold the lock. `BoundaryInv`: a live engine that nobody reads
from has empty pipes and answers nobody. `AnswerInv`: while a thread reads or drains, the
pipes hold its line or what the engine has made of it, tokens with at most one terminator, at
the end. `TokenInv` counts: sent is passed on plus in the pipe. The engine's steps need
a reader by `BoundaryInv`, and it is the only one by `LockInv`; a reader leaves on a terminator,
which is the last word, or when the engine is dead. `ModelInv` follows `active`, `tok`
and `proc.model` through a switch: between setting the active model and the spawn no
engine is alive.

### Only model-checked

Liveness (`LoadsResolve`, `ShutdownCompletes`, `RequestEnds`, `LayerEnds`, `Answered`,
`WarmsWhenIdle`): out of the prover's reach. Every invariant and every action property that a
passing run checks is also a theorem. The two refinements are of steps only: `ExpertCache` and
`BoundedFifo` state no fairness.

## 5. Plan

Done, in this order: `Streamer` and `ExpertCache`; `StreamerProofs`; `MPMCQueue` and
`BoundedFifo`; `Session`; `MoELayer`; `ServeFront`; `Prewarm`; `Vault`; `Selection`; the
proofs about `Vault`, `MPMCQueue`, `Prewarm`, `ServeFront`, `Session` and `MoELayer`; the proof that
`Streamer` implements `ExpertCache`; the counting argument of `Prewarm`; the proofs about `Selection`.

Left: the end marker of a stream in `ServeFront` (`serve.py:727`), and the buffer registry
of the Metal bridge, whose null handles `decode.cpp:483` skips.

## 6. Not modelled

Floating-point arithmetic (attention, RoPE, norms, dequantisation, the kernels): a state
machine has nothing to tell apart there. The command line, boot (ring sizing, allocation,
vocabulary, the scout's tensor parser), and the Metal bridge's set-up run once, in one
thread, before anything is shared. Clients display. Training and export scripts are
offline. Of `serve.py`, the wire protocols, the decoding of incomplete UTF-8 and the model
pages are left out. Weak memory effects are out of the models' reach, as said above.

## 7. Running

    tlc -config MCStreamer_caller.cfg MCStreamer.tla
    tlapm StreamerProofs.tla
