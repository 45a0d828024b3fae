------------------------------ MODULE Prewarm ------------------------------
(***************************************************************************)
(* The Prewarm thread of src/src/engine.cpp, the popularity histogram it   *)
(* orders its work by, and the part of src/src/main.cpp that pauses it,    *)
(* re-arms it, saves the histogram and stops it.                           *)
(*                                                                         *)
(* The thread and the main thread share three atomics (busy, epoch,        *)
(* shutdown) and one array that is not atomic (hits).  An action is one    *)
(* access to a shared variable with the private computation around it,     *)
(* except that the thread reads shutdown together with the busy flag it    *)
(* reads next: the flag no longer changes once shutdown is set.  Only the  *)
(* main thread uses the file, so a save and the store after it are a step. *)
(*                                                                         *)
(* Abstractions.  A call of the streamer is one step (Streamer.tla models  *)
(* its atomic operations): the ring is the sequence of the experts it      *)
(* retains, least recently used first, and loading those not read yet.  A  *)
(* claim and its release are one step, so slots are unreferenced between   *)
(* the steps of the main thread.  Experts are numbered in the order the    *)
(* thread lists them, layer by layer.                                      *)
(***************************************************************************)
EXTENDS Naturals, Sequences, FiniteSets

CONSTANTS
    Experts,        \* number of experts the thread lists
    RingSize,       \* slots of the streamer's ring
    MinMargin,      \* the 128 slots a prefill layer may claim at a time
    QueueCapacity,  \* loads in flight beyond which a push may be refused
    MaxUses,        \* BOUND: prefetches and claims of one request
    MaxRequests,    \* BOUND: no request comes once the engine's epochs and earlier
                    \* boots add up to more
    MaxBoots        \* BOUND: boots of the engine

ASSUME PrewarmAssumption ==
    /\ Experts \in Nat \ {0} /\ RingSize \in Nat \ {0}
    /\ MinMargin \in Nat /\ QueueCapacity \in Nat \ {0}
    /\ MaxUses \in Nat /\ MaxRequests \in Nat /\ MaxBoots \in Nat

Expert == 1 .. Experts

VARIABLES
    busy, epoch, shutdown,  \* Prewarm::busy_, epoch_, shutdown_
    hits,       \* g_expert_hits: claims counted for each expert
    pc,         \* the thread: the access it performs next
    passEpoch,  \* its local epoch
    lastEpoch,  \* its local last_epoch
    order,      \* its array order
    disturbed,  \* was a count changed during the sort in progress?
    pos,        \* its loop index i, from 1
    budget,     \* its local budget
    main,       \* the main thread: what it does next
    ring, loading,  \* the streamer: retained experts by recency, loads in flight
    file,       \* vault/expert_freq.bin: [kept: entries written, counts]
    uses,       \* its calls to the streamer in this request
    boots,      \* times the engine started
    \* history variables
    counted,    \* the counts the last complete save wrote
    cut,        \* was a save cut short since the last complete one?
    late,       \* prefetches of a pass already told to yield or to end
    warmed,     \* epoch of the last pass that ran to its end
    quiet,      \* has only this pass used the ring since the pass began?
    lost,       \* experts this pass asked for that the streamer gave up
    recent      \* the margin's worth of experts most recent at its start

threadVars  == <<pc, passEpoch, lastEpoch, order, disturbed, pos, budget>>
sharedVars  == <<busy, epoch, shutdown>>
ringVars    == <<ring, loading>>
diskVars    == <<file, counted, cut>>
passHistory == <<warmed, quiet, lost, recent>>
vars == <<threadVars, sharedVars, ringVars, diskVars, passHistory,
          hits, main, uses, boots, late>>

-----------------------------------------------------------------------------
(***************************************************************************)
(* The histogram's file and the order of a pass.                           *)
(***************************************************************************)
NoHits == [e \in Expert |-> 0]

\* fopen("wb") empties the file; entries reach it in order.
Emptied == [kept |-> 0, counts |-> NoHits]

\* Mutant: what could be read is added.
LoadedPrefix(f) == [e \in Expert |-> IF e <= f.kept THEN f.counts[e] ELSE 0]

\* load_expert_freq adds the entries only if it could read all of them.
Loaded(f) == IF f.kept = Experts THEN f.counts ELSE NoHits

Orders == {o \in [Expert -> Expert] : \A i, j \in Expert : i # j => o[i] # o[j]}

\* stable_sort by descending hits, from the layer-major order.
SortedBy(o, h) ==
    \A i, j \in Expert : i < j =>
        \/ h[o[i]] > h[o[j]]
        \/ h[o[i]] = h[o[j]] /\ o[i] < o[j]

LayerMajor == [i \in Expert |-> i]

\* The process is there.
Running == main \notin {"down", "exited"}

-----------------------------------------------------------------------------
(***************************************************************************)
(* The streamer's ring.                                                    *)
(***************************************************************************)
Retained    == {ring[i] : i \in DOMAIN ring}
Without(i)  == SubSeq(ring, 1, i - 1) \o SubSeq(ring, i + 1, Len(ring))
Evictable   == {i \in DOMAIN ring : ring[i] \notin loading}
IsOldest(i) == i \in Evictable /\ \A j \in Evictable : i <= j

\* A retained expert becomes the most recent: a prefetch hit or a claim.
Touch(e) ==
    /\ \E i \in DOMAIN ring : ring[i] = e /\ ring' = Append(Without(i), e)
    /\ UNCHANGED loading

\* A free slot, or the least recently used one that is not loading, begins
\* to load e.
StartLoad(e) ==
    /\ loading' = loading \cup {e}
    /\ \/ Len(ring) < RingSize /\ ring' = Append(ring, e)
       \/ /\ Len(ring) = RingSize
          /\ \E i \in DOMAIN ring : IsOldest(i) /\ ring' = Append(Without(i), e)

\* prefetch returns false: every slot is loading, or the queue was full and
\* the slot just taken is given back.
Refuse ==
    \/ Len(ring) = RingSize /\ Evictable = {} /\ UNCHANGED ringVars
    \/ /\ Cardinality(loading) >= QueueCapacity
       /\ \/ Len(ring) < RingSize /\ UNCHANGED ring
          \/ /\ Len(ring) = RingSize
             /\ \E i \in DOMAIN ring : IsOldest(i) /\ ring' = Without(i)
       /\ UNCHANGED loading

\* prefetch(e), and whether it returned true.
Prefetch(e, taken) ==
    \/ taken /\ Touch(e)
    \/ e \notin Retained /\ taken /\ StartLoad(e)
    \/ e \notin Retained /\ ~taken /\ Refuse

\* A worker ends a load: the slot is ready, or empty after a failed read.
LoadOk ==
    /\ Running
    /\ \E e \in loading : loading' = loading \ {e}
    /\ UNCHANGED <<threadVars, sharedVars, ring, diskVars, passHistory, hits, main,
                   uses, boots, late>>

LoadFail ==
    /\ Running
    /\ \E i \in DOMAIN ring :
         /\ ring[i] \in loading
         /\ loading' = loading \ {ring[i]}
         /\ ring' = Without(i)
         /\ lost' = IF quiet THEN lost \cup {ring[i]} ELSE lost
    /\ UNCHANGED <<threadVars, sharedVars, diskVars, warmed, quiet, recent, hits, main,
                   uses, boots, late>>

-----------------------------------------------------------------------------
(***************************************************************************)
(* The thread: Prewarm::start's lambda.                                    *)
(***************************************************************************)
Goto(label) == pc' = label

\* Mutant: no headroom.
WholeRing == RingSize

\* Headroom for the live working set, and what is left for a pass.
Margin == IF RingSize \div 4 > MinMargin THEN RingSize \div 4 ELSE MinMargin
Budget == IF RingSize > Margin THEN RingSize - Margin ELSE 0

Top ==
    /\ pc = "top"
    /\ Goto(IF shutdown THEN "exited" ELSE IF busy THEN "top" ELSE "idleEpoch")
    /\ UNCHANGED <<passEpoch, lastEpoch, order, disturbed, pos, budget, sharedVars, ringVars,
                   diskVars, passHistory, hits, main, uses, boots, late>>

NoNewEpoch ==
    /\ pc = "idleEpoch"
    /\ epoch = lastEpoch
    /\ Goto("top")
    /\ UNCHANGED <<passEpoch, lastEpoch, order, disturbed, pos, budget, sharedVars, ringVars,
                   diskVars, passHistory, hits, main, uses, boots, late>>

\* A pass begins: the list is made and its sort reads the counts.
BeginPass ==
    /\ pc = "idleEpoch"
    /\ epoch # lastEpoch
    /\ passEpoch' = epoch
    /\ disturbed' = FALSE
    /\ Goto("sort")
    /\ quiet'  = (main # "work" /\ Cardinality(loading) <= Margin)
    /\ lost'   = {}
    /\ recent' = IF loading = {} THEN {ring[i] : i \in {j \in DOMAIN ring : j + Margin > Len(ring)}}
                                 ELSE {}
    /\ UNCHANGED <<lastEpoch, order, pos, budget, sharedVars, ringVars, diskVars, warmed,
                   hits, main, uses, boots, late>>

\* The thread leaves its pass, whose locals are dead from then on.
LeavePass ==
    /\ Goto("top")
    /\ order' = LayerMajor /\ disturbed' = FALSE /\ pos' = 1 /\ budget' = 0
    /\ quiet' = FALSE /\ lost' = {} /\ recent' = {}

\* The loop's condition: the next entry under order o, or the pass's end.
NextEntry(o, i, b, gone) ==
    \/ /\ i <= Experts /\ b > 0
       /\ Goto("flags")
       /\ order' = o /\ disturbed' = FALSE /\ pos' = i /\ budget' = b
       /\ lost' = IF quiet THEN gone ELSE {}
       /\ UNCHANGED <<lastEpoch, warmed, quiet, recent>>
    \/ /\ i > Experts \/ b = 0
       /\ LeavePass
       /\ lastEpoch' = passEpoch /\ warmed' = passEpoch

\* A comparison whose answers change meanwhile leaves any permutation.
EndSort ==
    /\ pc = "sort"
    /\ \E o \in Orders :
         /\ disturbed \/ SortedBy(o, hits)
         /\ NextEntry(o, 1, Budget, lost)
    /\ UNCHANGED <<passEpoch, sharedVars, ringVars, diskVars, hits, main, uses, boots, late>>

\* Mutant: last_epoch is read again at the end of the pass.
BreakOffReread ==
    /\ LeavePass
    /\ lastEpoch' = epoch
    /\ UNCHANGED warmed

\* The pass yields to a request, or to a newer pass.
BreakOff ==
    /\ LeavePass
    /\ lastEpoch' = passEpoch
    /\ UNCHANGED warmed

GoOn(label) ==
    /\ Goto(label)
    /\ UNCHANGED <<lastEpoch, order, disturbed, pos, budget, passHistory>>

\* Mutant: busy is looked at between passes only.
CheckShutdown ==
    /\ pc = "flags"
    /\ GoOn(IF shutdown THEN "exited" ELSE "epoch")
    /\ UNCHANGED <<passEpoch, sharedVars, ringVars, diskVars, hits, main, uses, boots, late>>

CheckFlags ==
    /\ pc = "flags"
    /\ \/ shutdown /\ GoOn("exited")
       \/ ~shutdown /\ busy /\ BreakOff
       \/ ~shutdown /\ ~busy /\ GoOn("epoch")
    /\ UNCHANGED <<passEpoch, sharedVars, ringVars, diskVars, hits, main, uses, boots, late>>

CheckEpoch ==
    /\ pc = "epoch"
    /\ \/ epoch # passEpoch /\ BreakOff
       \/ epoch = passEpoch /\ GoOn("prefetch")
    /\ UNCHANGED <<passEpoch, sharedVars, ringVars, diskVars, hits, main, uses, boots, late>>

\* Mutant: a prefetch that hits does not count against the budget.
SpendOnLoads(taken) == IF taken /\ order[pos] \notin Retained THEN budget - 1 ELSE budget

Spend(taken) == IF taken THEN budget - 1 ELSE budget

\* prefetch of the next entry, demand class; then the trickle's sleep.
Issue ==
    /\ pc = "prefetch"
    /\ \E taken \in BOOLEAN :
         /\ Prefetch(order[pos], taken)
         /\ NextEntry(order, pos + 1, Spend(taken),
                      IF taken THEN lost \ {order[pos]} ELSE lost \cup {order[pos]})
    /\ late' = IF busy \/ epoch # passEpoch THEN late + 1 ELSE late
    /\ UNCHANGED <<passEpoch, sharedVars, diskVars, hits, main, uses, boots>>

Thread ==
    /\ Running
    /\ \/ Top \/ NoNewEpoch \/ BeginPass \/ EndSort
       \/ CheckFlags \/ CheckEpoch \/ Issue

-----------------------------------------------------------------------------
(***************************************************************************)
(* The main thread: requests, their epilogue, the end of input.            *)
(***************************************************************************)
BeginRequest ==
    /\ main = "idle" /\ epoch + boots <= MaxRequests + 1
    /\ busy' = TRUE
    /\ main' = "work"
    /\ late' = 0
    /\ quiet' = FALSE /\ lost' = {} /\ recent' = {}
    /\ UNCHANGED <<threadVars, epoch, shutdown, ringVars, diskVars, warmed, hits, uses, boots>>

\* Decode and prefill prefetch what they need,
Demand ==
    /\ main = "work" /\ uses < MaxUses
    /\ uses' = uses + 1
    /\ \E e \in Expert, taken \in BOOLEAN : Prefetch(e, taken)
    /\ UNCHANGED <<threadVars, sharedVars, diskVars, passHistory, hits, main, boots, late>>

\* claim it when it is there, and count the claim.
Claim ==
    /\ main = "work" /\ uses < MaxUses
    /\ uses' = uses + 1
    /\ \E e \in Retained \ loading :
         /\ Touch(e)
         /\ hits' = [hits EXCEPT ![e] = @ + 1]
    /\ disturbed' = (disturbed \/ pc = "sort")
    /\ UNCHANGED <<pc, passEpoch, lastEpoch, order, pos, budget, sharedVars, diskVars,
                   passHistory, main, boots, late>>

EndRequest ==
    /\ main = "work"
    /\ main' = "save"
    /\ uses' = 0
    /\ UNCHANGED <<threadVars, sharedVars, ringVars, diskVars, passHistory, hits, boots, late>>

\* save_expert_freq, done or cut short: the file could not be opened, or the
\* first k entries reached it.  Nobody looks at how much fwrite wrote.
Saved ==
    \/ UNCHANGED diskVars
    \/ \E k \in 0 .. Experts :
         /\ file' = [kept |-> k, counts |-> hits]
         /\ cut' = (k < Experts)
         /\ counted' = IF k = Experts THEN hits ELSE counted

\* The save, and what follows it: set_busy(false), or the end of the process.
Save ==
    /\ main = "save"
    /\ Saved
    /\ IF shutdown THEN main' = "exited" /\ UNCHANGED busy
                   ELSE main' = "rearm" /\ busy' = FALSE
    /\ UNCHANGED <<threadVars, epoch, shutdown, ringVars, passHistory, hits, uses, boots, late>>

\* Mutant: the request ends without re-arming.
ForgetRearm ==
    /\ main = "rearm"
    /\ main' = "idle"
    /\ UNCHANGED <<threadVars, sharedVars, ringVars, diskVars, passHistory, hits, uses, boots,
                   late>>

Rearm ==
    /\ main = "rearm"
    /\ epoch' = epoch + 1
    /\ main' = "idle"
    /\ late' = 0
    /\ UNCHANGED <<threadVars, busy, shutdown, ringVars, diskVars, passHistory, hits, uses, boots>>

\* End of input: stop() sets the flag and joins; a last save follows.
Stop ==
    /\ main = "idle"
    /\ shutdown' = TRUE
    /\ main' = "join"
    /\ UNCHANGED <<threadVars, busy, epoch, ringVars, diskVars, passHistory, hits, uses, boots,
                   late>>

Join ==
    /\ main = "join"
    /\ pc = "exited"
    /\ main' = "save"
    /\ UNCHANGED <<threadVars, sharedVars, ringVars, diskVars, passHistory, hits, uses, boots,
                   late>>

-----------------------------------------------------------------------------
(***************************************************************************)
(* The process: start, crash, start again.                                 *)
(***************************************************************************)
Init ==
    /\ busy = FALSE /\ epoch = 1 /\ shutdown = FALSE
    /\ hits = NoHits
    /\ pc = "top" /\ passEpoch = 0 /\ lastEpoch = 0
    /\ order = LayerMajor /\ disturbed = FALSE /\ pos = 1 /\ budget = 0
    /\ main = "idle" /\ uses = 0 /\ boots = 1
    /\ ring = <<>> /\ loading = {}
    /\ file = Emptied /\ counted = NoHits /\ cut = FALSE
    /\ late = 0 /\ warmed = 0 /\ quiet = FALSE /\ lost = {} /\ recent = {}

\* A process's memory at its start, the counts aside.
FreshMemory ==
    /\ busy' = FALSE /\ epoch' = 1 /\ shutdown' = FALSE
    /\ pc' = "top" /\ passEpoch' = 0 /\ lastEpoch' = 0
    /\ order' = LayerMajor /\ disturbed' = FALSE /\ pos' = 1 /\ budget' = 0
    /\ ring' = <<>> /\ loading' = {} /\ uses' = 0
    /\ late' = 0 /\ warmed' = 0 /\ quiet' = FALSE /\ lost' = {} /\ recent' = {}

\* A crash or a kill.  A save in progress leaves what reached the file.
Crash ==
    /\ Running
    /\ main' = "down"
    /\ IF main = "save" THEN Saved ELSE UNCHANGED diskVars
    /\ FreshMemory /\ hits' = NoHits
    /\ UNCHANGED boots

Boot ==
    /\ main \in {"down", "exited"}
    /\ boots < MaxBoots
    /\ boots' = boots + 1
    /\ main' = "idle"
    /\ FreshMemory /\ hits' = Loaded(file)
    /\ UNCHANGED diskVars

Request  == Demand \/ Claim \/ EndRequest
Epilogue == Save \/ Rearm \/ Join
Next ==
    \/ Thread
    \/ BeginRequest \/ Request \/ Epilogue \/ Stop
    \/ LoadOk \/ LoadFail
    \/ Crash \/ Boot

Spec == Init /\ [][Next]_vars

\* The thread runs; a request's work and its epilogue end.
FairSpec == Spec /\ WF_vars(Thread) /\ WF_vars(EndRequest) /\ WF_vars(Epilogue)

-----------------------------------------------------------------------------
(***************************************************************************)
(* Properties.                                                             *)
(***************************************************************************)
ThreadLabels == {"top", "idleEpoch", "sort", "flags", "epoch", "prefetch", "exited"}
MainLabels   == {"idle", "work", "save", "rearm", "join", "exited", "down"}

\* The types of every variable; a pass stays within its list and
\* its budget.
TypeOK ==
    /\ busy \in BOOLEAN /\ epoch \in Nat /\ shutdown \in BOOLEAN
    /\ hits \in [Expert -> Nat]
    /\ pc \in ThreadLabels
    /\ passEpoch \in Nat /\ lastEpoch \in Nat
    /\ order \in [Expert -> Expert] /\ disturbed \in BOOLEAN
    /\ pos \in Expert /\ budget \in 0 .. RingSize
    /\ main \in MainLabels
    /\ ring \in Seq(Expert) /\ loading \subseteq Expert
    /\ file \in [kept : 0 .. Experts, counts : [Expert -> Nat]]
    /\ counted \in [Expert -> Nat] /\ cut \in BOOLEAN
    /\ uses \in Nat /\ boots \in Nat /\ late \in Nat /\ warmed \in Nat
    /\ quiet \in BOOLEAN /\ lost \subseteq Expert /\ recent \subseteq Expert

\* The pass under way when a request starts, or when a request's end re-arms
\* the thread, issues one more prefetch at most (main.cpp:514-516: the trickle
\* is paused "so demand reads own the NVMe queue").
AtMostOneLate == late <= 1

\* A prefetch made while the engine is idle, by the pass that the last request
\* armed, follows the popularity that request left: an order sorted while
\* counts changed (engine.cpp:270 against decode.cpp:411) is not used then.
OrderCurrent ==
    pc = "prefetch" /\ passEpoch = epoch /\ main = "idle" => SortedBy(order, hits)

InPass == pc \in {"flags", "epoch", "prefetch"}

\* A pass that has the ring to itself from its beginning to its end never evicts
\* what it has just brought in or touched, whatever it found retained: the hottest
\* experts, down to where the pass stands, are in the ring, but for those the
\* streamer gave up.
HottestWarmed ==
    [][InPass /\ quiet /\ Running' =>
         \A i \in 1 .. pos - 1 : order[i] \in Retained' \cup lost \cup lost']_vars

\* Nor does it evict the headroom (engine.cpp:274-280): of the experts that were
\* ready when it began, as many as the margin stay, the ones used last.  It says
\* so of passes that begin with no load in flight; `recent` is empty for others.
HeadroomKept == [][InPass /\ quiet /\ Running' => recent \subseteq Retained']_vars

\* What a boot loads is the last histogram saved completely; it is nothing at
\* all when the last save was cut short, since the file is written in place
\* (engine.cpp:226-235), and never a part of it.
HistorySurvives == [][Boot => hits' = IF cut THEN NoHits ELSE counted]_vars

\* An engine left idle is warmed for its newest epoch: a pass broken off by a
\* request is made up for after it, and no re-arming is missed.
WarmsWhenIdle == (main = "idle") ~> (main # "idle" \/ warmed = epoch)
=============================================================================
