----------------------------- MODULE MPMCQueue -----------------------------
(***************************************************************************)
(* MPMCQueue<CAPACITY> of src/src/io/streamer.cpp: the lock-free request   *)
(* queue between the threads that call prefetch and the I/O workers.       *)
(* Streamer.tla uses it as a FIFO with atomic push and pop; this module    *)
(* has the atomic operations that push and pop are made of.                *)
(*                                                                         *)
(* Every step is one operation on shared memory: a load of a cursor, a     *)
(* load of a cell's sequence, a compare_exchange_weak (which may fail for  *)
(* no reason), the copy of the request in or out, the release store.       *)
(* Positions are 64-bit in the code and do not wrap here.                  *)
(***************************************************************************)
EXTENDS Integers, Sequences, FiniteSets

CONSTANTS
    Producers,      \* threads inside push: the callers of prefetch
    Consumers,      \* threads inside pop: the workers
    Items,          \* the requests
    NoItem,         \* the value of a cell never written
    Capacity,       \* CAPACITY
    MaxPos          \* BOUND: no push begins once this many have got a cell

\* The static_assert on CAPACITY also lets 1 through, for which a full cell and
\* the next lap's free one have the same sequence; the code instantiates 1024.
ASSUME CapacityAssumption == Capacity \in Nat \ {0, 1} /\ MaxPos \in Nat
ASSUME ItemAssumption     == NoItem \notin Items
ASSUME SidesAssumption    == Producers \cap Consumers = {}

Threads == Producers \cup Consumers
Cells   == 0 .. Capacity - 1

VARIABLES
    sequence,       \* Cell::sequence
    data,           \* Cell::data
    enqueuePos,     \* enqueue_pos_
    dequeuePos,     \* dequeue_pos_
    pc,             \* each thread: the operation it performs next
    pos,            \* each thread: its local pos
    req             \* each producer: the argument; each consumer: the result

queueVars == <<sequence, data, enqueuePos, dequeuePos>>
vars      == <<queueVars, pc, pos, req>>

-----------------------------------------------------------------------------
CellOf(p) == p % Capacity

Goto(t, label) == pc' = [pc EXCEPT ![t] = label]

Init ==
    /\ sequence = [i \in Cells |-> i]
    /\ data = [i \in Cells |-> NoItem]
    /\ enqueuePos = 0
    /\ dequeuePos = 0
    /\ pc  = [t \in Threads |-> "idle"]
    /\ pos = [t \in Threads |-> 0]
    /\ req = [t \in Threads |-> NoItem]

\* The cursor of a thread's side, and the sequence its cell has once the other
\* side is done with it: pos for a push, pos + 1 for a pop.
Cursor(t)   == IF t \in Producers THEN enqueuePos ELSE dequeuePos
Awaited(t)  == IF t \in Producers THEN pos[t] ELSE pos[t] + 1

-----------------------------------------------------------------------------
\* push(x) is called; its first operation is the load of enqueue_pos_.
BeginPush(t, x) ==
    /\ t \in Producers /\ pc[t] = "idle"
    /\ enqueuePos < MaxPos
    /\ req' = [req EXCEPT ![t] = x]
    /\ pos' = [pos EXCEPT ![t] = enqueuePos]
    /\ Goto(t, "check")
    /\ UNCHANGED queueVars

\* pop() is called; its first operation is the load of dequeue_pos_.
BeginPop(t) ==
    /\ t \in Consumers /\ pc[t] = "idle"
    /\ pos' = [pos EXCEPT ![t] = dequeuePos]
    /\ Goto(t, "check")
    /\ UNCHANGED <<queueVars, req>>

\* The acquire load of the cell's sequence, and what its difference means.
CellReady(t) ==
    /\ pc[t] = "check"
    /\ sequence[CellOf(pos[t])] = Awaited(t)
    /\ Goto(t, "cas")
    /\ UNCHANGED <<queueVars, pos, req>>

\* Full (push) or empty (pop): the call returns false.
CellBehind(t) ==
    /\ pc[t] = "check"
    /\ sequence[CellOf(pos[t])] < Awaited(t)
    /\ Goto(t, "idle")
    /\ req' = [req EXCEPT ![t] = NoItem]
    /\ UNCHANGED <<queueVars, pos>>

\* Mutant: a stale position is taken for a full or an empty queue.
CellAheadFails(t) ==
    /\ pc[t] = "check"
    /\ sequence[CellOf(pos[t])] > Awaited(t)
    /\ Goto(t, "idle")
    /\ req' = [req EXCEPT ![t] = NoItem]
    /\ UNCHANGED <<queueVars, pos>>

\* Another thread of this side has passed: reload the cursor.
CellAhead(t) ==
    /\ pc[t] = "check"
    /\ sequence[CellOf(pos[t])] > Awaited(t)
    /\ pos' = [pos EXCEPT ![t] = Cursor(t)]
    /\ UNCHANGED <<queueVars, pc, req>>

\* compare_exchange_weak fails: pos holds the cursor's value.
CasFails(t) ==
    /\ pc[t] = "cas"
    /\ pos' = [pos EXCEPT ![t] = Cursor(t)]
    /\ Goto(t, "check")
    /\ UNCHANGED <<queueVars, req>>

\* Mutant: the cursor is stored, not compared and exchanged.
PushStore(t) ==
    /\ t \in Producers /\ pc[t] = "cas"
    /\ enqueuePos' = pos[t] + 1
    /\ Goto(t, "copy")
    /\ UNCHANGED <<sequence, data, dequeuePos, pos, req>>

PushCas(t) ==
    /\ t \in Producers /\ pc[t] = "cas"
    /\ enqueuePos = pos[t]
    /\ enqueuePos' = enqueuePos + 1
    /\ Goto(t, "copy")
    /\ UNCHANGED <<sequence, data, dequeuePos, pos, req>>

\* Mutant: the cell is handed back to the producers before it is copied out.
PopCasFrees(t) ==
    /\ t \in Consumers /\ pc[t] = "cas"
    /\ dequeuePos = pos[t]
    /\ dequeuePos' = dequeuePos + 1
    /\ sequence' = [sequence EXCEPT ![CellOf(pos[t])] = pos[t] + Capacity]
    /\ Goto(t, "copy")
    /\ UNCHANGED <<data, enqueuePos, pos, req>>

PopCas(t) ==
    /\ t \in Consumers /\ pc[t] = "cas"
    /\ dequeuePos = pos[t]
    /\ dequeuePos' = dequeuePos + 1
    /\ Goto(t, "copy")
    /\ UNCHANGED <<sequence, data, enqueuePos, pos, req>>

\* cell->data = req, not atomic.
CopyIn(t) ==
    /\ t \in Producers /\ pc[t] = "copy"
    /\ data' = [data EXCEPT ![CellOf(pos[t])] = req[t]]
    /\ Goto(t, "publish")
    /\ UNCHANGED <<sequence, enqueuePos, dequeuePos, pos, req>>

\* req = cell->data, not atomic.
CopyOut(t) ==
    /\ t \in Consumers /\ pc[t] = "copy"
    /\ req' = [req EXCEPT ![t] = data[CellOf(pos[t])]]
    /\ Goto(t, "publish")
    /\ UNCHANGED <<queueVars, pos>>

\* The release store that hands the cell to the consumers; push returns true.
PublishFull(t) ==
    /\ t \in Producers /\ pc[t] = "publish"
    /\ sequence' = [sequence EXCEPT ![CellOf(pos[t])] = pos[t] + 1]
    /\ req' = [req EXCEPT ![t] = NoItem]
    /\ Goto(t, "idle")
    /\ UNCHANGED <<data, enqueuePos, dequeuePos, pos>>

\* The release store that hands the cell to the next lap's producer; pop
\* returns true.
PublishFree(t) ==
    /\ t \in Consumers /\ pc[t] = "publish"
    /\ sequence' = [sequence EXCEPT ![CellOf(pos[t])] = pos[t] + Capacity]
    /\ req' = [req EXCEPT ![t] = NoItem]
    /\ Goto(t, "idle")
    /\ UNCHANGED <<data, enqueuePos, dequeuePos, pos>>

-----------------------------------------------------------------------------
Step(t) ==
    \/ CellReady(t) \/ CellBehind(t) \/ CellAhead(t)
    \/ CasFails(t) \/ PushCas(t) \/ PopCas(t)
    \/ CopyIn(t) \/ CopyOut(t) \/ PublishFull(t) \/ PublishFree(t)

Next ==
    \E t \in Threads :
        \/ \E x \in Items : BeginPush(t, x)
        \/ BeginPop(t)
        \/ Step(t)

Spec == Init /\ [][Next]_vars

-----------------------------------------------------------------------------
(***************************************************************************)
(* Properties.                                                             *)
(***************************************************************************)
\* The types of every variable.
TypeOK ==
    /\ sequence \in [Cells -> Nat]
    /\ data \in [Cells -> Items \cup {NoItem}]
    /\ enqueuePos \in Nat
    /\ dequeuePos \in Nat
    /\ pc  \in [Threads -> {"idle", "check", "cas", "copy", "publish"}]
    /\ pos \in [Threads -> Nat]
    /\ req \in [Threads -> Items \cup {NoItem}]

\* A thread that won a cell and has not published it.
InCell(t) == pc[t] \in {"copy", "publish"}

\* cell->data is not atomic: the thread that won a cell is alone in it until
\* its release store, whichever side it is on.
CellExclusive ==
    \A t, u \in Threads :
        t # u /\ InCell(t) /\ InCell(u) => CellOf(pos[t]) # CellOf(pos[u])

\* A call that returns false: it goes back to idle from the check.
Fails(t) == pc[t] = "check" /\ pc'[t] = "idle"

\* push returns false only when the queue is full or a pop is half done, and
\* pop only when it is empty or a push is half done: back-pressure and "no
\* work" are never reported by a thread that merely lost a race.
FailsHonestly ==
    [][\A t \in Threads :
         Fails(t) =>
            IF t \in Producers
            THEN enqueuePos - dequeuePos = Capacity \/ \E c \in Consumers : InCell(c)
            ELSE enqueuePos = dequeuePos \/ \E p \in Producers : InCell(p)]_vars

(***************************************************************************)
(* What the cells hold, as a queue.  An item joins the queue when its push *)
(* wins a cell and leaves it when a pop does: between the win and the copy *)
(* the item is still with the producer.                                    *)
(***************************************************************************)
ItemAt(p) ==
    IF \E t \in Producers : pc[t] = "copy" /\ pos[t] = p
    THEN req[CHOOSE t \in Producers : pc[t] = "copy" /\ pos[t] = p]
    ELSE data[CellOf(p)]

Queued == [i \in 1 .. enqueuePos - dequeuePos |-> ItemAt(dequeuePos + i - 1)]

\* What each consumer has in hand: still in its cell, or copied out of it.
Taken == [c \in Consumers |-> CASE pc[c] = "copy"    -> data[CellOf(pos[c])]
                                [] pc[c] = "publish" -> req[c]
                                [] OTHER             -> NoItem]

Fifo == INSTANCE BoundedFifo WITH items <- Queued, taken <- Taken

\* The queue implements BoundedFifo: requests come out once each, in the order
\* in which their pushes won a cell.
ImplementsFifo == Fifo!Spec
=============================================================================
