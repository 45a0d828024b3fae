---------------------------- MODULE BoundedFifo ----------------------------
(***************************************************************************)
(* What the streamer asks of its request queue: a FIFO of bounded length   *)
(* from which each consumer takes one item at a time.  An item is in the   *)
(* queue, or with the one consumer that took it, until that pop returns.   *)
(***************************************************************************)
EXTENDS Naturals, Sequences

CONSTANTS Items, Consumers, Capacity, NoItem

VARIABLES
    items,      \* the queue's contents, oldest first
    taken       \* what each consumer has taken and not returned yet

fifoVars == <<items, taken>>

Init ==
    /\ items = <<>>
    /\ taken = [c \in Consumers |-> NoItem]

Put(x) ==
    /\ Len(items) < Capacity
    /\ items' = Append(items, x)
    /\ UNCHANGED taken

Take(c) ==
    /\ items # <<>>
    /\ taken[c] = NoItem
    /\ taken' = [taken EXCEPT ![c] = Head(items)]
    /\ items' = Tail(items)

Deliver(c) ==
    /\ taken[c] # NoItem
    /\ taken' = [taken EXCEPT ![c] = NoItem]
    /\ UNCHANGED items

Next ==
    \/ \E x \in Items : Put(x)
    \/ \E c \in Consumers : Take(c) \/ Deliver(c)

Spec == Init /\ [][Next]_fifoVars
=============================================================================
