----------------------------- MODULE BoundedFifo -----------------------------
(***************************************************************************)
(* What the warehouse of task 5 b) promises: trucks hand their items over  *)
(* one by one to a first-in first-out store of bounded capacity, and each  *)
(* worker takes the oldest stored item.  Nothing is lost, duplicated or    *)
(* overtaken, and no worker comes back with anything but a stored item.    *)
(***************************************************************************)
EXTENDS Naturals, Sequences

CONSTANTS Producers,  \* the trucks
          Consumers,  \* the workers
          Items,      \* what can be stored
          Capacity,   \* number of slots of the store
          NoItem      \* what a hand holds before it first picks something up

VARIABLES queue,      \* the stored items, oldest first
          hand,       \* the item each truck or worker last picked up
          busy        \* trucks with an item to store, workers with one to deliver

fifoVars == <<queue, hand, busy>>

FifoInit ==
    /\ queue = << >>
    /\ busy = {}
    /\ hand = [t \in Producers \cup Consumers |-> NoItem]

\* A truck loads the next item.
Load(p) ==
    /\ p \notin busy
    /\ \E x \in Items : hand' = [hand EXCEPT ![p] = x]
    /\ busy' = busy \cup {p}
    /\ UNCHANGED queue

\* A truck stores its item behind all the others.
Put(p) ==
    /\ p \in busy
    /\ Len(queue) < Capacity
    /\ queue' = Append(queue, hand[p])
    /\ busy' = busy \ {p}
    /\ UNCHANGED hand

\* A worker takes the oldest item.
Get(c) ==
    /\ c \notin busy
    /\ queue # << >>
    /\ hand' = [hand EXCEPT ![c] = Head(queue)]
    /\ queue' = Tail(queue)
    /\ busy' = busy \cup {c}

\* A worker sends its item on.
Deliver(c) ==
    /\ c \in busy
    /\ busy' = busy \ {c}
    /\ UNCHANGED <<queue, hand>>

FifoNext ==
    \/ \E p \in Producers : Load(p) \/ Put(p)
    \/ \E c \in Consumers : Get(c) \/ Deliver(c)

FifoSpec == FifoInit /\ [][FifoNext]_fifoVars

=============================================================================
