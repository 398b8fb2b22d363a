---------------------------- MODULE WarehouseRust ----------------------------
(***************************************************************************)
(* rust/r_lab05_b.rs: the Rust warehouse of task 5 b).  It is built from   *)
(* two of the semaphores of rust/semaphore.rs and a Mutex around the ring  *)
(* buffer, where the C version has a third semaphore.  A truck produces    *)
(* its item, and a worker consumes it, while it holds the mutex.           *)
(*                                                                         *)
(* rust/semaphore.rs takes a spurious return of Condvar::wait for a        *)
(* permit: a truck may then store over an item, and a worker may find      *)
(* none.  The properties say what is left of the warehouse's promises.     *)
(***************************************************************************)
EXTENDS Integers, FiniteSets

CONSTANTS n_producers,    \* 3 in main()
          n_consumers,    \* 2
          BUFFER_LEN,     \* 10
          Items,          \* the items that produce() may return
          Other,          \* Item::Other
          SpawnMayFail,   \* whether thread::spawn may panic
          MaxSpurious     \* bound on the spurious returns of both semaphores

ASSUME SizeAssumption ==
    /\ n_producers \in Nat \ {0}
    /\ n_consumers \in Nat \ {0}
    /\ BUFFER_LEN \in Nat \ {0}
    /\ SpawnMayFail \in BOOLEAN
    /\ MaxSpurious \in Nat

NO_TH     == n_producers + n_consumers
Threads   == 0 .. NO_TH - 1
Producers == 0 .. n_producers - 1
Consumers == n_producers .. NO_TH - 1
Sloths    == 0 .. BUFFER_LEN - 1
Nobody    == NO_TH

\* Sloth::Empty and Sloth::Deleted; Sloth::Taken(item) is the item.
Empty   == "Empty"
Deleted == "Deleted"

ASSUME ItemsAssumption == {Empty, Deleted, Other} \cap Items = {}

VARIABLES
    sloths, producer_idx, consumer_idx,    \* Buffer
    holder,                                \* who has locked the buffer
    full_value, full_owner, full_call, full_strays,       \* sem_full
    empty_value, empty_owner, empty_call, empty_strays,   \* sem_empty
    pc, item,                              \* where each thread is; its item
    main_pc, main_i                        \* where main() is; how many it spawned

sem_full  == <<full_value, full_owner, full_call, full_strays>>
sem_empty == <<empty_value, empty_owner, empty_call, empty_strays>>
sems      == <<sem_full, sem_empty>>
buffer    == <<sloths, producer_idx, consumer_idx>>
main      == <<main_pc, main_i>>
vars      == <<buffer, holder, sems, pc, item, main>>

\* Beyond what the sloths and the threads can make of the values.
ValueBound == BUFFER_LEN + NO_TH + 2 * MaxSpurious

Full == INSTANCE RustSemaphore WITH
    Clients <- Threads, Value0 <- 0, MaxValue <- ValueBound,
    value <- full_value, owner <- full_owner, call <- full_call, strays <- full_strays

Free == INSTANCE RustSemaphore WITH
    Clients <- Threads, Value0 <- BUFFER_LEN, MaxValue <- ValueBound,
    value <- empty_value, owner <- empty_owner, call <- empty_call, strays <- empty_strays

Init ==
    /\ sloths = [s \in Sloths |-> Empty]
    /\ producer_idx = 0 /\ consumer_idx = 0
    /\ holder = Nobody
    /\ Full!new
    /\ Free!new
    /\ pc = [t \in Threads |-> "absent"]
    /\ item = [t \in Threads |-> Other]
    /\ main_pc = "spawn" /\ main_i = 0

-----------------------------------------------------------------------------
(* main() *)

\* thread::spawn panics when it cannot start the thread, which ends main()
\* and with it the program.  Afterwards main() joins threads that never end.
Spawn(t) ==
    /\ main_pc = "spawn" /\ main_i = t
    /\ \/ /\ pc' = [pc EXCEPT ![t] = "begin"]
          /\ main_i' = t + 1
          /\ main_pc' = IF t + 1 = NO_TH THEN "join" ELSE "spawn"
       \/ SpawnMayFail /\ main_pc' = "panicked" /\ UNCHANGED <<pc, main_i>>
    /\ UNCHANGED <<buffer, holder, sems, item>>

Main == \E t \in Threads : Spawn(t)

Goto(t, from, to) ==
    /\ main_pc # "panicked"
    /\ pc[t] = from
    /\ pc' = [pc EXCEPT ![t] = to]

-----------------------------------------------------------------------------
(* Steps common to trucks and workers *)

\* Slip: the buffer is used without its lock.
LockBufferSlip(t, to) ==
    /\ Goto(t, "wait", to)
    /\ full_call[t] = "none" /\ empty_call[t] = "none"
    /\ UNCHANGED <<buffer, holder, sems, item, main>>

\* The first wait() has returned: buffer.lock().
LockBuffer(t, to) ==
    /\ Goto(t, "wait", to)
    /\ full_call[t] = "none" /\ empty_call[t] = "none"
    /\ holder = Nobody
    /\ holder' = t
    /\ UNCHANGED <<buffer, sems, item, main>>

\* Slip: deleted sloths keep their mark.
DisplayedSlip(b) == b

\* Display of Buffer: every sloth shown as '+' becomes empty.
Displayed(b) == [s \in Sloths |-> IF b[s] = Deleted THEN Empty ELSE b[s]]

PrintBuffer(t, from, to) ==
    /\ Goto(t, from, to)
    /\ sloths' = Displayed(sloths)
    /\ UNCHANGED <<producer_idx, consumer_idx, holder, sems, item, main>>

\* The end of the block drops the guard.
UnlockBuffer(t) ==
    /\ Goto(t, "unlock", "post")
    /\ holder' = Nobody
    /\ UNCHANGED <<buffer, sems, item, main>>

\* The loop body ends when post() has returned.
LoopEnd(t) ==
    /\ Goto(t, "posting", "begin")
    /\ full_call[t] = "none" /\ empty_call[t] = "none"
    /\ UNCHANGED <<buffer, holder, sems, item, main>>

NextIdx(i) == (i + 1) % BUFFER_LEN

-----------------------------------------------------------------------------
(* Trucks *)

WaitEmpty(t) ==
    /\ Goto(t, "begin", "wait")
    /\ Free!CallWait(t)
    /\ UNCHANGED <<buffer, holder, sem_full, item, main>>

produce(t) ==
    /\ Goto(t, "produce", "add")
    /\ \E x \in Items : item' = [item EXCEPT ![t] = x]
    /\ UNCHANGED <<buffer, holder, sems, main>>

\* add(): the sloth, then the index.
AddItem(t) ==
    /\ Goto(t, "add", "p_advance")
    /\ sloths' = [sloths EXCEPT ![producer_idx] = item[t]]
    /\ UNCHANGED <<producer_idx, consumer_idx, holder, sems, item, main>>

AdvanceProducer(t) ==
    /\ Goto(t, "p_advance", "p_print")
    /\ producer_idx' = NextIdx(producer_idx)
    /\ UNCHANGED <<sloths, consumer_idx, holder, sems, item, main>>

\* Slip: the truck gives its sloth back as an empty one.
PostFullSlip(t) ==
    /\ Goto(t, "post", "posting")
    /\ Free!CallPost(t)
    /\ UNCHANGED <<buffer, holder, sem_full, item, main>>

PostFull(t) ==
    /\ Goto(t, "post", "posting")
    /\ Full!CallPost(t)
    /\ UNCHANGED <<buffer, holder, sem_empty, item, main>>

truck(t) ==
    \/ WaitEmpty(t)
    \/ LockBuffer(t, "produce")
    \/ produce(t)
    \/ AddItem(t)
    \/ AdvanceProducer(t)
    \/ PrintBuffer(t, "p_print", "unlock")
    \/ UnlockBuffer(t)
    \/ PostFull(t)
    \/ LoopEnd(t)

-----------------------------------------------------------------------------
(* Workers *)

WaitFull(t) ==
    /\ Goto(t, "begin", "wait")
    /\ Full!CallWait(t)
    /\ UNCHANGED <<buffer, holder, sem_empty, item, main>>

\* What a worker gets out of a sloth.
Taken(s) == IF s \in Items THEN s ELSE Other

\* remove(): the item, the sloth, then the index.
RemoveItem(t) ==
    /\ Goto(t, "remove", "delete")
    /\ item' = [item EXCEPT ![t] = Taken(sloths[consumer_idx])]
    /\ UNCHANGED <<buffer, holder, sems, main>>

DeleteItem(t) ==
    /\ Goto(t, "delete", "c_advance")
    /\ sloths' = [sloths EXCEPT ![consumer_idx] = Deleted]
    /\ UNCHANGED <<producer_idx, consumer_idx, holder, sems, item, main>>

AdvanceConsumer(t) ==
    /\ Goto(t, "c_advance", "c_print")
    /\ consumer_idx' = NextIdx(consumer_idx)
    /\ UNCHANGED <<sloths, producer_idx, holder, sems, item, main>>

consume(t) ==
    /\ Goto(t, "consume", "unlock")
    /\ UNCHANGED <<buffer, holder, sems, item, main>>

PostEmpty(t) ==
    /\ Goto(t, "post", "posting")
    /\ Free!CallPost(t)
    /\ UNCHANGED <<buffer, holder, sem_full, item, main>>

worker(t) ==
    \/ WaitFull(t)
    \/ LockBuffer(t, "remove")
    \/ RemoveItem(t)
    \/ DeleteItem(t)
    \/ AdvanceConsumer(t)
    \/ PrintBuffer(t, "c_print", "consume")
    \/ consume(t)
    \/ UnlockBuffer(t)
    \/ PostEmpty(t)
    \/ LoopEnd(t)

-----------------------------------------------------------------------------

\* The steps inside the semaphores.
InFull(t)  == (Full!wait(t) \/ Full!post(t)) /\ UNCHANGED sem_empty
InEmpty(t) == (Free!wait(t) \/ Free!post(t)) /\ UNCHANGED sem_full

InSemaphore(t) ==
    /\ main_pc # "panicked"
    /\ InFull(t) \/ InEmpty(t)
    /\ UNCHANGED <<buffer, holder, pc, item, main>>

\* Condvar::wait of one of the semaphores returns although nobody notified.
SpuriousReturn(t) ==
    /\ main_pc # "panicked"
    /\ full_strays + empty_strays < MaxSpurious
    /\ \/ Full!SpuriousWakeup(t) /\ UNCHANGED sem_empty
       \/ Free!SpuriousWakeup(t) /\ UNCHANGED sem_full
    /\ UNCHANGED <<buffer, holder, pc, item, main>>

Thread(t) ==
    \/ t \in Producers /\ truck(t)
    \/ t \in Consumers /\ worker(t)
    \/ InSemaphore(t)

Terminated == main_pc = "panicked" /\ UNCHANGED vars

Next == Main \/ (\E t \in Threads : Thread(t) \/ SpuriousReturn(t)) \/ Terminated

Spec == Init /\ [][Next]_vars

\* All threads are scheduled.  Neither Mutex nor Condvar promises more; a
\* spurious return is not owed.
FairSpec == Spec /\ WF_vars(Main) /\ \A t \in Threads : WF_vars(Thread(t))

-----------------------------------------------------------------------------
(* Properties *)

\* The indices point into the buffer and no sloth holds Item::Other.
TypeOK ==
    /\ sloths \in [Sloths -> Items \cup {Empty, Deleted}]
    /\ producer_idx \in Sloths /\ consumer_idx \in Sloths
    /\ holder \in Threads \cup {Nobody}
    /\ item \in [Threads -> Items \cup {Other}]

At(S, labels) == {t \in S : pc[t] \in labels}

\* So far every return of Condvar::wait had a notify.
Undisturbed == full_strays = 0 /\ empty_strays = 0

\* A truck never stores over an item that no worker has taken, although the
\* semaphore it waits for may go through a negative value.
NoOverwrite == \A t \in At(Producers, {"produce", "add"}) : sloths[producer_idx] \notin Items

Carrying == {"delete", "c_advance", "c_print", "consume"}

\* A worker never gets Item::Other, the answer of remove() for a sloth that
\* holds nothing.
NoOther == \A t \in At(Consumers, Carrying) : item[t] # Other

\* Each picture has at most one '+', for the sloth the worker drawing it has
\* just emptied.
RecentMark ==
    \A s \in Sloths : sloths[s] = Deleted =>
        \E t \in Consumers :
            \/ pc[t] = "c_advance" /\ s = consumer_idx
            \/ pc[t] = "c_print" /\ NextIdx(s) = consumer_idx

\* The sloths hold what the pictures and the printed names say: a '+' is never an
\* old one, and until a spurious return nothing is stored over an item and no
\* Item::Other is taken.
RingContents ==
    /\ TypeOK /\ RecentMark
    /\ Undisturbed => NoOverwrite /\ NoOther

\* No sloth keeps an item for ever, spurious returns or not: the indices go on
\* around the ring although they may be out of step.
EveryItemLeaves ==
    \A s \in Sloths :
        (sloths[s] \in Items) ~> (main_pc = "panicked" \/ sloths[s] \notin Items)

-----------------------------------------------------------------------------
(* Refinement: add() stores an item by writing its sloth, remove() takes   *)
(* the oldest one by reading it.                                           *)

\* Sloths whose item is stored: all but the one a worker is just emptying.
Stored == {s \in Sloths : sloths[s] \in Items}
          \ {s \in Sloths : s = consumer_idx /\ At(Consumers, {"delete"}) # {}}

Oldest == IF At(Consumers, {"delete", "c_advance"}) # {}
          THEN NextIdx(consumer_idx) ELSE consumer_idx

Queue == [k \in 1 .. Cardinality(Stored) |-> sloths[(Oldest + k - 1) % BUFFER_LEN]]

Busy == At(Producers, {"add"}) \cup At(Consumers, Carrying)

Fifo == INSTANCE BoundedFifo WITH
    Capacity <- BUFFER_LEN, NoItem <- Other, queue <- Queue, hand <- item, busy <- Busy

\* The Rust warehouse keeps the same promise as the one in C, up to the first
\* spurious return of Condvar::wait.
FifoRefinement == Fifo!FifoInit /\ [][Undisturbed' => Fifo!FifoNext]_(Fifo!fifoVars)

=============================================================================
