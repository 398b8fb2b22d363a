------------------------------ MODULE Warehouse ------------------------------
(***************************************************************************)
(* c/c_lab05_b.c: the warehouse of task 5 b).  Trucks (producers) and      *)
(* workers (consumers) are threads of one process that share a ring buffer *)
(* guarded by three semaphores.  The main thread creates them, then joins  *)
(* them.                                                                   *)
(*                                                                         *)
(* Every access to shared memory and every semaphore operation is a step   *)
(* of its own, so that mutual exclusion is a property of the semaphores    *)
(* and not of the model.  print_buffer is one step: it only runs between   *)
(* rk_sema_wait(&sem_lock) and rk_sema_post(&sem_lock), next to accesses   *)
(* that are separate steps.                                                *)
(***************************************************************************)
EXTENDS Integers, FiniteSets, PosixSemaphore

CONSTANTS n_producers,    \* trucks: 3 in main()
          n_consumers,    \* workers: 2 in main()
          BUFFER_LEN,     \* slots of the ring buffer: 10
          Items,          \* the items the trucks may bring
          CreateMayFail   \* whether pthread_create may run out of resources

ASSUME SizeAssumption ==
    /\ n_producers \in Nat \ {0}
    /\ n_consumers \in Nat \ {0}
    /\ BUFFER_LEN \in Nat \ {0}

\* produce() returns rand() % 9 + 1.
ASSUME ItemsAssumption == Items \subseteq 1..9

ASSUME CreateAssumption == CreateMayFail \in BOOLEAN

NO_TH     == n_producers + n_consumers
Threads   == 0 .. NO_TH - 1
Producers == 0 .. n_producers - 1
Consumers == n_producers .. NO_TH - 1
Slots     == 0 .. BUFFER_LEN - 1

\* The values a slot holds when it holds no item.
EmptySlot    == 0
RecentlyLeft == -1

VARIABLES
    buffer,              \* [Slots -> items, EmptySlot, RecentlyLeft]
    producer_idx_buff,   \* where the next truck stores
    consumer_idx_buff,   \* where the next worker takes from
    sem_full, sem_empty, sem_lock,
    thread_no,           \* main's array of thread arguments
    main_pc, main_i,     \* where main() is, and the index of its loop
    pc,                  \* where each thread is
    id,                  \* producer_id or consumer_id of each thread
    item                 \* the local variable item of each thread

sems == <<sem_full, sem_empty, sem_lock>>
ring == <<buffer, producer_idx_buff, consumer_idx_buff>>
main == <<thread_no, main_pc, main_i>>
vars == <<ring, sems, main, pc, id, item>>

ProducerPCs == {"produce", "wait_empty", "p_lock", "store", "p_advance",
                "p_print", "p_unlock", "post_full"}
ConsumerPCs == {"wait_full", "c_lock", "fetch", "mark", "c_advance",
                "c_print", "c_unlock", "post_empty", "consume"}
Critical    == {"store", "p_advance", "p_print", "p_unlock",
                "fetch", "mark", "c_advance", "c_print", "c_unlock"}

-----------------------------------------------------------------------------
(* main() *)

init_semaphores ==
    /\ rk_sema_init(sem_full, 0)
    /\ rk_sema_init(sem_empty, BUFFER_LEN)
    /\ rk_sema_init(sem_lock, 1)

\* The state in which main() enters its first loop.  thread_no is an
\* uninitialized array; -1 stands for its contents.
Init ==
    /\ buffer = [s \in Slots |-> EmptySlot]
    /\ producer_idx_buff = 0
    /\ consumer_idx_buff = 0
    /\ init_semaphores
    /\ thread_no = [i \in Threads |-> -1]
    /\ main_pc = "create"
    /\ main_i = 0
    /\ pc = [t \in Threads |-> "absent"]
    /\ id = [t \in Threads |-> 0]
    /\ item = [t \in Threads |-> 0]

\* The element of thread_no whose address thread t is given: both loops of
\* main() count from 0, so trucks and workers share elements.
Arg(t) == IF t \in Producers THEN t ELSE t - n_producers

\* Slip: workers are numbered after the trucks in the shared elements.
ArgValueSlip(t) == t

\* What main() stores in that element before it creates thread t.
ArgValue(t) == Arg(t)

\* pthread_create either starts the thread or returns a positive error
\* number.  main() compares the result with -1, which is never returned, so
\* a failure is not noticed and the loop goes on.
CreateThread(t) ==
    /\ main_pc = "create"
    /\ main_i = t
    /\ thread_no' = [thread_no EXCEPT ![Arg(t)] = ArgValue(t)]
    /\ \/ pc' = [pc EXCEPT ![t] = "start"]
       \/ CreateMayFail /\ UNCHANGED pc
    /\ main_i' = IF t + 1 < NO_TH THEN t + 1 ELSE 0
    /\ main_pc' = IF t + 1 < NO_TH THEN "create" ELSE "join"
    /\ UNCHANGED <<ring, sems, id, item>>

\* wait_threads joins threads[0] to threads[NO_TH - 1].
LastJoined == NO_TH

\* pthread_join on a thread that runs blocks, and trucks and workers never
\* return.  On an element of threads that no pthread_create has filled it is
\* undefined: it returns an error number (not -1, so the loop goes on) or
\* the process dies.
JoinThread(t) ==
    /\ main_pc = "join"
    /\ main_i = t
    /\ t < LastJoined
    /\ pc[t] = "absent"
    /\ \/ main_i' = t + 1 /\ UNCHANGED main_pc
       \/ main_pc' = "crashed" /\ UNCHANGED main_i
    /\ UNCHANGED <<ring, sems, thread_no, pc, id, item>>

\* close_semaphores() and the return from main(), which ends all threads.
close_semaphores ==
    /\ main_pc = "join"
    /\ main_i = LastJoined
    /\ main_pc' = "exited"
    /\ UNCHANGED <<ring, sems, thread_no, main_i, pc, id, item>>

ProcessEnded == main_pc \in {"exited", "crashed"}

-----------------------------------------------------------------------------
(* Steps common to trucks and workers *)

Goto(t, from, to) ==
    /\ ~ProcessEnded
    /\ pc[t] = from
    /\ pc' = [pc EXCEPT ![t] = to]

\* The first statement of producer() and consumer(): the thread reads its
\* number through the pointer it was given.
StartThread(t) ==
    /\ Goto(t, "start", IF t \in Producers THEN "produce" ELSE "wait_full")
    /\ id' = [id EXCEPT ![t] = thread_no[Arg(t)] + 1]
    /\ UNCHANGED <<ring, sems, main, item>>

\* Slip: print_buffer forgets to flag recently left slots as empty.
PrintedSlip(b) == b

\* The buffer after print_buffer: every slot shown as '+' is flagged empty.
Printed(b) == [s \in Slots |-> IF b[s] = RecentlyLeft THEN EmptySlot ELSE b[s]]

print_buffer(t, from, to) ==
    /\ Goto(t, from, to)
    /\ buffer' = Printed(buffer)
    /\ UNCHANGED <<producer_idx_buff, consumer_idx_buff, sems, main, id, item>>

UnlockStep(t, from, to) ==
    /\ Goto(t, from, to)
    /\ rk_sema_post(sem_lock)
    /\ UNCHANGED <<ring, sem_full, sem_empty, main, id, item>>

\* Slip: sem_lock is not waited for.
LockStepSlip(t, from, to) ==
    /\ Goto(t, from, to)
    /\ UNCHANGED <<ring, sems, main, id, item>>

LockStep(t, from, to) ==
    /\ Goto(t, from, to)
    /\ rk_sema_wait(sem_lock)
    /\ UNCHANGED <<ring, sem_full, sem_empty, main, id, item>>

-----------------------------------------------------------------------------
(* producer() *)

produce(t) ==
    /\ Goto(t, "produce", "wait_empty")
    /\ \E x \in Items : item' = [item EXCEPT ![t] = x]
    /\ UNCHANGED <<ring, sems, main, id>>

\* Slip: the truck takes the lock before it has been given a slot.
WaitEmptySlip(t) ==
    /\ Goto(t, "wait_empty", "p_lock")
    /\ UNCHANGED <<ring, sems, main, id, item>>

WaitEmpty(t) ==
    /\ Goto(t, "wait_empty", "p_lock")
    /\ rk_sema_wait(sem_empty)
    /\ UNCHANGED <<ring, sem_full, sem_lock, main, id, item>>

\* add_to_buffer: the store, then the index.
StoreItem(t) ==
    /\ Goto(t, "store", "p_advance")
    /\ buffer' = [buffer EXCEPT ![producer_idx_buff] = item[t]]
    /\ UNCHANGED <<producer_idx_buff, consumer_idx_buff, sems, main, id, item>>

\* Slip: the index wraps one slot late.
NextIdxSlip(i) == (i + 1) % (BUFFER_LEN + 1)

NextIdx(i) == (i + 1) % BUFFER_LEN

AdvanceProducer(t) ==
    /\ Goto(t, "p_advance", "p_print")
    /\ producer_idx_buff' = NextIdx(producer_idx_buff)
    /\ UNCHANGED <<buffer, consumer_idx_buff, sems, main, id, item>>

\* Slip: the truck gives its slot back as an empty one.
PostFullSlip(t) ==
    /\ Goto(t, "post_full", "produce")
    /\ rk_sema_post(sem_empty)
    /\ UNCHANGED <<ring, sem_full, sem_lock, main, id, item>>

PostFull(t) ==
    /\ Goto(t, "post_full", "produce")
    /\ rk_sema_post(sem_full)
    /\ UNCHANGED <<ring, sem_empty, sem_lock, main, id, item>>

producer(t) ==
    \/ produce(t)
    \/ WaitEmpty(t)
    \/ LockStep(t, "p_lock", "store")
    \/ StoreItem(t)
    \/ AdvanceProducer(t)
    \/ print_buffer(t, "p_print", "p_unlock")
    \/ UnlockStep(t, "p_unlock", "post_full")
    \/ PostFull(t)

-----------------------------------------------------------------------------
(* consumer() *)

WaitFull(t) ==
    /\ Goto(t, "wait_full", "c_lock")
    /\ rk_sema_wait(sem_full)
    /\ UNCHANGED <<ring, sem_empty, sem_lock, main, id, item>>

\* remove_from_buffer: the load, the mark, then the index.
FetchItem(t) ==
    /\ Goto(t, "fetch", "mark")
    /\ item' = [item EXCEPT ![t] = buffer[consumer_idx_buff]]
    /\ UNCHANGED <<ring, sems, main, id>>

MarkSlot(t) ==
    /\ Goto(t, "mark", "c_advance")
    /\ buffer' = [buffer EXCEPT ![consumer_idx_buff] = RecentlyLeft]
    /\ UNCHANGED <<producer_idx_buff, consumer_idx_buff, sems, main, id, item>>

AdvanceConsumer(t) ==
    /\ Goto(t, "c_advance", "c_print")
    /\ consumer_idx_buff' = NextIdx(consumer_idx_buff)
    /\ UNCHANGED <<buffer, producer_idx_buff, sems, main, id, item>>

\* Slip: the worker gives the slot back to the wrong semaphore.
PostEmptySlip(t) ==
    /\ Goto(t, "post_empty", "consume")
    /\ rk_sema_post(sem_full)
    /\ UNCHANGED <<ring, sem_empty, sem_lock, main, id, item>>

PostEmpty(t) ==
    /\ Goto(t, "post_empty", "consume")
    /\ rk_sema_post(sem_empty)
    /\ UNCHANGED <<ring, sem_full, sem_lock, main, id, item>>

\* The worker sends the item to the costumer, outside of all semaphores.
consume(t) ==
    /\ Goto(t, "consume", "wait_full")
    /\ UNCHANGED <<ring, sems, main, id, item>>

consumer(t) ==
    \/ WaitFull(t)
    \/ LockStep(t, "c_lock", "fetch")
    \/ FetchItem(t)
    \/ MarkSlot(t)
    \/ AdvanceConsumer(t)
    \/ print_buffer(t, "c_print", "c_unlock")
    \/ UnlockStep(t, "c_unlock", "post_empty")
    \/ PostEmpty(t)
    \/ consume(t)

-----------------------------------------------------------------------------

Main == (\E t \in Threads : CreateThread(t) \/ JoinThread(t)) \/ close_semaphores

Terminated == ProcessEnded /\ UNCHANGED vars

Next ==
    \/ Main
    \/ \E t \in Threads : StartThread(t)
    \/ \E t \in Producers : producer(t)
    \/ \E t \in Consumers : consumer(t)
    \/ Terminated

Spec == Init /\ [][Next]_vars

\* Each thread is scheduled: a step that stays possible is taken.  Nothing
\* stronger is assumed of sem_wait, which has no queue of waiters.
Fairness ==
    /\ WF_vars(Main)
    /\ \A t \in Threads : WF_vars(StartThread(t))
    /\ \A t \in Producers : WF_vars(producer(t))
    /\ \A t \in Consumers : WF_vars(consumer(t))

FairSpec == Spec /\ Fairness

-----------------------------------------------------------------------------
(* Properties *)

\* Trucks are at statements of producer(), workers at statements of consumer().
PcType ==
    /\ pc \in [Threads -> {"absent", "start"} \cup ProducerPCs \cup ConsumerPCs]
    /\ \A t \in Threads : /\ pc[t] \in ProducerPCs => t \in Producers
                         /\ pc[t] \in ConsumerPCs => t \in Consumers

\* Every slot holds an item or one of the two marks, both indices point into
\* the buffer, and no semaphore is negative.
TypeOK ==
    /\ buffer \in [Slots -> Items \cup {EmptySlot, RecentlyLeft}]
    /\ producer_idx_buff \in Slots
    /\ consumer_idx_buff \in Slots
    /\ sem_full \in Nat /\ sem_empty \in Nat /\ sem_lock \in Nat
    /\ thread_no \in [Threads -> Int]
    /\ main_pc \in {"create", "join", "crashed", "exited"}
    /\ main_i \in 0..NO_TH
    /\ PcType
    /\ id \in [Threads -> Int]
    /\ item \in [Threads -> Items \cup {EmptySlot, RecentlyLeft}]

\* At most one truck or worker is between the wait on sem_lock and the post
\* of it, where buffer and its two indices are read and written.
MutualExclusion ==
    \A t, u \in Threads : pc[t] \in Critical /\ pc[u] \in Critical => t = u

At(S, labels) == {t \in S : pc[t] \in labels}

\* Trucks that were given a free slot, and workers that were promised a
\* stored item, and have not yet passed the slot on.
TrucksWithSlot  == At(Producers, {"p_lock", "store", "p_advance", "p_print",
                                  "p_unlock", "post_full"})
WorkersWithSlot == At(Consumers, {"c_lock", "fetch", "mark", "c_advance",
                                  "c_print", "c_unlock", "post_empty"})

\* No slot is lost or invented: each is free, stored, or in the hands of
\* exactly one thread.  (sem_empty and sem_full are never both "too high".)
SlotsConserved ==
    sem_empty + sem_full + Cardinality(TrucksWithSlot)
                         + Cardinality(WorkersWithSlot) = BUFFER_LEN

\* A truck never stores over an item that no worker has taken.
NoOverwrite ==
    \A t \in Producers : pc[t] = "store" => buffer[producer_idx_buff] \notin Items

\* What print_item has a name for; it calls anything else "other".
print_item(x) == x \in 1..9

\* A worker that has taken something has taken an item some truck brought,
\* never the contents of an empty or recently left slot.
NoGhostItem ==
    \A t \in Consumers :
        pc[t] \in {"mark", "c_advance", "c_print", "c_unlock", "post_empty",
                   "consume"} => print_item(item[t])

\* The picture print_buffer draws has a '+' exactly for the slot the worker
\* drawing it has just left: no older '+' survives, and a truck draws none.
RecentMark ==
    \A s \in Slots : buffer[s] = RecentlyLeft =>
        \E t \in Consumers :
            \/ pc[t] = "c_advance" /\ s = consumer_idx_buff
            \/ pc[t] = "c_print" /\ NextIdx(s) = consumer_idx_buff

\* The contents of the ring are what the pictures and the printed names say:
\* nothing is stored over an item, no mark is taken for one, and a '+' is
\* never an old one.
RingContents == NoOverwrite /\ NoGhostItem /\ RecentMark

\* Trucks and workers both count from 1, although main() hands out pointers
\* into one array and rewrites its elements while trucks may still have to
\* read them.
OwnNumber ==
    \A t \in Threads : pc[t] \notin {"absent", "start"} => id[t] = Arg(t) + 1

\* As long as at least one truck and one worker were created, items keep
\* reaching the workers, or the process has died in pthread_join.
Deliveries ==
    ((\E t \in Producers : pc[t] # "absent") /\ (\E t \in Consumers : pc[t] # "absent"))
        ~> (main_pc = "crashed" \/ \E t \in Consumers : pc[t] = "consume")

\* No item stays in the warehouse for ever once there is a worker: whatever
\* slot it was stored in, the workers get to it.
EveryItemLeaves ==
    \A s \in Slots :
        (buffer[s] \in Items /\ \E t \in Consumers : pc[t] # "absent")
            ~> (main_pc = "crashed" \/ buffer[s] \notin Items)

-----------------------------------------------------------------------------
(* Refinement: the warehouse is a bounded first-in first-out store.  An    *)
(* item is stored by the write of its slot and taken by the read of it.    *)

Size == sem_full
        + Cardinality(At(Producers, {"p_advance", "p_print", "p_unlock", "post_full"}))
        + Cardinality(At(Consumers, {"c_lock", "fetch"}))

Oldest == IF At(Consumers, {"mark", "c_advance"}) # {}
          THEN NextIdx(consumer_idx_buff) ELSE consumer_idx_buff

Stored == [k \in 1..Size |-> buffer[(Oldest + k - 1) % BUFFER_LEN]]

Carrying ==
    At(Producers, {"wait_empty", "p_lock", "store"})
    \cup At(Consumers, {"mark", "c_advance", "c_print", "c_unlock", "post_empty",
                        "consume"})

Fifo == INSTANCE BoundedFifo WITH
            Capacity <- BUFFER_LEN, NoItem <- 0,
            queue <- Stored, hand <- item, busy <- Carrying

\* The warehouse never stores more than BUFFER_LEN items, and hands them out
\* in the order in which they were stored, each to one worker.
FifoRefinement == Fifo!FifoSpec

=============================================================================
