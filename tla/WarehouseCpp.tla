---------------------------- MODULE WarehouseCpp ----------------------------
(***************************************************************************)
(* Custom::ProducerConsumer::Semaphore of cpp/include/buffer.hh, the C++   *)
(* warehouse that cpp/cc_lab05_b.cc runs.  Differences from the C version: *)
(* a slot has only a state and no item, the threads can be told to stop by *)
(* SIGINT, and the destructor joins them.                                  *)
(*                                                                         *)
(* The one second a thread sleeps inside the lock is left out: it only     *)
(* makes the steps around it far apart.                                    *)
(***************************************************************************)
EXTENDS Integers, FiniteSets, PosixSemaphore

CONSTANTS n_producers, n_consumers, BUFFER_LEN,
          ThreadMayThrow    \* whether std::thread() may fail

ASSUME SizeAssumption ==
    /\ n_producers \in Nat \ {0}
    /\ n_consumers \in Nat \ {0}
    /\ BUFFER_LEN \in Nat \ {0}
    /\ ThreadMayThrow \in BOOLEAN

N_THREADS == n_producers + n_consumers
Threads   == 0 .. N_THREADS - 1
Producers == 0 .. n_producers - 1
Consumers == n_producers .. N_THREADS - 1
Slots     == 0 .. BUFFER_LEN - 1

Slot == {"EMPTY", "TAKEN", "RECENTLY"}

VARIABLES
    cont,                        \* [Slots -> Slot]
    producer_idx, consumer_idx,
    sem_full, sem_empty, sem_lock,
    running,                     \* cleared by the SIGINT handler
    pc,                          \* where each thread is
    main_pc, main_i,             \* where main() is; index into threads
    stock                        \* auxiliary: slots stored and not yet taken

sems == <<sem_full, sem_empty, sem_lock>>
ring == <<cont, producer_idx, consumer_idx, stock>>
main == <<main_pc, main_i>>
vars == <<ring, sems, running, pc, main>>

\* The constructor.
Init ==
    /\ cont = [s \in Slots |-> "EMPTY"]
    /\ producer_idx = 0
    /\ consumer_idx = 0
    /\ rk_sema_init(sem_full, 0)
    /\ rk_sema_init(sem_empty, BUFFER_LEN)
    /\ rk_sema_init(sem_lock, 1)
    /\ running = TRUE
    /\ pc = [t \in Threads |-> "absent"]
    /\ main_pc = "run"
    /\ main_i = 0
    /\ stock = {}

ProcessEnded == main_pc \in {"exited", "aborted"}

\* The handler of SIGINT, on whichever thread the signal interrupts.  A
\* thread blocked in rk_sema_wait goes back to waiting.
handler ==
    /\ ~ProcessEnded
    /\ running
    /\ running' = FALSE
    /\ UNCHANGED <<ring, sems, pc, main>>

-----------------------------------------------------------------------------
(* main(): run() and ~Semaphore() *)

\* The next of the two loops' threads is started; std::thread throws when it
\* cannot, nobody catches the exception and the program is terminated.
RunThread(t) ==
    /\ main_pc = "run"
    /\ main_i = t
    /\ \/ /\ pc' = [pc EXCEPT ![t] = "test"]
          /\ main_i' = (t + 1) % N_THREADS
          /\ main_pc' = IF t + 1 < N_THREADS THEN "run" ELSE "join"
       \/ ThreadMayThrow /\ main_pc' = "aborted" /\ UNCHANGED <<pc, main_i>>
    /\ UNCHANGED <<ring, sems, running>>

wait_threads(t) ==
    /\ main_pc = "join"
    /\ main_i = t
    /\ pc[t] = "done"
    /\ main_i' = t + 1
    /\ UNCHANGED <<ring, sems, running, pc, main_pc>>

\* The semaphores are destroyed and main() returns.
DestroySemaphores ==
    /\ main_pc = "join"
    /\ main_i = N_THREADS
    /\ main_pc' = "exited"
    /\ UNCHANGED <<ring, sems, running, pc, main_i>>

Main == (\E t \in Threads : RunThread(t) \/ wait_threads(t)) \/ DestroySemaphores

-----------------------------------------------------------------------------
(* Steps common to producer() and consumer() *)

Goto(t, from, to) ==
    /\ ~ProcessEnded
    /\ pc[t] = from
    /\ pc' = [pc EXCEPT ![t] = to]

FirstWait(t) == IF t \in Producers THEN "wait_empty" ELSE "wait_full"

\* Slip: the thread does not look at the flag.
TestRunningSlip(t) ==
    /\ Goto(t, "test", FirstWait(t))
    /\ UNCHANGED <<ring, sems, running, main>>

\* while (running)
TestRunning(t) ==
    /\ Goto(t, "test", IF running THEN FirstWait(t) ELSE "done")
    /\ UNCHANGED <<ring, sems, running, main>>

LockStep(t, from, to) ==
    /\ Goto(t, from, to)
    /\ rk_sema_wait(sem_lock)
    /\ UNCHANGED <<ring, sem_full, sem_empty, running, main>>

UnlockStep(t, from, to) ==
    /\ Goto(t, from, to)
    /\ rk_sema_post(sem_lock)
    /\ UNCHANGED <<ring, sem_full, sem_empty, running, main>>

\* std::cout << *this: the symbols of all slots.
PrintStep(t, from, to) ==
    /\ Goto(t, from, to)
    /\ UNCHANGED <<ring, sems, running, main>>

NextIdx(i) == (i + 1) % BUFFER_LEN

-----------------------------------------------------------------------------
(* producer() *)

WaitEmpty(t) ==
    /\ Goto(t, "wait_empty", "p_lock")
    /\ rk_sema_wait(sem_empty)
    /\ UNCHANGED <<ring, sem_full, sem_lock, running, main>>

StoreSlot(t) ==
    /\ Goto(t, "store", "p_print")
    /\ cont' = [cont EXCEPT ![producer_idx] = "TAKEN"]
    /\ stock' = stock \cup {producer_idx}
    /\ UNCHANGED <<producer_idx, consumer_idx, sems, running, main>>

AdvanceProducer(t) ==
    /\ Goto(t, "p_advance", "p_unlock")
    /\ producer_idx' = NextIdx(producer_idx)
    /\ UNCHANGED <<cont, consumer_idx, stock, sems, running, main>>

\* Slip: the truck gives the slot back as an empty one.
PostFullSlip(t) ==
    /\ Goto(t, "post_full", "test")
    /\ rk_sema_post(sem_empty)
    /\ UNCHANGED <<ring, sem_full, sem_lock, running, main>>

PostFull(t) ==
    /\ Goto(t, "post_full", "test")
    /\ rk_sema_post(sem_full)
    /\ UNCHANGED <<ring, sem_empty, sem_lock, running, main>>

producer(t) ==
    \/ TestRunning(t)
    \/ WaitEmpty(t)
    \/ LockStep(t, "p_lock", "store")
    \/ StoreSlot(t)
    \/ PrintStep(t, "p_print", "p_advance")
    \/ AdvanceProducer(t)
    \/ UnlockStep(t, "p_unlock", "post_full")
    \/ PostFull(t)

-----------------------------------------------------------------------------
(* consumer() *)

WaitFull(t) ==
    /\ Goto(t, "wait_full", "c_lock")
    /\ rk_sema_wait(sem_full)
    /\ UNCHANGED <<ring, sem_empty, sem_lock, running, main>>

TakeSlot(t) ==
    /\ Goto(t, "take", "c_advance")
    /\ cont' = [cont EXCEPT ![consumer_idx] = "RECENTLY"]
    /\ stock' = stock \ {consumer_idx}
    /\ UNCHANGED <<producer_idx, consumer_idx, sems, running, main>>

AdvanceConsumer(t) ==
    /\ Goto(t, "c_advance", "c_print")
    /\ consumer_idx' = NextIdx(consumer_idx)
    /\ UNCHANGED <<cont, producer_idx, stock, sems, running, main>>

\* The slot at consumer_idx, which has just been advanced, is shown empty.
ClearSlot(t) ==
    /\ Goto(t, "clear", "c_unlock")
    /\ cont' = [cont EXCEPT ![consumer_idx] = "EMPTY"]
    /\ UNCHANGED <<producer_idx, consumer_idx, stock, sems, running, main>>

\* Slip: the worker gives the slot back to the wrong semaphore.
PostEmptySlip(t) ==
    /\ Goto(t, "post_empty", "test")
    /\ rk_sema_post(sem_full)
    /\ UNCHANGED <<ring, sem_empty, sem_lock, running, main>>

PostEmpty(t) ==
    /\ Goto(t, "post_empty", "test")
    /\ rk_sema_post(sem_empty)
    /\ UNCHANGED <<ring, sem_full, sem_lock, running, main>>

consumer(t) ==
    \/ TestRunning(t)
    \/ WaitFull(t)
    \/ LockStep(t, "c_lock", "take")
    \/ TakeSlot(t)
    \/ AdvanceConsumer(t)
    \/ PrintStep(t, "c_print", "clear")
    \/ ClearSlot(t)
    \/ UnlockStep(t, "c_unlock", "post_empty")
    \/ PostEmpty(t)

-----------------------------------------------------------------------------

Terminated == ProcessEnded /\ UNCHANGED vars

Next ==
    \/ Main
    \/ handler
    \/ \E t \in Producers : producer(t)
    \/ \E t \in Consumers : consumer(t)
    \/ Terminated

Spec == Init /\ [][Next]_vars

\* The threads are scheduled.  Nobody has to press Ctrl-C.
Fairness ==
    /\ WF_vars(Main)
    /\ \A t \in Producers : WF_vars(producer(t))
    /\ \A t \in Consumers : WF_vars(consumer(t))

FairSpec == Spec /\ Fairness

-----------------------------------------------------------------------------
(* Properties *)

\* Both indices point into the buffer and no semaphore leaves its range.
TypeOK ==
    /\ cont \in [Slots -> Slot]
    /\ producer_idx \in Slots /\ consumer_idx \in Slots
    /\ sem_full \in 0..BUFFER_LEN /\ sem_empty \in 0..BUFFER_LEN /\ sem_lock \in 0..1
    /\ running \in BOOLEAN
    /\ main_i \in 0..N_THREADS
    /\ stock \subseteq Slots

Critical == {"store", "p_print", "p_advance", "p_unlock",
             "take", "c_advance", "c_print", "clear", "c_unlock"}

\* At most one thread is between the wait on sem_lock and the post of it.
MutualExclusion ==
    \A t, u \in Threads : pc[t] \in Critical /\ pc[u] \in Critical => t = u

\* A truck only stores into a slot whose last item was taken, and a worker
\* only takes from a slot that was stored.
StoresAndTakesAlternate ==
    /\ \A t \in Producers : pc[t] = "store" => producer_idx \notin stock
    /\ \A t \in Consumers : pc[t] = "take" => consumer_idx \in stock

\* The stored slots are the ones from consumer_idx up to producer_idx: when
\* no thread is inside the lock, their number is the distance of the two
\* indices around the ring (0 and BUFFER_LEN look the same).
StockIsBetweenIndices ==
    (\A t \in Threads : pc[t] \notin Critical) =>
        /\ (producer_idx - consumer_idx) % BUFFER_LEN = Cardinality(stock) % BUFFER_LEN
        /\ \A k \in 0 .. Cardinality(stock) - 1 : (consumer_idx + k) % BUFFER_LEN \in stock

\* ~Semaphore() destroys the semaphores only after all threads have returned.
SemaphoresOutliveThreads ==
    main_pc = "exited" => \A t \in Threads : pc[t] = "done"

\* The ring buffer stays what the three semaphores say it is, with SIGINT and
\* the destructor at any point, for as long as a thread uses them.
RingInv ==
    /\ TypeOK
    /\ MutualExclusion
    /\ StoresAndTakesAlternate
    /\ StockIsBetweenIndices
    /\ SemaphoresOutliveThreads

\* Every thread has returned or waits for a truck or a worker that will not
\* come, and those that wait are all trucks or all workers.
AtRest ==
    \/ main_pc = "aborted"
    \/ /\ \A t \in Threads : pc[t] \in {"done", FirstWait(t)}
       /\ \/ \A t \in Producers : pc[t] = "done"
          \/ \A t \in Consumers : pc[t] = "done"

\* Once SIGINT has been handled, the warehouse comes to rest: no thread is left
\* waiting for the lock, and trucks and workers do not wait for each other.
ComesToRest == [](~running => <>[]AtRest)

\* Until SIGINT, trucks and workers never all wait for each other: items
\* keep leaving the warehouse.
FlowWhileRunning ==
    <>(~running \/ ProcessEnded) \/ []<>(\E t \in Consumers : pc[t] = "post_empty")

\* "shutting down producer consumer": the program ends after SIGINT.
ShutdownCompletes == ~running ~> ProcessEnded

=============================================================================
