-------------------------- MODULE WarehouseCppProofs --------------------------
(***************************************************************************)
(* Theorems about Custom::ProducerConsumer::Semaphore of                   *)
(* cpp/include/buffer.hh, for any number of trucks and workers and any     *)
(* length of the ring buffer, with SIGINT at any moment.                   *)
(***************************************************************************)
EXTENDS WarehouseCpp, FiniteSetTheorems, TLAPS

USE SizeAssumption

-----------------------------------------------------------------------------
(* Indices and threads *)

\* Where index i, at most one turn beyond the end of the ring, is in it.
Wrap(i) == IF i < BUFFER_LEN THEN i ELSE i - BUFFER_LEN

\* How many slots s is ahead of slot o.
Ahead(o, s) == IF s >= o THEN s - o ELSE s - o + BUFFER_LEN

\* Remainders of anything in the first two turns of the ring, and of the
\* difference of two indices.
LEMMA ModIsWrap ==
    /\ \A i \in 0 .. 2 * BUFFER_LEN - 1 : i % BUFFER_LEN = Wrap(i)
    /\ \A i \in 0 .. BUFFER_LEN - 1 : (i - BUFFER_LEN) % BUFFER_LEN = i
  <1>1. ASSUME NEW i \in 0 .. 2 * BUFFER_LEN - 1 PROVE i % BUFFER_LEN = Wrap(i)
    <2>1. CASE i < BUFFER_LEN
      BY <2>1 DEF Wrap
    <2>2. CASE i >= BUFFER_LEN
      <3>1. (i - BUFFER_LEN) % BUFFER_LEN = i - BUFFER_LEN
        BY <2>2
      <3>2. i % BUFFER_LEN = (i - BUFFER_LEN) % BUFFER_LEN
        BY <2>2
      <3>3. QED
        BY <2>2, <3>1, <3>2 DEF Wrap
    <2>3. QED
      BY <2>1, <2>2
  <1>2. ASSUME NEW i \in 0 .. BUFFER_LEN - 1 PROVE (i - BUFFER_LEN) % BUFFER_LEN = i
    <2>1. i % BUFFER_LEN = i
      BY <1>1 DEF Wrap
    <2>2. (i - BUFFER_LEN) % BUFFER_LEN = i % BUFFER_LEN
      OBVIOUS
    <2>3. QED
      BY <2>1, <2>2
  <1>3. QED
    BY <1>1, <1>2

\* The two indices move one slot on, and from the last slot to the first.
LEMMA NextIdxIsWrap == \A i \in Slots : NextIdx(i) = Wrap(i + 1) /\ NextIdx(i) \in Slots
  <1> SUFFICES ASSUME NEW i \in Slots PROVE NextIdx(i) = Wrap(i + 1) /\ NextIdx(i) \in Slots
    OBVIOUS
  <1>1. NextIdx(i) = Wrap(i + 1)
    BY ModIsWrap DEF Slots, NextIdx
  <1>2. QED
    BY <1>1 DEF Wrap, Slots

\* run()'s index into threads goes back to 0 after the last thread.
LEMMA ThreadIndex ==
    \A t \in Threads : (t + 1) % N_THREADS = IF t + 1 < N_THREADS THEN t + 1 ELSE 0
  BY DEF Threads, N_THREADS

\* Trucks and workers are disjoint sets of threads, and finite.
LEMMA ThreadSets ==
    /\ Threads = Producers \cup Consumers
    /\ Producers \cap Consumers = {}
    /\ IsFiniteSet(Threads)
  <1>1. /\ Threads = Producers \cup Consumers
        /\ Producers \cap Consumers = {}
    BY DEF Threads, Producers, Consumers, N_THREADS
  <1>2. IsFiniteSet(Threads)
    BY FS_Interval DEF Threads, N_THREADS
  <1>3. QED
    BY <1>1, <1>2

-----------------------------------------------------------------------------
(* The inductive invariant *)

TruckLabels   == {"p_lock", "store", "p_print", "p_advance", "p_unlock", "post_full"}
WorkerLabels  == {"c_lock", "take", "c_advance", "c_print", "clear", "c_unlock",
                  "post_empty"}
ProducerPCs   == TruckLabels \cup {"wait_empty"}
ConsumerPCs   == WorkerLabels \cup {"wait_full"}
PCs           == {"absent", "test", "done"} \cup ProducerPCs \cup ConsumerPCs

\* Trucks that have filled their slot and workers that have been promised one.
StoredLabels   == {"p_print", "p_advance", "p_unlock", "post_full"}
PromisedLabels == {"c_lock", "take"}

At(S, labels) == {t \in S : pc[t] \in labels}
Count(S, labels) == Cardinality(At(S, labels))

Types ==
    /\ cont \in [Slots -> Slot]
    /\ producer_idx \in Slots /\ consumer_idx \in Slots
    /\ sem_full \in Nat /\ sem_empty \in Nat
    /\ running \in BOOLEAN
    /\ pc \in [Threads -> PCs]
    /\ \A t \in Threads : /\ pc[t] \in ProducerPCs => t \in Producers
                          /\ pc[t] \in ConsumerPCs => t \in Consumers
    /\ main_i \in 0 .. N_THREADS
    /\ stock \subseteq Slots

\* Threads that run() has still to start do not exist, and the ones
\* wait_threads() has joined are gone.
Joined ==
    /\ main_pc = "run" => \A u \in Threads : u >= main_i => pc[u] = "absent"
    /\ main_pc = "join" => \A u \in Threads : u < main_i => pc[u] = "done"
    /\ SemaphoresOutliveThreads

\* sem_lock has no permit while somebody is inside.
Locked ==
    /\ sem_lock \in 0 .. 1
    /\ sem_lock = 1 => \A t \in Threads : pc[t] \notin Critical
    /\ MutualExclusion

\* Every slot is free, stored or in the hands of one thread, and the stock
\* is what sem_full and the threads know of.
Counted ==
    /\ sem_empty + sem_full + Count(Producers, TruckLabels)
                            + Count(Consumers, WorkerLabels) = BUFFER_LEN
    /\ Cardinality(stock) = sem_full + Count(Producers, StoredLabels)
                                     + Count(Consumers, PromisedLabels)

\* Where the next slot is stored and the next one taken.
NextFree == IF At(Producers, {"p_print", "p_advance"}) # {}
            THEN NextIdx(producer_idx) ELSE producer_idx
Oldest   == IF At(Consumers, {"c_advance"}) # {}
            THEN NextIdx(consumer_idx) ELSE consumer_idx

\* The stock is the Cardinality(stock) slots from Oldest on.
InOrder ==
    /\ NextFree = Wrap(Oldest + Cardinality(stock))
    /\ \A s \in Slots : s \in stock <=> Ahead(Oldest, s) < Cardinality(stock)

Inv == Types /\ Joined /\ Locked /\ Counted /\ InOrder

-----------------------------------------------------------------------------
(* Counting threads and slots *)

\* The threads at any set of statements, and the stock, can be counted.
LEMMA Countable ==
    /\ \A S, L : S \subseteq Threads => IsFiniteSet(At(S, L)) /\ Count(S, L) \in Nat
    /\ stock \subseteq Slots => IsFiniteSet(stock) /\ Cardinality(stock) \in Nat
  <1>1. ASSUME NEW S, NEW L, S \subseteq Threads
        PROVE  IsFiniteSet(At(S, L)) /\ Count(S, L) \in Nat
    <2>1. At(S, L) \in SUBSET Threads
      BY <1>1 DEF At
    <2>2. QED
      BY <2>1, ThreadSets, FS_Subset, FS_CardinalityType DEF Count
  <1>2. ASSUME stock \subseteq Slots
        PROVE  IsFiniteSet(stock) /\ Cardinality(stock) \in Nat
    <2>1. IsFiniteSet(Slots)
      BY FS_Interval DEF Slots
    <2>2. QED
      BY <1>2, <2>1, FS_Subset, FS_CardinalityType
  <1>3. QED
    BY <1>1, <1>2

\* Thread t goes to a statement and the others stay where they are.
Moves(t, to) == pc' = [pc EXCEPT ![t] = to]

\* How many threads of a role are at some statements changes by the one that
\* moves.
LEMMA MoveCount ==
    ASSUME pc \in [Threads -> PCs], NEW t \in Threads, NEW to,
           Moves(t, to), NEW S, S \subseteq Threads, NEW L
    PROVE  Count(S, L)' = Count(S, L) + (IF t \in S /\ to \in L THEN 1 ELSE 0)
                                      - (IF t \in S /\ pc[t] \in L THEN 1 ELSE 0)
  <1>1. IsFiniteSet(At(S, L)) /\ Cardinality(At(S, L)) \in Nat
    BY Countable DEF Count
  <1>2. /\ t \in At(S, L) <=> t \in S /\ pc[t] \in L
        /\ At(S, L)' = IF t \in S /\ to \in L THEN At(S, L) \cup {t} ELSE At(S, L) \ {t}
    BY DEF At, Moves
  <1>3. Cardinality(At(S, L) \cup {t}) =
          IF t \in At(S, L) THEN Cardinality(At(S, L)) ELSE Cardinality(At(S, L)) + 1
    BY <1>1, FS_AddElement
  <1>4. Cardinality(At(S, L) \ {t}) =
          IF t \in At(S, L) THEN Cardinality(At(S, L)) - 1 ELSE Cardinality(At(S, L))
    BY <1>1, FS_RemoveElement
  <1>5. CASE t \in S /\ to \in L
    BY <1>1, <1>2, <1>3, <1>5 DEF Count
  <1>6. CASE ~(t \in S /\ to \in L)
    BY <1>1, <1>2, <1>4, <1>6 DEF Count
  <1>7. QED
    BY <1>5, <1>6

\* The stock never exceeds the buffer; it is smaller when a truck has a slot
\* it has not filled or a worker one it has emptied, and not empty when a
\* worker has been promised a slot.
LEMMA StockBound ==
    ASSUME Types, Counted
    PROVE  /\ Cardinality(stock) \in 0 .. BUFFER_LEN
           /\ sem_full \in 0 .. BUFFER_LEN /\ sem_empty \in 0 .. BUFFER_LEN
           /\ \A t \in Producers : pc[t] \in {"p_lock", "store"} =>
                Cardinality(stock) < BUFFER_LEN
           /\ \A t \in Consumers : pc[t] \in {"c_lock", "take"} =>
                Cardinality(stock) >= 1
  <1>0. /\ Producers \subseteq Threads /\ Consumers \subseteq Threads
        /\ sem_full \in Nat /\ sem_empty \in Nat
    BY ThreadSets DEF Types
  <1> DEFINE T == At(Producers, TruckLabels)
             W == At(Consumers, WorkerLabels)
             P == At(Producers, StoredLabels)
             C == At(Consumers, PromisedLabels)
  <1>1. /\ IsFiniteSet(T) /\ Cardinality(T) \in Nat
        /\ IsFiniteSet(W) /\ Cardinality(W) \in Nat
        /\ IsFiniteSet(C) /\ Cardinality(C) \in Nat /\ Cardinality(P) \in Nat
    BY <1>0, Countable DEF Count
  <1>2. P \in SUBSET T /\ C \in SUBSET W
    BY DEF At, TruckLabels, WorkerLabels, StoredLabels, PromisedLabels
  <1>3. /\ Cardinality(P) <= Cardinality(T) /\ (Cardinality(P) = Cardinality(T) => P = T)
        /\ Cardinality(C) <= Cardinality(W)
    BY <1>1, <1>2, FS_Subset
  <1>4. /\ sem_empty + sem_full + Cardinality(T) + Cardinality(W) = BUFFER_LEN
        /\ Cardinality(stock) = sem_full + Cardinality(P) + Cardinality(C)
    BY DEF Counted, Count
  <1> HIDE DEF T, W, P, C
  <1>5. /\ Cardinality(stock) \in 0 .. BUFFER_LEN
        /\ sem_full \in 0 .. BUFFER_LEN /\ sem_empty \in 0 .. BUFFER_LEN
    BY <1>0, <1>1, <1>3, <1>4
  <1>6. ASSUME NEW t \in Producers, pc[t] \in {"p_lock", "store"}
        PROVE  Cardinality(stock) < BUFFER_LEN
    <2>1. P # T
      BY <1>6 DEF P, T, At, TruckLabels, StoredLabels
    <2>2. QED
      BY <1>0, <1>1, <1>3, <1>4, <2>1
  <1>7. ASSUME NEW t \in Consumers, pc[t] \in {"c_lock", "take"}
        PROVE  Cardinality(stock) >= 1
    <2>1. C # {}
      BY <1>7 DEF C, At, PromisedLabels
    <2>2. Cardinality(C) # 0
      BY <1>1, <2>1, FS_EmptySet
    <2>3. QED
      BY <1>0, <1>1, <1>4, <2>2
  <1>8. QED
    BY <1>5, <1>6, <1>7

\* The constructor establishes the invariant.
LEMMA InvInit == Init => Inv
  <1> SUFFICES ASSUME Init PROVE Inv
    OBVIOUS
  <1>1. /\ At(Producers, TruckLabels) = {} /\ At(Consumers, WorkerLabels) = {}
        /\ At(Producers, StoredLabels) = {} /\ At(Consumers, PromisedLabels) = {}
        /\ At(Producers, {"p_print", "p_advance"}) = {} /\ At(Consumers, {"c_advance"}) = {}
    BY ThreadSets DEF Init, At, TruckLabels, WorkerLabels, StoredLabels, PromisedLabels
  <1>2. Counted
    BY <1>1, FS_EmptySet DEF Init, rk_sema_init, Counted, Count
  <1>3. Types
    BY DEF Init, rk_sema_init, Types, Slot, Slots, PCs, ProducerPCs, ConsumerPCs,
         TruckLabels, WorkerLabels, N_THREADS
  <1>4. Joined /\ Locked
    BY DEF Init, rk_sema_init, Joined, SemaphoresOutliveThreads, Locked,
         MutualExclusion, Critical
  <1>5. Cardinality(stock) = 0
    BY FS_EmptySet DEF Init
  <1>6. InOrder
    BY <1>1, <1>5 DEF Init, InOrder, NextFree, Oldest, Wrap, Ahead, Slots
  <1>7. QED
    BY <1>2, <1>3, <1>4, <1>6 DEF Inv

-----------------------------------------------------------------------------
(* What the invariant says of the ring *)

\* When nobody is between a slot and its index, the two ends are the indices.
LEMMA EndsAreIndices ==
    /\ (\A t \in Threads : pc[t] \notin {"p_print", "p_advance"}) => NextFree = producer_idx
    /\ (\A t \in Threads : pc[t] # "c_advance") => Oldest = consumer_idx
  BY ThreadSets DEF NextFree, Oldest, At

\* Stores and takes of a slot alternate.
LEMMA Alternate == Inv => StoresAndTakesAlternate
  <1> SUFFICES ASSUME Inv PROVE StoresAndTakesAlternate
    OBVIOUS
  <1>0. /\ Types /\ Counted /\ InOrder /\ MutualExclusion
        /\ producer_idx \in Slots /\ consumer_idx \in Slots
    BY DEF Inv, Types, Locked
  <1>1. ASSUME NEW t \in Threads, pc[t] \in {"store", "take"}
        PROVE  NextFree = producer_idx /\ Oldest = consumer_idx
    BY <1>0, <1>1, EndsAreIndices DEF MutualExclusion, Critical
  <1>2. ASSUME NEW t \in Producers, pc[t] = "store" PROVE producer_idx \notin stock
    <2>1. NextFree = producer_idx /\ Oldest = consumer_idx
      BY <1>1, <1>2, ThreadSets
    <2>2. Cardinality(stock) \in 0 .. BUFFER_LEN /\ Cardinality(stock) < BUFFER_LEN
      BY <1>0, <1>2, StockBound
    <2>3. Ahead(consumer_idx, producer_idx) = Cardinality(stock)
      BY <1>0, <2>1, <2>2 DEF InOrder, Ahead, Wrap, Slots
    <2>4. QED
      BY <1>0, <2>1, <2>2, <2>3 DEF InOrder
  <1>3. ASSUME NEW t \in Consumers, pc[t] = "take" PROVE consumer_idx \in stock
    <2>1. NextFree = producer_idx /\ Oldest = consumer_idx
      BY <1>1, <1>3, ThreadSets
    <2>2. Cardinality(stock) \in 0 .. BUFFER_LEN /\ Cardinality(stock) >= 1
      BY <1>0, <1>3, StockBound
    <2>3. Ahead(consumer_idx, consumer_idx) = 0
      BY <1>0 DEF Ahead, Slots
    <2>4. QED
      BY <1>0, <2>1, <2>2, <2>3 DEF InOrder
  <1>4. QED
    BY <1>2, <1>3 DEF StoresAndTakesAlternate

\* The stock lies between the two indices when the lock is free.
LEMMA Between == Inv => StockIsBetweenIndices
  <1> SUFFICES ASSUME Inv, \A t \in Threads : pc[t] \notin Critical
               PROVE  /\ (producer_idx - consumer_idx) % BUFFER_LEN
                           = Cardinality(stock) % BUFFER_LEN
                      /\ \A k \in 0 .. Cardinality(stock) - 1 :
                           (consumer_idx + k) % BUFFER_LEN \in stock
    BY DEF StockIsBetweenIndices
  <1>0. /\ InOrder /\ producer_idx \in Slots /\ consumer_idx \in Slots
        /\ Cardinality(stock) \in 0 .. BUFFER_LEN
    BY StockBound DEF Inv, Types
  <1>1. NextFree = producer_idx /\ Oldest = consumer_idx
    BY EndsAreIndices DEF Critical
  <1>2. producer_idx = Wrap(consumer_idx + Cardinality(stock))
    BY <1>0, <1>1 DEF InOrder
  <1>3. (producer_idx - consumer_idx) % BUFFER_LEN = Cardinality(stock) % BUFFER_LEN
    <2>1. CASE Cardinality(stock) = BUFFER_LEN
      <3>1. producer_idx - consumer_idx = 0
        BY <1>0, <1>2, <2>1 DEF Wrap, Slots
      <3>2. 0 % BUFFER_LEN = 0 /\ BUFFER_LEN % BUFFER_LEN = 0
        BY ModIsWrap DEF Wrap
      <3>3. QED
        BY <2>1, <3>1, <3>2
    <2>2. CASE Cardinality(stock) < BUFFER_LEN /\ consumer_idx + Cardinality(stock) < BUFFER_LEN
      BY <1>0, <1>2, <2>2 DEF Wrap, Slots
    <2>3. CASE /\ Cardinality(stock) < BUFFER_LEN
               /\ consumer_idx + Cardinality(stock) >= BUFFER_LEN
      <3>1. producer_idx - consumer_idx = Cardinality(stock) - BUFFER_LEN
        BY <1>0, <1>2, <2>3 DEF Wrap, Slots
      <3>2. Cardinality(stock) \in 0 .. BUFFER_LEN - 1
        BY <1>0, <2>3
      <3>3. /\ (Cardinality(stock) - BUFFER_LEN) % BUFFER_LEN = Cardinality(stock)
            /\ Cardinality(stock) % BUFFER_LEN = Cardinality(stock)
        BY <3>2, ModIsWrap DEF Wrap
      <3>4. QED
        BY <3>1, <3>3
    <2>4. QED
      BY <1>0, <2>1, <2>2, <2>3 DEF Slots
  <1>4. ASSUME NEW k \in 0 .. Cardinality(stock) - 1
        PROVE  (consumer_idx + k) % BUFFER_LEN \in stock
    <2>1. consumer_idx + k \in 0 .. 2 * BUFFER_LEN - 1
      BY <1>0 DEF Slots
    <2>2. (consumer_idx + k) % BUFFER_LEN = Wrap(consumer_idx + k)
      BY <2>1, ModIsWrap
    <2>3. Wrap(consumer_idx + k) \in Slots /\ Ahead(consumer_idx, Wrap(consumer_idx + k)) = k
      BY <1>0 DEF Wrap, Ahead, Slots
    <2>4. QED
      BY <1>0, <1>1, <2>2, <2>3 DEF InOrder
  <1>5. QED
    BY <1>3, <1>4

\* The invariant implies all of RingInv.
LEMMA InvImplies == Inv => RingInv
  <1> SUFFICES ASSUME Inv PROVE RingInv
    OBVIOUS
  <1>1. sem_full \in 0 .. BUFFER_LEN /\ sem_empty \in 0 .. BUFFER_LEN
    BY StockBound DEF Inv
  <1>2. TypeOK
    BY <1>1 DEF Inv, Types, Locked, TypeOK
  <1>3. QED
    BY <1>2, Alternate, Between DEF Inv, Joined, Locked, RingInv

-----------------------------------------------------------------------------
(* Every step keeps the invariant *)

\* The types, and the threads main() starts and joins.
LEMMA TypesStep == Types /\ Joined /\ [Next]_vars => Types' /\ Joined'
  <1> SUFFICES ASSUME Types, Joined, [Next]_vars PROVE Types' /\ Joined'
    OBVIOUS
  <1>0. pc \in [Threads -> PCs]
    BY DEF Types
  \* A thread that exists moves on inside its own function.
  <1>a. ASSUME NEW t \in Threads, NEW to \in PCs, pc' = [pc EXCEPT ![t] = to],
               pc[t] \notin {"absent", "done"}, main_pc # "exited", UNCHANGED main,
               to \in ProducerPCs => t \in Producers,
               to \in ConsumerPCs => t \in Consumers
        PROVE  /\ Joined' /\ pc' \in [Threads -> PCs]
               /\ \A u \in Threads : /\ pc'[u] \in ProducerPCs => u \in Producers
                                     /\ pc'[u] \in ConsumerPCs => u \in Consumers
               /\ main_i' \in 0 .. N_THREADS
    <2>1. \A u \in Threads : pc'[u] = IF u = t THEN to ELSE pc[u]
      BY <1>0, <1>a
    <2>2. Joined'
      BY <1>a, <2>1 DEF Joined, SemaphoresOutliveThreads, main
    <2>3. QED
      BY <1>a, <2>1, <2>2 DEF Types, main
  <1> USE ThreadSets, NextIdxIsWrap DEF ring, sems, Goto
  <1>1. ASSUME NEW t \in Threads, RunThread(t) PROVE Types' /\ Joined'
    <2>1. UNCHANGED <<ring, sems, running>> /\ main_pc = "run" /\ main_i = t
      BY <1>1 DEF RunThread
    <2>2. CASE /\ pc' = [pc EXCEPT ![t] = "test"]
               /\ main_i' = (t + 1) % N_THREADS
               /\ main_pc' = IF t + 1 < N_THREADS THEN "run" ELSE "join"
      <3>1. \A u \in Threads : pc'[u] = IF u = t THEN "test" ELSE pc[u]
        BY <1>0, <2>2
      <3>2. main_i' = IF t + 1 < N_THREADS THEN t + 1 ELSE 0
        BY <2>2, ThreadIndex
      <3>3. Types'
        BY <1>0, <2>1, <2>2, <3>1, <3>2 DEF Types, Threads, N_THREADS, PCs,
             ProducerPCs, ConsumerPCs, TruckLabels, WorkerLabels
      <3>4. Joined'
        BY <2>1, <2>2, <3>1, <3>2 DEF Joined, SemaphoresOutliveThreads, Threads
      <3>5. QED
        BY <3>3, <3>4
    <2>3. CASE main_pc' = "aborted" /\ UNCHANGED <<pc, main_i>>
      BY <2>1, <2>3 DEF Types, Joined, SemaphoresOutliveThreads
    <2>4. QED
      BY <1>1, <2>2, <2>3, Zenon DEF RunThread
  <1>2. ASSUME NEW t \in Threads, wait_threads(t) PROVE Types' /\ Joined'
    <2>1. Types'
      BY <1>2 DEF wait_threads, Types, Threads, N_THREADS
    <2>2. Joined'
      BY <1>2 DEF wait_threads, Joined, SemaphoresOutliveThreads, Threads
    <2>3. QED
      BY <2>1, <2>2
  <1>3. CASE DestroySemaphores
    <2>1. Types'
      BY <1>3 DEF DestroySemaphores, Types
    <2>2. Joined'
      BY <1>3 DEF DestroySemaphores, Joined, SemaphoresOutliveThreads, Threads, N_THREADS
    <2>3. QED
      BY <2>1, <2>2
  <1>4. CASE handler
    BY <1>4 DEF handler, Types, Joined, SemaphoresOutliveThreads, main
  <1>5. ASSUME NEW t \in Producers, producer(t) PROVE Types' /\ Joined'
    <2>1. /\ pc[t] \notin {"absent", "done"} /\ main_pc # "exited" /\ UNCHANGED main
          /\ \E to \in PCs \ ConsumerPCs : pc' = [pc EXCEPT ![t] = to]
      BY <1>5 DEF producer, TestRunning, FirstWait, WaitEmpty, LockStep, StoreSlot,
           PrintStep, AdvanceProducer, UnlockStep, PostFull, ProcessEnded,
           PCs, ProducerPCs, ConsumerPCs, TruckLabels, WorkerLabels
    <2>2. /\ Joined' /\ pc' \in [Threads -> PCs]
          /\ \A u \in Threads : /\ pc'[u] \in ProducerPCs => u \in Producers
                                /\ pc'[u] \in ConsumerPCs => u \in Consumers
          /\ main_i' \in 0 .. N_THREADS
      BY <2>1, <1>a
    <2>3. /\ cont' \in [Slots -> Slot] /\ stock' \subseteq Slots
          /\ producer_idx' \in Slots /\ consumer_idx' \in Slots
          /\ running' \in BOOLEAN
      BY <1>5 DEF producer, TestRunning, WaitEmpty, LockStep, StoreSlot, PrintStep,
           AdvanceProducer, UnlockStep, PostFull, Types, Slot
    <2>4. sem_full' \in Nat /\ sem_empty' \in Nat
      BY <1>5 DEF producer, TestRunning, WaitEmpty, LockStep, StoreSlot, PrintStep,
           AdvanceProducer, UnlockStep, PostFull, rk_sema_wait, rk_sema_post, Types
    <2>5. QED
      BY <2>2, <2>3, <2>4 DEF Types
  <1>6. ASSUME NEW t \in Consumers, consumer(t) PROVE Types' /\ Joined'
    <2>1. /\ pc[t] \notin {"absent", "done"} /\ main_pc # "exited" /\ UNCHANGED main
          /\ \E to \in PCs \ ProducerPCs : pc' = [pc EXCEPT ![t] = to]
      BY <1>6 DEF consumer, TestRunning, FirstWait, WaitFull, LockStep, TakeSlot,
           PrintStep, AdvanceConsumer, ClearSlot, UnlockStep, PostEmpty, ProcessEnded,
           PCs, ProducerPCs, ConsumerPCs, TruckLabels, WorkerLabels
    <2>2. /\ Joined' /\ pc' \in [Threads -> PCs]
          /\ \A u \in Threads : /\ pc'[u] \in ProducerPCs => u \in Producers
                                /\ pc'[u] \in ConsumerPCs => u \in Consumers
          /\ main_i' \in 0 .. N_THREADS
      BY <2>1, <1>a
    <2>3. /\ cont' \in [Slots -> Slot] /\ stock' \subseteq Slots
          /\ producer_idx' \in Slots /\ consumer_idx' \in Slots
          /\ running' \in BOOLEAN
      BY <1>6 DEF consumer, TestRunning, WaitFull, LockStep, TakeSlot, PrintStep,
           AdvanceConsumer, ClearSlot, UnlockStep, PostEmpty, Types, Slot
    <2>4. sem_full' \in Nat /\ sem_empty' \in Nat
      BY <1>6 DEF consumer, TestRunning, WaitFull, LockStep, TakeSlot, PrintStep,
           AdvanceConsumer, ClearSlot, UnlockStep, PostEmpty, rk_sema_wait,
           rk_sema_post, Types
    <2>5. QED
      BY <2>2, <2>3, <2>4 DEF Types
  <1>7. CASE UNCHANGED vars
    BY <1>7 DEF vars, main, Types, Joined, SemaphoresOutliveThreads
  <1>8. QED
    BY <1>1, <1>2, <1>3, <1>4, <1>5, <1>6, <1>7 DEF Next, Main, Terminated

\* Testing the flag takes a thread out of its loop or to its first wait.
LEMMA AfterTest ==
    ASSUME NEW t \in Threads, TestRunning(t)
    PROVE  /\ pc[t] = "test"
           /\ UNCHANGED <<ring, sems, main>>
           /\ \/ pc' = [pc EXCEPT ![t] = "done"]
              \/ t \in Producers /\ pc' = [pc EXCEPT ![t] = "wait_empty"]
              \/ t \in Consumers /\ pc' = [pc EXCEPT ![t] = "wait_full"]
  BY ThreadSets DEF TestRunning, Goto, FirstWait

\* The lock has at most one permit and admits at most one thread.
LEMMA LockedStep == Types /\ Locked /\ [Next]_vars => Locked'
  <1> SUFFICES ASSUME Types, Locked, [Next]_vars PROVE Locked'
    OBVIOUS
  <1>0. pc \in [Threads -> PCs]
    BY DEF Types
  \* A step that does not touch the lock starts inside it when it ends there.
  <1>a. ASSUME NEW t \in Threads, NEW to, pc' = [pc EXCEPT ![t] = to],
               UNCHANGED sem_lock, to \in Critical => pc[t] \in Critical
        PROVE  Locked'
    <2>1. \A u \in Threads : pc'[u] = IF u = t THEN to ELSE pc[u]
      BY <1>0, <1>a
    <2>2. \A u \in Threads : pc'[u] \in Critical => pc[u] \in Critical
      BY <1>a, <2>1
    <2>3. QED
      BY <1>a, <2>2 DEF Locked, MutualExclusion
  <1>b. ASSUME NEW t \in Threads, NEW from, NEW to, LockStep(t, from, to) PROVE Locked'
    <2>1. \A u \in Threads : pc'[u] = IF u = t THEN to ELSE pc[u]
      BY <1>0, <1>b DEF LockStep, Goto
    <2>2. sem_lock = 1 /\ sem_lock' = 0
      BY <1>b DEF LockStep, rk_sema_wait, Locked
    <2>3. QED
      BY <2>1, <2>2 DEF Locked, MutualExclusion
  <1>c. ASSUME NEW t \in Threads, NEW from, NEW to, UnlockStep(t, from, to),
               from \in Critical, to \notin Critical
        PROVE  Locked'
    <2>1. pc[t] \in Critical /\ \A u \in Threads : pc'[u] = IF u = t THEN to ELSE pc[u]
      BY <1>0, <1>c DEF UnlockStep, Goto
    <2>2. sem_lock = 0 /\ sem_lock' = 1
      BY <1>c, <2>1 DEF UnlockStep, rk_sema_post, Locked
    <2>3. \A u \in Threads : pc'[u] \notin Critical
      BY <1>c, <2>1 DEF Locked, MutualExclusion
    <2>4. QED
      BY <2>2, <2>3 DEF Locked, MutualExclusion
  <1>d. ASSUME UNCHANGED <<pc, sem_lock>> PROVE Locked'
    BY <1>d DEF Locked, MutualExclusion
  <1>e. ASSUME NEW t \in Threads, TestRunning(t) PROVE Locked'
    BY <1>e, <1>a, AfterTest DEF sems, Critical
  <1> USE ThreadSets DEF ring, sems, main, Goto
  <1>1. ASSUME NEW t \in Threads, RunThread(t) PROVE Locked'
    <2>1. sem_lock' = sem_lock
      BY <1>1 DEF RunThread
    <2>2. pc' = [pc EXCEPT ![t] = "test"] \/ pc' = pc
      BY <1>1, Zenon DEF RunThread
    <2>3. QED
      BY <2>1, <2>2, <1>a, <1>d DEF Critical
  <1>2. ASSUME NEW t \in Threads, wait_threads(t) PROVE Locked'
    BY <1>2, <1>d DEF wait_threads
  <1>3. CASE DestroySemaphores
    BY <1>3, <1>d DEF DestroySemaphores
  <1>4. CASE handler
    BY <1>4, <1>d DEF handler
  <1>5. ASSUME NEW t \in Producers, producer(t) PROVE Locked'
    <2>1. CASE TestRunning(t)
      BY <2>1, <1>e
    <2>2. CASE WaitEmpty(t)
      BY <2>2, <1>a DEF WaitEmpty, Critical
    <2>3. CASE LockStep(t, "p_lock", "store")
      BY <2>3, <1>b
    <2>4. CASE StoreSlot(t)
      BY <2>4, <1>a DEF StoreSlot, Critical
    <2>5. CASE PrintStep(t, "p_print", "p_advance")
      BY <2>5, <1>a DEF PrintStep, Critical
    <2>6. CASE AdvanceProducer(t)
      BY <2>6, <1>a DEF AdvanceProducer, Critical
    <2>7. CASE UnlockStep(t, "p_unlock", "post_full")
      BY <2>7, <1>c DEF Critical
    <2>8. CASE PostFull(t)
      BY <2>8, <1>a DEF PostFull, Critical
    <2>9. QED
      BY <1>5, <2>1, <2>2, <2>3, <2>4, <2>5, <2>6, <2>7, <2>8 DEF producer
  <1>6. ASSUME NEW t \in Consumers, consumer(t) PROVE Locked'
    <2>1. CASE TestRunning(t)
      BY <2>1, <1>e
    <2>2. CASE WaitFull(t)
      BY <2>2, <1>a DEF WaitFull, Critical
    <2>3. CASE LockStep(t, "c_lock", "take")
      BY <2>3, <1>b
    <2>4. CASE TakeSlot(t)
      BY <2>4, <1>a DEF TakeSlot, Critical
    <2>5. CASE AdvanceConsumer(t)
      BY <2>5, <1>a DEF AdvanceConsumer, Critical
    <2>6. CASE PrintStep(t, "c_print", "clear")
      BY <2>6, <1>a DEF PrintStep, Critical
    <2>7. CASE ClearSlot(t)
      BY <2>7, <1>a DEF ClearSlot, Critical
    <2>8. CASE UnlockStep(t, "c_unlock", "post_empty")
      BY <2>8, <1>c DEF Critical
    <2>9. CASE PostEmpty(t)
      BY <2>9, <1>a DEF PostEmpty, Critical
    <2>10. QED
      BY <1>6, <2>1, <2>2, <2>3, <2>4, <2>5, <2>6, <2>7, <2>8, <2>9 DEF consumer
  <1>7. CASE UNCHANGED vars
    BY <1>7, <1>d DEF vars
  <1>8. QED
    BY <1>1, <1>2, <1>3, <1>4, <1>5, <1>6, <1>7 DEF Next, Main, Terminated

\* Permits, threads and stored slots keep adding up.
LEMMA CountedStep == Inv /\ [Next]_vars => Counted'
  <1> SUFFICES ASSUME Inv, [Next]_vars PROVE Counted'
    OBVIOUS
  <1> DEFINE T == Count(Producers, TruckLabels)
             W == Count(Consumers, WorkerLabels)
             P == Count(Producers, StoredLabels)
             C == Count(Consumers, PromisedLabels)
             N == Cardinality(stock)
  <1>0. /\ Types /\ Counted
        /\ pc \in [Threads -> PCs] /\ stock \subseteq Slots
        /\ producer_idx \in Slots /\ consumer_idx \in Slots
        /\ sem_full \in Nat /\ sem_empty \in Nat
    BY DEF Inv, Types
  <1>1. T \in Nat /\ W \in Nat /\ P \in Nat /\ C \in Nat
    BY ThreadSets, Countable
  <1>2. N \in Nat /\ IsFiniteSet(stock)
    BY <1>0, Countable
  <1>3. sem_empty + sem_full + T + W = BUFFER_LEN /\ N = sem_full + P + C
    BY <1>0 DEF Counted
  <1>b. ASSUME sem_empty' + sem_full' + T' + W' = BUFFER_LEN,
               N' = sem_full' + P' + C'
        PROVE  Counted'
    BY <1>b DEF Counted
  <1>4. ASSUME NEW t \in Threads, NEW to, Moves(t, to)
        PROVE  /\ T' = T + (IF t \in Producers /\ to \in TruckLabels THEN 1 ELSE 0)
                         - (IF t \in Producers /\ pc[t] \in TruckLabels THEN 1 ELSE 0)
               /\ W' = W + (IF t \in Consumers /\ to \in WorkerLabels THEN 1 ELSE 0)
                         - (IF t \in Consumers /\ pc[t] \in WorkerLabels THEN 1 ELSE 0)
               /\ P' = P + (IF t \in Producers /\ to \in StoredLabels THEN 1 ELSE 0)
                         - (IF t \in Producers /\ pc[t] \in StoredLabels THEN 1 ELSE 0)
               /\ C' = C + (IF t \in Consumers /\ to \in PromisedLabels THEN 1 ELSE 0)
                         - (IF t \in Consumers /\ pc[t] \in PromisedLabels THEN 1 ELSE 0)
    <2>1. Producers \subseteq Threads /\ Consumers \subseteq Threads
      BY ThreadSets
    <2>2. QED
      BY <1>0, <1>4, <2>1, MoveCount
  <1> HIDE DEF T, W, P, C, N
  <1>c. ASSUME UNCHANGED <<pc, sem_full, sem_empty, stock>> PROVE Counted'
    BY <1>0, <1>c DEF Counted, Count, At
  <1> USE ThreadSets DEF ring, sems, main, Goto
  <1>d. ASSUME NEW t \in Threads, NEW to \in {"test", "done", "wait_empty", "wait_full"},
               pc[t] \in {"absent", "test"}, Moves(t, to),
               UNCHANGED <<sem_full, sem_empty, stock>>
        PROVE  Counted'
    <2>1. T' = T /\ W' = W /\ P' = P /\ C' = C
      BY <1>1, <1>4, <1>d DEF TruckLabels, WorkerLabels, StoredLabels, PromisedLabels
    <2>2. QED
      BY <1>0, <1>3, <1>b, <1>d, <2>1 DEF N
  <1>5. ASSUME NEW t \in Threads, TestRunning(t) PROVE Counted'
    BY <1>5, <1>d, AfterTest DEF Moves
  <1>6. ASSUME NEW t \in Threads, RunThread(t) PROVE Counted'
    <2>1. UNCHANGED <<sem_full, sem_empty, stock>> /\ pc[t] = "absent"
      BY <1>6 DEF RunThread, Inv, Joined, Threads
    <2>2. Moves(t, "test") \/ pc' = pc
      BY <1>6, Zenon DEF RunThread, Moves
    <2>3. QED
      BY <2>1, <2>2, <1>c, <1>d
  <1>7. ASSUME NEW t \in Threads, wait_threads(t) PROVE Counted'
    BY <1>7, <1>c DEF wait_threads
  <1>8. CASE DestroySemaphores
    BY <1>8, <1>c DEF DestroySemaphores
  <1>9. CASE handler
    BY <1>9, <1>c DEF handler
  <1>10. ASSUME NEW t \in Producers, producer(t) PROVE Counted'
    <2> t \in Threads /\ t \notin Consumers
      OBVIOUS
    <2>1. CASE TestRunning(t)
      BY <2>1, <1>5
    <2>2. CASE WaitEmpty(t)
      <3>1. /\ pc[t] = "wait_empty" /\ Moves(t, "p_lock")
            /\ sem_empty' = sem_empty - 1 /\ sem_empty > 0 /\ UNCHANGED <<sem_full, stock>>
        BY <2>2 DEF Moves, WaitEmpty, rk_sema_wait
      <3>2. T' = T + 1 /\ W' = W /\ P' = P /\ C' = C
        BY <1>1, <1>4, <3>1 DEF TruckLabels, WorkerLabels, StoredLabels, PromisedLabels
      <3>3. QED
        BY <1>0, <1>1, <1>2, <1>3, <1>b, <3>1, <3>2 DEF N
    <2>3. CASE LockStep(t, "p_lock", "store")
      <3>1. /\ pc[t] = "p_lock" /\ Moves(t, "store")
            /\ UNCHANGED <<sem_full, sem_empty, stock>>
        BY <2>3 DEF Moves, LockStep
      <3>2. T' = T /\ W' = W /\ P' = P /\ C' = C
        BY <1>1, <1>4, <3>1 DEF TruckLabels, WorkerLabels, StoredLabels, PromisedLabels
      <3>3. QED
        BY <1>0, <1>1, <1>2, <1>3, <1>b, <3>1, <3>2 DEF N
    <2>4. CASE StoreSlot(t)
      <3>1. /\ pc[t] = "store" /\ Moves(t, "p_print")
            /\ UNCHANGED <<sem_full, sem_empty>> /\ stock' = stock \cup {producer_idx}
        BY <2>4 DEF Moves, StoreSlot
      <3>2. T' = T /\ W' = W /\ P' = P + 1 /\ C' = C
        BY <1>1, <1>4, <3>1 DEF TruckLabels, WorkerLabels, StoredLabels, PromisedLabels
      <3>a. producer_idx \notin stock
        BY <3>1, Alternate DEF StoresAndTakesAlternate
      <3>b. Cardinality(stock \cup {producer_idx}) = N + 1
        BY <1>2, <3>a, FS_AddElement DEF N
      <3>c. N' = N + 1
        BY <3>1, <3>b DEF N
      <3>3. QED
        BY <1>0, <1>1, <1>2, <1>3, <1>b, <3>1, <3>2, <3>c DEF N
    <2>5. CASE PrintStep(t, "p_print", "p_advance")
      <3>1. /\ pc[t] = "p_print" /\ Moves(t, "p_advance")
            /\ UNCHANGED <<sem_full, sem_empty, stock>>
        BY <2>5 DEF Moves, PrintStep
      <3>2. T' = T /\ W' = W /\ P' = P /\ C' = C
        BY <1>1, <1>4, <3>1 DEF TruckLabels, WorkerLabels, StoredLabels, PromisedLabels
      <3>3. QED
        BY <1>0, <1>1, <1>2, <1>3, <1>b, <3>1, <3>2 DEF N
    <2>6. CASE AdvanceProducer(t)
      <3>1. /\ pc[t] = "p_advance" /\ Moves(t, "p_unlock")
            /\ UNCHANGED <<sem_full, sem_empty, stock>>
        BY <2>6 DEF Moves, AdvanceProducer
      <3>2. T' = T /\ W' = W /\ P' = P /\ C' = C
        BY <1>1, <1>4, <3>1 DEF TruckLabels, WorkerLabels, StoredLabels, PromisedLabels
      <3>3. QED
        BY <1>0, <1>1, <1>2, <1>3, <1>b, <3>1, <3>2 DEF N
    <2>7. CASE UnlockStep(t, "p_unlock", "post_full")
      <3>1. /\ pc[t] = "p_unlock" /\ Moves(t, "post_full")
            /\ UNCHANGED <<sem_full, sem_empty, stock>>
        BY <2>7 DEF Moves, UnlockStep
      <3>2. T' = T /\ W' = W /\ P' = P /\ C' = C
        BY <1>1, <1>4, <3>1 DEF TruckLabels, WorkerLabels, StoredLabels, PromisedLabels
      <3>3. QED
        BY <1>0, <1>1, <1>2, <1>3, <1>b, <3>1, <3>2 DEF N
    <2>8. CASE PostFull(t)
      <3>1. /\ pc[t] = "post_full" /\ Moves(t, "test")
            /\ sem_full' = sem_full + 1 /\ UNCHANGED <<sem_empty, stock>>
        BY <2>8 DEF Moves, PostFull, rk_sema_post
      <3>2. T' = T - 1 /\ W' = W /\ P' = P - 1 /\ C' = C
        BY <1>1, <1>4, <3>1 DEF TruckLabels, WorkerLabels, StoredLabels, PromisedLabels
      <3>3. QED
        BY <1>0, <1>1, <1>2, <1>3, <1>b, <3>1, <3>2 DEF N
    <2>9. QED
      BY <1>10, <2>1, <2>2, <2>3, <2>4, <2>5, <2>6, <2>7, <2>8 DEF producer
  <1>11. ASSUME NEW t \in Consumers, consumer(t) PROVE Counted'
    <2> t \in Threads /\ t \notin Producers
      OBVIOUS
    <2>1. CASE TestRunning(t)
      BY <2>1, <1>5
    <2>2. CASE WaitFull(t)
      <3>1. /\ pc[t] = "wait_full" /\ Moves(t, "c_lock")
            /\ sem_full' = sem_full - 1 /\ sem_full > 0 /\ UNCHANGED <<sem_empty, stock>>
        BY <2>2 DEF Moves, WaitFull, rk_sema_wait
      <3>2. T' = T /\ W' = W + 1 /\ P' = P /\ C' = C + 1
        BY <1>1, <1>4, <3>1 DEF TruckLabels, WorkerLabels, StoredLabels, PromisedLabels
      <3>3. QED
        BY <1>0, <1>1, <1>2, <1>3, <1>b, <3>1, <3>2 DEF N
    <2>3. CASE LockStep(t, "c_lock", "take")
      <3>1. /\ pc[t] = "c_lock" /\ Moves(t, "take")
            /\ UNCHANGED <<sem_full, sem_empty, stock>>
        BY <2>3 DEF Moves, LockStep
      <3>2. T' = T /\ W' = W /\ P' = P /\ C' = C
        BY <1>1, <1>4, <3>1 DEF TruckLabels, WorkerLabels, StoredLabels, PromisedLabels
      <3>3. QED
        BY <1>0, <1>1, <1>2, <1>3, <1>b, <3>1, <3>2 DEF N
    <2>4. CASE TakeSlot(t)
      <3>1. /\ pc[t] = "take" /\ Moves(t, "c_advance")
            /\ UNCHANGED <<sem_full, sem_empty>> /\ stock' = stock \ {consumer_idx}
        BY <2>4 DEF Moves, TakeSlot
      <3>2. T' = T /\ W' = W /\ P' = P /\ C' = C - 1
        BY <1>1, <1>4, <3>1 DEF TruckLabels, WorkerLabels, StoredLabels, PromisedLabels
      <3>a. consumer_idx \in stock
        BY <3>1, Alternate DEF StoresAndTakesAlternate
      <3>b. Cardinality(stock \ {consumer_idx}) = N - 1
        BY <1>2, <3>a, FS_RemoveElement DEF N
      <3>c. N' = N - 1
        BY <3>1, <3>b DEF N
      <3>3. QED
        BY <1>0, <1>1, <1>2, <1>3, <1>b, <3>1, <3>2, <3>c DEF N
    <2>5. CASE AdvanceConsumer(t)
      <3>1. /\ pc[t] = "c_advance" /\ Moves(t, "c_print")
            /\ UNCHANGED <<sem_full, sem_empty, stock>>
        BY <2>5 DEF Moves, AdvanceConsumer
      <3>2. T' = T /\ W' = W /\ P' = P /\ C' = C
        BY <1>1, <1>4, <3>1 DEF TruckLabels, WorkerLabels, StoredLabels, PromisedLabels
      <3>3. QED
        BY <1>0, <1>1, <1>2, <1>3, <1>b, <3>1, <3>2 DEF N
    <2>6. CASE PrintStep(t, "c_print", "clear")
      <3>1. /\ pc[t] = "c_print" /\ Moves(t, "clear")
            /\ UNCHANGED <<sem_full, sem_empty, stock>>
        BY <2>6 DEF Moves, PrintStep
      <3>2. T' = T /\ W' = W /\ P' = P /\ C' = C
        BY <1>1, <1>4, <3>1 DEF TruckLabels, WorkerLabels, StoredLabels, PromisedLabels
      <3>3. QED
        BY <1>0, <1>1, <1>2, <1>3, <1>b, <3>1, <3>2 DEF N
    <2>7. CASE ClearSlot(t)
      <3>1. /\ pc[t] = "clear" /\ Moves(t, "c_unlock")
            /\ UNCHANGED <<sem_full, sem_empty, stock>>
        BY <2>7 DEF Moves, ClearSlot
      <3>2. T' = T /\ W' = W /\ P' = P /\ C' = C
        BY <1>1, <1>4, <3>1 DEF TruckLabels, WorkerLabels, StoredLabels, PromisedLabels
      <3>3. QED
        BY <1>0, <1>1, <1>2, <1>3, <1>b, <3>1, <3>2 DEF N
    <2>8. CASE UnlockStep(t, "c_unlock", "post_empty")
      <3>1. /\ pc[t] = "c_unlock" /\ Moves(t, "post_empty")
            /\ UNCHANGED <<sem_full, sem_empty, stock>>
        BY <2>8 DEF Moves, UnlockStep
      <3>2. T' = T /\ W' = W /\ P' = P /\ C' = C
        BY <1>1, <1>4, <3>1 DEF TruckLabels, WorkerLabels, StoredLabels, PromisedLabels
      <3>3. QED
        BY <1>0, <1>1, <1>2, <1>3, <1>b, <3>1, <3>2 DEF N
    <2>9. CASE PostEmpty(t)
      <3>1. /\ pc[t] = "post_empty" /\ Moves(t, "test")
            /\ sem_empty' = sem_empty + 1 /\ UNCHANGED <<sem_full, stock>>
        BY <2>9 DEF Moves, PostEmpty, rk_sema_post
      <3>2. T' = T /\ W' = W - 1 /\ P' = P /\ C' = C
        BY <1>1, <1>4, <3>1 DEF TruckLabels, WorkerLabels, StoredLabels, PromisedLabels
      <3>3. QED
        BY <1>0, <1>1, <1>2, <1>3, <1>b, <3>1, <3>2 DEF N
    <2>10. QED
      BY <1>11, <2>1, <2>2, <2>3, <2>4, <2>5, <2>6, <2>7, <2>8, <2>9 DEF consumer
  <1>12. CASE UNCHANGED vars
    BY <1>12, <1>c DEF vars
  <1>13. QED
    BY <1>6, <1>7, <1>8, <1>9, <1>10, <1>11, <1>12 DEF Next, Main, Terminated

\* One slot more at the far end of the stock.
LEMMA Longer ==
    ASSUME NEW c \in Slots, NEW n \in 0 .. BUFFER_LEN - 1
    PROVE  /\ Wrap(Wrap(c + n) + 1) = Wrap(c + (n + 1))
           /\ \A s \in Slots : /\ Ahead(c, s) \in Nat
                               /\ Ahead(c, s) = n <=> s = Wrap(c + n)
  BY DEF Slots, Wrap, Ahead

\* One slot less at the near end.
LEMMA Shorter ==
    ASSUME NEW c \in Slots, NEW n \in 1 .. BUFFER_LEN
    PROVE  /\ Wrap(c + n) = Wrap(Wrap(c + 1) + (n - 1))
           /\ \A s \in Slots :
                Ahead(Wrap(c + 1), s) < n - 1 <=> s # c /\ Ahead(c, s) < n
  BY DEF Slots, Wrap, Ahead

\* The stock stays the run of slots between the two ends.
LEMMA InOrderStep == Inv /\ [Next]_vars => InOrder'
  <1> SUFFICES ASSUME Inv, [Next]_vars PROVE InOrder'
    OBVIOUS
  <1>0. /\ Types /\ Locked /\ Counted /\ InOrder /\ MutualExclusion
        /\ pc \in [Threads -> PCs] /\ stock \subseteq Slots
        /\ producer_idx \in Slots /\ consumer_idx \in Slots
    BY DEF Inv, Types, Locked
  <1> DEFINE Storing == {"p_print", "p_advance"}
             Taking  == {"c_advance"}
             N == Cardinality(stock)
  <1>1. N \in 0 .. BUFFER_LEN /\ IsFiniteSet(stock)
    BY <1>0, StockBound, Countable
  <1>2. ASSUME UNCHANGED stock, NextFree' = NextFree, Oldest' = Oldest PROVE InOrder'
    BY <1>0, <1>2 DEF InOrder
  <1>3. ASSUME UNCHANGED <<pc, ring>> PROVE InOrder'
    BY <1>0, <1>3 DEF InOrder, NextFree, Oldest, At, ring
  \* A step between two statements that are on the same side of the indices.
  <1>4. ASSUME NEW t \in Threads, NEW to, Moves(t, to),
               UNCHANGED <<producer_idx, consumer_idx, stock>>,
               to \in Storing <=> pc[t] \in Storing,
               to \in Taking <=> pc[t] \in Taking
        PROVE  InOrder'
    <2>1. \A u \in Threads : pc'[u] = IF u = t THEN to ELSE pc[u]
      BY <1>0, <1>4 DEF Moves
    <2>2. At(Producers, Storing)' = At(Producers, Storing) /\ At(Consumers, Taking)' = At(Consumers, Taking)
      BY <1>4, <2>1, ThreadSets DEF At
    <2>3. NextFree' = NextFree /\ Oldest' = Oldest
      BY <1>4, <2>2 DEF NextFree, Oldest
    <2>4. QED
      BY <1>2, <1>4, <2>3
  \* The thread inside the lock is the only one that can be at its ends.
  <1>5. ASSUME NEW t \in Threads, pc[t] \in Critical, NEW to, Moves(t, to)
        PROVE  /\ At(Producers, Storing) = IF t \in Producers /\ pc[t] \in Storing THEN {t} ELSE {}
               /\ At(Consumers, Taking) = IF t \in Consumers /\ pc[t] \in Taking THEN {t} ELSE {}
               /\ At(Producers, Storing)' = IF t \in Producers /\ to \in Storing THEN {t} ELSE {}
               /\ At(Consumers, Taking)' = IF t \in Consumers /\ to \in Taking THEN {t} ELSE {}
    <2>1. /\ \A u \in Threads : pc'[u] = IF u = t THEN to ELSE pc[u]
          /\ \A u \in Threads : u # t => pc[u] \notin Storing \cup Taking
      BY <1>0, <1>5 DEF Moves, MutualExclusion, Critical
    <2>2. QED
      BY <2>1, ThreadSets DEF At
  <1> HIDE DEF N
  <1> USE ThreadSets DEF ring, sems, main, Goto
  <1>6. ASSUME NEW t \in Threads, TestRunning(t) PROVE InOrder'
    BY <1>6, <1>4, AfterTest DEF Moves
  <1>7. ASSUME NEW t \in Threads, RunThread(t) PROVE InOrder'
    <2>1. UNCHANGED ring /\ pc[t] = "absent"
      BY <1>7 DEF RunThread, Inv, Joined, Threads
    <2>2. Moves(t, "test") \/ pc' = pc
      BY <1>7, Zenon DEF RunThread, Moves
    <2>3. QED
      BY <2>1, <2>2, <1>3, <1>4
  <1>8. ASSUME NEW t \in Threads, wait_threads(t) PROVE InOrder'
    BY <1>8, <1>3 DEF wait_threads
  <1>9. CASE DestroySemaphores
    BY <1>9, <1>3 DEF DestroySemaphores
  <1>10. CASE handler
    BY <1>10, <1>3 DEF handler
  <1>11. ASSUME NEW t \in Producers, producer(t) PROVE InOrder'
    <2>1. CASE TestRunning(t)
      BY <2>1, <1>6
    <2>2. CASE WaitEmpty(t)
      BY <2>2, <1>4 DEF WaitEmpty, Moves
    <2>3. CASE LockStep(t, "p_lock", "store")
      BY <2>3, <1>4 DEF LockStep, Moves
    <2>4. CASE StoreSlot(t)
      <3>1. /\ pc[t] = "store" /\ Moves(t, "p_print")
            /\ stock' = stock \cup {producer_idx}
            /\ UNCHANGED <<producer_idx, consumer_idx>>
        BY <2>4 DEF StoreSlot, Moves
      <3>2. /\ NextFree = producer_idx /\ NextFree' = NextIdx(producer_idx)
            /\ Oldest = consumer_idx /\ Oldest' = consumer_idx
        BY <3>1, <1>5 DEF Critical, NextFree, Oldest
      <3>3. N \in 0 .. BUFFER_LEN - 1
        BY <1>0, <1>1, <3>1, StockBound DEF N
      <3>4. producer_idx \notin stock
        BY <3>1, Alternate DEF StoresAndTakesAlternate
      <3>5. N' = N + 1
        BY <1>1, <3>1, <3>4, FS_AddElement DEF N
      <3>6. /\ producer_idx = Wrap(consumer_idx + N)
            /\ \A s \in Slots : s \in stock <=> Ahead(consumer_idx, s) < N
        BY <1>0, <3>2 DEF InOrder, N
      <3>7. NextFree' = Wrap(Oldest' + N')
        BY <1>0, <3>2, <3>3, <3>5, <3>6, NextIdxIsWrap, Longer
      <3>8. ASSUME NEW s \in Slots PROVE s \in stock' <=> Ahead(Oldest', s) < N'
        <4>1. /\ Ahead(consumer_idx, s) \in Nat
              /\ Ahead(consumer_idx, s) = N <=> s = producer_idx
          BY <1>0, <3>3, <3>6, Longer
        <4>2. Ahead(consumer_idx, s) < N + 1
                <=> Ahead(consumer_idx, s) < N \/ Ahead(consumer_idx, s) = N
          BY <3>3, <4>1
        <4>3. QED
          BY <3>1, <3>2, <3>5, <3>6, <4>1, <4>2
      <3>9. QED
        BY <3>7, <3>8 DEF InOrder, N
    <2>5. CASE PrintStep(t, "p_print", "p_advance")
      BY <2>5, <1>4 DEF PrintStep, Moves
    <2>6. CASE AdvanceProducer(t)
      <3>1. /\ pc[t] = "p_advance" /\ Moves(t, "p_unlock") /\ UNCHANGED <<stock, consumer_idx>>
            /\ producer_idx' = NextIdx(producer_idx)
        BY <2>6 DEF AdvanceProducer, Moves
      <3>2. /\ At(Producers, Storing) = {t} /\ At(Producers, Storing)' = {}
            /\ At(Consumers, Taking) = {} /\ At(Consumers, Taking)' = {}
        <4>1. /\ t \in Threads /\ t \notin Consumers /\ pc[t] \in Critical
              /\ "p_advance" \in Storing /\ "p_unlock" \notin Storing
          BY <3>1 DEF Critical
        <4>2. QED
          BY <3>1, <4>1, <1>5
      <3>3. NextFree' = NextFree /\ Oldest' = Oldest
        BY <3>1, <3>2 DEF NextFree, Oldest
      <3>4. QED
        BY <1>2, <3>1, <3>3
    <2>7. CASE UnlockStep(t, "p_unlock", "post_full")
      BY <2>7, <1>4 DEF UnlockStep, Moves
    <2>8. CASE PostFull(t)
      BY <2>8, <1>4 DEF PostFull, Moves
    <2>9. QED
      BY <1>11, <2>1, <2>2, <2>3, <2>4, <2>5, <2>6, <2>7, <2>8 DEF producer
  <1>12. ASSUME NEW t \in Consumers, consumer(t) PROVE InOrder'
    <2>1. CASE TestRunning(t)
      BY <2>1, <1>6
    <2>2. CASE WaitFull(t)
      BY <2>2, <1>4 DEF WaitFull, Moves
    <2>3. CASE LockStep(t, "c_lock", "take")
      BY <2>3, <1>4 DEF LockStep, Moves
    <2>4. CASE TakeSlot(t)
      <3>1. /\ pc[t] = "take" /\ Moves(t, "c_advance")
            /\ stock' = stock \ {consumer_idx}
            /\ UNCHANGED <<producer_idx, consumer_idx>>
        BY <2>4 DEF TakeSlot, Moves
      <3>2. /\ NextFree = producer_idx /\ NextFree' = producer_idx
            /\ Oldest = consumer_idx /\ Oldest' = NextIdx(consumer_idx)
        BY <3>1, <1>5 DEF Critical, NextFree, Oldest
      <3>3. N \in 1 .. BUFFER_LEN
        BY <1>0, <1>1, <3>1, StockBound DEF N
      <3>4. consumer_idx \in stock
        BY <3>1, Alternate DEF StoresAndTakesAlternate
      <3>5. N' = N - 1
        BY <1>1, <3>1, <3>4, FS_RemoveElement DEF N
      <3>6. /\ producer_idx = Wrap(consumer_idx + N)
            /\ \A s \in Slots : s \in stock <=> Ahead(consumer_idx, s) < N
        BY <1>0, <3>2 DEF InOrder, N
      <3>7. NextFree' = Wrap(Oldest' + N')
        BY <1>0, <3>2, <3>3, <3>5, <3>6, NextIdxIsWrap, Shorter
      <3>8. ASSUME NEW s \in Slots PROVE s \in stock' <=> Ahead(Oldest', s) < N'
        <4>1. Oldest' = Wrap(consumer_idx + 1)
          BY <1>0, <3>2, NextIdxIsWrap
        <4>2. Ahead(Wrap(consumer_idx + 1), s) < N - 1
                <=> s # consumer_idx /\ Ahead(consumer_idx, s) < N
          BY <1>0, <3>3, Shorter
        <4>3. QED
          BY <3>1, <3>5, <3>6, <4>1, <4>2
      <3>9. QED
        BY <3>7, <3>8 DEF InOrder, N
    <2>5. CASE AdvanceConsumer(t)
      <3>1. /\ pc[t] = "c_advance" /\ Moves(t, "c_print") /\ UNCHANGED <<stock, producer_idx>>
            /\ consumer_idx' = NextIdx(consumer_idx)
        BY <2>5 DEF AdvanceConsumer, Moves
      <3>2. /\ At(Consumers, Taking) = {t} /\ At(Consumers, Taking)' = {}
            /\ At(Producers, Storing) = {} /\ At(Producers, Storing)' = {}
        <4>1. /\ t \in Threads /\ t \notin Producers /\ pc[t] \in Critical
              /\ "c_advance" \in Taking /\ "c_print" \notin Taking
          BY <3>1 DEF Critical
        <4>2. QED
          BY <3>1, <4>1, <1>5
      <3>3. NextFree' = NextFree /\ Oldest' = Oldest
        BY <3>1, <3>2 DEF NextFree, Oldest
      <3>4. QED
        BY <1>2, <3>1, <3>3
    <2>6. CASE PrintStep(t, "c_print", "clear")
      BY <2>6, <1>4 DEF PrintStep, Moves
    <2>7. CASE ClearSlot(t)
      BY <2>7, <1>4 DEF ClearSlot, Moves
    <2>8. CASE UnlockStep(t, "c_unlock", "post_empty")
      BY <2>8, <1>4 DEF UnlockStep, Moves
    <2>9. CASE PostEmpty(t)
      BY <2>9, <1>4 DEF PostEmpty, Moves
    <2>10. QED
      BY <1>12, <2>1, <2>2, <2>3, <2>4, <2>5, <2>6, <2>7, <2>8, <2>9 DEF consumer
  <1>13. CASE UNCHANGED vars
    BY <1>13, <1>3 DEF vars
  <1>14. QED
    BY <1>7, <1>8, <1>9, <1>10, <1>11, <1>12, <1>13 DEF Next, Main, Terminated

\* Every step of main(), the handler, a truck or a worker keeps the invariant.
LEMMA InvStep == Inv /\ [Next]_vars => Inv'
  BY TypesStep, LockedStep, CountedStep, InOrderStep DEF Inv

\* For any number of trucks and workers, any length of the ring, SIGINT at
\* any moment and a thread that cannot be started: indices and semaphores
\* stay in range, one thread at a time is inside the lock, a truck never
\* overwrites a slot nobody has taken and a worker never takes one nobody has
\* stored, the stock is the run of slots between the two indices, and the
\* semaphores are destroyed after the last thread has returned.
THEOREM CppRingAlways == Spec => []RingInv
  BY InvInit, InvStep, InvImplies, PTL DEF Spec

=============================================================================
