--------------------------- MODULE WarehouseProofs ---------------------------
(***************************************************************************)
(* Theorems about the warehouse of c/c_lab05_b.c, for any number of trucks *)
(* and workers and any length of the ring buffer: types, mutual exclusion, *)
(* the conservation of slots, what the ring contains, the numbers of the   *)
(* threads, and that the warehouse implements BoundedFifo.                 *)
(***************************************************************************)
EXTENDS Warehouse, FiniteSetTheorems, SequenceTheorems, TLAPS

USE SizeAssumption, ItemsAssumption

-----------------------------------------------------------------------------
(* The operators of the model *)

\* The index arithmetic of the ring stays inside the buffer.
LEMMA NextIdxType == \A i \in Slots : NextIdx(i) \in Slots
  BY DEF Slots, NextIdx

\* Trucks and workers are disjoint sets of threads.
LEMMA ThreadSets ==
    /\ Threads = Producers \cup Consumers
    /\ Producers \cap Consumers = {}
    /\ \A t \in Threads : Arg(t) \in Threads
  BY DEF Threads, Producers, Consumers, NO_TH, Arg

\* The index of main()'s loops runs from 0 to NO_TH.
LEMMA MainIndexType ==
    /\ 0 \in 0..NO_TH
    /\ \A t \in Threads : t + 1 \in 0..NO_TH
  BY DEF Threads, NO_TH

-----------------------------------------------------------------------------
(* Type correctness *)

\* The types hold after init_semaphores() and the static initialisers.
LEMMA TypeInit == Init => TypeOK
  BY ThreadSets DEF Init, init_semaphores, rk_sema_init, TypeOK, PcType, Slots, EmptySlot, RecentlyLeft,
         Threads, NO_TH, ProducerPCs, ConsumerPCs

\* Every step of main(), a truck or a worker keeps the types.
LEMMA TypeStep == TypeOK /\ [Next]_vars => TypeOK'
  <1> SUFFICES ASSUME TypeOK, [Next]_vars PROVE TypeOK'
    OBVIOUS
  <1> USE ThreadSets, NextIdxType DEF TypeOK, ring, sems, main, Goto
  <1>1. ASSUME NEW t \in Threads, CreateThread(t) PROVE TypeOK'
    <2>1. pc' = [pc EXCEPT ![t] = "start"] \/ pc' = pc
      BY <1>1, Zenon DEF CreateThread
    <2>2. /\ thread_no' = [thread_no EXCEPT ![Arg(t)] = Arg(t)]
          /\ main_i' \in {0, t + 1}
          /\ main_pc' \in {"create", "join"}
          /\ UNCHANGED <<buffer, producer_idx_buff, consumer_idx_buff,
                         sem_full, sem_empty, sem_lock, id, item>>
      BY <1>1 DEF CreateThread, ArgValue, Threads, NO_TH
    <2>3. thread_no' \in [Threads -> Int]
      <3>1. Arg(t) \in Threads /\ Arg(t) \in Int
        BY DEF Threads
      <3>2. QED
        BY <2>2, <3>1
    <2>6. main_i' \in 0..NO_TH
      BY <2>2, MainIndexType
    <2>4. PcType'
      BY <2>1 DEF PcType, ProducerPCs, ConsumerPCs
    <2>5. main_pc' \in {"create", "join", "crashed", "exited"}
      BY <2>2
    <2>7. /\ buffer' = buffer /\ item' = item /\ id' = id
          /\ producer_idx_buff' = producer_idx_buff
          /\ consumer_idx_buff' = consumer_idx_buff
          /\ sem_full' = sem_full /\ sem_empty' = sem_empty /\ sem_lock' = sem_lock
      BY <2>2
    <2>8. QED
      BY <2>3, <2>4, <2>5, <2>6, <2>7
  <1>2. ASSUME NEW t \in Threads, JoinThread(t) PROVE TypeOK'
    <2>1. /\ main_i' \in {main_i, t + 1}
          /\ main_pc' \in {main_pc, "crashed"}
          /\ UNCHANGED <<buffer, producer_idx_buff, consumer_idx_buff, sem_full,
                         sem_empty, sem_lock, thread_no, pc, id, item>>
      BY <1>2 DEF JoinThread
    <2>2. main_i' \in 0..NO_TH
      BY <2>1, MainIndexType
    <2>3. QED
      BY <2>1, <2>2 DEF PcType
  <1>3. CASE close_semaphores
    BY <1>3 DEF close_semaphores, PcType
  <1>4. ASSUME NEW t \in Threads, StartThread(t) PROVE TypeOK'
    BY <1>4 DEF StartThread, PcType, ProducerPCs, ConsumerPCs
  <1>5. ASSUME NEW t \in Producers, producer(t) PROVE TypeOK'
    <2> USE DEF PcType, ProducerPCs, ConsumerPCs
    <2>1. CASE produce(t)
      BY <2>1 DEF produce
    <2>2. CASE WaitEmpty(t)
      BY <2>2 DEF WaitEmpty, rk_sema_wait
    <2>3. CASE LockStep(t, "p_lock", "store")
      BY <2>3 DEF LockStep, rk_sema_wait
    <2>4. CASE StoreItem(t)
      BY <2>4 DEF StoreItem
    <2>5. CASE AdvanceProducer(t)
      BY <2>5 DEF AdvanceProducer
    <2>6. CASE print_buffer(t, "p_print", "p_unlock")
      BY <2>6 DEF print_buffer, Printed
    <2>7. CASE UnlockStep(t, "p_unlock", "post_full")
      BY <2>7 DEF UnlockStep, rk_sema_post
    <2>8. CASE PostFull(t)
      BY <2>8 DEF PostFull, rk_sema_post
    <2>9. QED
      BY <1>5, <2>1, <2>2, <2>3, <2>4, <2>5, <2>6, <2>7, <2>8 DEF producer
  <1>6. ASSUME NEW t \in Consumers, consumer(t) PROVE TypeOK'
    <2> USE DEF PcType, ProducerPCs, ConsumerPCs
    <2>1. CASE WaitFull(t)
      BY <2>1 DEF WaitFull, rk_sema_wait
    <2>2. CASE LockStep(t, "c_lock", "fetch")
      BY <2>2 DEF LockStep, rk_sema_wait
    <2>3. CASE FetchItem(t)
      BY <2>3 DEF FetchItem
    <2>4. CASE MarkSlot(t)
      BY <2>4 DEF MarkSlot
    <2>5. CASE AdvanceConsumer(t)
      BY <2>5 DEF AdvanceConsumer
    <2>6. CASE print_buffer(t, "c_print", "c_unlock")
      BY <2>6 DEF print_buffer, Printed
    <2>7. CASE UnlockStep(t, "c_unlock", "post_empty")
      BY <2>7 DEF UnlockStep, rk_sema_post
    <2>8. CASE PostEmpty(t)
      BY <2>8 DEF PostEmpty, rk_sema_post
    <2>9. CASE consume(t)
      BY <2>9 DEF consume
    <2>10. QED
      BY <1>6, <2>1, <2>2, <2>3, <2>4, <2>5, <2>6, <2>7, <2>8, <2>9 DEF consumer
  <1>7. CASE UNCHANGED vars
    BY <1>7 DEF vars, PcType
  <1>8. QED
    BY <1>1, <1>2, <1>3, <1>4, <1>5, <1>6, <1>7 DEF Next, Main, Terminated

\* Every variable of the warehouse keeps its type: indices stay inside the
\* ring buffer, semaphores never go below zero, slots hold an item or one
\* of the two marks, and no thread is ever at a statement of the other role.
THEOREM TypeCorrect == Spec => []TypeOK
  BY TypeInit, TypeStep, PTL DEF Spec

-----------------------------------------------------------------------------
(* Mutual exclusion.  That at most one thread is inside is not inductive:  *)
(* it needs that sem_lock has no permit while somebody is.                 *)

LockInv ==
    /\ TypeOK
    /\ sem_lock \in {0, 1}
    /\ sem_lock = 1 => \A t \in Threads : pc[t] \notin Critical
    /\ MutualExclusion

\* The lock invariant holds when sem_lock has just been set to 1.
LEMMA LockInit == Init => LockInv
  BY TypeInit DEF Init, init_semaphores, rk_sema_init, LockInv, MutualExclusion,
         Critical

\* Every step keeps it: only the waits and posts of sem_lock move a thread
\* into or out of the critical section.
LEMMA LockStepInv == LockInv /\ [Next]_vars => LockInv'
  <1> SUFFICES ASSUME LockInv, [Next]_vars PROVE LockInv'
    OBVIOUS
  <1> USE ThreadSets DEF LockInv, MutualExclusion, Critical
  <1>0. TypeOK'
    BY TypeStep
  <1>a. pc \in [Threads -> {"absent", "start"} \cup ProducerPCs \cup ConsumerPCs]
    BY DEF TypeOK, PcType
  <1> DEFINE MutexPart == /\ sem_lock \in {0, 1}
                          /\ sem_lock = 1 => \A t \in Threads : pc[t] \notin Critical
                          /\ MutualExclusion
  <1>b. SUFFICES MutexPart'
    BY <1>0
  <1> USE <1>a DEF ring, sems, main, Goto
  <1>1. ASSUME NEW t \in Threads, CreateThread(t) PROVE MutexPart'
    <2>1. pc' = [pc EXCEPT ![t] = "start"] \/ pc' = pc
      BY <1>1, Zenon DEF CreateThread
    <2>2. sem_lock' = sem_lock
      BY <1>1 DEF CreateThread
    <2>3. QED
      BY <2>1, <2>2
  <1>2. ASSUME NEW t \in Threads, JoinThread(t) PROVE MutexPart'
    BY <1>2 DEF JoinThread
  <1>3. CASE close_semaphores
    BY <1>3 DEF close_semaphores
  <1>4. ASSUME NEW t \in Threads, StartThread(t) PROVE MutexPart'
    BY <1>4 DEF StartThread
  <1>5. ASSUME NEW t \in Producers, producer(t) PROVE MutexPart'
    <2>1. CASE produce(t)
      BY <2>1 DEF produce
    <2>2. CASE WaitEmpty(t)
      BY <2>2 DEF WaitEmpty
    <2>3. CASE LockStep(t, "p_lock", "store")
      BY <2>3 DEF LockStep, rk_sema_wait
    <2>4. CASE StoreItem(t)
      BY <2>4 DEF StoreItem
    <2>5. CASE AdvanceProducer(t)
      BY <2>5 DEF AdvanceProducer
    <2>6. CASE print_buffer(t, "p_print", "p_unlock")
      BY <2>6 DEF print_buffer
    <2>7. CASE UnlockStep(t, "p_unlock", "post_full")
      BY <2>7 DEF UnlockStep, rk_sema_post
    <2>8. CASE PostFull(t)
      BY <2>8 DEF PostFull
    <2>9. QED
      BY <1>5, <2>1, <2>2, <2>3, <2>4, <2>5, <2>6, <2>7, <2>8 DEF producer
  <1>6. ASSUME NEW t \in Consumers, consumer(t) PROVE MutexPart'
    <2>1. CASE WaitFull(t)
      BY <2>1 DEF WaitFull
    <2>2. CASE LockStep(t, "c_lock", "fetch")
      BY <2>2 DEF LockStep, rk_sema_wait
    <2>3. CASE FetchItem(t)
      BY <2>3 DEF FetchItem
    <2>4. CASE MarkSlot(t)
      BY <2>4 DEF MarkSlot
    <2>5. CASE AdvanceConsumer(t)
      BY <2>5 DEF AdvanceConsumer
    <2>6. CASE print_buffer(t, "c_print", "c_unlock")
      BY <2>6 DEF print_buffer
    <2>7. CASE UnlockStep(t, "c_unlock", "post_empty")
      BY <2>7 DEF UnlockStep, rk_sema_post
    <2>8. CASE PostEmpty(t)
      BY <2>8 DEF PostEmpty
    <2>9. CASE consume(t)
      BY <2>9 DEF consume
    <2>10. QED
      BY <1>6, <2>1, <2>2, <2>3, <2>4, <2>5, <2>6, <2>7, <2>8, <2>9 DEF consumer
  <1>7. CASE UNCHANGED vars
    BY <1>7 DEF vars
  <1>8. QED
    BY <1>1, <1>2, <1>3, <1>4, <1>5, <1>6, <1>7 DEF Next, Main, Terminated

\* The buffer and its indices are only touched by one thread at a time,
\* whatever the number of trucks and workers: sem_lock, initialised to 1, is
\* enough, although sem_full and sem_empty let many threads come near.
THEOREM OneAtATime == Spec => []MutualExclusion
  <1>1. LockInv => MutualExclusion
    BY DEF LockInv
  <1>2. QED
    BY LockInit, LockStepInv, <1>1, PTL DEF Spec

-----------------------------------------------------------------------------
(* Conservation of the slots *)

\* There are finitely many trucks and workers, so they can be counted.
LEMMA ThreadsFinite == IsFiniteSet(Producers) /\ IsFiniteSet(Consumers)
  BY FS_Interval DEF Producers, Consumers, NO_TH

TruckLabels  == {"p_lock", "store", "p_advance", "p_print", "p_unlock", "post_full"}
WorkerLabels == {"c_lock", "fetch", "mark", "c_advance", "c_print", "c_unlock",
                 "post_empty"}

\* The threads main() has still to create do not exist: without this, a
\* creation could take a slot away from a thread that has one.
NotYetCreated ==
    main_pc = "create" => \A u \in Threads : u >= main_i => pc[u] = "absent"

SlotInv == TypeOK /\ NotYetCreated /\ SlotsConserved

\* A step that leaves the two counting semaphores alone and moves no thread
\* across the border of TruckLabels or WorkerLabels conserves the slots.
LEMMA NoSlotMoves ==
    ASSUME SlotsConserved, sem_empty' = sem_empty, sem_full' = sem_full,
           \A u \in Producers : pc[u] \in TruckLabels <=> pc'[u] \in TruckLabels,
           \A u \in Consumers : pc[u] \in WorkerLabels <=> pc'[u] \in WorkerLabels
    PROVE  SlotsConserved'
  <1>1. TrucksWithSlot' = TrucksWithSlot
    BY DEF TrucksWithSlot, At, TruckLabels
  <1>2. WorkersWithSlot' = WorkersWithSlot
    BY DEF WorkersWithSlot, At, WorkerLabels
  <1>3. QED
    BY <1>1, <1>2 DEF SlotsConserved

\* The number of slots that trucks or workers hold is a natural number.
LEMMA SlotCountsType ==
    /\ IsFiniteSet(TrucksWithSlot) /\ Cardinality(TrucksWithSlot) \in Nat
    /\ IsFiniteSet(WorkersWithSlot) /\ Cardinality(WorkersWithSlot) \in Nat
  BY ThreadsFinite, FS_Subset, FS_CardinalityType DEF TrucksWithSlot, WorkersWithSlot, At

\* The slots add up when sem_empty has just been set to BUFFER_LEN.
LEMMA SlotInit == Init => SlotInv
  <1> SUFFICES ASSUME Init PROVE SlotInv
    OBVIOUS
  <1>1. TrucksWithSlot = {} /\ WorkersWithSlot = {}
    BY ThreadSets DEF Init, TrucksWithSlot, WorkersWithSlot, At
  <1>2. Cardinality(TrucksWithSlot) = 0 /\ Cardinality(WorkersWithSlot) = 0
    BY <1>1, FS_EmptySet
  <1>3. NotYetCreated
    BY DEF Init, NotYetCreated
  <1>4. QED
    BY <1>2, <1>3, TypeInit DEF Init, init_semaphores, rk_sema_init, SlotInv, SlotsConserved

\* main() moves on only after it has created a thread, and threads do not
\* exist before that.
LEMMA NotYetCreatedStep == TypeOK /\ NotYetCreated /\ [Next]_vars => NotYetCreated'
  <1> SUFFICES ASSUME TypeOK, NotYetCreated, [Next]_vars PROVE NotYetCreated'
    OBVIOUS
  <1>a. pc \in [Threads -> {"absent", "start"} \cup ProducerPCs \cup ConsumerPCs]
    BY DEF TypeOK, PcType
  <1>1. ASSUME NEW t \in Threads, CreateThread(t) PROVE NotYetCreated'
    <2>1. pc' = [pc EXCEPT ![t] = "start"] \/ pc' = pc
      BY <1>1, Zenon DEF CreateThread
    <2>2. \A u \in Threads : u # t => pc'[u] = pc[u]
      BY <1>a, <2>1
    <2>3. main_pc = "create" /\ main_i = t /\ (main_pc' = "create" => main_i' = t + 1)
      BY <1>1 DEF CreateThread
    <2>4. QED
      BY <2>2, <2>3 DEF NotYetCreated, Threads
  <1>2. ASSUME NEW t \in Threads, JoinThread(t) PROVE NotYetCreated'
    BY <1>2 DEF JoinThread, NotYetCreated
  <1>3. CASE close_semaphores
    BY <1>3 DEF close_semaphores, NotYetCreated
  \* A step of a thread that exists.
  <1>4. ASSUME NEW t \in Threads, pc[t] # "absent", UNCHANGED main,
               \A u \in Threads : u # t => pc'[u] = pc[u]
        PROVE  NotYetCreated'
    BY <1>4 DEF NotYetCreated, main
  <1>5. ASSUME NEW t \in Threads, StartThread(t) PROVE NotYetCreated'
    BY <1>a, <1>4, <1>5 DEF StartThread, Goto
  <1>6. ASSUME NEW t \in Producers, producer(t) PROVE NotYetCreated'
    <2>1. pc[t] # "absent" /\ UNCHANGED main /\ \A u \in Threads : u # t => pc'[u] = pc[u]
      BY <1>a, <1>6 DEF producer, produce, WaitEmpty, LockStep, StoreItem,
           AdvanceProducer, print_buffer, UnlockStep, PostFull, Goto
    <2>2. QED
      BY <1>4, <2>1, ThreadSets
  <1>7. ASSUME NEW t \in Consumers, consumer(t) PROVE NotYetCreated'
    <2>1. pc[t] # "absent" /\ UNCHANGED main /\ \A u \in Threads : u # t => pc'[u] = pc[u]
      BY <1>a, <1>7 DEF consumer, WaitFull, LockStep, FetchItem, MarkSlot,
           AdvanceConsumer, print_buffer, UnlockStep, PostEmpty, consume, Goto
    <2>2. QED
      BY <1>4, <2>1, ThreadSets
  <1>8. CASE UNCHANGED vars
    BY <1>8 DEF vars, main, NotYetCreated
  <1>9. QED
    BY <1>1, <1>2, <1>3, <1>5, <1>6, <1>7, <1>8 DEF Next, Main, Terminated

\* Every step of main(), a truck or a worker keeps the sum of the slots.
LEMMA SlotStep == SlotInv /\ [Next]_vars => SlotInv'
  <1> SUFFICES ASSUME SlotInv, [Next]_vars PROVE SlotInv'
    OBVIOUS
  <1>0. TypeOK' /\ NotYetCreated'
    BY TypeStep, NotYetCreatedStep DEF SlotInv
  <1>a. SUFFICES SlotsConserved'
    BY <1>0 DEF SlotInv
  <1>b. /\ SlotsConserved
        /\ pc \in [Threads -> {"absent", "start"} \cup ProducerPCs \cup ConsumerPCs]
        /\ sem_empty \in Nat /\ sem_full \in Nat
    BY DEF SlotInv, TypeOK, PcType
  <1> USE <1>b, ThreadSets DEF ring, sems, main, Goto
  \* A step of thread t that does not move it across either border.
  <1>c. ASSUME NEW t \in Threads, sem_empty' = sem_empty, sem_full' = sem_full,
               pc[t] \in TruckLabels <=> pc'[t] \in TruckLabels,
               pc[t] \in WorkerLabels <=> pc'[t] \in WorkerLabels,
               \A u \in Threads : u # t => pc'[u] = pc[u]
        PROVE  SlotsConserved'
    BY <1>c, NoSlotMoves
  <1> USE DEF TruckLabels, WorkerLabels
  <1>1. ASSUME NEW t \in Threads, CreateThread(t) PROVE SlotsConserved'
    <2>1. pc' = [pc EXCEPT ![t] = "start"] \/ pc' = pc
      BY <1>1, Zenon DEF CreateThread
    <2>2. pc[t] = "absent"
      BY <1>1 DEF CreateThread, SlotInv, NotYetCreated, Threads
    <2>3. sem_empty' = sem_empty /\ sem_full' = sem_full
      BY <1>1 DEF CreateThread
    <2>4. QED
      BY <2>1, <2>2, <2>3, <1>c
  <1>2. ASSUME NEW t \in Threads, JoinThread(t) PROVE SlotsConserved'
    BY <1>2, NoSlotMoves DEF JoinThread
  <1>3. CASE close_semaphores
    BY <1>3, NoSlotMoves DEF close_semaphores
  <1>4. ASSUME NEW t \in Threads, StartThread(t) PROVE SlotsConserved'
    BY <1>4, <1>c DEF StartThread
  <1>5. ASSUME NEW t \in Producers, producer(t) PROVE SlotsConserved'
    <2>1. CASE WaitEmpty(t)
      \* sem_empty gives its permit to t.
      <3>1. Cardinality(TrucksWithSlot') = Cardinality(TrucksWithSlot) + 1
        <4>1. t \notin TrucksWithSlot /\ TrucksWithSlot' = TrucksWithSlot \cup {t}
          BY <2>1 DEF WaitEmpty, TrucksWithSlot, At
        <4>2. QED
          BY <4>1, SlotCountsType, FS_AddElement
      <3>2. WorkersWithSlot' = WorkersWithSlot
        BY <2>1 DEF WaitEmpty, WorkersWithSlot, At
      <3>3. sem_empty' = sem_empty - 1 /\ sem_full' = sem_full
        BY <2>1 DEF WaitEmpty, rk_sema_wait
      <3>4. QED
        BY <3>1, <3>2, <3>3, SlotCountsType DEF SlotsConserved
    <2>2. CASE PostFull(t)
      \* t passes its slot on to sem_full.
      <3>1. Cardinality(TrucksWithSlot') = Cardinality(TrucksWithSlot) - 1
        <4>1. t \in TrucksWithSlot /\ TrucksWithSlot' = TrucksWithSlot \ {t}
          BY <2>2 DEF PostFull, TrucksWithSlot, At
        <4>2. QED
          BY <4>1, SlotCountsType, FS_RemoveElement
      <3>2. WorkersWithSlot' = WorkersWithSlot
        BY <2>2 DEF PostFull, WorkersWithSlot, At
      <3>3. sem_full' = sem_full + 1 /\ sem_empty' = sem_empty
        BY <2>2 DEF PostFull, rk_sema_post
      <3>4. QED
        BY <3>1, <3>2, <3>3, SlotCountsType DEF SlotsConserved
    <2> USE <1>c
    <2>3. CASE produce(t)
      BY <2>3 DEF produce
    <2>4. CASE LockStep(t, "p_lock", "store")
      BY <2>4 DEF LockStep
    <2>5. CASE StoreItem(t)
      BY <2>5 DEF StoreItem
    <2>6. CASE AdvanceProducer(t)
      BY <2>6 DEF AdvanceProducer
    <2>7. CASE print_buffer(t, "p_print", "p_unlock")
      BY <2>7 DEF print_buffer
    <2>8. CASE UnlockStep(t, "p_unlock", "post_full")
      BY <2>8 DEF UnlockStep
    <2>9. QED
      BY <1>5, <2>1, <2>2, <2>3, <2>4, <2>5, <2>6, <2>7, <2>8 DEF producer
  <1>6. ASSUME NEW t \in Consumers, consumer(t) PROVE SlotsConserved'
    <2>1. CASE WaitFull(t)
      \* sem_full gives its permit to t.
      <3>1. Cardinality(WorkersWithSlot') = Cardinality(WorkersWithSlot) + 1
        <4>1. t \notin WorkersWithSlot /\ WorkersWithSlot' = WorkersWithSlot \cup {t}
          BY <2>1 DEF WaitFull, WorkersWithSlot, At
        <4>2. QED
          BY <4>1, SlotCountsType, FS_AddElement
      <3>2. TrucksWithSlot' = TrucksWithSlot
        BY <2>1 DEF WaitFull, TrucksWithSlot, At
      <3>3. sem_full' = sem_full - 1 /\ sem_empty' = sem_empty
        BY <2>1 DEF WaitFull, rk_sema_wait
      <3>4. QED
        BY <3>1, <3>2, <3>3, SlotCountsType DEF SlotsConserved
    <2>2. CASE PostEmpty(t)
      \* t gives its slot back to sem_empty.
      <3>1. Cardinality(WorkersWithSlot') = Cardinality(WorkersWithSlot) - 1
        <4>1. t \in WorkersWithSlot /\ WorkersWithSlot' = WorkersWithSlot \ {t}
          BY <2>2 DEF PostEmpty, WorkersWithSlot, At
        <4>2. QED
          BY <4>1, SlotCountsType, FS_RemoveElement
      <3>2. TrucksWithSlot' = TrucksWithSlot
        BY <2>2 DEF PostEmpty, TrucksWithSlot, At
      <3>3. sem_empty' = sem_empty + 1 /\ sem_full' = sem_full
        BY <2>2 DEF PostEmpty, rk_sema_post
      <3>4. QED
        BY <3>1, <3>2, <3>3, SlotCountsType DEF SlotsConserved
    <2> USE <1>c
    <2>3. CASE LockStep(t, "c_lock", "fetch")
      BY <2>3 DEF LockStep
    <2>4. CASE FetchItem(t)
      BY <2>4 DEF FetchItem
    <2>5. CASE MarkSlot(t)
      BY <2>5 DEF MarkSlot
    <2>6. CASE AdvanceConsumer(t)
      BY <2>6 DEF AdvanceConsumer
    <2>7. CASE print_buffer(t, "c_print", "c_unlock")
      BY <2>7 DEF print_buffer
    <2>8. CASE UnlockStep(t, "c_unlock", "post_empty")
      BY <2>8 DEF UnlockStep
    <2>9. CASE consume(t)
      BY <2>9 DEF consume
    <2>10. QED
      BY <1>6, <2>1, <2>2, <2>3, <2>4, <2>5, <2>6, <2>7, <2>8, <2>9 DEF consumer
  <1>7. CASE UNCHANGED vars
    BY <1>7, NoSlotMoves DEF vars
  <1>8. QED
    BY <1>1, <1>2, <1>3, <1>4, <1>5, <1>6, <1>7 DEF Next, Main, Terminated

\* The three counts of slots (free in sem_empty, stored in sem_full, held by
\* a truck or a worker on its way through the lock) always add up to
\* BUFFER_LEN: no interleaving of waits and posts loses or invents a slot.
THEOREM SlotConservation == Spec => []SlotsConserved
  <1>1. SlotInv => SlotsConserved
    BY DEF SlotInv
  <1>2. QED
    BY SlotInit, SlotStep, <1>1, PTL DEF Spec

-----------------------------------------------------------------------------
(* Index arithmetic without remainders *)

\* Where index i, at most one turn beyond the end of the ring, is in it.
Wrap(i) == IF i < BUFFER_LEN THEN i ELSE i - BUFFER_LEN

\* How many slots s is ahead of slot o.
Ahead(o, s) == IF s >= o THEN s - o ELSE s - o + BUFFER_LEN

\* Remainders of anything in the first two turns of the ring.
LEMMA ModIsWrap ==
    ASSUME NEW i \in 0 .. 2 * BUFFER_LEN - 1
    PROVE  i % BUFFER_LEN = Wrap(i)
  <1>1. CASE i < BUFFER_LEN
    BY <1>1 DEF Wrap
  <1>2. CASE i >= BUFFER_LEN
    <2>1. (i - BUFFER_LEN) % BUFFER_LEN = i - BUFFER_LEN
      BY <1>2
    <2>2. i % BUFFER_LEN = (i - BUFFER_LEN) % BUFFER_LEN
      BY <1>2
    <2>3. QED
      BY <1>2, <2>1, <2>2 DEF Wrap
  <1>3. QED
    BY <1>1, <1>2

\* The two indices move one slot on, and from the last slot to the first.
LEMMA NextIdxIsWrap == \A i \in Slots : NextIdx(i) = Wrap(i + 1)
  BY ModIsWrap DEF Slots, NextIdx

-----------------------------------------------------------------------------
(* The shape of the ring *)

\* Where the next item will be stored.
NextFree == IF At(Producers, {"p_advance"}) # {}
            THEN NextIdx(producer_idx_buff) ELSE producer_idx_buff

\* The items are in the Size slots from Oldest on, and in the slot a worker
\* has read but not yet marked.
ItemsInOrder ==
    \A s \in Slots : buffer[s] \in Items <=>
        \/ Ahead(Oldest, s) < Size
        \/ At(Consumers, {"mark"}) # {} /\ s = consumer_idx_buff

\* Trucks that have something to store and workers that have something to
\* deliver have an item in their hands.
ItemsInHands ==
    \A t \in Threads : t \in Carrying => item[t] \in Items

Shape == /\ NextFree = Wrap(Oldest + Size)
         /\ ItemsInOrder
         /\ ItemsInHands
         /\ RecentMark

-----------------------------------------------------------------------------
(* How many items are stored *)

StoredLabels   == {"p_advance", "p_print", "p_unlock", "post_full"}
PromisedLabels == {"c_lock", "fetch"}

\* The threads at any set of statements can be counted.
LEMMA AtFinite ==
    ASSUME NEW L
    PROVE  /\ IsFiniteSet(At(Producers, L)) /\ Cardinality(At(Producers, L)) \in Nat
           /\ IsFiniteSet(At(Consumers, L)) /\ Cardinality(At(Consumers, L)) \in Nat
  <1>1. At(Producers, L) \in SUBSET Producers /\ At(Consumers, L) \in SUBSET Consumers
    BY DEF At
  <1>2. QED
    BY <1>1, ThreadsFinite, FS_Subset, FS_CardinalityType

\* A count of slots is never more than the trucks and workers hold and
\* sem_full knows of, so Size is at most BUFFER_LEN; it is less when a truck
\* has a slot it has not filled or a worker one it has emptied.
LEMMA SizeBound ==
    ASSUME SlotInv
    PROVE  /\ Size \in 0 .. BUFFER_LEN
           /\ \A t \in Producers : pc[t] \in {"p_lock", "store"} => Size < BUFFER_LEN
           /\ \A t \in Consumers :
                pc[t] \in {"mark", "c_advance", "c_print", "c_unlock", "post_empty"}
                  => Size < BUFFER_LEN
  <1> DEFINE P == At(Producers, StoredLabels)
             C == At(Consumers, PromisedLabels)
  <1>1. P \in SUBSET TrucksWithSlot /\ C \in SUBSET WorkersWithSlot
    BY DEF At, TrucksWithSlot, WorkersWithSlot, StoredLabels, PromisedLabels
  <1>2. /\ Cardinality(P) \in Nat /\ Cardinality(P) <= Cardinality(TrucksWithSlot)
        /\ Cardinality(P) = Cardinality(TrucksWithSlot) => P = TrucksWithSlot
    BY <1>1, AtFinite, SlotCountsType, FS_Subset
  <1>3. /\ Cardinality(C) \in Nat /\ Cardinality(C) <= Cardinality(WorkersWithSlot)
        /\ Cardinality(C) = Cardinality(WorkersWithSlot) => C = WorkersWithSlot
    BY <1>1, AtFinite, SlotCountsType, FS_Subset
  <1>4. Size = sem_full + Cardinality(P) + Cardinality(C)
    BY DEF Size, StoredLabels, PromisedLabels
  <1>5. /\ sem_full \in Nat /\ sem_empty \in Nat
        /\ sem_empty + sem_full + Cardinality(TrucksWithSlot)
             + Cardinality(WorkersWithSlot) = BUFFER_LEN
    BY DEF SlotInv, TypeOK, SlotsConserved
  <1> HIDE DEF P, C
  <1>6. Size \in 0 .. BUFFER_LEN
    BY <1>2, <1>3, <1>4, <1>5, SlotCountsType
  <1>7. ASSUME NEW t \in Producers, pc[t] \in {"p_lock", "store"} PROVE Size < BUFFER_LEN
    <2>1. P # TrucksWithSlot
      BY <1>7 DEF P, At, TrucksWithSlot, StoredLabels
    <2>2. QED
      BY <2>1, <1>2, <1>3, <1>4, <1>5, SlotCountsType
  <1>8. ASSUME NEW t \in Consumers,
               pc[t] \in {"mark", "c_advance", "c_print", "c_unlock", "post_empty"}
        PROVE  Size < BUFFER_LEN
    <2>1. C # WorkersWithSlot
      BY <1>8 DEF C, At, WorkersWithSlot, PromisedLabels
    <2>2. QED
      BY <2>1, <1>2, <1>3, <1>4, <1>5, SlotCountsType
  <1>9. QED
    BY <1>6, <1>7, <1>8

\* A worker that may fetch has an item to fetch.
LEMMA SizePositive ==
    ASSUME TypeOK, NEW t \in Consumers, pc[t] = "fetch"
    PROVE  Size >= 1
  <1> DEFINE P == Cardinality(At(Producers, StoredLabels))
             F == At(Consumers, PromisedLabels)
  <1>1. P \in Nat /\ IsFiniteSet(F) /\ Cardinality(F) \in Nat
    BY AtFinite
  <1>2. F # {}
    BY DEF At, PromisedLabels
  <1>3. Cardinality(F) # 0
    BY <1>1, <1>2, FS_EmptySet
  <1>4. Size = sem_full + P + Cardinality(F) /\ sem_full \in Nat
    BY DEF Size, StoredLabels, PromisedLabels, TypeOK
  <1> HIDE DEF P, F
  <1>5. QED
    BY <1>1, <1>3, <1>4

\* A step that leaves sem_full alone and moves no thread across the border
\* of StoredLabels or PromisedLabels keeps Size.
LEMMA SizeSame ==
    ASSUME sem_full' = sem_full,
           \A u \in Producers : pc[u] \in StoredLabels <=> pc'[u] \in StoredLabels,
           \A u \in Consumers : pc[u] \in PromisedLabels <=> pc'[u] \in PromisedLabels
    PROVE  Size' = Size
  <1>1. At(Producers, StoredLabels)' = At(Producers, StoredLabels)
    BY DEF At
  <1>2. At(Consumers, PromisedLabels)' = At(Consumers, PromisedLabels)
    BY DEF At
  <1>3. QED
    BY <1>1, <1>2 DEF Size, StoredLabels, PromisedLabels

\* What the four steps that cross such a border do to Size: the truck's write
\* of a slot adds an item and the worker's read takes one, while the post and
\* the wait of sem_full only pass one on.
LEMMA SizeMoves ==
    ASSUME TypeOK, NEW t \in Threads, NEW to, pc' = [pc EXCEPT ![t] = to]
    PROVE  /\ t \in Producers /\ pc[t] = "store" /\ to = "p_advance"
                /\ sem_full' = sem_full => Size' = Size + 1
           /\ t \in Producers /\ pc[t] = "post_full" /\ to = "produce"
                /\ sem_full' = sem_full + 1 => Size' = Size
           /\ t \in Consumers /\ pc[t] = "wait_full" /\ to = "c_lock"
                /\ sem_full' = sem_full - 1 => Size' = Size
           /\ t \in Consumers /\ pc[t] = "fetch" /\ to = "mark"
                /\ sem_full' = sem_full => Size' = Size - 1
  <1> DEFINE P == At(Producers, StoredLabels)
             C == At(Consumers, PromisedLabels)
  <1>1. /\ IsFiniteSet(P) /\ Cardinality(P) \in Nat
        /\ IsFiniteSet(C) /\ Cardinality(C) \in Nat
    BY AtFinite
  <1>2. /\ Size = sem_full + Cardinality(P) + Cardinality(C)
        /\ Size' = sem_full' + Cardinality(P') + Cardinality(C')
        /\ sem_full \in Nat
    BY DEF Size, StoredLabels, PromisedLabels, TypeOK
  <1>a. \A u \in Threads : pc'[u] = IF u = t THEN to ELSE pc[u]
    BY DEF TypeOK, PcType
  <1>b. Producers \subseteq Threads /\ Consumers \subseteq Threads
        /\ Producers \cap Consumers = {}
    BY ThreadSets
  <1> HIDE DEF P, C
  <1>3. CASE t \in Producers /\ pc[t] = "store" /\ to = "p_advance" /\ sem_full' = sem_full
    <2>1. t \notin P /\ P' = P \cup {t} /\ C' = C
      BY <1>3, <1>a, <1>b DEF P, C, At, StoredLabels, PromisedLabels
    <2>2. Cardinality(P') = Cardinality(P) + 1
      BY <1>1, <2>1, FS_AddElement
    <2>3. QED
      BY <1>1, <1>2, <1>3, <2>1, <2>2
  <1>4. CASE t \in Producers /\ pc[t] = "post_full" /\ to = "produce" /\ sem_full' = sem_full + 1
    <2>1. t \in P /\ P' = P \ {t} /\ C' = C
      BY <1>4, <1>a, <1>b DEF P, C, At, StoredLabels, PromisedLabels
    <2>2. Cardinality(P') = Cardinality(P) - 1
      BY <1>1, <2>1, FS_RemoveElement
    <2>3. QED
      BY <1>1, <1>2, <1>4, <2>1, <2>2
  <1>5. CASE t \in Consumers /\ pc[t] = "wait_full" /\ to = "c_lock" /\ sem_full' = sem_full - 1
    <2>1. t \notin C /\ C' = C \cup {t} /\ P' = P
      BY <1>5, <1>a, <1>b DEF P, C, At, StoredLabels, PromisedLabels
    <2>2. Cardinality(C') = Cardinality(C) + 1
      BY <1>1, <2>1, FS_AddElement
    <2>3. QED
      BY <1>1, <1>2, <1>5, <2>1, <2>2
  <1>6. CASE t \in Consumers /\ pc[t] = "fetch" /\ to = "mark" /\ sem_full' = sem_full
    <2>1. t \in C /\ C' = C \ {t} /\ P' = P
      BY <1>6, <1>a, <1>b DEF P, C, At, StoredLabels, PromisedLabels
    <2>2. Cardinality(C') = Cardinality(C) - 1
      BY <1>1, <2>1, FS_RemoveElement
    <2>3. QED
      BY <1>1, <1>2, <1>6, <2>1, <2>2
  <1>7. QED
    BY <1>3, <1>4, <1>5, <1>6

-----------------------------------------------------------------------------
(* Every step keeps the shape of the ring *)

StoreInv == LockInv /\ SlotInv /\ Shape

\* A step that moves neither index and no thread to or from the statements
\* between a slot and its index keeps the two ends of the queue in place.
LEMMA EndsSame ==
    ASSUME producer_idx_buff' = producer_idx_buff, consumer_idx_buff' = consumer_idx_buff,
           \A u \in Threads : \A l \in {"p_advance", "mark", "c_advance"} :
               pc[u] = l <=> pc'[u] = l
    PROVE  /\ NextFree' = NextFree /\ Oldest' = Oldest
           /\ At(Consumers, {"mark"})' = At(Consumers, {"mark"})
  <1>1. /\ At(Producers, {"p_advance"})' = At(Producers, {"p_advance"})
        /\ At(Consumers, {"mark", "c_advance"})' = At(Consumers, {"mark", "c_advance"})
        /\ At(Consumers, {"mark"})' = At(Consumers, {"mark"})
    BY ThreadSets DEF At
  <1>2. QED
    BY <1>1 DEF NextFree, Oldest, NextIdx

\* A step that besides keeps the buffer, all hands and the number of items.
LEMMA ShapeSame ==
    ASSUME Shape, buffer' = buffer, item' = item, Size' = Size,
           producer_idx_buff' = producer_idx_buff, consumer_idx_buff' = consumer_idx_buff,
           \A u \in Threads : \A l \in {"p_advance", "mark", "c_advance", "c_print"} :
               pc[u] = l <=> pc'[u] = l,
           \A u \in Threads : u \in Carrying' => u \in Carrying
    PROVE  Shape'
  <1>1. /\ NextFree' = NextFree /\ Oldest' = Oldest
        /\ At(Consumers, {"mark"})' = At(Consumers, {"mark"})
    BY EndsSame
  <1>2. ItemsInOrder'
    BY <1>1 DEF Shape, ItemsInOrder, Ahead
  <1>3. ItemsInHands'
    BY DEF Shape, ItemsInHands
  <1>4. RecentMark'
    BY ThreadSets DEF Shape, RecentMark, NextIdx
  <1>5. QED
    BY <1>1, <1>2, <1>3, <1>4 DEF Shape, Wrap

\* The empty buffer has the right shape.
LEMMA ShapeInit == Init => Shape
  <1> SUFFICES ASSUME Init PROVE Shape
    OBVIOUS
  <1>1. \A L : "absent" \notin L => At(Producers, L) = {} /\ At(Consumers, L) = {}
    BY ThreadSets DEF Init, At
  <1>2. /\ At(Producers, StoredLabels) = {} /\ At(Consumers, PromisedLabels) = {}
        /\ At(Producers, {"p_advance"}) = {} /\ At(Consumers, {"mark"}) = {}
        /\ At(Consumers, {"mark", "c_advance"}) = {}
    BY <1>1 DEF StoredLabels, PromisedLabels
  <1>3. Size = 0 /\ Oldest = 0 /\ NextFree = 0
    BY <1>2, FS_EmptySet DEF Init, init_semaphores, rk_sema_init, Size, Oldest,
         NextFree, StoredLabels, PromisedLabels
  <1>4. Carrying = {}
    BY <1>1 DEF Carrying
  <1>5. \A s \in Slots : buffer[s] = EmptySlot
    BY DEF Init
  <1>6. ItemsInOrder
    BY <1>2, <1>3, <1>5 DEF ItemsInOrder, Ahead, Slots, EmptySlot
  <1>7. RecentMark /\ ItemsInHands
    BY <1>4, <1>5 DEF RecentMark, ItemsInHands, EmptySlot, RecentlyLeft
  <1>8. QED
    BY <1>3, <1>6, <1>7 DEF Shape, Wrap

\* add_to_buffer's write puts the item behind all the others.
LEMMA StoreItemShape ==
    ASSUME StoreInv, NEW t \in Producers, StoreItem(t)
    PROVE  /\ Shape'
           /\ Size' = Size + 1 /\ Size < BUFFER_LEN /\ Oldest' = Oldest
           /\ producer_idx_buff = Wrap(Oldest + Size)
           /\ item[t] \in Items
  <1>0. /\ t \in Threads /\ pc[t] = "store" /\ pc' = [pc EXCEPT ![t] = "p_advance"]
        /\ buffer' = [buffer EXCEPT ![producer_idx_buff] = item[t]]
        /\ producer_idx_buff' = producer_idx_buff /\ consumer_idx_buff' = consumer_idx_buff
        /\ item' = item /\ sem_full' = sem_full
    BY ThreadSets DEF StoreItem, Goto, sems
  <1>1. /\ TypeOK /\ SlotInv /\ Shape
        /\ pc \in [Threads -> {"absent", "start"} \cup ProducerPCs \cup ConsumerPCs]
        /\ buffer \in [Slots -> Items \cup {EmptySlot, RecentlyLeft}]
        /\ producer_idx_buff \in Slots /\ consumer_idx_buff \in Slots
    BY DEF StoreInv, LockInv, TypeOK, PcType
  <1>2. \A u \in Threads : u # t => pc[u] \notin Critical
    BY <1>0 DEF StoreInv, LockInv, MutualExclusion, Critical
  <1>3. \A u \in Threads : pc'[u] = IF u = t THEN "p_advance" ELSE pc[u]
    BY <1>0, <1>1
  <1>4. Size' = Size + 1
    BY <1>0, <1>1, SizeMoves
  <1>5. Size \in 0 .. BUFFER_LEN /\ Size < BUFFER_LEN
    BY <1>0, <1>1, SizeBound
  <1>6. /\ At(Producers, {"p_advance"}) = {} /\ At(Producers, {"p_advance"})' # {}
        /\ At(Consumers, {"mark", "c_advance"}) = {} /\ At(Consumers, {"mark"}) = {}
        /\ At(Consumers, {"mark", "c_advance"})' = {} /\ At(Consumers, {"mark"})' = {}
    BY <1>0, <1>2, <1>3, ThreadSets DEF At, Critical
  <1>7. /\ Oldest = consumer_idx_buff /\ Oldest' = consumer_idx_buff
        /\ NextFree = producer_idx_buff
        /\ NextFree' = NextIdx(producer_idx_buff)
    BY <1>0, <1>6 DEF Oldest, NextFree
  <1>8. producer_idx_buff = Wrap(consumer_idx_buff + Size)
    BY <1>1, <1>7 DEF Shape
  <1>9. NextFree' = Wrap(consumer_idx_buff + Size + 1)
    BY <1>1, <1>5, <1>7, <1>8, NextIdxIsWrap DEF Wrap, Slots
  <1>10. item[t] \in Items
    BY <1>0, <1>1 DEF Shape, ItemsInHands, Carrying, At
  <1>11. ItemsInOrder'
    <2>1. \A s \in Slots : buffer[s] \in Items <=> Ahead(consumer_idx_buff, s) < Size
      BY <1>1, <1>6, <1>7 DEF Shape, ItemsInOrder
    <2>2. \A s \in Slots : Ahead(consumer_idx_buff, s) = Size <=> s = producer_idx_buff
      BY <1>1, <1>5, <1>8 DEF Ahead, Wrap, Slots
    <2>3. \A s \in Slots : Ahead(consumer_idx_buff, s) \in Nat
      BY <1>1 DEF Ahead, Slots
    <2>4. \A s \in Slots : buffer'[s] \in Items <=> Ahead(consumer_idx_buff, s) < Size + 1
      BY <1>0, <1>1, <1>5, <1>10, <2>1, <2>2, <2>3
    <2>5. QED
      BY <1>4, <1>6, <1>7, <2>4 DEF ItemsInOrder, Ahead
  <1>12. ItemsInHands'
    BY <1>0, <1>1, <1>3 DEF Shape, ItemsInHands, Carrying, At
  <1>13. RecentMark'
    <2>1. \A s \in Slots : buffer[s] # RecentlyLeft
      BY <1>0, <1>1, <1>2, ThreadSets DEF Shape, RecentMark, Critical
    <2>2. \A s \in Slots : buffer'[s] # RecentlyLeft
      BY <1>0, <1>1, <1>10, <2>1 DEF RecentlyLeft
    <2>3. QED
      BY <2>2 DEF RecentMark
  <1>14. QED
    BY <1>1, <1>4, <1>5, <1>7, <1>8, <1>9, <1>10, <1>11, <1>12, <1>13 DEF Shape, Wrap, Slots

\* remove_from_buffer's read takes the oldest item.
LEMMA FetchItemShape ==
    ASSUME StoreInv, NEW t \in Consumers, FetchItem(t)
    PROVE  /\ Shape'
           /\ Size' = Size - 1 /\ Size \in 1 .. BUFFER_LEN
           /\ Oldest = consumer_idx_buff /\ Oldest' = Wrap(Oldest + 1)
           /\ buffer[Oldest] \in Items
  <1>0. /\ t \in Threads /\ pc[t] = "fetch" /\ pc' = [pc EXCEPT ![t] = "mark"]
        /\ item' = [item EXCEPT ![t] = buffer[consumer_idx_buff]]
        /\ producer_idx_buff' = producer_idx_buff /\ consumer_idx_buff' = consumer_idx_buff
        /\ buffer' = buffer /\ sem_full' = sem_full
    BY ThreadSets DEF FetchItem, Goto, sems, ring
  <1>1. /\ TypeOK /\ SlotInv /\ Shape
        /\ pc \in [Threads -> {"absent", "start"} \cup ProducerPCs \cup ConsumerPCs]
        /\ item \in [Threads -> Items \cup {EmptySlot, RecentlyLeft}]
        /\ producer_idx_buff \in Slots /\ consumer_idx_buff \in Slots
    BY DEF StoreInv, LockInv, TypeOK, PcType
  <1>2. \A u \in Threads : u # t => pc[u] \notin Critical
    BY <1>0 DEF StoreInv, LockInv, MutualExclusion, Critical
  <1>3. \A u \in Threads : pc'[u] = IF u = t THEN "mark" ELSE pc[u]
    BY <1>0, <1>1
  <1>4. Size' = Size - 1
    BY <1>0, <1>1, SizeMoves
  <1>5. Size \in 1 .. BUFFER_LEN
    <2>1. Size \in 0 .. BUFFER_LEN
      BY <1>1, SizeBound
    <2>2. Size >= 1
      BY <1>0, <1>1, SizePositive
    <2>3. QED
      BY <2>1, <2>2
  <1>6. /\ At(Producers, {"p_advance"}) = {} /\ At(Producers, {"p_advance"})' = {}
        /\ At(Consumers, {"mark", "c_advance"}) = {} /\ At(Consumers, {"mark"}) = {}
        /\ At(Consumers, {"mark", "c_advance"})' # {} /\ At(Consumers, {"mark"})' # {}
    BY <1>0, <1>2, <1>3, ThreadSets DEF At, Critical
  <1>7. /\ Oldest = consumer_idx_buff /\ Oldest' = NextIdx(consumer_idx_buff)
        /\ NextFree = producer_idx_buff /\ NextFree' = producer_idx_buff
    BY <1>0, <1>6 DEF Oldest, NextFree
  <1>8. NextIdx(consumer_idx_buff) = Wrap(consumer_idx_buff + 1)
    BY <1>1, NextIdxIsWrap
  <1>9. NextFree' = Wrap(Oldest' + Size')
    <2>1. producer_idx_buff = Wrap(consumer_idx_buff + Size)
      BY <1>1, <1>7 DEF Shape
    <2>2. Wrap(Wrap(consumer_idx_buff + 1) + (Size - 1)) = Wrap(consumer_idx_buff + Size)
      BY <1>1, <1>5 DEF Wrap, Slots
    <2>3. QED
      BY <1>4, <1>7, <1>8, <2>1, <2>2
  <1>10. \A s \in Slots : buffer[s] \in Items <=> Ahead(consumer_idx_buff, s) < Size
    BY <1>1, <1>6, <1>7 DEF Shape, ItemsInOrder
  <1>11. buffer[consumer_idx_buff] \in Items
    BY <1>1, <1>5, <1>10 DEF Ahead, Slots
  <1>12. ItemsInOrder'
    <2>1. \A s \in Slots : s # consumer_idx_buff =>
             Ahead(Wrap(consumer_idx_buff + 1), s) = Ahead(consumer_idx_buff, s) - 1
      BY <1>1 DEF Ahead, Wrap, Slots
    <2>2. \A s \in Slots : Ahead(consumer_idx_buff, s) \in Nat
      BY <1>1 DEF Ahead, Slots
    <2>3. \A s \in Slots : buffer[s] \in Items <=>
             (Ahead(Wrap(consumer_idx_buff + 1), s) < Size - 1 \/ s = consumer_idx_buff)
      BY <1>5, <1>10, <1>11, <2>1, <2>2
    <2>4. QED
      BY <1>0, <1>4, <1>6, <1>7, <1>8, <2>3 DEF ItemsInOrder, Ahead
  <1>13. ItemsInHands'
    BY <1>0, <1>1, <1>3, <1>11 DEF Shape, ItemsInHands, Carrying, At
  <1>14. RecentMark'
    BY <1>0, <1>1, <1>2, ThreadSets DEF Shape, RecentMark, Critical
  <1>15. Shape'
    <2>1. NextFree' = (Wrap(Oldest + Size))'
      BY <1>9 DEF Wrap
    <2>2. QED
      BY <2>1, <1>12, <1>13, <1>14 DEF Shape
  <1>16. QED
    BY <1>4, <1>5, <1>7, <1>8, <1>11, <1>15

\* remove_from_buffer's write marks the slot that was read.
LEMMA MarkSlotShape ==
    ASSUME StoreInv, NEW t \in Consumers, MarkSlot(t)
    PROVE  /\ Shape' /\ Size' = Size /\ Oldest' = Oldest
           /\ Size < BUFFER_LEN /\ Ahead(Oldest, consumer_idx_buff) = BUFFER_LEN - 1
  <1>0. /\ t \in Threads /\ pc[t] = "mark" /\ pc' = [pc EXCEPT ![t] = "c_advance"]
        /\ buffer' = [buffer EXCEPT ![consumer_idx_buff] = RecentlyLeft]
        /\ producer_idx_buff' = producer_idx_buff /\ consumer_idx_buff' = consumer_idx_buff
        /\ item' = item /\ sem_full' = sem_full
    BY ThreadSets DEF MarkSlot, Goto, sems
  <1>1. /\ TypeOK /\ SlotInv /\ Shape
        /\ pc \in [Threads -> {"absent", "start"} \cup ProducerPCs \cup ConsumerPCs]
        /\ buffer \in [Slots -> Items \cup {EmptySlot, RecentlyLeft}]
        /\ consumer_idx_buff \in Slots
    BY DEF StoreInv, LockInv, TypeOK, PcType
  <1>2. \A u \in Threads : u # t => pc[u] \notin Critical
    BY <1>0 DEF StoreInv, LockInv, MutualExclusion, Critical
  <1>3. \A u \in Threads : pc'[u] = IF u = t THEN "c_advance" ELSE pc[u]
    BY <1>0, <1>1
  <1>4. Size' = Size
    BY <1>0, <1>3, SizeSame, ThreadSets DEF StoredLabels, PromisedLabels
  <1>5. Size \in 0 .. BUFFER_LEN /\ Size < BUFFER_LEN
    BY <1>0, <1>1, SizeBound
  <1>6. /\ At(Producers, {"p_advance"})' = At(Producers, {"p_advance"})
        /\ At(Consumers, {"mark", "c_advance"}) # {} /\ At(Consumers, {"mark"}) # {}
        /\ At(Consumers, {"mark", "c_advance"})' # {} /\ At(Consumers, {"mark"})' = {}
    BY <1>0, <1>2, <1>3, ThreadSets DEF At, Critical
  <1>7. /\ Oldest = Wrap(consumer_idx_buff + 1) /\ Oldest' = Oldest
        /\ NextFree' = NextFree
    BY <1>0, <1>1, <1>6, NextIdxIsWrap DEF Oldest, NextFree, NextIdx
  <1>8. /\ Ahead(Oldest, consumer_idx_buff) = BUFFER_LEN - 1
        /\ \A s \in Slots : Ahead(Oldest, s) \in Int
    BY <1>1, <1>7 DEF Ahead, Wrap, Slots
  <1>9. ItemsInOrder'
    <2>1. \A s \in Slots : buffer[s] \in Items <=>
             (Ahead(Oldest, s) < Size \/ s = consumer_idx_buff)
      BY <1>1, <1>6 DEF Shape, ItemsInOrder
    <2>2. RecentlyLeft \notin Items
      BY DEF RecentlyLeft
    <2>3. \A s \in Slots : buffer'[s] \in Items <=> Ahead(Oldest, s) < Size
      BY <1>0, <1>1, <1>5, <1>8, <2>1, <2>2
    <2>4. QED
      BY <1>4, <1>6, <1>7, <2>3 DEF ItemsInOrder, Ahead
  <1>10. ItemsInHands'
    BY <1>0, <1>1, <1>3 DEF Shape, ItemsInHands, Carrying, At
  <1>11. RecentMark'
    <2>1. \A s \in Slots : buffer[s] # RecentlyLeft
      BY <1>0, <1>1, <1>2, ThreadSets DEF Shape, RecentMark, Critical
    <2>2. \A s \in Slots : buffer'[s] = RecentlyLeft => s = consumer_idx_buff
      BY <1>0, <1>1, <2>1
    <2>3. QED
      BY <1>0, <1>3, <2>2 DEF RecentMark
  <1>12. QED
    BY <1>1, <1>4, <1>5, <1>7, <1>8, <1>9, <1>10, <1>11 DEF Shape, Wrap

\* The truck's index follows its write.
LEMMA AdvanceProducerShape ==
    ASSUME StoreInv, NEW t \in Producers, AdvanceProducer(t)
    PROVE  Shape' /\ Size' = Size /\ Oldest' = Oldest
  <1>0. /\ t \in Threads /\ pc[t] = "p_advance" /\ pc' = [pc EXCEPT ![t] = "p_print"]
        /\ producer_idx_buff' = NextIdx(producer_idx_buff)
        /\ consumer_idx_buff' = consumer_idx_buff /\ buffer' = buffer
        /\ item' = item /\ sem_full' = sem_full
    BY ThreadSets DEF AdvanceProducer, Goto, sems
  <1>1. /\ Shape
        /\ pc \in [Threads -> {"absent", "start"} \cup ProducerPCs \cup ConsumerPCs]
    BY DEF StoreInv, LockInv, TypeOK, PcType
  <1>2. \A u \in Threads : u # t => pc[u] \notin Critical
    BY <1>0 DEF StoreInv, LockInv, MutualExclusion, Critical
  <1>3. \A u \in Threads : pc'[u] = IF u = t THEN "p_print" ELSE pc[u]
    BY <1>0, <1>1
  <1>4. Size' = Size
    BY <1>0, <1>3, SizeSame, ThreadSets DEF StoredLabels, PromisedLabels
  <1>6. /\ At(Producers, {"p_advance"}) # {} /\ At(Producers, {"p_advance"})' = {}
        /\ At(Consumers, {"mark", "c_advance"}) = {} /\ At(Consumers, {"mark"}) = {}
        /\ At(Consumers, {"mark", "c_advance"})' = {} /\ At(Consumers, {"mark"})' = {}
    BY <1>0, <1>2, <1>3, ThreadSets DEF At, Critical
  <1>7. Oldest' = Oldest /\ NextFree' = NextFree
    BY <1>0, <1>6 DEF Oldest, NextFree
  <1>8. ItemsInOrder'
    BY <1>0, <1>1, <1>4, <1>6, <1>7 DEF Shape, ItemsInOrder, Ahead
  <1>9. ItemsInHands'
    BY <1>0, <1>1, <1>3 DEF Shape, ItemsInHands, Carrying, At
  <1>10. RecentMark'
    BY <1>0, <1>1, <1>2, ThreadSets DEF Shape, RecentMark, Critical
  <1>11. QED
    BY <1>1, <1>4, <1>7, <1>8, <1>9, <1>10 DEF Shape, Wrap

\* The worker's index follows its write.
LEMMA AdvanceConsumerShape ==
    ASSUME StoreInv, NEW t \in Consumers, AdvanceConsumer(t)
    PROVE  Shape' /\ Size' = Size /\ Oldest' = Oldest
  <1>0. /\ t \in Threads /\ pc[t] = "c_advance" /\ pc' = [pc EXCEPT ![t] = "c_print"]
        /\ consumer_idx_buff' = NextIdx(consumer_idx_buff)
        /\ producer_idx_buff' = producer_idx_buff /\ buffer' = buffer
        /\ item' = item /\ sem_full' = sem_full
    BY ThreadSets DEF AdvanceConsumer, Goto, sems
  <1>1. /\ Shape
        /\ pc \in [Threads -> {"absent", "start"} \cup ProducerPCs \cup ConsumerPCs]
    BY DEF StoreInv, LockInv, TypeOK, PcType
  <1>2. \A u \in Threads : u # t => pc[u] \notin Critical
    BY <1>0 DEF StoreInv, LockInv, MutualExclusion, Critical
  <1>3. \A u \in Threads : pc'[u] = IF u = t THEN "c_print" ELSE pc[u]
    BY <1>0, <1>1
  <1>4. Size' = Size
    BY <1>0, <1>3, SizeSame, ThreadSets DEF StoredLabels, PromisedLabels
  <1>6. /\ At(Producers, {"p_advance"}) = {} /\ At(Producers, {"p_advance"})' = {}
        /\ At(Consumers, {"mark", "c_advance"}) # {} /\ At(Consumers, {"mark"}) = {}
        /\ At(Consumers, {"mark", "c_advance"})' = {} /\ At(Consumers, {"mark"})' = {}
    BY <1>0, <1>2, <1>3, ThreadSets DEF At, Critical
  <1>7. Oldest' = Oldest /\ NextFree' = NextFree
    BY <1>0, <1>6 DEF Oldest, NextFree
  <1>8. ItemsInOrder'
    BY <1>0, <1>1, <1>4, <1>6, <1>7 DEF Shape, ItemsInOrder, Ahead
  <1>9. ItemsInHands'
    BY <1>0, <1>1, <1>3 DEF Shape, ItemsInHands, Carrying, At
  <1>10. RecentMark'
    <2>1. \A s \in Slots : buffer[s] = RecentlyLeft => s = consumer_idx_buff
      BY <1>0, <1>1, <1>2, ThreadSets DEF Shape, RecentMark, Critical
    <2>2. QED
      BY <1>0, <1>3, <2>1 DEF RecentMark, NextIdx
  <1>11. QED
    BY <1>1, <1>4, <1>7, <1>8, <1>9, <1>10 DEF Shape, Wrap

\* print_buffer takes the '+' away and nothing else.
LEMMA PrintShape ==
    ASSUME StoreInv, NEW t \in Threads,
           \/ print_buffer(t, "p_print", "p_unlock") /\ t \in Producers
           \/ print_buffer(t, "c_print", "c_unlock") /\ t \in Consumers
    PROVE  /\ Shape' /\ Size' = Size /\ Oldest' = Oldest
           /\ \A s \in Slots : buffer[s] \in Items => buffer'[s] = buffer[s]
  <1>0. /\ pc[t] \in {"p_print", "c_print"}
        /\ pc[t] = "p_print" => t \in Producers /\ pc' = [pc EXCEPT ![t] = "p_unlock"]
        /\ pc[t] = "c_print" => t \in Consumers /\ pc' = [pc EXCEPT ![t] = "c_unlock"]
        /\ consumer_idx_buff' = consumer_idx_buff
        /\ producer_idx_buff' = producer_idx_buff
        /\ buffer' = Printed(buffer) /\ item' = item /\ sem_full' = sem_full
    BY DEF print_buffer, Goto, sems
  <1>1. /\ Shape
        /\ pc \in [Threads -> {"absent", "start"} \cup ProducerPCs \cup ConsumerPCs]
    BY DEF StoreInv, LockInv, TypeOK, PcType
  <1>3. \A u \in Threads : IF u = t THEN pc'[u] \in {"p_unlock", "c_unlock"}
                                         /\ (pc[u] = "p_print" <=> pc'[u] = "p_unlock")
                                    ELSE pc'[u] = pc[u]
    BY <1>0, <1>1
  <1>4. Size' = Size
    BY <1>0, <1>3, SizeSame, ThreadSets DEF StoredLabels, PromisedLabels
  <1>5. /\ NextFree' = NextFree /\ Oldest' = Oldest
        /\ At(Consumers, {"mark"})' = At(Consumers, {"mark"})
    BY <1>0, <1>3, EndsSame
  <1>6. \A s \in Slots : /\ buffer'[s] \in Items <=> buffer[s] \in Items
                         /\ buffer[s] \in Items => buffer'[s] = buffer[s]
                         /\ buffer'[s] # RecentlyLeft
    BY <1>0 DEF Printed, RecentlyLeft, EmptySlot
  <1>7. ItemsInOrder'
    BY <1>0, <1>1, <1>4, <1>5, <1>6 DEF Shape, ItemsInOrder, Ahead
  <1>8. ItemsInHands'
    BY <1>0, <1>1, <1>3, ThreadSets DEF Shape, ItemsInHands, Carrying, At
  <1>9. RecentMark'
    BY <1>6 DEF RecentMark
  <1>10. QED
    BY <1>1, <1>4, <1>5, <1>6, <1>7, <1>8, <1>9 DEF Shape, Wrap

\* A truck that has been told what to bring has an item in its hands.
LEMMA ProduceShape ==
    ASSUME StoreInv, NEW t \in Producers, produce(t)
    PROVE  /\ Shape' /\ Size' = Size /\ Oldest' = Oldest
           /\ t \notin Carrying /\ Carrying' = Carrying \cup {t}
  <1>0. /\ t \in Threads /\ pc[t] = "produce" /\ pc' = [pc EXCEPT ![t] = "wait_empty"]
        /\ consumer_idx_buff' = consumer_idx_buff
        /\ producer_idx_buff' = producer_idx_buff
        /\ buffer' = buffer /\ sem_full' = sem_full
    BY ThreadSets DEF produce, Goto, sems, ring
  <1>1. /\ Shape
        /\ pc \in [Threads -> {"absent", "start"} \cup ProducerPCs \cup ConsumerPCs]
        /\ item \in [Threads -> Items \cup {EmptySlot, RecentlyLeft}]
    BY DEF StoreInv, LockInv, TypeOK, PcType
  <1>2. PICK x \in Items : item' = [item EXCEPT ![t] = x]
    BY DEF produce
  <1>3. \A u \in Threads : pc'[u] = IF u = t THEN "wait_empty" ELSE pc[u]
    BY <1>0, <1>1
  <1>4. Size' = Size
    BY <1>0, <1>3, SizeSame, ThreadSets DEF StoredLabels, PromisedLabels
  <1>5. /\ NextFree' = NextFree /\ Oldest' = Oldest
        /\ At(Consumers, {"mark"})' = At(Consumers, {"mark"})
    BY <1>0, <1>3, EndsSame
  <1>6. t \notin Carrying /\ Carrying' = Carrying \cup {t}
    BY <1>0, <1>3, ThreadSets DEF Carrying, At
  <1>7. ItemsInOrder'
    BY <1>0, <1>1, <1>4, <1>5 DEF Shape, ItemsInOrder, Ahead
  <1>8. ItemsInHands'
    BY <1>0, <1>1, <1>2, <1>6 DEF Shape, ItemsInHands
  <1>9. RecentMark'
    BY <1>0, <1>1, <1>3, ThreadSets DEF Shape, RecentMark, NextIdx
  <1>10. QED
    BY <1>1, <1>4, <1>5, <1>6, <1>7, <1>8, <1>9 DEF Shape, Wrap

\* What a step does that is not one of the above.
Quiet ==
    /\ UNCHANGED <<buffer, producer_idx_buff, consumer_idx_buff, item>>
    /\ Size' = Size
    /\ \A u \in Threads : \A l \in {"p_advance", "mark", "c_advance", "c_print"} :
         pc[u] = l <=> pc'[u] = l
    /\ \/ Carrying' = Carrying
       \/ \E t \in Consumers : t \in Carrying /\ Carrying' = Carrying \ {t}

\* The steps of Next, sorted by what they do to the ring and the hands.
LEMMA KindsOfStep ==
    ASSUME StoreInv, [Next]_vars
    PROVE  \/ Quiet
           \/ \E t \in Producers : \/ produce(t) \/ StoreItem(t) \/ AdvanceProducer(t)
                                   \/ print_buffer(t, "p_print", "p_unlock")
           \/ \E t \in Consumers : \/ FetchItem(t) \/ MarkSlot(t) \/ AdvanceConsumer(t)
                                   \/ print_buffer(t, "c_print", "c_unlock")
  <1> DEFINE Loud ==
           \/ \E t \in Producers : \/ produce(t) \/ StoreItem(t) \/ AdvanceProducer(t)
                                   \/ print_buffer(t, "p_print", "p_unlock")
           \/ \E t \in Consumers : \/ FetchItem(t) \/ MarkSlot(t) \/ AdvanceConsumer(t)
                                   \/ print_buffer(t, "c_print", "c_unlock")
  <1> SUFFICES Quiet \/ Loud
    OBVIOUS
  <1>a. /\ TypeOK /\ NotYetCreated
        /\ pc \in [Threads -> {"absent", "start"} \cup ProducerPCs \cup ConsumerPCs]
    BY DEF StoreInv, LockInv, SlotInv, TypeOK, PcType
  \* Nobody moves.
  <1>b. ASSUME UNCHANGED <<ring, sems, pc, item>> PROVE Quiet
    <2>1. Size' = Size
      BY <1>b, SizeSame DEF sems
    <2>2. Carrying' = Carrying
      BY <1>b DEF Carrying, At
    <2>3. QED
      BY <1>b, <2>1, <2>2 DEF Quiet, ring
  \* Thread t moves between statements that touch neither ring nor hands.
  <1>c. ASSUME NEW t \in Threads, NEW to, pc' = [pc EXCEPT ![t] = to],
               UNCHANGED <<ring, item>>, Size' = Size,
               pc[t] \notin {"p_advance", "mark", "c_advance", "c_print"},
               to \notin {"p_advance", "mark", "c_advance", "c_print"},
               \/ t \in Carrying <=> t \in Carrying'
               \/ t \in Carrying /\ t \in Consumers /\ t \notin Carrying'
        PROVE  Quiet
    <2>1. \A u \in Threads : pc'[u] = IF u = t THEN to ELSE pc[u]
      BY <1>a, <1>c
    <2>2. \A u \in Threads : u # t => (u \in Carrying <=> u \in Carrying')
      BY <2>1 DEF Carrying, At
    <2>3. Carrying \subseteq Threads /\ Carrying' \subseteq Threads
      BY ThreadSets DEF Carrying, At
    <2>4. \/ Carrying' = Carrying
          \/ t \in Consumers /\ t \in Carrying /\ Carrying' = Carrying \ {t}
      BY <1>c, <2>2, <2>3
    <2>5. QED
      BY <1>c, <2>1, <2>4 DEF Quiet, ring
  \* The same, when t does not cross the borders of Size and sem_full stays.
  <1>d. ASSUME NEW t \in Threads, NEW to, pc' = [pc EXCEPT ![t] = to],
               sem_full' = sem_full,
               pc[t] \in StoredLabels <=> to \in StoredLabels,
               pc[t] \in PromisedLabels <=> to \in PromisedLabels
        PROVE  Size' = Size
    <2>1. \A u \in Threads : pc'[u] = IF u = t THEN to ELSE pc[u]
      BY <1>a, <1>d
    <2>2. QED
      BY <1>d, <2>1, SizeSame, ThreadSets
  <1> USE <1>a, ThreadSets
  <1>1. ASSUME NEW t \in Threads, CreateThread(t) PROVE Quiet
    <2>1. UNCHANGED <<ring, sems, item>>
      BY <1>1 DEF CreateThread
    <2>2. pc[t] = "absent"
      BY <1>1 DEF CreateThread, NotYetCreated, Threads
    <2>3. pc' = [pc EXCEPT ![t] = "start"] \/ pc' = pc
      BY <1>1, Zenon DEF CreateThread
    <2>4. CASE pc' = pc
      BY <2>1, <2>4, <1>b
    <2>5. CASE pc' = [pc EXCEPT ![t] = "start"]
      <3>1. Size' = Size
        BY <2>1, <2>2, <2>5, <1>d DEF sems, StoredLabels, PromisedLabels
      <3>2. t \notin Carrying /\ t \notin Carrying'
        BY <2>2, <2>5 DEF Carrying, At
      <3>3. QED
        BY <2>1, <2>2, <2>5, <3>1, <3>2, <1>c
    <2>6. QED
      BY <2>3, <2>4, <2>5
  <1>2. ASSUME NEW t \in Threads, JoinThread(t) PROVE Quiet
    BY <1>2, <1>b DEF JoinThread
  <1>3. CASE close_semaphores
    BY <1>3, <1>b DEF close_semaphores
  <1>4. ASSUME NEW t \in Threads, StartThread(t) PROVE Quiet
    <2>1. PICK to \in {"produce", "wait_full"} : pc' = [pc EXCEPT ![t] = to]
      BY <1>4 DEF StartThread, Goto
    <2>2. pc[t] = "start" /\ UNCHANGED <<ring, sems, item>>
      BY <1>4 DEF StartThread, Goto
    <2>3. Size' = Size
      BY <2>1, <2>2, <1>d DEF sems, StoredLabels, PromisedLabels
    <2>4. t \notin Carrying /\ t \notin Carrying'
      BY <2>1, <2>2 DEF Carrying, At
    <2>5. QED
      BY <2>1, <2>2, <2>3, <2>4, <1>c
  <1>5. ASSUME NEW t \in Producers, producer(t) PROVE Quiet \/ Loud
    <2>1. CASE WaitEmpty(t)
      <3>1. /\ pc[t] = "wait_empty" /\ pc' = [pc EXCEPT ![t] = "p_lock"]
            /\ UNCHANGED <<ring, item>> /\ sem_full' = sem_full
        BY <2>1 DEF WaitEmpty, Goto
      <3>2. t \in Carrying /\ t \in Carrying'
        BY <3>1 DEF Carrying, At
      <3>3. Size' = Size
        BY <3>1, <1>d DEF StoredLabels, PromisedLabels
      <3>4. QED
        BY <3>1, <3>2, <3>3, <1>c
    <2>2. CASE LockStep(t, "p_lock", "store")
      <3>1. /\ pc[t] = "p_lock" /\ pc' = [pc EXCEPT ![t] = "store"]
            /\ UNCHANGED <<ring, item>> /\ sem_full' = sem_full
        BY <2>2 DEF LockStep, Goto
      <3>2. t \in Carrying /\ t \in Carrying'
        BY <3>1 DEF Carrying, At
      <3>3. Size' = Size
        BY <3>1, <1>d DEF StoredLabels, PromisedLabels
      <3>4. QED
        BY <3>1, <3>2, <3>3, <1>c
    <2>3. CASE UnlockStep(t, "p_unlock", "post_full")
      <3>1. /\ pc[t] = "p_unlock" /\ pc' = [pc EXCEPT ![t] = "post_full"]
            /\ UNCHANGED <<ring, item>> /\ sem_full' = sem_full
        BY <2>3 DEF UnlockStep, Goto
      <3>2. t \notin Carrying /\ t \notin Carrying'
        BY <3>1 DEF Carrying, At
      <3>3. Size' = Size
        BY <3>1, <1>d DEF StoredLabels, PromisedLabels
      <3>4. QED
        BY <3>1, <3>2, <3>3, <1>c
    <2>4. CASE PostFull(t)
      <3>1. /\ pc[t] = "post_full" /\ pc' = [pc EXCEPT ![t] = "produce"]
            /\ UNCHANGED <<ring, item>> /\ sem_full' = sem_full + 1
        BY <2>4 DEF PostFull, Goto, rk_sema_post
      <3>2. t \notin Carrying /\ t \notin Carrying'
        BY <3>1 DEF Carrying, At
      <3>3. Size' = Size
        BY <3>1, SizeMoves
      <3>4. QED
        BY <3>1, <3>2, <3>3, <1>c
    <2>5. QED
      BY <1>5, <2>1, <2>2, <2>3, <2>4 DEF producer
  <1>6. ASSUME NEW t \in Consumers, consumer(t) PROVE Quiet \/ Loud
    <2>1. CASE WaitFull(t)
      <3>1. /\ pc[t] = "wait_full" /\ pc' = [pc EXCEPT ![t] = "c_lock"]
            /\ UNCHANGED <<ring, item>> /\ sem_full' = sem_full - 1
        BY <2>1 DEF WaitFull, Goto, rk_sema_wait
      <3>2. t \notin Carrying /\ t \notin Carrying'
        BY <3>1 DEF Carrying, At
      <3>3. Size' = Size
        BY <3>1, SizeMoves
      <3>4. QED
        BY <3>1, <3>2, <3>3, <1>c
    <2>2. CASE LockStep(t, "c_lock", "fetch")
      <3>1. /\ pc[t] = "c_lock" /\ pc' = [pc EXCEPT ![t] = "fetch"]
            /\ UNCHANGED <<ring, item>> /\ sem_full' = sem_full
        BY <2>2 DEF LockStep, Goto
      <3>2. t \notin Carrying /\ t \notin Carrying'
        BY <3>1 DEF Carrying, At
      <3>3. Size' = Size
        BY <3>1, <1>d DEF StoredLabels, PromisedLabels
      <3>4. QED
        BY <3>1, <3>2, <3>3, <1>c
    <2>3. CASE UnlockStep(t, "c_unlock", "post_empty")
      <3>1. /\ pc[t] = "c_unlock" /\ pc' = [pc EXCEPT ![t] = "post_empty"]
            /\ UNCHANGED <<ring, item>> /\ sem_full' = sem_full
        BY <2>3 DEF UnlockStep, Goto
      <3>2. t \in Carrying /\ t \in Carrying'
        BY <3>1 DEF Carrying, At
      <3>3. Size' = Size
        BY <3>1, <1>d DEF StoredLabels, PromisedLabels
      <3>4. QED
        BY <3>1, <3>2, <3>3, <1>c
    <2>4. CASE PostEmpty(t)
      <3>1. /\ pc[t] = "post_empty" /\ pc' = [pc EXCEPT ![t] = "consume"]
            /\ UNCHANGED <<ring, item>> /\ sem_full' = sem_full
        BY <2>4 DEF PostEmpty, Goto
      <3>2. t \in Carrying /\ t \in Carrying'
        BY <3>1 DEF Carrying, At
      <3>3. Size' = Size
        BY <3>1, <1>d DEF StoredLabels, PromisedLabels
      <3>4. QED
        BY <3>1, <3>2, <3>3, <1>c
    <2>5. CASE consume(t)
      <3>1. /\ pc[t] = "consume" /\ pc' = [pc EXCEPT ![t] = "wait_full"]
            /\ UNCHANGED <<ring, item>> /\ sem_full' = sem_full
        BY <2>5 DEF consume, Goto, sems
      <3>2. t \in Carrying /\ t \notin Carrying'
        BY <3>1 DEF Carrying, At
      <3>3. Size' = Size
        BY <3>1, <1>d DEF StoredLabels, PromisedLabels
      <3>4. QED
        BY <3>1, <3>2, <3>3, <1>c
    <2>6. QED
      BY <1>6, <2>1, <2>2, <2>3, <2>4, <2>5 DEF consumer
  <1>7. CASE UNCHANGED vars
    BY <1>7, <1>b DEF vars
  <1>8. QED
    BY <1>1, <1>2, <1>3, <1>4, <1>5, <1>6, <1>7 DEF Next, Main, Terminated

\* Every step of main(), a truck or a worker keeps the shape of the ring.
LEMMA StoreStep == StoreInv /\ [Next]_vars => StoreInv'
  <1> SUFFICES ASSUME StoreInv, [Next]_vars PROVE StoreInv'
    OBVIOUS
  <1>1. LockInv' /\ SlotInv'
    BY LockStepInv, SlotStep DEF StoreInv
  <1>2. ASSUME Quiet PROVE Shape'
    BY <1>2, ShapeSame DEF Quiet, StoreInv
  <1>3. ASSUME NEW t \in Producers,
               \/ produce(t) \/ StoreItem(t) \/ AdvanceProducer(t)
               \/ print_buffer(t, "p_print", "p_unlock")
        PROVE  Shape'
    BY <1>3, ThreadSets, ProduceShape, StoreItemShape, AdvanceProducerShape, PrintShape
  <1>4. ASSUME NEW t \in Consumers,
               \/ FetchItem(t) \/ MarkSlot(t) \/ AdvanceConsumer(t)
               \/ print_buffer(t, "c_print", "c_unlock")
        PROVE  Shape'
    BY <1>4, ThreadSets, FetchItemShape, MarkSlotShape, AdvanceConsumerShape, PrintShape
  <1>5. QED
    BY <1>1, <1>2, <1>3, <1>4, KindsOfStep DEF StoreInv

\* The invariant holds from the start, and for ever.
LEMMA StoreAlways == Spec => []StoreInv
  <1>1. Init => StoreInv
    BY LockInit, SlotInit, ShapeInit DEF StoreInv
  <1>2. QED
    BY <1>1, StoreStep, PTL DEF Spec

\* A truck stores over a slot that holds no item, a worker takes an item and
\* never a mark, and no '+' outlives the picture it was made for: for any
\* number of trucks and workers and any BUFFER_LEN.
THEOREM RingContentsAlways == Spec => []RingContents
  <1>1. ASSUME StoreInv PROVE RingContents
    <2>0. Shape /\ SlotInv /\ producer_idx_buff \in Slots /\ consumer_idx_buff \in Slots
      BY <1>1 DEF StoreInv, LockInv, TypeOK
    <2>1. NoGhostItem
      BY <2>0, ThreadSets DEF Shape, ItemsInHands, Carrying, At, NoGhostItem, print_item
    <2>2. ASSUME NEW t \in Producers, pc[t] = "store"
          PROVE  buffer[producer_idx_buff] \notin Items
      <3>1. \A u \in Threads : u # t => pc[u] \notin Critical
        BY <1>1, <2>2, ThreadSets DEF StoreInv, LockInv, MutualExclusion, Critical
      <3>2. /\ At(Producers, {"p_advance"}) = {} /\ At(Consumers, {"mark"}) = {}
            /\ At(Consumers, {"mark", "c_advance"}) = {}
        BY <2>2, <3>1, ThreadSets DEF At, Critical
      <3>3. NextFree = producer_idx_buff /\ Oldest = consumer_idx_buff
        BY <3>2 DEF NextFree, Oldest
      <3>4. Size \in 0 .. BUFFER_LEN /\ Size < BUFFER_LEN
        BY <2>0, <2>2, SizeBound
      <3>5. Ahead(Oldest, producer_idx_buff) = Size
        BY <2>0, <3>3, <3>4 DEF Shape, Wrap, Ahead, Slots
      <3>6. QED
        BY <2>0, <3>2, <3>4, <3>5 DEF Shape, ItemsInOrder
    <2>3. QED
      BY <2>0, <2>1, <2>2 DEF RingContents, NoOverwrite, Shape
  <1>2. QED
    BY <1>1, StoreAlways, PTL

-----------------------------------------------------------------------------
(* The warehouse is a bounded first-in first-out store *)

\* The slot of the k-th item.
SlotOf(k) == Wrap(Oldest + k - 1)

QueueInRing ==
    /\ Oldest \in Slots
    /\ Size \in 0 .. BUFFER_LEN
    /\ \A k \in 1 .. Size : /\ SlotOf(k) \in Slots
                            /\ Ahead(Oldest, SlotOf(k)) = k - 1
                            /\ Stored[k] = buffer[SlotOf(k)]
                            /\ buffer[SlotOf(k)] \in Items
    /\ Stored \in Seq(Items)
    /\ Len(Stored) = Size

\* The stored items are a sequence, found in the Size slots from Oldest on.
LEMMA StoredItems == StoreInv => QueueInRing
  <1> SUFFICES ASSUME StoreInv PROVE QueueInRing
    OBVIOUS
  <1>1. Oldest \in Slots
    BY NextIdxType DEF Oldest, StoreInv, LockInv, TypeOK
  <1>2. Size \in 0 .. BUFFER_LEN
    BY SizeBound DEF StoreInv
  <1>3. ASSUME NEW k \in 1 .. Size
        PROVE  /\ SlotOf(k) \in Slots
               /\ Ahead(Oldest, SlotOf(k)) = k - 1
               /\ Stored[k] = buffer[SlotOf(k)]
               /\ buffer[SlotOf(k)] \in Items
    <2>1. SlotOf(k) \in Slots /\ Ahead(Oldest, SlotOf(k)) = k - 1
      BY <1>1, <1>2 DEF SlotOf, Wrap, Ahead, Slots
    <2>2. (Oldest + k - 1) % BUFFER_LEN = SlotOf(k)
      <3>1. Oldest + k - 1 \in 0 .. 2 * BUFFER_LEN - 1
        BY <1>1, <1>2 DEF Slots
      <3>2. QED
        BY <3>1, ModIsWrap DEF SlotOf
    <2>3. Stored[k] = buffer[SlotOf(k)]
      BY <2>2 DEF Stored
    <2>4. buffer[SlotOf(k)] \in Items
      BY <1>2, <2>1 DEF StoreInv, Shape, ItemsInOrder
    <2>5. QED
      BY <2>1, <2>3, <2>4
  <1>4. Stored \in [1 .. Size -> Items]
    BY <1>3 DEF Stored
  <1>5. Stored \in Seq(Items) /\ Len(Stored) = Size
    BY <1>2, <1>4, SeqDef, LenProperties
  <1>6. QED
    BY <1>1, <1>2, <1>3, <1>5 DEF QueueInRing

\* A step that leaves the two ends and the stored slots alone keeps the queue.
LEMMA StoredSame ==
    ASSUME StoreInv, StoreInv', Size' = Size, Oldest' = Oldest,
           \A k \in 1 .. Size : buffer'[SlotOf(k)] = buffer[SlotOf(k)]
    PROVE  Stored' = Stored
  <1>1. QueueInRing /\ QueueInRing'
    BY StoredItems, PTL
  <1>2. \A k \in 1 .. Size : SlotOf(k)' = SlotOf(k)
    BY DEF SlotOf, Wrap
  <1>3. \A k \in 1 .. Size : Stored'[k] = Stored[k]
    BY <1>1, <1>2 DEF QueueInRing
  <1>4. /\ Stored \in Seq(Items) /\ Stored' \in Seq(Items)
        /\ Len(Stored) = Size /\ Len(Stored') = Size
    BY <1>1 DEF QueueInRing
  <1>5. QED
    BY <1>3, <1>4, SeqEqual

\* add_to_buffer puts its item behind the queue.
LEMMA StoreAppends ==
    ASSUME StoreInv, StoreInv', NEW t \in Producers, StoreItem(t)
    PROVE  Stored' = Append(Stored, item[t])
  <1>1. QueueInRing /\ QueueInRing'
    BY StoredItems, PTL
  <1>2. /\ Size' = Size + 1 /\ Size < BUFFER_LEN /\ Oldest' = Oldest
        /\ producer_idx_buff = Wrap(Oldest + Size)
        /\ item[t] \in Items
    BY StoreItemShape
  <1>3. /\ buffer' = [buffer EXCEPT ![producer_idx_buff] = item[t]]
        /\ buffer \in [Slots -> Items \cup {EmptySlot, RecentlyLeft}]
        /\ producer_idx_buff \in Slots
    BY DEF StoreItem, StoreInv, LockInv, TypeOK
  <1>4. Size \in Nat /\ Oldest \in Slots
    BY <1>1 DEF QueueInRing
  <1>5. \A k \in 1 .. Size + 1 : SlotOf(k)' = SlotOf(k)
    BY <1>2 DEF SlotOf, Wrap
  <1>6. ASSUME NEW k \in 1 .. Size PROVE Stored'[k] = Stored[k]
    <2>1. SlotOf(k) \in Slots /\ SlotOf(k) # producer_idx_buff
      BY <1>2, <1>4 DEF SlotOf, Wrap, Slots
    <2>2. buffer'[SlotOf(k)] = buffer[SlotOf(k)]
      BY <1>3, <2>1
    <2>3. k \in 1 .. Size + 1
      BY <1>4
    <2>4. QED
      BY <1>1, <1>2, <1>5, <2>2, <2>3 DEF QueueInRing
  <1>7. Stored'[Size + 1] = item[t]
    <2>1. SlotOf(Size + 1) = producer_idx_buff
      BY <1>2, <1>4 DEF SlotOf, Wrap, Slots
    <2>2. Size + 1 \in 1 .. Size + 1
      BY <1>4
    <2>3. QED
      BY <1>1, <1>2, <1>3, <1>5, <2>1, <2>2 DEF QueueInRing
  <1>8. /\ Stored \in Seq(Items) /\ Stored' \in Seq(Items)
        /\ Len(Stored) = Size /\ Len(Stored') = Size + 1
    BY <1>1, <1>2 DEF QueueInRing
  <1>9. /\ Append(Stored, item[t]) \in Seq(Items)
        /\ Len(Append(Stored, item[t])) = Size + 1
        /\ \A k \in 1 .. Size + 1 :
             Append(Stored, item[t])[k] = IF k = Size + 1 THEN item[t] ELSE Stored[k]
    BY <1>2, <1>8
  <1>10. \A k \in 1 .. Size + 1 : Stored'[k] = Append(Stored, item[t])[k]
    BY <1>4, <1>6, <1>7, <1>9
  <1>11. QED
    BY <1>8, <1>9, <1>10, SeqEqual

\* remove_from_buffer takes the head of the queue.
LEMMA FetchTakesHead ==
    ASSUME StoreInv, StoreInv', NEW t \in Consumers, FetchItem(t)
    PROVE  /\ Stored # << >>
           /\ item' = [item EXCEPT ![t] = Head(Stored)]
           /\ Stored' = Tail(Stored)
  <1>1. QueueInRing /\ QueueInRing'
    BY StoredItems, PTL
  <1>2. /\ Size' = Size - 1 /\ Size \in 1 .. BUFFER_LEN
        /\ Oldest = consumer_idx_buff /\ Oldest' = Wrap(Oldest + 1)
    BY FetchItemShape
  <1>3. /\ buffer' = buffer /\ item' = [item EXCEPT ![t] = buffer[consumer_idx_buff]]
        /\ Oldest \in Slots
    BY <1>1 DEF FetchItem, ring, QueueInRing
  <1>4. /\ Stored \in Seq(Items) /\ Stored' \in Seq(Items)
        /\ Len(Stored) = Size /\ Len(Stored') = Size - 1
    BY <1>1, <1>2 DEF QueueInRing
  <1>5. Stored # << >>
    BY <1>2, <1>4
  <1>6. Head(Stored) = buffer[consumer_idx_buff]
    <2>1. SlotOf(1) = consumer_idx_buff
      BY <1>2, <1>3 DEF SlotOf, Wrap, Slots
    <2>2. Stored[1] = buffer[consumer_idx_buff]
      BY <1>1, <1>2, <2>1 DEF QueueInRing
    <2>3. QED
      BY <1>4, <1>5, <2>2
  <1>7. \A k \in 1 .. Size - 1 : SlotOf(k)' = SlotOf(k + 1)
    BY <1>2, <1>3 DEF SlotOf, Wrap, Slots
  <1>8. \A k \in 1 .. Size - 1 : Stored'[k] = Stored[k + 1]
    BY <1>1, <1>2, <1>3, <1>7, SMTT(20) DEF QueueInRing
  <1>9. /\ Tail(Stored) \in Seq(Items) /\ Len(Tail(Stored)) = Size - 1
        /\ \A k \in 1 .. Size - 1 : Tail(Stored)[k] = Stored[k + 1]
    BY <1>4, <1>5, HeadTailProperties
  <1>10. Stored' = Tail(Stored)
    BY <1>4, <1>8, <1>9, SeqEqual
  <1>11. QED
    BY <1>3, <1>5, <1>6, <1>10

\* Every step of the warehouse is a step of the bounded store, or none.
LEMMA RefinesStep ==
    StoreInv /\ StoreInv' /\ [Next]_vars => [Fifo!FifoNext]_(Fifo!fifoVars)
  <1> SUFFICES ASSUME StoreInv, StoreInv', [Next]_vars
               PROVE  Fifo!FifoNext \/ UNCHANGED Fifo!fifoVars
    OBVIOUS
  <1>0. QueueInRing
    BY StoredItems
  <1>a. pc \in [Threads -> {"absent", "start"} \cup ProducerPCs \cup ConsumerPCs]
    BY DEF StoreInv, LockInv, TypeOK, PcType
  <1>b. ASSUME Stored' = Stored, item' = item, Carrying' = Carrying
        PROVE  UNCHANGED Fifo!fifoVars
    BY <1>b DEF Fifo!fifoVars
  <1>1. CASE Quiet
    <2>1. Oldest' = Oldest
      BY <1>1, EndsSame DEF Quiet
    <2>2. Stored' = Stored
      BY <1>1, <2>1, StoredSame DEF Quiet
    <2>3. CASE Carrying' = Carrying
      BY <1>1, <2>2, <2>3, <1>b DEF Quiet
    <2>4. ASSUME NEW c \in Consumers, c \in Carrying, Carrying' = Carrying \ {c}
          PROVE  Fifo!FifoNext
      <3>1. Fifo!Deliver(c)
        BY <1>1, <2>2, <2>4 DEF Fifo!Deliver, Quiet
      <3>2. QED
        BY <3>1 DEF Fifo!FifoNext
    <2>5. QED
      BY <1>1, <2>3, <2>4 DEF Quiet
  <1>2. ASSUME NEW t \in Producers, produce(t) PROVE Fifo!FifoNext
    <2>1. /\ Size' = Size /\ Oldest' = Oldest /\ buffer' = buffer
          /\ t \notin Carrying /\ Carrying' = Carrying \cup {t}
      BY <1>2, ProduceShape DEF produce, ring
    <2>2. Stored' = Stored
      BY <2>1, StoredSame
    <2>3. Fifo!Load(t)
      BY <1>2, <2>1, <2>2 DEF Fifo!Load, produce
    <2>4. QED
      BY <2>3 DEF Fifo!FifoNext
  <1>3. ASSUME NEW t \in Producers, StoreItem(t) PROVE Fifo!FifoNext
    <2>1. Stored' = Append(Stored, item[t])
      BY <1>3, StoreAppends
    <2>2. Len(Stored) < BUFFER_LEN
      BY <1>0, <1>3, StoreItemShape DEF QueueInRing
    <2>3. t \in Carrying /\ Carrying' = Carrying \ {t} /\ item' = item
      BY <1>3, <1>a, ThreadSets DEF StoreItem, Goto, Carrying, At
    <2>4. Fifo!Put(t)
      BY <2>1, <2>2, <2>3 DEF Fifo!Put
    <2>5. QED
      BY <2>4 DEF Fifo!FifoNext
  <1>4. ASSUME NEW t \in Producers, AdvanceProducer(t) PROVE UNCHANGED Fifo!fifoVars
    <2>1. Size' = Size /\ Oldest' = Oldest /\ buffer' = buffer /\ item' = item
      BY <1>4, AdvanceProducerShape DEF AdvanceProducer
    <2>2. Carrying' = Carrying
      BY <1>4, <1>a, ThreadSets DEF AdvanceProducer, Goto, Carrying, At
    <2>3. QED
      BY <2>1, <2>2, StoredSame, <1>b
  <1>5. ASSUME NEW t \in Threads,
               \/ print_buffer(t, "p_print", "p_unlock") /\ t \in Producers
               \/ print_buffer(t, "c_print", "c_unlock") /\ t \in Consumers
        PROVE  UNCHANGED Fifo!fifoVars
    <2>1. /\ Size' = Size /\ Oldest' = Oldest
          /\ \A s \in Slots : buffer[s] \in Items => buffer'[s] = buffer[s]
      BY <1>5, PrintShape
    <2>2. Stored' = Stored
      BY <1>0, <2>1, StoredSame DEF QueueInRing
    <2>3. item' = item /\ Carrying' = Carrying
      BY <1>5, <1>a, ThreadSets DEF print_buffer, Goto, Carrying, At
    <2>4. QED
      BY <2>2, <2>3, <1>b
  <1>6. ASSUME NEW t \in Consumers, FetchItem(t) PROVE Fifo!FifoNext
    <2>1. /\ Stored # << >>
          /\ item' = [item EXCEPT ![t] = Head(Stored)]
          /\ Stored' = Tail(Stored)
      BY <1>6, FetchTakesHead
    <2>2. t \notin Carrying /\ Carrying' = Carrying \cup {t}
      BY <1>6, <1>a, ThreadSets DEF FetchItem, Goto, Carrying, At
    <2>3. Fifo!Get(t)
      BY <2>1, <2>2 DEF Fifo!Get
    <2>4. QED
      BY <2>3 DEF Fifo!FifoNext
  <1>7. ASSUME NEW t \in Consumers, MarkSlot(t) PROVE UNCHANGED Fifo!fifoVars
    <2>1. /\ Size' = Size /\ Oldest' = Oldest /\ Size < BUFFER_LEN
          /\ Ahead(Oldest, consumer_idx_buff) = BUFFER_LEN - 1
      BY <1>7, MarkSlotShape
    <2>2. /\ buffer' = [buffer EXCEPT ![consumer_idx_buff] = RecentlyLeft]
          /\ buffer \in [Slots -> Items \cup {EmptySlot, RecentlyLeft}]
      BY <1>7 DEF MarkSlot, StoreInv, LockInv, TypeOK
    <2>3. \A k \in 1 .. Size : SlotOf(k) \in Slots /\ SlotOf(k) # consumer_idx_buff
      <3>1. ASSUME NEW k \in 1 .. Size PROVE k - 1 # BUFFER_LEN - 1
        BY <1>0, <2>1 DEF QueueInRing
      <3>2. QED
        BY <1>0, <2>1, <3>1 DEF QueueInRing
    <2>4. \A k \in 1 .. Size : buffer'[SlotOf(k)] = buffer[SlotOf(k)]
      BY <2>2, <2>3
    <2>5. item' = item /\ Carrying' = Carrying
      BY <1>7, <1>a, ThreadSets DEF MarkSlot, Goto, Carrying, At
    <2>6. QED
      BY <2>1, <2>4, <2>5, StoredSame, <1>b
  <1>8. ASSUME NEW t \in Consumers, AdvanceConsumer(t) PROVE UNCHANGED Fifo!fifoVars
    <2>1. Size' = Size /\ Oldest' = Oldest /\ buffer' = buffer /\ item' = item
      BY <1>8, AdvanceConsumerShape DEF AdvanceConsumer
    <2>2. Carrying' = Carrying
      BY <1>8, <1>a, ThreadSets DEF AdvanceConsumer, Goto, Carrying, At
    <2>3. QED
      BY <2>1, <2>2, StoredSame, <1>b
  <1>9. QED
    BY <1>1, <1>2, <1>3, <1>4, <1>5, <1>6, <1>7, <1>8, KindsOfStep, ThreadSets

\* The empty warehouse is an empty store.
LEMMA RefinesInit == Init => Fifo!FifoInit
  <1> SUFFICES ASSUME Init PROVE Fifo!FifoInit
    OBVIOUS
  <1>1. Carrying = {} /\ At(Producers, StoredLabels) = {} /\ At(Consumers, PromisedLabels) = {}
    BY ThreadSets DEF Init, Carrying, At, StoredLabels, PromisedLabels
  <1>2. Size = 0
    BY <1>1, FS_EmptySet DEF Size, StoredLabels, PromisedLabels, Init,
         init_semaphores, rk_sema_init
  <1>3. Stored = << >>
    BY <1>2 DEF Stored
  <1>4. item = [t \in Producers \cup Consumers |-> 0]
    BY ThreadSets DEF Init
  <1>5. QED
    BY <1>1, <1>3, <1>4 DEF Fifo!FifoInit

\* c_lab05_b.c is a first-in first-out store of BUFFER_LEN items, whatever
\* the number of trucks and workers: items leave in the order in which they
\* were stored, none is lost, overwritten or handed out twice.
THEOREM WarehouseImplementsFifo == Spec => FifoRefinement
  BY StoreAlways, RefinesInit, RefinesStep, PTL DEF Spec, FifoRefinement, Fifo!FifoSpec

-----------------------------------------------------------------------------
(* The numbers of trucks and workers.  OwnNumber is not inductive: it      *)
(* needs that main() has put into the shared elements of thread_no what    *)
(* the threads that still have to read them expect.                        *)

NumberInv ==
    /\ TypeOK /\ NotYetCreated
    /\ \A t \in Threads : pc[t] # "absent" => thread_no[Arg(t)] = Arg(t)
    /\ OwnNumber

\* No thread exists yet when main() starts.
LEMMA NumberInit == Init => NumberInv
  <1> SUFFICES ASSUME Init PROVE NumberInv
    OBVIOUS
  <1>1. TypeOK /\ NotYetCreated
    BY SlotInit DEF SlotInv
  <1>2. QED
    BY <1>1 DEF NumberInv, Init, OwnNumber

\* main() rewrites an element of thread_no with the value it already has.
LEMMA NumberStep == NumberInv /\ [Next]_vars => NumberInv'
  <1> SUFFICES ASSUME NumberInv, [Next]_vars PROVE NumberInv'
    OBVIOUS
  <1>0. TypeOK' /\ NotYetCreated'
    BY TypeStep, NotYetCreatedStep DEF NumberInv
  <1> DEFINE Filled == \A t \in Threads : pc[t] # "absent" => thread_no[Arg(t)] = Arg(t)
  <1>a. SUFFICES Filled' /\ OwnNumber'
    BY <1>0 DEF NumberInv
  <1>b. /\ Filled /\ OwnNumber /\ NotYetCreated
        /\ pc \in [Threads -> {"absent", "start"} \cup ProducerPCs \cup ConsumerPCs]
        /\ thread_no \in [Threads -> Int] /\ id \in [Threads -> Int]
        /\ \A t \in Threads : Arg(t) \in Threads
    BY ThreadSets DEF NumberInv, TypeOK, PcType
  <1> USE <1>b DEF OwnNumber
  \* A step of a thread past its first statement.
  <1>c. ASSUME NEW t \in Threads, NEW to, pc[t] \notin {"absent", "start"},
               pc' = [pc EXCEPT ![t] = to], UNCHANGED <<main, id>>
        PROVE  Filled' /\ OwnNumber'
    BY <1>c DEF main, Arg
  <1>1. ASSUME NEW t \in Threads, CreateThread(t) PROVE Filled' /\ OwnNumber'
    <2>1. pc' = [pc EXCEPT ![t] = "start"] \/ pc' = pc
      BY <1>1, Zenon DEF CreateThread
    <2>2. pc[t] = "absent"
      BY <1>1 DEF CreateThread, NotYetCreated, Threads
    <2>3. thread_no' = [thread_no EXCEPT ![Arg(t)] = Arg(t)] /\ id' = id
      BY <1>1 DEF CreateThread, ArgValue
    <2>4. \A u \in Threads : u # t => pc'[u] = pc[u]
      BY <2>1
    <2>5. \A u \in Threads : thread_no[Arg(u)] = Arg(u) \/ u = t => thread_no'[Arg(u)] = Arg(u)
      BY <2>3
    <2>6. Filled'
      BY <2>4, <2>5 DEF Arg
    <2>7. OwnNumber'
      BY <2>1, <2>2, <2>3, <2>4 DEF Arg
    <2>8. QED
      BY <2>6, <2>7
  <1>2. ASSUME NEW t \in Threads, JoinThread(t) PROVE Filled' /\ OwnNumber'
    BY <1>2 DEF JoinThread, Arg
  <1>3. CASE close_semaphores
    BY <1>3 DEF close_semaphores, Arg
  <1>4. ASSUME NEW t \in Threads, StartThread(t) PROVE Filled' /\ OwnNumber'
    <2>1. /\ pc[t] = "start" /\ thread_no' = thread_no
          /\ id' = [id EXCEPT ![t] = thread_no[Arg(t)] + 1]
          /\ \A u \in Threads : u # t => pc'[u] = pc[u]
      BY <1>4 DEF StartThread, Goto, main
    <2>2. thread_no[Arg(t)] = Arg(t)
      BY <2>1
    <2>3. QED
      BY <2>1, <2>2 DEF Arg
  <1>5. ASSUME NEW t \in Producers, producer(t) PROVE Filled' /\ OwnNumber'
    <2>1. \E to : pc[t] \notin {"absent", "start"} /\ pc' = [pc EXCEPT ![t] = to]
      BY <1>5 DEF producer, produce, WaitEmpty, LockStep, StoreItem,
           AdvanceProducer, print_buffer, UnlockStep, PostFull, Goto
    <2>2. UNCHANGED <<main, id>>
      BY <1>5 DEF producer, produce, WaitEmpty, LockStep, StoreItem,
           AdvanceProducer, print_buffer, UnlockStep, PostFull
    <2>3. QED
      BY <2>1, <2>2, <1>c, ThreadSets
  <1>6. ASSUME NEW t \in Consumers, consumer(t) PROVE Filled' /\ OwnNumber'
    <2>1. \E to : pc[t] \notin {"absent", "start"} /\ pc' = [pc EXCEPT ![t] = to]
      BY <1>6 DEF consumer, WaitFull, LockStep, FetchItem, MarkSlot,
           AdvanceConsumer, print_buffer, UnlockStep, PostEmpty, consume, Goto
    <2>2. UNCHANGED <<main, id>>
      BY <1>6 DEF consumer, WaitFull, LockStep, FetchItem, MarkSlot,
           AdvanceConsumer, print_buffer, UnlockStep, PostEmpty, consume
    <2>3. QED
      BY <2>1, <2>2, <1>c, ThreadSets
  <1>7. CASE UNCHANGED vars
    BY <1>7 DEF vars, main, Arg
  <1>8. QED
    BY <1>1, <1>2, <1>3, <1>4, <1>5, <1>6, <1>7 DEF Next, Main, Terminated

\* Every truck and worker gets its own number, counted from 1 in each role,
\* although a truck may read its element of thread_no after main() has
\* written it again for a worker.
THEOREM OwnNumberAlways == Spec => []OwnNumber
  <1>1. NumberInv => OwnNumber
    BY DEF NumberInv
  <1>2. QED
    BY NumberInit, NumberStep, <1>1, PTL DEF Spec

=============================================================================
