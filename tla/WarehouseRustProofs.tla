------------------------- MODULE WarehouseRustProofs -------------------------
(***************************************************************************)
(* Theorems about the warehouse of rust/r_lab05_b.rs, for any number of    *)
(* trucks and workers and any length of the ring buffer: what the sloths   *)
(* contain, and that the warehouse implements BoundedFifo.                 *)
(*                                                                         *)
(* The values of its two semaphores go below 0 while threads sleep, so     *)
(* that they do not count sloths.  What is conserved is the flow: the      *)
(* value, the threads that have taken 1 from it and not yet used it (the   *)
(* sleepers among them), and those that owe it a post.                     *)
(***************************************************************************)
EXTENDS WarehouseRust, FiniteSetTheorems, SequenceTheorems, TLAPS

USE SizeAssumption, ItemsAssumption

-----------------------------------------------------------------------------
(* One step inside a semaphore, for either of the two *)

WaitCalls == {"wait", "wait_locked", "asleep", "woken"}
PostCalls == {"post", "post_locked"}
Calls     == {"none"} \cup WaitCalls \cup PostCalls

Sleeping(c) == {t \in Threads : c[t] = "asleep"}

\* A step of t takes the value from v to w and the calls from c to d.
PassOn(v, w, c, d, t) ==
    /\ w = v
    /\ \/ c[t] = "wait" /\ d = [c EXCEPT ![t] = "wait_locked"]
       \/ c[t] = "woken" /\ d = [c EXCEPT ![t] = "none"]
       \/ c[t] = "post" /\ d = [c EXCEPT ![t] = "post_locked"]

Take(v, w, c, d, t) ==
    /\ c[t] = "wait_locked" /\ w = v - 1
    /\ d = [c EXCEPT ![t] = IF w < 0 THEN "asleep" ELSE "none"]

Give(v, w, c, d, t) ==
    /\ c[t] = "post_locked" /\ w = v + 1
    /\ IF w <= 0 /\ Sleeping(c) # {}
       THEN \E u \in Sleeping(c) : d = [c EXCEPT ![t] = "none", ![u] = "woken"]
       ELSE d = [c EXCEPT ![t] = "none"]

SemStep(v, w, c, d, t) == PassOn(v, w, c, d, t) \/ Take(v, w, c, d, t) \/ Give(v, w, c, d, t)

\* A negative value counts the sleepers.
Owed(v, c) ==
    /\ v \in Int
    /\ c \in [Threads -> Calls]
    /\ Cardinality(Sleeping(c)) = IF v < 0 THEN -v ELSE 0

\* Threads of S that have got past the subtraction of wait() and not yet left
\* the statements L; threads of S that are at the statements L or in post().
Takers(S, L, p, c) ==
    {t \in S : p[t] \in L \/ (p[t] = "wait" /\ c[t] \in {"asleep", "woken", "none"})}
Givers(S, L, p, c) == {t \in S : p[t] \in L \/ c[t] \in PostCalls}

\* The threads of S only wait, where they are at "wait", those of G only post.
Roles(S, G, p, c) ==
    /\ \A t \in S : c[t] # "none" => c[t] \in WaitCalls /\ p[t] = "wait"
    /\ \A t \in G : c[t] # "none" => c[t] \in PostCalls /\ p[t] = "posting"

-----------------------------------------------------------------------------
(* The invariant *)

TruckPCs  == {"absent", "begin", "wait", "produce", "add", "p_advance", "p_print",
              "unlock", "post", "posting"}
WorkerPCs == {"absent", "begin", "wait", "remove", "delete", "c_advance", "c_print",
              "consume", "unlock", "post", "posting"}

\* Where the buffer is locked.
Locked == {"produce", "add", "p_advance", "p_print", "unlock",
           "remove", "delete", "c_advance", "c_print", "consume"}

Places ==
    /\ pc \in [Threads -> TruckPCs \cup WorkerPCs]
    /\ \A t \in Producers : pc[t] \in TruckPCs
    /\ \A t \in Consumers : pc[t] \in WorkerPCs
    /\ \A t \in Threads : pc[t] \in Locked <=> holder = t
    /\ main_i \in Nat
    /\ main_pc = "spawn" => \A t \in Threads : t >= main_i => pc[t] = "absent"

Semaphores ==
    /\ Owed(full_value, full_call) /\ Roles(Consumers, Producers, pc, full_call)
    /\ Owed(empty_value, empty_call) /\ Roles(Producers, Consumers, pc, empty_call)

\* Workers that were promised an item, trucks that have stored one and not
\* yet posted it; trucks that were granted a sloth, workers that have emptied
\* one and not yet posted it.
Promised == Takers(Consumers, {"remove"}, pc, full_call)
Filled   == Givers(Producers, {"p_advance", "p_print", "unlock", "post"}, pc, full_call)
Granted  == Takers(Producers, {"produce", "add"}, pc, empty_call)
Emptied  == Givers(Consumers, {"delete", "c_advance", "c_print", "consume", "unlock", "post"},
                   pc, empty_call)

FullFlow  == full_value + Cardinality(Promised) + Cardinality(Filled)
EmptyFlow == empty_value + Cardinality(Granted) + Cardinality(Emptied)

Size == Cardinality(Stored)

\* No sloth is lost or given out twice.
SlothsConserved == Size = FullFlow /\ Size + EmptyFlow = BUFFER_LEN

\* Where index i, at most one turn beyond the end of the ring, is in it, and
\* how many sloths s is ahead of sloth o.
Wrap(i)     == IF i < BUFFER_LEN THEN i ELSE i - BUFFER_LEN
Ahead(o, s) == IF s >= o THEN s - o ELSE s - o + BUFFER_LEN

\* Where the next item will be stored.
NextFree == IF At(Producers, {"p_advance"}) # {} THEN NextIdx(producer_idx) ELSE producer_idx

\* The items are in the Size sloths from Oldest on, and in the hands of those
\* who have something to store or to deliver.
Ring ==
    /\ TypeOK
    /\ NextFree = Wrap(Oldest + Size)
    /\ \A s \in Sloths : s \in Stored <=> Ahead(Oldest, s) < Size
    /\ \A t \in Busy : item[t] \in Items
    /\ RecentMark

\* Holds as long as no return of Condvar::wait is spurious.
RustInv == Places /\ Semaphores /\ SlothsConserved /\ Ring

\* Every step but a spurious return.
CalmNext == Main \/ (\E t \in Threads : Thread(t)) \/ Terminated

\* Holds whatever Condvar::wait does: it rests on the mutex alone.
Base ==
    /\ Places /\ TypeOK /\ RecentMark
    /\ \A t \in Producers : pc[t] = "add" => item[t] \in Items
    /\ full_strays \in Nat /\ empty_strays \in Nat

-----------------------------------------------------------------------------
(* Sets of threads *)

\* Trucks and workers share out the threads, which can be counted.
LEMMA ThreadSets ==
    /\ Producers \cup Consumers = Threads /\ Producers \cap Consumers = {}
    /\ \A t \in Threads : t \in Nat
    /\ Nobody \notin Threads
    /\ IsFiniteSet(Threads)
    /\ \A S \in SUBSET Threads : IsFiniteSet(S) /\ Cardinality(S) \in Nat
  <1>1. NO_TH \in Nat
    BY DEF NO_TH
  <1>2. IsFiniteSet(Threads)
    BY <1>1, FS_Interval DEF Threads
  <1>3. \A S \in SUBSET Threads : IsFiniteSet(S) /\ Cardinality(S) \in Nat
    BY <1>2, FS_Subset, FS_CardinalityType
  <1>4. QED
    BY <1>1, <1>2, <1>3 DEF Threads, Producers, Consumers, NO_TH, Nobody

\* A set of threads that gains or loses one.
LEMMA OneMore ==
    ASSUME NEW S \in SUBSET Threads, NEW t \in Threads
    PROVE  /\ t \notin S => Cardinality(S \cup {t}) = Cardinality(S) + 1
           /\ t \in S => Cardinality(S \ {t}) = Cardinality(S) - 1
  BY ThreadSets, FS_AddElement, FS_RemoveElement

\* A negative value counts the sleepers after every step of wait() and post(),
\* too: post() wakes one whenever the value was negative.
LEMMA OwedStep ==
    ASSUME NEW v, NEW w, NEW c, NEW d, NEW t \in Threads,
           Owed(v, c), SemStep(v, w, c, d, t)
    PROVE  Owed(w, d)
  <1>0. /\ v \in Int /\ c \in [Threads -> Calls]
        /\ Sleeping(c) \in SUBSET Threads /\ Cardinality(Sleeping(c)) \in Nat
        /\ Cardinality(Sleeping(c)) = IF v < 0 THEN -v ELSE 0
    BY ThreadSets DEF Owed, Sleeping
  <1>1. CASE PassOn(v, w, c, d, t)
    <2>1. w = v /\ d \in [Threads -> Calls] /\ Sleeping(d) = Sleeping(c)
      BY <1>0, <1>1 DEF PassOn, Sleeping, Calls, WaitCalls, PostCalls
    <2>2. QED
      BY <1>0, <2>1 DEF Owed
  <1>2. CASE Take(v, w, c, d, t)
    <2>1. w = v - 1 /\ d \in [Threads -> Calls] /\ t \notin Sleeping(c)
      BY <1>0, <1>2 DEF Take, Sleeping, Calls, WaitCalls, PostCalls
    <2>2. Sleeping(d) = IF w < 0 THEN Sleeping(c) \cup {t} ELSE Sleeping(c)
      BY <1>0, <1>2 DEF Take, Sleeping
    <2>3. Cardinality(Sleeping(c) \cup {t}) = Cardinality(Sleeping(c)) + 1
      BY <1>0, <2>1, OneMore
    <2>4. QED
      BY <1>0, <2>1, <2>2, <2>3 DEF Owed
  <1>3. CASE Give(v, w, c, d, t)
    <2>1. w = v + 1 /\ t \notin Sleeping(c)
      BY <1>0, <1>3 DEF Give, Sleeping
    <2>2. Sleeping(c) = {} <=> v >= 0
      BY <1>0, ThreadSets, FS_EmptySet
    <2>3. CASE v >= 0
      <3>1. d = [c EXCEPT ![t] = "none"]
        BY <1>0, <1>3, <2>1, <2>2, <2>3 DEF Give
      <3>2. d \in [Threads -> Calls] /\ Sleeping(d) = Sleeping(c)
        BY <1>0, <2>1, <3>1 DEF Sleeping, Calls
      <3>3. QED
        BY <1>0, <2>1, <2>3, <3>2 DEF Owed
    <2>4. CASE v < 0
      <3>1. PICK u \in Sleeping(c) : d = [c EXCEPT ![t] = "none", ![u] = "woken"]
        BY <1>0, <1>3, <2>1, <2>2, <2>4 DEF Give
      <3>2. d \in [Threads -> Calls] /\ Sleeping(d) = Sleeping(c) \ {u}
        BY <1>0, <2>1, <3>1 DEF Sleeping, Calls, WaitCalls
      <3>3. Cardinality(Sleeping(c) \ {u}) = Cardinality(Sleeping(c)) - 1
        BY <1>0, OneMore
      <3>4. QED
        BY <1>0, <2>1, <2>4, <3>2, <3>3 DEF Owed
    <2>5. QED
      BY <1>0, <2>3, <2>4
  <1>4. QED
    BY <1>1, <1>2, <1>3 DEF SemStep

\* Inside a semaphore nothing is gained or lost, and everyone keeps to his role.
LEMMA FlowStep ==
    ASSUME NEW v, NEW w, NEW c, NEW d, NEW t \in Threads, NEW p,
           NEW S \in SUBSET Threads, NEW G \in SUBSET Threads,
           S \cap G = {}, S \cup G = Threads,
           NEW L, NEW M, "wait" \notin L, "posting" \notin M,
           Owed(v, c), Roles(S, G, p, c), SemStep(v, w, c, d, t)
    PROVE  /\ Roles(S, G, p, d)
           /\ w + Cardinality(Takers(S, L, p, d)) + Cardinality(Givers(G, M, p, d)) =
              v + Cardinality(Takers(S, L, p, c)) + Cardinality(Givers(G, M, p, c))
  <1> DEFINE T == Takers(S, L, p, c)
             U == Givers(G, M, p, c)
             TT == Takers(S, L, p, d)
             UU == Givers(G, M, p, d)
  <1>0. /\ v \in Int /\ c \in [Threads -> Calls]
        /\ T \in SUBSET Threads /\ U \in SUBSET Threads
        /\ Cardinality(T) \in Nat /\ Cardinality(U) \in Nat
    <2>1. T \in SUBSET Threads /\ U \in SUBSET Threads
      BY DEF Takers, Givers
    <2>2. QED
      BY <2>1, ThreadSets DEF Owed
  <1>1. CASE PassOn(v, w, c, d, t)
    <2>1. Roles(S, G, p, d)
      BY <1>0, <1>1 DEF Roles, PassOn, WaitCalls, PostCalls
    <2>2. w = v /\ TT = T /\ UU = U
      BY <1>0, <1>1 DEF Roles, PassOn, Takers, Givers, WaitCalls, PostCalls
    <2>3. QED
      BY <2>1, <2>2
  <1>2. CASE Take(v, w, c, d, t)
    <2>1. Roles(S, G, p, d) /\ t \in S /\ p[t] = "wait"
      BY <1>0, <1>2 DEF Roles, Take, WaitCalls, PostCalls
    <2>2. w = v - 1 /\ t \notin T /\ TT = T \cup {t} /\ UU = U
      BY <1>0, <1>2, <2>1 DEF Roles, Take, Takers, Givers, WaitCalls, PostCalls
    <2>3. Cardinality(TT) = Cardinality(T) + 1
      BY <1>0, <2>2, OneMore
    <2> HIDE DEF T, U, TT, UU
    <2>4. w + Cardinality(TT) + Cardinality(UU) = v + Cardinality(T) + Cardinality(U)
      BY <1>0, <2>2, <2>3
    <2>5. QED
      BY <2>1, <2>4 DEF T, U, TT, UU
  <1>3. CASE Give(v, w, c, d, t)
    <2>1. /\ c[t] = "post_locked" /\ t \in G /\ t \notin S /\ p[t] = "posting" /\ w = v + 1
      BY <1>0, <1>3 DEF Roles, Give, WaitCalls, PostCalls
    <2>2. \A u \in Threads : d[u] = IF u = t THEN "none"
                                    ELSE IF c[u] = "asleep" /\ d[u] # c[u] THEN "woken" ELSE c[u]
      BY <1>0, <1>3, <2>1 DEF Give, Sleeping
    <2>3. Roles(S, G, p, d)
      BY <1>0, <2>1, <2>2 DEF Roles, WaitCalls, PostCalls
    <2>4. t \in U /\ UU = U \ {t} /\ TT = T
      BY <1>0, <2>1, <2>2 DEF Roles, Takers, Givers, WaitCalls, PostCalls
    <2>5. Cardinality(UU) = Cardinality(U) - 1
      BY <1>0, <2>4, OneMore
    <2> HIDE DEF T, U, TT, UU
    <2>6. w + Cardinality(TT) + Cardinality(UU) = v + Cardinality(T) + Cardinality(U)
      BY <1>0, <2>1, <2>4, <2>5
    <2>7. QED
      BY <2>3, <2>6 DEF T, U, TT, UU
  <1>4. QED
    BY <1>1, <1>2, <1>3 DEF SemStep

\* The sleepers are among the takers, so the flow is never negative; it is
\* positive if a taker is awake or somebody has still to give.
LEMMA FlowBound ==
    ASSUME NEW v, NEW c, NEW p, NEW S \in SUBSET Threads, NEW G \in SUBSET Threads,
           S \cup G = Threads, NEW L, NEW M, Owed(v, c), Roles(S, G, p, c)
    PROVE  LET flow == v + Cardinality(Takers(S, L, p, c)) + Cardinality(Givers(G, M, p, c))
           IN /\ flow \in Nat
              /\ \A t \in Takers(S, L, p, c) : c[t] # "asleep" => flow >= 1
              /\ Givers(G, M, p, c) # {} => flow >= 1
  <1> DEFINE T == Takers(S, L, p, c)
             U == Givers(G, M, p, c)
             Z == Sleeping(c)
             nt == Cardinality(T)
             nu == Cardinality(U)
             nz == Cardinality(Z)
  <1>1. T \in SUBSET Threads /\ U \in SUBSET Threads /\ Z \in SUBSET Threads
    BY DEF Takers, Givers, Sleeping
  <1>2. Z \in SUBSET T
    BY DEF Takers, Sleeping, Roles, PostCalls, Owed
  <1>3. nz <= nt /\ (nz = nt => Z = T)
    BY <1>1, <1>2, ThreadSets, FS_Subset
  <1>4. U # {} => nu # 0
    BY <1>1, ThreadSets, FS_EmptySet
  <1>5. nt \in Nat /\ nu \in Nat /\ nz \in Nat /\ v \in Int /\ nz = IF v < 0 THEN -v ELSE 0
    BY <1>1, ThreadSets DEF Owed
  <1>6. \A t \in T : c[t] # "asleep" => nz # nt
    BY <1>3 DEF Sleeping
  <1> HIDE DEF nt, nu, nz
  <1>7. /\ v + nt + nu \in Nat
        /\ \A t \in T : c[t] # "asleep" => v + nt + nu >= 1
        /\ U # {} => v + nt + nu >= 1
    BY <1>3, <1>4, <1>5, <1>6
  <1>8. QED
    BY <1>7 DEF nt, nu

-----------------------------------------------------------------------------
(* The two semaphores *)

\* Every step inside sem_full or sem_empty is one of the three kinds above.
LEMMA InSemaphoreStep ==
    ASSUME NEW t \in Threads
    PROVE  /\ InFull(t) => /\ SemStep(full_value, full_value', full_call, full_call', t)
                           /\ UNCHANGED <<empty_value, empty_call>>
           /\ InEmpty(t) => /\ SemStep(empty_value, empty_value', empty_call, empty_call', t)
                            /\ UNCHANGED <<full_value, full_call>>
  <1>1. Full!In({"asleep"}) = Sleeping(full_call) /\ Free!In({"asleep"}) = Sleeping(empty_call)
    BY DEF Full!In, Free!In, Sleeping
  <1>2. ASSUME Full!wait(t)
        PROVE  SemStep(full_value, full_value', full_call, full_call', t)
    BY <1>2 DEF Full!wait, Full!Lock, Full!WaitLocked, Full!WaitReturn, Full!CallGoto,
                SemStep, PassOn, Take
  <1>3. ASSUME Full!post(t)
        PROVE  SemStep(full_value, full_value', full_call, full_call', t)
    BY <1>1, <1>3 DEF Full!post, Full!Lock, Full!PostLocked, Full!CallGoto, Full!NeedsNotify,
                      SemStep, PassOn, Give
  <1>4. ASSUME Free!wait(t)
        PROVE  SemStep(empty_value, empty_value', empty_call, empty_call', t)
    BY <1>4 DEF Free!wait, Free!Lock, Free!WaitLocked, Free!WaitReturn, Free!CallGoto,
                SemStep, PassOn, Take
  <1>5. ASSUME Free!post(t)
        PROVE  SemStep(empty_value, empty_value', empty_call, empty_call', t)
    BY <1>1, <1>5 DEF Free!post, Free!Lock, Free!PostLocked, Free!CallGoto, Free!NeedsNotify,
                      SemStep, PassOn, Give
  <1>6. QED
    BY <1>2, <1>3, <1>4, <1>5 DEF InFull, InEmpty, sem_full, sem_empty

\* Nothing that happens inside the semaphores changes a flow.
LEMMA InSemaphoreFlow ==
    ASSUME Semaphores, NEW t \in Threads, InFull(t) \/ InEmpty(t), pc' = pc
    PROVE  Semaphores' /\ FullFlow' = FullFlow /\ EmptyFlow' = EmptyFlow
  <1>0. /\ Producers \cup Consumers = Threads /\ Consumers \cup Producers = Threads
        /\ Producers \cap Consumers = {} /\ Consumers \cap Producers = {}
        /\ Producers \in SUBSET Threads /\ Consumers \in SUBSET Threads
    BY ThreadSets
  <1>1. CASE InFull(t)
    <2>1. /\ SemStep(full_value, full_value', full_call, full_call', t)
          /\ UNCHANGED <<empty_value, empty_call>>
      BY <1>1, InSemaphoreStep
    <2>2. Owed(full_value', full_call')
      BY <2>1, OwedStep DEF Semaphores
    <2>3. /\ Roles(Consumers, Producers, pc, full_call')
          /\ full_value' + Cardinality(Takers(Consumers, {"remove"}, pc, full_call'))
               + Cardinality(Givers(Producers, {"p_advance", "p_print", "unlock", "post"},
                                    pc, full_call'))
             = FullFlow
      <3>1. "wait" \notin {"remove"}
            /\ "posting" \notin {"p_advance", "p_print", "unlock", "post"}
        OBVIOUS
      <3>2. QED
        BY <1>0, <2>1, <3>1, FlowStep DEF Semaphores, FullFlow, Promised, Filled
    <2>4. QED
      BY <2>1, <2>2, <2>3 DEF Semaphores, FullFlow, EmptyFlow, Promised, Filled, Granted,
           Emptied, Owed, Roles, Takers, Givers, Sleeping
  <1>2. CASE InEmpty(t)
    <2>1. /\ SemStep(empty_value, empty_value', empty_call, empty_call', t)
          /\ UNCHANGED <<full_value, full_call>>
      BY <1>2, InSemaphoreStep
    <2>2. Owed(empty_value', empty_call')
      BY <2>1, OwedStep DEF Semaphores
    <2>3. /\ Roles(Producers, Consumers, pc, empty_call')
          /\ empty_value' + Cardinality(Takers(Producers, {"produce", "add"}, pc, empty_call'))
               + Cardinality(Givers(Consumers, {"delete", "c_advance", "c_print", "consume",
                                                "unlock", "post"}, pc, empty_call'))
             = EmptyFlow
      <3>1. "wait" \notin {"produce", "add"}
            /\ "posting" \notin {"delete", "c_advance", "c_print", "consume", "unlock", "post"}
        OBVIOUS
      <3>2. QED
        BY <1>0, <2>1, <3>1, FlowStep DEF Semaphores, EmptyFlow, Granted, Emptied
    <2>4. QED
      BY <2>1, <2>2, <2>3 DEF Semaphores, FullFlow, EmptyFlow, Promised, Filled, Granted,
           Emptied, Owed, Roles, Takers, Givers, Sleeping
  <1>3. QED
    BY <1>1, <1>2


-----------------------------------------------------------------------------
(* Moves between the calls *)

FilledLabels  == {"p_advance", "p_print", "unlock", "post"}
EmptiedLabels == {"delete", "c_advance", "c_print", "consume", "unlock", "post"}

\* A thread is in a call only while it is at "wait" or "posting".
LEMMA NotCalling ==
    ASSUME Semaphores, NEW t \in Threads, pc[t] \notin {"wait", "posting"}
    PROVE  full_call[t] = "none" /\ empty_call[t] = "none"
  BY ThreadSets DEF Semaphores, Roles

\* Who has a claim, of the threads that are in no call.
LEMMA ClaimsOf ==
    ASSUME NEW t \in Threads, full_call[t] = "none", empty_call[t] = "none"
    PROVE  /\ t \in Promised <=> t \in Consumers /\ pc[t] \in {"wait", "remove"}
           /\ t \in Filled <=> t \in Producers /\ pc[t] \in FilledLabels
           /\ t \in Granted <=> t \in Producers /\ pc[t] \in {"wait", "produce", "add"}
           /\ t \in Emptied <=> t \in Consumers /\ pc[t] \in EmptiedLabels
  BY DEF Promised, Filled, Granted, Emptied, Takers, Givers, PostCalls, FilledLabels,
         EmptiedLabels

\* Where t goes when it is in no call does not matter to the others' claims.
LEMMA OthersKeepClaims ==
    ASSUME Places, Semaphores, NEW t \in Threads, NEW to, pc' = [pc EXCEPT ![t] = to],
           full_call[t] = "none", empty_call[t] = "none", to \notin {"wait", "posting"},
           UNCHANGED <<full_value, full_call, empty_value, empty_call>>
    PROVE  /\ Semaphores'
           /\ full_call'[t] = "none" /\ empty_call'[t] = "none" /\ pc'[t] = to
           /\ \A u \in Threads : u # t =>
                /\ u \in Promised' <=> u \in Promised
                /\ u \in Filled' <=> u \in Filled
                /\ u \in Granted' <=> u \in Granted
                /\ u \in Emptied' <=> u \in Emptied
  <1>1. \A u \in Threads : pc'[u] = IF u = t THEN to ELSE pc[u]
    BY DEF Places
  <1>2. Semaphores'
    BY <1>1, ThreadSets DEF Semaphores, Roles, Owed, Sleeping
  <1>3. QED
    BY <1>1, <1>2 DEF Promised, Filled, Granted, Emptied, Takers, Givers

\* The sets of claims are sets of threads.
LEMMA ClaimsFinite ==
    /\ Promised \in SUBSET Threads /\ Filled \in SUBSET Threads
    /\ Granted \in SUBSET Threads /\ Emptied \in SUBSET Threads
    /\ Cardinality(Promised) \in Nat /\ Cardinality(Filled) \in Nat
    /\ Cardinality(Granted) \in Nat /\ Cardinality(Emptied) \in Nat
  <1>1. /\ Promised \in SUBSET Threads /\ Filled \in SUBSET Threads
        /\ Granted \in SUBSET Threads /\ Emptied \in SUBSET Threads
    BY ThreadSets DEF Promised, Filled, Granted, Emptied, Takers, Givers
  <1>2. QED
    BY <1>1, ThreadSets

\* A thread that goes on with the claims it has changes no flow.
LEMMA PlainMove ==
    ASSUME Places, Semaphores, NEW t \in Threads, NEW to, pc' = [pc EXCEPT ![t] = to],
           full_call[t] = "none", empty_call[t] = "none", to \notin {"wait", "posting"},
           UNCHANGED <<full_value, full_call, empty_value, empty_call>>,
           t \in Producers =>
              /\ pc[t] \in {"wait", "produce", "add"} <=> to \in {"wait", "produce", "add"}
              /\ pc[t] \in FilledLabels <=> to \in FilledLabels,
           t \in Consumers =>
              /\ pc[t] \in {"wait", "remove"} <=> to \in {"wait", "remove"}
              /\ pc[t] \in EmptiedLabels <=> to \in EmptiedLabels
    PROVE  Semaphores' /\ FullFlow' = FullFlow /\ EmptyFlow' = EmptyFlow
  <1>1. /\ Semaphores'
        /\ full_call'[t] = "none" /\ empty_call'[t] = "none" /\ pc'[t] = to
        /\ \A u \in Threads : u # t =>
             /\ u \in Promised' <=> u \in Promised
             /\ u \in Filled' <=> u \in Filled
             /\ u \in Granted' <=> u \in Granted
             /\ u \in Emptied' <=> u \in Emptied
    BY OthersKeepClaims
  <1>2. /\ t \in Promised' <=> t \in Consumers /\ pc'[t] \in {"wait", "remove"}
        /\ t \in Filled' <=> t \in Producers /\ pc'[t] \in FilledLabels
        /\ t \in Granted' <=> t \in Producers /\ pc'[t] \in {"wait", "produce", "add"}
        /\ t \in Emptied' <=> t \in Consumers /\ pc'[t] \in EmptiedLabels
    BY <1>1 DEF Promised, Filled, Granted, Emptied, Takers, Givers, PostCalls, FilledLabels,
         EmptiedLabels
  <1>3. \A u \in Threads : /\ u \in Promised' <=> u \in Promised
                           /\ u \in Filled' <=> u \in Filled
                           /\ u \in Granted' <=> u \in Granted
                           /\ u \in Emptied' <=> u \in Emptied
    BY <1>1, <1>2, ClaimsOf
  <1>4. /\ Promised' \in SUBSET Threads /\ Filled' \in SUBSET Threads
        /\ Granted' \in SUBSET Threads /\ Emptied' \in SUBSET Threads
    BY ThreadSets DEF Promised, Filled, Granted, Emptied, Takers, Givers
  <1>5. Promised' = Promised /\ Filled' = Filled /\ Granted' = Granted /\ Emptied' = Emptied
    BY <1>3, <1>4, ClaimsFinite
  <1>6. QED
    BY <1>1, <1>5 DEF FullFlow, EmptyFlow

\* A truck that stores its item, and a worker that takes one, exchanges its
\* claim of one kind for one of the other.
LEMMA ClaimMoves ==
    ASSUME Places, Semaphores, NEW t \in Threads, NEW to, pc' = [pc EXCEPT ![t] = to],
           UNCHANGED <<full_value, full_call, empty_value, empty_call>>
    PROVE  /\ t \in Producers /\ pc[t] = "add" /\ to = "p_advance" =>
                Semaphores' /\ FullFlow' = FullFlow + 1 /\ EmptyFlow' = EmptyFlow - 1
           /\ t \in Consumers /\ pc[t] = "remove" /\ to = "delete" =>
                Semaphores' /\ FullFlow' = FullFlow - 1 /\ EmptyFlow' = EmptyFlow + 1
  <1>0. full_value \in Int /\ empty_value \in Int
    BY DEF Semaphores, Owed
  <1>1. CASE t \in Producers /\ pc[t] = "add" /\ to = "p_advance"
    <2>0. full_call[t] = "none" /\ empty_call[t] = "none" /\ t \notin Consumers
      BY <1>1, NotCalling, ThreadSets
    <2>1. /\ Semaphores'
          /\ full_call'[t] = "none" /\ empty_call'[t] = "none" /\ pc'[t] = to
          /\ \A u \in Threads : u # t =>
               /\ u \in Promised' <=> u \in Promised
               /\ u \in Filled' <=> u \in Filled
               /\ u \in Granted' <=> u \in Granted
               /\ u \in Emptied' <=> u \in Emptied
      <3>1. to \notin {"wait", "posting"}
        BY <1>1
      <3>2. QED
        BY <2>0, <3>1, OthersKeepClaims
    <2>2. /\ t \notin Promised' /\ t \in Filled' /\ t \notin Granted' /\ t \notin Emptied'
          /\ Promised' \in SUBSET Threads /\ Filled' \in SUBSET Threads
          /\ Granted' \in SUBSET Threads /\ Emptied' \in SUBSET Threads
      BY <1>1, <2>0, <2>1, ThreadSets DEF Promised, Filled, Granted, Emptied, Takers, Givers,
           PostCalls
    <2>3. t \notin Promised /\ t \notin Filled /\ t \in Granted /\ t \notin Emptied
      BY <1>1, <2>0, ClaimsOf DEF FilledLabels
    <2>4. /\ Promised' = Promised /\ Filled' = Filled \cup {t}
          /\ Granted' = Granted \ {t} /\ Emptied' = Emptied
      <3>0. /\ Promised \in SUBSET Threads /\ Filled \in SUBSET Threads
            /\ Granted \in SUBSET Threads /\ Emptied \in SUBSET Threads
        BY ClaimsFinite
      <3>1. Promised' = Promised
        BY <2>1, <2>2, <2>3, <3>0
      <3>2. Filled' = Filled \cup {t}
        BY <2>1, <2>2, <2>3, <3>0
      <3>3. Granted' = Granted \ {t}
        BY <2>1, <2>2, <2>3, <3>0
      <3>4. Emptied' = Emptied
        BY <2>1, <2>2, <2>3, <3>0
      <3>5. QED
        BY <3>1, <3>2, <3>3, <3>4
    <2>5. /\ Cardinality(Filled \cup {t}) = Cardinality(Filled) + 1
          /\ Cardinality(Granted \ {t}) = Cardinality(Granted) - 1
      BY <2>3, ClaimsFinite, OneMore
    <2> DEFINE a == Cardinality(Promised)
               b == Cardinality(Filled)
               c == Cardinality(Granted)
               d == Cardinality(Emptied)
    <2>6. /\ FullFlow = full_value + a + b /\ EmptyFlow = empty_value + c + d
          /\ FullFlow' = full_value + a + (b + 1) /\ EmptyFlow' = empty_value + (c - 1) + d
      BY <2>4, <2>5 DEF FullFlow, EmptyFlow
    <2>7. a \in Nat /\ b \in Nat /\ c \in Nat /\ d \in Nat
      BY ClaimsFinite
    <2> HIDE DEF a, b, c, d
    <2>8. QED
      BY <1>0, <1>1, <2>1, <2>6, <2>7
  <1>2. CASE t \in Consumers /\ pc[t] = "remove" /\ to = "delete"
    <2>0. full_call[t] = "none" /\ empty_call[t] = "none" /\ t \notin Producers
      BY <1>2, NotCalling, ThreadSets
    <2>1. /\ Semaphores'
          /\ full_call'[t] = "none" /\ empty_call'[t] = "none" /\ pc'[t] = to
          /\ \A u \in Threads : u # t =>
               /\ u \in Promised' <=> u \in Promised
               /\ u \in Filled' <=> u \in Filled
               /\ u \in Granted' <=> u \in Granted
               /\ u \in Emptied' <=> u \in Emptied
      <3>1. to \notin {"wait", "posting"}
        BY <1>2
      <3>2. QED
        BY <2>0, <3>1, OthersKeepClaims
    <2>2. /\ t \notin Promised' /\ t \notin Filled' /\ t \notin Granted' /\ t \in Emptied'
          /\ Promised' \in SUBSET Threads /\ Filled' \in SUBSET Threads
          /\ Granted' \in SUBSET Threads /\ Emptied' \in SUBSET Threads
      BY <1>2, <2>0, <2>1, ThreadSets DEF Promised, Filled, Granted, Emptied, Takers, Givers,
           PostCalls
    <2>3. t \in Promised /\ t \notin Filled /\ t \notin Granted /\ t \notin Emptied
      BY <1>2, <2>0, ClaimsOf DEF EmptiedLabels
    <2>4. /\ Promised' = Promised \ {t} /\ Filled' = Filled
          /\ Granted' = Granted /\ Emptied' = Emptied \cup {t}
      <3>0. /\ Promised \in SUBSET Threads /\ Filled \in SUBSET Threads
            /\ Granted \in SUBSET Threads /\ Emptied \in SUBSET Threads
        BY ClaimsFinite
      <3>1. Promised' = Promised \ {t}
        BY <2>1, <2>2, <2>3, <3>0
      <3>2. Filled' = Filled
        BY <2>1, <2>2, <2>3, <3>0
      <3>3. Granted' = Granted
        BY <2>1, <2>2, <2>3, <3>0
      <3>4. Emptied' = Emptied \cup {t}
        BY <2>1, <2>2, <2>3, <3>0
      <3>5. QED
        BY <3>1, <3>2, <3>3, <3>4
    <2>5. /\ Cardinality(Emptied \cup {t}) = Cardinality(Emptied) + 1
          /\ Cardinality(Promised \ {t}) = Cardinality(Promised) - 1
      BY <2>3, ClaimsFinite, OneMore
    <2> DEFINE a == Cardinality(Promised)
               b == Cardinality(Filled)
               c == Cardinality(Granted)
               d == Cardinality(Emptied)
    <2>6. /\ FullFlow = full_value + a + b /\ EmptyFlow = empty_value + c + d
          /\ FullFlow' = full_value + (a - 1) + b /\ EmptyFlow' = empty_value + c + (d + 1)
      BY <2>4, <2>5 DEF FullFlow, EmptyFlow
    <2>7. a \in Nat /\ b \in Nat /\ c \in Nat /\ d \in Nat
      BY ClaimsFinite
    <2> HIDE DEF a, b, c, d
    <2>8. QED
      BY <1>0, <1>2, <2>1, <2>6, <2>7
  <1>3. QED
    BY <1>1, <1>2

\* Calling wait() claims nothing, and a truck or worker that calls post()
\* keeps the claim it pays with.
LEMMA CallMove ==
    ASSUME Places, Semaphores, NEW t \in Threads,
           \/ t \in Producers /\ (WaitEmpty(t) \/ PostFull(t))
           \/ t \in Consumers /\ (WaitFull(t) \/ PostEmpty(t))
    PROVE  Semaphores' /\ FullFlow' = FullFlow /\ EmptyFlow' = EmptyFlow
  <1>0. /\ pc \in [Threads -> TruckPCs \cup WorkerPCs]
        /\ full_call \in [Threads -> Calls] /\ empty_call \in [Threads -> Calls]
    BY DEF Places, Semaphores, Owed
  <1>1. /\ full_call[t] = "none" /\ empty_call[t] = "none"
        /\ full_value' = full_value /\ empty_value' = empty_value
        /\ \/ /\ pc[t] = "begin" /\ pc' = [pc EXCEPT ![t] = "wait"]
              /\ \/ /\ t \in Producers /\ full_call' = full_call
                    /\ empty_call' = [empty_call EXCEPT ![t] = "wait"]
                 \/ /\ t \in Consumers /\ empty_call' = empty_call
                    /\ full_call' = [full_call EXCEPT ![t] = "wait"]
           \/ /\ pc[t] = "post" /\ pc' = [pc EXCEPT ![t] = "posting"]
              /\ \/ /\ t \in Producers /\ empty_call' = empty_call
                    /\ full_call' = [full_call EXCEPT ![t] = "post"]
                 \/ /\ t \in Consumers /\ full_call' = full_call
                    /\ empty_call' = [empty_call EXCEPT ![t] = "post"]
    BY NotCalling DEF WaitEmpty, PostFull, WaitFull, PostEmpty, Goto, Free!CallWait,
         Free!CallPost, Full!CallWait, Full!CallPost, Free!CallGoto, Full!CallGoto, sem_full,
         sem_empty
  <1>2. Sleeping(full_call') = Sleeping(full_call) /\ Sleeping(empty_call') = Sleeping(empty_call)
    BY <1>0, <1>1 DEF Sleeping
  <1>3. full_call' \in [Threads -> Calls] /\ empty_call' \in [Threads -> Calls]
    BY <1>0, <1>1 DEF Calls, WaitCalls, PostCalls
  <1>4. /\ Roles(Consumers, Producers, pc', full_call')
        /\ Roles(Producers, Consumers, pc', empty_call')
    BY <1>0, <1>1, ThreadSets DEF Semaphores, Roles, WaitCalls, PostCalls
  <1>5. Semaphores'
    BY <1>1, <1>2, <1>3, <1>4 DEF Semaphores, Owed
  <1>6. /\ Promised' = Promised /\ Filled' = Filled
        /\ Granted' = Granted /\ Emptied' = Emptied
    BY <1>0, <1>1, ThreadSets DEF Promised, Filled, Granted, Emptied, Takers, Givers, PostCalls
  <1>7. QED
    BY <1>1, <1>5, <1>6 DEF FullFlow, EmptyFlow


-----------------------------------------------------------------------------
(* Every step keeps the threads where they belong *)

\* The statements that have to do with the ring.
RingLabels == {"p_advance", "delete", "c_advance", "c_print"}

\* A thread that goes on, taking or releasing the lock on its way.
LEMMA PlaceMove ==
    ASSUME Places, NEW t \in Threads, NEW to, pc' = [pc EXCEPT ![t] = to],
           main_pc' = main_pc, main_i' = main_i, pc[t] # "absent",
           t \in Producers => to \in TruckPCs, t \in Consumers => to \in WorkerPCs,
           \/ (pc[t] \in Locked <=> to \in Locked) /\ holder' = holder
           \/ pc[t] \notin Locked /\ to \in Locked /\ holder = Nobody /\ holder' = t
           \/ pc[t] \in Locked /\ to \notin Locked /\ holder' = Nobody
    PROVE  Places'
  <1>1. \A u \in Threads : pc'[u] = IF u = t THEN to ELSE pc[u]
    BY DEF Places
  <1>2. /\ pc' \in [Threads -> TruckPCs \cup WorkerPCs]
        /\ \A u \in Producers : pc'[u] \in TruckPCs
        /\ \A u \in Consumers : pc'[u] \in WorkerPCs
    BY <1>1, ThreadSets DEF Places
  <1>3. \A u \in Threads : pc'[u] \in Locked <=> holder' = u
    BY <1>1, ThreadSets DEF Places
  <1>4. /\ main_i' \in Nat
        /\ main_pc' = "spawn" => \A u \in Threads : u >= main_i' => pc'[u] = "absent"
    BY <1>1 DEF Places
  <1>5. QED
    BY <1>2, <1>3, <1>4 DEF Places

\* Only one thread at a time is where the buffer is locked.
LEMMA OneLocked ==
    ASSUME Places, NEW t \in Threads, pc[t] \in Locked
    PROVE  \A u \in Threads : u # t => pc[u] \notin Locked
  BY DEF Places

\* main() starts a thread, or panics.
LEMMA SpawnStep ==
    ASSUME Places, Semaphores, NEW t \in Threads, Spawn(t)
    PROVE  /\ Places' /\ Semaphores' /\ FullFlow' = FullFlow /\ EmptyFlow' = EmptyFlow
           /\ \A u \in Threads : pc'[u] = pc[u] \/ (pc[u] = "absent" /\ pc'[u] = "begin")
  <1>0. /\ main_pc = "spawn" /\ main_i = t /\ holder' = holder
        /\ UNCHANGED <<full_value, full_call, empty_value, empty_call>>
        /\ t \in Nat /\ pc[t] = "absent" /\ pc \in [Threads -> TruckPCs \cup WorkerPCs]
    BY ThreadSets DEF Spawn, sems, sem_full, sem_empty, Places
  <1>1. CASE pc' = [pc EXCEPT ![t] = "begin"] /\ main_i' = t + 1
    <2>1. \A u \in Threads : pc'[u] = IF u = t THEN "begin" ELSE pc[u]
      BY <1>0, <1>1
    <2>2. /\ pc' \in [Threads -> TruckPCs \cup WorkerPCs]
          /\ \A u \in Producers : pc'[u] \in TruckPCs
          /\ \A u \in Consumers : pc'[u] \in WorkerPCs
      BY <1>0, <1>1, <2>1, ThreadSets DEF Places, TruckPCs, WorkerPCs
    <2>3. \A u \in Threads : pc'[u] \in Locked <=> holder' = u
      BY <1>0, <2>1 DEF Places, Locked
    <2>4. main_i' \in Nat /\ \A u \in Threads : u >= main_i' => pc'[u] = "absent"
      BY <1>0, <1>1, <2>1, ThreadSets DEF Places
    <2>5. Places'
      BY <2>2, <2>3, <2>4 DEF Places
    <2>6. Semaphores' /\ FullFlow' = FullFlow /\ EmptyFlow' = EmptyFlow
      <3>1. full_call[t] = "none" /\ empty_call[t] = "none"
        BY <1>0, NotCalling
      <3>2. "begin" \notin {"wait", "posting"}
        OBVIOUS
      <3>3. /\ pc[t] \in {"wait", "produce", "add"} <=> "begin" \in {"wait", "produce", "add"}
            /\ pc[t] \in FilledLabels <=> "begin" \in FilledLabels
            /\ pc[t] \in {"wait", "remove"} <=> "begin" \in {"wait", "remove"}
            /\ pc[t] \in EmptiedLabels <=> "begin" \in EmptiedLabels
        BY <1>0 DEF FilledLabels, EmptiedLabels
      <3>4. QED
        BY <1>0, <1>1, <3>1, <3>2, <3>3, PlainMove
    <2>7. QED
      BY <1>0, <2>1, <2>5, <2>6
  <1>2. CASE pc' = pc /\ main_pc' = "panicked" /\ main_i' = main_i
    <2>1. Places'
      BY <1>0, <1>2 DEF Places
    <2>2. Semaphores' /\ FullFlow' = FullFlow /\ EmptyFlow' = EmptyFlow
      BY <1>0, <1>2 DEF Semaphores, Roles, Owed, Sleeping, FullFlow, EmptyFlow, Promised,
           Filled, Granted, Emptied, Takers, Givers
    <2>3. QED
      BY <1>2, <2>1, <2>2
  <1>3. QED
    BY <1>1, <1>2 DEF Spawn


\* What most steps leave alone.
Steady == FullFlow' = FullFlow /\ EmptyFlow' = EmptyFlow

\* A step of t that is in no call and calls nothing.
LEMMA GoOn ==
    ASSUME Places, Semaphores, NEW t \in Threads, NEW from, NEW to, Goto(t, from, to),
           UNCHANGED <<sems, main>>, full_call[t] = "none", empty_call[t] = "none",
           from # "absent", to \notin {"wait", "posting"},
           \/ (from \in Locked <=> to \in Locked) /\ holder' = holder
           \/ from \notin Locked /\ to \in Locked /\ holder = Nobody /\ holder' = t
           \/ from \in Locked /\ to \notin Locked /\ holder' = Nobody,
           t \in Producers =>
              /\ to \in TruckPCs
              /\ from \in {"wait", "produce", "add"} <=> to \in {"wait", "produce", "add"}
              /\ from \in FilledLabels <=> to \in FilledLabels,
           t \in Consumers =>
              /\ to \in WorkerPCs
              /\ from \in {"wait", "remove"} <=> to \in {"wait", "remove"}
              /\ from \in EmptiedLabels <=> to \in EmptiedLabels
    PROVE  Places' /\ Semaphores' /\ Steady
  <1>1. /\ pc[t] = from /\ pc' = [pc EXCEPT ![t] = to]
        /\ UNCHANGED <<full_value, full_call, empty_value, empty_call, main_pc, main_i>>
    BY DEF Goto, sems, sem_full, sem_empty, main
  <1>2. Places'
    BY <1>1, PlaceMove
  <1>3. Semaphores' /\ FullFlow' = FullFlow /\ EmptyFlow' = EmptyFlow
    BY <1>1, PlainMove
  <1>4. QED
    BY <1>2, <1>3 DEF Steady

\* The steps of a truck.
LEMMA TruckStep ==
    ASSUME Places, Semaphores, NEW t \in Producers, truck(t)
    PROVE  /\ Places' /\ Semaphores'
           /\ IF AddItem(t) THEN FullFlow' = FullFlow + 1 /\ EmptyFlow' = EmptyFlow - 1
                            ELSE Steady
  <1>0. t \in Threads /\ t \notin Consumers
    BY ThreadSets
  <1>a. \A from, to : Goto(t, from, to) /\ from \notin {"wait", "posting"} =>
           full_call[t] = "none" /\ empty_call[t] = "none"
    BY <1>0, NotCalling DEF Goto
  <1>1. CASE AddItem(t)
    <2>1. /\ pc[t] = "add" /\ pc' = [pc EXCEPT ![t] = "p_advance"] /\ holder' = holder
          /\ UNCHANGED <<full_value, full_call, empty_value, empty_call, main_pc, main_i>>
      BY <1>1 DEF AddItem, Goto, sems, sem_full, sem_empty, main
    <2>2. Semaphores' /\ FullFlow' = FullFlow + 1 /\ EmptyFlow' = EmptyFlow - 1
      BY <1>0, <2>1, ClaimMoves
    <2>3. "add" \in Locked /\ "p_advance" \in Locked /\ "p_advance" \in TruckPCs
      BY DEF Locked, TruckPCs
    <2>4. Places'
      BY <1>0, <2>1, <2>3, PlaceMove
    <2>5. QED
      BY <1>1, <2>2, <2>4
  <1>2. ASSUME WaitEmpty(t) \/ PostFull(t) PROVE Places' /\ Semaphores' /\ Steady
    <2>1. /\ \/ pc[t] = "begin" /\ pc' = [pc EXCEPT ![t] = "wait"]
             \/ pc[t] = "post" /\ pc' = [pc EXCEPT ![t] = "posting"]
          /\ UNCHANGED <<holder, main_pc, main_i>>
      BY <1>2 DEF WaitEmpty, PostFull, Goto, main
    <2>2. {"begin", "wait", "post", "posting"} \cap Locked = {}
          /\ "wait" \in TruckPCs /\ "posting" \in TruckPCs
      BY DEF Locked, TruckPCs
    <2>3. Places'
      BY <1>0, <2>1, <2>2, PlaceMove
    <2>4. Semaphores' /\ Steady
      BY <1>0, <1>2, CallMove DEF Steady
    <2>5. QED
      BY <2>3, <2>4
  <1>3. ASSUME LockBuffer(t, "produce") PROVE Places' /\ Semaphores' /\ Steady
    <2>1. /\ Goto(t, "wait", "produce") /\ UNCHANGED <<sems, main>>
          /\ full_call[t] = "none" /\ empty_call[t] = "none" /\ holder = Nobody /\ holder' = t
      BY <1>3 DEF LockBuffer
    <2>2. QED
      BY <1>0, <2>1, GoOn DEF Locked, TruckPCs, FilledLabels
  <1>4. ASSUME produce(t) PROVE Places' /\ Semaphores' /\ Steady
    <2>1. Goto(t, "produce", "add") /\ UNCHANGED <<sems, main>> /\ holder' = holder
      BY <1>4 DEF produce
    <2>2. QED
      BY <1>0, <1>a, <2>1, GoOn DEF Locked, TruckPCs, FilledLabels
  <1>5. ASSUME AdvanceProducer(t) PROVE Places' /\ Semaphores' /\ Steady
    <2>1. Goto(t, "p_advance", "p_print") /\ UNCHANGED <<sems, main>> /\ holder' = holder
      BY <1>5 DEF AdvanceProducer
    <2>2. QED
      BY <1>0, <1>a, <2>1, GoOn DEF Locked, TruckPCs, FilledLabels
  <1>6. ASSUME PrintBuffer(t, "p_print", "unlock") PROVE Places' /\ Semaphores' /\ Steady
    <2>1. Goto(t, "p_print", "unlock") /\ UNCHANGED <<sems, main>> /\ holder' = holder
      BY <1>6 DEF PrintBuffer
    <2>2. QED
      BY <1>0, <1>a, <2>1, GoOn DEF Locked, TruckPCs, FilledLabels
  <1>7. ASSUME UnlockBuffer(t) PROVE Places' /\ Semaphores' /\ Steady
    <2>1. Goto(t, "unlock", "post") /\ UNCHANGED <<sems, main>> /\ holder' = Nobody
      BY <1>7 DEF UnlockBuffer
    <2>2. QED
      BY <1>0, <1>a, <2>1, GoOn DEF Locked, TruckPCs, FilledLabels
  <1>8. ASSUME LoopEnd(t) PROVE Places' /\ Semaphores' /\ Steady
    <2>1. /\ Goto(t, "posting", "begin") /\ UNCHANGED <<sems, main>> /\ holder' = holder
          /\ full_call[t] = "none" /\ empty_call[t] = "none"
      BY <1>8 DEF LoopEnd
    <2>2. QED
      BY <1>0, <2>1, GoOn DEF Locked, TruckPCs, FilledLabels
  <1>9. QED
    BY <1>1, <1>2, <1>3, <1>4, <1>5, <1>6, <1>7, <1>8 DEF truck

\* The steps of a worker.
LEMMA WorkerStep ==
    ASSUME Places, Semaphores, NEW t \in Consumers, worker(t)
    PROVE  /\ Places' /\ Semaphores'
           /\ IF RemoveItem(t) THEN FullFlow' = FullFlow - 1 /\ EmptyFlow' = EmptyFlow + 1
                               ELSE Steady
  <1>0. t \in Threads /\ t \notin Producers
    BY ThreadSets
  <1>a. \A from, to : Goto(t, from, to) /\ from \notin {"wait", "posting"} =>
           full_call[t] = "none" /\ empty_call[t] = "none"
    BY <1>0, NotCalling DEF Goto
  <1>1. CASE RemoveItem(t)
    <2>1. /\ pc[t] = "remove" /\ pc' = [pc EXCEPT ![t] = "delete"] /\ holder' = holder
          /\ UNCHANGED <<full_value, full_call, empty_value, empty_call, main_pc, main_i>>
      BY <1>1 DEF RemoveItem, Goto, sems, sem_full, sem_empty, main
    <2>2. Semaphores' /\ FullFlow' = FullFlow - 1 /\ EmptyFlow' = EmptyFlow + 1
      BY <1>0, <2>1, ClaimMoves
    <2>3. "remove" \in Locked /\ "delete" \in Locked /\ "delete" \in WorkerPCs
      BY DEF Locked, WorkerPCs
    <2>4. Places'
      BY <1>0, <2>1, <2>3, PlaceMove
    <2>5. QED
      BY <1>1, <2>2, <2>4
  <1>2. ASSUME WaitFull(t) \/ PostEmpty(t) PROVE Places' /\ Semaphores' /\ Steady
    <2>1. /\ \/ pc[t] = "begin" /\ pc' = [pc EXCEPT ![t] = "wait"]
             \/ pc[t] = "post" /\ pc' = [pc EXCEPT ![t] = "posting"]
          /\ UNCHANGED <<holder, main_pc, main_i>>
      BY <1>2 DEF WaitFull, PostEmpty, Goto, main
    <2>2. {"begin", "wait", "post", "posting"} \cap Locked = {}
          /\ "wait" \in WorkerPCs /\ "posting" \in WorkerPCs
      BY DEF Locked, WorkerPCs
    <2>3. Places'
      BY <1>0, <2>1, <2>2, PlaceMove
    <2>4. Semaphores' /\ Steady
      BY <1>0, <1>2, CallMove DEF Steady
    <2>5. QED
      BY <2>3, <2>4
  <1>3. ASSUME LockBuffer(t, "remove") PROVE Places' /\ Semaphores' /\ Steady
    <2>1. /\ Goto(t, "wait", "remove") /\ UNCHANGED <<sems, main>>
          /\ full_call[t] = "none" /\ empty_call[t] = "none" /\ holder = Nobody /\ holder' = t
      BY <1>3 DEF LockBuffer
    <2>2. QED
      BY <1>0, <2>1, GoOn DEF Locked, WorkerPCs, EmptiedLabels
  <1>4. ASSUME DeleteItem(t) PROVE Places' /\ Semaphores' /\ Steady
    <2>1. Goto(t, "delete", "c_advance") /\ UNCHANGED <<sems, main>> /\ holder' = holder
      BY <1>4 DEF DeleteItem
    <2>2. QED
      BY <1>0, <1>a, <2>1, GoOn DEF Locked, WorkerPCs, EmptiedLabels
  <1>5. ASSUME AdvanceConsumer(t) PROVE Places' /\ Semaphores' /\ Steady
    <2>1. Goto(t, "c_advance", "c_print") /\ UNCHANGED <<sems, main>> /\ holder' = holder
      BY <1>5 DEF AdvanceConsumer
    <2>2. QED
      BY <1>0, <1>a, <2>1, GoOn DEF Locked, WorkerPCs, EmptiedLabels
  <1>6. ASSUME PrintBuffer(t, "c_print", "consume") PROVE Places' /\ Semaphores' /\ Steady
    <2>1. Goto(t, "c_print", "consume") /\ UNCHANGED <<sems, main>> /\ holder' = holder
      BY <1>6 DEF PrintBuffer
    <2>2. QED
      BY <1>0, <1>a, <2>1, GoOn DEF Locked, WorkerPCs, EmptiedLabels
  <1>7. ASSUME consume(t) PROVE Places' /\ Semaphores' /\ Steady
    <2>1. Goto(t, "consume", "unlock") /\ UNCHANGED <<sems, main>> /\ holder' = holder
      BY <1>7 DEF consume
    <2>2. QED
      BY <1>0, <1>a, <2>1, GoOn DEF Locked, WorkerPCs, EmptiedLabels
  <1>8. ASSUME UnlockBuffer(t) PROVE Places' /\ Semaphores' /\ Steady
    <2>1. Goto(t, "unlock", "post") /\ UNCHANGED <<sems, main>> /\ holder' = Nobody
      BY <1>8 DEF UnlockBuffer
    <2>2. QED
      BY <1>0, <1>a, <2>1, GoOn DEF Locked, WorkerPCs, EmptiedLabels
  <1>9. ASSUME LoopEnd(t) PROVE Places' /\ Semaphores' /\ Steady
    <2>1. /\ Goto(t, "posting", "begin") /\ UNCHANGED <<sems, main>> /\ holder' = holder
          /\ full_call[t] = "none" /\ empty_call[t] = "none"
      BY <1>9 DEF LoopEnd
    <2>2. QED
      BY <1>0, <2>1, GoOn DEF Locked, WorkerPCs, EmptiedLabels
  <1>10. QED
    BY <1>1, <1>2, <1>3, <1>4, <1>5, <1>6, <1>7, <1>8, <1>9 DEF worker


\* What a step does that has nothing to do with the ring.
Quiet ==
    /\ UNCHANGED <<sloths, producer_idx, consumer_idx, item>>
    /\ Places' /\ Semaphores' /\ Steady
    /\ \A u \in Threads : \A l \in RingLabels : pc[u] = l <=> pc'[u] = l
    /\ \/ Busy' = Busy
       \/ \E c \in Consumers : c \in Busy /\ Busy' = Busy \ {c}

\* Who is busy after a step of t.
LEMMA BusyMoves ==
    ASSUME Places, NEW t \in Threads, NEW to, pc' = [pc EXCEPT ![t] = to]
    PROVE  /\ \A u \in Threads : pc'[u] = IF u = t THEN to ELSE pc[u]
           /\ \A u \in Threads : u # t => (u \in Busy' <=> u \in Busy)
           /\ t \in Producers => /\ t \in Busy <=> pc[t] = "add"
                                 /\ t \in Busy' <=> to = "add"
           /\ t \in Consumers => /\ t \in Busy <=> pc[t] \in Carrying
                                 /\ t \in Busy' <=> to \in Carrying
           /\ Busy \in SUBSET Threads /\ Busy' \in SUBSET Threads
  <1>1. \A u \in Threads : pc'[u] = IF u = t THEN to ELSE pc[u]
    BY DEF Places
  <1>2. QED
    BY <1>1, ThreadSets DEF Busy, At

\* A step of t that is quiet but for its place.
LEMMA QuietMove ==
    ASSUME Places, NEW t \in Threads, NEW from, NEW to, Goto(t, from, to),
           UNCHANGED <<buffer, item>>, Places', Semaphores', Steady,
           from \notin RingLabels, to \notin RingLabels,
           \/ from \notin {"add"} \cup Carrying /\ to \notin {"add"} \cup Carrying
           \/ t \in Consumers /\ from \in Carrying /\ to \notin Carrying
    PROVE  Quiet
  <1>1. pc[t] = from /\ pc' = [pc EXCEPT ![t] = to]
    BY DEF Goto
  <1>2. \A u \in Threads : \A l \in RingLabels : pc[u] = l <=> pc'[u] = l
    BY <1>1, BusyMoves
  <1>3. Busy' = Busy \/ (t \in Consumers /\ t \in Busy /\ Busy' = Busy \ {t})
    <2>1. /\ \A u \in Threads : u # t => (u \in Busy' <=> u \in Busy)
          /\ Busy \in SUBSET Threads /\ Busy' \in SUBSET Threads
      BY <1>1, BusyMoves
    <2>2. CASE from \notin {"add"} \cup Carrying /\ to \notin {"add"} \cup Carrying
      <3>1. t \notin Busy /\ t \notin Busy'
        BY <1>1, <2>2, BusyMoves, ThreadSets
      <3>2. QED
        BY <2>1, <3>1
    <2>3. CASE t \in Consumers /\ from \in Carrying /\ to \notin Carrying
      <3>1. t \in Busy /\ t \notin Busy'
        BY <1>1, <2>3, BusyMoves
      <3>2. QED
        BY <2>1, <2>3, <3>1
    <2>4. QED
      BY <2>2, <2>3
  <1>4. QED
    BY <1>2, <1>3 DEF Quiet, buffer

\* Every step is quiet or one of those that use the ring or load an item.
LEMMA KindsOfStep ==
    ASSUME Places, Semaphores, [CalmNext]_vars
    PROVE  \/ Quiet
           \/ \E t \in Producers : \/ produce(t) \/ AddItem(t) \/ AdvanceProducer(t)
                                   \/ PrintBuffer(t, "p_print", "unlock")
           \/ \E t \in Consumers : \/ RemoveItem(t) \/ DeleteItem(t) \/ AdvanceConsumer(t)
                                   \/ PrintBuffer(t, "c_print", "consume")
  <1>1. ASSUME NEW t \in Threads, Spawn(t) PROVE Quiet
    <2>1. /\ Places' /\ Semaphores' /\ FullFlow' = FullFlow /\ EmptyFlow' = EmptyFlow
          /\ \A u \in Threads : pc'[u] = pc[u] \/ (pc[u] = "absent" /\ pc'[u] = "begin")
      BY <1>1, SpawnStep
    <2>2. UNCHANGED <<sloths, producer_idx, consumer_idx, item>>
      BY <1>1 DEF Spawn, buffer
    <2>3. \A u \in Threads : \A l \in RingLabels : pc[u] = l <=> pc'[u] = l
      BY <2>1 DEF RingLabels
    <2>4. Busy' = Busy
      BY <2>1, ThreadSets DEF Busy, At, Carrying
    <2>5. QED
      BY <2>1, <2>2, <2>3, <2>4 DEF Quiet, Steady
  <1>2. ASSUME NEW t \in Threads, InSemaphore(t) PROVE Quiet
    <2>1. /\ UNCHANGED <<sloths, producer_idx, consumer_idx, item, holder, pc, main_pc, main_i>>
          /\ InFull(t) \/ InEmpty(t)
      BY <1>2 DEF InSemaphore, buffer, main
    <2>2. Places' /\ Busy' = Busy
      BY <2>1 DEF Places, Busy, At
    <2>3. Semaphores' /\ Steady
      BY <2>1, InSemaphoreFlow DEF Steady
    <2>4. QED
      BY <2>1, <2>2, <2>3 DEF Quiet
  <1>3. ASSUME NEW t \in Producers, truck(t), ~produce(t), ~AddItem(t), ~AdvanceProducer(t),
               ~PrintBuffer(t, "p_print", "unlock")
        PROVE  Quiet
    <2>1. t \in Threads /\ Places' /\ Semaphores' /\ Steady
      BY <1>3, TruckStep, ThreadSets
    <2>2. /\ UNCHANGED <<buffer, item>>
          /\ \/ Goto(t, "begin", "wait") \/ Goto(t, "wait", "produce")
             \/ Goto(t, "unlock", "post") \/ Goto(t, "post", "posting")
             \/ Goto(t, "posting", "begin")
      BY <1>3 DEF truck, WaitEmpty, LockBuffer, UnlockBuffer, PostFull, LoopEnd
    <2>3. {"begin", "wait", "produce", "unlock", "post", "posting"}
            \cap (RingLabels \cup {"add"} \cup Carrying) = {}
      BY DEF RingLabels, Carrying
    <2>4. QED
      BY <2>1, <2>2, <2>3, QuietMove
  <1>4. ASSUME NEW t \in Consumers, worker(t), ~RemoveItem(t), ~DeleteItem(t),
               ~AdvanceConsumer(t), ~PrintBuffer(t, "c_print", "consume")
        PROVE  Quiet
    <2>1. t \in Threads /\ Places' /\ Semaphores' /\ Steady
      BY <1>4, WorkerStep, ThreadSets
    <2>2. /\ UNCHANGED <<buffer, item>>
          /\ \/ Goto(t, "begin", "wait") \/ Goto(t, "wait", "remove")
             \/ Goto(t, "consume", "unlock")
             \/ Goto(t, "unlock", "post") \/ Goto(t, "post", "posting")
             \/ Goto(t, "posting", "begin")
      BY <1>4 DEF worker, WaitFull, LockBuffer, consume, UnlockBuffer, PostEmpty, LoopEnd
    <2>3. /\ {"begin", "wait", "remove", "unlock", "post", "posting"}
               \cap (RingLabels \cup {"add"} \cup Carrying) = {}
          /\ "consume" \notin RingLabels /\ "consume" \in Carrying
      BY DEF RingLabels, Carrying
    <2>4. CASE Goto(t, "consume", "unlock")
      BY <2>1, <2>2, <2>3, <2>4, QuietMove
    <2>5. CASE ~Goto(t, "consume", "unlock")
      BY <2>1, <2>2, <2>3, <2>5, QuietMove
    <2>6. QED
      BY <2>4, <2>5
  <1>5. CASE UNCHANGED vars
    <2>1. /\ UNCHANGED <<sloths, producer_idx, consumer_idx, item, holder, pc, main_pc, main_i>>
          /\ UNCHANGED <<full_value, full_call, empty_value, empty_call>>
      BY <1>5 DEF vars, buffer, main, sems, sem_full, sem_empty
    <2>2. Places' /\ Busy' = Busy
      BY <2>1 DEF Places, Busy, At
    <2>3. Semaphores' /\ Steady
      BY <2>1 DEF Semaphores, Roles, Owed, Sleeping, Steady, FullFlow, EmptyFlow, Promised,
           Filled, Granted, Emptied, Takers, Givers
    <2>4. QED
      BY <2>1, <2>2, <2>3 DEF Quiet
  <1>6. QED
    BY <1>1, <1>2, <1>3, <1>4, <1>5 DEF CalmNext, Main, Thread, Terminated

-----------------------------------------------------------------------------
(* Counting the stored items *)

\* Where i is at most one turn beyond the end of the ring.
LEMMA ModIsWrap ==
    ASSUME NEW i \in 0 .. 2 * BUFFER_LEN - 1
    PROVE  i % BUFFER_LEN = Wrap(i)
  <1>1. CASE i < BUFFER_LEN
    BY <1>1 DEF Wrap
  <1>2. CASE i >= BUFFER_LEN
    <2>1. (i - BUFFER_LEN) % BUFFER_LEN = i - BUFFER_LEN
      BY <1>2
    <2>2. i % BUFFER_LEN = (i - BUFFER_LEN) % BUFFER_LEN
      BY <1>2
    <2>3. QED
      BY <1>2, <2>1, <2>2 DEF Wrap
  <1>3. QED
    BY <1>1, <1>2

\* An index moves one sloth on, and from the last sloth to the first.
LEMMA NextIdxIsWrap == \A i \in Sloths : NextIdx(i) = Wrap(i + 1) /\ NextIdx(i) \in Sloths
  <1> SUFFICES ASSUME NEW i \in Sloths PROVE NextIdx(i) = Wrap(i + 1) /\ NextIdx(i) \in Sloths
    OBVIOUS
  <1>1. NextIdx(i) = Wrap(i + 1)
    BY ModIsWrap DEF Sloths, NextIdx
  <1>2. QED
    BY <1>1 DEF Wrap, Sloths

\* The stored items, sloth by sloth, can be counted.
LEMMA StoredSloths ==
    /\ \A s \in Sloths : s \in Stored <=>
         sloths[s] \in Items /\ ~(s = consumer_idx /\ At(Consumers, {"delete"}) # {})
    /\ Stored \in SUBSET Sloths /\ IsFiniteSet(Stored) /\ Size \in Nat
  <1>1. Stored \in SUBSET Sloths
    BY DEF Stored
  <1>2. IsFiniteSet(Sloths)
    BY FS_Interval DEF Sloths
  <1>3. IsFiniteSet(Stored) /\ Size \in Nat
    BY <1>1, <1>2, FS_Subset, FS_CardinalityType DEF Size
  <1>4. QED
    BY <1>1, <1>3 DEF Stored

\* There is room for whoever was granted a sloth, or has emptied one and not
\* told it, and an item for whoever was promised one.
LEMMA SizeBound ==
    ASSUME Places, Semaphores, SlothsConserved
    PROVE  /\ Size \in 0 .. BUFFER_LEN
           /\ \A t \in Producers : pc[t] \in {"produce", "add"} => Size < BUFFER_LEN
           /\ \A t \in Consumers : pc[t] \in EmptiedLabels => Size < BUFFER_LEN
           /\ \A t \in Consumers : pc[t] = "remove" => Size >= 1
  <1>0. /\ Producers \cup Consumers = Threads /\ Consumers \cup Producers = Threads
        /\ Producers \in SUBSET Threads /\ Consumers \in SUBSET Threads
    BY ThreadSets
  <1>1. /\ FullFlow \in Nat
        /\ \A t \in Promised : full_call[t] # "asleep" => FullFlow >= 1
    BY <1>0, FlowBound DEF Semaphores, FullFlow, Promised, Filled
  <1>2. /\ EmptyFlow \in Nat
        /\ \A t \in Granted : empty_call[t] # "asleep" => EmptyFlow >= 1
        /\ Emptied # {} => EmptyFlow >= 1
    BY <1>0, FlowBound DEF Semaphores, EmptyFlow, Granted, Emptied
  <1>3. Size \in Nat /\ Size = FullFlow /\ Size + EmptyFlow = BUFFER_LEN
    BY StoredSloths DEF SlothsConserved
  <1>4. ASSUME NEW t \in Producers, pc[t] \in {"produce", "add"} PROVE EmptyFlow >= 1
    <2>1. full_call[t] = "none" /\ empty_call[t] = "none"
      BY <1>0, <1>4, NotCalling
    <2>2. t \in Granted
      BY <1>0, <1>4, <2>1, ClaimsOf
    <2>3. QED
      BY <1>2, <2>1, <2>2
  <1>5. ASSUME NEW t \in Consumers, pc[t] \in EmptiedLabels PROVE EmptyFlow >= 1
    <2>1. t \in Emptied
      BY <1>5 DEF Emptied, Givers, EmptiedLabels
    <2>2. QED
      BY <1>2, <2>1
  <1>6. ASSUME NEW t \in Consumers, pc[t] = "remove" PROVE FullFlow >= 1
    <2>1. full_call[t] = "none" /\ empty_call[t] = "none"
      BY <1>0, <1>6, NotCalling
    <2>2. t \in Promised
      BY <1>0, <1>6, <2>1, ClaimsOf
    <2>3. QED
      BY <1>1, <2>1, <2>2
  <1>7. QED
    BY <1>1, <1>2, <1>3, <1>4, <1>5, <1>6


-----------------------------------------------------------------------------
(* Every step keeps the shape of the ring *)

\* A step that moves neither index and no thread to or from the statements
\* between a sloth and its index keeps the two ends of the queue in place.
LEMMA EndsSame ==
    ASSUME producer_idx' = producer_idx, consumer_idx' = consumer_idx,
           \A u \in Threads : \A l \in {"p_advance", "delete", "c_advance"} :
               pc[u] = l <=> pc'[u] = l
    PROVE  /\ NextFree' = NextFree /\ Oldest' = Oldest
           /\ At(Consumers, {"delete"})' = At(Consumers, {"delete"})
  <1>1. /\ At(Producers, {"p_advance"})' = At(Producers, {"p_advance"})
        /\ At(Consumers, {"delete", "c_advance"})' = At(Consumers, {"delete", "c_advance"})
        /\ At(Consumers, {"delete"})' = At(Consumers, {"delete"})
    BY ThreadSets DEF At
  <1>2. QED
    BY <1>1 DEF NextFree, Oldest, NextIdx

\* Steps that keep the ends and the set of stored items.
LEMMA OrderSame ==
    ASSUME RustInv, NextFree' = NextFree, Oldest' = Oldest, Stored' = Stored
    PROVE  /\ NextFree' = (Wrap(Oldest + Size))'
           /\ \A s \in Sloths : s \in Stored' <=> (Ahead(Oldest, s) < Size)'
           /\ Size' = Size
  BY DEF RustInv, Ring, Size, Wrap, Ahead

\* Whoever has locked the buffer is one of the threads.
LEMMA HolderKnown ==
    ASSUME TypeOK, [CalmNext]_vars
    PROVE  holder' \in Threads \cup {Nobody}
  BY ThreadSets DEF TypeOK, CalmNext, Main, Spawn, Thread, truck, worker, InSemaphore, Terminated,
       vars, LockBuffer, UnlockBuffer, WaitEmpty, WaitFull, produce, AddItem, AdvanceProducer,
       PrintBuffer, PostFull, PostEmpty, LoopEnd, RemoveItem, DeleteItem, AdvanceConsumer, consume

\* The empty buffer, with nobody waiting, has the right shape.
LEMMA InvInit == Init => RustInv
  <1> SUFFICES ASSUME Init PROVE RustInv
    OBVIOUS
  <1>0. /\ pc = [t \in Threads |-> "absent"] /\ item = [t \in Threads |-> Other]
        /\ sloths = [s \in Sloths |-> Empty]
        /\ producer_idx = 0 /\ consumer_idx = 0 /\ holder = Nobody
        /\ full_value = 0 /\ empty_value = BUFFER_LEN
        /\ full_call = [t \in Threads |-> "none"] /\ empty_call = [t \in Threads |-> "none"]
        /\ main_i = 0
    BY DEF Init, Full!new, Free!new
  <1>1. Places
    BY <1>0, ThreadSets DEF Places, TruckPCs, WorkerPCs, Locked
  <1>2. Semaphores
    <2>1. Sleeping(full_call) = {} /\ Sleeping(empty_call) = {}
      BY <1>0 DEF Sleeping
    <2>2. QED
      BY <1>0, <2>1, ThreadSets, FS_EmptySet DEF Semaphores, Owed, Roles, Calls
  <1>3. /\ Promised = {} /\ Filled = {} /\ Granted = {} /\ Emptied = {}
        /\ \A L : "absent" \notin L => At(Producers, L) = {} /\ At(Consumers, L) = {}
    BY <1>0, ThreadSets DEF Promised, Filled, Granted, Emptied, Takers, Givers, PostCalls, At
  <1>4. Stored = {}
    BY <1>0 DEF Stored
  <1>5. Size = 0 /\ FullFlow = 0 /\ EmptyFlow = BUFFER_LEN
    BY <1>0, <1>3, <1>4, FS_EmptySet DEF Size, FullFlow, EmptyFlow
  <1>6. SlothsConserved
    BY <1>5 DEF SlothsConserved
  <1>7. TypeOK /\ RecentMark
    BY <1>0, ThreadSets DEF TypeOK, RecentMark, Sloths, Empty, Deleted
  <1>8. Oldest = 0 /\ NextFree = 0 /\ Busy = {}
    BY <1>0, <1>3 DEF Oldest, NextFree, Busy, Carrying
  <1>9. Ring
    BY <1>4, <1>5, <1>7, <1>8 DEF Ring, Wrap, Ahead, Sloths
  <1>10. QED
    BY <1>1, <1>2, <1>6, <1>9 DEF RustInv

\* Quiet steps keep all of it.
LEMMA QuietShape ==
    ASSUME RustInv, [CalmNext]_vars, Quiet
    PROVE  RustInv' /\ Stored' = Stored /\ Oldest' = Oldest
  <1>1. /\ NextFree' = NextFree /\ Oldest' = Oldest
        /\ At(Consumers, {"delete"})' = At(Consumers, {"delete"})
    BY EndsSame DEF Quiet, RingLabels
  <1>2. Stored' = Stored
    BY <1>1 DEF Stored, Quiet
  <1>3. SlothsConserved'
    BY <1>2 DEF RustInv, SlothsConserved, Size, Quiet, Steady
  <1>4. TypeOK'
    BY HolderKnown DEF RustInv, Ring, TypeOK, Quiet
  <1>5. \A t \in Busy' : item'[t] \in Items
    BY DEF RustInv, Ring, Quiet
  <1>6. RecentMark'
    BY ThreadSets DEF RustInv, Ring, RecentMark, Quiet, RingLabels, NextIdx
  <1>7. QED
    BY <1>1, <1>2, <1>3, <1>4, <1>5, <1>6, OrderSame DEF RustInv, Ring, Quiet


\* A truck that has been told what to bring has an item in its hands.
LEMMA ProduceShape ==
    ASSUME RustInv, [CalmNext]_vars, NEW t \in Producers, produce(t)
    PROVE  /\ RustInv' /\ Stored' = Stored /\ Oldest' = Oldest
           /\ t \notin Busy /\ Busy' = Busy \cup {t}
  <1>0. /\ t \in Threads /\ pc[t] = "produce" /\ pc' = [pc EXCEPT ![t] = "add"]
        /\ UNCHANGED <<sloths, producer_idx, consumer_idx>> /\ Places /\ Semaphores
        /\ item \in [Threads -> Items \cup {Other}]
    BY ThreadSets DEF produce, Goto, buffer, RustInv, Ring, TypeOK
  <1>1. Places' /\ Semaphores' /\ Steady
    BY <1>0, TruckStep DEF truck, AddItem, Goto
  <1>2. PICK x \in Items : item' = [item EXCEPT ![t] = x]
    BY DEF produce
  <1>3. \A u \in Threads : pc'[u] = IF u = t THEN "add" ELSE pc[u]
    BY <1>0 DEF Places
  <1>4. /\ NextFree' = NextFree /\ Oldest' = Oldest
        /\ At(Consumers, {"delete"})' = At(Consumers, {"delete"})
    BY <1>0, <1>3, EndsSame
  <1>5. Stored' = Stored
    BY <1>0, <1>4 DEF Stored
  <1>6. t \notin Busy /\ Busy' = Busy \cup {t}
    BY <1>0, <1>3, ThreadSets DEF Busy, At
  <1>7. SlothsConserved'
    BY <1>1, <1>5 DEF RustInv, SlothsConserved, Size, Steady
  <1>8. TypeOK'
    BY <1>0, <1>2, HolderKnown DEF RustInv, Ring, TypeOK
  <1>9. \A u \in Busy' : item'[u] \in Items
    <2>1. Busy \in SUBSET Threads
      BY ThreadSets DEF Busy, At
    <2>2. QED
      BY <1>0, <1>2, <1>6, <2>1 DEF RustInv, Ring
  <1>10. RecentMark'
    BY <1>0, <1>3, ThreadSets DEF RustInv, Ring, RecentMark, NextIdx
  <1>11. QED
    BY <1>1, <1>4, <1>5, <1>6, <1>7, <1>8, <1>9, <1>10, OrderSame DEF RustInv, Ring

\* add()'s write puts the item behind all the others.
LEMMA AddShape ==
    ASSUME RustInv, [CalmNext]_vars, NEW t \in Producers, AddItem(t)
    PROVE  /\ RustInv'
           /\ Size' = Size + 1 /\ Size < BUFFER_LEN /\ Oldest' = Oldest
           /\ producer_idx = Wrap(Oldest + Size)
           /\ item[t] \in Items
           /\ t \in Busy /\ Busy' = Busy \ {t}
  <1>0. /\ t \in Threads /\ pc[t] = "add" /\ pc' = [pc EXCEPT ![t] = "p_advance"]
        /\ sloths' = [sloths EXCEPT ![producer_idx] = item[t]]
        /\ producer_idx' = producer_idx /\ consumer_idx' = consumer_idx /\ item' = item
        /\ Places /\ Semaphores /\ SlothsConserved /\ TypeOK /\ RecentMark
        /\ sloths \in [Sloths -> Items \cup {Empty, Deleted}]
        /\ producer_idx \in Sloths /\ consumer_idx \in Sloths
    BY ThreadSets DEF AddItem, Goto, RustInv, Ring, TypeOK
  <1>1. Places' /\ Semaphores' /\ FullFlow' = FullFlow + 1 /\ EmptyFlow' = EmptyFlow - 1
    BY <1>0, TruckStep DEF truck
  <1>2. \A u \in Threads : u # t => pc[u] \notin Locked
    BY <1>0, OneLocked DEF Locked
  <1>3. \A u \in Threads : pc'[u] = IF u = t THEN "p_advance" ELSE pc[u]
    BY <1>0 DEF Places
  <1>4. Size \in 0 .. BUFFER_LEN /\ Size < BUFFER_LEN
    BY <1>0, SizeBound
  <1>5. /\ At(Producers, {"p_advance"}) = {} /\ At(Producers, {"p_advance"})' # {}
        /\ At(Consumers, {"delete", "c_advance"}) = {} /\ At(Consumers, {"delete"}) = {}
        /\ At(Consumers, {"delete", "c_advance"})' = {} /\ At(Consumers, {"delete"})' = {}
    BY <1>0, <1>2, <1>3, ThreadSets DEF At, Locked
  <1>6. /\ Oldest = consumer_idx /\ Oldest' = consumer_idx
        /\ NextFree = producer_idx /\ NextFree' = NextIdx(producer_idx)
    BY <1>0, <1>5 DEF Oldest, NextFree
  <1>7. producer_idx = Wrap(consumer_idx + Size)
    BY <1>6 DEF RustInv, Ring
  <1>8. t \in Busy /\ Busy' = Busy \ {t}
    BY <1>0, <1>3, ThreadSets DEF Busy, At
  <1>9. item[t] \in Items
    BY <1>8 DEF RustInv, Ring
  <1>10. /\ \A s \in Sloths : Ahead(consumer_idx, s) = Size <=> s = producer_idx
         /\ \A s \in Sloths : Ahead(consumer_idx, s) \in Nat
         /\ \A s \in Sloths : s \in Stored <=> Ahead(consumer_idx, s) < Size
    <2>1. \A s \in Sloths : Ahead(consumer_idx, s) = Size <=> s = producer_idx
      BY <1>0, <1>4, <1>7 DEF Ahead, Wrap, Sloths
    <2>2. \A s \in Sloths : Ahead(consumer_idx, s) \in Nat
      BY <1>0 DEF Ahead, Sloths
    <2>3. QED
      BY <1>6, <2>1, <2>2 DEF RustInv, Ring
  <1>11. producer_idx \notin Stored /\ Stored' = Stored \cup {producer_idx}
    BY <1>0, <1>4, <1>5, <1>9, <1>10 DEF Stored
  <1>12. Size' = Size + 1
    BY <1>11, StoredSloths, FS_AddElement DEF Size
  <1>13. SlothsConserved'
    <2>1. FullFlow \in Int /\ EmptyFlow \in Int
      BY <1>0, ClaimsFinite DEF Semaphores, Owed, FullFlow, EmptyFlow
    <2>2. QED
      BY <1>0, <1>1, <1>4, <1>12, <2>1 DEF SlothsConserved
  <1>14. NextFree' = (Wrap(Oldest + Size))'
    <2>1. NextFree' = Wrap(consumer_idx + (Size + 1))
      BY <1>0, <1>4, <1>6, <1>7, NextIdxIsWrap DEF Wrap, Sloths
    <2>2. QED
      BY <1>6, <1>12, <2>1 DEF Wrap
  <1>15. \A s \in Sloths : s \in Stored' <=> (Ahead(Oldest, s) < Size)'
    <2>1. \A s \in Sloths : s \in Stored' <=> Ahead(consumer_idx, s) < Size + 1
      BY <1>4, <1>10, <1>11
    <2>2. QED
      BY <1>6, <1>12, <2>1 DEF Ahead
  <1>16. TypeOK'
    BY <1>0, <1>9, HolderKnown DEF TypeOK
  <1>17. \A u \in Busy' : item'[u] \in Items
    BY <1>0, <1>8 DEF RustInv, Ring
  <1>18. RecentMark'
    <2>1. \A s \in Sloths : sloths[s] # Deleted
      BY <1>0, <1>2, ThreadSets DEF RecentMark, Locked
    <2>2. \A s \in Sloths : sloths'[s] # Deleted
      BY <1>0, <1>9, <2>1
    <2>3. QED
      BY <2>2 DEF RecentMark
  <1>19. RustInv'
    BY <1>1, <1>13, <1>14, <1>15, <1>16, <1>17, <1>18 DEF RustInv, Ring
  <1>20. QED
    BY <1>4, <1>6, <1>7, <1>8, <1>9, <1>12, <1>19

\* The truck's index follows its write.
LEMMA AdvanceProducerShape ==
    ASSUME RustInv, [CalmNext]_vars, NEW t \in Producers, AdvanceProducer(t)
    PROVE  RustInv' /\ Stored' = Stored /\ Oldest' = Oldest /\ Busy' = Busy
  <1>0. /\ t \in Threads /\ pc[t] = "p_advance" /\ pc' = [pc EXCEPT ![t] = "p_print"]
        /\ producer_idx' = NextIdx(producer_idx)
        /\ UNCHANGED <<sloths, consumer_idx, item>>
        /\ Places /\ Semaphores /\ TypeOK /\ RecentMark /\ producer_idx \in Sloths
    BY ThreadSets DEF AdvanceProducer, Goto, RustInv, Ring, TypeOK
  <1>1. Places' /\ Semaphores' /\ Steady
    BY <1>0, TruckStep DEF truck, AddItem, Goto
  <1>2. \A u \in Threads : u # t => pc[u] \notin Locked
    BY <1>0, OneLocked DEF Locked
  <1>3. \A u \in Threads : pc'[u] = IF u = t THEN "p_print" ELSE pc[u]
    BY <1>0 DEF Places
  <1>4. /\ At(Producers, {"p_advance"}) # {} /\ At(Producers, {"p_advance"})' = {}
        /\ At(Consumers, {"delete", "c_advance"}) = {} /\ At(Consumers, {"delete"}) = {}
        /\ At(Consumers, {"delete", "c_advance"})' = {} /\ At(Consumers, {"delete"})' = {}
    BY <1>0, <1>2, <1>3, ThreadSets DEF At, Locked
  <1>5. Oldest' = Oldest /\ NextFree' = NextFree
    BY <1>0, <1>4 DEF Oldest, NextFree
  <1>6. Stored' = Stored
    BY <1>0, <1>4 DEF Stored
  <1>7. Busy' = Busy
    BY <1>0, <1>3, ThreadSets DEF Busy, At
  <1>8. SlothsConserved'
    BY <1>1, <1>6 DEF RustInv, SlothsConserved, Size, Steady
  <1>9. TypeOK'
    BY <1>0, HolderKnown, NextIdxIsWrap DEF TypeOK
  <1>10. \A u \in Busy' : item'[u] \in Items
    BY <1>0, <1>7 DEF RustInv, Ring
  <1>11. RecentMark'
    BY <1>0, <1>2, ThreadSets DEF RecentMark, Locked
  <1>12. QED
    BY <1>1, <1>5, <1>6, <1>7, <1>8, <1>9, <1>10, <1>11, OrderSame DEF RustInv, Ring

\* Drawing the buffer takes the '+' away and nothing else.
LEMMA PrintShape ==
    ASSUME RustInv, [CalmNext]_vars, NEW t \in Threads,
           \/ PrintBuffer(t, "p_print", "unlock") /\ t \in Producers
           \/ PrintBuffer(t, "c_print", "consume") /\ t \in Consumers
    PROVE  /\ RustInv' /\ Stored' = Stored /\ Oldest' = Oldest /\ Busy' = Busy
           /\ item' = item
           /\ \A s \in Sloths : sloths[s] \in Items => sloths'[s] = sloths[s]
  <1>0. /\ pc[t] \in {"p_print", "c_print"}
        /\ pc[t] = "p_print" => t \in Producers /\ pc' = [pc EXCEPT ![t] = "unlock"]
        /\ pc[t] = "c_print" => t \in Consumers /\ pc' = [pc EXCEPT ![t] = "consume"]
        /\ UNCHANGED <<producer_idx, consumer_idx, item>>
        /\ sloths' = Displayed(sloths)
        /\ Places /\ Semaphores /\ TypeOK /\ RecentMark
        /\ sloths \in [Sloths -> Items \cup {Empty, Deleted}]
    BY DEF PrintBuffer, Goto, RustInv, Ring, TypeOK
  <1>1. Places' /\ Semaphores' /\ Steady
    <2>1. CASE PrintBuffer(t, "p_print", "unlock") /\ t \in Producers
      BY <1>0, <2>1, TruckStep DEF truck, AddItem, PrintBuffer, Goto
    <2>2. CASE PrintBuffer(t, "c_print", "consume") /\ t \in Consumers
      BY <1>0, <2>2, WorkerStep DEF worker, RemoveItem, PrintBuffer, Goto
    <2>3. QED
      BY <2>1, <2>2
  <1>3. \A u \in Threads : IF u = t THEN pc'[u] \in {"unlock", "consume"}
                                         /\ (pc[u] = "p_print" <=> pc'[u] = "unlock")
                                    ELSE pc'[u] = pc[u]
    BY <1>0 DEF Places
  <1>4. /\ NextFree' = NextFree /\ Oldest' = Oldest
        /\ At(Consumers, {"delete"})' = At(Consumers, {"delete"})
    BY <1>0, <1>3, EndsSame
  <1>5. /\ \A s \in Sloths : /\ sloths'[s] \in Items <=> sloths[s] \in Items
                             /\ sloths[s] \in Items => sloths'[s] = sloths[s]
                             /\ sloths'[s] # Deleted
        /\ sloths' \in [Sloths -> Items \cup {Empty, Deleted}]
    <2>1. Empty # Deleted
      BY DEF Empty, Deleted
    <2>2. QED
      BY <1>0, <2>1 DEF Displayed
  <1>6. Stored' = Stored
    BY <1>0, <1>4, <1>5 DEF Stored
  <1>7. Busy' = Busy
    BY <1>0, <1>3, ThreadSets DEF Busy, At, Carrying
  <1>8. SlothsConserved'
    BY <1>1, <1>6 DEF RustInv, SlothsConserved, Size, Steady
  <1>9. TypeOK'
    BY <1>0, <1>5, HolderKnown DEF TypeOK
  <1>10. \A u \in Busy' : item'[u] \in Items
    BY <1>0, <1>7 DEF RustInv, Ring
  <1>11. RecentMark'
    BY <1>5 DEF RecentMark
  <1>12. QED
    BY <1>0, <1>1, <1>4, <1>5, <1>6, <1>7, <1>8, <1>9, <1>10, <1>11, OrderSame
       DEF RustInv, Ring


\* remove()'s read takes the oldest item.
LEMMA RemoveShape ==
    ASSUME RustInv, [CalmNext]_vars, NEW t \in Consumers, RemoveItem(t)
    PROVE  /\ RustInv'
           /\ Size' = Size - 1 /\ Size \in 1 .. BUFFER_LEN
           /\ Oldest = consumer_idx /\ Oldest' = Wrap(Oldest + 1)
           /\ item' = [item EXCEPT ![t] = sloths[consumer_idx]]
           /\ t \notin Busy /\ Busy' = Busy \cup {t}
  <1>0. /\ t \in Threads /\ pc[t] = "remove" /\ pc' = [pc EXCEPT ![t] = "delete"]
        /\ item' = [item EXCEPT ![t] = Taken(sloths[consumer_idx])]
        /\ UNCHANGED <<sloths, producer_idx, consumer_idx>>
        /\ Places /\ Semaphores /\ SlothsConserved /\ TypeOK /\ RecentMark
        /\ sloths \in [Sloths -> Items \cup {Empty, Deleted}]
        /\ item \in [Threads -> Items \cup {Other}]
        /\ producer_idx \in Sloths /\ consumer_idx \in Sloths
    BY ThreadSets DEF RemoveItem, Goto, buffer, RustInv, Ring, TypeOK
  <1>1. Places' /\ Semaphores' /\ FullFlow' = FullFlow - 1 /\ EmptyFlow' = EmptyFlow + 1
    BY <1>0, WorkerStep DEF worker
  <1>2. \A u \in Threads : u # t => pc[u] \notin Locked
    BY <1>0, OneLocked DEF Locked
  <1>3. \A u \in Threads : pc'[u] = IF u = t THEN "delete" ELSE pc[u]
    BY <1>0 DEF Places
  <1>4. Size \in 1 .. BUFFER_LEN
    BY <1>0, SizeBound
  <1>5. /\ At(Producers, {"p_advance"}) = {} /\ At(Producers, {"p_advance"})' = {}
        /\ At(Consumers, {"delete", "c_advance"}) = {} /\ At(Consumers, {"delete"}) = {}
        /\ At(Consumers, {"delete", "c_advance"})' # {} /\ At(Consumers, {"delete"})' # {}
    BY <1>0, <1>2, <1>3, ThreadSets DEF At, Locked
  <1>6. /\ Oldest = consumer_idx /\ Oldest' = Wrap(consumer_idx + 1)
        /\ NextFree = producer_idx /\ NextFree' = producer_idx
    BY <1>0, <1>5, NextIdxIsWrap DEF Oldest, NextFree
  <1>7. /\ \A s \in Sloths : s \in Stored <=> Ahead(consumer_idx, s) < Size
        /\ producer_idx = Wrap(consumer_idx + Size)
    BY <1>6 DEF RustInv, Ring
  <1>8. consumer_idx \in Stored /\ sloths[consumer_idx] \in Items
    <2>1. Ahead(consumer_idx, consumer_idx) = 0
      BY <1>0 DEF Ahead, Sloths
    <2>2. QED
      BY <1>0, <1>4, <1>7, <2>1, StoredSloths
  <1>9. Stored' = Stored \ {consumer_idx}
    BY <1>0, <1>5 DEF Stored
  <1>10. Size' = Size - 1
    BY <1>8, <1>9, StoredSloths, FS_RemoveElement DEF Size
  <1>11. item' = [item EXCEPT ![t] = sloths[consumer_idx]]
    BY <1>0, <1>8 DEF Taken
  <1>12. t \notin Busy /\ Busy' = Busy \cup {t}
    BY <1>0, <1>3, ThreadSets DEF Busy, At, Carrying
  <1>13. SlothsConserved'
    <2>1. FullFlow \in Int /\ EmptyFlow \in Int
      BY <1>0, ClaimsFinite DEF Semaphores, Owed, FullFlow, EmptyFlow
    <2>2. QED
      BY <1>0, <1>1, <1>4, <1>10, <2>1 DEF SlothsConserved
  <1>14. NextFree' = (Wrap(Oldest + Size))'
    <2>1. Wrap(Wrap(consumer_idx + 1) + (Size - 1)) = Wrap(consumer_idx + Size)
      BY <1>0, <1>4 DEF Wrap, Sloths
    <2>2. NextFree' = Wrap(Oldest' + Size')
      BY <1>6, <1>7, <1>10, <2>1
    <2>3. QED
      BY <2>2 DEF Wrap
  <1>15. \A s \in Sloths : s \in Stored' <=> (Ahead(Oldest, s) < Size)'
    <2>1. \A s \in Sloths : s # consumer_idx =>
             Ahead(Wrap(consumer_idx + 1), s) = Ahead(consumer_idx, s) - 1
      BY <1>0 DEF Ahead, Wrap, Sloths
    <2>2. Ahead(Wrap(consumer_idx + 1), consumer_idx) = BUFFER_LEN - 1
      BY <1>0 DEF Ahead, Wrap, Sloths
    <2>3. \A s \in Sloths : Ahead(consumer_idx, s) \in Nat
      BY <1>0 DEF Ahead, Sloths
    <2>4. \A s \in Sloths : s \in Stored' <=> Ahead(Wrap(consumer_idx + 1), s) < Size - 1
      BY <1>4, <1>7, <1>9, <2>1, <2>2, <2>3
    <2>5. QED
      BY <1>6, <1>10, <2>4 DEF Ahead
  <1>16. TypeOK'
    BY <1>0, <1>8, <1>11, HolderKnown DEF TypeOK
  <1>17. \A u \in Busy' : item'[u] \in Items
    <2>1. Busy \in SUBSET Threads
      BY ThreadSets DEF Busy, At
    <2>2. QED
      BY <1>0, <1>8, <1>11, <1>12, <2>1 DEF RustInv, Ring
  <1>18. RecentMark'
    BY <1>0, <1>2, ThreadSets DEF RecentMark, Locked
  <1>19. RustInv'
    BY <1>1, <1>13, <1>14, <1>15, <1>16, <1>17, <1>18 DEF RustInv, Ring
  <1>20. QED
    BY <1>4, <1>6, <1>10, <1>11, <1>12, <1>19

\* remove()'s write marks the sloth that was read.
LEMMA DeleteShape ==
    ASSUME RustInv, [CalmNext]_vars, NEW t \in Consumers, DeleteItem(t)
    PROVE  /\ RustInv' /\ Stored' = Stored /\ Oldest' = Oldest /\ Busy' = Busy
           /\ \A s \in Stored : sloths'[s] = sloths[s]
  <1>0. /\ t \in Threads /\ pc[t] = "delete" /\ pc' = [pc EXCEPT ![t] = "c_advance"]
        /\ sloths' = [sloths EXCEPT ![consumer_idx] = Deleted]
        /\ UNCHANGED <<producer_idx, consumer_idx, item>>
        /\ Places /\ Semaphores /\ TypeOK /\ RecentMark
        /\ sloths \in [Sloths -> Items \cup {Empty, Deleted}]
        /\ consumer_idx \in Sloths
    BY ThreadSets DEF DeleteItem, Goto, RustInv, Ring, TypeOK
  <1>1. Places' /\ Semaphores' /\ Steady
    BY <1>0, WorkerStep DEF worker, RemoveItem, Goto
  <1>2. \A u \in Threads : u # t => pc[u] \notin Locked
    BY <1>0, OneLocked DEF Locked
  <1>3. \A u \in Threads : pc'[u] = IF u = t THEN "c_advance" ELSE pc[u]
    BY <1>0 DEF Places
  <1>4. /\ At(Producers, {"p_advance"})' = At(Producers, {"p_advance"})
        /\ At(Consumers, {"delete", "c_advance"}) # {} /\ At(Consumers, {"delete"}) # {}
        /\ At(Consumers, {"delete", "c_advance"})' # {} /\ At(Consumers, {"delete"})' = {}
    BY <1>0, <1>2, <1>3, ThreadSets DEF At, Locked
  <1>5. Oldest' = Oldest /\ NextFree' = NextFree
    BY <1>0, <1>4 DEF Oldest, NextFree, NextIdx
  <1>6. consumer_idx \notin Stored
    BY <1>0, <1>4, StoredSloths
  <1>7. Stored' = Stored
    BY <1>0, <1>4 DEF Stored
  <1>8. Busy' = Busy
    BY <1>0, <1>3, ThreadSets DEF Busy, At, Carrying
  <1>9. SlothsConserved'
    BY <1>1, <1>7 DEF RustInv, SlothsConserved, Size, Steady
  <1>10. TypeOK'
    BY <1>0, HolderKnown DEF TypeOK
  <1>11. \A u \in Busy' : item'[u] \in Items
    BY <1>0, <1>8 DEF RustInv, Ring
  <1>12. RecentMark'
    <2>1. \A s \in Sloths : sloths[s] # Deleted
      BY <1>0, <1>2, ThreadSets DEF RecentMark, Locked
    <2>2. \A s \in Sloths : sloths'[s] = Deleted => s = consumer_idx
      BY <1>0, <2>1
    <2>3. QED
      BY <1>0, <1>3, <2>2 DEF RecentMark
  <1>13. \A s \in Stored : sloths'[s] = sloths[s]
    BY <1>0, <1>6, StoredSloths
  <1>14. QED
    BY <1>1, <1>5, <1>7, <1>8, <1>9, <1>10, <1>11, <1>12, <1>13, OrderSame DEF RustInv, Ring

\* The worker's index follows its write.
LEMMA AdvanceConsumerShape ==
    ASSUME RustInv, [CalmNext]_vars, NEW t \in Consumers, AdvanceConsumer(t)
    PROVE  RustInv' /\ Stored' = Stored /\ Oldest' = Oldest /\ Busy' = Busy
  <1>0. /\ t \in Threads /\ pc[t] = "c_advance" /\ pc' = [pc EXCEPT ![t] = "c_print"]
        /\ consumer_idx' = NextIdx(consumer_idx)
        /\ UNCHANGED <<sloths, producer_idx, item>>
        /\ Places /\ Semaphores /\ TypeOK /\ RecentMark /\ consumer_idx \in Sloths
    BY ThreadSets DEF AdvanceConsumer, Goto, RustInv, Ring, TypeOK
  <1>1. Places' /\ Semaphores' /\ Steady
    BY <1>0, WorkerStep DEF worker, RemoveItem, Goto
  <1>2. \A u \in Threads : u # t => pc[u] \notin Locked
    BY <1>0, OneLocked DEF Locked
  <1>3. \A u \in Threads : pc'[u] = IF u = t THEN "c_print" ELSE pc[u]
    BY <1>0 DEF Places
  <1>4. /\ At(Producers, {"p_advance"}) = {} /\ At(Producers, {"p_advance"})' = {}
        /\ At(Consumers, {"delete", "c_advance"}) # {} /\ At(Consumers, {"delete"}) = {}
        /\ At(Consumers, {"delete", "c_advance"})' = {} /\ At(Consumers, {"delete"})' = {}
    BY <1>0, <1>2, <1>3, ThreadSets DEF At, Locked
  <1>5. Oldest' = Oldest /\ NextFree' = NextFree
    BY <1>0, <1>4 DEF Oldest, NextFree
  <1>6. Stored' = Stored
    BY <1>0, <1>4 DEF Stored
  <1>7. Busy' = Busy
    BY <1>0, <1>3, ThreadSets DEF Busy, At, Carrying
  <1>8. SlothsConserved'
    BY <1>1, <1>6 DEF RustInv, SlothsConserved, Size, Steady
  <1>9. TypeOK'
    BY <1>0, HolderKnown, NextIdxIsWrap DEF TypeOK
  <1>10. \A u \in Busy' : item'[u] \in Items
    BY <1>0, <1>7 DEF RustInv, Ring
  <1>11. RecentMark'
    <2>1. \A s \in Sloths : sloths[s] = Deleted => s = consumer_idx
      BY <1>0, <1>2, ThreadSets DEF RecentMark, Locked
    <2>2. QED
      BY <1>0, <1>3, <2>1 DEF RecentMark, NextIdx
  <1>12. QED
    BY <1>1, <1>5, <1>6, <1>7, <1>8, <1>9, <1>10, <1>11, OrderSame DEF RustInv, Ring

-----------------------------------------------------------------------------
(* What is left after a spurious return *)

\* A step of t from one place to another.
LEMMA BaseMove ==
    ASSUME Base, NEW t \in Threads, NEW from, NEW to, Goto(t, from, to), UNCHANGED main,
           from # "absent",
           t \in Producers => to \in TruckPCs, t \in Consumers => to \in WorkerPCs,
           \/ (from \in Locked <=> to \in Locked) /\ holder' = holder
           \/ from \notin Locked /\ to \in Locked /\ holder = Nobody /\ holder' = t
           \/ from \in Locked /\ to \notin Locked /\ holder' = Nobody
    PROVE  /\ Places' /\ holder' \in Threads \cup {Nobody} /\ pc[t] = from
           /\ \A u \in Threads : pc'[u] = IF u = t THEN to ELSE pc[u]
           /\ from \in Locked => \A u \in Threads : u # t => pc[u] \notin Locked
  <1>1. /\ pc[t] = from /\ pc' = [pc EXCEPT ![t] = to] /\ main_pc' = main_pc
        /\ main_i' = main_i /\ Places /\ TypeOK
    BY DEF Goto, main, Base
  <1>2. Places'
    BY <1>1, PlaceMove
  <1>3. QED
    BY <1>1, <1>2, OneLocked DEF Places, TypeOK

\* What Base says of the data.
BaseData == TypeOK /\ RecentMark /\ \A t \in Producers : pc[t] = "add" => item[t] \in Items

\* A step of t that leaves the buffer and the items alone.
LEMMA BaseIdle ==
    ASSUME Base, UNCHANGED <<sloths, producer_idx, consumer_idx, item>>,
           holder' \in Threads \cup {Nobody},
           \A u \in Threads : \A l \in {"add", "c_advance", "c_print"} : pc[u] = l <=> pc'[u] = l
    PROVE  BaseData'
  <1>1. TypeOK'
    BY DEF Base, TypeOK
  <1>2. RecentMark'
    BY ThreadSets DEF Base, RecentMark, NextIdx
  <1>3. QED
    BY <1>1, <1>2, ThreadSets DEF Base, BaseData

\* The steps of a truck.
LEMMA BaseTruck ==
    ASSUME Base, NEW t \in Producers, truck(t)
    PROVE  Places' /\ BaseData'
  <1>0. /\ t \in Threads /\ t \notin Consumers
        /\ Places /\ TypeOK /\ RecentMark /\ producer_idx \in Sloths
        /\ sloths \in [Sloths -> Items \cup {Empty, Deleted}]
        /\ item \in [Threads -> Items \cup {Other}]
    BY ThreadSets DEF Base, TypeOK
  <1>1. ASSUME \/ WaitEmpty(t) \/ LockBuffer(t, "produce") \/ UnlockBuffer(t)
               \/ PostFull(t) \/ LoopEnd(t)
        PROVE  Places' /\ BaseData'
    <2>1. /\ UNCHANGED <<sloths, producer_idx, consumer_idx, item, main>>
          /\ \/ /\ holder' = holder
                /\ \/ Goto(t, "begin", "wait") \/ Goto(t, "post", "posting")
                   \/ Goto(t, "posting", "begin")
             \/ Goto(t, "wait", "produce") /\ holder = Nobody /\ holder' = t
             \/ Goto(t, "unlock", "post") /\ holder' = Nobody
      BY <1>1 DEF WaitEmpty, LockBuffer, UnlockBuffer, PostFull, LoopEnd, buffer
    <2>2. /\ {"begin", "wait", "produce", "post", "posting"} \subseteq TruckPCs
          /\ {"begin", "wait", "post", "posting"} \cap Locked = {}
          /\ {"produce", "unlock"} \subseteq Locked
      BY DEF TruckPCs, Locked
    <2>3. /\ Places' /\ holder' \in Threads \cup {Nobody}
          /\ \A u \in Threads : \A l \in {"add", "c_advance", "c_print"} : pc[u] = l <=> pc'[u] = l
      BY <1>0, <2>1, <2>2, BaseMove
    <2>4. QED
      BY <2>1, <2>3, BaseIdle
  <1>a. ASSUME NEW from, NEW to, Goto(t, from, to), UNCHANGED <<holder, main>>,
               from \in Locked, to \in Locked, to \in TruckPCs
        PROVE  /\ Places' /\ holder' \in Threads \cup {Nobody}
               /\ \A u \in Threads : pc'[u] = IF u = t THEN to ELSE pc[u]
               /\ \A s \in Sloths : sloths[s] # Deleted
    <2>1. "absent" \notin Locked
      BY DEF Locked
    <2>2. /\ Places' /\ holder' \in Threads \cup {Nobody} /\ pc[t] = from
          /\ \A u \in Threads : pc'[u] = IF u = t THEN to ELSE pc[u]
          /\ \A u \in Threads : u # t => pc[u] \notin Locked
      BY <1>0, <1>a, <2>1, BaseMove
    <2>3. \A s \in Sloths : sloths[s] # Deleted
      BY <1>0, <2>2, ThreadSets DEF RecentMark, Locked
    <2>4. QED
      BY <2>2, <2>3
  <1>b. /\ {"produce", "add", "p_advance", "p_print", "unlock"} \subseteq Locked
        /\ {"produce", "add", "p_advance", "p_print", "unlock"} \subseteq TruckPCs
    BY DEF Locked, TruckPCs
  <1>2. ASSUME produce(t) PROVE Places' /\ BaseData'
    <2>1. PICK x \in Items : item' = [item EXCEPT ![t] = x]
      BY <1>2 DEF produce
    <2>2. /\ Goto(t, "produce", "add")
          /\ UNCHANGED <<sloths, producer_idx, consumer_idx, holder, main>>
      BY <1>2 DEF produce, buffer
    <2>3. /\ Places' /\ holder' \in Threads \cup {Nobody}
          /\ \A u \in Threads : pc'[u] = IF u = t THEN "add" ELSE pc[u]
          /\ \A s \in Sloths : sloths'[s] # Deleted
      BY <1>a, <1>b, <2>2
    <2>4. TypeOK'
      BY <1>0, <2>1, <2>2, <2>3 DEF TypeOK
    <2>5. RecentMark'
      BY <2>3 DEF RecentMark
    <2>6. \A u \in Producers : pc'[u] = "add" => item'[u] \in Items
      BY <1>0, <2>1, <2>3, ThreadSets DEF Base
    <2>7. QED
      BY <2>3, <2>4, <2>5, <2>6 DEF BaseData
  <1>3. ASSUME AddItem(t) PROVE Places' /\ BaseData'
    <2>1. /\ Goto(t, "add", "p_advance") /\ item[t] \in Items
          /\ sloths' = [sloths EXCEPT ![producer_idx] = item[t]]
          /\ UNCHANGED <<producer_idx, consumer_idx, holder, item, main>>
      BY <1>3 DEF AddItem, Goto, Base
    <2>2. /\ Places' /\ holder' \in Threads \cup {Nobody}
          /\ \A u \in Threads : pc'[u] = IF u = t THEN "p_advance" ELSE pc[u]
          /\ \A s \in Sloths : sloths[s] # Deleted
      BY <1>a, <1>b, <2>1
    <2>3. /\ sloths' \in [Sloths -> Items \cup {Empty, Deleted}]
          /\ \A s \in Sloths : sloths'[s] # Deleted
      BY <1>0, <2>1, <2>2
    <2>4. TypeOK' /\ RecentMark'
      BY <1>0, <2>1, <2>2, <2>3 DEF TypeOK, RecentMark
    <2>5. \A u \in Producers : pc'[u] = "add" => item'[u] \in Items
      BY <1>0, <2>1, <2>2, ThreadSets DEF Base
    <2>6. QED
      BY <2>2, <2>4, <2>5 DEF BaseData
  <1>4. ASSUME AdvanceProducer(t) PROVE Places' /\ BaseData'
    <2>1. /\ Goto(t, "p_advance", "p_print") /\ producer_idx' = NextIdx(producer_idx)
          /\ UNCHANGED <<sloths, consumer_idx, holder, item, main>>
      BY <1>4 DEF AdvanceProducer
    <2>2. /\ Places' /\ holder' \in Threads \cup {Nobody}
          /\ \A u \in Threads : pc'[u] = IF u = t THEN "p_print" ELSE pc[u]
          /\ \A s \in Sloths : sloths'[s] # Deleted
      BY <1>a, <1>b, <2>1
    <2>3. producer_idx' \in Sloths
      BY <1>0, <2>1, NextIdxIsWrap
    <2>4. TypeOK' /\ RecentMark'
      BY <1>0, <2>1, <2>2, <2>3 DEF TypeOK, RecentMark
    <2>5. \A u \in Producers : pc'[u] = "add" => item'[u] \in Items
      BY <1>0, <2>1, <2>2, ThreadSets DEF Base
    <2>6. QED
      BY <2>2, <2>4, <2>5 DEF BaseData
  <1>5. ASSUME PrintBuffer(t, "p_print", "unlock") PROVE Places' /\ BaseData'
    <2>1. /\ Goto(t, "p_print", "unlock") /\ sloths' = Displayed(sloths)
          /\ UNCHANGED <<producer_idx, consumer_idx, holder, item, main>>
      BY <1>5 DEF PrintBuffer
    <2>2. /\ Places' /\ holder' \in Threads \cup {Nobody}
          /\ \A u \in Threads : pc'[u] = IF u = t THEN "unlock" ELSE pc[u]
          /\ \A s \in Sloths : sloths[s] # Deleted
      BY <1>a, <1>b, <2>1
    <2>3. sloths' = sloths
      BY <1>0, <2>1, <2>2 DEF Displayed
    <2>4. TypeOK' /\ RecentMark'
      BY <1>0, <2>1, <2>2, <2>3 DEF TypeOK, RecentMark
    <2>5. \A u \in Producers : pc'[u] = "add" => item'[u] \in Items
      BY <1>0, <2>1, <2>2, ThreadSets DEF Base
    <2>6. QED
      BY <2>2, <2>4, <2>5 DEF BaseData
  <1>6. QED
    BY <1>1, <1>2, <1>3, <1>4, <1>5 DEF truck

\* The steps of a worker.
LEMMA BaseWorker ==
    ASSUME Base, NEW t \in Consumers, worker(t)
    PROVE  Places' /\ BaseData'
  <1>0. /\ t \in Threads /\ t \notin Producers
        /\ Places /\ TypeOK /\ RecentMark /\ consumer_idx \in Sloths
        /\ sloths \in [Sloths -> Items \cup {Empty, Deleted}]
        /\ item \in [Threads -> Items \cup {Other}]
    BY ThreadSets DEF Base, TypeOK
  <1>1. ASSUME \/ WaitFull(t) \/ LockBuffer(t, "remove") \/ consume(t) \/ UnlockBuffer(t)
               \/ PostEmpty(t) \/ LoopEnd(t)
        PROVE  Places' /\ BaseData'
    <2>1. /\ UNCHANGED <<sloths, producer_idx, consumer_idx, item, main>>
          /\ \/ /\ holder' = holder
                /\ \/ Goto(t, "begin", "wait") \/ Goto(t, "post", "posting")
                   \/ Goto(t, "posting", "begin") \/ Goto(t, "consume", "unlock")
             \/ Goto(t, "wait", "remove") /\ holder = Nobody /\ holder' = t
             \/ Goto(t, "unlock", "post") /\ holder' = Nobody
      BY <1>1 DEF WaitFull, LockBuffer, consume, UnlockBuffer, PostEmpty, LoopEnd, buffer
    <2>2. /\ {"begin", "wait", "remove", "unlock", "post", "posting"} \subseteq WorkerPCs
          /\ {"begin", "wait", "post", "posting"} \cap Locked = {}
          /\ {"remove", "consume", "unlock"} \subseteq Locked
      BY DEF WorkerPCs, Locked
    <2>3. /\ Places' /\ holder' \in Threads \cup {Nobody}
          /\ \A u \in Threads : \A l \in {"add", "c_advance", "c_print"} : pc[u] = l <=> pc'[u] = l
      BY <1>0, <2>1, <2>2, BaseMove
    <2>4. QED
      BY <2>1, <2>3, BaseIdle
  <1>a. ASSUME NEW from, NEW to, Goto(t, from, to), UNCHANGED <<holder, main>>,
               from \in Locked, to \in Locked, to \in WorkerPCs, to # "add"
        PROVE  /\ Places' /\ holder' \in Threads \cup {Nobody} /\ pc[t] = from
               /\ \A u \in Threads : pc'[u] = IF u = t THEN to ELSE pc[u]
               /\ \A u \in Threads : u # t => pc[u] \notin Locked
               /\ \A u \in Producers : pc'[u] # "add"
    <2>1. "absent" \notin Locked /\ "add" \in Locked
      BY DEF Locked
    <2>2. /\ Places' /\ holder' \in Threads \cup {Nobody} /\ pc[t] = from
          /\ \A u \in Threads : pc'[u] = IF u = t THEN to ELSE pc[u]
          /\ \A u \in Threads : u # t => pc[u] \notin Locked
      BY <1>0, <1>a, <2>1, BaseMove
    <2>3. QED
      BY <1>a, <2>1, <2>2, ThreadSets
  <1>b. /\ {"remove", "delete", "c_advance", "c_print", "consume"} \subseteq Locked
        /\ {"remove", "delete", "c_advance", "c_print", "consume"} \subseteq WorkerPCs
    BY DEF Locked, WorkerPCs
  <1>2. ASSUME RemoveItem(t) PROVE Places' /\ BaseData'
    <2>1. /\ Goto(t, "remove", "delete")
          /\ item' = [item EXCEPT ![t] = Taken(sloths[consumer_idx])]
          /\ UNCHANGED <<sloths, producer_idx, consumer_idx, holder, main>>
      BY <1>2 DEF RemoveItem, buffer
    <2>2. /\ Places' /\ holder' \in Threads \cup {Nobody} /\ pc[t] = "remove"
          /\ \A u \in Threads : u # t => pc[u] \notin Locked
          /\ \A u \in Producers : pc'[u] # "add"
      BY <1>a, <1>b, <2>1
    <2>3. item' \in [Threads -> Items \cup {Other}]
      BY <1>0, <2>1 DEF Taken
    <2>4. TypeOK'
      BY <1>0, <2>1, <2>2, <2>3 DEF TypeOK
    <2>5. \A s \in Sloths : sloths'[s] # Deleted
      BY <1>0, <2>1, <2>2, ThreadSets DEF RecentMark, Locked
    <2>6. QED
      BY <2>2, <2>4, <2>5 DEF BaseData, RecentMark
  <1>3. ASSUME DeleteItem(t) PROVE Places' /\ BaseData'
    <2>1. /\ Goto(t, "delete", "c_advance")
          /\ sloths' = [sloths EXCEPT ![consumer_idx] = Deleted]
          /\ UNCHANGED <<producer_idx, consumer_idx, holder, item, main>>
      BY <1>3 DEF DeleteItem
    <2>2. /\ Places' /\ holder' \in Threads \cup {Nobody} /\ pc[t] = "delete"
          /\ pc'[t] = "c_advance"
          /\ \A u \in Threads : u # t => pc[u] \notin Locked
          /\ \A u \in Producers : pc'[u] # "add"
      BY <1>0, <1>a, <1>b, <2>1
    <2>3. TypeOK'
      BY <1>0, <2>1, <2>2 DEF TypeOK
    <2>4. \A s \in Sloths : sloths[s] # Deleted
      BY <1>0, <2>2, ThreadSets DEF RecentMark, Locked
    <2>5. \A s \in Sloths : sloths'[s] = Deleted => s = consumer_idx'
      BY <1>0, <2>1, <2>4
    <2>6. QED
      BY <2>2, <2>3, <2>5 DEF BaseData, RecentMark
  <1>4. ASSUME AdvanceConsumer(t) PROVE Places' /\ BaseData'
    <2>1. /\ Goto(t, "c_advance", "c_print") /\ consumer_idx' = NextIdx(consumer_idx)
          /\ UNCHANGED <<sloths, producer_idx, holder, item, main>>
      BY <1>4 DEF AdvanceConsumer
    <2>2. /\ Places' /\ holder' \in Threads \cup {Nobody} /\ pc[t] = "c_advance"
          /\ pc'[t] = "c_print"
          /\ \A u \in Threads : u # t => pc[u] \notin Locked
          /\ \A u \in Producers : pc'[u] # "add"
      BY <1>0, <1>a, <1>b, <2>1
    <2>3. TypeOK'
      BY <1>0, <2>1, <2>2, NextIdxIsWrap DEF TypeOK
    <2>4. \A s \in Sloths : sloths'[s] = Deleted => NextIdx(s) = consumer_idx'
      BY <1>0, <2>1, <2>2, ThreadSets DEF RecentMark, Locked
    <2>5. RecentMark'
      BY <2>2, <2>4 DEF RecentMark, NextIdx
    <2>6. QED
      BY <2>2, <2>3, <2>5 DEF BaseData
  <1>5. ASSUME PrintBuffer(t, "c_print", "consume") PROVE Places' /\ BaseData'
    <2>1. /\ Goto(t, "c_print", "consume") /\ sloths' = Displayed(sloths)
          /\ UNCHANGED <<producer_idx, consumer_idx, holder, item, main>>
      BY <1>5 DEF PrintBuffer
    <2>2. /\ Places' /\ holder' \in Threads \cup {Nobody}
          /\ \A u \in Producers : pc'[u] # "add"
      BY <1>a, <1>b, <2>1
    <2>3. /\ sloths' \in [Sloths -> Items \cup {Empty, Deleted}]
          /\ \A s \in Sloths : sloths'[s] # Deleted
      BY <1>0, <2>1 DEF Displayed, Empty, Deleted
    <2>4. TypeOK' /\ RecentMark'
      BY <1>0, <2>1, <2>2, <2>3 DEF TypeOK, RecentMark
    <2>5. QED
      BY <2>2, <2>4 DEF BaseData
  <1>6. QED
    BY <1>1, <1>2, <1>3, <1>4, <1>5 DEF worker

\* Only a spurious return is counted.
LEMMA StraysCounted ==
    ASSUME Base, [Next]_vars
    PROVE  /\ full_strays' \in Nat /\ empty_strays' \in Nat
           /\ Undisturbed' => Undisturbed /\ [CalmNext]_vars
  <1>0. full_strays \in Nat /\ empty_strays \in Nat
    BY DEF Base
  <1>1. ASSUME NEW t \in Threads, SpuriousReturn(t)
        PROVE  full_strays' \in Nat /\ empty_strays' \in Nat /\ ~Undisturbed'
    BY <1>0, <1>1 DEF SpuriousReturn, Full!SpuriousWakeup, Free!SpuriousWakeup, sem_full,
         sem_empty, Undisturbed
  <1>2. ASSUME [CalmNext]_vars PROVE UNCHANGED <<full_strays, empty_strays>>
    <2>1. ASSUME NEW t \in Threads, InSemaphore(t)
          PROVE  UNCHANGED <<full_strays, empty_strays>>
      <3>1. Full!wait(t) \/ Full!post(t) => full_strays' = full_strays
        BY DEF Full!wait, Full!post, Full!Lock, Full!WaitLocked, Full!WaitReturn, Full!PostLocked
      <3>2. Free!wait(t) \/ Free!post(t) => empty_strays' = empty_strays
        BY DEF Free!wait, Free!post, Free!Lock, Free!WaitLocked, Free!WaitReturn, Free!PostLocked
      <3>3. QED
        BY <2>1, <3>1, <3>2 DEF InSemaphore, InFull, InEmpty, sem_full, sem_empty
    <2>2. ASSUME NEW t \in Threads, truck(t) PROVE UNCHANGED <<full_strays, empty_strays>>
      BY <2>2 DEF truck, WaitEmpty, LockBuffer, produce, AddItem, AdvanceProducer, PrintBuffer,
           UnlockBuffer, PostFull, LoopEnd, Free!CallWait, Full!CallPost, sems, sem_full, sem_empty
    <2>3. ASSUME NEW t \in Threads, worker(t) PROVE UNCHANGED <<full_strays, empty_strays>>
      BY <2>3 DEF worker, WaitFull, LockBuffer, RemoveItem, DeleteItem, AdvanceConsumer,
           PrintBuffer, consume, UnlockBuffer, PostEmpty, LoopEnd, Full!CallWait, Free!CallPost,
           sems, sem_full, sem_empty
    <2>4. ASSUME Main \/ UNCHANGED vars PROVE UNCHANGED <<full_strays, empty_strays>>
      BY <2>4 DEF Main, Spawn, vars, sems, sem_full, sem_empty
    <2>5. QED
      BY <1>2, <2>1, <2>2, <2>3, <2>4 DEF CalmNext, Thread, Terminated
  <1>3. [CalmNext]_vars \/ \E t \in Threads : SpuriousReturn(t)
    BY DEF Next, CalmNext
  <1>4. QED
    BY <1>0, <1>1, <1>2, <1>3 DEF Undisturbed

\* Base holds from the start, and every step keeps it.
LEMMA BaseInit == Init => Base
  <1> SUFFICES ASSUME Init PROVE Base
    OBVIOUS
  <1>1. RustInv
    BY InvInit
  <1>2. /\ full_strays = 0 /\ empty_strays = 0 /\ pc = [t \in Threads |-> "absent"]
    BY DEF Init, Full!new, Free!new
  <1>3. QED
    BY <1>1, <1>2, ThreadSets DEF Base, RustInv, Ring

LEMMA BaseStep == Base /\ [Next]_vars => Base'
  <1> SUFFICES ASSUME Base, [Next]_vars PROVE Base'
    OBVIOUS
  <1>1. ASSUME Places', BaseData' PROVE Base'
    BY <1>1, StraysCounted DEF Base, BaseData
  <1>2. ASSUME NEW t \in Threads, Spawn(t) PROVE Base'
    <2>0. /\ main_pc = "spawn" /\ main_i = t /\ holder' = holder /\ Places /\ TypeOK
          /\ UNCHANGED <<sloths, producer_idx, consumer_idx, item>>
          /\ t \in Nat /\ pc[t] = "absent" /\ pc \in [Threads -> TruckPCs \cup WorkerPCs]
      BY <1>2, ThreadSets DEF Spawn, buffer, Base, Places
    <2>1. CASE pc' = [pc EXCEPT ![t] = "begin"] /\ main_i' = t + 1
      <3>1. \A u \in Threads : pc'[u] = IF u = t THEN "begin" ELSE pc[u]
        BY <2>0, <2>1
      <3>2. /\ pc' \in [Threads -> TruckPCs \cup WorkerPCs]
            /\ \A u \in Producers : pc'[u] \in TruckPCs
            /\ \A u \in Consumers : pc'[u] \in WorkerPCs
        BY <2>0, <2>1, <3>1, ThreadSets DEF Places, TruckPCs, WorkerPCs
      <3>3. \A u \in Threads : pc'[u] \in Locked <=> holder' = u
        BY <2>0, <3>1 DEF Places, Locked
      <3>4. main_i' \in Nat /\ \A u \in Threads : u >= main_i' => pc'[u] = "absent"
        BY <2>0, <2>1, <3>1, ThreadSets DEF Places
      <3>5. Places'
        BY <3>2, <3>3, <3>4 DEF Places
      <3>6. BaseData'
        BY <2>0, <3>1, BaseIdle DEF TypeOK
      <3>7. QED
        BY <1>1, <3>5, <3>6
    <2>2. CASE pc' = pc /\ main_pc' = "panicked" /\ main_i' = main_i
      <3>1. Places'
        BY <2>0, <2>2 DEF Places
      <3>2. BaseData'
        BY <2>0, <2>2, BaseIdle DEF TypeOK
      <3>3. QED
        BY <1>1, <3>1, <3>2
    <2>3. QED
      BY <1>2, <2>1, <2>2 DEF Spawn
  <1>3. ASSUME UNCHANGED <<buffer, holder, pc, item, main>> PROVE Base'
    <2>1. UNCHANGED <<sloths, producer_idx, consumer_idx, holder, pc, item, main_pc, main_i>>
      BY <1>3 DEF buffer, main
    <2>2. Places'
      BY <2>1 DEF Base, Places
    <2>3. BaseData'
      BY <2>1, BaseIdle DEF Base, TypeOK
    <2>4. QED
      BY <1>1, <2>2, <2>3
  <1>4. ASSUME NEW t \in Producers, truck(t) PROVE Base'
    BY <1>1, <1>4, BaseTruck
  <1>5. ASSUME NEW t \in Consumers, worker(t) PROVE Base'
    BY <1>1, <1>5, BaseWorker
  <1>6. ASSUME NEW t \in Threads, InSemaphore(t) \/ SpuriousReturn(t) PROVE Base'
    BY <1>3, <1>6 DEF InSemaphore, SpuriousReturn
  <1>7. ASSUME UNCHANGED vars PROVE Base'
    BY <1>3, <1>7 DEF vars
  <1>8. QED
    BY <1>2, <1>4, <1>5, <1>6, <1>7 DEF Next, Main, Thread, Terminated

-----------------------------------------------------------------------------
(* The invariant holds from the start, and for ever *)

\* Base always, the rest until the first spurious return.
LEMMA RustAlways == Spec => [](Base /\ (Undisturbed => RustInv))
  <1>1. RustInv /\ [CalmNext]_vars => RustInv'
    <2> SUFFICES ASSUME RustInv, [CalmNext]_vars PROVE RustInv'
      OBVIOUS
    <2>1. ASSUME Quiet PROVE RustInv'
      BY <2>1, QuietShape
    <2>2. ASSUME NEW t \in Producers,
                 \/ produce(t) \/ AddItem(t) \/ AdvanceProducer(t)
                 \/ PrintBuffer(t, "p_print", "unlock")
          PROVE  RustInv'
      BY <2>2, ThreadSets, ProduceShape, AddShape, AdvanceProducerShape, PrintShape
    <2>3. ASSUME NEW t \in Consumers,
                 \/ RemoveItem(t) \/ DeleteItem(t) \/ AdvanceConsumer(t)
                 \/ PrintBuffer(t, "c_print", "consume")
          PROVE  RustInv'
      BY <2>3, ThreadSets, RemoveShape, DeleteShape, AdvanceConsumerShape, PrintShape
    <2>4. QED
      BY <2>1, <2>2, <2>3, KindsOfStep DEF RustInv
  <1>2. Base /\ (Undisturbed => RustInv) /\ [Next]_vars => Base' /\ (Undisturbed' => RustInv')
    BY <1>1, BaseStep, StraysCounted
  <1>3. QED
    BY <1>2, BaseInit, InvInit, PTL DEF Spec

\* No '+' outlives the picture it was made for, whatever Condvar::wait does.
\* Until it first returns spuriously a truck stores over a sloth that holds no
\* item and a worker never gets Item::Other: for any number of trucks and
\* workers, any BUFFER_LEN and any number of spurious returns, although the
\* semaphores' values go below 0 and their sleepers do not look at them again.
THEOREM RustRingAlways == Spec => []RingContents
  <1>1. ASSUME RustInv PROVE NoOverwrite /\ NoOther
    <2>0. /\ TypeOK /\ RecentMark /\ Places /\ Semaphores /\ SlothsConserved
          /\ producer_idx \in Sloths /\ consumer_idx \in Sloths
      BY <1>1 DEF RustInv, Ring, TypeOK
    <2>1. NoOther
      BY <1>1 DEF RustInv, Ring, NoOther, Busy
    <2>2. ASSUME NEW t \in Producers, pc[t] \in {"produce", "add"}
          PROVE  sloths[producer_idx] \notin Items
      <3>1. \A u \in Threads : u # t => pc[u] \notin Locked
        BY <2>0, <2>2, OneLocked, ThreadSets DEF Locked
      <3>2. /\ At(Producers, {"p_advance"}) = {} /\ At(Consumers, {"delete"}) = {}
            /\ At(Consumers, {"delete", "c_advance"}) = {}
        BY <2>2, <3>1, ThreadSets DEF At, Locked
      <3>3. NextFree = producer_idx /\ Oldest = consumer_idx
        BY <3>2 DEF NextFree, Oldest
      <3>4. Size \in 0 .. BUFFER_LEN /\ Size < BUFFER_LEN
        BY <2>0, <2>2, SizeBound
      <3>5. producer_idx = Wrap(consumer_idx + Size)
        BY <1>1, <3>3 DEF RustInv, Ring
      <3>6. Ahead(consumer_idx, producer_idx) = Size
        BY <2>0, <3>4, <3>5 DEF Wrap, Ahead, Sloths
      <3>7. producer_idx \notin Stored
        BY <1>1, <2>0, <3>3, <3>4, <3>6 DEF RustInv, Ring
      <3>8. QED
        BY <2>0, <3>2, <3>7, StoredSloths
    <2>3. QED
      BY <2>1, <2>2 DEF NoOverwrite, At
  <1>2. Base /\ (Undisturbed => RustInv) => RingContents
    BY <1>1 DEF Base, RingContents
  <1>3. QED
    BY <1>2, RustAlways, PTL


-----------------------------------------------------------------------------
(* The Rust warehouse is a bounded first-in first-out store *)

\* The sloth of the k-th item.
SlothOf(k) == Wrap(Oldest + k - 1)

QueueInRing ==
    /\ Oldest \in Sloths
    /\ Size \in 0 .. BUFFER_LEN
    /\ \A k \in 1 .. Size : /\ SlothOf(k) \in Stored
                            /\ Queue[k] = sloths[SlothOf(k)]
    /\ Queue \in Seq(Items)
    /\ Len(Queue) = Size

\* The stored items are a sequence, found in the Size sloths from Oldest on.
LEMMA StoredItems == RustInv => QueueInRing
  <1> SUFFICES ASSUME RustInv PROVE QueueInRing
    OBVIOUS
  <1>1. Oldest \in Sloths
    BY NextIdxIsWrap DEF Oldest, RustInv, Ring, TypeOK
  <1>2. Size \in 0 .. BUFFER_LEN
    BY SizeBound DEF RustInv
  <1>3. ASSUME NEW k \in 1 .. Size
        PROVE  /\ SlothOf(k) \in Stored
               /\ Queue[k] = sloths[SlothOf(k)]
               /\ sloths[SlothOf(k)] \in Items
    <2>1. SlothOf(k) \in Sloths /\ Ahead(Oldest, SlothOf(k)) = k - 1
      BY <1>1, <1>2 DEF SlothOf, Wrap, Ahead, Sloths
    <2>2. (Oldest + k - 1) % BUFFER_LEN = SlothOf(k)
      <3>1. Oldest + k - 1 \in 0 .. 2 * BUFFER_LEN - 1
        BY <1>1, <1>2 DEF Sloths
      <3>2. QED
        BY <3>1, ModIsWrap DEF SlothOf
    <2>3. Queue[k] = sloths[SlothOf(k)]
      BY <2>2 DEF Queue, Size
    <2>4. k - 1 < Size
      BY <1>2
    <2>5. SlothOf(k) \in Stored
      BY <2>1, <2>4 DEF RustInv, Ring
    <2>6. QED
      BY <2>1, <2>3, <2>5, StoredSloths
  <1>4. Queue \in [1 .. Size -> Items]
    <2>1. Queue = [k \in 1 .. Size |-> Queue[k]]
      BY DEF Queue, Size
    <2>2. QED
      BY <1>3, <2>1
  <1>5. Queue \in Seq(Items) /\ Len(Queue) = Size
    BY <1>2, <1>4, SeqDef, LenProperties
  <1>6. QED
    BY <1>1, <1>2, <1>3, <1>5 DEF QueueInRing

\* A step that leaves the two ends and the stored items alone keeps the queue.
LEMMA QueueSame ==
    ASSUME RustInv, RustInv', Stored' = Stored, Oldest' = Oldest,
           \A s \in Stored : sloths'[s] = sloths[s]
    PROVE  Queue' = Queue
  <1>1. QueueInRing /\ QueueInRing'
    BY StoredItems, PTL
  <1>2. Size' = Size
    BY DEF Size
  <1>3. \A k \in 1 .. Size : SlothOf(k)' = SlothOf(k)
    BY DEF SlothOf, Wrap
  <1>4. \A k \in 1 .. Size : Queue'[k] = Queue[k]
    BY <1>1, <1>2, <1>3 DEF QueueInRing
  <1>5. /\ Queue \in Seq(Items) /\ Queue' \in Seq(Items)
        /\ Len(Queue) = Size /\ Len(Queue') = Size
    BY <1>1, <1>2 DEF QueueInRing
  <1>6. QED
    BY <1>4, <1>5, SeqEqual

\* add() puts its item behind the queue.
LEMMA AddAppends ==
    ASSUME RustInv, RustInv', [CalmNext]_vars, NEW t \in Producers, AddItem(t)
    PROVE  Queue' = Append(Queue, item[t]) /\ Len(Queue) < BUFFER_LEN
  <1>1. QueueInRing /\ QueueInRing'
    BY StoredItems, PTL
  <1>2. /\ Size' = Size + 1 /\ Size < BUFFER_LEN /\ Oldest' = Oldest
        /\ producer_idx = Wrap(Oldest + Size)
        /\ item[t] \in Items
    BY AddShape
  <1>3. /\ sloths' = [sloths EXCEPT ![producer_idx] = item[t]]
        /\ sloths \in [Sloths -> Items \cup {Empty, Deleted}]
        /\ producer_idx \in Sloths
    BY DEF AddItem, RustInv, Ring, TypeOK
  <1>4. Size \in Nat /\ Oldest \in Sloths
    BY <1>1 DEF QueueInRing
  <1>5. \A k \in 1 .. Size + 1 : SlothOf(k)' = SlothOf(k)
    BY <1>2 DEF SlothOf, Wrap
  <1>6. ASSUME NEW k \in 1 .. Size PROVE Queue'[k] = Queue[k]
    <2>1. SlothOf(k) \in Sloths /\ SlothOf(k) # producer_idx
      BY <1>2, <1>4 DEF SlothOf, Wrap, Sloths
    <2>2. sloths'[SlothOf(k)] = sloths[SlothOf(k)]
      BY <1>3, <2>1
    <2>3. k \in 1 .. Size + 1
      BY <1>4
    <2>4. QED
      BY <1>1, <1>2, <1>5, <2>2, <2>3 DEF QueueInRing
  <1>7. Queue'[Size + 1] = item[t]
    <2>1. SlothOf(Size + 1) = producer_idx
      BY <1>2, <1>4 DEF SlothOf, Wrap, Sloths
    <2>2. Size + 1 \in 1 .. Size + 1
      BY <1>4
    <2>3. QED
      BY <1>1, <1>2, <1>3, <1>5, <2>1, <2>2 DEF QueueInRing
  <1>8. /\ Queue \in Seq(Items) /\ Queue' \in Seq(Items)
        /\ Len(Queue) = Size /\ Len(Queue') = Size + 1
    BY <1>1, <1>2 DEF QueueInRing
  <1>9. /\ Append(Queue, item[t]) \in Seq(Items)
        /\ Len(Append(Queue, item[t])) = Size + 1
        /\ \A k \in 1 .. Size + 1 :
             Append(Queue, item[t])[k] = IF k = Size + 1 THEN item[t] ELSE Queue[k]
    BY <1>2, <1>8
  <1>10. \A k \in 1 .. Size + 1 : Queue'[k] = Append(Queue, item[t])[k]
    BY <1>4, <1>6, <1>7, <1>9
  <1>11. Queue' = Append(Queue, item[t])
    BY <1>8, <1>9, <1>10, SeqEqual
  <1>12. QED
    BY <1>2, <1>8, <1>11

\* remove() takes the head of the queue.
LEMMA RemoveTakesHead ==
    ASSUME RustInv, RustInv', [CalmNext]_vars, NEW t \in Consumers, RemoveItem(t)
    PROVE  /\ Queue # << >>
           /\ item' = [item EXCEPT ![t] = Head(Queue)]
           /\ Queue' = Tail(Queue)
  <1>1. QueueInRing /\ QueueInRing'
    BY StoredItems, PTL
  <1>2. /\ Size' = Size - 1 /\ Size \in 1 .. BUFFER_LEN
        /\ Oldest = consumer_idx /\ Oldest' = Wrap(Oldest + 1)
        /\ item' = [item EXCEPT ![t] = sloths[consumer_idx]]
    BY RemoveShape
  <1>3. sloths' = sloths /\ Oldest \in Sloths
    BY <1>1 DEF RemoveItem, buffer, QueueInRing
  <1>4. /\ Queue \in Seq(Items) /\ Queue' \in Seq(Items)
        /\ Len(Queue) = Size /\ Len(Queue') = Size - 1
    BY <1>1, <1>2 DEF QueueInRing
  <1>5. Queue # << >>
    BY <1>2, <1>4
  <1>6. Head(Queue) = sloths[consumer_idx]
    <2>1. SlothOf(1) = consumer_idx
      BY <1>2, <1>3 DEF SlothOf, Wrap, Sloths
    <2>2. Queue[1] = sloths[consumer_idx]
      BY <1>1, <1>2, <2>1 DEF QueueInRing
    <2>3. QED
      BY <1>4, <1>5, <2>2
  <1>7. \A k \in 1 .. Size - 1 : SlothOf(k)' = SlothOf(k + 1)
    BY <1>2, <1>3 DEF SlothOf, Wrap, Sloths
  <1>8. ASSUME NEW k \in 1 .. Size - 1 PROVE Queue'[k] = Queue[k + 1]
    <2>1. k \in 1 .. Size' /\ k + 1 \in 1 .. Size
      BY <1>2
    <2>2. Queue'[k] = sloths'[SlothOf(k)'] /\ Queue[k + 1] = sloths[SlothOf(k + 1)]
      BY <1>1, <2>1 DEF QueueInRing
    <2>3. QED
      BY <1>3, <1>7, <2>2
  <1>9. /\ Tail(Queue) \in Seq(Items) /\ Len(Tail(Queue)) = Size - 1
        /\ \A k \in 1 .. Size - 1 : Tail(Queue)[k] = Queue[k + 1]
    BY <1>4, <1>5, HeadTailProperties
  <1>10. Queue' = Tail(Queue)
    BY <1>4, <1>8, <1>9, SeqEqual
  <1>11. QED
    BY <1>2, <1>5, <1>6, <1>10

\* Every step of the warehouse is a step of the bounded store, or none.
LEMMA RefinesStep ==
    RustInv /\ RustInv' /\ [CalmNext]_vars => [Fifo!FifoNext]_(Fifo!fifoVars)
  <1> SUFFICES ASSUME RustInv, RustInv', [CalmNext]_vars
               PROVE  Fifo!FifoNext \/ UNCHANGED Fifo!fifoVars
    OBVIOUS
  <1>a. ASSUME Queue' = Queue, item' = item, Busy' = Busy
        PROVE  UNCHANGED Fifo!fifoVars
    BY <1>a DEF Fifo!fifoVars
  <1>b. \A s \in Stored : s \in Sloths /\ sloths[s] \in Items
    BY StoredSloths
  <1>1. CASE Quiet
    <2>1. Queue' = Queue
      BY <1>1, QuietShape, QueueSame DEF Quiet
    <2>2. CASE Busy' = Busy
      BY <1>1, <2>1, <2>2, <1>a DEF Quiet
    <2>3. ASSUME NEW c \in Consumers, c \in Busy, Busy' = Busy \ {c}
          PROVE  Fifo!FifoNext
      <3>1. Fifo!Deliver(c)
        BY <1>1, <2>1, <2>3 DEF Fifo!Deliver, Quiet
      <3>2. QED
        BY <3>1 DEF Fifo!FifoNext
    <2>4. QED
      BY <1>1, <2>2, <2>3 DEF Quiet
  <1>2. ASSUME NEW t \in Producers, produce(t) PROVE Fifo!FifoNext
    <2>1. /\ Stored' = Stored /\ Oldest' = Oldest /\ sloths' = sloths
          /\ t \notin Busy /\ Busy' = Busy \cup {t}
      BY <1>2, ProduceShape DEF produce, buffer
    <2>2. Queue' = Queue
      BY <2>1, QueueSame
    <2>3. Fifo!Load(t)
      BY <1>2, <2>1, <2>2 DEF Fifo!Load, produce
    <2>4. QED
      BY <2>3 DEF Fifo!FifoNext
  <1>3. ASSUME NEW t \in Producers, AddItem(t) PROVE Fifo!FifoNext
    <2>1. Queue' = Append(Queue, item[t]) /\ Len(Queue) < BUFFER_LEN
      BY <1>3, AddAppends
    <2>2. t \in Busy /\ Busy' = Busy \ {t} /\ item' = item
      BY <1>3, AddShape DEF AddItem
    <2>3. Fifo!Put(t)
      BY <2>1, <2>2 DEF Fifo!Put
    <2>4. QED
      BY <2>3 DEF Fifo!FifoNext
  <1>4. ASSUME NEW t \in Producers, AdvanceProducer(t) PROVE UNCHANGED Fifo!fifoVars
    <2>1. /\ Stored' = Stored /\ Oldest' = Oldest /\ Busy' = Busy
          /\ sloths' = sloths /\ item' = item
      BY <1>4, AdvanceProducerShape DEF AdvanceProducer
    <2>2. QED
      BY <2>1, QueueSame, <1>a
  <1>5. ASSUME NEW t \in Threads,
               \/ PrintBuffer(t, "p_print", "unlock") /\ t \in Producers
               \/ PrintBuffer(t, "c_print", "consume") /\ t \in Consumers
        PROVE  UNCHANGED Fifo!fifoVars
    <2>1. /\ Stored' = Stored /\ Oldest' = Oldest /\ Busy' = Busy /\ item' = item
          /\ \A s \in Sloths : sloths[s] \in Items => sloths'[s] = sloths[s]
      BY <1>5, PrintShape
    <2>2. Queue' = Queue
      BY <1>b, <2>1, QueueSame
    <2>3. QED
      BY <2>1, <2>2, <1>a
  <1>6. ASSUME NEW t \in Consumers, RemoveItem(t) PROVE Fifo!FifoNext
    <2>1. /\ Queue # << >>
          /\ item' = [item EXCEPT ![t] = Head(Queue)]
          /\ Queue' = Tail(Queue)
      BY <1>6, RemoveTakesHead
    <2>2. t \notin Busy /\ Busy' = Busy \cup {t}
      BY <1>6, RemoveShape
    <2>3. Fifo!Get(t)
      BY <2>1, <2>2 DEF Fifo!Get
    <2>4. QED
      BY <2>3 DEF Fifo!FifoNext
  <1>7. ASSUME NEW t \in Consumers, DeleteItem(t) PROVE UNCHANGED Fifo!fifoVars
    <2>1. /\ Stored' = Stored /\ Oldest' = Oldest /\ Busy' = Busy /\ item' = item
          /\ \A s \in Stored : sloths'[s] = sloths[s]
      BY <1>7, DeleteShape DEF DeleteItem
    <2>2. QED
      BY <2>1, QueueSame, <1>a
  <1>8. ASSUME NEW t \in Consumers, AdvanceConsumer(t) PROVE UNCHANGED Fifo!fifoVars
    <2>1. /\ Stored' = Stored /\ Oldest' = Oldest /\ Busy' = Busy
          /\ sloths' = sloths /\ item' = item
      BY <1>8, AdvanceConsumerShape DEF AdvanceConsumer
    <2>2. QED
      BY <2>1, QueueSame, <1>a
  <1>9. QED
    BY <1>1, <1>2, <1>3, <1>4, <1>5, <1>6, <1>7, <1>8, KindsOfStep, ThreadSets DEF RustInv

\* The empty warehouse is an empty store.
LEMMA RefinesInit == Init => Fifo!FifoInit
  <1> SUFFICES ASSUME Init PROVE Fifo!FifoInit
    OBVIOUS
  <1>1. Busy = {}
    BY ThreadSets DEF Init, Busy, At, Carrying
  <1>2. Stored = {}
    BY DEF Init, Stored
  <1>3. Queue = << >>
    BY <1>2, FS_EmptySet DEF Queue
  <1>4. item = [t \in Producers \cup Consumers |-> Other]
    BY ThreadSets DEF Init
  <1>5. QED
    BY <1>1, <1>3, <1>4 DEF Fifo!FifoInit

\* Until a return of Condvar::wait is spurious, r_lab05_b.rs is a first-in
\* first-out store of BUFFER_LEN items like the C version, whatever the number
\* of trucks and workers: items leave in the order in which they were stored,
\* none is lost, overwritten or handed out twice.
THEOREM RustImplementsFifo == Spec => FifoRefinement
  <1>1. /\ Base /\ (Undisturbed => RustInv) /\ [Next]_vars
        /\ Base' /\ (Undisturbed' => RustInv')
        => [Undisturbed' => Fifo!FifoNext]_(Fifo!fifoVars)
    BY StraysCounted, RefinesStep
  <1>2. QED
    BY <1>1, RustAlways, RefinesInit, PTL DEF Spec, FifoRefinement


=============================================================================
