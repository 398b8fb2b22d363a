---------------------------- MODULE OddEvenProofs ----------------------------
(***************************************************************************)
(* Theorems about the two counting threads of task 5 a), for any MAX_N and *)
(* whether or not their creation may fail: first about c/c_lab05_a.c, then *)
(* about all three versions, with Custom::Binary::Semaphore of             *)
(* cpp/include/buffer.hh and rust/r_lab05_a.rs.                            *)
(***************************************************************************)
EXTENDS OddEvenVersions, SequenceTheorems, TLAPS

USE MaxAssumption

-----------------------------------------------------------------------------
(* The inductive invariant *)

Sem(t)    == IF t = "odd" THEN sem_odd ELSE sem_even
Other(t)  == IF t = "odd" THEN "even" ELSE "odd"
Parity(t) == IF t = "odd" THEN 1 ELSE 0

\* It is t's turn from the post of its semaphore to its own post; the number
\* is printed half-way.
ToPrint(t)  == Sem(t) = 1 \/ pc[t] \in {"load", "store"}
Printed(t)  == pc[t] \in {"test", "post"}
Unfinished(t) == pc[t] \in {"absent", "wait"}

TypePart ==
    /\ counter \in Nat
    /\ sem_odd \in Nat /\ sem_even \in Nat
    /\ pc \in [Threads -> {"absent", "wait", "load", "store", "test", "post", "done"}]
    /\ n \in [Threads -> Nat]
    /\ end \in [Threads -> BOOLEAN]

\* There is one turn, and it is somewhere.
OneTurn ==
    \A t \in Threads :
        /\ Sem(t) \in {0, 1}
        /\ Sem(t) = 1 => ~HasTurn(t)
        /\ ToPrint(t) \/ Printed(t) => ~ToPrint(Other(t)) /\ ~Printed(Other(t))
        /\ ~ToPrint(t) /\ ~Printed(t) => ToPrint(Other(t)) \/ Printed(Other(t))

\* Whoever has the turn finds a number of its own parity.
ParityPart ==
    \A t \in Threads :
        /\ ToPrint(t) => counter % 2 = Parity(t)
        /\ Printed(t) => counter % 2 = Parity(Other(t))
        /\ pc[t] = "store" => n[t] = counter

\* How far the count is, given whether the other thread has returned.
CountPart ==
    \A t \in Threads :
        /\ counter >= 1
        /\ Unfinished(t) \/ HasTurn(t) =>
              /\ ToPrint(t) /\ Unfinished(Other(t)) => counter <= Limit - 1
              /\ ToPrint(t) /\ pc[Other(t)] = "done" => counter = Limit
              /\ Printed(t) => counter >= 2
              /\ Printed(t) /\ Unfinished(Other(t)) => counter <= Limit
              /\ Printed(t) /\ pc[Other(t)] = "done" => counter = Limit + 1
        /\ pc[t] = "done" /\ pc[Other(t)] = "done" => counter = Limit + 1
        /\ pc[t] \in {"absent", "wait", "load", "store", "test"} => ~end[t]
        /\ pc[t] = "post" => (end[t] <=> counter >= MAX_N)

OutPart == out \in Seq(Threads \X Nat) /\ Len(out) = counter - 1

\* main() passes its joins only when the threads have returned, and creates
\* each thread once.
MainPart ==
    /\ main_pc \in {"create_odd", "create_even", "join_odd", "join_even",
                    "close", "exited", "failed"}
    /\ main_pc = "create_odd" => pc["odd"] = "absent"
    /\ main_pc \in {"create_odd", "create_even"} => pc["even"] = "absent"
    /\ main_pc \in {"join_even", "close", "exited"} => pc["odd"] = "done"
    /\ main_pc \in {"close", "exited"} => pc["even"] = "done"

TurnInv == TypePart /\ OneTurn /\ ParityPart /\ CountPart /\ OutPart /\ MainPart

-----------------------------------------------------------------------------

\* Incrementing a number changes its parity, as counter++ does.
LEMMA ParityFlips ==
    \A k \in Nat : (k % 2 = 1 => (k + 1) % 2 = 0) /\ (k % 2 = 0 => (k + 1) % 2 = 1)
  OBVIOUS

\* print_odd and print_even are the only threads: each has exactly one other.
LEMMA TwoThreads ==
    \A t \in Threads : /\ Other(t) \in Threads /\ Other(t) # t /\ Other(Other(t)) = t
                       /\ Parity(t) = 1 - Parity(Other(t))
                       /\ \A u \in Threads : u = t \/ u = Other(t)
  BY DEF Threads, Other, Parity

\* The last number printed is MAX_N, or 2 when the loop of each thread runs once.
LEMMA LimitType == Limit \in Nat /\ Limit >= 2 /\ Limit >= MAX_N /\ (Limit = 2 \/ Limit = MAX_N)
  BY DEF Limit

\* The invariant holds when main() has set sem_odd to 1 and sem_even to 0.
LEMMA TurnInit == Init => TurnInv
  <1> SUFFICES ASSUME Init PROVE TurnInv
    OBVIOUS
  <1> USE DEF Init, init_semaphores, rk_sema_init, Threads
  <1>1. TypePart
    BY DEF TypePart
  <1>2. OneTurn
    BY DEF OneTurn, Sem, HasTurn, ToPrint, Printed, Other
  <1>3. ParityPart
    BY DEF ParityPart, ToPrint, Printed, Sem, Parity, Other
  <1>4. CountPart
    BY LimitType DEF CountPart, Unfinished, HasTurn, ToPrint, Printed, Sem, Other
  <1>5. OutPart
    BY DEF OutPart
  <1>6. MainPart
    BY DEF MainPart
  <1>7. QED
    BY <1>1, <1>2, <1>3, <1>4, <1>5, <1>6 DEF TurnInv

\* Every step of main(), print_odd and print_even keeps the invariant.
LEMMA TurnStep == TurnInv /\ [Next]_vars => TurnInv'
  <1> SUFFICES ASSUME TurnInv, [Next]_vars PROVE TurnInv'
    OBVIOUS
  <1> USE TwoThreads, LimitType DEF TurnInv, sems
  <1>1. ASSUME NEW t \in Threads, NEW from, NEW to, Create(t, from, to),
               <<t, from, to>> \in {<<"odd", "create_odd", "create_even">>,
                                    <<"even", "create_even", "join_odd">>}
        PROVE  TurnInv'
    <2>1. \/ main_pc' = to /\ pc' = [pc EXCEPT ![t] = "wait"]
          \/ main_pc' = "failed" /\ pc' = pc
      BY <1>1, Zenon DEF Create
    <2>2. /\ main_pc = from /\ pc[t] = "absent"
          /\ UNCHANGED <<counter, sem_odd, sem_even, n, end, out>>
      BY <1>1 DEF Create, MainPart
    <2>3. TypePart'
      BY <2>1, <2>2 DEF TypePart
    <2>4. OneTurn'
      BY <2>1, <2>2 DEF OneTurn, TypePart, Sem, HasTurn, ToPrint, Printed
    <2>5. ParityPart'
      BY <2>1, <2>2 DEF ParityPart, TypePart, Sem, ToPrint, Printed
    <2>6. CountPart'
      BY <2>1, <2>2 DEF CountPart, TypePart, Sem, HasTurn, ToPrint, Printed, Unfinished
    <2>7. OutPart'
      BY <2>2 DEF OutPart
    <2>8. MainPart'
      BY <1>1, <2>1, <2>2 DEF MainPart, TypePart, Threads
    <2>9. QED
      BY <2>3, <2>4, <2>5, <2>6, <2>7, <2>8
  <1>2. ASSUME NEW t \in Threads, NEW from, NEW to, Join(t, from, to),
               <<t, from, to>> \in {<<"odd", "join_odd", "join_even">>,
                                    <<"even", "join_even", "close">>}
        PROVE  TurnInv'
    <2>1. /\ pc[t] = "done" /\ main_pc = from /\ main_pc' = to
          /\ UNCHANGED <<counter, sem_odd, sem_even, pc, n, end, out>>
      BY <1>2 DEF Join
    <2>2. MainPart'
      BY <1>2, <2>1 DEF MainPart
    <2>3. QED
      BY <2>1, <2>2 DEF TypePart, OneTurn, ParityPart, CountPart, OutPart, Sem,
           HasTurn, ToPrint, Printed, Unfinished
  <1>3. CASE close_semaphores
    BY <1>3 DEF close_semaphores, TypePart, OneTurn, ParityPart, CountPart, OutPart,
         MainPart, Sem, HasTurn, ToPrint, Printed, Unfinished
  <1>4. ASSUME NEW t \in Threads, Thread(t) PROVE TurnInv'
    <2>a. /\ pc[t] # "done" /\ pc[t] # "absent" /\ main_pc' = main_pc
          /\ \E to \in {"wait", "load", "store", "test", "post", "done"} :
                 pc' = [pc EXCEPT ![t] = to]
      BY <1>4 DEF Thread, WaitTurn, LoadCounter, PrintNumber, TestEnd, PostOther, HandOver, Goto
    <2>b. MainPart'
      BY <2>a DEF MainPart, TypePart, Threads
    <2>1. CASE WaitTurn(t)
      <3>1. /\ pc[t] = "wait" /\ pc' = [pc EXCEPT ![t] = "load"]
            /\ \/ t = "odd" /\ sem_odd > 0 /\ sem_odd' = sem_odd - 1 /\ sem_even' = sem_even
               \/ t = "even" /\ sem_even > 0 /\ sem_even' = sem_even - 1 /\ sem_odd' = sem_odd
            /\ UNCHANGED <<counter, n, end, out>>
        BY <2>1 DEF WaitTurn, Goto, rk_sema_wait
      <3>2. TypePart'
        BY <3>1 DEF TypePart
      <3>3. OneTurn'
        BY <3>1 DEF OneTurn, TypePart, Sem, HasTurn, ToPrint, Printed, Other, Threads
      <3>4. ParityPart'
        BY <3>1 DEF ParityPart, OneTurn, TypePart, Sem, HasTurn, ToPrint, Printed, Parity, Other, Threads
      <3>5. CountPart'
        BY <3>1 DEF CountPart, OneTurn, ParityPart, TypePart, Sem, HasTurn, ToPrint, Printed,
             Unfinished, Other, Threads
      <3>6. OutPart'
        BY <3>1 DEF OutPart, ParityPart, TypePart
      <3>7. QED
        BY <2>b, <3>2, <3>3, <3>4, <3>5, <3>6
    <2>2. CASE LoadCounter(t)
      <3>1. /\ pc[t] = "load" /\ pc' = [pc EXCEPT ![t] = "store"]
            /\ n' = [n EXCEPT ![t] = counter]
            /\ UNCHANGED <<counter, sem_odd, sem_even, end, out>>
        BY <2>2 DEF LoadCounter, Goto
      <3>2. TypePart'
        BY <3>1 DEF TypePart
      <3>3. OneTurn'
        BY <3>1 DEF OneTurn, TypePart, Sem, HasTurn, ToPrint, Printed, Other, Threads
      <3>4. ParityPart'
        BY <3>1 DEF ParityPart, OneTurn, TypePart, Sem, HasTurn, ToPrint, Printed, Parity, Other, Threads
      <3>5. CountPart'
        BY <3>1 DEF CountPart, OneTurn, ParityPart, TypePart, Sem, HasTurn, ToPrint, Printed,
             Unfinished, Other, Threads
      <3>6. OutPart'
        BY <3>1 DEF OutPart, ParityPart, TypePart
      <3>7. QED
        BY <2>b, <3>2, <3>3, <3>4, <3>5, <3>6
    <2>3. CASE PrintNumber(t)
      <3>1. /\ pc[t] = "store" /\ pc' = [pc EXCEPT ![t] = "test"]
            /\ counter' = n[t] + 1 /\ out' = Append(out, <<t, n[t]>>)
            /\ UNCHANGED <<sem_odd, sem_even, n, end>>
        BY <2>3 DEF PrintNumber, Goto
      <3>2. TypePart'
        BY <3>1 DEF TypePart
      <3>3. OneTurn'
        BY <3>1 DEF OneTurn, TypePart, Sem, HasTurn, ToPrint, Printed, Other, Threads
      <3>4. ParityPart'
        <4>1. counter \in Nat /\ n[t] = counter /\ counter % 2 = Parity(t)
          BY <3>1 DEF ParityPart, TypePart, ToPrint, HasTurn
        <4>2. counter' % 2 = Parity(Other(t))
          BY <3>1, <4>1, ParityFlips DEF Parity, Other, Threads
        <4>3. QED
          BY <3>1, <4>2 DEF ParityPart, OneTurn, TypePart, Sem, HasTurn, ToPrint, Printed, Other, Threads
      <3>5. CountPart'
        BY <3>1, SMTT(20) DEF CountPart, OneTurn, ParityPart, TypePart, Sem, HasTurn, ToPrint, Printed,
             Unfinished, Other, Threads
      <3>6. OutPart'
        BY <3>1 DEF OutPart, ParityPart, TypePart
      <3>7. QED
        BY <2>b, <3>2, <3>3, <3>4, <3>5, <3>6
    <2>4. CASE TestEnd(t)
      <3>1. /\ pc[t] = "test" /\ pc' = [pc EXCEPT ![t] = "post"]
            /\ end' = [end EXCEPT ![t] = @ \/ counter >= MAX_N]
            /\ UNCHANGED <<counter, sem_odd, sem_even, n, out>>
        BY <2>4 DEF TestEnd, Goto
      <3>2. TypePart'
        BY <3>1 DEF TypePart
      <3>3. OneTurn'
        BY <3>1 DEF OneTurn, TypePart, Sem, HasTurn, ToPrint, Printed, Other, Threads
      <3>4. ParityPart'
        BY <3>1 DEF ParityPart, OneTurn, TypePart, Sem, HasTurn, ToPrint, Printed, Parity, Other, Threads
      <3>5. CountPart'
        <4>1. \A u \in Threads :
                 /\ (ToPrint(u))' <=> ToPrint(u)
                 /\ (Printed(u))' <=> Printed(u)
                 /\ (HasTurn(u))' <=> HasTurn(u)
                 /\ (Unfinished(u))' <=> Unfinished(u)
                 /\ pc'[u] = "done" <=> pc[u] = "done"
          BY <3>1 DEF TypePart, Sem, HasTurn, ToPrint, Printed, Unfinished
        <4>2. \A u \in Threads :
                 /\ (Unfinished(Other(u)))' <=> Unfinished(Other(u))
                 /\ pc'[Other(u)] = "done" <=> pc[Other(u)] = "done"
          BY <3>1 DEF TypePart, Unfinished, Other, Threads
        <4>3. \A u \in Threads :
                 /\ pc'[u] \in {"absent", "wait", "load", "store", "test"} => ~end'[u]
                 /\ pc'[u] = "post" => (end'[u] <=> counter >= MAX_N)
          <5>1. /\ pc'[t] = "post" /\ ~end[t] /\ end'[t] = (end[t] \/ counter >= MAX_N)
                /\ \A u \in Threads \ {t} : pc'[u] = pc[u] /\ end'[u] = end[u]
            BY <3>1 DEF TypePart, CountPart
          <5>2. \A u \in Threads :
                   /\ pc[u] \in {"absent", "wait", "load", "store", "test"} => ~end[u]
                   /\ pc[u] = "post" => (end[u] <=> counter >= MAX_N)
            BY DEF CountPart
          <5>3. QED
            BY <5>1, <5>2, Zenon
        <4>4. QED
          BY <3>1, <4>1, <4>2, <4>3 DEF CountPart, Limit
      <3>6. OutPart'
        BY <3>1 DEF OutPart, ParityPart, TypePart
      <3>7. QED
        BY <2>b, <3>2, <3>3, <3>4, <3>5, <3>6
    <2>5. CASE PostOther(t)
      <3>1. /\ pc[t] = "post" /\ pc' = [pc EXCEPT ![t] = IF end[t] THEN "done" ELSE "wait"]
            /\ \/ t = "odd" /\ sem_even' = sem_even + 1 /\ sem_odd' = sem_odd
               \/ t = "even" /\ sem_odd' = sem_odd + 1 /\ sem_even' = sem_even
            /\ UNCHANGED <<counter, n, end, out>>
        BY <2>5 DEF PostOther, HandOver, Goto, rk_sema_post
      <3>2. TypePart'
        BY <3>1 DEF TypePart
      <3>3. OneTurn'
        BY <3>1 DEF OneTurn, TypePart, Sem, HasTurn, ToPrint, Printed, Other, Threads
      <3>4. ParityPart'
        BY <3>1 DEF ParityPart, OneTurn, TypePart, Sem, HasTurn, ToPrint, Printed, Parity, Other, Threads
      <3>5. CountPart'
        BY <3>1 DEF CountPart, OneTurn, ParityPart, TypePart, Sem, HasTurn, ToPrint, Printed,
             Unfinished, Other, Threads
      <3>6. OutPart'
        BY <3>1 DEF OutPart, ParityPart, TypePart
      <3>7. QED
        BY <2>b, <3>2, <3>3, <3>4, <3>5, <3>6
    <2>6. QED
      BY <1>4, <2>1, <2>2, <2>3, <2>4, <2>5 DEF Thread
  <1>5. CASE UNCHANGED vars
    BY <1>5 DEF vars, TypePart, OneTurn, ParityPart, CountPart, OutPart,
         MainPart, Sem, HasTurn, ToPrint, Printed, Unfinished
  <1>6. QED
    BY <1>1, <1>2, <1>3, <1>4, <1>5 DEF Next, Main, Terminated, Threads

-----------------------------------------------------------------------------
(* What follows from it *)

\* The invariant holds throughout the program.
LEMMA TurnInvariant == Spec => []TurnInv
  BY TurnInit, TurnStep, PTL DEF Spec

\* Neither semaphore becomes negative, and the output of print_odd and
\* print_even is a list of numbers.
THEOREM CountingTypeCorrect == Spec => []TypeOK
  <1>1. TurnInv => TypeOK
    BY DEF TurnInv, TypePart, OutPart, MainPart, TypeOK
  <1>2. QED
    BY TurnInvariant, <1>1, PTL

\* print_odd and print_even never use counter at the same time: the two
\* semaphores pass one single turn back and forth.
THEOREM NoRaceAlways == Spec => []NoRace
  <1>1. TurnInv => NoRace
    BY DEF TurnInv, OneTurn, NoRace, HasTurn, ToPrint, Printed, Threads, Other
  <1>2. QED
    BY TurnInvariant, <1>1, PTL

\* print_odd only ever increments odd numbers and print_even even ones, as
\* the task asks.
THEOREM OwnParityAlways == Spec => []OwnParity
  <1>1. TurnInv => OwnParity
    BY DEF TurnInv, ParityPart, OwnParity, ToPrint, Parity, Threads
  <1>2. QED
    BY TurnInvariant, <1>1, PTL

\* Whatever MAX_N is, even or odd, the program that ends has printed exactly
\* the numbers up to it: the thread that meets the limit first posts the
\* other one's semaphore once more, and that turn is neither lost nor
\* followed by another one.
THEOREM FullCountAlways == Spec => []FullCount
  <1>1. TurnInv => FullCount
    <2> SUFFICES ASSUME TurnInv, main_pc \in {"close", "exited"}
                 PROVE  (\A t \in Threads : pc[t] = "done") /\ Len(out) = Limit
      BY DEF FullCount
    <2>1. pc["odd"] = "done" /\ pc["even"] = "done"
      BY DEF TurnInv, MainPart
    <2>2. counter = Limit + 1
      BY <2>1 DEF TurnInv, CountPart, Threads, Other
    <2>3. QED
      BY <2>1, <2>2, LimitType DEF TurnInv, OutPart, Threads
  <1>2. QED
    BY TurnInvariant, <1>1, PTL

-----------------------------------------------------------------------------
(* The inductive invariant of the three versions *)

\* Lines come out in order, each with the number of its place.
InSequence ==
    /\ out \in Seq(Threads \X Nat)
    /\ Len(out) = counter - 1
    /\ \A i \in 1 .. Len(out) : out[i][2] = i

\* C: the turns of TurnInv.
CPart == TurnInv /\ InSequence

\* C++: a thread that has given the turn away has its test still to do.
CppTypes ==
    /\ counter \in Nat
    /\ sem_odd \in Nat /\ sem_even \in Nat
    /\ pc \in [Threads -> {"absent", "wait", "load", "store", "test", "late_test", "done"}]
    /\ n \in [Threads -> Nat]

GaveAway(t) == pc[t] \in {"late_test", "done"}
MayPrint(t) == pc[t] \in {"absent", "wait", "load", "store"}

\* How far the count is, given what the other thread's last test can have
\* seen: it was made during this turn, before the turn's number is printed.
LateCount ==
    \A t \in Threads :
        /\ counter >= 1
        /\ GaveAway(t) \/ Printed(t) => counter >= 2
        /\ (GaveAway(t) \/ Printed(t)) /\ GaveAway(Other(t)) => counter >= 3
        /\ ToPrint(t) =>
             /\ Unfinished(Other(t)) => counter <= Limit - 1
             /\ pc[Other(t)] = "late_test" =>
                  /\ MayPrint(t) => counter <= Limit
                  /\ pc[t] = "late_test" => counter <= Limit + 1
                  /\ pc[t] = "done" => counter \in MAX_N .. Limit + 1
             /\ pc[Other(t)] = "done" =>
                  /\ MayPrint(t) => counter = Limit
                  /\ GaveAway(t) => counter \in MAX_N .. Limit + 1
        /\ Printed(t) =>
             /\ Unfinished(Other(t)) => counter <= Limit
             /\ pc[Other(t)] = "late_test" => counter <= Limit + 1
             /\ pc[Other(t)] = "done" => counter \in MAX_N .. Limit + 1

CppPart == CppTypes /\ OneTurn /\ ParityPart /\ LateCount /\ InSequence

\* Rust: whoever runs, each number is fetched once, and a thread returns
\* after its first number from Limit - 1 on.
RustTypes ==
    /\ counter \in Nat
    /\ pc \in [Threads -> {"absent", "wait", "asleep", "fetch", "print", "release", "done"}]
    /\ n \in [Threads -> Nat]
    /\ out \in Seq(Threads \X Nat)

HasLast(t)  == IF n[t] >= Limit - 1 THEN 1 ELSE 0
Printing(t) == IF pc[t] = "print" THEN 1 ELSE 0

LastNumbers ==
    /\ counter >= 1
    /\ \A t \in Threads :
         /\ n[t] < counter
         /\ n[t] >= Limit - 1 => pc[t] \in {"print", "release", "done"}
         /\ pc[t] = "done" => n[t] >= Limit - 1
         /\ pc[t] \in {"print", "release"} => n[t] >= 1
    /\ counter >= Limit - 1 => counter = Limit - 1 + HasLast("odd") + HasLast("even")

FetchedOnce ==
    /\ Len(out) = counter - 1 - Printing("odd") - Printing("even")
    /\ \A i \in 1 .. Len(out) : out[i][2] \in 1 .. counter - 1
    /\ \A k \in 1 .. counter - 1 : \/ \E i \in 1 .. Len(out) : out[i][2] = k
                                   \/ \E t \in Threads : pc[t] = "print" /\ n[t] = k

RustPart == RustTypes /\ LastNumbers /\ FetchedOnce

VersionsInv ==
    /\ MainPart
    /\ language \in {"c", "cpp", "rust"}
    /\ language = "c" => CPart
    /\ language = "cpp" => CppPart
    /\ language = "rust" => RustPart

-----------------------------------------------------------------------------
(* Every step keeps the invariant *)

\* The next line in order is the one with counter's number.
LEMMA SequenceGrows ==
    ASSUME InSequence, counter \in Nat, NEW t \in Threads,
           out' = Append(out, <<t, counter>>), counter' = counter + 1
    PROVE  InSequence'
  <1>1. /\ out' \in Seq(Threads \X Nat) /\ Len(out') = Len(out) + 1
        /\ \A i \in 1 .. Len(out) : out'[i] = out[i]
        /\ out'[Len(out) + 1] = <<t, counter>>
    BY DEF InSequence
  <1>2. Len(out) \in Nat
    BY DEF InSequence
  <1>3. ASSUME NEW i \in 1 .. Len(out) + 1 PROVE out'[i][2] = i
    BY <1>1, <1>2, <1>3 DEF InSequence
  <1>4. QED
    BY <1>1, <1>2, <1>3 DEF InSequence

\* The invariant holds before main() has started a thread.
LEMMA VersionsStart == VersionsInit => VersionsInv
  <1> SUFFICES ASSUME VersionsInit PROVE VersionsInv
    OBVIOUS
  <1> USE TurnInit, LimitType DEF VersionsInit
  <1>1. InSequence
    BY DEF InSequence, Init
  <1>2. TurnInv /\ OneTurn /\ ParityPart /\ MainPart
    BY DEF TurnInv
  <1>3. CppTypes
    BY DEF CppTypes, Init, init_semaphores, rk_sema_init
  <1>4. LateCount
    BY DEF LateCount, Init, init_semaphores, rk_sema_init, ToPrint, Printed, Unfinished,
         GaveAway, MayPrint, Sem, Other, Threads
  <1>5. RustTypes /\ LastNumbers /\ FetchedOnce
    <2>1. RustTypes
      BY DEF Init, RustTypes
    <2>2. /\ counter = 1 /\ out = << >>
          /\ \A t \in Threads : n[t] = 0 /\ pc[t] = "absent"
      BY DEF Init
    <2>3. LastNumbers
      BY <2>2 DEF LastNumbers, HasLast, Threads
    <2>4. FetchedOnce
      BY <2>2 DEF FetchedOnce, Printing, Threads
    <2>5. QED
      BY <2>1, <2>3, <2>4
  <1>6. QED
    BY <1>1, <1>2, <1>3, <1>4, <1>5, LanguagesAssumption DEF VersionsInv, CPart, CppPart, RustPart

\* main() starts a thread that does not exist yet, or only moves on itself.
LEMMA MainMoves ==
    ASSUME MainPart, Main
    PROVE  /\ UNCHANGED <<counter, sem_odd, sem_even, n, end, out>>
           /\ \/ pc' = pc
              \/ \E t \in Threads : pc[t] = "absent" /\ pc' = [pc EXCEPT ![t] = "wait"]
  <1>1. ASSUME NEW t \in Threads, NEW from, NEW to, Create(t, from, to), pc[t] = "absent"
        PROVE  /\ UNCHANGED <<counter, sem_odd, sem_even, n, end, out>>
               /\ pc' = pc \/ pc' = [pc EXCEPT ![t] = "wait"]
    <2>1. UNCHANGED <<counter, sem_odd, sem_even, n, end, out>>
      BY <1>1 DEF Create, sems
    <2>2. pc' = pc \/ pc' = [pc EXCEPT ![t] = "wait"]
      BY <1>1, Zenon DEF Create
    <2>3. QED
      BY <2>1, <2>2
  <1>2. ASSUME NEW t, NEW from, NEW to, Join(t, from, to)
        PROVE  UNCHANGED <<counter, sem_odd, sem_even, n, end, out, pc>>
    BY <1>2 DEF Join, sems
  <1>3. CASE Create("odd", "create_odd", "create_even")
    <2>1. "odd" \in Threads /\ pc["odd"] = "absent"
      BY <1>3 DEF Create, MainPart, Threads
    <2>2. QED
      BY <1>1, <1>3, <2>1
  <1>4. CASE Create("even", "create_even", "join_odd")
    <2>1. "even" \in Threads /\ pc["even"] = "absent"
      BY <1>4 DEF Create, MainPart, Threads
    <2>2. QED
      BY <1>1, <1>4, <2>1
  <1>5. CASE close_semaphores
    BY <1>5 DEF close_semaphores, sems
  <1>6. QED
    BY <1>2, <1>3, <1>4, <1>5 DEF Main

\* main() creates and joins each thread once, in every version.
LEMMA MainKeeps ==
    ASSUME MainPart, Main, NEW P, pc \in [Threads -> P]
    PROVE  MainPart'
  <1>1. CASE Create("odd", "create_odd", "create_even")
    <2>1. \/ main_pc' = "create_even" /\ pc' = [pc EXCEPT !["odd"] = "wait"]
          \/ main_pc' = "failed" /\ pc' = pc
      BY <1>1, Zenon DEF Create
    <2>2. QED
      BY <1>1, <2>1 DEF Create, MainPart, Threads
  <1>2. CASE Create("even", "create_even", "join_odd")
    <2>1. \/ main_pc' = "join_odd" /\ pc' = [pc EXCEPT !["even"] = "wait"]
          \/ main_pc' = "failed" /\ pc' = pc
      BY <1>2, Zenon DEF Create
    <2>2. QED
      BY <1>2, <2>1 DEF Create, MainPart, Threads
  <1>3. CASE Join("odd", "join_odd", "join_even") \/ Join("even", "join_even", "close")
    BY <1>3 DEF Join, MainPart
  <1>4. CASE close_semaphores
    BY <1>4 DEF close_semaphores, MainPart
  <1>5. QED
    BY <1>1, <1>2, <1>3, <1>4 DEF Main

\* A step of the threads that exist leaves main()'s view of them alone.
LEMMA ThreadsKeepMain ==
    ASSUME MainPart, main_pc' = main_pc,
           \A t \in Threads : pc[t] \in {"absent", "done"} => pc'[t] = pc[t]
    PROVE  MainPart'
  BY DEF MainPart, Threads

\* C++: print_number keeps the turns and the bounds of the count.
LEMMA CppStep ==
    ASSUME CppPart, MainPart,
           Main \/ (\E t \in Threads : print_number(t)) \/ UNCHANGED vars
    PROVE  CppPart' /\ MainPart'
  <1> USE TwoThreads, LimitType DEF CppPart, sems
  <1>1. CASE Main
    <2>1. UNCHANGED <<counter, sem_odd, sem_even, n, out>>
      BY <1>1, MainMoves
    <2>2. CppTypes' /\ OneTurn' /\ ParityPart' /\ LateCount'
      <3>1. CASE pc' = pc
        BY <2>1, <3>1 DEF CppTypes, OneTurn, ParityPart, LateCount, Sem, HasTurn, ToPrint,
             Printed, Unfinished, GaveAway, MayPrint
      <3>2. ASSUME NEW t \in Threads, pc[t] = "absent", pc' = [pc EXCEPT ![t] = "wait"]
            PROVE  CppTypes' /\ OneTurn' /\ ParityPart' /\ LateCount'
        <4>1. CppTypes'
          BY <2>1, <3>2 DEF CppTypes
        <4>2. OneTurn' /\ ParityPart'
          BY <2>1, <3>2 DEF CppTypes, OneTurn, ParityPart, Sem, HasTurn, ToPrint, Printed
        <4>3. LateCount'
          BY <2>1, <3>2 DEF CppTypes, LateCount, Sem, ToPrint, Printed, Unfinished,
               GaveAway, MayPrint
        <4>4. QED
          BY <4>1, <4>2, <4>3
      <3>3. QED
        BY <1>1, <3>1, <3>2, MainMoves
    <2>3. InSequence'
      BY <2>1 DEF InSequence
    <2>4. MainPart'
      BY <1>1, MainKeeps DEF CppTypes
    <2>5. QED
      BY <2>2, <2>3, <2>4
  <1>2. ASSUME NEW t \in Threads, print_number(t) PROVE CppPart' /\ MainPart'
    <2>a. MainPart'
      <3>1. /\ pc[t] \notin {"absent", "done"} /\ main_pc' = main_pc
            /\ \E to : pc' = [pc EXCEPT ![t] = to]
        BY <1>2 DEF print_number, WaitTurn, LoadCounter, PrintNumber, PostEarly, TestLate, Goto
      <3>2. \A u \in Threads : pc[u] \in {"absent", "done"} => pc'[u] = pc[u]
        BY <3>1 DEF CppTypes
      <3>3. QED
        BY <3>1, <3>2, ThreadsKeepMain
    <2>1. CASE WaitTurn(t)
      <3>1. /\ pc[t] = "wait" /\ pc' = [pc EXCEPT ![t] = "load"]
            /\ \/ t = "odd" /\ sem_odd > 0 /\ sem_odd' = sem_odd - 1 /\ sem_even' = sem_even
               \/ t = "even" /\ sem_even > 0 /\ sem_even' = sem_even - 1 /\ sem_odd' = sem_odd
            /\ UNCHANGED <<counter, n, out>>
        BY <2>1 DEF WaitTurn, Goto, rk_sema_wait
      <3>2. CppTypes'
        BY <3>1 DEF CppTypes
      <3>3. OneTurn'
        BY <3>1 DEF OneTurn, CppTypes, Sem, HasTurn, ToPrint, Printed, Other, Threads
      <3>4. ParityPart'
        BY <3>1 DEF ParityPart, OneTurn, CppTypes, Sem, HasTurn, ToPrint, Printed,
             Parity, Other, Threads
      <3>5. LateCount'
        BY <3>1 DEF LateCount, OneTurn, ParityPart, CppTypes, Sem, HasTurn, ToPrint,
             Printed, Unfinished, GaveAway, MayPrint, Other, Threads
      <3>6. InSequence'
        BY <3>1 DEF InSequence
      <3>7. QED
        BY <2>a, <3>2, <3>3, <3>4, <3>5, <3>6
    <2>2. CASE LoadCounter(t)
      <3>1. /\ pc[t] = "load" /\ pc' = [pc EXCEPT ![t] = "store"]
            /\ n' = [n EXCEPT ![t] = counter]
            /\ UNCHANGED <<counter, sem_odd, sem_even, out>>
        BY <2>2 DEF LoadCounter, Goto
      <3>2. CppTypes'
        BY <3>1 DEF CppTypes
      <3>3. OneTurn'
        BY <3>1 DEF OneTurn, CppTypes, Sem, HasTurn, ToPrint, Printed, Other, Threads
      <3>4. ParityPart'
        BY <3>1 DEF ParityPart, OneTurn, CppTypes, Sem, HasTurn, ToPrint, Printed,
             Parity, Other, Threads
      <3>5. LateCount'
        BY <3>1 DEF LateCount, OneTurn, ParityPart, CppTypes, Sem, HasTurn, ToPrint,
             Printed, Unfinished, GaveAway, MayPrint, Other, Threads
      <3>6. InSequence'
        BY <3>1 DEF InSequence
      <3>7. QED
        BY <2>a, <3>2, <3>3, <3>4, <3>5, <3>6
    <2>3. CASE PrintNumber(t)
      <3>1. /\ pc[t] = "store" /\ pc' = [pc EXCEPT ![t] = "test"]
            /\ counter' = n[t] + 1 /\ out' = Append(out, <<t, n[t]>>)
            /\ UNCHANGED <<sem_odd, sem_even, n>>
        BY <2>3 DEF PrintNumber, Goto
      <3>2. CppTypes'
        BY <3>1 DEF CppTypes
      <3>3. OneTurn'
        BY <3>1 DEF OneTurn, CppTypes, Sem, HasTurn, ToPrint, Printed, Other, Threads
      <3>4. ParityPart'
        BY <3>1, ParityFlips DEF ParityPart, OneTurn, CppTypes, Sem, HasTurn, ToPrint, Printed,
             Parity, Other, Threads
      <3>5. LateCount'
        BY <3>1, SMTT(20) DEF LateCount, OneTurn, ParityPart, CppTypes, Sem, HasTurn, ToPrint,
             Printed, Unfinished, GaveAway, MayPrint, Other, Threads
      <3>6. InSequence'
        BY <3>1, SequenceGrows DEF CppTypes, ParityPart, InSequence
      <3>7. QED
        BY <2>a, <3>2, <3>3, <3>4, <3>5, <3>6
    <2>4. CASE PostEarly(t)
      <3>1. /\ pc[t] = "test" /\ pc' = [pc EXCEPT ![t] = "late_test"]
            /\ \/ t = "odd" /\ sem_even' = sem_even + 1 /\ sem_odd' = sem_odd
               \/ t = "even" /\ sem_odd' = sem_odd + 1 /\ sem_even' = sem_even
            /\ UNCHANGED <<counter, n, out>>
        BY <2>4 DEF PostEarly, HandOver, Goto, rk_sema_post
      <3>2. CppTypes'
        BY <3>1 DEF CppTypes
      <3>3. OneTurn'
        BY <3>1 DEF OneTurn, CppTypes, Sem, HasTurn, ToPrint, Printed, Other, Threads
      <3>4. ParityPart'
        BY <3>1 DEF ParityPart, OneTurn, CppTypes, Sem, HasTurn, ToPrint, Printed,
             Parity, Other, Threads
      <3>5. LateCount'
        BY <3>1 DEF LateCount, OneTurn, ParityPart, CppTypes, Sem, HasTurn, ToPrint,
             Printed, Unfinished, GaveAway, MayPrint, Other, Threads
      <3>6. InSequence'
        BY <3>1 DEF InSequence
      <3>7. QED
        BY <2>a, <3>2, <3>3, <3>4, <3>5, <3>6
    <2>5. CASE TestLate(t)
      <3>1. /\ pc[t] = "late_test" /\ pc' = [pc EXCEPT ![t] = IF counter < MAX_N THEN "wait" ELSE "done"]
            /\ UNCHANGED <<counter, sem_odd, sem_even, n, out>>
        BY <2>5 DEF TestLate, Goto
      <3>2. CppTypes'
        BY <3>1 DEF CppTypes
      <3>3. OneTurn'
        BY <3>1 DEF OneTurn, CppTypes, Sem, HasTurn, ToPrint, Printed, Other, Threads
      <3>4. ParityPart'
        BY <3>1 DEF ParityPart, OneTurn, CppTypes, Sem, HasTurn, ToPrint, Printed,
             Parity, Other, Threads
      <3>5. LateCount'
        BY <3>1 DEF LateCount, OneTurn, ParityPart, CppTypes, Sem, HasTurn, ToPrint,
             Printed, Unfinished, GaveAway, MayPrint, Other, Threads
      <3>6. InSequence'
        BY <3>1 DEF InSequence
      <3>7. QED
        BY <2>a, <3>2, <3>3, <3>4, <3>5, <3>6
    <2>6. QED
      BY <1>2, <2>1, <2>2, <2>3, <2>4, <2>5 DEF print_number
  <1>3. CASE UNCHANGED vars
    BY <1>3 DEF vars, CppTypes, OneTurn, ParityPart, LateCount, InSequence, MainPart, Sem,
         HasTurn, ToPrint, Printed, Unfinished, GaveAway, MayPrint
  <1>4. QED
    BY <1>1, <1>2, <1>3

\* Rust: a step that neither fetches a number nor prints one.
LEMMA RustKeeps ==
    ASSUME RustPart, UNCHANGED <<counter, n, out>>,
           pc' \in [Threads -> {"absent", "wait", "asleep", "fetch", "print", "release", "done"}],
           \A t \in Threads : /\ pc'[t] = "print" <=> pc[t] = "print"
                              /\ pc'[t] = "release" => pc[t] = "release"
                              /\ n[t] >= Limit - 1 => pc'[t] \in {"print", "release", "done"}
                              /\ pc'[t] = "done" => n[t] >= Limit - 1
    PROVE  RustPart'
  <1>1. RustTypes'
    BY DEF RustPart, RustTypes
  <1>2. LastNumbers'
    BY DEF RustPart, LastNumbers, HasLast
  <1>3. FetchedOnce'
    BY DEF RustPart, FetchedOnce, Printing, Threads
  <1>4. QED
    BY <1>1, <1>2, <1>3 DEF RustPart

\* Rust: every step of a closure, in whichever order they run.
LEMMA RustStep ==
    ASSUME RustPart, MainPart,
           Main \/ (\E t \in Threads : Closure(t) \/ SpuriousReturn(t)) \/ UNCHANGED vars
    PROVE  RustPart' /\ MainPart'
  <1> DEFINE PCs == {"absent", "wait", "asleep", "fetch", "print", "release", "done"}
  <1>0. /\ pc \in [Threads -> PCs] /\ n \in [Threads -> Nat] /\ counter \in Nat
        /\ out \in Seq(Threads \X Nat) /\ LastNumbers /\ FetchedOnce
    BY DEF RustPart, RustTypes
  <1> USE TwoThreads, LimitType DEF sems
  <1>1. CASE Main
    <2>1. UNCHANGED <<counter, n, out>>
      BY <1>1, MainMoves
    <2>2. MainPart'
      BY <1>0, <1>1, MainKeeps
    <2>3. ASSUME pc' = pc PROVE RustPart'
      BY <1>0, <2>1, <2>3, RustKeeps DEF LastNumbers
    <2>4. ASSUME NEW t \in Threads, pc[t] = "absent", pc' = [pc EXCEPT ![t] = "wait"]
          PROVE  RustPart'
      BY <1>0, <2>1, <2>4, RustKeeps DEF LastNumbers
    <2>5. QED
      BY <1>1, <2>2, <2>3, <2>4, MainMoves
  <1>2. ASSUME NEW t \in Threads, RustWait(t) PROVE RustPart' /\ MainPart'
    <2>1. /\ pc[t] = "wait" /\ main_pc' = main_pc /\ UNCHANGED <<counter, n, out>>
          /\ \E to \in {"fetch", "asleep"} : pc' = [pc EXCEPT ![t] = to]
      BY <1>2 DEF RustWait, Goto
    <2>2. QED
      BY <1>0, <2>1, RustKeeps, ThreadsKeepMain DEF LastNumbers
  <1>3. ASSUME NEW t \in Threads, SpuriousReturn(t) PROVE RustPart' /\ MainPart'
    <2>1. /\ pc[t] = "asleep" /\ main_pc' = main_pc /\ UNCHANGED <<counter, n, out>>
          /\ pc' = [pc EXCEPT ![t] = "fetch"]
      BY <1>3 DEF SpuriousReturn, Goto
    <2>2. QED
      BY <1>0, <2>1, RustKeeps, ThreadsKeepMain DEF LastNumbers
  <1>4. ASSUME NEW t \in Threads, RustPost(t) PROVE RustPart' /\ MainPart'
    <2> DEFINE last == n[t] >= Limit - 1
    <2>1. Peer(t) = Other(t) /\ (n[t] >= 1 => (LastNumber(n[t]) <=> last))
      BY <1>0 DEF Peer, Other, Limit, LastNumber
    <2>2. /\ pc[t] = "release" /\ main_pc' = main_pc /\ UNCHANGED <<counter, n, out>>
          /\ \E wakes \in BOOLEAN :
               /\ wakes => pc[Other(t)] = "asleep"
               /\ pc' = [pc EXCEPT ![t] = IF LastNumber(n[t]) THEN "done" ELSE "wait",
                                   ![Other(t)] = IF wakes THEN "fetch" ELSE @]
      BY <1>4, <2>1 DEF RustPost
    <2>3. n[t] >= 1
      BY <1>0, <2>2 DEF LastNumbers
    <2>4. \A u \in Threads : pc'[u] = IF u = t THEN IF last THEN "done" ELSE "wait"
                                      ELSE IF pc[u] = "asleep" /\ pc'[u] = "fetch"
                                           THEN "fetch" ELSE pc[u]
      BY <1>0, <2>1, <2>2, <2>3
    <2>5. pc' \in [Threads -> PCs]
      BY <1>0, <2>2
    <2>6. RustPart'
      BY <1>0, <2>2, <2>4, <2>5, RustKeeps DEF LastNumbers
    <2>7. MainPart'
      BY <2>2, <2>4, ThreadsKeepMain
    <2>8. QED
      BY <2>6, <2>7
  <1>5. ASSUME NEW t \in Threads, FetchAdd(t) PROVE RustPart' /\ MainPart'
    <2>1. /\ pc[t] = "fetch" /\ main_pc' = main_pc /\ out' = out
          /\ pc' = [pc EXCEPT ![t] = "print"]
          /\ n' = [n EXCEPT ![t] = counter] /\ counter' = counter + 1
      BY <1>5 DEF FetchAdd, Goto
    <2>2. MainPart'
      BY <1>0, <2>1, ThreadsKeepMain
    <2>3. RustTypes'
      BY <1>0, <2>1 DEF RustTypes
    <2>4. /\ \A u \in Threads : u # t => n'[u] = n[u] /\ pc'[u] = pc[u]
          /\ n'[t] = counter /\ pc'[t] = "print"
      BY <1>0, <2>1
    <2>5. LastNumbers'
      BY <1>0, <2>1, <2>4 DEF LastNumbers, HasLast, Threads
    <2>6. FetchedOnce'
      <3>1. Len(out') = counter' - 1 - Printing("odd")' - Printing("even")'
        <4>1. Len(out) = counter - 1 - Printing("odd") - Printing("even")
          BY <1>0 DEF FetchedOnce
        <4>2. /\ Printing("odd") \in Int /\ Printing("even") \in Int
              /\ Printing("odd")' + Printing("even")'
                   = Printing("odd") + Printing("even") + 1
              /\ Printing("odd")' \in Int /\ Printing("even")' \in Int
          BY <2>1, <2>4 DEF Printing, Threads
        <4>3. QED
          BY <1>0, <2>1, <4>1, <4>2, SMTT(20)
      <3>2. \A i \in 1 .. Len(out) : out[i][2] \in 1 .. counter' - 1
        BY <1>0, <2>1 DEF FetchedOnce
      <3>3. ASSUME NEW k \in 1 .. counter' - 1
            PROVE  \/ \E i \in 1 .. Len(out) : out[i][2] = k
                   \/ \E u \in Threads : pc'[u] = "print" /\ n'[u] = k
        <4>1. CASE k = counter
          BY <2>4, <4>1
        <4>2. CASE k \in 1 .. counter - 1
          BY <1>0, <2>1, <2>4, <4>2 DEF FetchedOnce
        <4>3. QED
          BY <1>0, <2>1, <4>1, <4>2
      <3>4. QED
        BY <2>1, <3>1, <3>2, <3>3 DEF FetchedOnce
    <2>7. QED
      BY <2>2, <2>3, <2>5, <2>6 DEF RustPart
  <1>6. ASSUME NEW t \in Threads, PrintFetched(t) PROVE RustPart' /\ MainPart'
    <2>1. /\ pc[t] = "print" /\ main_pc' = main_pc /\ UNCHANGED <<counter, n>>
          /\ pc' = [pc EXCEPT ![t] = "release"]
          /\ out' = Append(out, <<t, n[t]>>)
      BY <1>6 DEF PrintFetched, Goto
    <2>2. MainPart'
      BY <1>0, <2>1, ThreadsKeepMain
    <2>3. RustTypes'
      BY <1>0, <2>1 DEF RustTypes
    <2>4. /\ \A u \in Threads : u # t => pc'[u] = pc[u]
          /\ pc'[t] = "release" /\ n[t] \in 1 .. counter - 1
      BY <1>0, <2>1 DEF LastNumbers
    <2>5. LastNumbers'
      BY <1>0, <2>1, <2>4 DEF LastNumbers, HasLast, Threads
    <2>6. FetchedOnce'
      <3>1. /\ Len(out) \in Nat /\ Len(out') = Len(out) + 1
            /\ \A i \in 1 .. Len(out) : out'[i] = out[i]
            /\ out'[Len(out) + 1] = <<t, n[t]>>
        BY <1>0, <2>1
      <3>2. Len(out') = counter' - 1 - Printing("odd")' - Printing("even")'
        BY <1>0, <2>1, <2>4, <3>1 DEF FetchedOnce, Printing, Threads
      <3>3. ASSUME NEW i \in 1 .. Len(out') PROVE out'[i][2] \in 1 .. counter' - 1
        <4>1. CASE i \in 1 .. Len(out)
          BY <1>0, <2>1, <3>1, <4>1 DEF FetchedOnce
        <4>2. CASE i = Len(out) + 1
          BY <2>1, <2>4, <3>1, <4>2
        <4>3. QED
          BY <3>1, <4>1, <4>2
      <3>4. ASSUME NEW k \in 1 .. counter' - 1
            PROVE  \/ \E i \in 1 .. Len(out') : out'[i][2] = k
                   \/ \E u \in Threads : pc'[u] = "print" /\ n'[u] = k
        <4>1. CASE \E i \in 1 .. Len(out) : out[i][2] = k
          BY <3>1, <4>1
        <4>2. CASE k = n[t]
          BY <3>1, <4>2
        <4>3. CASE \E u \in Threads : u # t /\ pc[u] = "print" /\ n[u] = k
          BY <2>1, <2>4, <4>3
        <4>4. QED
          BY <1>0, <2>1, <4>1, <4>2, <4>3 DEF FetchedOnce
      <3>5. QED
        BY <2>1, <3>2, <3>3, <3>4 DEF FetchedOnce
    <2>7. QED
      BY <2>2, <2>3, <2>5, <2>6 DEF RustPart
  <1>7. CASE UNCHANGED vars
    <2>1. UNCHANGED <<counter, n, out, pc, main_pc>>
      BY <1>7 DEF vars
    <2>2. QED
      BY <1>0, <2>1, RustKeeps, ThreadsKeepMain DEF LastNumbers
  <1>8. QED
    BY <1>1, <1>2, <1>3, <1>4, <1>5, <1>6, <1>7 DEF Closure

\* C: every step is one of module OddEven's.
LEMMA CStep ==
    ASSUME CPart, [Next]_vars
    PROVE  CPart' /\ MainPart'
  <1>1. TurnInv' /\ MainPart'
    BY TurnStep DEF CPart, TurnInv
  <1>2. InSequence'
    <2>1. ASSUME NEW t \in Threads, PrintNumber(t) PROVE InSequence'
      BY <2>1, SequenceGrows DEF CPart, TurnInv, TypePart, ParityPart, PrintNumber, Goto
    <2>2. ASSUME UNCHANGED <<counter, out>> PROVE InSequence'
      BY <2>2 DEF CPart, InSequence
    <2>3. CASE Main
      BY <2>2, <2>3, MainMoves DEF CPart, TurnInv
    <2>4. ASSUME NEW t \in Threads,
                 WaitTurn(t) \/ LoadCounter(t) \/ TestEnd(t) \/ PostOther(t)
          PROVE  InSequence'
      BY <2>2, <2>4 DEF WaitTurn, LoadCounter, TestEnd, PostOther
    <2>5. CASE UNCHANGED vars
      BY <2>2, <2>5 DEF vars
    <2>6. QED
      BY <2>1, <2>3, <2>4, <2>5 DEF Next, Thread, Terminated
  <1>3. QED
    BY <1>1, <1>2 DEF CPart

\* Every step of every version keeps the invariant.
LEMMA VersionsKeep == VersionsInv /\ [VersionsNext]_versionVars => VersionsInv'
  <1> SUFFICES ASSUME VersionsInv, [VersionsNext]_versionVars PROVE VersionsInv'
    OBVIOUS
  <1>1. language' = language
    BY DEF VersionsNext, versionVars
  <1>2. CASE language = "c"
    <2>1. [Next]_vars
      BY <1>2 DEF VersionsNext, versionVars, VersionsMain, Step, Next, Terminated
    <2>2. QED
      BY <1>1, <1>2, <2>1, CStep DEF VersionsInv
  <1>3. CASE language = "cpp"
    <2>1. Main \/ (\E t \in Threads : print_number(t)) \/ UNCHANGED vars
      BY <1>3 DEF VersionsNext, versionVars, VersionsMain, Step, Terminated
    <2>2. QED
      BY <1>1, <1>3, <2>1, CppStep DEF VersionsInv
  <1>4. CASE language = "rust"
    <2>1. Main \/ (\E t \in Threads : Closure(t) \/ SpuriousReturn(t)) \/ UNCHANGED vars
      BY <1>4 DEF VersionsNext, versionVars, VersionsMain, Step, Terminated
    <2>2. QED
      BY <1>1, <1>4, <2>1, RustStep DEF VersionsInv
  <1>5. QED
    BY <1>2, <1>3, <1>4 DEF VersionsInv

-----------------------------------------------------------------------------
(* What follows from it *)

\* The invariant holds throughout each version.
LEMMA VersionsInvariant == VersionsSpec => []VersionsInv
  BY VersionsStart, VersionsKeep, PTL DEF VersionsSpec

\* Each thread of the C and C++ versions only increments numbers of its own
\* parity, also when its loop's test sees the other thread's increment.
THEOREM VersionsOwnParity == VersionsSpec => []OwnParity
  <1>1. VersionsInv => OwnParity
    <2>1. ParityPart => OwnParity
      BY DEF ParityPart, OwnParity, ToPrint, Parity, Threads
    <2>2. RustTypes => OwnParity
      BY DEF RustTypes, OwnParity, Threads
    <2>3. QED
      BY <2>1, <2>2 DEF VersionsInv, CPart, TurnInv, CppPart, RustPart
  <1>2. QED
    BY VersionsInvariant, <1>1, PTL

\* Whatever MAX_N is, a version that ends has printed every number up to its
\* last one exactly once: up to Limit in C, in Rust, spurious returns
\* included, and up to Limit or one fewer in C++, where a late test may have
\* seen the other thread's last increment.
THEOREM EndsAtLimitAlways == VersionsSpec => []EndsAtLimit
  <1>1. VersionsInv => EndsAtLimit
    <2> SUFFICES ASSUME VersionsInv, main_pc \in {"close", "exited"}
                 PROVE  /\ \A t \in Threads : pc[t] = "done"
                        /\ {out[i][2] : i \in 1 .. Len(out)} = 1 .. Len(out)
                        /\ \/ Len(out) = Limit
                           \/ language = "cpp" /\ Len(out) = AtLeastTwo(MAX_N - 1)
      BY DEF EndsAtLimit
    <2>1. \A t \in Threads : pc[t] = "done"
      BY DEF VersionsInv, MainPart, Threads
    <2>2. InSequence => {out[i][2] : i \in 1 .. Len(out)} = 1 .. Len(out)
      BY DEF InSequence
    <2>3. CASE language = "c"
      <3>1. CPart /\ InSequence
        BY <2>3 DEF VersionsInv, CPart
      <3>2. counter = Limit + 1
        BY <2>1, <3>1 DEF CPart, TurnInv, CountPart, Threads, Other
      <3>3. QED
        BY <2>1, <2>2, <3>1, <3>2, LimitType DEF InSequence
    <2>4. CASE language = "cpp"
      <3>1. CppPart /\ InSequence
        BY <2>4 DEF VersionsInv, CppPart
      <3>2. counter \in Nat /\ counter >= 3 /\ counter \in MAX_N .. Limit + 1
        BY <2>1, <3>1 DEF CppPart, CppTypes, OneTurn, LateCount, GaveAway, Printed, Threads, Other
      <3>3. counter - 1 = Limit \/ counter - 1 = AtLeastTwo(MAX_N - 1)
        BY <3>2 DEF Limit, AtLeastTwo
      <3>4. QED
        BY <2>1, <2>2, <2>4, <3>1, <3>3 DEF InSequence
    <2>5. CASE language = "rust"
      <3>1. RustTypes /\ LastNumbers /\ FetchedOnce
        BY <2>5 DEF VersionsInv, RustPart
      <3>2. HasLast("odd") = 1 /\ HasLast("even") = 1 /\ counter >= Limit - 1
        BY <2>1, <3>1, LimitType DEF LastNumbers, HasLast, Threads, RustTypes
      <3>3. counter = Limit + 1
        BY <3>1, <3>2, LimitType DEF LastNumbers
      <3>4. Len(out) = counter - 1
        BY <2>1, <3>1 DEF RustTypes, FetchedOnce, Printing, Threads
      <3>5. {out[i][2] : i \in 1 .. Len(out)} = 1 .. Len(out)
        BY <2>1, <3>1, <3>4 DEF FetchedOnce
      <3>6. QED
        BY <2>1, <3>3, <3>4, <3>5, LimitType
    <2>6. QED
      BY <2>3, <2>4, <2>5 DEF VersionsInv
  <1>2. QED
    BY VersionsInvariant, <1>1, PTL

-----------------------------------------------------------------------------
(* What the threads print is what the task asks for.  This needs who has    *)
(* the turn in Rust, too, as long as no spurious return has happened.        *)

InClosure(t) == pc[t] \in {"fetch", "print", "release"}
RustTurn(t)  == Sem(t) = 1 \/ InClosure(t)

\* The value counts a sleeping thread, there is one turn, and the thread that
\* has it fetches and prints a number of its own parity.
RustTurns ==
    \A t \in Threads :
        /\ Sem(t) \in -1 .. 1
        /\ pc[t] = "asleep" <=> Sem(t) = -1
        /\ Sem(t) = 1 => ~InClosure(t)
        /\ RustTurn(t) <=> ~RustTurn(Other(t))
        /\ Sem(t) = 1 \/ pc[t] = "fetch" => counter % 2 = Parity(t)
        /\ pc[t] = "print" => n[t] = counter - 1 /\ n[t] % 2 = Parity(t)
        /\ pc[t] \in {"print", "release"} => counter % 2 = Parity(Other(t))

TurnsInv ==
    /\ VersionsInv
    /\ strayed \in {NoStray} \cup 0 .. Len(out)
    /\ language # "rust" => strayed = NoStray
    /\ language = "rust" /\ strayed = NoStray => RustTurns

\* The lines of OddEvenTurns.
Lines == IF strayed = NoStray THEN out ELSE SubSeq(out, 1, strayed)

\* Steps of main() and of the closures keep the turns.
LEMMA RustTurnsStep ==
    ASSUME RustPart, MainPart, RustTurns,
           Main \/ (\E t \in Threads : Closure(t)) \/ UNCHANGED vars
    PROVE  RustTurns'
  <1>0. /\ pc \in [Threads -> {"absent", "wait", "asleep", "fetch", "print", "release", "done"}]
        /\ n \in [Threads -> Nat] /\ counter \in Nat
    BY DEF RustPart, RustTypes
  <1> USE <1>0, TwoThreads DEF sems, Goto
  <1>1. CASE Main
    <2>1. UNCHANGED <<counter, sem_odd, sem_even, n>>
      BY <1>1, MainMoves
    <2>2. ASSUME pc' = pc PROVE RustTurns'
      BY <2>1, <2>2 DEF RustTurns, RustTurn, InClosure, Sem
    <2>3. ASSUME NEW t \in Threads, pc[t] = "absent", pc' = [pc EXCEPT ![t] = "wait"]
          PROVE  RustTurns'
      BY <2>1, <2>3 DEF RustTurns, RustTurn, InClosure, Sem
    <2>4. QED
      BY <1>1, <2>2, <2>3, MainMoves
  <1>2. ASSUME NEW t \in Threads, RustWait(t) PROVE RustTurns'
    <2>1. /\ pc[t] = "wait" /\ UNCHANGED <<counter, n>>
          /\ \/ t = "odd" /\ sem_odd' = sem_odd - 1 /\ sem_even' = sem_even
             \/ t = "even" /\ sem_even' = sem_even - 1 /\ sem_odd' = sem_odd
          /\ pc' = [pc EXCEPT ![t] = IF Sem(t) > 0 THEN "fetch" ELSE "asleep"]
      BY <1>2 DEF RustWait, Sem
    <2>2. /\ Sem(t)' = Sem(t) - 1 /\ Sem(Other(t))' = Sem(Other(t))
          /\ pc'[t] = (IF Sem(t) > 0 THEN "fetch" ELSE "asleep")
          /\ pc'[Other(t)] = pc[Other(t)]
      BY <2>1 DEF Sem, Other, Threads
    <2>3. QED
      BY <2>1, <2>2 DEF RustTurns, RustTurn, InClosure
  <1>3. ASSUME NEW t \in Threads, FetchAdd(t) PROVE RustTurns'
    <2>1. /\ pc[t] = "fetch" /\ UNCHANGED <<sem_odd, sem_even>>
          /\ pc' = [pc EXCEPT ![t] = "print"]
          /\ n' = [n EXCEPT ![t] = counter] /\ counter' = counter + 1
      BY <1>3 DEF FetchAdd
    <2>2. /\ \A u \in Threads : Sem(u)' = Sem(u)
          /\ pc'[t] = "print" /\ pc'[Other(t)] = pc[Other(t)]
          /\ n'[t] = counter /\ n'[Other(t)] = n[Other(t)]
      BY <2>1 DEF Sem
    <2>3. counter % 2 = Parity(t) /\ ~RustTurn(Other(t))
      BY <2>1 DEF RustTurns, RustTurn, InClosure
    <2>4. counter' % 2 = Parity(Other(t))
      BY <2>1, <2>3, ParityFlips DEF Parity, Other, Threads
    <2>5. QED
      BY <2>1, <2>2, <2>3, <2>4 DEF RustTurns, RustTurn, InClosure
  <1>4. ASSUME NEW t \in Threads, PrintFetched(t) PROVE RustTurns'
    <2>1. /\ pc[t] = "print" /\ UNCHANGED <<sem_odd, sem_even, counter, n>>
          /\ pc' = [pc EXCEPT ![t] = "release"]
      BY <1>4 DEF PrintFetched
    <2>2. QED
      BY <2>1 DEF RustTurns, RustTurn, InClosure, Sem
  <1>5. ASSUME NEW t \in Threads, RustPost(t) PROVE RustTurns'
    <2>1. /\ pc[t] = "release" /\ UNCHANGED <<counter, n>> /\ Peer(t) = Other(t)
          /\ \/ t = "odd" /\ sem_even' = sem_even + 1 /\ sem_odd' = sem_odd
             \/ t = "even" /\ sem_odd' = sem_odd + 1 /\ sem_even' = sem_even
      BY <1>5 DEF RustPost, HandOver, rk_sema_post, Peer, Other
    <2>2. pc' = [pc EXCEPT ![t] = IF LastNumber(n[t]) THEN "done" ELSE "wait",
                           ![Other(t)] = IF Sem(Other(t)) + 1 <= 0 /\ pc[Other(t)] = "asleep"
                                         THEN "fetch" ELSE @]
      <3>1. (IF t = "odd" THEN sem_even ELSE sem_odd) = Sem(Other(t))
        BY DEF Sem, Other, Threads
      <3>2. QED
        BY <1>5, <2>1, <3>1 DEF RustPost
    <2>3. /\ Sem(Other(t))' = Sem(Other(t)) + 1 /\ Sem(t)' = Sem(t)
          /\ pc'[t] \in {"done", "wait"}
          /\ pc'[Other(t)] = IF Sem(Other(t)) + 1 <= 0 /\ pc[Other(t)] = "asleep"
                             THEN "fetch" ELSE pc[Other(t)]
      BY <2>1, <2>2 DEF Sem, Other, Threads
    <2>4. QED
      BY <2>1, <2>3 DEF RustTurns, RustTurn, InClosure
  <1>6. CASE UNCHANGED vars
    BY <1>6 DEF vars, RustTurns, RustTurn, InClosure, Sem
  <1>7. QED
    BY <1>1, <1>2, <1>3, <1>4, <1>5, <1>6 DEF Closure

\* What a step can do to the output, and to the mark of the first spurious
\* return.
LEMMA OutputStep ==
    ASSUME VersionsInv, [VersionsNext]_versionVars
    PROVE  \/ out' = out /\ strayed' = strayed
           \/ /\ language = "rust" /\ strayed = NoStray
              /\ out' = out /\ strayed' = Len(out)
           \/ \E t \in Threads :
                /\ out' = Append(out, <<t, n[t]>>) /\ strayed' = strayed
                /\ pc[t] = IF language = "rust" THEN "print" ELSE "store"
  <1>1. CASE Main /\ strayed' = strayed
    BY <1>1, MainMoves DEF VersionsInv
  <1>2. ASSUME NEW t \in Threads, language = "c", Thread(t), strayed' = strayed
        PROVE  \/ out' = out
               \/ out' = Append(out, <<t, n[t]>>) /\ pc[t] = "store"
    BY <1>2 DEF Thread, WaitTurn, LoadCounter, PrintNumber, TestEnd, PostOther, Goto
  <1>3. ASSUME NEW t \in Threads, language = "cpp", print_number(t), strayed' = strayed
        PROVE  \/ out' = out
               \/ out' = Append(out, <<t, n[t]>>) /\ pc[t] = "store"
    BY <1>3 DEF print_number, WaitTurn, LoadCounter, PrintNumber, PostEarly, TestLate, Goto
  <1>4. ASSUME NEW t \in Threads, Closure(t)
        PROVE  /\ strayed' = strayed
               /\ \/ out' = out
                  \/ out' = Append(out, <<t, n[t]>>) /\ pc[t] = "print"
    BY <1>4 DEF Closure, RustWait, FetchAdd, PrintFetched, RustPost, Goto
  <1>5. ASSUME NEW t \in Threads, SpuriousReturn(t)
        PROVE  /\ out' = out
               /\ \/ strayed' = strayed
                  \/ strayed = NoStray /\ strayed' = Len(out)
    BY <1>5 DEF SpuriousReturn
  <1>6. CASE UNCHANGED vars /\ strayed' = strayed
    BY <1>6 DEF vars
  <1>7. QED
    <2>1. CASE UNCHANGED versionVars
      BY <2>1, <1>6 DEF versionVars
    <2>2. CASE VersionsNext
      <3>1. CASE VersionsMain \/ (Terminated /\ UNCHANGED strayed)
        BY <1>1, <1>6, <3>1 DEF VersionsMain, Terminated
      <3>2. ASSUME NEW t \in Threads, language = "c", Thread(t), strayed' = strayed
            PROVE  \/ out' = out /\ strayed' = strayed
                   \/ \E u \in Threads :
                        /\ out' = Append(out, <<u, n[u]>>) /\ strayed' = strayed
                        /\ pc[u] = IF language = "rust" THEN "print" ELSE "store"
        BY <1>2, <3>2
      <3>3. ASSUME NEW t \in Threads, language = "cpp", print_number(t), strayed' = strayed
            PROVE  \/ out' = out /\ strayed' = strayed
                   \/ \E u \in Threads :
                        /\ out' = Append(out, <<u, n[u]>>) /\ strayed' = strayed
                        /\ pc[u] = IF language = "rust" THEN "print" ELSE "store"
        BY <1>3, <3>3
      <3>4. ASSUME NEW t \in Threads, language = "rust", Closure(t)
            PROVE  \/ out' = out /\ strayed' = strayed
                   \/ \E u \in Threads :
                        /\ out' = Append(out, <<u, n[u]>>) /\ strayed' = strayed
                        /\ pc[u] = IF language = "rust" THEN "print" ELSE "store"
        BY <1>4, <3>4
      <3>5. QED
        BY <2>2, <1>5, <3>1, <3>2, <3>3, <3>4 DEF VersionsNext, Step
    <2>3. QED
      BY <2>1, <2>2

\* The stronger invariant holds initially.
LEMMA TurnsStart == VersionsInit => TurnsInv
  <1> SUFFICES ASSUME VersionsInit PROVE TurnsInv
    OBVIOUS
  <1>1. VersionsInv /\ strayed = NoStray
    BY VersionsStart DEF VersionsInit
  <1>2. RustTurns
    BY DEF VersionsInit, Init, init_semaphores, rk_sema_init, RustTurns, RustTurn, InClosure,
         Sem, Parity, Other, Threads
  <1>3. QED
    BY <1>1, <1>2 DEF TurnsInv

\* Every step of every version keeps it.
LEMMA TurnsKeep == TurnsInv /\ [VersionsNext]_versionVars => TurnsInv'
  <1> SUFFICES ASSUME TurnsInv, [VersionsNext]_versionVars PROVE TurnsInv'
    OBVIOUS
  <1>1. VersionsInv /\ VersionsInv' /\ language' = language
    BY VersionsKeep DEF TurnsInv, VersionsNext, versionVars
  <1>2. out \in Seq(Threads \X Nat) /\ n \in [Threads -> Nat]
    BY <1>1 DEF VersionsInv, CPart, CppPart, RustPart, InSequence, RustTypes, CppTypes,
         TurnInv, TypePart
  <1>3. Len(out) \in Nat /\ Len(out') \in Nat /\ Len(out') >= Len(out)
    BY <1>1, <1>2, OutputStep
  <1>4. /\ strayed' \in {NoStray} \cup 0 .. Len(out')
        /\ language' # "rust" => strayed' = NoStray
    BY <1>1, <1>3, OutputStep DEF TurnsInv
  <1>5. ASSUME language = "rust", strayed' = NoStray PROVE RustTurns'
    <2>1. strayed = NoStray
      BY <1>1, <1>3, <1>5, OutputStep DEF NoStray
    <2>2. ASSUME NEW t \in Threads PROVE ~SpuriousReturn(t)
      BY <1>3, <1>5, <2>1 DEF SpuriousReturn, NoStray
    <2>3. Main \/ (\E t \in Threads : Closure(t)) \/ UNCHANGED vars
      BY <1>5, <2>2 DEF VersionsNext, versionVars, VersionsMain, Step, Terminated
    <2>4. RustPart /\ MainPart /\ RustTurns
      BY <1>1, <1>5, <2>1 DEF TurnsInv, VersionsInv
    <2>5. QED
      BY <2>3, <2>4, RustTurnsStep
  <1>6. QED
    BY <1>1, <1>4, <1>5 DEF TurnsInv

\* A line that is printed while nobody has strayed is the next one in turn.
LEMMA NextLine ==
    ASSUME TurnsInv, strayed = NoStray, NEW t \in Threads,
           pc[t] = IF language = "rust" THEN "print" ELSE "store"
    PROVE  n[t] = Len(out) + 1 /\ n[t] % 2 = Parity(t) /\ Len(out) < Limit
  <1> USE TwoThreads, LimitType
  <1>1. CASE language = "c"
    <2>1. TurnInv /\ InSequence /\ pc[t] = "store"
      BY <1>1 DEF TurnsInv, VersionsInv, CPart
    <2>2. n[t] = counter /\ counter % 2 = Parity(t) /\ counter \in Nat
      BY <2>1 DEF TurnInv, TypePart, ParityPart, ToPrint
    <2>3. counter <= Limit
      BY <2>1, <2>2 DEF TurnInv, TypePart, OneTurn, CountPart, ToPrint, Printed, HasTurn, Unfinished
    <2>4. QED
      BY <2>1, <2>2, <2>3 DEF InSequence
  <1>2. CASE language = "cpp"
    <2>1. CppPart /\ InSequence /\ pc[t] = "store"
      BY <1>2 DEF TurnsInv, VersionsInv, CppPart
    <2>2. n[t] = counter /\ counter % 2 = Parity(t) /\ counter \in Nat
      BY <2>1 DEF CppPart, CppTypes, ParityPart, ToPrint
    <2>3. counter <= Limit
      BY <2>1, <2>2 DEF CppPart, CppTypes, OneTurn, LateCount, ToPrint, Printed, MayPrint, Unfinished
    <2>4. QED
      BY <2>1, <2>2, <2>3 DEF InSequence
  <1>3. CASE language = "rust"
    <2>1. RustPart /\ RustTurns /\ pc[t] = "print"
      BY <1>3 DEF TurnsInv, VersionsInv
    <2>2. n[t] = counter - 1 /\ n[t] % 2 = Parity(t) /\ counter \in Nat
      BY <2>1 DEF RustTurns, RustPart, RustTypes
    <2>3. pc[Other(t)] # "print"
      BY <2>1 DEF RustTurns, RustTurn, InClosure
    <2>4. Len(out) = counter - 2
      BY <2>1, <2>2, <2>3 DEF RustPart, FetchedOnce, Printing, Other, Threads
    <2>5. counter <= Limit + 1
      BY <2>1, <2>2 DEF RustPart, LastNumbers, HasLast
    <2>6. QED
      BY <2>2, <2>4, <2>5
  <1>4. QED
    BY <1>1, <1>2, <1>3 DEF TurnsInv, VersionsInv

\* Every step of every version is a step of OddEvenTurns, or prints nothing
\* that counts.
LEMMA TurnsStepRefines ==
    TurnsInv /\ [VersionsNext]_versionVars => [InTurn!PrintNext]_Lines
  <1> SUFFICES ASSUME TurnsInv, [VersionsNext]_versionVars
               PROVE  InTurn!PrintNext \/ Lines' = Lines
    OBVIOUS
  <1>0. VersionsInv /\ out \in Seq(Threads \X Nat) /\ n \in [Threads -> Nat]
    BY DEF TurnsInv, VersionsInv, CPart, CppPart, RustPart, InSequence, RustTypes,
         CppTypes, TurnInv, TypePart
  <1>1. CASE out' = out /\ strayed' = strayed
    BY <1>1 DEF Lines
  <1>2. CASE strayed = NoStray /\ out' = out /\ strayed' = Len(out)
    <2>1. Len(out) # NoStray /\ SubSeq(out, 1, Len(out)) = out
      BY <1>0 DEF NoStray
    <2>2. QED
      BY <1>2, <2>1 DEF Lines
  <1>3. ASSUME NEW t \in Threads, out' = Append(out, <<t, n[t]>>), strayed' = strayed,
               pc[t] = IF language = "rust" THEN "print" ELSE "store"
        PROVE  InTurn!PrintNext \/ Lines' = Lines
    <2>1. CASE strayed = NoStray
      <3>1. n[t] = Len(out) + 1 /\ n[t] % 2 = Parity(t) /\ Len(out) < Limit
        BY <1>3, <2>1, NextLine
      <3>2. InTurn!Who(n[t]) = t
        BY <3>1 DEF InTurn!Who, Parity, Threads
      <3>3. QED
        BY <1>3, <2>1, <3>1, <3>2 DEF InTurn!PrintNext, Lines
    <2>2. CASE strayed # NoStray
      <3>1. strayed \in 0 .. Len(out)
        BY <2>2 DEF TurnsInv
      <3>2. SubSeq(out', 1, strayed) = SubSeq(out, 1, strayed)
        BY <1>0, <1>3, <3>1
      <3>3. QED
        BY <1>3, <2>2, <3>2 DEF Lines
    <2>3. QED
      BY <2>1, <2>2
  <1>4. QED
    BY <1>0, <1>1, <1>2, <1>3, OutputStep

\* Whatever MAX_N is, the two threads of each version print 1, 2, 3, ... by
\* turns, the odd numbers by one thread and the even ones by the other, and
\* never past Limit; in Rust, as long as Condvar::wait has not returned on its
\* own.
THEOREM VersionsPrintInTurn == VersionsSpec => VersionsTurns
  <1>1. VersionsInit => InTurn!TurnsInit
    BY DEF VersionsInit, Init, InTurn!TurnsInit
  <1>2. QED
    BY <1>1, TurnsStart, TurnsKeep, TurnsStepRefines, PTL
       DEF VersionsSpec, VersionsTurns, InTurn!TurnsSpec, Lines

\* Whatever MAX_N is, the semaphores of all three versions pass one turn back
\* and forth, those of Rust until Condvar::wait returns on its own; so the
\* loop condition that C++ evaluates after its post is the only access to a
\* plain counter that can meet the other thread's store.
THEOREM VersionsOnlyLateTestRaces == VersionsSpec => []OnlyLateTestRaces
  <1>1. TurnsInv => OnlyLateTestRaces
    <2> SUFFICES ASSUME TurnsInv, NEW t \in Threads
                 PROVE  /\ TakesTurn(t) /\ TakesTurn(Peer(t)) => strayed # NoStray
                        /\ Stores(t) /\ (Loads(Peer(t)) \/ Stores(Peer(t)))
                              => pc[Peer(t)] = "late_test"
      BY DEF OnlyLateTestRaces
    <2>0. Peer(t) = Other(t) /\ Other(t) \in Threads
      BY DEF Peer, Other, Threads
    <2>1. CASE language = "c"
      <3>1. TypePart /\ OneTurn
        BY <2>1 DEF TurnsInv, VersionsInv, CPart, TurnInv
      <3>2. QED
        BY <2>0, <2>1, <3>1 DEF TypePart, OneTurn, ToPrint, Printed, TakesTurn, Loads, Stores
    <2>2. CASE language = "cpp"
      <3>1. CppTypes /\ OneTurn
        BY <2>2 DEF TurnsInv, VersionsInv, CppPart
      <3>2. QED
        BY <2>0, <2>2, <3>1 DEF CppTypes, OneTurn, ToPrint, Printed, TakesTurn, Loads, Stores
    <2>3. CASE language = "rust"
      <3>1. RustTypes /\ (strayed = NoStray => RustTurns)
        BY <2>3 DEF TurnsInv, VersionsInv, RustPart
      <3>2. QED
        BY <2>0, <2>3, <3>1 DEF RustTypes, RustTurns, RustTurn, InClosure, TakesTurn, Stores
    <2>4. QED
      BY <2>1, <2>2, <2>3 DEF TurnsInv, VersionsInv
  <1>2. QED
    BY <1>1, TurnsStart, TurnsKeep, PTL DEF VersionsSpec

=============================================================================
