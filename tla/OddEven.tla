------------------------------- MODULE OddEven -------------------------------
(***************************************************************************)
(* c/c_lab05_a.c: task 5 a).  Two threads hand a counter to each other     *)
(* with the semaphores sem_odd and sem_even, until it reaches MAX_N.       *)
(*                                                                         *)
(* counter++ is a load and a store, and the test of the new value a second *)
(* load, each a step of its own: nothing but the semaphores protects them. *)
(***************************************************************************)
EXTENDS Integers, Sequences, PosixSemaphore

CONSTANTS MAX_N,           \* 30
          CreateMayFail    \* whether pthread_create may run out of resources

ASSUME MaxAssumption == MAX_N \in Nat \ {0}
ASSUME CreateAssumption == CreateMayFail \in BOOLEAN

Threads == {"odd", "even"}

VARIABLES
    counter,
    sem_odd, sem_even,
    pc,          \* where each thread is
    n,           \* the value counter++ yields, to be printed
    end,         \* the flag end of each thread
    out,         \* the lines printed, as <<thread, number>>
    main_pc      \* where main() is

sems == <<sem_odd, sem_even>>
vars == <<counter, sems, pc, n, end, out, main_pc>>

init_semaphores ==
    /\ rk_sema_init(sem_odd, 1)
    /\ rk_sema_init(sem_even, 0)

Init ==
    /\ counter = 1
    /\ init_semaphores
    /\ pc = [t \in Threads |-> "absent"]
    /\ n = [t \in Threads |-> 0]
    /\ end = [t \in Threads |-> FALSE]
    /\ out = << >>
    /\ main_pc = "create_odd"

-----------------------------------------------------------------------------
(* main() *)

\* pthread_create: a failure is reported by error_msg, which exits.
Create(t, from, to) ==
    /\ main_pc = from
    /\ \/ main_pc' = to /\ pc' = [pc EXCEPT ![t] = "wait"]
       \/ CreateMayFail /\ main_pc' = "failed" /\ UNCHANGED pc
    /\ UNCHANGED <<counter, sems, n, end, out>>

\* Slip: main() does not wait for the thread.
JoinSlip(t, from, to) ==
    /\ main_pc = from
    /\ main_pc' = to
    /\ UNCHANGED <<counter, sems, pc, n, end, out>>

Join(t, from, to) ==
    /\ main_pc = from
    /\ pc[t] = "done"
    /\ main_pc' = to
    /\ UNCHANGED <<counter, sems, pc, n, end, out>>

\* The semaphores are destroyed and main() returns.
close_semaphores ==
    /\ main_pc = "close"
    /\ main_pc' = "exited"
    /\ UNCHANGED <<counter, sems, pc, n, end, out>>

Main ==
    \/ Create("odd", "create_odd", "create_even")
    \/ Create("even", "create_even", "join_odd")
    \/ Join("odd", "join_odd", "join_even")
    \/ Join("even", "join_even", "close")
    \/ close_semaphores

ProcessEnded == main_pc \in {"exited", "failed"}

-----------------------------------------------------------------------------
(* print_odd() and print_even(), which differ in the semaphores only *)

Goto(t, from, to) ==
    /\ ~ProcessEnded
    /\ pc[t] = from
    /\ pc' = [pc EXCEPT ![t] = to]

WaitTurn(t) ==
    /\ Goto(t, "wait", "load")
    /\ \/ t = "odd" /\ rk_sema_wait(sem_odd) /\ UNCHANGED sem_even
       \/ t = "even" /\ rk_sema_wait(sem_even) /\ UNCHANGED sem_odd
    /\ UNCHANGED <<counter, n, end, out, main_pc>>

LoadCounter(t) ==
    /\ Goto(t, "load", "store")
    /\ n' = [n EXCEPT ![t] = counter]
    /\ UNCHANGED <<counter, sems, end, out, main_pc>>

\* The incremented counter is stored and the old value printed.
PrintNumber(t) ==
    /\ Goto(t, "store", "test")
    /\ counter' = n[t] + 1
    /\ out' = Append(out, <<t, n[t]>>)
    /\ UNCHANGED <<sems, n, end, main_pc>>

TestEnd(t) ==
    /\ Goto(t, "test", "post")
    /\ end' = [end EXCEPT ![t] = @ \/ counter >= MAX_N]
    /\ UNCHANGED <<counter, sems, n, out, main_pc>>

\* Slip: the thread posts the semaphore it waits for itself.
HandOverSlip(t) ==
    \/ t = "odd" /\ rk_sema_post(sem_odd) /\ UNCHANGED sem_even
    \/ t = "even" /\ rk_sema_post(sem_even) /\ UNCHANGED sem_odd

\* The other thread's semaphore is posted.
HandOver(t) ==
    \/ t = "odd" /\ rk_sema_post(sem_even) /\ UNCHANGED sem_odd
    \/ t = "even" /\ rk_sema_post(sem_odd) /\ UNCHANGED sem_even

\* The turn goes to the other thread; then the loop ends or goes on.
PostOther(t) ==
    /\ Goto(t, "post", IF end[t] THEN "done" ELSE "wait")
    /\ HandOver(t)
    /\ UNCHANGED <<counter, n, end, out, main_pc>>

Thread(t) == WaitTurn(t) \/ LoadCounter(t) \/ PrintNumber(t) \/ TestEnd(t) \/ PostOther(t)

-----------------------------------------------------------------------------

Terminated == ProcessEnded /\ UNCHANGED vars

Next == Main \/ (\E t \in Threads : Thread(t)) \/ Terminated

Spec == Init /\ [][Next]_vars

-----------------------------------------------------------------------------
(* Properties *)

\* The semaphores are never negative, and the threads and main() are at
\* statements of their own.
TypeOK ==
    /\ counter \in Nat
    /\ sem_odd \in Nat /\ sem_even \in Nat
    /\ pc \in [Threads -> {"absent", "wait", "load", "store", "test", "post", "done"}]
    /\ n \in [Threads -> Nat]
    /\ end \in [Threads -> BOOLEAN]
    /\ out \in Seq(Threads \X Nat)
    /\ main_pc \in {"create_odd", "create_even", "join_odd", "join_even",
                    "close", "exited", "failed"}

\* Between its wait and its post a thread has its turn; every use of counter
\* of this version lies there.
HasTurn(t) == pc[t] \in {"load", "store", "test", "post"}

\* The two threads never have their turns at the same time: nothing else
\* protects counter.
NoRace == ~(HasTurn("odd") /\ HasTurn("even"))

\* The number a thread is about to print has the thread's own parity:
\* print_odd never meets an even counter, nor print_even an odd one.
OwnParity ==
    /\ pc["odd"] = "load" => counter % 2 = 1
    /\ pc["even"] = "load" => counter % 2 = 0

\* 1 and 2 are printed in any case: end is tested only after a thread has
\* printed.
Limit == IF MAX_N < 2 THEN 2 ELSE MAX_N

\* When the program ends normally, both threads have returned and exactly
\* the numbers 1 .. Limit are out.
FullCount ==
    main_pc \in {"close", "exited"} =>
        /\ \A t \in Threads : pc[t] = "done"
        /\ Len(out) = Limit

=============================================================================
