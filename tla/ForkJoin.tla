------------------------------ MODULE ForkJoin ------------------------------
(***************************************************************************)
(* The programs of tasks 2, 3, 4 and 6 in C, C++ and Rust (all but         *)
(* rust/r_lab06.rs, which AirportRust models): main() starts threads, they *)
(* work on shared memory, under a mutex or a binary semaphore or without   *)
(* any, and main() joins them.                                             *)
(*                                                                         *)
(* Each function of the programs is a sequence of steps on shared memory,  *)
(* the lock and the output; the actors execute theirs step by step.        *)
(***************************************************************************)
EXTENDS PosixSemaphore, Integers, FiniteSetsExt, SequencesExt

CONSTANTS Programs,        \* the source files whose program is run
          Dim,             \* a, b and c of task 2 a), 10 in the code
          N, Cols,         \* rows and columns of task 2 b), 15
          NO_TH,           \* threads of task 3 a), 10
          N_MAX,           \* numbers or lines printed in one go, 50 or 10
          Rounds,          \* rounds of each thread in task 3 b), 10
          Planes,          \* threads of tasks 4 and 6, 5
          CreateMayFail    \* whether creating a thread or a semaphore may fail

TwoFunctions == {"c_lab03_a", "cc_lab03_a", "r_lab03_a"}
TwoThreads == {"c_lab03_b", "cc_lab03_b", "r_lab03_b"}
Products == {"c_lab02_a", "cc_lab02_a", "r_lab02_a"}
Sums == {"c_lab02_b", "cc_lab02_b", "r_lab02_b"}
Airports == {"c_lab04", "cc_lab04", "r_lab04", "c_lab06", "cc_lab06"}

ASSUME ForkJoinAssumption ==
    /\ Programs \subseteq TwoFunctions \cup TwoThreads \cup Products \cup Sums \cup Airports
    /\ {Dim, N, Cols, N_MAX, Rounds, Planes} \subseteq Nat \ {0}
    /\ NO_TH \in Nat \ {0} /\ NO_TH % 2 = 0
    /\ CreateMayFail \in BOOLEAN

-----------------------------------------------------------------------------
(* Shared memory and the steps on it *)

Total == <<"total">>
Cached == <<"is_cached">>
Counter == <<"counter">>
Lock == <<"lock">>                    \* the mutex or the semaphore itself
Res(i, j) == <<"res", i, j>>          \* res[i][j], counted from 1
Element(k) == <<"arr", k>>            \* res.arr[k] of the C++ matrix, from 0
\* Slip: all threads get a pointer to the same loop variable.
ArgSlip(i) == <<"thread_no", 1>>
Arg(i) == <<"thread_no", i>>          \* thread_no[i - 1] of main()

Load(c) == [op |-> "load", cell |-> c]
Store(c, v) == [op |-> "store", cell |-> c, val |-> v]
Add(c, v) == [op |-> "add", cell |-> c, val |-> v]
SkipIf(c, n) == [op |-> "skip", cell |-> c, val |-> n]
Put(x) == [op |-> "put", cell |-> <<>>, val |-> x]
PutLoaded(k) == [op |-> "put_loaded", cell |-> <<>>, val |-> k]
Expect(v) == [op |-> "assert", cell |-> <<>>, val |-> v]
MutexLock == [op |-> "lock", cell |-> Lock]
MutexUnlock == [op |-> "unlock", cell |-> Lock]
SemaWait == [op |-> "wait", cell |-> Lock]
SemaPost == [op |-> "post", cell |-> Lock]
SemaInit == [op |-> "init", cell |-> Lock]
Destroy(c) == [op |-> "destroy", cell |-> c]
Create(i) == [op |-> "create", cell |-> <<>>, val |-> i]
Async(i) == [op |-> "async", cell |-> <<>>, val |-> i]
Join(i) == [op |-> "join", cell |-> <<>>, val |-> i]

For(n, Body(_)) == FlattenSeq([i \in 1 .. n |-> Body(i)])

\* x += v is a load and a store.
Increase(c, v) == <<Load(c), Add(c, v)>>

\* What is printed is <<kind, number, place>>, where place counts what has to be
\* printed in one go, from 1, and is 0 for what may be printed at any time.
\* printf and println! write a line at once, std::cout << ... << std::endl
\* writes it piece by piece.
Line(x) == <<Put(x)>>
CoutLine(x) ==
    IF x[3] = 0 THEN <<Put(x), Put(<<"endl", 0, 0>>)>>
    ELSE <<Put(<<x[1], x[2], 2 * x[3] - 1>>), Put(<<"endl", 0, 2 * x[3]>>)>>

-----------------------------------------------------------------------------
(* Task 2 a): the sum of all products i * j * k *)

calculate ==
    For(Dim, LAMBDA i : For(Dim, LAMBDA j : For(Dim, LAMBDA k : Increase(Total, i * j * k))))

CProductMain == <<Create(1), Join(1), Load(Total), PutLoaded(0), Destroy(Total)>>

\* Slip: the result is not marked as cached.
get_totalSlip == calculate \o <<Load(Total)>>

get_total ==
    <<SkipIf(Cached, Len(calculate) + 1)>> \o calculate \o <<Store(Cached, 1), Load(Total)>>

CppProductMain ==
    <<Create(1), Join(1)>> \o get_total \o <<PutLoaded(0)>>
        \o get_total \o <<Expect(((Dim * (Dim + 1)) \div 2)^3), Destroy(Total)>>

RustProductMain == <<Create(1), Join(1)>>

RustProduct ==
    For(Dim, LAMBDA i : For(Dim, LAMBDA j : For(Dim, LAMBDA k :
        <<Load(Total), Add(Total, i * j * k)>>))) \o <<Load(Total), PutLoaded(0)>>

-----------------------------------------------------------------------------
(* Task 2 b): the sum of two matrices, 2000 everywhere and 1, 2, ... in     *)
(* each row *)

calculate_row(row) == [j \in 1 .. N |-> Store(Res(row, j), 2000 + j)]

\* thread_no[i] is set right before the thread that reads it is created.
CreateAll(n) == For(n, LAMBDA i : <<Store(Arg(i), i), Create(i)>>)

wait_threads(n) == [i \in 1 .. n |-> Join(i)]

print_matrix == For(N, LAMBDA i : For(N, LAMBDA j : <<Load(Res(i, j)), PutLoaded(0)>>))

RowsMain == CreateAll(N) \o wait_threads(N) \o print_matrix

\* thread::spawn and std::thread copy the number into the thread.
SpawnAll(n) == [i \in 1 .. n |-> Create(i)]

RustRowsMain == SpawnAll(N) \o wait_threads(N) \o print_matrix

RustRow(i) == [j \in 1 .. N |-> Store(Res(i, j), 2000 + j)]

\* Matrix::col: the slice of N elements from n on, Cols apart.
Col(n) == [i \in 1 .. N |-> Element(n - 1 + (i - 1) * Cols)]

AddColumn(n) ==
    For(N, LAMBDA i : Increase(Col(n)[i], n)) \o For(N, LAMBDA i : Increase(Col(n)[i], 2000))

\* operator<<: row by row, from the address of (i, 0) on.
PrintRows ==
    For(N, LAMBDA i : For(Cols, LAMBDA j : <<Load(Element((i - 1) * Cols + j - 1)), PutLoaded(0)>>))

\* std::async may start the function or leave it to get().
AsyncMain ==
    [c \in 1 .. Cols |-> Async(c)] \o [c \in 1 .. Cols |-> Join(c)] \o PrintRows

-----------------------------------------------------------------------------
(* Task 3 a): a counter under a mutex *)

func == <<MutexLock>>
    \o For(N_MAX, LAMBDA i : <<Load(Counter), Add(Counter, 1), PutLoaded(i)>>)
    \o <<MutexUnlock>>

CppFunc == <<MutexLock>>
    \o For(N_MAX, LAMBDA i : <<Put(<<"function", 0, 3 * i - 2>>), Load(Counter), Add(Counter, 1),
                               PutLoaded(3 * i - 1), Put(<<"endl", 0, 3 * i>>)>>)
    \o <<MutexUnlock>>

RustFunc == <<MutexLock>>
    \o For(N_MAX, LAMBDA i : <<Load(Counter), PutLoaded(i), Load(Counter), Add(Counter, 1)>>)
    \o <<MutexUnlock>>

\* func1 and func2 in turn, two threads in each round of the loop.
CreatePairs ==
    For(NO_TH \div 2, LAMBDA i : <<Store(Arg(2 * i - 1), 2 * i - 1), Create(2 * i - 1),
                                   Store(Arg(2 * i), 2 * i), Create(2 * i)>>)

FunctionsMain == CreatePairs \o wait_threads(NO_TH)
CppFunctionsMain == SpawnAll(NO_TH) \o wait_threads(NO_TH) \o <<Destroy(Lock)>>
RustFunctionsMain == SpawnAll(NO_TH) \o wait_threads(NO_TH)

-----------------------------------------------------------------------------
(* Task 3 b): two threads that print by turns *)

print_thread(thread) == For(N_MAX, LAMBDA i : Line(<<"line", thread, i>>))

PrintRounds(n) ==
    For(Rounds, LAMBDA r : <<MutexLock>> \o print_thread(n) \o <<MutexUnlock>>)

\* The loop variable of the lambda hides the one of main(): each thread prints
\* for thread 0 and for thread 1.
CppPrintRounds ==
    For(2, LAMBDA i : <<MutexLock>> \o For(N_MAX, LAMBDA k : CoutLine(<<"line", i, k>>))
                                    \o <<MutexUnlock>>)

RustPrintRounds(n) ==
    For(Rounds, LAMBDA r : <<MutexLock>> \o For(N_MAX, LAMBDA k : Line(<<"line", n, k>>))
                                         \o <<MutexUnlock>>)

RoundsMain == CreateAll(2) \o wait_threads(2)
CppRoundsMain == SpawnAll(2) \o wait_threads(2) \o <<Destroy(Lock)>>
RustRoundsMain == SpawnAll(2) \o wait_threads(2)

-----------------------------------------------------------------------------
(* Tasks 4 and 6: airplanes that share a runway *)

ask(n) == <<"ask", n, 0>>
landing(n) == << <<"granted", n, 1>>, <<"landed", n, 2>>, <<"available", 0, 3>> >>

Landing(n) == For(3, LAMBDA i : Line(landing(n)[i]))
CppLanding(n) == For(3, LAMBDA i : CoutLine(landing(n)[i]))

\* Slip: the plane lands without asking for the lock.
MutexAirplaneSlip(n) == Line(ask(n)) \o Landing(n)

MutexAirplane(n) == Line(ask(n)) \o <<MutexLock>> \o Landing(n) \o <<MutexUnlock>>

CppMutexAirplane(n) ==
    <<MutexLock>> \o CoutLine(<<"ask", n, 1>>) \o <<MutexUnlock>>
        \o <<MutexLock>> \o CppLanding(n) \o <<MutexUnlock>>

RustMutexAirplane(n) == Line(ask(n)) \o <<MutexLock>> \o Landing(n) \o <<MutexUnlock>>

AirportMain == CreateAll(Planes) \o wait_threads(Planes)
CppAirportMain == SpawnAll(Planes) \o wait_threads(Planes) \o <<Destroy(Lock)>>
RustAirportMain == SpawnAll(Planes) \o wait_threads(Planes)

SemaAirplane(n) == Line(ask(n)) \o <<SemaWait>> \o Landing(n) \o <<SemaPost>>

CppSemaAirplane(n) == <<SemaWait>> \o CppLanding(n) \o <<SemaPost>>

SemaMain == <<SemaInit>> \o CreateAll(Planes) \o wait_threads(Planes) \o <<Destroy(Lock)>>

\* main() asks for each airplane before it starts it; ~Semaphore() joins.
CppSemaMain ==
    <<SemaInit>> \o For(Planes, LAMBDA i : CoutLine(ask(i)) \o <<Create(i)>>)
        \o wait_threads(Planes) \o <<Destroy(Lock)>>


-----------------------------------------------------------------------------
(* What each program runs *)

NoThreads == [p \in Programs |->
    CASE p \in Products -> 1
      [] p \in Sums -> IF p = "cc_lab02_b" THEN Cols ELSE N
      [] p \in TwoFunctions -> NO_TH
      [] p \in TwoThreads -> 2
      [] p \in Airports -> Planes]

Threads == 1 .. Max({NoThreads[p] : p \in Programs})
Main == 0
Actors == {Main} \cup Threads

MainScript == [p \in Programs |->
    CASE p = "c_lab02_a" -> CProductMain
      [] p = "cc_lab02_a" -> CppProductMain
      [] p = "r_lab02_a" -> RustProductMain
      [] p = "c_lab02_b" -> RowsMain
      [] p = "cc_lab02_b" -> AsyncMain
      [] p = "r_lab02_b" -> RustRowsMain
      [] p = "c_lab03_a" -> FunctionsMain
      [] p = "cc_lab03_a" -> CppFunctionsMain
      [] p = "r_lab03_a" -> RustFunctionsMain
      [] p = "c_lab03_b" -> RoundsMain
      [] p = "cc_lab03_b" -> CppRoundsMain
      [] p = "r_lab03_b" -> RustRoundsMain
      [] p = "c_lab04" -> AirportMain
      [] p = "cc_lab04" -> CppAirportMain
      [] p = "r_lab04" -> RustAirportMain
      [] p = "c_lab06" -> SemaMain
      [] p = "cc_lab06" -> CppSemaMain]

\* What a thread does that was told the number n.
ThreadScript == [p \in Programs |-> [n \in Threads |->
    CASE p = "c_lab02_a" -> calculate
      [] p = "cc_lab02_a" -> get_total \o <<PutLoaded(0)>>
      [] p = "r_lab02_a" -> RustProduct
      [] p = "c_lab02_b" -> calculate_row(n)
      [] p = "cc_lab02_b" -> AddColumn(n)
      [] p = "r_lab02_b" -> RustRow(n)
      [] p = "c_lab03_a" -> func
      [] p = "cc_lab03_a" -> CppFunc
      [] p = "r_lab03_a" -> RustFunc
      [] p = "c_lab03_b" -> PrintRounds(n)
      [] p = "cc_lab03_b" -> CppPrintRounds
      [] p = "r_lab03_b" -> RustPrintRounds(n)
      [] p = "c_lab04" -> MutexAirplane(n)
      [] p = "cc_lab04" -> CppMutexAirplane(n)
      [] p = "r_lab04" -> RustMutexAirplane(n)
      [] p = "c_lab06" -> SemaAirplane(n)
      [] p = "cc_lab06" -> CppSemaAirplane(n)]]

\* The C programs, except the first, pass a pointer to the number.
ByPointer == {"c_lab02_b", "c_lab03_a", "c_lab03_b", "c_lab04", "c_lab06"}

Cells ==
    {Total, Cached, Counter} \cup {Res(i, j) : i \in 1 .. N, j \in 1 .. N}
        \cup {Element(k) : k \in 0 .. N * Cols - 1} \cup {Arg(i) : i \in Threads}

-----------------------------------------------------------------------------
(* The behaviour *)

VARIABLES program,    \* the program that runs, chosen in the initial state
          mem,        \* the shared memory
          holder,     \* the thread that holds the mutex, or Nobody
          sem_bin,    \* the binary semaphore
          pc,         \* each actor's place in its script
          me,         \* the number each thread was told
          reg,        \* the value each actor has loaded last
          out,        \* the output
          ended       \* whether and how the process has ended

vars == <<program, mem, holder, sem_bin, pc, me, reg, out, ended>>

Nobody == -1
Deferred == -2       \* places of a thread before its function runs
Absent == -1
ReadingArg == 0

ForkJoinInit ==
    /\ program \in Programs
    /\ mem = [c \in Cells |-> IF c = Counter THEN 1 ELSE 0]
    /\ holder = Nobody
    /\ rk_sema_init(sem_bin, 1)
    /\ pc = [a \in Actors |-> IF a = Main THEN 1 ELSE Absent]
    /\ me = [a \in Actors |-> a]
    /\ reg = [a \in Actors |-> 0]
    /\ out = <<>>
    /\ ended = "no"

Script(a) == IF a = Main THEN MainScript[program] ELSE ThreadScript[program][me[a]]

Done(t) == pc[t] > Len(Script(t))

\* While main() reports a failure, the threads run on.
Active(a) ==
    /\ ended = "no" \/ (ended = "failing" /\ a # Main)
    /\ pc[a] > 0 /\ ~Done(a)

Op(a) == Script(a)[pc[a]]

Advance(a) == pc' = [pc EXCEPT ![a] = @ + 1]

Write(a, text) == out' = Append(out, [by |-> a, text |-> text])

\* The steps on memory and output.
Compute(a) ==
    LET s == Op(a) IN
    /\ \/ /\ s.op = "load"
          /\ reg' = [reg EXCEPT ![a] = mem[s.cell]]
          /\ UNCHANGED <<mem, out>>
       \/ /\ s.op = "store"
          /\ mem' = [mem EXCEPT ![s.cell] = s.val]
          /\ UNCHANGED <<reg, out>>
       \/ /\ s.op = "add"
          /\ mem' = [mem EXCEPT ![s.cell] = reg[a] + s.val]
          /\ UNCHANGED <<reg, out>>
       \/ s.op = "put" /\ Write(a, s.val) /\ UNCHANGED <<mem, reg>>
       \/ s.op = "put_loaded" /\ Write(a, <<"number", reg[a], s.val>>) /\ UNCHANGED <<mem, reg>>
       \/ s.op = "skip" /\ UNCHANGED <<mem, reg, out>>
    /\ pc' = [pc EXCEPT ![a] = IF s.op = "skip" /\ mem[s.cell] = 1 THEN @ + s.val + 1
                                                                        ELSE @ + 1]
    /\ UNCHANGED <<holder, sem_bin, me, ended>>

\* The steps on the mutex and the semaphore.
Synchronize(a) ==
    LET s == Op(a) IN
    /\ \/ s.op = "lock" /\ holder = Nobody /\ holder' = a /\ UNCHANGED sem_bin
       \/ s.op = "unlock" /\ holder' = Nobody /\ UNCHANGED sem_bin
       \/ s.op = "wait" /\ rk_sema_wait(sem_bin) /\ UNCHANGED holder
       \/ s.op = "post" /\ rk_sema_post(sem_bin) /\ UNCHANGED holder
    /\ Advance(a)
    /\ UNCHANGED <<mem, me, reg, out, ended>>

ReadArg(t) ==
    /\ ended \in {"no", "failing"}
    /\ pc[t] = ReadingArg
    /\ me' = [me EXCEPT ![t] = mem[Arg(t)]]
    /\ Advance(t)
    /\ UNCHANGED <<mem, holder, sem_bin, reg, out, ended>>

Thread(t) == (Active(t) /\ (Compute(t) \/ Synchronize(t))) \/ ReadArg(t)

StartPlace == IF program \in ByPointer THEN ReadingArg ELSE 1

\* pthread_create, std::thread, std::async and thread::spawn.
StartThread ==
    LET t == Op(Main).val IN
    /\ Op(Main).op \in {"create", "async"}
    /\ \/ pc' = [pc EXCEPT ![t] = StartPlace, ![Main] = @ + 1]
       \/ Op(Main).op = "async" /\ pc' = [pc EXCEPT ![t] = Deferred, ![Main] = @ + 1]
    /\ UNCHANGED <<mem, holder, sem_bin, me, reg, out, ended>>

\* pthread_join, std::thread::join, future::get and JoinHandle::join.  get()
\* runs a deferred function itself.
JoinThread ==
    LET t == Op(Main).val IN
    /\ Op(Main).op = "join"
    /\ \/ pc[t] = Deferred /\ pc' = [pc EXCEPT ![t] = StartPlace]
       \/ pc[t] > 0 /\ Done(t) /\ Advance(Main)
    /\ UNCHANGED <<mem, holder, sem_bin, me, reg, out, ended>>

SetUp ==
    /\ Op(Main).op \in {"init", "destroy"}
    /\ Advance(Main)
    /\ UNCHANGED <<mem, holder, sem_bin, me, reg, out, ended>>

AssertResult ==
    /\ Op(Main).op = "assert"
    /\ ended' = IF reg[Main] = Op(Main).val THEN "no" ELSE "assertion"
    /\ Advance(Main)
    /\ UNCHANGED <<mem, holder, sem_bin, me, reg, out>>

\* A failed creation is reported, and that is the end: exit() in C, an
\* exception in C++, which destroys or leaves threads that were not joined and
\* so terminates the program, a panic of main() in Rust.
Fail ==
    /\ CreateMayFail
    /\ Op(Main).op \in {"create", "init"}
    /\ ended' = "failing"
    /\ UNCHANGED <<mem, holder, sem_bin, pc, me, reg, out>>

End ==
    /\ \/ ended = "failing" /\ ended' = "failed"
       \/ ended = "no" /\ Done(Main) /\ ended' = "exited"
    /\ UNCHANGED <<mem, holder, sem_bin, pc, me, reg, out>>

RunMain ==
    \/ Active(Main) /\ (Compute(Main) \/ StartThread \/ JoinThread \/ SetUp \/ AssertResult \/ Fail)
    \/ End

ProcessEnded == ended \in {"exited", "failed", "assertion"}

Terminated == ProcessEnded /\ UNCHANGED vars

ForkJoinNext ==
    \/ (RunMain \/ \E t \in Threads : Thread(t)) /\ UNCHANGED program
    \/ Terminated

\* All threads are scheduled; each asks for the lock a bounded number of times.
ForkJoinSpec ==
    /\ ForkJoinInit /\ [][ForkJoinNext]_vars
    /\ WF_vars(RunMain /\ UNCHANGED program)
    /\ \A t \in Threads : WF_vars(Thread(t) /\ UNCHANGED program)

-----------------------------------------------------------------------------
(* Properties *)

Reads(a) ==
    IF ended \in {"no", "failing"} /\ pc[a] = ReadingArg THEN {Arg(a)}
    ELSE IF Active(a) /\ Op(a).op \in {"load", "lock", "unlock", "wait", "post"}
         THEN {Op(a).cell} ELSE {}

Writes(a) == IF Active(a) /\ Op(a).op \in {"store", "add", "destroy"} THEN {Op(a).cell} ELSE {}

\* No two threads are about to use the same memory, one of them to change, free
\* or destroy it: the rows and columns of task 2 b) are disjoint ("no datarace
\* possible"), the counter of task 3 a) is only used under the mutex, every
\* thread reads its number after main() has set it, and the total, the mutex and
\* the semaphore are gone only when the last thread is.
NoRace ==
    \A a, b \in Actors : a # b => Writes(a) \cap (Reads(b) \cup Writes(b)) = {}

\* What belongs together is printed in one go: the numbers of one call in task
\* 3 a), one round of task 3 b), the landing of one airplane, and the pieces of
\* their lines.  Only what is printed outside of all critical sections (results,
\* the requests of some airports) may come in between.
SectionsWhole ==
    LET together == SelectSeq(out, LAMBDA e : e.text[3] > 0) IN
    \A i \in DOMAIN together :
        together[i].text[3] > 1 =>
            /\ i > 1
            /\ together[i - 1].by = together[i].by
            /\ together[i - 1].text[3] = together[i].text[3] - 1

\* Kind and number of the printed parts that Keep picks.
Texts(Keep(_)) == LET kept == SelectSeq(out, LAMBDA e : Keep(e))
                  IN [i \in DOMAIN kept |-> <<kept[i].text[1], kept[i].text[2]>>]

Complete ==
    LET n == NoThreads[program] IN
    /\ \A t \in 1 .. n : Done(t)
    /\ program \in Products => out # <<>> /\
          \A i \in DOMAIN out : out[i].text[2] = ((Dim * (Dim + 1)) \div 2)^3
    /\ program \in Sums =>
          Texts(LAMBDA e : TRUE) = [i \in 1 .. N * n |-> <<"number", 2000 + ((i - 1) % n) + 1>>]
    /\ program \in TwoFunctions =>
          Texts(LAMBDA e : e.text[1] = "number") = [i \in 1 .. n * N_MAX |-> <<"number", i>>]
    /\ program \in TwoThreads \ {"cc_lab03_b"} =>
          \A t \in 1 .. n : Texts(LAMBDA e : e.by = t) =
              [i \in 1 .. Rounds * N_MAX |-> <<"line", t>>]
    /\ program \in Airports =>
          \A t \in 1 .. n : Texts(LAMBDA e : e.text[2] = t) =
              << <<"ask", t>>, <<"granted", t>>, <<"landed", t>> >>

\* The program ends, and unless a thread could not be created it ends with its
\* whole result: every thread was joined, the total was computed once and is the
\* product of the three sums, every element of the matrix is the sum, the counter
\* was printed without a gap, every thread of task 3 b) has printed its own label
\* in every round (in cc_lab03_b.cc each thread prints the labels of both: nothing is
\* said of its lines), and every airplane has asked, was granted the runway and has landed.
EndsComplete == <>(ended = "failed" \/ (ended = "exited" /\ Complete))

=============================================================================
