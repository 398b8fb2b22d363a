# posix-intro in TLA+

posix-intro is a course in POSIX programming: seven tasks, each solved in C, C++
and mostly in Rust. This directory holds TLA+ models of the programs in which
several threads, processes or a signal handler meet, the TLC runs that check
them, and proofs of what matters most about task 5 in its three languages, the Rust semaphore and
its airport, and the four IPC programs of task 7. All paths below are relative to `src/`.

## 1. Inventory

| Part | Code | State | Operations | What meets what |
|---|---|---|---|---|
| POSIX semaphore wrapper | `c/include/posix_semaphore.h` | one counter | `rk_sema_init`, `rk_sema_wait` (again after EINTR), `rk_sema_post`, `rk_sema_destroy` | used by tasks 5 and 6 in C and C++ |
| C warehouse, task 5 b | `c/c_lab05_b.c` | ring buffer, two indices, three semaphores, `thread_no` | `main`, `producer`, `consumer`, `print_buffer` | threads on shared memory |
| C odd/even counter, task 5 a | `c/c_lab05_a.c` | `counter`, two semaphores | `main`, `print_odd`, `print_even` | two threads hand over a turn |
| C++ odd/even and warehouse, task 5 | `cpp/include/buffer.hh` | as above, `running`, slot marks | constructor, `run`, thread functions, SIGINT handler, destructor | threads and a signal |
| Rust semaphore | `rust/semaphore.rs` | value in a mutex, condition variable | `new`, `wait`, `post` | used by tasks 5 and 6 in Rust |
| Rust airport, task 6 | `rust/r_lab06.rs` | one semaphore | `main`, the airplanes | threads through the semaphore |
| Rust warehouse, task 5 b | `rust/r_lab05_b.rs` | buffer in a mutex, two semaphores | `main`, trucks, workers | threads through semaphores and mutex |
| Rust odd/even counter, task 5 a | `rust/r_lab05_a.rs` | atomic `num`, two Rust semaphores | `main`, two closures | two threads hand over a turn |
| Products and matrix sums, task 2 | `c_lab02_*.c`, `cc_lab02_*.cc`, `r_lab02_*.rs` | total and cache flag, matrices, `thread_no` | `main`, `calculate`, `calculate_row`, `get_total`, the column function | threads without locks; joins, `std::async` |
| Mutex counters, task 3 | `c_lab03_*.c`, `cc_lab03_*.cc`, `r_lab03_*.rs` | `counter`, a mutex | `main`, `func1`, `func2`, `print_thread` | threads under one mutex |
| Airports, tasks 4 and 6 | `c_lab04.c`, `cc_lab04.cc`, `r_lab04.rs`, `c_lab06.c`, `cc_lab06.cc` | a mutex or a binary semaphore | `main`, the airplanes | threads, and `main` on the same output |
| Simple monitor | `c/include/simple_monitor.h` | `cnt`, `somebody_waits`, mutex, condition variable | `monitor_init`, `monitor_wait`, `monitor_knock`, `monitor_destroy` | used by no program |
| Shared memory, task 7 | `c/ipc/include/shm_type.h`, `shared_memory/write.c`, `read.c`; `shm.hh` | mapped file, two named semaphores, pointers, `running` | writer, reader, SIGINT handler | two processes, kernel objects that outlive them |
| Two-way pipe, task 7 | `twowaypipe.c`; `twowaypipe.cc` | two pipes, `msg`, `running` | parent, child, SIGINT handler | two processes, signals, SIGPIPE |
| Message queue, task 7 | `c/ipc/include/type.h`, `message_queue/write.c`, `read.c`; `mqueue.hh` | kernel queue, `msg` | writer, reader, SIGINT handler | two processes; the handler writes the `msg` of the loop it interrupts |
| Sockets, task 7 | `socket.h`, `server.c`, `client.c`; `sockets.hh` | connection, one buffer each | server, clients | a byte stream, a server that serves one client at a time |
| Fork/exec (task 1), own malloc (task 7), C++ exceptions | see `PROJECT.json` | | | not modelled, section 7 |

What is hard in this code:

* **Interleavings.** `thread_no[i]` is written by `main` while a thread reads it;
  `counter++` is protected only by the hand-over of a turn; the C++ version even
  tests the counter after it gave the turn away; the Rust semaphore releases its
  mutex before it sleeps; `std::cout` writes a line piece by piece.
* **Signals.** The SIGINT handlers set a flag nobody looks at while blocked, write
  into the buffer of the interrupted loop, or block in a system call themselves.
  Interrupted calls, and streams that have come to their end, leave old data behind
  which is used as if it were new.
* **Things that outlive a process.** Named semaphores and message queues keep the
  state a killed or failed process gave them, and programs of both languages use the
  same names.
* **Ends.** Who releases the last waiter; who is still blocked when its partner has
  returned; who writes into a pipe nobody reads.
* **Limits.** Full and empty buffers, a full queue, the end of the mapped block, a
  message longer than its receiver's buffer, slices of a matrix.

The main hazards, line by line, are in `PROJECT.json`. Some are covered by no property, and say
why: the C++ SIGINT handler uses `std::cout`, which the interrupted thread may be using
(undefined, so there is no outcome to enumerate); and what a killed writer leaves to the next pair,
the mixed lines of the C++ airport and the forgotten waiter of the monitor are what the code
does, with nothing that promises otherwise.

## 2. Modules

| Module | Models | Uses |
|---|---|---|
| `PosixSemaphore` | the wrapper: operators on one semaphore variable | |
| `Warehouse` | C warehouse | `PosixSemaphore`, implements `BoundedFifo` |
| `BoundedFifo` | what a warehouse promises: a store that is a queue of bounded length | |
| `WarehouseProofs` | theorems about `Warehouse`: the lock, the slots, their contents and the refinement | |
| `OddEven` | C odd/even counter | `PosixSemaphore` |
| `OddEvenTurns` | what task 5 a asks for: odd and even numbers printed by turns | |
| `OddEvenProofs` | theorems about `OddEven` and `OddEvenVersions` | |
| `OddEvenVersions` | the counter in C, C++ and Rust: `language`, chosen in the initial state | extends `OddEven`, implements `OddEvenTurns` |
| `WarehouseCpp` | C++ warehouse with SIGINT and destructor | `PosixSemaphore` |
| `WarehouseCppProofs` | theorem about `WarehouseCpp` | |
| `RustSemaphore` | `rust/semaphore.rs` | implements `CountingSemaphore` |
| `CountingSemaphore` | what a semaphore promises | |
| `AirportRust` | airplanes of `r_lab06.rs` | extends `RustSemaphore` |
| `RustSemaphoreProofs` | theorems about `RustSemaphore` and `AirportRust` | |
| `WarehouseRust` | `r_lab05_b.rs` | two instances of `RustSemaphore`, implements `BoundedFifo` |
| `WarehouseRustProofs` | theorems about `WarehouseRust` | |
| `ForkJoin` | the 17 programs of tasks 2, 3, 4 and 6 but `r_lab06.rs`: `program`, chosen in the initial state | `PosixSemaphore` |
| `Monitor` | `simple_monitor.h`, with waiting and knocking threads as its environment | |
| `SharedMemory` | writers and readers of the shared block, each in C or C++ (`wlang`, `rlang`) | |
| `SharedMemoryProofs` | theorems about `SharedMemory` | |
| `TwoWayPipe` | parent and child, in C or in C++ (`language`) | |
| `MessageQueue` | writer, reader and their SIGINT handlers, each in C or C++ (`lang`) | |
| `MessagePassingProofs` | theorems about `MessageQueue` and `TwoWayPipe` | extends the one, instantiates the other |
| `EchoSocket` | server and clients, in C or in C++ (`language`) | |
| `EchoSocketProofs` | theorem about `EchoSocket` | |

How the state corresponds. A variable has the name of the C variable where there
is one. `pc` says which statement a thread is about to execute; for `main` it is
`main_pc`. Every access to memory that threads share and every semaphore, mutex,
condition variable, pipe, queue or socket operation is a step of its own, so mutual
exclusion is something the semaphores have to achieve and not something the model
grants. Local computation is merged with the shared access next to it. Variables
marked *auxiliary* record history for a property and are read by no action. Definitions
whose name ends in `Slip` are not part of a specification: each is a definition with
one plausible mistake (a dropped wait, a lost post, a swapped order), and
`PROJECT.json` says which property notices it.

`ForkJoin` is built differently, because its programs are many and short. Each function of a
source file is one definition: the sequence of its steps on shared memory, on the lock and on
the output (`calculate`, `func`, `PrintRounds`, `MutexAirplane`, ..., and one `...Main` per
file). `Compute`, `Synchronize`, `ReadArg`, `StartThread`, `JoinThread` and the other actions
execute such a sequence; `pc[a]` is the place of actor `a` in it and 0 is `main`. Threads of the
C programs first read their number through the pointer they were given, those of C++ and Rust
get a copy. A function that `std::async` has deferred starts when `main` calls `get()`, which
is the same as running it in `main`, since `main` waits for it either way.

What is abstracted: items, characters and messages are members of small sets;
pictures and texts are left out, but not the marks that drawing a picture resets, and not the
pieces in which `std::cout` writes a line next to other threads; sleeps only separate steps and
are dropped. EINTR appears where
the code treats it differently from a retry: the wrapper's `do ... while` hides it
from tasks 5 and 6, while `shm_type.h`, `twowaypipe.c` and `type.h` do not.

Outside the repository, and modelled from how the code uses it: the kernel's message
queue (`msgsnd` blocks while the queue is full and fails with EINTR or EIDRM), named
semaphores, the pipe with its end of file and SIGPIPE, the socket's byte stream in
three parts per message (two for the bytes that are compared with `done`, one for the rest), and
condition variables, which return spuriously at most `MaxSpurious` or `MaxStrays` times, in
`OddEvenVersions` without a bound. A spurious return makes the Rust semaphore hand out a permit nobody posted, since
its `wait` does not test the value again; `CountingSemaphore` says so as `Borrow`: the
permit is lent, and a later post pays it back instead of letting one more thread through.

## 3. Runs

Each run is a `.cfg` for a module. The *violation* run checks a sentence that a message of
the program says and that the program does not keep; it is the finding of `PROJECT.json`.

| Run | Instance | Shows |
|---|---|---|
| `warehouse` | 2 trucks, 2 workers, 2 slots, 2 items, creation may fail | one thread at a time in the buffer, slots neither lost nor invented, no item overwritten, no mark taken for an item, `+` marks only the latest slot left, each thread reads its own number; the program implements `BoundedFifo`; items keep flowing as long as a truck and a worker exist, and each stored item is taken |
| `odd_even` | three languages, limit 10, creation may fail, any number of spurious returns in Rust | turns never overlap, in Rust up to a spurious return, and the only access to `counter` that meets a store of the other thread is the C++ loop condition; who ends has printed all numbers up to the limit, in C++ perhaps one fewer; all versions end, but for Rust after a spurious return; up to such a return the output implements `OddEvenTurns` |
| `warehouse_cpp` | 2 trucks, 2 workers, 3 slots, SIGINT at any time, thread creation may throw | stores and takes of a slot alternate; what is stored lies between the indices; items flow until SIGINT; afterwards everybody returns or the rest waits on one semaphore; no semaphore is destroyed under a thread |
| `warehouse_cpp_hang` | 1 + 1 threads, 2 slots | **violation**: the shutdown that the handler announces may never complete |
| `airport_rust` | 5 airplanes, 1 spurious return, a spawn may fail | the value of the semaphore counts its sleepers but for the permits lent; it implements `CountingSemaphore`; at most one airplane more than there were spurious returns is on the runway; all land |
| `warehouse_rust` | 2 trucks, 1 worker, 2 slots, 1 kind of item, 1 spurious return of either semaphore, a spawn may fail | until the spurious return: no overwriting, no `Item::Other` taken, implements `BoundedFifo`; in any case: marks as in C, nobody waits for everybody (deadlock), and no sloth keeps its item for ever |
| `shared_memory` | C and C++ in all pairs, block of 3 or empty file, 1 letter, 1 SIGINT, 1 kill, 2 starts of each program, end of input | a reader paired with a writer prints what it handed over, in step, and END reaches it; SIGINT adds at most what was under way; the end of the input does not keep a writer going for ever; as long as nobody has died, no writer takes an old semaphore for a reader that has come |
| `two_way_pipe` | C and C++, 2 SIGINTs, fork may fail, inputs may end | before a signal: strict turns, each displays what the peer sent, at least one of the two ends normally; a 0 ends both; once each process got its SIGINT, both end |
| `message_queue` | each program in C or C++, 2 starts, 1 SIGINT each, queue of 2, 4 lines, 1 failing input | lines arrive once, in order, without gaps, but a C writer repeats its last line when it has no input; what a reader that ends leaves behind is nothing, a queue a writer has opened, or one that a handler has made anew with only its 0; 0 ends the reader, and so does a SIGINT that interrupts its `msgrcv`, unless its handler is stuck in `msgsnd` on the queue that only the reader empties |
| `fork_join` | 17 programs; products up to 10 as in the code, 2 x 2 and 2 x 3 matrices, 4 threads with 2 numbers each, 3 rounds of 2 lines, 3 airplanes, creation may fail | no data race, and nothing freed or destroyed in use; numbers, rounds and landings are printed in one go, whatever comes between them is printed outside of all critical sections; every program ends, with the right sums, all numbers, all rounds, all landings (`cc_lab03_b` only ends) |
| `monitor` | 3 waiters, 2 knockers, `MAX_NUM` 10 as in the code, 2 spurious returns | who falls asleep is woken by knocks unless another waiter comes back first |
| `echo_socket` | both languages, 1 client that may be killed, 1 read that returns a part of a message, set-up may fail | until a message is cut: the echo is the message, `done` ends both sides, the C++ server ends only on a `done` that was typed; wherever it is cut, the accepted client always gets an answer |

**Bounds and why they are enough.** With two slots and two threads per role the ring
buffer wraps, is full, is empty, and has two threads of the same role competing at each
semaphore; three slots in the C++ warehouse tell a partly filled ring from a
full and an empty one at every position of the indices. The Rust warehouse has three threads only, because each of
its semaphores is a machine of several steps; two trucks compete for a semaphore
and meet a worker on the mutex. One kind of item shows losses and inventions, not the order; that the order
is kept is `RustImplementsFifo`, for all items. Five airplanes and one spurious return let several sleep
while one borrows a permit. The odd/even limit is 10 instead of 30, enough
for each thread to meet it, to come one short of it and to run out of turn in the middle; the
proofs of section 4 cover all limits. `MaxSigints`, `MaxKills`, `MaxRuns`, `MaxLines`, `MaxFails`,
`QueueMax`, `MaxSplits` and `MaxStream` bound what users do and what the kernel stores; `MaxSpurious` and `MaxStrays` bound the spurious returns of condition variables: two starts let the second
meet what the first left behind, a queue of two is full while both a line and the
handler's 0 want to go in. One cut read lets the server answer twice to one message, after which client and
server are a message apart for good (`MaxStream` leaves room for that), and mix two
messages in its buffer: after "fine", the first two bytes of "door" make it hear a "done". A second client would
never be accepted, and what it does touches neither the server nor its partner; `EchoAlways` holds for any number of clients. The bounds are guards of the actions they bound, and each is a
constant of its own. A block of three characters lets writer and reader be in step and one apart
in it and lets either of them run over its end; an empty file has no byte to touch. In `fork_join`
four threads queue for the mutex while two numbers make a section that others could cut into;
three rounds let both threads of task 3 b alternate; more columns than rows tell the stride of a
slice from its length. Three waiters are one that returns, one it forgets and one that comes
later.

**Named parts.** Where several invariants describe one thing, the run checks their
conjunction under one name, with the module's `TypeOK` as its first part: `RingContents`
(nothing overwritten, no mark taken for an item, no old `+`), `RingInv` of the C++
warehouse, `EchoInv` of the shared block and of the sockets, `Conversation` of the pipe and
`LinesArrive` of the queue, `SemaphoreInv` of the Rust semaphore. `TypeOK` and `OwnParity` of `OddEven` are proved instead (`CountingTypeCorrect`, `VersionsOwnParity`), and `VersionsTurns` implies that each number is printed by the thread of its parity.

**Conditions.** Some properties hold only until something happens that the code does not
survive, and say so: `TakeTurns`, `HearsPeer` and `OneGetsThrough` while `Quiet` (both
processes exist and none was signalled), `EchoConfirms`, `EndsOnlyOnDone` and
`DoneEndsBoth` while no message was split, `Echo`, `NotFarAhead`, `EndReachesReader` and `EofStopsWriter` for a
reader that is `Paired` with the writer that runs, `WaitsForReader` while nobody has died, the
turns of the Rust counter, `NoOverwrite`, `NoOther` and `FifoRefinement` of the Rust warehouse up to
the first spurious return, `ReaderComesToEnd` for a SIGINT that interrupts `msgrcv`, `WaiterWoken` up to the return of another
waiter. The runs reach states on both sides of each condition; what lies on the other side is
section 6.

**Deadlock** is checked in `airport_rust`, `warehouse_rust`, `two_way_pipe`, `fork_join` and
`monitor`, where somebody can always move until all have ended. It is off in
`warehouse`, where failed creations may leave trucks alone before a full store; in `odd_even`,
where the Rust version may hang after a spurious return; in
`warehouse_cpp`, which may hang after SIGINT (the finding); and in `shared_memory`,
`message_queue` and `echo_socket`, where programs may wait for ever for a user or a partner
that never comes, and where the user's bounded actions run out.

**Fairness.** Weak fairness for each thread or process: it is scheduled, and a step that
stays possible is taken. Nothing stronger is assumed of semaphores or mutexes, so no
property says that a particular thread gets through where others may come again without end,
only that some thread does, or that
an item leaves. Signals, kills, starts of programs, spurious returns and typing have no
fairness. There are two exceptions, both about an environment: in `TypingSpec` of `TwoWayPipe`
the user answers when asked, or ends the input, without which neither process can be expected
to end; and in `Monitor` somebody goes on knocking.

## 4. Proofs

`tlapm` checks all of the following, for any values of the constants that satisfy the named
assumptions. Each assumption is evaluated by TLC for the instances of section 3.

| Assumption | Module | Says |
|---|---|---|
| `SizeAssumption`, `ItemsAssumption` | `Warehouse` | at least one truck, one worker, one slot; items are `rand() % 9 + 1` |
| `SizeAssumption` | `WarehouseCpp` | the same sizes |
| `MaxAssumption`, `CreateAssumption`, `LanguagesAssumption` | `OddEven`, `OddEvenVersions` | `MAX_N` is positive; the languages are the three there are |
| `ClientsAssumption`, `ValueAssumption`, `SpuriousAssumption` | `RustSemaphore` | finitely many threads; the initial value is a natural number within the bound on posts |
| `AirportAssumption` | `AirportRust` | the semaphore starts at 1 and its bound leaves room for one post of each plane |
| `BlockAssumption`, `BoundAssumption`, `CharAssumption` | `SharedMemory` | sizes and bounds are natural numbers; END is neither a letter, nor EOF, nor the first content of the file |
| `SocketAssumption` | `EchoSocket` | bounds are natural numbers |
| `SizeAssumption`, `ItemsAssumption` | `WarehouseRust` | at least one truck, one worker, one sloth; the marks are no items |
| `QueueAssumption` | `MessageQueue` | bounds are natural numbers, a queue has room for one message |
| `PipeAssumption` | `TwoWayPipe` | the languages are the two there are; not used in a proof |

No bound on what users and kernel do (`MaxSigints`, `MaxKills`, `MaxRuns`, `MaxSplits`,
`MaxSpurious`, ...) has to be small: the theorems hold for all of them. TLC has checked every
inductive invariant as an invariant of a small instance before it was proved.

`WarehouseProofs`:

* `TypeCorrect`: indices stay in the buffer, semaphores are never negative. The type
  invariant is inductive as it stands, given `NextIdxType` for the arithmetic.
* `OneAtATime`: mutual exclusion. It is not inductive: a thread that takes the permit must
  know that nobody is inside. `LockInv` adds that `sem_lock` is 0 or 1, and that nobody is
  inside while it is 1.
* `SlotConservation`: `sem_empty`, `sem_full` and the trucks and workers on their way add up
  to `BUFFER_LEN`. `SlotInv` adds `NotYetCreated`: threads `main` has still to create do
  not exist, otherwise creating one could wipe out a thread that holds a slot. Only the
  four operations on the counting semaphores move a slot; `NoSlotMoves` disposes of all
  other steps. Creation may fail.

and from these invariants:

* `RingContentsAlways`: nothing is stored over an item, nothing but an item is taken, no old
  `+`. None of this follows from the semaphores alone. `ItemsInOrder` says that the items are
  in the run of slots between `Oldest` and `NextFree`, where each of them is an index
  or, while a thread is between the access and the index, the next one. Conservation bounds
  the length of the run (`SizeBound`, `SizePositive`), so a truck with a permit finds a free slot behind it
  and a worker an item at its front. Arithmetic modulo `BUFFER_LEN` is done once, in
  `ModIsWrap`.
* `WarehouseImplementsFifo`: the run, read from `Oldest` on, is the queue of `BoundedFifo`. A
  store appends to it, a fetch takes its head, every other step leaves it alone.
* `OwnNumberAlways`: a thread that has still to read its number finds it in its element of
  `thread_no`.

`WarehouseCppProofs`:

* `CppRingAlways`: the same for the C++ warehouse, where the handler may end every loop at its
  next test, `run` may throw in the middle, and the destructor joins and destroys. The
  inductive invariant has five parts: types; `Joined`, threads before and behind the
  position of `main` do not run; `Locked`; `Counted`, semaphores and threads on their way add up;
  `InOrder`, the stock is the run between the two indices.

`OddEvenProofs`, all from one invariant `TurnInv`, which also implies the type invariant
(`CountingTypeCorrect`):

* `NoRaceAlways`, `OwnParityAlways`: the turn is in exactly one place (`OneTurn`), and
  whoever has it finds a number of its own parity (`ParityPart`).
* `FullCountAlways`: a program that ends has printed the numbers up to the limit, no more.
  This needs `CountPart`, how far the count is given whether the other thread has returned:
  the thread that meets the limit first leaves exactly one turn to the other one.

and for all three languages, from `VersionsInv`:

* `VersionsOwnParity`, `EndsAtLimitAlways`. The C part is `TurnInv`. In C++ a
  thread tests `counter` after it has given the turn away; `LateCount` says how far the count can
  be, given what that late test may have seen. In Rust a spurious return lets a
  thread run out of turn, and nothing holds of turns any more, but `fetch_add` still gives each
  number to one thread (`FetchedOnce`), and each thread returns after its first number from the
  limit on (`LastNumbers`).
* `VersionsPrintInTurn`: the refinement of `OddEvenTurns`. For Rust,
  `RustTurns` describes where the turn is up to the first spurious return.
* `VersionsOnlyLateTestRaces`: turns do not overlap, and the one access to the plain `counter` that
  meets a store of the other thread is the C++ loop condition. It follows from the two invariants above.

`WarehouseRustProofs`. `RustInv` is preserved by every step but a spurious return (`CalmNext`); `Base`, the
types, the lock, the places of the threads and the marks, by every step. `RustAlways` puts them together:
`Base` always, and `RustInv` as long as there was no spurious return (`Undisturbed`).

* `RustRingAlways`: the ring of the Rust warehouse, as in C until the first spurious return. The values of its semaphores go below 0
  while threads sleep, so that they do not count sloths. What is conserved (`SlothsConserved`) is the
  flow of a semaphore: its value, the threads that have taken 1 from it and not yet used it, the
  sleepers among them, and those that owe it a post. `Semaphores` says of each that a negative value
  counts its sleepers. `KindsOfStep` sorts the steps into those that move no claim, the two that
  exchange a claim of one kind for one of the other (a store, a fetch), and those inside a
  semaphore.
* `RustImplementsFifo`: the run of sloths from `Oldest` on, with what is in the hands of the
  thread at `remove`, is the queue of `BoundedFifo`.

`RustSemaphoreProofs`:

* `SemaphoreCorrect`: `SemInv` adds to the invariant of the run only that there is room for the posts
  under way. What makes it hold is the count of threads by place (`MoveCount`, `PostCounts`): a post
  moves one thread from asleep to woken exactly when the value was negative and somebody is
  still asleep.
* `SemaphoreImplementsCounting`: every step of `semaphore.rs` is a step of `CountingSemaphore`, a
  loan (`Borrow`) included, or changes nothing it can see.
* `AirportUsesSemaphore`: the airport calls the semaphore as its specification expects, so the
  theorems above hold in it; `RunwayShared` follows with an invariant that
  adds up permits, planes on the runway and planes on their way out of `wait` and into `post`.

`SharedMemoryProofs`:

* `SigintEndsTextAlways`: `AfterSigint` says where the writer can be, given how many characters it
  has handed over since SIGINT: with one, it has passed the test of `running` before the signal or
  holds END, with two it is past its loop. `LoopPart` adds that what was handed over last is what the test
  at the end of the loop looks at.
* `WaitsForReaderAlways`: as long as nobody has died, the name `one` is free when a writer starts
  (`OwnSemaphores`), so its semaphore is a new one which no earlier reader has open, and every permit
  in it comes from a reader that has greeted this writer (`Greeting`).
* `BlockEchoes`: `EchoInv`, from `BlockInv`. Only a writer that has made its second semaphore itself
  is considered (`OwnTwo`). Its first one may have been left behind by a writer that was killed
  between the two, but then nobody has used it (`Unused`), so that a reader who knows the first one
  reads from the second one of the same run (`Partners`). `Flow` is the balance: every character
  handed over is fetched or can be fetched, and what the writer has spent on "one" was granted by the
  reader or by a SIGINT (`InStep`); or a reader has come to END, and a later one finds nothing
  (`Finished`). `Written` says that the block holds what was handed over, with END only at its
  end, and `Echoed` that what was printed is the beginning of it.

`MessagePassingProofs`, the queue, from one invariant `QueueInv`:

* `LinesAlwaysArrive`: a line is printed, held by the reader, waiting in the queue or ready to be
  sent. `StreamInv` says of these four, taken one after the other, that they are in order
  (`Ordered`) and, while each program runs once and no input has failed, that nothing is missing
  between them (`Complete`). The lemmas `TypeStream`, `SendStream`, `ReceiveStream`, `ShowStream` and
  `LoseStream` prove that of the stream alone; every step of the two programs and of their handlers
  does one of these things to it, or nothing. `Control` and `Buffers` say what a handler may find
  in the `msg` of the loop that it interrupts.
* `NothingIsLeftBehind`: inductive given `QueueInv`, of which it needs that the reader's queue is the one
  with the key until it is destroyed, that a queue without the key is empty, and that a handler
  which is about to send has a 0 in `msg`.

`MessagePassingProofs`, the pipe, from `PipeInv`:

* `PipeConversation`: `Conversation` of `TwoWayPipe`. The bound on what is in a pipe needs that an
  interrupted `read` may add a message each time, but never a second word: with the processes and in
  the pipes there is at most one message that is not a 0, and every surplus 0 was paid for by a signal
  (`WordInv`). While there is no signal, there is one turn, with a process or in a pipe, and who has
  left has left a 0 behind (`TurnInv`), so that not both are cut off at the end; and what comes
  out of a pipe was typed at its other end (`HearInv`).

`EchoSocketProofs`:

* `EchoAlways`: while no message was split, a client that has not been hung up on waits for its own
  message, which is on its way up, in the server's buffer, or on its way down, and nowhere
  else (`InStep`). For the end of the C++ server `Heard` says that a `done` in a stream or in the
  buffer was sent by the client it belongs to. Both are conditional on that no message was split;
  the theorem does not bound splits.

## 5. Only model-checked

* Liveness: outside what the proof system handles.
* `NoRace` and `SectionsWhole` of `ForkJoin`: its scripts are sequences put together by folds, and
  the second property selects from the output with `SelectSeq`; what such a definition computes for
  every input needs an induction over data. For its 17 programs TLC checks all interleavings of the
  scripts as they are.
* `Monitor`, whose only property, `WaiterWoken`, is liveness.

## 6. Findings

One sentence does not hold, as a run shows: the C++ warehouse announces its shutdown on SIGINT,
but a thread that waits for a partner
which has already returned waits for ever (`warehouse_cpp_hang`, `cpp/include/buffer.hh:86`).

Other disagreements met while modelling. They are behaviour of the models, or lie in a part
they abstract, and the properties above are conditioned on them where they matter:

* The SIGINT handler of the message queue says that it is "closing IPC message passing
  processes" (`c/ipc/include/type.h:37`), and relies on the 0 that it sends. A reader that has not yet
  received anything has 0 in `msg.type`, so that the handler's `msgsnd` fails; if the signal came just before
  `msgrcv` blocks (`read.c:25`), nothing ends the reader. `MessageQueue` has these steps, and
  `ReaderComesToEnd` promises an end only for a signal that interrupts `msgrcv`.
* Task 3 b of the README wants a function that should "print from which threads it's executed"
  (`README.md:76`). In C++ the loop variable of the lambda hides the one of `main`
  (`cpp/cc_lab03_b.cc:31`), and each thread prints the lines of both. `ForkJoin` prints them so, and
  `EndsComplete` says nothing of the lines of this program.
* `pthread_create` returns an error number and is compared with -1
  (`c/c_lab05_b.c:66`): a failed creation goes unnoticed. `Warehouse` lets creations fail.
* The C++ picture of the buffer explains `+` and `*` the wrong way round, and a slot is
  cleared after the index has moved on, so a stored item may be drawn as an empty slot
  (`cpp/include/buffer.hh:42`, `:96`, `:153`). The picture is not modelled.
* In the C++ airport of task 6, `main` prints requests without the semaphore, and `std::cout` may
  mix them with the lines of a landing (`cpp/cc_lab06.cc:49`).
* Of the two ends of the pipe, one may be killed by SIGPIPE before it says that it is done
  (`c/ipc/message_passing/pipe/twowaypipe.c:74`).
* After one spurious return of `Condvar::wait` the Rust counter may leave a thread asleep whose
  peer has returned (`rust/r_lab05_a.rs:21`), and in the Rust warehouse a truck may store over an item,
  or a worker take `Item::Other` (`rust/semaphore.rs:20`).
* The C++ loop condition of task 5 a reads `counter` while the other thread may store to it
  (`cpp/include/buffer.hh:194`).
* At the end of its input a C writer sends its last line again and again
  (`c/ipc/message_passing/message_queue/write.c:25`), and the writer of the block stores EOF until
  it runs over its end (`c/ipc/include/shm_type.h:91`).
* A message of the C writer is longer than what the C++ reader takes from the same queue
  (`cpp/ipc/message_passing/message_queue/mqueue.hh:71`).
* A waiter that leaves the monitor makes it forget the others
  (`c/include/simple_monitor.h:33`).
* A killed writer leaves named semaphores behind, with the values they had, and the next
  writer may take them for a reader (`c/ipc/include/shm_type.h:44`).
* SIGINT between two blocking calls only sets a flag, and in the message queue writes
  into a `msg` that the interrupted loop then overwrites or sends; after the reader has destroyed its
  queue, the handler makes it anew
  (`c/ipc/include/shm_type.h:92`, `c/ipc/include/type.h:40`).
* The pointer into the shared block is never compared with `FILE_LEN`
  (`c/ipc/include/shm_type.h:96`).
* An interrupted `read` or `fgets` leaves the old text in `msg`, which is then shown or sent
  (`c/ipc/message_passing/pipe/twowaypipe.c:71`).
* `Condvar::wait` may return without a notification and is not called in a loop
  (`rust/semaphore.rs:21`).
* A message may arrive in pieces and the server puts what one `read` gave it over the front of its buffer,
  echoes all of that, and may find a `done` in it that nobody typed
  (`server.c:34`, `sockets.hh:185`); a failing `accept` ends the server, next to a comment that says
  otherwise (`server.c:25`).

## 7. Not modelled, and the plan

Left out for good:

* fork/exec of task 1: process creation and output only, nothing is shared and the parent waits;
* the exception texts of the C++ code;
* the own malloc (`c_lab07_b.c`): one thread, whose results depend on the pages `mmap` hands out,
  and which then frees with `free` what `malloc` has not returned, so that nothing can be said of
  what follows. The search of `find_heap` in the table of sizes is the only part with a
  meaning of its own.

Inside modelled parts: failures of `mmap` and of `sem_open` other than a missing name, lines
longer than a socket's buffer, a second start of the socket server, the macOS variant of the
semaphore, and the signal handling that `c_lab05_b.c` has commented out.

Order of the work so far: semaphore wrapper and C warehouse first, since everything else in
task 5 is a variant of it; then odd/even, the C++ variants, the IPC programs with their
signals, the Rust semaphore and what is built on it, and the sockets; then the other languages of
the counter, the pipe, the queue and the block, the programs of tasks 2, 3, 4 and 6, and the monitor.

All invariants of the passing runs but those of `ForkJoin` are proved, and all refinements. What could come next is a `ForkJoin` whose scripts are given by
their length and the step at each place, so that its lock and its joins can be reasoned about
without induction.
