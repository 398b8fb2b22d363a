--------------------------- MODULE OddEvenVersions ---------------------------
(***************************************************************************)
(* Task 5 a) in the three languages: c/c_lab05_a.c (module OddEven), the   *)
(* C++ Custom::Binary::Semaphore of cpp/include/buffer.hh and              *)
(* rust/r_lab05_a.rs.                                                      *)
(*                                                                         *)
(* C++ tests counter after it has posted the other thread's semaphore, so  *)
(* the test races with the other thread's increment.  Rust increments      *)
(* atomically and tests its own number, but its semaphore takes a spurious *)
(* return of Condvar::wait for a permit, however often that happens.       *)
(***************************************************************************)
EXTENDS OddEven

CONSTANT Languages   \* a subset of {"c", "cpp", "rust"}

ASSUME LanguagesAssumption == Languages \subseteq {"c", "cpp", "rust"}

VARIABLES language,   \* the version that runs, chosen in the initial state
          strayed     \* how many lines were out at the first spurious return

NoStray == -1

versionVars == <<vars, language, strayed>>

VersionsInit ==
    /\ Init
    /\ language \in Languages
    /\ strayed = NoStray

-----------------------------------------------------------------------------
(* C++: print_number *)

PostEarly(t) ==
    /\ Goto(t, "test", "late_test")
    /\ HandOver(t)
    /\ UNCHANGED <<counter, n, end, out, main_pc>>

\* while (counter < LEN), read after the turn was given away.
TestLate(t) ==
    /\ Goto(t, "late_test", IF counter < MAX_N THEN "wait" ELSE "done")
    /\ UNCHANGED <<counter, sems, n, end, out, main_pc>>

print_number(t) ==
    WaitTurn(t) \/ LoadCounter(t) \/ PrintNumber(t) \/ PostEarly(t) \/ TestLate(t)

-----------------------------------------------------------------------------
(* Rust: the closures of main(), on the semaphore of semaphore.rs.  What    *)
(* wait() and post() do under their mutex is one step each.                 *)

Peer(t) == IF t = "odd" THEN "even" ELSE "odd"

\* The value is decremented; if it is negative, the thread sleeps.
RustWait(t) ==
    /\ \/ t = "odd" /\ sem_odd' = sem_odd - 1 /\ UNCHANGED sem_even
       \/ t = "even" /\ sem_even' = sem_even - 1 /\ UNCHANGED sem_odd
    /\ Goto(t, "wait", IF (IF t = "odd" THEN sem_odd ELSE sem_even) > 0
                       THEN "fetch" ELSE "asleep")
    /\ UNCHANGED <<counter, n, end, out, main_pc, strayed>>

\* cvar.wait() returns although nobody notified; the value is not tested again.
\* It may do so any number of times.
SpuriousReturn(t) ==
    /\ Goto(t, "asleep", "fetch")
    /\ strayed' = IF strayed = NoStray THEN Len(out) ELSE strayed
    /\ UNCHANGED <<counter, sems, n, end, out, main_pc>>

FetchAdd(t) ==
    /\ Goto(t, "fetch", "print")
    /\ n' = [n EXCEPT ![t] = counter]
    /\ counter' = counter + 1
    /\ UNCHANGED <<sems, end, out, main_pc, strayed>>

PrintFetched(t) ==
    /\ Goto(t, "print", "release")
    /\ out' = Append(out, <<t, n[t]>>)
    /\ UNCHANGED <<counter, sems, n, end, main_pc, strayed>>

\* Slip: the number is compared with N_MAX.
LastNumberSlip(k) == k > MAX_N

LastNumber(k) == k >= MAX_N - 1

\* post() wakes the peer if it sleeps; then the thread's own number decides.
RustPost(t) ==
    LET peer == Peer(t)
        value == (IF t = "odd" THEN sem_even ELSE sem_odd) + 1
        wakes == value <= 0 /\ pc[peer] = "asleep"
    IN /\ ~ProcessEnded
       /\ pc[t] = "release"
       /\ pc' = [pc EXCEPT ![t] = IF LastNumber(n[t]) THEN "done" ELSE "wait",
                           ![peer] = IF wakes THEN "fetch" ELSE @]
       /\ HandOver(t)
       /\ UNCHANGED <<counter, n, end, out, main_pc, strayed>>

Closure(t) == RustWait(t) \/ FetchAdd(t) \/ PrintFetched(t) \/ RustPost(t)

-----------------------------------------------------------------------------

\* run() and ~Semaphore(), and main() of the Rust version, start, join and end
\* the threads as the C version does; a std::thread or a spawn that fails ends
\* the program too.
VersionsMain == Main /\ UNCHANGED strayed

Step(t) ==
    \/ language = "c" /\ Thread(t) /\ UNCHANGED strayed
    \/ language = "cpp" /\ print_number(t) /\ UNCHANGED strayed
    \/ language = "rust" /\ Closure(t)

VersionsNext ==
    /\ UNCHANGED language
    /\ \/ VersionsMain
       \/ \E t \in Threads : Step(t) \/ (language = "rust" /\ SpuriousReturn(t))
       \/ Terminated /\ UNCHANGED strayed

\* main() and both threads are scheduled; a spurious return is not owed.
VersionsSpec ==
    /\ VersionsInit /\ [][VersionsNext]_versionVars
    /\ WF_versionVars(VersionsMain /\ UNCHANGED language)
    /\ \A t \in Threads : WF_versionVars(Step(t) /\ UNCHANGED language)

-----------------------------------------------------------------------------
(* Properties *)

\* From the return of its wait to its post a thread has its turn.
TakesTurn(t) == pc[t] \in {"load", "store", "test", "post", "fetch", "print", "release"}

\* What a thread is about to do to the plain counter of C and C++; that of Rust
\* is atomic.
Loads(t)  == pc[t] \in {"load", "late_test"} \/ (language = "c" /\ pc[t] = "test")
Stores(t) == pc[t] = "store"

\* The threads of each version have their turns one at a time, in Rust until a
\* spurious return; and the one access to counter that meets the other thread's
\* store is the C++ loop condition, which is evaluated after the post.
OnlyLateTestRaces ==
    \A t \in Threads :
        /\ TakesTurn(t) /\ TakesTurn(Peer(t)) => strayed # NoStray
        /\ Stores(t) /\ (Loads(Peer(t)) \/ Stores(Peer(t))) => pc[Peer(t)] = "late_test"

AtLeastTwo(k) == IF k < 2 THEN 2 ELSE k

\* When main() has joined the threads, both have returned and every number up
\* to the last one was printed exactly once: Limit numbers, also after spurious
\* returns, or in C++ one fewer if a late test has seen the other thread's last
\* increment.
EndsAtLimit ==
    main_pc \in {"close", "exited"} =>
        /\ \A t \in Threads : pc[t] = "done"
        /\ {out[i][2] : i \in 1 .. Len(out)} = 1 .. Len(out)
        /\ \/ Len(out) = Limit
           \/ language = "cpp" /\ Len(out) = AtLeastTwo(MAX_N - 1)

\* Each version ends: the late test of C++ never leaves a thread waiting for one
\* that is gone.  Only a spurious return can: the post that pays it back wakes
\* nobody, and the thread it was meant for sleeps on when its peer has returned.
EndsOrStrays == <>(ProcessEnded \/ strayed # NoStray)

\* What the threads print, up to the first spurious return if there is one.
InTurn == INSTANCE OddEvenTurns WITH
              out <- IF strayed = NoStray THEN out ELSE SubSeq(out, 1, strayed),
              AtMost <- Limit

\* All versions print what task 5 a) asks for: the late test of C++ does not
\* break the turns, and in Rust nothing but a spurious return does.
VersionsTurns == InTurn!TurnsSpec

=============================================================================
