---------------------------- MODULE SharedMemory ----------------------------
(***************************************************************************)
(* The shared block of task 7: c/ipc/include/shm_type.h with               *)
(* c/ipc/memory_based/shared_memory/write.c and read.c, and the C++        *)
(* cpp/ipc/memory_based/shared_memory/shm.hh.  Two processes, started by   *)
(* hand in any order and each in either language, share the file           *)
(* shared_object.txt.  What is typed at the writer appears at the reader,  *)
(* character by character, until the END character.  Two named semaphores  *)
(* order the accesses: "one" lets the writer store the next character,     *)
(* "two" lets the reader fetch it.                                         *)
(*                                                                         *)
(* The file and the named semaphores belong to the kernel: they survive a  *)
(* process that is killed, fails or touches memory outside the block.      *)
(***************************************************************************)
EXTENDS Integers, Sequences, SequencesExt, FiniteSets

CONSTANTS
    Languages,     \* a subset of {"c", "cpp"}
    Sizes,         \* bytes that can be reached through the mapping: its pages
                   \* (FILE_LEN or buff, rounded up), or 0 if the file is empty
    Letters,       \* what may be typed, besides END
    END, EOF,      \* '0', and what fgetc returns when there is nothing to read
    Blank,         \* what the bytes of shared_object.txt are at first
    MaxSigints,    \* bound on SIGINTs sent to a writer in C
    MaxKills,      \* bound on processes killed
    MaxRuns        \* bound on how often each of the programs is started

ASSUME BlockAssumption == Sizes \subseteq Nat /\ Languages \subseteq {"c", "cpp"}
ASSUME BoundAssumption == MaxSigints \in Nat /\ MaxKills \in Nat /\ MaxRuns \in Nat
ASSUME CharAssumption  == {END, EOF, Blank} \cap Letters = {} /\ END \notin {EOF, Blank}

Chars   == Letters \cup {END, EOF, Blank}
Names   == {"one", "two"}       \* "/one" and "one" name the same semaphore
Objects == 1 .. 2 * MaxRuns     \* semaphore objects that can ever be created
NoSem   == 0

VARIABLES
    size, file,      \* the shared block
    named,           \* /dev/shm: the semaphore object of each name, or NoSem
    val,             \* the value of each semaphore object
    wpc, rpc,        \* where the writer and the reader are
    wlang, rlang,    \* the languages they are written in
    wsem, rsem,      \* their handles: [Names -> object]
    wc, rc,          \* their pointers into the block
    running,         \* the flag of a writer in C
    eof,             \* the writer's input has come to its end
    greeted,         \* auxiliary: has a reader come since the writer started?
    atSigint,        \* auxiliary: length of text when running was cleared
    text,            \* auxiliary: what this run of the writer has handed over
    shown,           \* what this run of the reader has printed
    died,            \* auxiliary: which programs have ended in the middle
    sigints, kills, wruns, rruns

kernel == <<size, named>>
writer == <<wlang, wsem, wc, running, eof, text, atSigint>>
reader == <<rpc, rlang, rsem, rc, shown>>
bounds == <<sigints, kills, wruns, rruns>>
vars   == <<kernel, file, val, wpc, writer, reader, greeted, died, bounds>>

Gone == {"off", "ended", "failed"}     \* no process

NoHandles == [x \in Names |-> NoSem]

Init ==
    /\ size \in Sizes
    /\ file = [i \in 0 .. size - 1 |-> Blank]
    /\ named = NoHandles
    /\ val = [o \in Objects |-> 0]
    /\ wpc = "off" /\ rpc = "off"
    /\ wlang = "none" /\ rlang = "none"
    /\ wsem = NoHandles /\ rsem = NoHandles
    /\ wc = 0 /\ rc = 0
    /\ running = TRUE /\ eof = FALSE
    /\ greeted = FALSE /\ died = {}
    /\ text = << >> /\ atSigint = 0 /\ shown = << >>
    /\ sigints = 0 /\ kills = 0 /\ wruns = 0 /\ rruns = 0

-----------------------------------------------------------------------------
(* The writer *)

StartWriter ==
    /\ wpc \in Gone
    /\ wruns < MaxRuns
    /\ wpc' = "open_one"
    /\ wlang' \in Languages
    /\ wruns' = wruns + 1
    /\ wsem' = NoHandles /\ wc' = 0 /\ running' = TRUE /\ eof' = FALSE
    /\ text' = << >> /\ atSigint' = 0 /\ greeted' = FALSE
    /\ UNCHANGED <<kernel, file, val, reader, died, sigints, kills, rruns>>

WriterGoto(from, to) ==
    /\ wpc = from
    /\ wpc' = to
    /\ UNCHANGED <<size, wlang, running, eof, atSigint, reader, greeted, bounds>>

\* The object that sem_open(O_CREAT) makes in this run for a name.
NewObject(name) == 2 * wruns - (IF name = "one" THEN 1 ELSE 0)

\* sem_open(O_CREAT) with value 0 opens the semaphore that has the name,
\* whatever its value, and makes one only if there is none.
init_semaphores(name, from, to) ==
    /\ WriterGoto(from, to)
    /\ \/ /\ named[name] # NoSem
          /\ wsem' = [wsem EXCEPT ![name] = named[name]]
          /\ UNCHANGED <<named, val>>
       \/ /\ named[name] = NoSem
          /\ named' = [named EXCEPT ![name] = NewObject(name)]
          /\ val' = [val EXCEPT ![NewObject(name)] = 0]
          /\ wsem' = [wsem EXCEPT ![name] = NewObject(name)]
    /\ UNCHANGED <<file, wc, text, died>>

\* create_mapping.  A writer that cannot open the file exits, or throws in its
\* constructor, and leaves both names behind.
create_mapping ==
    /\ \/ WriterGoto("map", IF wlang = "c" THEN "greet_wait" ELSE "wait") /\ UNCHANGED died
       \/ WriterGoto("map", "failed") /\ died' = died \cup {"writer"}
    /\ UNCHANGED <<named, file, val, wsem, wc, text>>

\* Slip: the writer does not wait for the reader.
WriterWaitSlip(from, to) ==
    /\ WriterGoto(from, to)
    /\ UNCHANGED <<named, file, val, wsem, wc, text, died>>

\* sem_wait(one) of main() and of write_shared.
WriterWait(from, to) ==
    /\ WriterGoto(from, to)
    /\ val[wsem["one"]] > 0
    /\ val' = [val EXCEPT ![wsem["one"]] = @ - 1]
    /\ UNCHANGED <<named, file, wsem, wc, text, died>>

\* main() in C has met the reader and posts "one" again.
WriterRepost ==
    /\ WriterGoto("greet_post", "wait")
    /\ val' = [val EXCEPT ![wsem["one"]] = @ + 1]
    /\ UNCHANGED <<named, file, wsem, wc, text, died>>

\* *c = fgetc(stdin).  Nothing stops the pointer at the end of the block: the
\* store then hits memory that is not there, and the process dies.
GetChar(x) ==
    /\ IF wc < size
       THEN /\ WriterGoto("get", IF wlang = "c" THEN "check" ELSE "post")
            /\ file' = [file EXCEPT ![wc] = x]
            /\ UNCHANGED died
       ELSE /\ WriterGoto("get", "off")
            /\ died' = died \cup {"writer"}
            /\ UNCHANGED file
    /\ UNCHANGED <<named, val, wsem, wc, text>>

\* At the end of its input fgetc returns EOF again and again.
GetEof == eof /\ GetChar(EOF)

\* The user types a character.
Type == ~eof /\ \E x \in Letters \cup {END} : GetChar(x)

\* The user ends the input.
EndInput ==
    /\ wpc = "get" /\ ~eof
    /\ eof' = TRUE
    /\ UNCHANGED <<kernel, file, val, wpc, wlang, wsem, wc, running, text, atSigint,
                   reader, greeted, died, bounds>>

\* Slip: the flag is not looked at.
CheckRunningSlip ==
    /\ WriterGoto("check", "post")
    /\ UNCHANGED <<named, file, val, wsem, wc, text, died>>

\* if (!running) *c = '0', in C only.
CheckRunning ==
    /\ WriterGoto("check", "post")
    /\ file' = IF running THEN file ELSE [file EXCEPT ![wc] = END]
    /\ UNCHANGED <<named, val, wsem, wc, text, died>>

WriterPost ==
    /\ WriterGoto("post", "test")
    /\ val' = [val EXCEPT ![wsem["two"]] = @ + 1]
    /\ text' = Append(text, file[wc])
    /\ UNCHANGED <<named, file, wsem, wc, died>>

\* while (*c++ != END_CHAR)
WriterTest ==
    /\ WriterGoto("test", IF file[wc] = END THEN "unlink_one" ELSE "wait")
    /\ wc' = wc + 1
    /\ UNCHANGED <<named, file, val, wsem, text, died>>

\* Slip: only the handles are closed.
close_semaphoresSlip(name, from, to) ==
    /\ WriterGoto(from, to)
    /\ UNCHANGED <<named, file, val, wsem, wc, text, died>>

\* close_semaphores(..., true), or ~Write(): sem_unlink takes the names away,
\* one by one.
close_semaphores(name, from, to) ==
    /\ WriterGoto(from, to)
    /\ named' = [named EXCEPT ![name] = NoSem]
    /\ UNCHANGED <<file, val, wsem, wc, text, died>>

\* The steps of the writer that do not wait for the user.
WriterStep ==
    \/ init_semaphores("one", "open_one", "open_two")
    \/ init_semaphores("two", "open_two", "map")
    \/ create_mapping
    \/ WriterWait("greet_wait", "greet_post")
    \/ WriterRepost
    \/ WriterWait("wait", "get")
    \/ GetEof
    \/ CheckRunning
    \/ WriterPost
    \/ WriterTest
    \/ close_semaphores("one", "unlink_one", "unlink_two")
    \/ close_semaphores("two", "unlink_two", "ended")

\* SIGINT runs close_write.  It is installed without SA_RESTART: a sem_wait
\* that blocks returns without a permit, which the code does not notice, and
\* an fgetc that blocks returns EOF.
close_write ==
    /\ wlang = "c"
    /\ wpc \notin Gone
    /\ sigints < MaxSigints
    /\ sigints' = sigints + 1
    /\ running' = FALSE
    /\ atSigint' = IF running THEN Len(text) ELSE atSigint
    /\ \/ /\ wpc \in {"greet_wait", "wait"} /\ val[wsem["one"]] = 0
          /\ wpc' = IF wpc = "wait" THEN "get" ELSE "greet_post"
          /\ UNCHANGED <<file, died>>
       \/ /\ wpc = "get" /\ wc < size
          /\ wpc' = "check"
          /\ file' = [file EXCEPT ![wc] = EOF]
          /\ UNCHANGED died
       \/ /\ wpc = "get" /\ wc >= size
          /\ wpc' = "off"
          /\ died' = died \cup {"writer"}
          /\ UNCHANGED file
       \/ UNCHANGED <<wpc, file, died>>
    /\ UNCHANGED <<kernel, val, wlang, wsem, wc, eof, text, reader, greeted,
                   kills, wruns, rruns>>

-----------------------------------------------------------------------------
(* The reader *)

StartReader ==
    /\ rpc \in Gone
    /\ rruns < MaxRuns
    /\ rpc' = "open_one"
    /\ rlang' \in Languages
    /\ rruns' = rruns + 1
    /\ rsem' = NoHandles /\ rc' = 0 /\ shown' = << >>
    /\ UNCHANGED <<kernel, file, val, wpc, writer, greeted, died, sigints, kills, wruns>>

ReaderGoto(from, to) ==
    /\ rpc = from
    /\ rpc' = to
    /\ UNCHANGED <<kernel, file, wpc, writer, rlang, bounds>>

\* open_semaphores.  Without the name the reader gives up, in C++ after it has
\* tried both.
open_semaphores(name, from, to) ==
    LET missing == named[name] = NoSem \/ (name = "two" /\ rsem["one"] = NoSem)
        givesUp == missing /\ (rlang = "c" \/ name = "two")
    IN /\ ReaderGoto(from, IF givesUp THEN "failed" ELSE to)
       /\ rsem' = [rsem EXCEPT ![name] = named[name]]
       /\ UNCHANGED <<val, rc, shown, greeted, died>>

\* open_mapping, which fails if there is no file.
open_mapping ==
    /\ ReaderGoto("map", "greet") \/ ReaderGoto("map", "failed")
    /\ UNCHANGED <<val, rsem, rc, shown, greeted, died>>

\* The first sem_post(one) greets the writer.
Greet ==
    /\ ReaderGoto("greet", "wait")
    /\ val' = [val EXCEPT ![rsem["one"]] = @ + 1]
    /\ greeted' = (greeted \/ rsem["one"] = wsem["one"])
    /\ UNCHANGED <<rsem, rc, shown, died>>

ReaderWait ==
    /\ ReaderGoto("wait", "put")
    /\ val[rsem["two"]] > 0
    /\ val' = [val EXCEPT ![rsem["two"]] = @ - 1]
    /\ UNCHANGED <<rsem, rc, shown, greeted, died>>

\* putchar(*c), or a load from memory that is not there.
PutChar ==
    /\ IF rc < size
       THEN /\ ReaderGoto("put", "post")
            /\ shown' = Append(shown, file[rc])
            /\ UNCHANGED died
       ELSE /\ ReaderGoto("put", "off")
            /\ died' = died \cup {"reader"}
            /\ UNCHANGED shown
    /\ UNCHANGED <<val, rsem, rc, greeted>>

\* Slip: the writer is not told that the character was printed.
ReaderPostSlip ==
    /\ ReaderGoto("post", "test")
    /\ UNCHANGED <<val, rsem, rc, shown, greeted, died>>

ReaderPost ==
    /\ ReaderGoto("post", "test")
    /\ val' = [val EXCEPT ![rsem["one"]] = @ + 1]
    /\ UNCHANGED <<rsem, rc, shown, greeted, died>>

\* Slip: the pointer is advanced before the character is looked at.
ReaderTestSlip ==
    /\ ReaderGoto("test", IF rc + 1 < size /\ file[rc + 1] = END THEN "ended" ELSE "wait")
    /\ rc' = rc + 1
    /\ UNCHANGED <<val, rsem, shown, greeted, died>>

\* while (*c++ != END_CHAR), a second load of the character.
ReaderTest ==
    /\ ReaderGoto("test", IF file[rc] = END THEN "ended" ELSE "wait")
    /\ rc' = rc + 1
    /\ UNCHANGED <<val, rsem, shown, greeted, died>>

ReaderStep ==
    \/ open_semaphores("one", "open_one", "open_two")
    \/ open_semaphores("two", "open_two", "map")
    \/ open_mapping
    \/ Greet \/ ReaderWait \/ PutChar \/ ReaderPost \/ ReaderTest

-----------------------------------------------------------------------------

\* A process is killed, a writer in C++ also by Ctrl-C; the kernel keeps the
\* file and the semaphores.
KillWriter ==
    /\ kills < MaxKills
    /\ wpc \notin Gone
    /\ wpc' = "off"
    /\ kills' = kills + 1
    /\ died' = died \cup {"writer"}
    /\ UNCHANGED <<kernel, file, val, writer, reader, greeted, sigints, wruns, rruns>>

\* The readers have no handler: Ctrl-C at their terminal kills them, too.
KillReader ==
    /\ kills < MaxKills
    /\ rpc \notin Gone
    /\ rpc' = "off"
    /\ kills' = kills + 1
    /\ died' = died \cup {"reader"}
    /\ UNCHANGED <<kernel, file, val, wpc, writer, rlang, rsem, rc, shown, greeted,
                   sigints, wruns, rruns>>

Next ==
    \/ StartWriter \/ WriterStep \/ Type \/ EndInput \/ close_write
    \/ StartReader \/ ReaderStep
    \/ KillWriter \/ KillReader

Spec == Init /\ [][Next]_vars

\* Both processes are scheduled.  Nobody has to start them, and nobody has to
\* type anything.
FairSpec == Spec /\ WF_vars(WriterStep) /\ WF_vars(ReaderStep)

-----------------------------------------------------------------------------
(* Properties *)

\* The semaphores are never negative and the two pointers stay in or just
\* behind the block.
TypeOK ==
    /\ file \in [0 .. size - 1 -> Chars]
    /\ named \in [Names -> Objects \cup {NoSem}]
    /\ val \in [Objects -> Nat]
    /\ wsem \in [Names -> Objects \cup {NoSem}]
    /\ rsem \in [Names -> Objects \cup {NoSem}]
    /\ wc \in 0..size /\ rc \in 0..size
    /\ text \in Seq(Chars) /\ shown \in Seq(Chars)
    /\ died \subseteq {"writer", "reader"}

\* The reader fetches what this run of the writer hands over, through the
\* semaphore that this run has made, and no reader was lost on the way.
Paired ==
    /\ "reader" \notin died
    /\ wsem["two"] = NewObject("two")
    /\ rsem["two"] = wsem["two"] /\ rsem["two"] # NoSem

\* What the reader prints is what was handed over at the writer, in order,
\* nothing twice and nothing that is still being typed; and a reader that
\* ends has printed all of it, the END included.
Echo == Paired =>
    /\ IsPrefix(shown, text)
    /\ rpc = "ended" => shown = text /\ shown # << >> /\ Last(shown) = END

\* The reader has printed something, or can fetch something.
Served == shown # << >> \/ val[rsem["two"]] > 0

\* The writer stores a character only after the reader is done with all but
\* the last one; each SIGINT that interrupts a sem_wait lets it be one
\* further ahead.
NotFarAhead == Paired /\ Served => Len(text) <= Len(shown) + 1 + sigints

\* The block passes each character on, in step: what is printed is what was
\* handed over, and neither side runs away from the other, whichever languages
\* they are written in and whenever the writer dies.
EchoInv == TypeOK /\ Echo /\ NotFarAhead

\* Once the writer has handed over END, the reader it was handed to ends.
EndReachesReader ==
    (Paired /\ Served /\ text # << >> /\ Last(text) = END
        /\ rpc \in {"wait", "put", "post", "test"})
    ~> (rpc = "ended" \/ ~Paired)

\* At the end of its input the writer does not go on for ever while its reader
\* keeps up: either SIGINT makes it hand over END, or it dies at the end of the
\* block.
EofStopsWriter ==
    eof ~> (wpc \in Gone \/ ~Paired \/ rpc \in Gone \/ rsem["one"] # wsem["one"])

\* After SIGINT at most one more character is handed over before END: the
\* one that had passed the test of running when the signal came.
SigintEndsText ==
    ~running => /\ Len(text) <= atSigint + 2
                /\ Len(text) = atSigint + 2 => Last(text) = END

\* A writer that has stopped "Waiting read process!!!".
PastWaiting == wpc = "get" \/ (wlang = "c" /\ wpc \in {"greet_post", "wait"})

\* The writer starts to take characters only when there is a reader, or one
\* has come since the writer was started, or SIGINT has cut its waiting short.
\* That holds for every later pair, too, but not after a process has died,
\* which leaves a semaphore behind with its permits.
WaitsForReader ==
    died = {} /\ running /\ PastWaiting =>
        greeted \/ (rpc \notin Gone /\ rsem["one"] = wsem["one"])

=============================================================================
