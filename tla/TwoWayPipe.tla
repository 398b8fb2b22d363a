----------------------------- MODULE TwoWayPipe -----------------------------
(***************************************************************************)
(* c/ipc/message_passing/pipe/twowaypipe.c and its C++ version             *)
(* cpp/ipc/message_passing/pipe/twowaypipe.cc: two processes, connected by *)
(* two pipes, take turns to read a message from the terminal and to send   *)
(* it to each other, until one of them gets a message that begins with 0.  *)
(*                                                                         *)
(* parent_process and child_process run the same cycle (ask, write, read,  *)
(* test) but the parent enters it at ask and the child at read.  The       *)
(* function parent_process is run by the process that fork() creates.      *)
(*                                                                         *)
(* A message is what the properties need to know of its 256 bytes: who     *)
(* typed it, or that it begins with 0, or is empty.  Writes and reads of   *)
(* 256 bytes (20 in C++) are atomic on a pipe.                             *)
(*                                                                         *)
(* The C++ version has no SIGINT handler, and its stream delivers nothing  *)
(* any more after the end of the input or a line that is too long.         *)
(***************************************************************************)
EXTENDS Naturals, Sequences

CONSTANTS Languages,      \* a subset of {"c", "cpp"}
          MaxSigints,     \* bound on SIGINTs to each of the processes
          ForkMayFail     \* may fork() return -1?

ASSUME PipeAssumption ==
    Languages \subseteq {"c", "cpp"} /\ MaxSigints \in Nat /\ ForkMayFail \in BOOLEAN

Procs    == {"parent", "child"}
Peer(p)  == IF p = "parent" THEN "child" ELSE "parent"
Texts    == Procs                  \* a text typed at the parent, at the child
Messages == Texts \cup {"0", "empty", "junk"}

VARIABLES language,  \* of the program, chosen in the initial state
          pc,        \* where each process is
          msg,       \* its buffer
          running,   \* its flag, in C
          dry,       \* its input stream delivers nothing any more
          pipe,      \* pipe[p]: what p has written and its peer not yet read
          shown,     \* the message it has last displayed as received
          sigints    \* SIGINTs it has got

vars == <<language, pc, msg, running, dry, pipe, shown, sigints>>

Live(p) == pc[p] \notin {"absent", "done", "killed"}

\* Slip: a process closes the end it has to read from.
HasReaderSlip(p) == pc[p] = "start"

\* After the fork both processes have both ends of both pipes, until each of
\* them has closed the ends it does not want.
HasReader(p) == Live(Peer(p)) \/ pc[p] = "start"
HasWriter(p) == Live(p) \/ pc[Peer(p)] = "start"

\* The state after create_pipe and fork().  When fork() fails, main() goes on
\* with child_process.  The buffers are not initialized in C.
Init ==
    /\ \/ pc = [p \in Procs |-> "start"]
       \/ ForkMayFail /\ pc = [parent |-> "absent", child |-> "start"]
    /\ language \in Languages
    /\ msg \in [Procs -> IF language = "c" THEN {"junk", "0"} ELSE {"empty"}]
    /\ dry = [p \in Procs |-> FALSE]
    /\ running = [p \in Procs |-> TRUE]
    /\ pipe = [p \in Procs |-> << >>]
    /\ shown = [p \in Procs |-> "nothing"]
    /\ sigints = [p \in Procs |-> 0]

Goto(p, from, to) ==
    /\ pc[p] = from
    /\ pc' = [pc EXCEPT ![p] = to]
    /\ UNCHANGED <<language, running, sigints>>

\* Where the cycle begins: the C++ version has no flag to look at.
Ask == IF language = "c" THEN "check" ELSE "ask"

\* The unwanted ends are closed and the loop is entered.
EnterLoop(p) ==
    /\ Goto(p, "start", IF p = "parent" THEN Ask ELSE "read")
    /\ UNCHANGED <<msg, dry, pipe, shown>>

\* Slip: the flag is not looked at.
CheckRunningSlip(p) ==
    /\ Goto(p, "check", "ask")
    /\ UNCHANGED <<msg, dry, pipe, shown>>

\* if (running) ... else strncpy(msg, "0", 1)
CheckRunning(p) ==
    /\ Goto(p, "check", IF running[p] THEN "ask" ELSE "write")
    /\ msg' = IF running[p] THEN msg ELSE [msg EXCEPT ![p] = "0"]
    /\ UNCHANGED <<dry, pipe, shown>>

\* What a failed fgets leaves in msg, and what a failed getline puts there.
NoInput(p) == IF language = "c" THEN msg[p] ELSE "empty"

\* fgets and strtok, or getline: the user types a line, in C++ perhaps one that
\* does not fit, which is cut and ends the stream; or there is nothing to read.
Type(p) ==
    /\ Goto(p, "ask", "write")
    /\ \/ /\ ~dry[p]
          /\ \E x \in {p, "0"} : msg' = [msg EXCEPT ![p] = x]
          /\ \/ UNCHANGED dry
             \/ language = "cpp" /\ dry' = [dry EXCEPT ![p] = TRUE]
       \/ /\ msg' = [msg EXCEPT ![p] = NoInput(p)]
          /\ dry' = [dry EXCEPT ![p] = TRUE]
    /\ UNCHANGED <<pipe, shown>>

\* write() to a pipe that nobody can read any more is answered by SIGPIPE,
\* for which there is no handler.
Write(p, from, to) ==
    /\ pc[p] = from
    /\ \/ /\ HasReader(p)
          /\ pc' = [pc EXCEPT ![p] = to]
          /\ pipe' = [pipe EXCEPT ![p] = Append(@, msg[p])]
       \/ /\ ~HasReader(p)
          /\ pc' = [pc EXCEPT ![p] = "killed"]
          /\ UNCHANGED pipe
    /\ UNCHANGED <<language, msg, running, dry, shown, sigints>>

\* Whose messages p reads.
Source(p) == Peer(p)

\* read(): a message, or the end of the file, which leaves msg as it was.
Read(p) ==
    /\ Goto(p, "read", "test")
    /\ \/ /\ pipe[Source(p)] # << >>
          /\ msg' = [msg EXCEPT ![p] = Head(pipe[Source(p)])]
          /\ pipe' = [pipe EXCEPT ![Source(p)] = Tail(@)]
       \/ /\ pipe[Source(p)] = << >> /\ ~HasWriter(Source(p))
          /\ UNCHANGED <<msg, pipe>>
    /\ UNCHANGED <<dry, shown>>

\* Slip: the loop is not left.
LastWordSlip == Ask

\* Where strncmp(msg, "0", 1) == 0 leads to: the 0 is sent back.
LastWord == "answer"

\* The message is displayed (by the child unless it begins with 0) and tested.
TestZero(p) ==
    /\ Goto(p, "test", IF msg[p] = "0" THEN LastWord ELSE Ask)
    /\ shown' = IF p = "child" /\ msg[p] = "0" THEN shown ELSE [shown EXCEPT ![p] = msg[p]]
    /\ UNCHANGED <<msg, dry, pipe>>

\* The pipes are closed and the function returns.
ClosePipes(p) ==
    /\ Goto(p, "close", "done")
    /\ UNCHANGED <<msg, dry, pipe, shown>>

\* The steps that do not wait for the user.
Process(p) ==
    \/ EnterLoop(p)
    \/ CheckRunning(p)
    \/ Write(p, "write", "read")
    \/ Read(p)
    \/ TestZero(p)
    \/ Write(p, "answer", "close")
    \/ ClosePipes(p)

\* In C, SIGINT runs close_write.  It is installed without SA_RESTART: fgets and
\* read() return when they are blocked, which the code does not notice.
close_write(p) ==
    /\ language = "c"
    /\ Live(p)
    /\ sigints[p] < MaxSigints
    /\ sigints' = [sigints EXCEPT ![p] = @ + 1]
    /\ running' = [running EXCEPT ![p] = FALSE]
    /\ \/ pc[p] = "ask" /\ pc' = [pc EXCEPT ![p] = "write"]
       \/ /\ pc[p] = "read" /\ pipe[Source(p)] = << >>
          /\ pc' = [pc EXCEPT ![p] = "test"]
       \/ UNCHANGED pc
    /\ UNCHANGED <<language, msg, dry, pipe, shown>>

\* In C++, SIGINT kills the process.
KillBySigint(p) ==
    /\ language = "cpp"
    /\ Live(p)
    /\ sigints[p] < MaxSigints
    /\ sigints' = [sigints EXCEPT ![p] = @ + 1]
    /\ pc' = [pc EXCEPT ![p] = "killed"]
    /\ UNCHANGED <<language, msg, running, dry, pipe, shown>>

Ended == \A p \in Procs : ~Live(p)

Terminated == Ended /\ UNCHANGED vars

Next ==
    \/ \E p \in Procs : Process(p) \/ Type(p) \/ close_write(p) \/ KillBySigint(p)
    \/ Terminated

Spec == Init /\ [][Next]_vars

\* The processes are scheduled.
FairSpec == Spec /\ \A p \in Procs : WF_vars(Process(p))

\* ... and the user types something when asked, or ends the input.
TypingSpec == FairSpec /\ \A p \in Procs : WF_vars(Type(p))

-----------------------------------------------------------------------------
(* Properties *)

\* The buffers and pipes hold messages, and a pipe never more than two of them,
\* plus one for each read() of its writer that a signal has interrupted.
TypeOK ==
    /\ msg \in [Procs -> Messages]
    /\ running \in [Procs -> BOOLEAN] /\ dry \in [Procs -> BOOLEAN]
    /\ pipe \in [Procs -> Seq(Messages)]
    /\ \A p \in Procs : Len(pipe[p]) <= 2 + sigints[p]    \* so no write() blocks
    /\ shown \in [Procs -> Messages \cup {"nothing"}]

\* There are two processes, and no signal has come yet.
Quiet == pc["parent"] # "absent" /\ \A p \in Procs : sigints[p] = 0

\* Without signals, the processes take turns: they never ask for a message
\* at the same time, and a text is never on its way while somebody asks.
TakeTurns ==
    \A p \in Procs : Quiet /\ pc[p] = "ask" =>
        /\ pc[Peer(p)] # "ask"
        /\ pipe[Peer(p)] = << >>

\* What a process displays as received was sent by its peer, until a signal
\* interrupts a call, or in C the input ends, and the old message in the buffer
\* is sent back.
HearsPeer ==
    \A p \in Procs :
        Quiet /\ (language = "cpp" \/ \A q \in Procs : ~dry[q]) => shown[p] \notin {p, "junk"}

\* Without signals, one of the two processes gets to the end of its function,
\* whatever becomes of the other one's last answer.
OneGetsThrough == Ended /\ Quiet => \E p \in Procs : pc[p] = "done"

\* Until a signal comes, the processes are in a conversation: they speak by
\* turns, hear what the other one said, and not both are cut off at the end.
Conversation == TypeOK /\ TakeTurns /\ HearsPeer /\ OneGetsThrough

\* The first 0 ends both processes.
ZeroEndsBoth ==
    (\E p \in Procs : pc[p] = "write" /\ msg[p] = "0") ~> Ended

\* However the signals fall, the processes end once each that is left has got
\* one: no interrupted call leaves them waiting for each other.
SigintsEndBoth == (\A p \in Procs : Live(p) => sigints[p] > 0) ~> Ended

=============================================================================
