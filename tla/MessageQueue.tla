---------------------------- MODULE MessageQueue ----------------------------
(***************************************************************************)
(* c/ipc/include/type.h with write.c and read.c of                         *)
(* c/ipc/message_passing/message_queue, and the C++ mqueue.hh of           *)
(* cpp/ipc/message_passing/message_queue: a writer sends the lines typed   *)
(* at it to a System V message queue, a reader prints them, and a line     *)
(* that begins with 0 ends both; the reader then destroys the queue.       *)
(*                                                                         *)
(* In C the global msg of each program is shared by its main loop and by   *)
(* its SIGINT handler close_ipc, which may interrupt the loop anywhere.    *)
(* The C++ programs have no handler.                                       *)
(*                                                                         *)
(* The k-th line typed is the number k; Zero is a line that begins with 0. *)
(***************************************************************************)
EXTENDS Integers, Sequences

CONSTANTS Languages,     \* a subset of {"c", "cpp"}
          MaxFails,      \* bound on the times the writer finds no input
          MaxLines,      \* bound on the lines typed
          QueueMax,      \* messages that fit into a queue
          MaxSigints,    \* bound on SIGINTs to each program
          MaxRuns        \* bound on how often each program is started

ASSUME QueueAssumption ==
    /\ Languages \subseteq {"c", "cpp"} /\ MaxFails \in Nat
    /\ MaxLines \in Nat /\ QueueMax \in Nat \ {0}
    /\ MaxSigints \in Nat /\ MaxRuns \in Nat

Zero    == 0
NoText  == -1
Progs   == {"writer", "reader"}

\* Every queue is made by the start or the handler of one of the programs.
MaxQueues == (MaxSigints + MaxRuns) * 2

Ids     == 1 .. MaxQueues
NoQueue == 0

VARIABLES
    lang,        \* the language of each program: both use the same key
    current,     \* the id of the queue that has the key, or NoQueue
    made,        \* how many queues have been made
    queue,       \* [Ids -> the texts in the queue], all of type 1
    pc,          \* where the main loop of each program is
    id,          \* message_id
    text, type,  \* msg.text and msg.type
    hpc,         \* where its handler is: "none" when it does not run
    hid,         \* the handler's msg_id
    cut,         \* did the signal interrupt a call in which the main loop was blocked?
    dry,         \* the writer's input delivers nothing any more
    fails,       \* how often the writer found no input
    typed,       \* how many lines have been typed
    shown,       \* what readers have printed
    sigints, runs

kernel  == <<current, made, queue>>
handler == <<hpc, hid, cut>>
input   == <<dry, fails>>
vars    == <<lang, input, kernel, pc, id, text, type, handler, typed, shown, sigints, runs>>

Init ==
    /\ lang \in [Progs -> Languages]
    /\ dry = FALSE /\ fails = 0
    /\ current = NoQueue
    /\ made = 0
    /\ queue = [i \in Ids |-> << >>]
    /\ pc = [p \in Progs |-> "off"]
    /\ id = [p \in Progs |-> NoQueue]
    /\ text = [p \in Progs |-> NoText] /\ type = [p \in Progs |-> 0]
    /\ hpc = [p \in Progs |-> "none"]
    /\ hid = [p \in Progs |-> NoQueue]
    /\ cut = [p \in Progs |-> FALSE]
    /\ typed = 0
    /\ shown = << >>
    /\ sigints = [p \in Progs |-> 0]
    /\ runs = [p \in Progs |-> 0]

Gone(p) == pc[p] \in {"off", "ended"}

Exists(q) == q # NoQueue /\ q = current
Full(q)   == Len(queue[q]) >= QueueMax

-----------------------------------------------------------------------------
(* type.h *)

\* create_queue(): the queue with the key, made if there is none.  handle' is
\* what msgget returns.
create_queue(handle, p) ==
    IF current # NoQueue
    THEN /\ handle' = [handle EXCEPT ![p] = current]
         /\ UNCHANGED kernel
    ELSE /\ made' = made + 1
         /\ current' = made + 1
         /\ handle' = [handle EXCEPT ![p] = made + 1]
         /\ UNCHANGED queue

\* msgsnd() blocks while the queue is full.  It fails, which nobody notices,
\* when the queue has been destroyed or the type is not positive.
msgsnd(q, p) ==
    IF Exists(q) /\ type[p] > 0
    THEN /\ ~Full(q)
         /\ queue' = [queue EXCEPT ![q] = Append(@, text[p])]
    ELSE UNCHANGED queue

\* Is the main loop of p at a system call in which it has to wait?
Blocked(p) ==
    \/ pc[p] = "ask"
    \/ pc[p] = "send" /\ Exists(id[p]) /\ type[p] > 0 /\ Full(id[p])
    \/ pc[p] = "receive" /\ Exists(id[p]) /\ queue[id[p]] = << >>

\* SIGINT in C: close_ipc is called.  A call in which the main loop is blocked
\* fails, unless the signal comes just before it blocks.
Sigint(p) ==
    /\ lang[p] = "c"
    /\ ~Gone(p) /\ hpc[p] = "none"
    /\ sigints[p] < MaxSigints
    /\ sigints' = [sigints EXCEPT ![p] = @ + 1]
    /\ hpc' = [hpc EXCEPT ![p] = "create"]
    /\ \E b \in {FALSE, Blocked(p)} : cut' = [cut EXCEPT ![p] = b]
    /\ UNCHANGED <<lang, input, kernel, pc, id, text, type, hid, typed, shown, runs>>

\* SIGINT in C++: the process is killed, and the queue stays.
KillBySigint(p) ==
    /\ lang[p] = "cpp"
    /\ ~Gone(p)
    /\ sigints[p] < MaxSigints
    /\ sigints' = [sigints EXCEPT ![p] = @ + 1]
    /\ pc' = [pc EXCEPT ![p] = "off"]
    /\ UNCHANGED <<lang, input, kernel, id, text, type, handler, typed, shown, runs>>

\* Slip: the handler leaves the text of msg alone.
HandlerCreateSlip(p) ==
    /\ hpc[p] = "create"
    /\ hpc' = [hpc EXCEPT ![p] = "send"]
    /\ create_queue(hid, p)
    /\ UNCHANGED <<lang, input, text, pc, id, type, cut, typed, shown, sigints, runs>>

\* create_queue() and strncpy(msg.text, "0", 1) of the handler.
HandlerCreate(p) ==
    /\ hpc[p] = "create"
    /\ hpc' = [hpc EXCEPT ![p] = "send"]
    /\ create_queue(hid, p)
    /\ text' = [text EXCEPT ![p] = Zero]
    /\ UNCHANGED <<lang, input, pc, id, type, cut, typed, shown, sigints, runs>>

\* Where the main loop goes on when its call has failed: sa_flags is 0.
AfterCall == [ask |-> "send", send |-> "test", receive |-> "show"]

\* The handler's msgsnd() and its return.
HandlerSend(p) ==
    /\ hpc[p] = "send"
    /\ msgsnd(hid[p], p)
    /\ hpc' = [hpc EXCEPT ![p] = "none"]
    /\ pc' = IF cut[p] THEN [pc EXCEPT ![p] = AfterCall[pc[p]]] ELSE pc
    /\ UNCHANGED <<lang, input, current, made, id, text, type, hid, cut, typed, shown, sigints, runs>>

close_ipc(p) == HandlerCreate(p) \/ HandlerSend(p)

Goto(p, from, to) ==
    /\ hpc[p] = "none"
    /\ pc[p] = from
    /\ pc' = [pc EXCEPT ![p] = to]

Start(p) ==
    /\ Gone(p)
    /\ runs[p] < MaxRuns
    /\ runs' = [runs EXCEPT ![p] = @ + 1]
    /\ pc' = [pc EXCEPT ![p] = "open"]
    /\ text' = [text EXCEPT ![p] = NoText]
    /\ type' = [type EXCEPT ![p] = 0]
    /\ dry' = (p # "writer" /\ dry)
    /\ UNCHANGED <<lang, fails, kernel, id, handler, typed, shown, sigints>>

\* Both programs open the queue; the writer then sets msg.type.
Open(p) ==
    /\ Goto(p, "open", IF p = "writer" THEN "ask" ELSE "receive")
    /\ create_queue(id, p)
    /\ type' = [type EXCEPT ![p] = IF p = "writer" THEN 1 ELSE @]
    /\ UNCHANGED <<lang, input, text, handler, typed, shown, sigints, runs>>

-----------------------------------------------------------------------------
(* write.c *)

\* fgets and strtok, or getline: a line is typed; in C++ one that does not fit
\* is cut and ends the stream.
Type ==
    /\ Goto("writer", "ask", "send")
    /\ ~dry
    /\ \/ /\ typed < MaxLines
          /\ typed' = typed + 1
          /\ text' = [text EXCEPT !["writer"] = typed + 1]
          /\ dry' \in {FALSE, lang["writer"] = "cpp"}
       \/ /\ text' = [text EXCEPT !["writer"] = Zero]
          /\ UNCHANGED <<typed, dry>>
    /\ UNCHANGED <<lang, fails, kernel, id, type, handler, shown, sigints, runs>>

\* The input has ended.  A failed fgets leaves msg as it was, a failed getline
\* empties it; nobody notices, and msg is sent.
NoInput ==
    /\ Goto("writer", "ask", "send")
    /\ fails < MaxFails
    /\ fails' = fails + 1
    /\ dry' = TRUE
    /\ text' = IF lang["writer"] = "c" THEN text ELSE [text EXCEPT !["writer"] = NoText]
    /\ UNCHANGED <<lang, kernel, id, type, handler, typed, shown, sigints, runs>>

\* Slip: the writer sends with IPC_NOWAIT, and a full queue loses the line.
SendSlip ==
    /\ Goto("writer", "send", "test")
    /\ IF Exists(id["writer"]) /\ Full(id["writer"])
       THEN UNCHANGED queue ELSE msgsnd(id["writer"], "writer")
    /\ UNCHANGED <<lang, input, current, made, id, text, type, handler, typed, shown, sigints, runs>>

Send ==
    /\ Goto("writer", "send", "test")
    /\ msgsnd(id["writer"], "writer")
    /\ UNCHANGED <<lang, input, current, made, id, text, type, handler, typed, shown, sigints, runs>>

TestSent ==
    /\ Goto("writer", "test", IF text["writer"] = Zero THEN "exit" ELSE "ask")
    /\ UNCHANGED <<lang, input, kernel, id, text, type, handler, typed, shown, sigints, runs>>

-----------------------------------------------------------------------------
(* read.c *)

\* What msgrcv() leaves in the queue: it takes the oldest message.
LeftInQueue(s) == Tail(s)

\* A writer in C sends sizeof msg bytes, more than the reader in C++ takes.
TooLong == lang["writer"] = "c" /\ lang["reader"] = "cpp"

\* msgrcv(); when the queue is gone or the message too long, it fails and leaves
\* msg as it was, and the message in the queue.
Receive ==
    /\ Goto("reader", "receive", "show")
    /\ LET q == id["reader"] IN
       \/ /\ Exists(q) /\ queue[q] # << >> /\ ~TooLong
          /\ text' = [text EXCEPT !["reader"] = Head(queue[q])]
          /\ type' = [type EXCEPT !["reader"] = 1]
          /\ queue' = [queue EXCEPT ![q] = LeftInQueue(@)]
       \/ /\ ~Exists(q) \/ (queue[q] # << >> /\ TooLong)
          /\ UNCHANGED <<lang, input, text, type, queue>>
    /\ UNCHANGED <<lang, input, current, made, id, handler, typed, shown, sigints, runs>>

\* What has been printed, not counting empty lines.
Printed(x) == IF x = NoText THEN shown ELSE Append(shown, x)

\* The message is printed.
Show ==
    /\ Goto("reader", "show", "check")
    /\ shown' = Printed(text["reader"])
    /\ UNCHANGED <<lang, input, kernel, id, text, type, handler, typed, sigints, runs>>

\* Then msg is looked at: in between the handler may have written to it.
TestShown ==
    /\ Goto("reader", "check", IF text["reader"] = Zero THEN "remove" ELSE "receive")
    /\ UNCHANGED <<lang, input, kernel, id, text, type, handler, typed, shown, sigints, runs>>

\* msgctl(IPC_RMID): the queue is destroyed with what is left in it.
DestroyQueue ==
    /\ Goto("reader", "remove", "exit")
    /\ current' = IF Exists(id["reader"]) THEN NoQueue ELSE current
    /\ queue' = [queue EXCEPT ![id["reader"]] = << >>]
    /\ UNCHANGED <<lang, input, made, id, text, type, handler, typed, shown, sigints, runs>>

-----------------------------------------------------------------------------

\* main() returns.  Until the process has ended, its handler may be called.
Exit(p) ==
    /\ Goto(p, "exit", "ended")
    /\ UNCHANGED <<lang, input, kernel, id, text, type, handler, typed, shown, sigints, runs>>

Writer == Open("writer") \/ Send \/ TestSent \/ Exit("writer") \/ close_ipc("writer")
Reader == \/ Open("reader") \/ Receive \/ Show \/ TestShown \/ DestroyQueue \/ Exit("reader")
          \/ close_ipc("reader")

Next ==
    \/ Writer \/ Reader \/ Type \/ NoInput
    \/ \E p \in Progs : Start(p) \/ Sigint(p) \/ KillBySigint(p)

Spec == Init /\ [][Next]_vars

\* Both programs are scheduled, once they are started.  Nobody has to type.
FairSpec == Spec /\ WF_vars(Writer) /\ WF_vars(Reader)

-----------------------------------------------------------------------------
(* Properties *)

\* Queues, message buffers and bounds have their types, and no queue holds more
\* than the kernel lets msgsnd() put into it.
TypeOK ==
    /\ current \in Ids \cup {NoQueue}
    /\ made \in 0 .. MaxQueues
    /\ \A q \in Ids : queue[q] \in Seq(NoText..MaxLines) /\ Len(queue[q]) <= QueueMax
    /\ text \in [Progs -> NoText..MaxLines]
    /\ type \in [Progs -> {0, 1}]
    /\ shown \in Seq(NoText..MaxLines)

\* Lines are printed in the order in which they were typed, none of them
\* twice, and nothing is printed that was not typed: neither the handlers
\* that write to msg under the main loops, nor calls that fail unnoticed, nor
\* a queue that is destroyed and made again bring an old line back.  Only a
\* writer in C repeats its last line, when it has no more input.
InOrderOnce ==
    \A i, j \in 1 .. Len(shown) :
        /\ shown[i] \in 0..typed
        /\ i < j /\ shown[i] # Zero /\ shown[j] # Zero =>
              \/ shown[i] < shown[j]
              \/ shown[i] = shown[j] /\ fails > 0 /\ lang["writer"] = "c"

\* With one reader, no line is skipped: whatever it prints, it has printed
\* all the lines that were typed before.
NoGaps ==
    runs["reader"] <= 1 /\ runs["writer"] <= 1 /\ fails = 0 =>
        \A i \in 1 .. Len(shown) : \A k \in 1 .. shown[i] : \E j \in 1 .. i : shown[j] = k

\* The reader prints the lines that were typed, in order, each at most once,
\* and, without a second start, all of them up to the last.
LinesArrive == TypeOK /\ InOrderOnce /\ NoGaps

\* When the reader has destroyed its queue, that queue is gone, and what is
\* there instead is a queue that a writer has opened since, or one that a
\* handler has made anew, which then holds nothing but the 0 of handlers;
\* without a SIGINT there is none.
NothingLeftBehind ==
    pc["reader"] \in {"exit", "ended"} =>
        /\ current # id["reader"]
        /\ \/ current \in {NoQueue, id["writer"]}
           \/ /\ \E p \in Progs : sigints[p] > 0
              /\ \A i \in 1 .. Len(queue[current]) : queue[current][i] = Zero

\* The reader's handler sends to the queue that only the reader empties: when
\* that queue is full, msgsnd() never returns.
StuckInHandler ==
    /\ hpc["reader"] = "send" /\ type["reader"] > 0
    /\ Exists(hid["reader"]) /\ Full(hid["reader"])

\* A Zero in the queue ends the reader that reads from it, unless it is too
\* long for it; and so does SIGINT if it interrupts the reader's msgrcv(),
\* although the reader may never have got a message and its handler then fails
\* to send anything: the handler has left a 0 in msg, which the failed msgrcv()
\* does not overwrite.  Or the reader is stuck in its handler.
ReaderComesToEnd ==
    \/ /\ pc["reader"] = "receive" /\ Exists(id["reader"]) /\ ~TooLong
       /\ \E i \in 1 .. Len(queue[id["reader"]]) : queue[id["reader"]][i] = Zero
    \/ hpc["reader"] # "none" /\ cut["reader"]
    ~> Gone("reader") \/ StuckInHandler

=============================================================================
