-------------------------- MODULE SharedMemoryProofs --------------------------
(***************************************************************************)
(* Theorems about the shared block of task 7, c/ipc/include/shm_type.h and *)
(* cpp/ipc/memory_based/shared_memory/shm.hh, for blocks of any size and   *)
(* any number of runs, signals and kills: what SIGINT does to the text,    *)
(* whom the writer waits for, and that the reader prints what the writer   *)
(* hands over, in step with it.                                            *)
(***************************************************************************)
EXTENDS SharedMemory, TLAPS

USE BlockAssumption, BoundAssumption, CharAssumption

-----------------------------------------------------------------------------
(* Types *)

Opening  == {"open_one", "open_two", "map", "greet_wait", "greet_post"}
WriterPCs == Opening \cup {"wait", "get", "check", "post", "test", "unlink_one", "unlink_two"} \cup Gone
ReaderPCs == {"open_one", "open_two", "map", "greet", "wait", "put", "post", "test"} \cup Gone

\* Handles are objects of the writer's runs so far.
Types ==
    /\ size \in Nat
    /\ file \in [0 .. size - 1 -> Chars]
    /\ named \in [Names -> 0 .. 2 * wruns]
    /\ wsem \in [Names -> 0 .. 2 * wruns]
    /\ rsem \in [Names -> 0 .. 2 * wruns]
    /\ val \in [Objects -> Int]
    /\ wpc \in WriterPCs /\ rpc \in ReaderPCs
    /\ wc \in Nat
    /\ running \in BOOLEAN /\ greeted \in BOOLEAN
    /\ text \in Seq(Chars) /\ atSigint \in Nat
    /\ wruns \in 0 .. MaxRuns
    /\ wpc \notin Gone => wruns >= 1

-----------------------------------------------------------------------------
(* What is handed over after SIGINT *)

\* The last character handed over.
HandedOver == text[Len(text)]

\* The writer's place in its loop, and what it has handed over last.
LoopPart ==
    /\ wpc \in Opening => text = << >>
    /\ wpc \in {"check", "post", "test"} => wc < size
    /\ wpc = "test" => text # << >> /\ HandedOver = file[wc]

\* After SIGINT the character in hand may still go out as it is; the next one
\* is END.
AfterSigint ==
    ~running =>
        /\ wlang = "c"
        /\ Len(text) \in atSigint .. atSigint + 2
        /\ Len(text) = atSigint + 1 =>
             \/ HandedOver = END /\ wpc \in {"test", "unlink_one", "unlink_two"}
             \/ wpc \in {"test", "wait", "get", "check"} \cup Gone
             \/ wpc = "post" /\ file[wc] = END
        /\ Len(text) = atSigint + 2 =>
             HandedOver = END /\ wpc \in {"test", "unlink_one", "unlink_two"} \cup Gone

TextInv == Types /\ LoopPart /\ AfterSigint

-----------------------------------------------------------------------------
(* Who has greeted the writer *)

NotOpened == Gone \cup {"open_one"}

\* As long as no process has died, every run makes its own semaphores.
OwnSemaphores ==
    /\ wpc \in NotOpened \cup {"unlink_two"} => named["one"] = NoSem
    /\ wpc \notin NotOpened => wsem["one"] = NewObject("one")
    /\ wpc = "open_one" => rsem["one"] # NewObject("one")

\* The writer has stopped waiting, or is in its loop.
Serving == PastWaiting \/ wpc \in {"check", "post", "test"}

\* A permit for the writer comes from a reader that has greeted it.
Greeting ==
    /\ wpc \in {"greet_wait", "greet_post"} => wlang = "c"
    /\ wpc \notin NotOpened =>
          /\ rpc \in {"wait", "put", "post", "test"} /\ rsem["one"] = wsem["one"] => greeted
          /\ running /\ val[wsem["one"]] > 0 => greeted
          /\ running /\ Serving => greeted

GreetInv == Types /\ (died = {} => OwnSemaphores /\ Greeting)

-----------------------------------------------------------------------------
(* The invariants hold initially and are kept *)

\* A permit more or less, also through a handle that names no semaphore.
LEMMA PermitTypes ==
    ASSUME NEW f \in [Objects -> Int], NEW o
    PROVE  /\ [f EXCEPT ![o] = @ + 1] \in [Objects -> Int]
           /\ [f EXCEPT ![o] = @ - 1] \in [Objects -> Int]
  <1>1. CASE o \in Objects
    BY <1>1
  <1>2. CASE o \notin Objects
    BY <1>2
  <1>3. QED
    BY <1>1, <1>2

\* One handle is replaced.
LEMMA HandleTypes ==
    ASSUME NEW S, NEW h \in [Names -> S], NEW name \in Names, NEW o \in S
    PROVE  [h EXCEPT ![name] = o] \in [Names -> S]
  OBVIOUS

\* Handles of earlier runs stay handles.
LEMMA MoreHandles ==
    ASSUME NEW n \in Nat, NEW h \in [Names -> 0 .. 2 * n]
    PROVE  h \in [Names -> 0 .. 2 * (n + 1)]
  <1>1. 0 .. 2 * n \subseteq 0 .. 2 * (n + 1)
    OBVIOUS
  <1>2. QED
    BY <1>1

\* Nobody has been started yet.
LEMMA InvInit == Init => TextInv /\ GreetInv
  <1> SUFFICES ASSUME Init PROVE TextInv /\ GreetInv
    OBVIOUS
  <1>1. Types
    <2>1. size \in Nat /\ file \in [0 .. size - 1 -> Chars] /\ val \in [Objects -> Int]
      BY DEF Init, Chars
    <2>2. /\ named \in [Names -> 0 .. 2 * wruns] /\ wsem \in [Names -> 0 .. 2 * wruns]
          /\ rsem \in [Names -> 0 .. 2 * wruns]
      BY DEF Init, NoHandles, NoSem
    <2>3. wpc \in WriterPCs /\ rpc \in ReaderPCs /\ wpc \in Gone
      BY DEF Init, WriterPCs, ReaderPCs, Gone
    <2>4. wc \in Nat /\ text \in Seq(Chars) /\ atSigint \in Nat /\ wruns \in 0 .. MaxRuns
      BY DEF Init
    <2>5. running \in BOOLEAN /\ greeted \in BOOLEAN
      BY DEF Init
    <2>6. QED
      BY <2>1, <2>2, <2>3, <2>4, <2>5 DEF Types
  <1>2. LoopPart /\ AfterSigint
    BY DEF Init, LoopPart, AfterSigint, Opening
  <1>3. OwnSemaphores /\ Greeting
    BY DEF Init, OwnSemaphores, Greeting, NotOpened, Gone, NoHandles, NoSem, Names
  <1>4. QED
    BY <1>1, <1>2, <1>3 DEF TextInv, GreetInv

\* The steps of the writer that are not its start, by what they can change.
LEMMA WriterCases ==
    ASSUME WriterStep \/ Type \/ EndInput \/ close_write
    PROVE  \/ init_semaphores("one", "open_one", "open_two")
           \/ init_semaphores("two", "open_two", "map")
           \/ create_mapping
           \/ WriterWait("greet_wait", "greet_post")
           \/ WriterRepost
           \/ WriterWait("wait", "get")
           \/ \E x \in Chars : GetChar(x)
           \/ CheckRunning
           \/ WriterPost
           \/ WriterTest
           \/ close_semaphores("one", "unlink_one", "unlink_two")
           \/ close_semaphores("two", "unlink_two", "ended")
           \/ EndInput
           \/ close_write
  BY DEF WriterStep, Type, GetEof, Chars

\* New semaphores are objects of the run.
LEMMA NewObjects ==
    ASSUME Types, wpc \notin Gone
    PROVE  \A name \in Names : NewObject(name) \in Objects /\ NewObject(name) \in 0 .. 2 * wruns
  BY DEF Types, NewObject, Objects, Names

\* Handles, values and the block keep their types.
LEMMA TypesStep == Types /\ LoopPart /\ [Next]_vars => Types'
  <1> SUFFICES ASSUME Types, LoopPart, [Next]_vars PROVE Types'
    OBVIOUS
  <1> USE DEF kernel, writer, reader, bounds
  <1>1. CASE StartWriter
    <2>1. /\ wruns' = wruns + 1 /\ wruns < MaxRuns /\ wpc' = "open_one" /\ wsem' = NoHandles
          /\ wc' = 0 /\ running' = TRUE /\ text' = << >> /\ atSigint' = 0 /\ greeted' = FALSE
          /\ UNCHANGED <<size, file, named, rsem, val, rpc>>
      BY <1>1 DEF StartWriter
    <2>2. wruns \in Nat /\ wruns + 1 \in 0 .. MaxRuns /\ wruns + 1 >= 1
      BY <2>1 DEF Types
    <2>3. /\ named \in [Names -> 0 .. 2 * (wruns + 1)] /\ rsem \in [Names -> 0 .. 2 * (wruns + 1)]
          /\ NoHandles \in [Names -> 0 .. 2 * (wruns + 1)]
      BY <2>2, MoreHandles DEF Types, NoHandles, NoSem
    <2>4. "open_one" \in WriterPCs /\ << >> \in Seq(Chars)
      BY DEF WriterPCs, Opening
    <2>5. (named \in [Names -> 0 .. 2 * wruns])' /\ (wsem \in [Names -> 0 .. 2 * wruns])'
          /\ (rsem \in [Names -> 0 .. 2 * wruns])'
      BY <2>1, <2>3
    <2>6. QED
      BY <2>1, <2>2, <2>4, <2>5 DEF Types
  <1>2. ASSUME WriterStep \/ Type \/ EndInput \/ close_write PROVE Types'
    <2> USE DEF WriterGoto
    <2>1. ASSUME NEW name \in Names, NEW from \in WriterPCs \ Gone, NEW to \in WriterPCs \ Gone,
                 init_semaphores(name, from, to)
          PROVE  Types'
      <3>1. wpc \notin Gone /\ wpc' \in WriterPCs \ Gone
            /\ UNCHANGED <<size, file, rsem, rpc, wc, running, greeted, text, atSigint, wruns>>
        BY <2>1 DEF init_semaphores
      <3>2. NewObject(name) \in 0 .. 2 * wruns /\ named[name] \in 0 .. 2 * wruns /\ wruns \in Nat
        BY <3>1, NewObjects DEF Types
      <3>3. named' \in [Names -> 0 .. 2 * wruns] /\ wsem' \in [Names -> 0 .. 2 * wruns]
        <4> DEFINE S == 0 .. 2 * wruns
        <4>1. /\ named \in [Names -> S] /\ wsem \in [Names -> S]
              /\ named[name] \in S /\ NewObject(name) \in S
          BY <3>2 DEF Types
        <4> HIDE DEF S
        <4>2. named' \in [Names -> S] /\ wsem' \in [Names -> S]
          BY <2>1, <4>1, HandleTypes DEF init_semaphores
        <4>3. QED
          BY <4>2 DEF S
      <3>4. val' \in [Objects -> Int]
        BY <2>1 DEF init_semaphores, Types
      <3>5. QED
        BY <3>1, <3>3, <3>4 DEF Types
    <2>2. CASE create_mapping
      BY <2>2 DEF create_mapping, Types, WriterPCs, Gone, Opening
    <2>3. CASE WriterWait("greet_wait", "greet_post") \/ WriterRepost
      <3>1. wpc \notin Gone /\ wpc' \in WriterPCs
            /\ UNCHANGED <<size, file, named, wsem, rsem, rpc, wc, running, greeted, text, atSigint, wruns>>
        BY <2>3 DEF WriterWait, WriterRepost, WriterPCs, Gone, Opening
      <3>2. val' \in [Objects -> Int]
        BY <2>3, PermitTypes DEF WriterWait, WriterRepost, Types
      <3>3. QED
        BY <3>1, <3>2 DEF Types
    <2>4. CASE WriterWait("wait", "get")
      <3>1. wpc \notin Gone /\ wpc' \in WriterPCs
            /\ UNCHANGED <<size, file, named, wsem, rsem, rpc, wc, running, greeted, text, atSigint, wruns>>
        BY <2>4 DEF WriterWait, WriterPCs, Gone, Opening
      <3>2. val' \in [Objects -> Int]
        BY <2>4, PermitTypes DEF WriterWait, Types
      <3>3. QED
        BY <3>1, <3>2 DEF Types
    <2>5. ASSUME NEW x \in Chars, GetChar(x) PROVE Types'
      BY <2>5 DEF GetChar, Types, WriterPCs, Gone, Opening
    <2>6. CASE CheckRunning
      BY <2>6 DEF CheckRunning, Types, WriterPCs, Gone, Opening, Chars
    <2>7. CASE WriterPost
      <3>1. wpc = "post" /\ file[wc] \in Chars
        BY <2>7 DEF WriterPost, LoopPart, Types
      <3>2. text' \in Seq(Chars)
        BY <2>7, <3>1 DEF WriterPost, Types
      <3>3. val' \in [Objects -> Int] /\ wpc' \in WriterPCs /\ wpc \notin Gone
        BY <2>7, PermitTypes DEF WriterPost, Types, WriterPCs, Gone, Opening
      <3>4. QED
        BY <2>7, <3>2, <3>3 DEF WriterPost, Types
    <2>8. CASE WriterTest
      BY <2>8 DEF WriterTest, Types, WriterPCs, Gone, Opening
    <2>9. ASSUME NEW name \in Names, NEW from \in WriterPCs \ Gone, NEW to \in WriterPCs,
                 close_semaphores(name, from, to)
          PROVE  Types'
      <3>1. named' \in [Names -> 0 .. 2 * wruns]
        BY <2>9 DEF close_semaphores, Types, NoSem
      <3>2. QED
        BY <2>9, <3>1 DEF close_semaphores, Types
    <2>10. CASE EndInput
      BY <2>10 DEF EndInput, Types
    <2>11. CASE close_write
      <3>1. /\ wpc \notin Gone /\ wpc' \in WriterPCs
            /\ UNCHANGED <<size, named, wsem, rsem, val, rpc, wc, greeted, text, wruns>>
        BY <2>11 DEF close_write, Types, WriterPCs, Gone, Opening
      <3>2. running' = FALSE /\ atSigint' \in Nat
        BY <2>11 DEF close_write, Types
      <3>3. file' \in [0 .. size - 1 -> Chars]
        BY <2>11 DEF close_write, Types, Chars
      <3>4. QED
        BY <3>1, <3>2, <3>3 DEF Types
    <2>12. /\ {"one", "two"} \subseteq Names
           /\ {"open_one", "open_two", "map", "unlink_one", "unlink_two"} \subseteq WriterPCs \ Gone
           /\ "ended" \in WriterPCs
      BY DEF Names, WriterPCs, Opening, Gone
    <2>13. QED
      BY <1>2, <2>1, <2>2, <2>3, <2>4, <2>5, <2>6, <2>7, <2>8, <2>9, <2>10, <2>11, <2>12,
         WriterCases
  <1>3. CASE StartReader
    BY <1>3 DEF StartReader, Types, NoHandles, NoSem, ReaderPCs
  <1>4. CASE ReaderStep
    <2> USE DEF ReaderGoto
    <2>1. UNCHANGED <<size, file, named, wsem, wpc, wc, running, text, atSigint, wruns>>
      BY <1>4 DEF ReaderStep, open_semaphores, open_mapping, Greet, ReaderWait, PutChar,
           ReaderPost, ReaderTest
    <2>2. rpc' \in ReaderPCs
      BY <1>4 DEF ReaderStep, open_semaphores, open_mapping, Greet, ReaderWait, PutChar,
           ReaderPost, ReaderTest, ReaderPCs, Gone
    <2>3. greeted' \in BOOLEAN
      BY <1>4 DEF ReaderStep, open_semaphores, open_mapping, Greet, ReaderWait, PutChar,
           ReaderPost, ReaderTest, Types
    <2>4. rsem' \in [Names -> 0 .. 2 * wruns]
      BY <1>4 DEF ReaderStep, open_semaphores, open_mapping, Greet, ReaderWait, PutChar,
           ReaderPost, ReaderTest, Types, Names
    <2>5. val' \in [Objects -> Int]
      <3>1. \/ val' = val
            \/ \E o : val' = [val EXCEPT ![o] = @ + 1] \/ val' = [val EXCEPT ![o] = @ - 1]
        BY <1>4 DEF ReaderStep, open_semaphores, open_mapping, Greet, ReaderWait, PutChar,
             ReaderPost, ReaderTest
      <3>2. val \in [Objects -> Int]
        BY DEF Types
      <3>3. QED
        BY <3>1, <3>2, PermitTypes
    <2>6. QED
      BY <2>1, <2>2, <2>3, <2>4, <2>5 DEF Types
  <1>5. CASE KillWriter \/ KillReader
    BY <1>5 DEF KillWriter, KillReader, Types, WriterPCs, ReaderPCs, Gone
  <1>6. CASE UNCHANGED vars
    BY <1>6 DEF vars, Types
  <1>7. QED
    BY <1>1, <1>2, <1>3, <1>4, <1>5, <1>6 DEF Next

\* A step of the reader, and a kill of it, leaves the writer alone.
LEMMA ReaderLeavesWriter ==
    ASSUME StartReader \/ ReaderStep \/ KillReader
    PROVE  UNCHANGED <<size, file, named, wpc, wlang, wsem, wc, running, text, atSigint, wruns>>
  BY DEF StartReader, ReaderStep, KillReader, open_semaphores, open_mapping, Greet, ReaderWait,
         PutChar, ReaderPost, ReaderTest, ReaderGoto, kernel, writer, bounds

\* The writer leaves its loop with END, also after SIGINT.
LEMMA TextStep == TextInv /\ [Next]_vars => TextInv'
  <1> SUFFICES ASSUME TextInv, [Next]_vars PROVE TextInv'
    OBVIOUS
  <1>1. Types /\ LoopPart /\ AfterSigint
    BY DEF TextInv
  <1>2. Types'
    BY <1>1, TypesStep
  <1>3. size \in Nat /\ file \in [0 .. size - 1 -> Chars] /\ wc \in Nat /\ text \in Seq(Chars)
        /\ Len(text) \in Nat /\ atSigint \in Nat
    BY <1>1 DEF Types
  <1> USE DEF kernel, writer, reader, bounds, WriterGoto
  <1> USE DEF HandedOver, Opening, Gone
  <1>4. LoopPart' /\ AfterSigint'
    <2>1. CASE StartWriter
      BY <2>1 DEF StartWriter, LoopPart, AfterSigint
    <2>2. ASSUME NEW name, NEW from \in {"open_one", "open_two"}, NEW to \in {"open_two", "map"},
                 init_semaphores(name, from, to)
          PROVE  LoopPart' /\ AfterSigint'
      <3>1. /\ wpc = from /\ wpc' = to
            /\ UNCHANGED <<size, file, wlang, wc, running, text, atSigint>>
        BY <2>2 DEF init_semaphores
      <3>2. QED
        BY <1>1, <1>3, <3>1 DEF LoopPart, AfterSigint
    <2>3. CASE create_mapping \/ WriterWait("greet_wait", "greet_post") \/ WriterRepost
               \/ WriterWait("wait", "get")
      <3>1. /\ UNCHANGED <<size, file, wlang, wc, running, text, atSigint>>
            /\ \/ wpc \in Opening /\ wpc' \in {"greet_wait", "greet_post", "wait", "failed"}
               \/ wpc = "wait" /\ wpc' = "get"
        BY <2>3 DEF create_mapping, WriterWait, WriterRepost
      <3>2. QED
        BY <1>1, <1>3, <3>1 DEF LoopPart, AfterSigint
    <2>4. ASSUME NEW x \in Chars, GetChar(x) PROVE LoopPart' /\ AfterSigint'
      <3>1. /\ wpc = "get" /\ UNCHANGED <<size, wlang, wc, running, text, atSigint>>
            /\ \/ wc < size /\ wpc' = IF wlang = "c" THEN "check" ELSE "post"
               \/ wpc' = "off"
        BY <2>4 DEF GetChar
      <3>2. QED
        BY <1>1, <1>3, <3>1 DEF LoopPart, AfterSigint
    <2>5. CASE CheckRunning
      <3>1. /\ wpc = "check" /\ wpc' = "post" /\ UNCHANGED <<size, wlang, wc, running, text, atSigint>>
            /\ ~running => file'[wc] = END
        BY <1>1, <1>3, <2>5 DEF CheckRunning, LoopPart
      <3>2. QED
        BY <1>1, <1>3, <3>1 DEF LoopPart, AfterSigint
    <2>6. CASE WriterPost
      <3>1. /\ wpc = "post" /\ wpc' = "test" /\ text' = Append(text, file[wc])
            /\ UNCHANGED <<size, file, wlang, wc, running, atSigint>>
        BY <2>6 DEF WriterPost
      <3>2. file[wc] \in Chars
        BY <1>1, <1>3, <3>1 DEF LoopPart
      <3>3. /\ Len(text') = Len(text) + 1 /\ text'[Len(text) + 1] = file[wc]
            /\ text' # << >>
        BY <1>3, <3>1, <3>2
      <3>4. QED
        BY <1>1, <1>3, <3>1, <3>3 DEF LoopPart, AfterSigint
    <2>7. CASE WriterTest
      <3>1. /\ wpc = "test" /\ wpc' = IF file[wc] = END THEN "unlink_one" ELSE "wait"
            /\ UNCHANGED <<size, file, wlang, running, text, atSigint>>
        BY <2>7 DEF WriterTest
      <3>2. QED
        BY <1>1, <1>3, <3>1 DEF LoopPart, AfterSigint
    <2>8. ASSUME NEW name, close_semaphores(name, "unlink_one", "unlink_two")
                           \/ close_semaphores(name, "unlink_two", "ended")
          PROVE  LoopPart' /\ AfterSigint'
      <3>1. /\ wpc \in {"unlink_one", "unlink_two"} /\ wpc' \in {"unlink_two", "ended"}
            /\ UNCHANGED <<size, file, wlang, wc, running, text, atSigint>>
        BY <2>8 DEF close_semaphores
      <3>2. QED
        BY <1>1, <1>3, <3>1 DEF LoopPart, AfterSigint
    <2>9. CASE close_write
      <3>1. /\ wlang = "c" /\ running' = FALSE
            /\ atSigint' = IF running THEN Len(text) ELSE atSigint
            /\ UNCHANGED <<size, wlang, wc, text>>
        BY <2>9 DEF close_write
      <3>2. \/ wpc = "wait" /\ wpc' = "get"
            \/ wpc = "greet_wait" /\ wpc' = "greet_post"
            \/ wpc = "get" /\ wc < size /\ wpc' = "check"
            \/ wpc = "get" /\ wpc' = "off"
            \/ UNCHANGED <<wpc, file>>
        BY <2>9 DEF close_write
      <3>3. QED
        BY <1>1, <1>3, <3>1, <3>2 DEF LoopPart, AfterSigint
    <2>10. CASE EndInput \/ StartReader \/ ReaderStep \/ KillReader \/ UNCHANGED vars
      <3>1. UNCHANGED <<size, file, wpc, wlang, wc, running, text, atSigint>>
        BY <2>10, ReaderLeavesWriter DEF EndInput, vars
      <3>2. QED
        BY <1>1, <3>1 DEF LoopPart, AfterSigint
    <2>11. CASE KillWriter
      BY <1>1, <1>3, <2>11 DEF KillWriter, LoopPart, AfterSigint
    <2>12. QED
      BY <2>1, <2>2, <2>3, <2>4, <2>5, <2>6, <2>7, <2>8, <2>9, <2>10, <2>11, WriterCases DEF Next
  <1>5. QED
    BY <1>2, <1>4 DEF TextInv

\* After SIGINT a writer in C hands over at most two more characters, and the
\* second of them is END: the character in hand may have passed the test of
\* running in write_shared before close_write cleared it.  For blocks of every
\* size and every number of signals, kills and runs.
THEOREM SigintEndsTextAlways == Spec => []SigintEndsText
  <1>1. TextInv => SigintEndsText
    <2> SUFFICES ASSUME TextInv PROVE SigintEndsText
      OBVIOUS
    <2>1. Types /\ AfterSigint
      BY DEF TextInv
    <2>2. Len(text) \in Nat /\ atSigint \in Nat
      BY <2>1 DEF Types
    <2>3. QED
      BY <2>1, <2>2 DEF AfterSigint, SigintEndsText, HandedOver, Last
  <1>2. QED
    BY <1>1, InvInit, TextStep, PTL DEF Spec

\* No process has died in this step or before it.
LEMMA NobodyDies ==
    ASSUME [Next]_vars, died' = {}
    PROVE  /\ died = {}
           /\ ~KillWriter /\ ~KillReader
           /\ \A x \in Chars : GetChar(x) => wpc' \in {"check", "post"}
           /\ create_mapping => wpc' = IF wlang = "c" THEN "greet_wait" ELSE "wait"
  <1>1. UNCHANGED died \/ (\E x : died' = died \cup {x})
    BY DEF Next, vars, StartWriter, WriterStep, Type, GetEof, EndInput, close_write, StartReader,
           ReaderStep, KillWriter, KillReader, init_semaphores, create_mapping, WriterWait,
           WriterRepost, GetChar, CheckRunning, WriterPost, WriterTest, close_semaphores,
           open_semaphores, open_mapping, Greet, ReaderWait, PutChar, ReaderPost, ReaderTest
  <1>2. died = {}
    BY <1>1
  <1>3. ~KillWriter /\ ~KillReader
    BY DEF KillWriter, KillReader
  <1>4. ASSUME NEW x \in Chars, GetChar(x) PROVE wpc' \in {"check", "post"}
    BY <1>4 DEF GetChar, WriterGoto
  <1>5. ASSUME create_mapping PROVE wpc' = IF wlang = "c" THEN "greet_wait" ELSE "wait"
    BY <1>5 DEF create_mapping, WriterGoto
  <1>6. QED
    BY <1>2, <1>3, <1>4, <1>5

\* Permits reach the writer from its own readers only.
LEMMA GreetStep == TextInv /\ GreetInv /\ [Next]_vars => GreetInv'
  <1> SUFFICES ASSUME TextInv, GreetInv, [Next]_vars PROVE GreetInv'
    OBVIOUS
  <1>1. Types /\ Types'
    BY TypesStep DEF TextInv, GreetInv
  <1>2. SUFFICES ASSUME died' = {} PROVE OwnSemaphores' /\ Greeting'
    BY <1>1 DEF GreetInv
  <1>3. OwnSemaphores /\ Greeting /\ ~KillWriter /\ ~KillReader
    BY <1>2, NobodyDies DEF GreetInv
  <1>4. /\ wruns \in Nat /\ wruns <= MaxRuns /\ val \in [Objects -> Int]
        /\ named \in [Names -> 0 .. 2 * wruns] /\ wsem \in [Names -> 0 .. 2 * wruns]
        /\ rsem \in [Names -> 0 .. 2 * wruns] /\ "one" \in Names
    BY <1>1 DEF Types, Names
  <1>5. /\ NewObject("one") = 2 * wruns - 1 /\ NewObject("two") = 2 * wruns
        /\ wpc \notin Gone => wruns >= 1 /\ NewObject("one") \in Objects /\ NewObject("one") # NoSem
    BY <1>1 DEF NewObject, Types, Objects, NoSem
  <1> USE DEF kernel, writer, reader, bounds, WriterGoto, ReaderGoto
  <1> USE DEF NotOpened, Gone, PastWaiting, Serving
  <1>6. CASE StartWriter
    <2>1. /\ wpc \in Gone /\ wpc' = "open_one" /\ wruns' = wruns + 1 /\ UNCHANGED <<named, rsem>>
      BY <1>6 DEF StartWriter
    <2>2. NewObject("one")' = 2 * (wruns + 1) - 1
      BY <2>1 DEF NewObject
    <2>3. rsem["one"] <= 2 * wruns
      BY <1>4
    <2>4. QED
      BY <1>3, <1>4, <2>1, <2>2, <2>3 DEF OwnSemaphores, Greeting
  <1>7. CASE init_semaphores("one", "open_one", "open_two")
    <2>1. /\ wpc = "open_one" /\ wpc' = "open_two" /\ UNCHANGED <<wruns, rsem>>
      BY <1>7 DEF init_semaphores
    <2>2. named["one"] = NoSem
      BY <1>3, <2>1 DEF OwnSemaphores
    <2>3. wsem'["one"] = NewObject("one") /\ val'[NewObject("one")] = 0
      BY <1>4, <1>5, <1>7, <2>1, <2>2 DEF init_semaphores
    <2>4. NewObject("one")' = NewObject("one")
      BY <2>1 DEF NewObject
    <2>5. QED
      BY <1>3, <2>1, <2>3, <2>4 DEF OwnSemaphores, Greeting
  <1>8. CASE init_semaphores("two", "open_two", "map")
    <2>1. /\ wpc = "open_two" /\ wpc' = "map" /\ UNCHANGED <<wruns, rsem, rpc, running, greeted>>
      BY <1>8 DEF init_semaphores
    <2>2. wsem'["one"] = wsem["one"] /\ wsem["one"] = NewObject("one")
      BY <1>3, <1>4, <1>8, <2>1 DEF init_semaphores, OwnSemaphores
    <2>3. val'[NewObject("one")] = val[NewObject("one")]
      BY <1>4, <1>5, <1>8, <2>1 DEF init_semaphores
    <2>4. NewObject("one")' = NewObject("one")
      BY <2>1 DEF NewObject
    <2>5. QED
      BY <1>3, <2>1, <2>2, <2>3, <2>4 DEF OwnSemaphores, Greeting
  <1>9. ASSUME UNCHANGED <<wruns, named, wsem, rsem>>, wpc \notin NotOpened, wpc' \notin NotOpened,
               wpc' = "unlink_two" => wpc = "unlink_two"
        PROVE  /\ OwnSemaphores'
               /\ wsem["one"] = NewObject("one") /\ wsem["one"] \in Objects
    <2>1. NewObject("one")' = NewObject("one")
      BY <1>9 DEF NewObject
    <2>2. QED
      BY <1>3, <1>5, <1>9, <2>1 DEF OwnSemaphores
  <1>10. CASE create_mapping
    <2>1. /\ wpc = "map" /\ wpc' = IF wlang = "c" THEN "greet_wait" ELSE "wait"
          /\ UNCHANGED <<wruns, named, wsem, rsem, rpc, wlang, val, running, greeted>>
      BY <1>2, <1>10, NobodyDies DEF create_mapping
    <2>2. OwnSemaphores'
      BY <1>9, <2>1
    <2>3. QED
      BY <1>3, <2>1, <2>2 DEF Greeting
  <1>11. CASE WriterWait("greet_wait", "greet_post") \/ WriterWait("wait", "get")
    <2>1. /\ \/ wpc = "greet_wait" /\ wpc' = "greet_post"
             \/ wpc = "wait" /\ wpc' = "get"
          /\ UNCHANGED <<wruns, named, wsem, rsem, rpc, wlang, running, greeted>>
          /\ val[wsem["one"]] > 0
      BY <1>11 DEF WriterWait
    <2>2. OwnSemaphores'
      BY <1>9, <2>1
    <2>3. QED
      BY <1>3, <2>1, <2>2 DEF Greeting
  <1>12. CASE WriterRepost
    <2>1. /\ wpc = "greet_post" /\ wpc' = "wait"
          /\ UNCHANGED <<wruns, named, wsem, rsem, rpc, wlang, running, greeted>>
      BY <1>12 DEF WriterRepost
    <2>2. OwnSemaphores'
      BY <1>9, <2>1
    <2>3. QED
      BY <1>3, <2>1, <2>2 DEF Greeting
  <1>13. ASSUME NEW x \in Chars, GetChar(x) PROVE OwnSemaphores' /\ Greeting'
    <2>1. /\ wpc = "get" /\ wpc' \in {"check", "post"}
          /\ UNCHANGED <<wruns, named, wsem, rsem, rpc, wlang, running, greeted>>
      BY <1>2, <1>13, NobodyDies DEF GetChar
    <2>2. OwnSemaphores'
      BY <1>9, <2>1
    <2>3. QED
      BY <1>3, <2>1, <2>2 DEF Greeting
  <1>14. CASE CheckRunning \/ WriterPost \/ WriterTest
    <2>1. /\ wpc \in {"check", "post", "test"} /\ wpc' \in {"post", "test", "unlink_one", "wait"}
          /\ UNCHANGED <<wruns, named, wsem, rsem, rpc, wlang, running, greeted>>
      BY <1>14 DEF CheckRunning, WriterPost, WriterTest
    <2>2. OwnSemaphores'
      BY <1>9, <2>1
    <2>3. QED
      BY <1>3, <2>1, <2>2 DEF Greeting
  <1>15. CASE close_semaphores("one", "unlink_one", "unlink_two")
    <2>1. /\ wpc = "unlink_one" /\ wpc' = "unlink_two"
          /\ UNCHANGED <<wruns, wsem, val, rsem, rpc, wlang, running, greeted>>
      BY <1>15 DEF close_semaphores
    <2>2. named'["one"] = NoSem
      BY <1>4, <1>15 DEF close_semaphores
    <2>3. NewObject("one")' = NewObject("one")
      BY <2>1 DEF NewObject
    <2>4. QED
      BY <1>3, <2>1, <2>2, <2>3 DEF OwnSemaphores, Greeting
  <1>16. CASE close_semaphores("two", "unlink_two", "ended")
    <2>1. wpc = "unlink_two" /\ wpc' = "ended"
      BY <1>16 DEF close_semaphores
    <2>2. named'["one"] = NoSem
      BY <1>3, <1>4, <1>16, <2>1 DEF close_semaphores, OwnSemaphores
    <2>3. QED
      BY <2>1, <2>2 DEF OwnSemaphores, Greeting
  <1>17. CASE close_write
    <2>1. /\ wlang = "c" /\ running' = FALSE /\ wpc \notin Gone
          /\ UNCHANGED <<wruns, named, wsem, rsem, rpc, wlang, greeted>>
          /\ \/ wpc \in {"greet_wait", "wait", "get"} /\ wpc' \in {"greet_post", "get", "check"}
             \/ wpc' = wpc
      BY <1>2, <1>17 DEF close_write
    <2>2. NewObject("one")' = NewObject("one")
      BY <2>1 DEF NewObject
    <2>3. QED
      BY <1>3, <2>1, <2>2 DEF OwnSemaphores, Greeting
  <1>18. CASE EndInput \/ UNCHANGED vars
    <2>1. UNCHANGED <<wpc, wruns, named, wsem, rsem, rpc, wlang, val, running, greeted>>
      BY <1>18 DEF EndInput, vars
    <2>2. NewObject("one")' = NewObject("one")
      BY <2>1 DEF NewObject
    <2>3. QED
      BY <1>3, <2>1, <2>2 DEF OwnSemaphores, Greeting
  <1>19. CASE StartReader \/ ReaderStep
    <2>1. /\ UNCHANGED <<wpc, wruns, named, wsem, wlang, running>>
          /\ NewObject("one")' = NewObject("one")
      BY <1>19, ReaderLeavesWriter DEF NewObject
    <2>2. CASE StartReader
      <3>1. rpc' = "open_one" /\ rsem'["one"] = NoSem /\ UNCHANGED <<val, greeted>>
        BY <1>4, <2>2 DEF StartReader, NoHandles
      <3>2. QED
        BY <1>3, <1>5, <2>1, <3>1 DEF OwnSemaphores, Greeting
    <2>3. CASE open_semaphores("one", "open_one", "open_two")
      <3>1. rpc' \in {"open_two", "failed"} /\ rsem'["one"] = named["one"] /\ UNCHANGED <<val, greeted>>
        BY <1>4, <2>3 DEF open_semaphores
      <3>2. QED
        BY <1>3, <1>5, <2>1, <3>1 DEF OwnSemaphores, Greeting
    <2>4. CASE open_semaphores("two", "open_two", "map") \/ open_mapping
      <3>1. rpc' \in {"map", "greet", "failed"} /\ rsem'["one"] = rsem["one"] /\ UNCHANGED <<val, greeted>>
        BY <1>4, <2>4 DEF open_semaphores, open_mapping
      <3>2. QED
        BY <1>3, <2>1, <3>1 DEF OwnSemaphores, Greeting
    <2>5. CASE Greet \/ ReaderPost
      <3>1. rsem' = rsem /\ val' = [val EXCEPT ![rsem["one"]] = @ + 1]
        BY <2>5 DEF Greet, ReaderPost
      <3>2. greeted' = (greeted \/ rsem["one"] = wsem["one"]) \/ (rpc = "post" /\ greeted' = greeted)
        BY <2>5 DEF Greet, ReaderPost
      <3>3. wpc \notin NotOpened /\ rsem["one"] # wsem["one"] => val'[wsem["one"]] = val[wsem["one"]]
        BY <1>3, <1>4, <1>5, <3>1 DEF OwnSemaphores
      <3>4. wpc \notin NotOpened /\ rsem["one"] = wsem["one"] => greeted'
        BY <1>3, <3>2 DEF Greeting
      <3>5. greeted => greeted'
        BY <3>2
      <3>6. QED
        BY <1>3, <2>1, <3>1, <3>3, <3>4, <3>5 DEF OwnSemaphores, Greeting
    <2>6. CASE ReaderWait
      <3>1. /\ rpc = "wait" /\ UNCHANGED <<rsem, greeted>>
            /\ val' = [val EXCEPT ![rsem["two"]] = @ - 1]
        BY <2>6 DEF ReaderWait
      <3>2. wpc \notin NotOpened /\ val'[wsem["one"]] > 0 => val[wsem["one"]] > 0
        BY <1>3, <1>4, <1>5, <3>1 DEF OwnSemaphores
      <3>3. QED
        BY <1>3, <2>1, <3>1, <3>2 DEF OwnSemaphores, Greeting
    <2>7. CASE PutChar \/ ReaderTest
      <3>1. rpc \in {"put", "test"} /\ UNCHANGED <<rsem, val, greeted>>
        BY <2>7 DEF PutChar, ReaderTest
      <3>2. QED
        BY <1>3, <2>1, <3>1 DEF OwnSemaphores, Greeting
    <2>8. QED
      BY <1>19, <2>2, <2>3, <2>4, <2>5, <2>6, <2>7 DEF ReaderStep
  <1>20. QED
    BY <1>3, <1>6, <1>7, <1>8, <1>10, <1>11, <1>12, <1>13, <1>14, <1>15, <1>16, <1>17, <1>18, <1>19,
       WriterCases DEF Next

\* "Waiting read process!!!" means what it says: unless a process has died, or
\* SIGINT has cut the waiting short, the writer takes no character before a
\* reader of this run has greeted it, whatever earlier readers and writers
\* have left behind.
THEOREM WaitsForReaderAlways == Spec => []WaitsForReader
  <1>1. TextInv /\ GreetInv => WaitsForReader
    <2> SUFFICES ASSUME GreetInv, died = {}, running, PastWaiting PROVE greeted
      BY DEF WaitsForReader
    <2>1. Greeting /\ wpc \notin NotOpened
      BY DEF GreetInv, PastWaiting, NotOpened, Gone
    <2>2. QED
      BY <2>1 DEF Greeting, Serving
  <1>2. QED
    BY <1>1, InvInit, TextStep, GreetStep, PTL DEF Spec

-----------------------------------------------------------------------------
(* Writer and reader in step *)

\* The values are never negative, and a process uses only what it has opened.
EchoTypes ==
    /\ val \in [Objects -> Nat]
    /\ wc \in 0 .. size /\ rc \in 0 .. size
    /\ shown \in Seq(Chars) /\ sigints \in Nat
    /\ died \subseteq {"writer", "reader"}
    /\ wpc \notin NotOpened => wsem["one"] # NoSem
    /\ wpc \notin NotOpened \cup {"open_two"} => wsem["two"] # NoSem
    /\ rpc \in {"map", "greet", "wait", "put", "post", "test"} =>
         rsem["one"] # NoSem /\ rsem["two"] # NoSem

\* Which objects the names and the handles can be.
Naming ==
    /\ wpc \in {"open_one", "open_two"} => wsem["two"] = NoSem
    /\ wpc = "open_one" => named["one"] < 2 * wruns - 1 /\ rsem["one"] < 2 * wruns - 1
    /\ wpc \in {"open_one", "open_two"} => named["two"] < 2 * wruns /\ rsem["two"] < 2 * wruns
    /\ wpc = "open_two" => wsem["one"] = named["one"]
    /\ wpc \notin NotOpened \cup {"open_two"} => named["two"] = wsem["two"]
    /\ wpc = "unlink_two" => named["one"] = NoSem
    /\ wruns > 0 => named["one"] < 2 * wruns /\ wsem["one"] < 2 * wruns /\ rsem["one"] < 2 * wruns

\* A name "one" without a name "two" belongs to a writer that is about to make
\* the second semaphore, or was killed there: nobody has used the first.
Unused ==
    named["one"] # NoSem /\ named["two"] = NoSem =>
        /\ val[named["one"]] = 0
        /\ rsem["one"] = named["one"] => rpc \in {"open_two", "off", "failed"}

\* The block holds what this run of the writer has handed over.
Written ==
    /\ Len(text) <= size
    /\ \A i \in 1 .. Len(text) : text[i] = file[i - 1] /\ (text[i] = END => i = Len(text))
    /\ wpc \notin Gone => wc = Len(text) - (IF wpc = "test" THEN 1 ELSE 0)
    /\ text # << >> /\ HandedOver = END => wpc \in {"test", "unlink_one", "unlink_two"} \cup Gone

\* How far the reader is.
Before  == {"open_one", "open_two", "map", "greet", "failed"}
Reading ==
    /\ rpc \in {"post", "test"} => rc < size
    /\ rpc # "off" => Len(shown) = rc + (IF rpc \in {"post", "test"} THEN 1 ELSE 0)
    /\ rpc \in Before => rc = 0
    /\ rpc = "off" /\ "reader" \notin died => rc = 0 /\ shown = << >>
    /\ rpc = "ended" => rc > 0

\* This run of the writer has made its semaphore "two".
OwnTwo == wruns > 0 /\ wsem["two"] = 2 * wruns

\* Characters the reader has fetched; permits it has given to the writer;
\* permits the writer has used up or still owes.
Fetched == IF rsem["two"] = wsem["two"]
           THEN rc + (IF rpc \in {"put", "post", "test"} THEN 1 ELSE 0)
           ELSE 0
Granted == IF rsem["one"] = wsem["one"]
           THEN rc + (IF rpc = "test" THEN 1 ELSE 0)
                   + (IF rpc \in {"wait", "put", "post", "test", "ended"} THEN 1 ELSE 0)
           ELSE 0
Spent   == Len(text) + (IF wpc \in {"greet_post", "get", "check", "post"} THEN 1 ELSE 0)

\* Every character handed over is fetched once, and but for SIGINT the writer
\* goes on only when the reader has let it.
InStep ==
    /\ val[wsem["two"]] = Len(text) - Fetched
    /\ val[wsem["one"]] + Spent <= Granted + sigints

\* A reader has ended with END; whoever comes now finds nothing to fetch.
Finished ==
    /\ text # << >> /\ HandedOver = END
    /\ val[wsem["two"]] = 0
    /\ rsem["two"] = wsem["two"] => rc = 0 /\ rpc \notin {"put", "post", "test", "ended"}

\* A reader of this run's "one" reads from this run's "two".
Partners ==
    OwnTwo =>
        /\ named["two"] \in {NoSem, wsem["two"]} /\ wsem["one"] # NoSem
        /\ rsem["one"] = wsem["one"] /\ rpc \in {"map", "greet", "wait", "put", "post", "test", "ended"} =>
             rsem["two"] = wsem["two"]

Flow == OwnTwo /\ "reader" \notin died => InStep \/ Finished

\* What was printed is the beginning of the text, and all of it at the end.
Echoed ==
    OwnTwo /\ "reader" \notin died /\ rsem["two"] = wsem["two"] =>
        /\ \A i \in 1 .. Len(shown) : i <= Len(text) /\ shown[i] = text[i]
        /\ rpc = "ended" => text # << >> /\ HandedOver = END /\ rc = Len(text)

BlockInv ==
    /\ EchoTypes /\ Naming /\ Unused /\ Written /\ Reading
    /\ Partners /\ Flow /\ Echoed

-----------------------------------------------------------------------------
(* Each part of the invariant is kept *)

\* What is known of handles and names.
LEMMA HandleFacts ==
    ASSUME Types
    PROVE  /\ wruns \in Nat /\ wruns <= MaxRuns /\ NoSem = 0 /\ Names = {"one", "two"}
           /\ NewObject("one") = 2 * wruns - 1 /\ NewObject("two") = 2 * wruns
           /\ \A x \in {"one", "two"} :
                /\ named[x] \in 0 .. 2 * wruns
                /\ wsem[x] \in 0 .. 2 * wruns
                /\ rsem[x] \in 0 .. 2 * wruns
           /\ \A h \in 0 .. 2 * wruns : h # NoSem => h \in Objects
  BY DEF Types, NewObject, NoSem, Names, Objects

\* The steps of the reader.
LEMMA ReaderCases ==
    ASSUME ReaderStep
    PROVE  \/ open_semaphores("one", "open_one", "open_two")
           \/ open_semaphores("two", "open_two", "map")
           \/ open_mapping \/ Greet \/ ReaderWait \/ PutChar \/ ReaderPost \/ ReaderTest
  BY DEF ReaderStep

\* Who opens the second semaphore in reading has opened the first.
LEMMA OpenTwo ==
    ASSUME Types, open_semaphores("two", "open_two", "map")
    PROVE  /\ rpc = "open_two" /\ rpc' \in {"map", "failed"}
           /\ rsem'["one"] = rsem["one"] /\ rsem'["two"] = named["two"]
           /\ rpc' = "map" => rsem["one"] # NoSem /\ named["two"] # NoSem
           /\ UNCHANGED <<val, rc, shown, died, greeted>>
  <1>1. rsem \in [Names -> 0 .. 2 * wruns] /\ {"one", "two"} \subseteq Names
    BY DEF Types, Names
  <1>2. QED
    BY <1>1 DEF open_semaphores, ReaderGoto

LEMMA OpenOne ==
    ASSUME Types, open_semaphores("one", "open_one", "open_two")
    PROVE  /\ rpc = "open_one" /\ rpc' \in {"open_two", "failed"}
           /\ rsem'["one"] = named["one"] /\ rsem'["two"] = rsem["two"]
           /\ UNCHANGED <<val, rc, shown, died, greeted>>
  <1>1. rsem \in [Names -> 0 .. 2 * wruns] /\ {"one", "two"} \subseteq Names
    BY DEF Types, Names
  <1>2. QED
    BY <1>1 DEF open_semaphores, ReaderGoto

\* What opening does at the writer.
LEMMA InitSem ==
    ASSUME Types, NEW name \in {"one", "two"}, NEW other \in {"one", "two"}, other # name,
           NEW from, NEW to, wpc \notin Gone, init_semaphores(name, from, to)
    PROVE  /\ wpc = from /\ wpc' = to
           /\ UNCHANGED <<size, file, wlang, running, eof, text, atSigint, wc, rpc, rlang, rsem, rc,
                          shown, greeted, died, sigints, kills, wruns, rruns>>
           /\ named'[other] = named[other] /\ wsem'[other] = wsem[other]
           /\ wsem'[name] = named'[name] /\ named'[name] # NoSem
           /\ \A o \in Objects : o # named'[name] => val'[o] = val[o]
           /\ \/ named[name] # NoSem /\ named'[name] = named[name] /\ val' = val
              \/ /\ named[name] = NoSem /\ named'[name] = NewObject(name)
                 /\ val'[NewObject(name)] = 0
  <1>1. /\ named \in [Names -> 0 .. 2 * wruns] /\ wsem \in [Names -> 0 .. 2 * wruns]
        /\ {"one", "two"} = Names /\ val \in [Objects -> Int]
    BY DEF Types, Names
  <1>2. NewObject(name) \in Objects /\ NewObject(name) # NoSem
    BY NewObjects, <1>1 DEF Objects, NoSem
  <1>3. /\ wpc = from /\ wpc' = to
        /\ UNCHANGED <<size, file, wlang, running, eof, text, atSigint, wc, rpc, rlang, rsem, rc,
                       shown, greeted, died, sigints, kills, wruns, rruns>>
    BY DEF init_semaphores, WriterGoto, reader, bounds
  <1>4. CASE named[name] # NoSem
    BY <1>1, <1>2, <1>3, <1>4 DEF init_semaphores
  <1>5. CASE named[name] = NoSem
    BY <1>1, <1>2, <1>3, <1>5 DEF init_semaphores
  <1>6. QED
    BY <1>4, <1>5

\* Values stay natural numbers, since who takes a permit has seen it.
LEMMA EchoTypesStep ==
    ASSUME Types, LoopPart, EchoTypes, Naming, Reading, [Next]_vars
    PROVE  EchoTypes'
  <1>1. /\ val \in [Objects -> Nat] /\ size \in Nat /\ wc \in 0 .. size /\ rc \in 0 .. size
        /\ shown \in Seq(Chars) /\ sigints \in Nat /\ died \subseteq {"writer", "reader"}
        /\ file \in [0 .. size - 1 -> Chars]
    BY DEF EchoTypes, Types
  <1> USE DEF kernel, writer, reader, bounds, WriterGoto, ReaderGoto
  <1> USE DEF NotOpened, Gone
  <1>2. /\ wpc \notin NotOpened => wsem["one"] \in Objects
        /\ wpc \notin NotOpened \cup {"open_two"} => wsem["two"] \in Objects
        /\ rpc \in {"map", "greet", "wait", "put", "post", "test"} =>
             rsem["one"] \in Objects /\ rsem["two"] \in Objects
    BY HandleFacts DEF EchoTypes
  <1>3. ASSUME NEW o \in Objects
        PROVE  /\ [val EXCEPT ![o] = @ + 1] \in [Objects -> Nat]
               /\ [val EXCEPT ![o] = 0] \in [Objects -> Nat]
               /\ val[o] > 0 => [val EXCEPT ![o] = @ - 1] \in [Objects -> Nat]
    BY <1>1
  <1>4. CASE StartWriter
    BY <1>1, <1>4 DEF StartWriter, EchoTypes
  <1>5. ASSUME NEW name \in {"one", "two"}, NEW other \in {"one", "two"}, other # name,
               \/ name = "one" /\ init_semaphores(name, "open_one", "open_two")
               \/ name = "two" /\ init_semaphores(name, "open_two", "map")
        PROVE  EchoTypes'
    <2>1. wpc \notin Gone
      BY <1>5 DEF init_semaphores
    <2>2. NewObject(name) \in Objects
      BY <2>1, NewObjects DEF Names
    <2>3. val' \in [Objects -> Nat]
      BY <1>1, <1>3, <1>5, <2>2 DEF init_semaphores
    <2>4. /\ UNCHANGED <<size, wc, rc, shown, sigints, died, rpc, rsem>>
          /\ wsem'[other] = wsem[other] /\ wsem'[name] # NoSem
          /\ \/ name = "one" /\ wpc = "open_one" /\ wpc' = "open_two"
             \/ name = "two" /\ wpc = "open_two" /\ wpc' = "map"
      BY <1>5, <2>1, InitSem
    <2>5. CASE name = "one"
      BY <1>5, <2>3, <2>4, <2>5 DEF EchoTypes
    <2>6. CASE name = "two"
      <3>1. wsem'["one"] = wsem["one"] /\ wsem'["two"] # NoSem /\ wpc = "open_two" /\ wpc' = "map"
        BY <1>5, <2>4, <2>6
      <3>2. QED
        BY <2>3, <2>4, <3>1 DEF EchoTypes
    <2>7. QED
      BY <2>5, <2>6
  <1>6. CASE WriterWait("greet_wait", "greet_post") \/ WriterWait("wait", "get") \/ WriterRepost
    <2>1. /\ wpc \in {"greet_wait", "wait", "greet_post"} /\ wpc' \in {"greet_post", "get", "wait"}
          /\ UNCHANGED <<size, wc, rc, shown, sigints, died, rpc, rsem, wsem>>
      BY <1>6 DEF WriterWait, WriterRepost
    <2>2. val' \in [Objects -> Nat]
      BY <1>2, <1>3, <1>6, <2>1 DEF WriterWait, WriterRepost
    <2>3. QED
      BY <2>1, <2>2 DEF EchoTypes
  <1>7. ASSUME NEW x \in Chars, GetChar(x) PROVE EchoTypes'
    BY <1>7 DEF GetChar, EchoTypes
  <1>8. CASE create_mapping \/ CheckRunning
    BY <1>8 DEF create_mapping, CheckRunning, EchoTypes
  <1>9. CASE WriterPost
    <2>1. /\ wpc = "post" /\ wpc' = "test"
          /\ UNCHANGED <<size, wc, rc, shown, sigints, died, rpc, rsem, wsem>>
      BY <1>9 DEF WriterPost
    <2>2. val' \in [Objects -> Nat]
      BY <1>2, <1>3, <1>9, <2>1 DEF WriterPost
    <2>3. QED
      BY <2>1, <2>2 DEF EchoTypes
  <1>10. CASE WriterTest
    <2>1. wpc = "test" /\ wc < size
      BY <1>10 DEF WriterTest, LoopPart
    <2>2. QED
      BY <1>1, <1>10, <2>1 DEF WriterTest, EchoTypes
  <1>11. CASE close_semaphores("one", "unlink_one", "unlink_two")
              \/ close_semaphores("two", "unlink_two", "ended") \/ EndInput \/ UNCHANGED vars
    BY <1>11 DEF close_semaphores, EndInput, vars, EchoTypes
  <1>12. CASE close_write
    <2>1. /\ wpc \notin Gone /\ sigints' = sigints + 1
          /\ UNCHANGED <<size, wc, rc, shown, val, rpc, rsem, wsem>>
          /\ wpc' = wpc \/ (wpc \in {"greet_wait", "wait", "get"}
                             /\ wpc' \in {"get", "greet_post", "check", "off"})
          /\ died' \in {died, died \cup {"writer"}}
      BY <1>12 DEF close_write
    <2>2. QED
      BY <1>1, <2>1 DEF EchoTypes
  <1>13. CASE StartReader
    BY <1>1, <1>13 DEF StartReader, EchoTypes
  <1>14. CASE ReaderStep
    <2>1. UNCHANGED <<size, wc, sigints, wpc, wsem>>
      BY <1>14, ReaderCases DEF open_semaphores, open_mapping, Greet, ReaderWait, PutChar,
         ReaderPost, ReaderTest
    <2>2. CASE open_semaphores("one", "open_one", "open_two")
      BY <2>1, <2>2, OpenOne DEF EchoTypes
    <2>3. CASE open_semaphores("two", "open_two", "map")
      BY <2>1, <2>3, OpenTwo DEF EchoTypes
    <2>4. CASE open_mapping
      BY <2>1, <2>4 DEF open_mapping, EchoTypes
    <2>5. CASE Greet \/ ReaderWait \/ ReaderPost
      <3>1. /\ rpc \in {"greet", "wait", "post"} /\ rpc' \in {"wait", "put", "test"}
            /\ UNCHANGED <<rc, shown, died, rsem>>
        BY <2>5 DEF Greet, ReaderWait, ReaderPost
      <3>2. val' \in [Objects -> Nat]
        BY <1>2, <1>3, <2>5, <3>1 DEF Greet, ReaderWait, ReaderPost
      <3>3. QED
        BY <2>1, <3>1, <3>2 DEF EchoTypes
    <2>6. CASE PutChar
      <3>1. /\ rpc = "put" /\ rpc' \in {"post", "off"}
            /\ UNCHANGED <<val, rc, rsem>> /\ died' \subseteq {"writer", "reader"}
        BY <1>1, <2>6 DEF PutChar
      <3>2. rc < size => file[rc] \in Chars
        BY <1>1
      <3>3. shown' = shown \/ (rc < size /\ shown' = Append(shown, file[rc]))
        BY <2>6 DEF PutChar
      <3>4. shown' \in Seq(Chars)
        <4>1. CASE rc < size /\ shown' = Append(shown, file[rc])
          BY <1>1, <3>2, <4>1
        <4>2. QED
          BY <1>1, <3>3, <4>1
      <3>5. QED
        BY <2>1, <3>1, <3>4 DEF EchoTypes
    <2>7. CASE ReaderTest
      <3>1. rpc = "test" /\ rc < size
        BY <2>7 DEF ReaderTest, Reading
      <3>2. QED
        BY <1>1, <2>1, <2>7, <3>1 DEF ReaderTest, EchoTypes
    <2>8. QED
      BY <1>14, <2>2, <2>3, <2>4, <2>5, <2>6, <2>7, ReaderCases
  <1>15. CASE KillWriter \/ KillReader
    BY <1>1, <1>15 DEF KillWriter, KillReader, EchoTypes
  <1>16. QED
    BY <1>4, <1>5, <1>6, <1>7, <1>8, <1>9, <1>10, <1>11, <1>12, <1>13, <1>14, <1>15, WriterCases
    DEF Next

\* Every run of a writer makes objects of its own, and unlinks them in order.
LEMMA NamingStep ==
    ASSUME Types, Types', EchoTypes, Naming, [Next]_vars
    PROVE  Naming'
  <1> USE DEF kernel, writer, reader, bounds, WriterGoto, ReaderGoto
  <1> USE DEF NotOpened, Gone
  <1>1. /\ wruns \in Nat /\ NoSem = 0 /\ Names = {"one", "two"}
        /\ named["one"] \in 0 .. 2 * wruns /\ wsem["one"] \in 0 .. 2 * wruns
        /\ rsem["one"] \in 0 .. 2 * wruns
        /\ named["two"] \in 0 .. 2 * wruns /\ wsem["two"] \in 0 .. 2 * wruns
        /\ rsem["two"] \in 0 .. 2 * wruns
        /\ NewObject("one") = 2 * wruns - 1 /\ NewObject("two") = 2 * wruns
        /\ wpc \notin Gone => wruns >= 1
    BY HandleFacts DEF Types
  <1>2. CASE StartWriter
    <2>1. /\ wpc' = "open_one" /\ wruns' = wruns + 1 /\ UNCHANGED <<named, rsem>>
          /\ wsem'["one"] = 0 /\ wsem'["two"] = 0
      BY <1>1, <1>2 DEF StartWriter, NoHandles
    <2>2. QED
      BY <1>1, <2>1 DEF Naming
  <1>3. CASE init_semaphores("one", "open_one", "open_two")
    <2>1. wpc = "open_one"
      BY <1>3 DEF init_semaphores
    <2>2. /\ wpc' = "open_two" /\ UNCHANGED <<rsem, wruns>>
          /\ named'["two"] = named["two"] /\ wsem'["two"] = wsem["two"]
          /\ wsem'["one"] = named'["one"]
          /\ named'["one"] = named["one"] \/ named'["one"] = NewObject("one")
      BY <1>3, <2>1, InitSem
    <2>3. QED
      BY <1>1, <2>1, <2>2 DEF Naming
  <1>4. CASE init_semaphores("two", "open_two", "map")
    <2>1. wpc = "open_two"
      BY <1>4 DEF init_semaphores
    <2>2. /\ wpc' = "map" /\ UNCHANGED <<rsem, wruns>> /\ wsem'["two"] = named'["two"]
          /\ named'["one"] = named["one"] /\ wsem'["one"] = wsem["one"]
      BY <1>4, <2>1, InitSem
    <2>3. QED
      BY <1>1, <2>1, <2>2 DEF Naming
  <1>5. ASSUME UNCHANGED <<named, wsem, rsem, wruns>>,
               \/ wpc' = wpc \/ wpc' \in Gone
               \/ wpc' \notin {"open_one", "open_two", "unlink_two"} /\ wpc \notin NotOpened \cup {"open_two"}
        PROVE  Naming'
    BY <1>5 DEF Naming
  <1>6. CASE \/ create_mapping \/ WriterWait("greet_wait", "greet_post") \/ WriterWait("wait", "get")
             \/ WriterRepost \/ (\E x \in Chars : GetChar(x)) \/ CheckRunning \/ WriterPost
             \/ WriterTest \/ EndInput
    BY <1>5, <1>6 DEF create_mapping, WriterWait, WriterRepost, GetChar, CheckRunning, WriterPost,
       WriterTest, EndInput
  <1>7. CASE close_write
    BY <1>5, <1>7 DEF close_write
  <1>8. CASE close_semaphores("one", "unlink_one", "unlink_two")
    <2>1. /\ wpc' = "unlink_two" /\ UNCHANGED <<wsem, rsem, wruns>> /\ wruns >= 1
          /\ named'["one"] = 0 /\ named'["two"] = named["two"] /\ wpc = "unlink_one"
      BY <1>1, <1>8 DEF close_semaphores, Types
    <2>2. QED
      BY <1>1, <2>1 DEF Naming
  <1>9. CASE close_semaphores("two", "unlink_two", "ended")
    <2>1. /\ wpc' = "ended" /\ UNCHANGED <<wsem, rsem, wruns>>
          /\ named'["one"] = named["one"]
      BY <1>1, <1>9 DEF close_semaphores, Types
    <2>2. QED
      BY <1>1, <2>1 DEF Naming
  <1>10. CASE StartReader
    <2>1. /\ UNCHANGED <<wpc, named, wsem, wruns>> /\ rsem'["one"] = 0 /\ rsem'["two"] = 0
      BY <1>1, <1>10 DEF StartReader, NoHandles
    <2>2. QED
      BY <1>1, <2>1 DEF Naming
  <1>11. CASE ReaderStep
    <2>1. UNCHANGED <<wpc, named, wsem, wruns>>
      BY <1>11, ReaderLeavesWriter
    <2>2. CASE open_semaphores("one", "open_one", "open_two")
      BY <1>1, <2>1, <2>2, OpenOne DEF Naming
    <2>3. CASE open_semaphores("two", "open_two", "map")
      BY <1>1, <2>1, <2>3, OpenTwo DEF Naming
    <2>4. CASE open_mapping \/ Greet \/ ReaderWait \/ PutChar \/ ReaderPost \/ ReaderTest
      BY <1>5, <2>1, <2>4 DEF open_mapping, Greet, ReaderWait, PutChar, ReaderPost, ReaderTest
    <2>5. QED
      BY <1>11, <2>2, <2>3, <2>4, ReaderCases
  <1>12. CASE KillWriter \/ KillReader
    BY <1>5, <1>12 DEF KillWriter, KillReader
  <1>13. CASE UNCHANGED vars
    BY <1>5, <1>13 DEF vars
  <1>14. QED
    BY <1>2, <1>3, <1>4, <1>6, <1>7, <1>8, <1>9, <1>10, <1>11, <1>12, <1>13, WriterCases DEF Next

\* Nobody uses a semaphore "one" before there is a "two".
LEMMA UnusedStep ==
    ASSUME Types, Types', EchoTypes, Naming, Unused, [Next]_vars
    PROVE  Unused'
  <1> USE DEF kernel, writer, reader, bounds, WriterGoto, ReaderGoto
  <1> USE DEF NotOpened, Gone
  <1>1. /\ wruns \in Nat /\ NoSem = 0 /\ Names = {"one", "two"} /\ val \in [Objects -> Nat]
        /\ named \in [Names -> 0 .. 2 * wruns]
        /\ named["one"] \in 0 .. 2 * wruns /\ rsem["one"] \in 0 .. 2 * wruns
        /\ NewObject("one") = 2 * wruns - 1 /\ NewObject("two") = 2 * wruns
        /\ wpc \notin Gone => wruns >= 1
        /\ named["one"] # NoSem => named["one"] \in Objects
    BY HandleFacts DEF Types, EchoTypes
  <1>2. CASE init_semaphores("one", "open_one", "open_two")
    <2>1. wpc = "open_one"
      BY <1>2 DEF init_semaphores
    <2>2. /\ UNCHANGED <<rsem, rpc, wruns>> /\ named'["two"] = named["two"]
          /\ \/ named["one"] # NoSem /\ named'["one"] = named["one"] /\ val' = val
             \/ named'["one"] = NewObject("one") /\ val'[NewObject("one")] = 0
      BY <1>2, <2>1, InitSem
    <2>3. rsem["one"] < 2 * wruns - 1
      BY <2>1 DEF Naming
    <2>4. QED
      BY <1>1, <2>2, <2>3 DEF Unused
  <1>3. CASE init_semaphores("two", "open_two", "map")
    <2>1. wpc = "open_two"
      BY <1>3 DEF init_semaphores
    <2>2. named'["two"] # NoSem
      BY <1>3, <2>1, InitSem
    <2>3. QED
      BY <2>2 DEF Unused
  <1>4. ASSUME UNCHANGED <<named, rsem, rpc>>, named["two"] # NoSem \/ val' = val
        PROVE  Unused'
    BY <1>4 DEF Unused
  <1>5. CASE \/ StartWriter \/ create_mapping \/ (\E x \in Chars : GetChar(x)) \/ CheckRunning
             \/ WriterTest \/ EndInput
    BY <1>4, <1>5 DEF StartWriter, create_mapping, GetChar, CheckRunning, WriterTest, EndInput
  <1>6. CASE close_write
    BY <1>4, <1>6 DEF close_write
  <1>7. CASE close_semaphores("one", "unlink_one", "unlink_two")
    <2>1. named'["one"] = 0
      BY <1>1, <1>7 DEF close_semaphores
    <2>2. QED
      BY <1>1, <2>1 DEF Unused
  <1>8. CASE close_semaphores("two", "unlink_two", "ended")
    <2>1. wpc = "unlink_two" /\ named'["one"] = named["one"]
      BY <1>1, <1>8 DEF close_semaphores
    <2>2. QED
      BY <1>1, <2>1 DEF Naming, Unused
  <1>9. CASE \/ WriterWait("greet_wait", "greet_post") \/ WriterWait("wait", "get")
             \/ WriterRepost \/ WriterPost
    <2>1. /\ wpc \in {"greet_wait", "greet_post", "wait", "post"} /\ UNCHANGED <<named, rsem, rpc>>
      BY <1>9 DEF WriterWait, WriterRepost, WriterPost
    <2>2. named["two"] # NoSem
      BY <2>1 DEF Naming, EchoTypes
    <2>3. QED
      BY <1>4, <2>1, <2>2
  <1>10. CASE StartReader
    <2>1. UNCHANGED <<named, val>> /\ rsem'["one"] = NoSem
      BY <1>1, <1>10 DEF StartReader, NoHandles
    <2>2. QED
      BY <2>1 DEF Unused
  <1>11. CASE ReaderStep
    <2>1. UNCHANGED named
      BY <1>11, ReaderLeavesWriter
    <2>2. CASE open_semaphores("one", "open_one", "open_two")
      BY <2>1, <2>2, OpenOne DEF Unused
    <2>3. CASE open_semaphores("two", "open_two", "map")
      BY <2>1, <2>3, OpenTwo DEF Unused
    <2>4. CASE open_mapping \/ PutChar \/ ReaderTest
      <3>1. rpc \in {"map", "put", "test"} /\ UNCHANGED <<val, rsem>>
        BY <2>4 DEF open_mapping, PutChar, ReaderTest
      <3>2. QED
        BY <2>1, <3>1 DEF Unused
    <2>5. CASE Greet \/ ReaderPost
      <3>1. rpc \in {"greet", "post"} /\ rsem' = rsem /\ val' = [val EXCEPT ![rsem["one"]] = @ + 1]
        BY <2>5 DEF Greet, ReaderPost
      <3>2. QED
        BY <1>1, <2>1, <3>1 DEF Unused
    <2>6. CASE ReaderWait
      <3>1. /\ rpc = "wait" /\ rsem' = rsem /\ val[rsem["two"]] > 0
            /\ val' = [val EXCEPT ![rsem["two"]] = @ - 1]
        BY <2>6 DEF ReaderWait
      <3>2. QED
        BY <1>1, <2>1, <3>1 DEF Unused
    <2>7. QED
      BY <1>11, <2>2, <2>3, <2>4, <2>5, <2>6, ReaderCases
  <1>12. CASE KillReader
    <2>1. UNCHANGED <<named, val, rsem>> /\ rpc' = "off"
      BY <1>12 DEF KillReader
    <2>2. QED
      BY <2>1 DEF Unused
  <1>13. CASE KillWriter \/ UNCHANGED vars
    BY <1>4, <1>13 DEF KillWriter, vars
  <1>14. QED
    BY <1>2, <1>3, <1>5, <1>6, <1>7, <1>8, <1>9, <1>10, <1>11, <1>12, <1>13, WriterCases DEF Next

\* The writer stores behind what it has handed over.
LEMMA WrittenStep ==
    ASSUME Types, Types', LoopPart, EchoTypes, Written, [Next]_vars
    PROVE  Written'
  <1> USE DEF kernel, writer, reader, bounds, WriterGoto
  <1> USE DEF Gone, HandedOver
  <1>1. /\ size \in Nat /\ file \in [0 .. size - 1 -> Chars] /\ wc \in 0 .. size
        /\ text \in Seq(Chars) /\ Len(text) \in Nat
    BY DEF Types, EchoTypes
  <1>2. ASSUME UNCHANGED <<size, file, text, wc>>,
               \/ wpc' = wpc \/ wpc' \in Gone
               \/ wpc \notin Gone /\ wpc' = "unlink_two"
               \/ wpc \notin Gone \cup {"test", "unlink_one", "unlink_two"} /\ wpc' # "test"
        PROVE  Written'
    BY <1>1, <1>2, SMTT(20) DEF Written
  <1>3. CASE StartWriter
    BY <1>1, <1>3 DEF StartWriter, Written
  <1>4. CASE \/ init_semaphores("one", "open_one", "open_two")
             \/ init_semaphores("two", "open_two", "map")
             \/ create_mapping \/ WriterWait("greet_wait", "greet_post") \/ WriterWait("wait", "get")
             \/ WriterRepost
    <2>1. /\ UNCHANGED <<size, file, text, wc>>
          /\ wpc \in {"open_one", "open_two", "map", "greet_wait", "greet_post", "wait"}
          /\ wpc' \in {"open_two", "map", "greet_wait", "greet_post", "wait", "get", "failed"}
      BY <1>4 DEF init_semaphores, create_mapping, WriterWait, WriterRepost
    <2>2. QED
      BY <1>2, <2>1
  <1>5. ASSUME UNCHANGED <<size, text, wc>>, wpc \in {"get", "check"}, wpc' \in {"get", "check", "post"},
               NEW x, file' = [file EXCEPT ![wc] = x]
        PROVE  Written'
    <2>1. wc = Len(text)
      BY <1>1, <1>5 DEF Written
    <2>2. \A i \in 1 .. Len(text) : i - 1 # wc /\ file'[i - 1] = file[i - 1]
      BY <1>1, <1>5, <2>1 DEF Written
    <2>3. QED
      BY <1>1, <1>5, <2>1, <2>2 DEF Written
  <1>6. ASSUME NEW x \in Chars, GetChar(x) PROVE Written'
    BY <1>2, <1>5, <1>6 DEF GetChar
  <1>7. CASE CheckRunning
    BY <1>2, <1>5, <1>7 DEF CheckRunning
  <1>8. CASE WriterPost
    <2>1. /\ wpc = "post" /\ wpc' = "test" /\ text' = Append(text, file[wc])
          /\ UNCHANGED <<size, file, wc>>
      BY <1>8 DEF WriterPost
    <2>2. wc = Len(text) /\ wc < size /\ file[wc] \in Chars
      BY <1>1, <2>1 DEF Written, LoopPart
    <2>3. /\ Len(text') = Len(text) + 1 /\ text'[Len(text) + 1] = file[wc]
          /\ \A i \in 1 .. Len(text) : text'[i] = text[i]
      BY <1>1, <2>1, <2>2
    <2>4. \A i \in 1 .. Len(text) : text[i] # END
      BY <1>1, <2>1 DEF Written
    <2> HIDE DEF HandedOver
    <2>5. ASSUME NEW i \in 1 .. Len(text')
          PROVE  text'[i] = file[i - 1] /\ (text'[i] = END => i = Len(text'))
      <3>1. CASE i = Len(text) + 1
        BY <1>1, <2>2, <2>3, <3>1
      <3>2. CASE i # Len(text) + 1
        <4>1. i \in 1 .. Len(text)
          BY <1>1, <2>3, <3>2
        <4>2. QED
          BY <2>3, <2>4, <4>1 DEF Written
      <3>3. QED
        BY <3>1, <3>2
    <2>6. QED
      BY <1>1, <2>1, <2>2, <2>3, <2>5 DEF Written
  <1>9. CASE WriterTest
    <2>1. /\ wpc = "test" /\ wpc' = IF file[wc] = END THEN "unlink_one" ELSE "wait"
          /\ wc' = wc + 1 /\ UNCHANGED <<size, file, text>>
      BY <1>9 DEF WriterTest
    <2>2. text # << >> /\ text[Len(text)] = file[wc]
      BY <2>1 DEF LoopPart
    <2>3. QED
      BY <1>1, <2>1, <2>2 DEF Written
  <1>10. CASE \/ close_semaphores("one", "unlink_one", "unlink_two")
              \/ close_semaphores("two", "unlink_two", "ended") \/ EndInput
    BY <1>2, <1>10 DEF close_semaphores, EndInput
  <1>11. CASE close_write
    <2>1. UNCHANGED <<size, text, wc>>
      BY <1>11 DEF close_write
    <2>2. \/ wpc \in {"greet_wait", "wait"} /\ wpc' \in {"get", "greet_post"} /\ UNCHANGED file
          \/ wpc = "get" /\ wpc' = "check" /\ file' = [file EXCEPT ![wc] = EOF]
          \/ wpc = "get" /\ wpc' = "off" /\ UNCHANGED file
          \/ UNCHANGED <<wpc, file>>
      BY <1>11 DEF close_write
    <2>3. QED
      BY <1>2, <1>5, <2>1, <2>2
  <1>12. CASE StartReader \/ ReaderStep \/ KillReader
    BY <1>2, <1>12, ReaderLeavesWriter
  <1>13. CASE KillWriter \/ UNCHANGED vars
    BY <1>2, <1>13 DEF KillWriter, vars
  <1>14. QED
    BY <1>3, <1>4, <1>6, <1>7, <1>8, <1>9, <1>10, <1>11, <1>12, <1>13, WriterCases DEF Next

\* A writer leaves the reader alone, as far as the reader's own state goes.
LEMMA WriterLeavesReader ==
    ASSUME StartWriter \/ WriterStep \/ Type \/ EndInput \/ close_write \/ KillWriter
    PROVE  /\ UNCHANGED <<size, rpc, rlang, rsem, rc, shown>>
           /\ "reader" \in died' <=> "reader" \in died
  BY WriterCases DEF StartWriter, EndInput, close_write, KillWriter, init_semaphores, create_mapping,
     WriterWait, WriterRepost, GetChar, CheckRunning, WriterPost, WriterTest, close_semaphores,
     WriterGoto, kernel, reader, bounds

\* The reader counts what it prints.
LEMMA ReadingStep ==
    ASSUME Types, EchoTypes, Reading, [Next]_vars
    PROVE  Reading'
  <1> USE DEF kernel, writer, reader, bounds, ReaderGoto
  <1> USE DEF Gone, Before
  <1>1. size \in Nat /\ rc \in 0 .. size /\ shown \in Seq(Chars) /\ Len(shown) \in Nat
    BY DEF Types, EchoTypes
  <1>2. CASE StartWriter \/ WriterStep \/ Type \/ EndInput \/ close_write \/ KillWriter
    BY <1>2, WriterLeavesReader DEF Reading
  <1>3. CASE StartReader
    <2>1. rpc' = "open_one" /\ rc' = 0 /\ shown' = << >> /\ Len(<< >>) = 0
      BY <1>3 DEF StartReader
    <2>2. QED
      BY <2>1 DEF Reading
  <1>4. CASE ReaderStep
    <2>1. UNCHANGED size
      BY <1>4, ReaderLeavesWriter
    <2>2. CASE \/ open_semaphores("one", "open_one", "open_two")
               \/ open_semaphores("two", "open_two", "map") \/ open_mapping \/ Greet
      <3>1. /\ UNCHANGED <<rc, shown, died>> /\ rpc \in {"open_one", "open_two", "map", "greet"}
            /\ rpc' \in {"open_two", "map", "greet", "wait", "failed"}
        BY <2>2 DEF open_semaphores, open_mapping, Greet
      <3>2. QED
        BY <1>1, <2>1, <3>1 DEF Reading
    <2>3. CASE ReaderWait \/ ReaderPost
      <3>1. /\ UNCHANGED <<rc, shown, died>>
            /\ \/ rpc = "wait" /\ rpc' = "put"
               \/ rpc = "post" /\ rpc' = "test"
        BY <2>3 DEF ReaderWait, ReaderPost
      <3>2. QED
        BY <1>1, <2>1, <3>1 DEF Reading
    <2>4. CASE PutChar
      <3>1. CASE rc < size
        <4>1. /\ rpc = "put" /\ rpc' = "post" /\ UNCHANGED <<rc, died>>
              /\ shown' = Append(shown, file[rc])
          BY <2>4, <3>1 DEF PutChar
        <4>2. Len(shown') = Len(shown) + 1
          BY <1>1, <4>1
        <4>3. QED
          BY <1>1, <2>1, <3>1, <4>1, <4>2 DEF Reading
      <3>2. CASE ~(rc < size)
        <4>1. rpc' = "off" /\ "reader" \in died'
          BY <2>4, <3>2 DEF PutChar
        <4>2. QED
          BY <4>1 DEF Reading
      <3>3. QED
        BY <3>1, <3>2
    <2>5. CASE ReaderTest
      <3>1. /\ rpc = "test" /\ rpc' \in {"ended", "wait"} /\ rc' = rc + 1 /\ UNCHANGED <<shown, died>>
        BY <2>5 DEF ReaderTest
      <3>2. QED
        BY <1>1, <3>1 DEF Reading
    <2>6. QED
      BY <1>4, <2>2, <2>3, <2>4, <2>5, ReaderCases
  <1>5. CASE KillReader
    <2>1. rpc' = "off" /\ "reader" \in died'
      BY <1>5 DEF KillReader
    <2>2. QED
      BY <2>1 DEF Reading
  <1>6. CASE UNCHANGED vars
    BY <1>6 DEF vars, Reading
  <1>7. QED
    BY <1>2, <1>3, <1>4, <1>5, <1>6 DEF Next

\* In a run that has made its second semaphore, the two are different objects.
LEMMA OwnObjects ==
    ASSUME Types, EchoTypes, Naming, Partners, OwnTwo
    PROVE  /\ wruns \in Nat /\ wruns > 0 /\ wsem["two"] = 2 * wruns /\ wsem["two"] \in Objects
           /\ wsem["one"] \in Objects /\ wsem["one"] # wsem["two"]
           /\ rsem["one"] # wsem["two"]
           /\ wpc \notin {"open_one", "open_two"}
  <1>1. wruns > 0 /\ wsem["two"] = 2 * wruns
    BY DEF OwnTwo
  <1>2. /\ wruns \in Nat /\ NoSem = 0
        /\ wsem["one"] \in 0 .. 2 * wruns /\ wsem["two"] \in 0 .. 2 * wruns
        /\ \A h \in 0 .. 2 * wruns : h # NoSem => h \in Objects
    BY HandleFacts
  <1>3. wsem["one"] # NoSem
    BY DEF Partners
  <1>4. wsem["one"] \in Objects
    BY <1>2, <1>3
  <1>5. wsem["two"] # NoSem
    BY <1>1, <1>2
  <1>6. wsem["two"] \in Objects
    BY <1>2, <1>5
  <1>7. wsem["one"] # wsem["two"]
    BY <1>1, <1>2 DEF Naming
  <1>8. rsem["one"] # wsem["two"]
    BY <1>1, <1>2 DEF Naming
  <1>9. wpc \notin {"open_one", "open_two"}
    BY <1>1, <1>2 DEF Naming
  <1>10. QED
    BY <1>1, <1>2, <1>4, <1>6, <1>7, <1>8, <1>9

\* How a run comes to have its second semaphore, and how it loses it.
LEMMA OwnStep ==
    ASSUME Types, EchoTypes, Naming, [Next]_vars, OwnTwo'
    PROVE  \/ OwnTwo /\ UNCHANGED <<wsem, wruns>> /\ wpc \notin {"open_one", "open_two"}
           \/ /\ init_semaphores("two", "open_two", "map")
              /\ named["two"] = NoSem /\ rsem["two"] # wsem'["two"] /\ named'["two"] = wsem'["two"]
              /\ wsem["one"] # NoSem /\ wsem["one"] = named["one"] /\ wsem'["one"] = wsem["one"]
              /\ wsem'["two"] = 2 * wruns /\ val'[wsem'["two"]] = 0
              /\ wsem["one"] \in Objects /\ val'[wsem["one"]] = val[wsem["one"]]
              /\ wpc = "open_two" /\ wpc' = "map"
              /\ UNCHANGED <<text, rpc, rsem, rc, shown, died, sigints, wruns>>
  <1>1. /\ wruns \in Nat /\ NoSem = 0
        /\ NewObject("two") = 2 * wruns
        /\ wpc \notin Gone => wruns >= 1
        /\ \A h \in 0 .. 2 * wruns : h # NoSem => h \in Objects
        /\ wsem["one"] \in 0 .. 2 * wruns
    BY HandleFacts DEF Types
  <1>2. ~StartWriter
    <2> SUFFICES ASSUME StartWriter PROVE FALSE
      OBVIOUS
    <2>1. wsem'["two"] = 0 /\ wruns' = wruns + 1
      BY <1>1 DEF StartWriter, NoHandles, Names
    <2>2. QED
      BY <1>1, <2>1 DEF OwnTwo
  <1>3. ~init_semaphores("one", "open_one", "open_two")
    <2> SUFFICES ASSUME init_semaphores("one", "open_one", "open_two") PROVE FALSE
      OBVIOUS
    <2>1. wpc = "open_one" /\ wpc \notin Gone
      BY DEF init_semaphores, WriterGoto, Gone
    <2>2. wsem'["two"] = wsem["two"] /\ wruns' = wruns
      BY <2>1, InitSem
    <2>3. QED
      BY <1>1, <2>1, <2>2 DEF OwnTwo, Naming
  <1>4. CASE init_semaphores("two", "open_two", "map")
    <2>1. wpc = "open_two" /\ wpc \notin Gone
      BY <1>4 DEF init_semaphores, WriterGoto, Gone
    <2>2. /\ wsem'["two"] = named'["two"] /\ wsem'["one"] = wsem["one"] /\ wpc' = "map"
          /\ \A o \in Objects : o # named'["two"] => val'[o] = val[o]
          /\ \/ named["two"] # NoSem /\ named'["two"] = named["two"]
             \/ /\ named["two"] = NoSem /\ named'["two"] = NewObject("two")
                /\ val'[NewObject("two")] = 0
          /\ UNCHANGED <<text, rpc, rsem, rc, shown, died, sigints, wruns>>
      BY <1>4, <2>1, InitSem
    <2>3. /\ named["two"] < 2 * wruns /\ rsem["two"] < 2 * wruns /\ wsem["one"] < 2 * wruns
          /\ wsem["one"] = named["one"] /\ wruns >= 1
      BY <1>1, <2>1 DEF Naming
    <2>4. named["two"] = NoSem /\ wsem'["two"] = 2 * wruns
      BY <1>1, <2>2, <2>3 DEF OwnTwo
    <2>5. wsem["one"] # NoSem /\ wsem["one"] \in Objects
      BY <1>1, <2>1 DEF EchoTypes, NotOpened, Gone
    <2>6. val'[wsem["one"]] = val[wsem["one"]]
      BY <1>1, <2>2, <2>3, <2>4, <2>5
    <2>7. QED
      BY <1>1, <1>4, <2>1, <2>2, <2>3, <2>4, <2>5, <2>6
  <1>5. CASE ~init_semaphores("two", "open_two", "map")
    <2>1. UNCHANGED <<wsem, wruns>>
      BY <1>2, <1>3, <1>5, WriterCases, ReaderLeavesWriter
      DEF Next, create_mapping, WriterWait, WriterRepost, GetChar, CheckRunning, WriterPost,
          WriterTest, close_semaphores, EndInput, close_write, KillWriter, WriterGoto, writer, bounds, vars
    <2>2. OwnTwo
      BY <2>1 DEF OwnTwo
    <2>3. wpc \notin {"open_one", "open_two"}
      BY <1>1, <2>2 DEF OwnTwo, Naming
    <2>4. QED
      BY <2>1, <2>2, <2>3
  <1>6. QED
    BY <1>4, <1>5

\* Steps of the writer once it has opened both semaphores.
LEMMA LoopCases ==
    ASSUME Types, [Next]_vars, UNCHANGED <<wsem, wruns>>, wpc \notin {"open_one", "open_two"}
    PROVE  \/ create_mapping
           \/ WriterWait("greet_wait", "greet_post")
           \/ WriterRepost
           \/ WriterWait("wait", "get")
           \/ \E x \in Chars : GetChar(x)
           \/ CheckRunning
           \/ WriterPost
           \/ WriterTest
           \/ close_semaphores("one", "unlink_one", "unlink_two")
           \/ close_semaphores("two", "unlink_two", "ended")
           \/ EndInput \/ close_write \/ KillWriter \/ StartReader \/ ReaderStep \/ KillReader
           \/ UNCHANGED vars
  <1>1. ~init_semaphores("one", "open_one", "open_two") /\ ~init_semaphores("two", "open_two", "map")
    BY DEF init_semaphores, WriterGoto
  <1>2. ~StartWriter
    <2>1. wruns \in Nat /\ wruns' = wruns
      BY DEF Types
    <2>2. QED
      BY <2>1 DEF StartWriter
  <1>3. QED
    BY <1>1, <1>2, WriterCases DEF Next

\* A reader that has both semaphores has both from the same run.
LEMMA PartnersStep ==
    ASSUME Types, EchoTypes, Naming, Unused, Partners, [Next]_vars
    PROVE  Partners'
  <1> SUFFICES ASSUME OwnTwo'
               PROVE  /\ named'["two"] \in {NoSem, wsem'["two"]} /\ wsem'["one"] # NoSem
                      /\ /\ rsem'["one"] = wsem'["one"]
                         /\ rpc' \in {"map", "greet", "wait", "put", "post", "test", "ended"}
                         => rsem'["two"] = wsem'["two"]
    BY DEF Partners
  <1>1. CASE ~(OwnTwo /\ UNCHANGED <<wsem, wruns>> /\ wpc \notin {"open_one", "open_two"})
    <2>1. /\ named["two"] = NoSem /\ named'["two"] = wsem'["two"] /\ wsem'["one"] = wsem["one"]
          /\ wsem["one"] # NoSem /\ wsem["one"] = named["one"] /\ UNCHANGED <<rpc, rsem>>
      BY <1>1, OwnStep
    <2>2. QED
      BY <2>1 DEF Unused
  <1>2. ASSUME OwnTwo, UNCHANGED <<wsem, wruns>>, wpc \notin {"open_one", "open_two"}
        PROVE  /\ named'["two"] \in {NoSem, wsem["two"]} /\ wsem["one"] # NoSem
               /\ /\ rsem'["one"] = wsem["one"]
                  /\ rpc' \in {"map", "greet", "wait", "put", "post", "test", "ended"}
                  => rsem'["two"] = wsem["two"]
    <2>1. /\ named["two"] \in {NoSem, wsem["two"]} /\ wsem["one"] # NoSem
          /\ /\ rsem["one"] = wsem["one"]
             /\ rpc \in {"map", "greet", "wait", "put", "post", "test", "ended"}
             => rsem["two"] = wsem["two"]
      BY <1>2 DEF Partners
    <2>2. named'["two"] \in {NoSem, named["two"]}
      <3>1. named \in [Names -> 0 .. 2 * wruns] /\ "two" \in Names
        BY DEF Types, Names
      <3>2. CASE StartReader \/ ReaderStep \/ KillReader \/ KillWriter \/ EndInput \/ close_write
        BY <3>2, ReaderLeavesWriter DEF KillWriter, EndInput, close_write, kernel
      <3>3. QED
        BY <1>2, <3>1, <3>2, LoopCases
        DEF create_mapping, WriterWait, WriterRepost, GetChar, CheckRunning, WriterPost,
            WriterTest, close_semaphores, vars, kernel
    <2>3. CASE UNCHANGED <<rsem, rpc>> \/ rpc' \in {"off", "open_one", "open_two", "failed"}
      BY <2>1, <2>2, <2>3
    <2>4. CASE ReaderStep
      <3>1. CASE open_semaphores("one", "open_one", "open_two")
        BY <2>3, <3>1, OpenOne
      <3>2. CASE open_semaphores("two", "open_two", "map")
        BY <2>1, <2>2, <3>2, OpenTwo
      <3>3. CASE open_mapping \/ Greet \/ ReaderWait \/ PutChar \/ ReaderPost \/ ReaderTest
        <4>1. /\ rsem' = rsem
              /\ rpc \in {"map", "greet", "wait", "put", "post", "test"}
          BY <3>3 DEF open_mapping, Greet, ReaderWait, PutChar, ReaderPost, ReaderTest, ReaderGoto
        <4>2. QED
          BY <2>1, <2>2, <4>1
      <3>4. QED
        BY <2>4, <3>1, <3>2, <3>3, ReaderCases
    <2>5. CASE StartReader \/ KillReader
      BY <2>3, <2>5 DEF StartReader, KillReader
    <2>6. CASE ~(StartReader \/ ReaderStep \/ KillReader)
      <3>1. UNCHANGED <<rsem, rpc>>
        BY <2>6, WriterLeavesReader DEF Next, vars, reader
      <3>2. QED
        BY <2>3, <3>1
    <2>7. QED
      BY <2>4, <2>5, <2>6
  <1>3. QED
    BY <1>1, <1>2, OwnStep

\* Permits and characters stay in step.
LEMMA FlowStep ==
    ASSUME Types, LoopPart, EchoTypes, Naming, Unused, Written, Reading, Partners, Flow, Echoed,
           [Next]_vars
    PROVE  Flow'
  <1> SUFFICES ASSUME OwnTwo', "reader" \notin died'
               PROVE  InStep' \/ Finished'
    BY DEF Flow
  <1>1. /\ val \in [Objects -> Nat] /\ rc \in Nat /\ sigints \in Nat /\ Len(text) \in Nat
        /\ text \in Seq(Chars)
    BY DEF EchoTypes, Types
  <1>2. CASE ~(OwnTwo /\ UNCHANGED <<wsem, wruns>> /\ wpc \notin {"open_one", "open_two"})
    <2>1. /\ named["two"] = NoSem /\ rsem["two"] # wsem'["two"]
          /\ wsem["one"] # NoSem /\ wsem["one"] = named["one"] /\ wsem'["one"] = wsem["one"]
          /\ val'[wsem'["two"]] = 0 /\ val'[wsem["one"]] = val[wsem["one"]]
          /\ wpc = "open_two" /\ wpc' = "map"
          /\ UNCHANGED <<text, rpc, rsem, rc, shown, died, sigints, wruns>>
      BY <1>2, OwnStep
    <2>2. val'[wsem'["one"]] = 0 /\ text = << >> /\ Len(text) = 0
      BY <2>1 DEF Unused, LoopPart, Opening
    <2>3. Fetched' = 0 /\ Spent' = 0
      BY <2>1, <2>2 DEF Fetched, Spent
    <2>4. Granted' \in Nat
      BY <1>1, <2>1 DEF Granted
    <2>5. QED
      BY <1>1, <2>1, <2>2, <2>3, <2>4 DEF InStep
  <1>3. CASE OwnTwo /\ UNCHANGED <<wsem, wruns>> /\ wpc \notin {"open_one", "open_two"}
    <2>1. /\ wsem["two"] \in Objects /\ wsem["one"] \in Objects /\ wsem["one"] # wsem["two"]
          /\ rsem["one"] # wsem["two"] /\ wsem["two"] # NoSem
      BY <1>3, OwnObjects DEF NoSem
    <2>2. "reader" \notin died
      BY <1>3, LoopCases
      DEF create_mapping, WriterWait, WriterRepost, GetChar, CheckRunning, WriterPost,
          WriterTest, close_semaphores, EndInput, close_write, KillWriter, StartReader, ReaderStep,
          KillReader, open_semaphores, open_mapping, Greet, ReaderWait, PutChar, ReaderPost,
          ReaderTest, vars
    <2>3. InStep \/ Finished
      BY <1>3, <2>2 DEF Flow
    <2>4. Fetched \in Nat /\ Granted \in Nat /\ Spent \in Nat
      BY <1>1 DEF Fetched, Granted, Spent
    <2>5. Finished => /\ wpc \in {"test", "unlink_one", "unlink_two"} \cup Gone
                      /\ rsem["two"] = wsem["two"] => rpc \notin {"put", "post", "test", "ended"}
      BY DEF Finished, Written
    <2> USE DEF kernel, writer, reader, bounds, WriterGoto, ReaderGoto
    \* Steps of the writer.
    <2>6. ASSUME UNCHANGED <<text, rpc, rsem, rc>>,
                 val'[wsem["two"]] = val[wsem["two"]],
                 val'[wsem["one"]] \in Nat,
                 sigints' \in Nat, Spent' \in Nat,
                 val'[wsem["one"]] + Spent' - sigints' <= val[wsem["one"]] + Spent - sigints
          PROVE  InStep' \/ Finished'
      <3>1. Fetched' = Fetched /\ Granted' = Granted
        BY <1>3, <2>6 DEF Fetched, Granted
      <3>2. CASE InStep
        <4>1. /\ val[wsem["two"]] = Len(text) - Fetched
              /\ val[wsem["one"]] + Spent <= Granted + sigints
          BY <3>2 DEF InStep
        <4>2. val[wsem["one"]] \in Nat
          BY <1>1, <2>1
        <4>3. val'[wsem["one"]] + Spent' <= Granted' + sigints'
          <5> DEFINE v == val[wsem["one"]]
                     w == val'[wsem["one"]]
                     s == Spent
                     t == Spent'
                     g == Granted
                     h == Granted'
                     k == sigints
                     l == sigints'
          <5>1. /\ v \in Nat /\ w \in Nat /\ s \in Nat /\ t \in Nat /\ g \in Nat /\ h \in Nat
                /\ k \in Nat /\ l \in Nat
                /\ v + s <= g + k /\ h = g /\ w + t - l <= v + s - k
            BY <1>1, <2>4, <2>6, <3>1, <4>1, <4>2
          <5> HIDE DEF v, w, s, t, g, h, k, l
          <5>2. w + t <= h + l
            BY <5>1
          <5>3. QED
            BY <5>2 DEF w, t, h, l
        <4>4. QED
          BY <1>3, <2>6, <3>1, <4>1, <4>3 DEF InStep
      <3>3. CASE Finished
        BY <1>3, <2>6, <3>3 DEF Finished, HandedOver
      <3>4. QED
        BY <2>3, <3>2, <3>3
    <2>7. CASE \/ create_mapping \/ (\E x \in Chars : GetChar(x)) \/ CheckRunning \/ WriterTest
               \/ close_semaphores("one", "unlink_one", "unlink_two")
               \/ close_semaphores("two", "unlink_two", "ended") \/ EndInput
      <3>1. /\ UNCHANGED <<text, rpc, rsem, rc, val, sigints>>
            /\ \/ wpc' = wpc
               \/ wpc \in {"get", "check"}
               \/ wpc \in {"map", "test", "unlink_one", "unlink_two"}
                  /\ wpc' \in {"greet_wait", "wait", "failed", "unlink_one", "unlink_two", "ended"}
        BY <2>7 DEF create_mapping, GetChar, CheckRunning, WriterTest, close_semaphores, EndInput
      <3>2. Spent' \in Nat /\ Spent' <= Spent
        BY <1>1, <3>1 DEF Spent
      <3>3. QED
        BY <1>1, <2>1, <2>4, <2>6, <3>1, <3>2
    <2>8. CASE KillWriter \/ UNCHANGED vars
      <3>1. UNCHANGED <<text, rpc, rsem, rc, val, sigints>> /\ wpc' \in {wpc, "off"}
        BY <2>8 DEF KillWriter, vars
      <3>2. Spent' \in Nat /\ Spent' <= Spent
        BY <1>1, <3>1 DEF Spent
      <3>3. QED
        BY <1>1, <2>1, <2>4, <2>6, <3>1, <3>2
    <2>9. CASE WriterWait("greet_wait", "greet_post") \/ WriterWait("wait", "get")
      <3>1. /\ UNCHANGED <<text, rpc, rsem, rc, sigints>>
            /\ wpc \in {"greet_wait", "wait"} /\ wpc' \in {"greet_post", "get"}
            /\ val[wsem["one"]] > 0 /\ val' = [val EXCEPT ![wsem["one"]] = @ - 1]
        BY <2>9 DEF WriterWait
      <3>2. Spent' = Spent + 1
        BY <1>1, <3>1 DEF Spent
      <3>3. val'[wsem["one"]] = val[wsem["one"]] - 1 /\ val'[wsem["two"]] = val[wsem["two"]]
        BY <1>1, <2>1, <3>1
      <3>4. QED
        BY <1>1, <2>1, <2>4, <2>6, <3>1, <3>2, <3>3
    <2>10. CASE WriterRepost
      <3>1. /\ UNCHANGED <<text, rpc, rsem, rc, sigints>>
            /\ wpc = "greet_post" /\ wpc' = "wait"
            /\ val' = [val EXCEPT ![wsem["one"]] = @ + 1]
        BY <2>10 DEF WriterRepost
      <3>2. Spent = Spent' + 1 /\ Spent' \in Nat
        BY <1>1, <3>1 DEF Spent
      <3>3. val'[wsem["one"]] = val[wsem["one"]] + 1 /\ val'[wsem["two"]] = val[wsem["two"]]
        BY <1>1, <2>1, <3>1
      <3>4. QED
        BY <1>1, <2>1, <2>4, <2>6, <3>1, <3>2, <3>3
    <2>11. CASE close_write
      <3>1. /\ UNCHANGED <<text, rpc, rsem, rc, val>> /\ sigints' = sigints + 1
        BY <2>11 DEF close_write
      <3>2. Spent' \in Nat /\ Spent' <= Spent + 1
        BY <1>1, <3>1 DEF Spent
      <3>3. QED
        BY <1>1, <2>1, <2>4, <2>6, <3>1, <3>2
    <2>12. CASE WriterPost
      <3>1. /\ UNCHANGED <<rpc, rsem, rc, sigints>> /\ wpc = "post" /\ wpc' = "test"
            /\ text' = Append(text, file[wc])
            /\ val' = [val EXCEPT ![wsem["two"]] = @ + 1]
        BY <2>12 DEF WriterPost
      <3>2. Len(text') = Len(text) + 1
        BY <1>1, <3>1
      <3>3. Spent' = Spent /\ Fetched' = Fetched /\ Granted' = Granted
        BY <1>1, <1>3, <3>1, <3>2 DEF Spent, Fetched, Granted
      <3>4. val'[wsem["two"]] = val[wsem["two"]] + 1 /\ val'[wsem["one"]] = val[wsem["one"]]
        BY <1>1, <2>1, <3>1
      <3>5. InStep
        BY <2>3, <2>5, <3>1 DEF Gone
      <3>6. QED
        BY <1>1, <1>3, <2>1, <2>4, <3>1, <3>2, <3>3, <3>4, <3>5 DEF InStep
    \* Steps of the reader.
    <2>13. ASSUME UNCHANGED <<text, wpc, sigints>>, InStep,
                  val'[wsem["one"]] \in Nat, val'[wsem["two"]] \in Nat,
                  Fetched' \in Nat, Granted' \in Nat,
                  val'[wsem["two"]] + Fetched' = val[wsem["two"]] + Fetched,
                  val'[wsem["one"]] - Granted' <= val[wsem["one"]] - Granted
           PROVE  InStep'
      <3>1. Spent' = Spent
        BY <2>13 DEF Spent
      <3>2. QED
        <4>1. /\ val[wsem["two"]] = Len(text) - Fetched
              /\ val[wsem["one"]] + Spent <= Granted + sigints
          BY <2>13 DEF InStep
        <4>2. val[wsem["one"]] \in Nat /\ val[wsem["two"]] \in Nat
          BY <1>1, <2>1
        <4>3. val'[wsem["one"]] + Spent' <= Granted' + sigints'
          <5> DEFINE v == val[wsem["one"]]
                     w == val'[wsem["one"]]
                     s == Spent
                     t == Spent'
                     g == Granted
                     h == Granted'
                     k == sigints
                     l == sigints'
          <5>1. /\ v \in Nat /\ w \in Nat /\ s \in Nat /\ t \in Nat /\ g \in Nat /\ h \in Nat
                /\ k \in Nat /\ l \in Nat
                /\ v + s <= g + k /\ t = s /\ l = k /\ w - h <= v - g
            BY <1>1, <2>4, <2>13, <3>1, <4>1, <4>2
          <5> HIDE DEF v, w, s, t, g, h, k, l
          <5>2. w + t <= h + l
            BY <5>1
          <5>3. QED
            BY <5>2 DEF w, t, h, l
        <4>4. val'[wsem["two"]] = Len(text) - Fetched'
          <5> DEFINE v == val[wsem["two"]]
                     w == val'[wsem["two"]]
                     f == Fetched
                     g == Fetched'
                     n == Len(text)
          <5>1. /\ v \in Nat /\ w \in Nat /\ f \in Nat /\ g \in Nat /\ n \in Nat
                /\ v = n - f /\ w + g = v + f
            BY <1>1, <2>4, <2>13, <4>1, <4>2
          <5> HIDE DEF v, w, f, g, n
          <5>2. w = n - g
            BY <5>1
          <5>3. QED
            BY <5>2 DEF w, g, n
        <4>5. QED
          BY <1>3, <2>13, <4>3, <4>4 DEF InStep
    <2>14. ASSUME UNCHANGED text, Finished, val'[wsem["two"]] = val[wsem["two"]],
                  rsem'["two"] = wsem["two"] =>
                    rc' = 0 /\ rpc' \notin {"put", "post", "test", "ended"}
           PROVE  Finished'
      BY <1>3, <2>14 DEF Finished, HandedOver
    <2>15. CASE StartReader
      <3>1. /\ UNCHANGED <<text, wpc, sigints, val>> /\ rpc \in Gone
            /\ rsem'["one"] = NoSem /\ rsem'["two"] = NoSem
        BY <2>15 DEF StartReader, NoHandles, Names
      <3>2. wsem["one"] # NoSem
        BY <1>3 DEF Partners
      <3>3. Fetched' = 0 /\ Granted' = 0
        BY <1>3, <2>1, <3>1, <3>2 DEF Fetched, Granted
      <3>4. CASE Finished
        BY <2>1, <2>14, <3>1, <3>4
      <3>5. CASE InStep /\ rpc = "ended" /\ rsem["two"] = wsem["two"]
        <4>1. text # << >> /\ HandedOver = END /\ rc = Len(text)
          BY <1>3, <2>2, <3>5 DEF Echoed
        <4>2. Fetched = Len(text)
          BY <1>1, <3>5, <4>1 DEF Fetched
        <4>3. val[wsem["two"]] = 0
          BY <1>1, <2>1, <3>5, <4>2 DEF InStep
        <4>4. QED
          BY <1>3, <2>1, <3>1, <4>1, <4>3 DEF Finished, HandedOver
      <3>6. CASE InStep /\ ~(rpc = "ended" /\ rsem["two"] = wsem["two"])
        <4>1. rpc # "ended" => rc = 0
          BY <2>2, <3>1 DEF Reading, Before, Gone
        <4>2. rpc = "ended" => rsem["one"] # wsem["one"]
          BY <1>3, <3>6 DEF Partners
        <4>3. Fetched = 0 /\ Granted = 0
          BY <3>1, <3>6, <4>1, <4>2 DEF Fetched, Granted, Gone
        <4>4. QED
          BY <1>1, <2>1, <2>13, <3>1, <3>3, <3>6, <4>3
      <3>7. QED
        BY <2>3, <3>4, <3>5, <3>6
    <2>16. CASE \/ open_semaphores("one", "open_one", "open_two")
                \/ open_semaphores("two", "open_two", "map") \/ open_mapping
      <3>1. /\ UNCHANGED <<text, wpc, sigints>>
        BY <2>16 DEF open_semaphores, open_mapping
      <3>2. /\ UNCHANGED <<val, rc>>
            /\ rpc \in {"open_one", "open_two", "map"} /\ rpc' \in {"open_two", "map", "greet", "failed"}
        BY <2>16, OpenOne, OpenTwo DEF open_mapping
      <3>3. rc = 0
        BY <3>2 DEF Reading, Before
      <3>4. Fetched = 0 /\ Granted = 0 /\ Fetched' = 0 /\ Granted' = 0
        BY <3>2, <3>3 DEF Fetched, Granted
      <3>5. CASE InStep
        BY <1>1, <2>1, <2>13, <3>1, <3>2, <3>4, <3>5
      <3>6. CASE Finished
        BY <2>14, <3>1, <3>2, <3>3, <3>6
      <3>7. QED
        BY <2>3, <3>5, <3>6
    <2>17. CASE Greet
      <3>1. /\ UNCHANGED <<text, wpc, sigints, rc, rsem>> /\ rpc = "greet" /\ rpc' = "wait"
            /\ val' = [val EXCEPT ![rsem["one"]] = @ + 1]
        BY <2>17 DEF Greet
      <3>2. rc = 0
        BY <3>1 DEF Reading, Before
      <3>3. /\ Fetched' = 0 /\ Fetched = 0
            /\ Granted = 0 /\ Granted' = IF rsem["one"] = wsem["one"] THEN 1 ELSE 0
        BY <1>3, <3>1, <3>2 DEF Fetched, Granted
      <3>4. /\ val'[wsem["two"]] = val[wsem["two"]]
            /\ val'[wsem["one"]] = val[wsem["one"]] + (IF rsem["one"] = wsem["one"] THEN 1 ELSE 0)
        BY <1>1, <2>1, <3>1
      <3>5. CASE InStep
        BY <1>1, <2>1, <2>13, <3>1, <3>3, <3>4, <3>5
      <3>6. CASE Finished
        BY <2>14, <3>1, <3>2, <3>4, <3>6
      <3>7. QED
        BY <2>3, <3>5, <3>6
    <2>18. CASE ReaderWait
      <3>1. /\ UNCHANGED <<text, wpc, sigints, rc, rsem>> /\ rpc = "wait" /\ rpc' = "put"
            /\ val[rsem["two"]] > 0 /\ val' = [val EXCEPT ![rsem["two"]] = @ - 1]
        BY <2>18 DEF ReaderWait
      <3>2. Granted' = Granted
        BY <1>1, <1>3, <3>1 DEF Granted
      <3>3. CASE rsem["two"] = wsem["two"]
        <4>1. /\ val'[wsem["two"]] = val[wsem["two"]] - 1 /\ val'[wsem["one"]] = val[wsem["one"]]
              /\ val[wsem["two"]] > 0
          BY <1>1, <2>1, <3>1, <3>3
        <4>2. Fetched' = Fetched + 1
          BY <1>1, <1>3, <3>1, <3>3 DEF Fetched
        <4>3. InStep
          BY <2>3, <4>1 DEF Finished
        <4>4. QED
          BY <1>1, <2>1, <2>4, <2>13, <3>1, <3>2, <4>1, <4>2, <4>3
      <3>4. CASE rsem["two"] # wsem["two"]
        <4>1. /\ val'[wsem["two"]] = val[wsem["two"]]
              /\ val'[wsem["one"]] \in Nat /\ val'[wsem["one"]] <= val[wsem["one"]]
          BY <1>1, <2>1, <3>1, <3>4
        <4>2. Fetched' = Fetched
          BY <1>3, <3>1, <3>4 DEF Fetched
        <4>3. CASE InStep
          BY <1>1, <2>1, <2>4, <2>13, <3>1, <3>2, <4>1, <4>2, <4>3
        <4>4. CASE Finished
          BY <2>14, <3>1, <3>4, <4>1, <4>4
        <4>5. QED
          BY <2>3, <4>3, <4>4
      <3>5. QED
        BY <3>3, <3>4
    <2>19. CASE PutChar
      <3>1. /\ UNCHANGED <<text, wpc, sigints, rc, rsem, val>> /\ rpc = "put" /\ rpc' = "post"
        BY <2>19 DEF PutChar
      <3>2. Fetched' = Fetched /\ Granted' = Granted
        BY <1>3, <3>1 DEF Fetched, Granted
      <3>3. CASE InStep
        BY <1>1, <2>1, <2>4, <2>13, <3>1, <3>2, <3>3
      <3>4. CASE Finished
        BY <2>5, <2>14, <3>1, <3>4
      <3>5. QED
        BY <2>3, <3>3, <3>4
    <2>20. CASE ReaderPost
      <3>1. /\ UNCHANGED <<text, wpc, sigints, rc, rsem>> /\ rpc = "post" /\ rpc' = "test"
            /\ val' = [val EXCEPT ![rsem["one"]] = @ + 1]
        BY <2>20 DEF ReaderPost
      <3>2. /\ Fetched' = Fetched
            /\ Granted' = Granted + (IF rsem["one"] = wsem["one"] THEN 1 ELSE 0)
        BY <1>1, <1>3, <3>1 DEF Fetched, Granted
      <3>3. /\ val'[wsem["two"]] = val[wsem["two"]]
            /\ val'[wsem["one"]] = val[wsem["one"]] + (IF rsem["one"] = wsem["one"] THEN 1 ELSE 0)
        BY <1>1, <2>1, <3>1
      <3>4. CASE InStep
        BY <1>1, <2>1, <2>4, <2>13, <3>1, <3>2, <3>3, <3>4
      <3>5. CASE Finished
        BY <2>5, <2>14, <3>1, <3>3, <3>5
      <3>6. QED
        BY <2>3, <3>4, <3>5
    <2>21. CASE ReaderTest
      <3>1. /\ UNCHANGED <<text, wpc, sigints, rsem, val>> /\ rc' = rc + 1
            /\ rpc = "test" /\ rpc' \in {"ended", "wait"}
        BY <2>21 DEF ReaderTest
      <3>2. Fetched' = Fetched /\ Granted' = Granted
        BY <1>1, <1>3, <3>1 DEF Fetched, Granted
      <3>3. CASE InStep
        BY <1>1, <2>1, <2>4, <2>13, <3>1, <3>2, <3>3
      <3>4. CASE Finished
        BY <2>5, <2>14, <3>1, <3>4
      <3>5. QED
        BY <2>3, <3>3, <3>4
    <2>22. ~KillReader
      BY DEF KillReader
    <2>23. CASE ReaderStep
      BY <2>16, <2>17, <2>18, <2>19, <2>20, <2>21, <2>23, ReaderCases
    <2>24. QED
      BY <1>3, <2>7, <2>8, <2>9, <2>10, <2>11, <2>12, <2>15, <2>22, <2>23, LoopCases
  <1>4. QED
    BY <1>2, <1>3, OwnStep

\* What the reader prints is what the writer has handed over.
LEMMA EchoedStep ==
    ASSUME Types, LoopPart, EchoTypes, Naming, Unused, Written, Reading, Partners, Flow, Echoed,
           [Next]_vars
    PROVE  Echoed'
  <1> SUFFICES ASSUME OwnTwo', "reader" \notin died', rsem'["two"] = wsem'["two"]
               PROVE  /\ \A i \in 1 .. Len(shown') : i <= Len(text') /\ shown'[i] = text'[i]
                      /\ rpc' = "ended" => text' # << >> /\ HandedOver' = END /\ rc' = Len(text')
    BY DEF Echoed
  <1>1. /\ OwnTwo /\ UNCHANGED <<wsem, wruns>> /\ wpc \notin {"open_one", "open_two"}
    BY OwnStep
  <1>2. /\ text \in Seq(Chars) /\ Len(text) \in Nat /\ shown \in Seq(Chars) /\ Len(shown) \in Nat
        /\ val \in [Objects -> Nat] /\ rc \in Nat /\ wsem["two"] \in Objects /\ wsem["two"] # NoSem
        /\ size \in Nat /\ file \in [0 .. size - 1 -> Chars]
    BY <1>1, OwnObjects DEF Types, EchoTypes, NoSem
  <1>3. "reader" \notin died
    BY <1>1, LoopCases
    DEF create_mapping, WriterWait, WriterRepost, GetChar, CheckRunning, WriterPost,
        WriterTest, close_semaphores, EndInput, close_write, KillWriter, StartReader, ReaderStep,
        KillReader, open_semaphores, open_mapping, Greet, ReaderWait, PutChar, ReaderPost,
        ReaderTest, vars
  <1>4. rsem["two"] = wsem["two"] =>
          /\ \A i \in 1 .. Len(shown) : i <= Len(text) /\ shown[i] = text[i]
          /\ rpc = "ended" => text # << >> /\ HandedOver = END /\ rc = Len(text)
    BY <1>1, <1>3 DEF Echoed
  \* Who has fetched a character finds it handed over.
  <1>5. ASSUME rsem["two"] = wsem["two"], rpc \in {"put", "post", "test"}
        PROVE  rc + 1 \in 1 .. Len(text) /\ text[rc + 1] = file[rc]
    <2>1. InStep
      BY <1>1, <1>3, <1>5 DEF Flow, Finished
    <2>2. Fetched = rc + 1
      BY <1>2, <1>5 DEF Fetched
    <2>3. val[wsem["two"]] \in Nat /\ val[wsem["two"]] = Len(text) - Fetched
      BY <1>2, <2>1 DEF InStep
    <2>4. rc + 1 \in 1 .. Len(text) /\ (rc + 1) - 1 = rc
      BY <1>2, <2>2, <2>3
    <2>5. QED
      BY <2>4 DEF Written
  <1> USE DEF kernel, writer, reader, bounds, WriterGoto, ReaderGoto
  <1>6. CASE UNCHANGED <<text, shown, rc, rpc, rsem>>
    BY <1>1, <1>4, <1>6 DEF HandedOver
  <1>7. CASE \/ create_mapping \/ WriterWait("greet_wait", "greet_post") \/ WriterRepost
             \/ WriterWait("wait", "get") \/ (\E x \in Chars : GetChar(x)) \/ CheckRunning
             \/ WriterTest \/ close_semaphores("one", "unlink_one", "unlink_two")
             \/ close_semaphores("two", "unlink_two", "ended") \/ EndInput
    BY <1>6, <1>7 DEF create_mapping, WriterWait, WriterRepost, GetChar, CheckRunning, WriterTest,
       close_semaphores, EndInput
  <1>8. CASE close_write \/ KillWriter \/ UNCHANGED vars
    BY <1>6, <1>8 DEF close_write, KillWriter, vars
  <1>9. CASE WriterPost
    <2>1. /\ UNCHANGED <<shown, rc, rpc, rsem>> /\ wpc = "post" /\ text' = Append(text, file[wc])
      BY <1>9 DEF WriterPost
    <2>2. Len(text') = Len(text) + 1 /\ \A i \in 1 .. Len(text) : text'[i] = text[i]
      BY <1>2, <2>1
    <2>3. rpc # "ended"
      BY <1>1, <1>4, <2>1 DEF Written, Gone
    <2>4. QED
      BY <1>1, <1>2, <1>4, <2>1, <2>2, <2>3
  <1>10. CASE StartReader
    <2>1. rsem'["two"] = NoSem
      BY <1>10 DEF StartReader, NoHandles, Names
    <2>2. QED
      BY <1>1, <1>2, <2>1
  <1>11. CASE open_semaphores("one", "open_one", "open_two")
    <2>1. /\ UNCHANGED <<shown, rc>> /\ rpc' # "ended" /\ rsem'["two"] = rsem["two"]
      BY <1>11, OpenOne
    <2>2. UNCHANGED text
      BY <1>11 DEF open_semaphores
    <2>3. QED
      BY <1>1, <1>4, <2>1, <2>2
  <1>12. CASE open_semaphores("two", "open_two", "map")
    <2>1. /\ UNCHANGED shown /\ rpc' # "ended" /\ rpc = "open_two"
      BY <1>12, OpenTwo
    <2>2. Len(shown) = 0
      BY <2>1 DEF Reading, Before
    <2>3. QED
      BY <2>1, <2>2
  <1>13. CASE open_mapping \/ Greet \/ ReaderWait \/ ReaderPost
    <2>1. /\ UNCHANGED <<text, shown, rc, rsem>> /\ rpc' # "ended"
      BY <1>13 DEF open_mapping, Greet, ReaderWait, ReaderPost
    <2>2. QED
      BY <1>1, <1>4, <2>1
  <1>14. CASE PutChar
    <2>1. /\ UNCHANGED <<text, rc, rsem>> /\ rpc = "put" /\ rpc' = "post" /\ rc < size
          /\ shown' = Append(shown, file[rc])
      BY <1>14 DEF PutChar
    <2>2. Len(shown) = rc /\ file[rc] \in Chars
      BY <1>2, <2>1 DEF Reading
    <2>3. /\ Len(shown') = Len(shown) + 1 /\ shown'[Len(shown) + 1] = file[rc]
          /\ \A i \in 1 .. Len(shown) : shown'[i] = shown[i]
      BY <1>2, <2>1, <2>2
    <2>4. rc + 1 \in 1 .. Len(text) /\ text[rc + 1] = file[rc]
      BY <1>1, <1>5, <2>1
    <2>5. ASSUME NEW i \in 1 .. Len(shown')
          PROVE  i <= Len(text') /\ shown'[i] = text'[i]
      <3>1. CASE i = rc + 1
        BY <1>2, <2>1, <2>2, <2>3, <2>4, <3>1
      <3>2. CASE i # rc + 1
        <4>1. i \in 1 .. Len(shown)
          BY <1>2, <2>2, <2>3, <3>2
        <4>2. QED
          BY <1>1, <1>4, <2>1, <2>3, <4>1
      <3>3. QED
        BY <3>1, <3>2
    <2>6. QED
      BY <2>1, <2>5
  <1>15. CASE ReaderTest
    <2>1. /\ UNCHANGED <<text, shown, rsem>> /\ rpc = "test" /\ rc' = rc + 1
          /\ rpc' = "ended" => file[rc] = END
      BY <1>15 DEF ReaderTest
    <2>2. rc + 1 \in 1 .. Len(text) /\ text[rc + 1] = file[rc]
      BY <1>1, <1>5, <2>1
    <2>3. file[rc] = END => rc + 1 = Len(text)
      BY <2>2 DEF Written
    <2>4. text # << >>
      BY <1>2, <2>2
    <2>5. QED
      BY <1>1, <1>4, <2>1, <2>2, <2>3, <2>4 DEF HandedOver
  <1>16. ~KillReader
    BY DEF KillReader
  <1>17. QED
    BY <1>1, <1>7, <1>8, <1>9, <1>10, <1>11, <1>12, <1>13, <1>14, <1>15, <1>16, LoopCases, ReaderCases

\* Nobody has been started, and nothing was handed over.
LEMMA BlockInit == Init => BlockInv
  <1> SUFFICES ASSUME Init PROVE BlockInv
    OBVIOUS
  <1>1. /\ size \in Nat /\ wpc = "off" /\ rpc = "off" /\ wruns = 0 /\ wc = 0 /\ rc = 0 /\ sigints = 0
        /\ text = << >> /\ shown = << >> /\ died = {} /\ NoSem = 0
        /\ named["one"] = 0 /\ named["two"] = 0 /\ wsem["two"] = 0
        /\ val = [o \in Objects |-> 0]
    BY DEF Init, NoHandles, NoSem, Names
  <1>2. /\ << >> \in Seq(Chars) /\ Len(<< >>) = 0
    OBVIOUS
  <1>3. EchoTypes
    BY <1>1, <1>2 DEF EchoTypes, NotOpened, Gone
  <1>4. Naming /\ Unused /\ ~OwnTwo
    BY <1>1 DEF Naming, Unused, OwnTwo, NotOpened, Gone
  <1>5. Written /\ Reading
    BY <1>1, <1>2 DEF Written, Reading, Before, Gone
  <1>6. Partners /\ Flow /\ Echoed
    BY <1>4 DEF Partners, Flow, Echoed
  <1>7. QED
    BY <1>3, <1>4, <1>5, <1>6 DEF BlockInv

\* A reader that is paired with a writer prints exactly what that writer hands
\* over, in order, all of it when it ends, and stays in step with it, but for
\* one character for each SIGINT: whichever languages they are written in,
\* whatever earlier runs have left behind, whenever the writer is killed, and
\* wherever the block ends.
THEOREM BlockEchoes == Spec => []EchoInv
  <1>1. TextInv /\ BlockInv => EchoInv
    <2> SUFFICES ASSUME TextInv, BlockInv PROVE EchoInv
      OBVIOUS
    <2>1. /\ Types /\ EchoTypes /\ Naming /\ Written /\ Reading /\ Partners /\ Flow /\ Echoed
      BY DEF TextInv, BlockInv
    <2>2. TypeOK
      <3>1. 0 .. 2 * wruns \subseteq Objects \cup {NoSem}
        BY <2>1, HandleFacts
      <3>2. QED
        BY <2>1, <3>1 DEF Types, EchoTypes, TypeOK
    <2>3. ASSUME Paired
          PROVE  /\ OwnTwo /\ "reader" \notin died /\ rsem["two"] = wsem["two"]
                 /\ \A i \in 1 .. Len(shown) : i <= Len(text) /\ shown[i] = text[i]
                 /\ rpc = "ended" => text # << >> /\ HandedOver = END /\ rc = Len(text)
                 /\ rpc # "off" \/ shown = << >>
                 /\ Len(shown) >= rc + (IF rpc = "test" THEN 1 ELSE 0)
      <3>1. /\ "reader" \notin died /\ rsem["two"] = wsem["two"] /\ wsem["two"] = 2 * wruns
            /\ wsem["two"] # 0 /\ wruns \in Nat
        BY <2>1, <2>3, HandleFacts DEF Paired
      <3>2. OwnTwo
        BY <3>1 DEF OwnTwo
      <3>3. Len(shown) \in Nat /\ rc \in Nat
        BY <2>1 DEF EchoTypes, Types
      <3>4. QED
        BY <2>1, <3>1, <3>2, <3>3 DEF Echoed, Reading
    <2>4. /\ text \in Seq(Chars) /\ shown \in Seq(Chars) /\ Len(text) \in Nat /\ Len(shown) \in Nat
          /\ rc \in Nat /\ sigints \in Nat /\ val \in [Objects -> Nat]
      BY <2>1 DEF Types, EchoTypes
    <2>5. Echo
      <3> SUFFICES ASSUME Paired
                   PROVE  /\ IsPrefix(shown, text)
                          /\ rpc = "ended" => shown = text /\ shown # << >> /\ Last(shown) = END
        BY DEF Echo
      <3>1. /\ \A i \in 1 .. Len(shown) : i <= Len(text) /\ shown[i] = text[i]
        BY <2>3
      <3>2. Len(shown) <= Len(text)
        BY <2>4, <3>1
      <3>3. IsPrefix(shown, text)
        BY <2>4, <3>1, <3>2 DEF IsPrefix
      <3>4. ASSUME rpc = "ended" PROVE shown = text /\ shown # << >> /\ Last(shown) = END
        <4>1. Len(shown) = Len(text) /\ text # << >> /\ text[Len(text)] = END
          BY <2>1, <2>3, <3>4 DEF Reading, HandedOver
        <4>2. shown = text
          BY <2>4, <3>1, <4>1
        <4>3. QED
          BY <4>1, <4>2 DEF Last
      <3>5. QED
        BY <3>3, <3>4
    <2>6. NotFarAhead
      <3> SUFFICES ASSUME Paired, Served PROVE Len(text) <= Len(shown) + 1 + sigints
        BY DEF NotFarAhead
      <3>1. /\ val[wsem["one"]] \in Nat /\ val[wsem["two"]] \in Nat
        BY <2>1, <2>3, <2>4, OwnObjects
      <3>2. InStep
        <4>1. Finished => rc = 0 /\ rpc \notin {"put", "post", "test", "ended"} /\ val[rsem["two"]] = 0
          BY <2>3 DEF Finished
        <4>2. Finished => Len(shown) = 0
          BY <2>1, <2>3, <2>4, <4>1 DEF Reading
        <4>3. ~Finished
          BY <2>4, <4>1, <4>2 DEF Served
        <4>4. QED
          BY <2>1, <2>3, <4>3 DEF Flow
      <3>3. Granted \in Nat /\ Granted <= Len(shown) + 1
        BY <2>3, <2>4 DEF Granted
      <3>4. Spent \in Nat /\ Len(text) <= Spent
        BY <2>4 DEF Spent
      <3>5. val[wsem["one"]] + Spent <= Granted + sigints
        BY <3>2 DEF InStep
      <3>6. QED
        BY <2>4, <3>1, <3>3, <3>4, <3>5
    <2>7. QED
      BY <2>2, <2>5, <2>6 DEF EchoInv
  <1>2. TextInv /\ BlockInv /\ [Next]_vars => BlockInv'
    <2> SUFFICES ASSUME TextInv, BlockInv, [Next]_vars PROVE BlockInv'
      OBVIOUS
    <2>1. Types /\ Types' /\ LoopPart
      BY TypesStep DEF TextInv
    <2>2. QED
      BY <2>1, EchoTypesStep, NamingStep, UnusedStep, WrittenStep, ReadingStep, PartnersStep,
         FlowStep, EchoedStep DEF BlockInv
  <1>3. QED
    BY <1>1, <1>2, InvInit, TextStep, BlockInit, PTL DEF Spec

=============================================================================
