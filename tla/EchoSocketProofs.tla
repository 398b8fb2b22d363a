--------------------------- MODULE EchoSocketProofs ---------------------------
(***************************************************************************)
(* Theorems about the echo server of task 7, c/ipc/include/socket.h and    *)
(* cpp/ipc/message_passing/socket/sockets.hh, for any set of clients and   *)
(* any number of kills and of messages that TCP cuts.                      *)
(***************************************************************************)
EXTENDS EchoSocket, SequenceTheorems, TLAPS

USE SocketAssumption

-----------------------------------------------------------------------------
(* The inductive invariant *)

Part  == {"", "do", "ne", "fi", "or", " day", "way", "?"}
Block == [1 .. 3 -> Part]

Types ==
    /\ language \in {"c", "cpp"}
    /\ spc \in {"off", "accept", "read", "echo", "test", "close", "done", "failed", "killed"}
    /\ cpc \in [Clients -> {"off", "ask", "write", "read", "test", "done", "failed", "killed"}]
    /\ msg \in [Clients -> Block]
    /\ buffer \in Block
    /\ received \in [Clients -> Block]
    /\ up \in [Clients -> Seq(Part)] /\ down \in [Clients -> Seq(Part)]
    /\ said \in [Clients -> BOOLEAN]
    /\ splits \in Nat

\* Clients connect to a server that listens, and it accepts one of them.
Connected ==
    /\ backlog \in Seq(Clients)
    /\ spc \in {"off", "accept", "failed"} => partner = NoClient
    /\ spc \notin {"off", "accept", "failed"} => partner \in Clients
    /\ spc = "off" => \A c \in Clients : cpc[c] \in {"off", "failed"}

\* As long as messages arrive whole, a "done" in the stream or in the buffer
\* of the C++ server was sent.
Heard ==
    language = "cpp" /\ splits = 0 =>
        /\ \A c \in Clients : \/ up[c] = << >>
                              \/ Len(up[c]) = 3 /\ (IsDone(up[c]) => said[c])
        /\ IsDone(buffer) => partner \in Clients /\ said[partner]
        /\ spc \in {"close", "done"} => IsDone(buffer)

NothingOnItsWay(c) == up[c] = << >> /\ down[c] = << >>

\* A client that has not been hung up on waits for its own message, wherever
\* it is.
InStep(c) ==
    /\ cpc[c] \in {"off", "ask", "write"} => NothingOnItsWay(c)
    /\ cpc[c] = "test" => NothingOnItsWay(c) /\ received[c] = msg[c]
    /\ cpc[c] = "read" =>
          \/ up[c] = msg[c] /\ down[c] = << >> /\ ~(c = partner /\ spc = "echo")
          \/ up[c] = << >> /\ down[c] = msg[c] /\ ~(c = partner /\ spc = "echo")
          \/ NothingOnItsWay(c) /\ c = partner /\ spc = "echo" /\ buffer = msg[c]
    /\ c = partner /\ spc = "echo" => cpc[c] = "read"

\* As long as messages arrive whole, at most one is on its way.
Whole ==
    splits = 0 => \A c \in Clients :
        /\ Len(up[c]) + Len(down[c]) <= 3
        /\ cpc[c] \in {"off", "failed"} => NothingOnItsWay(c)
        /\ ~Away(c) /\ ~HungUp(c) => InStep(c)

Inv == Types /\ Connected /\ Heard /\ Whole

-----------------------------------------------------------------------------
(* Messages, buffers and streams *)

\* A buffer is a sequence of three parts.
LEMMA BufferSeq ==
    ASSUME NEW b \in Block
    PROVE  b \in Seq(Part) /\ Len(b) = 3 /\ b # << >>
  <1>1. b \in Seq(Part)
    <2>1. b \in UNION {[1 .. n -> Part] : n \in Nat}
      BY DEF Block
    <2>2. QED
      BY <2>1, SeqDef
  <1>2. Len(b) = 3
    BY <1>1, LenProperties DEF Block
  <1>3. QED
    BY <1>1, <1>2

\* Three parts are a buffer.
LEMMA TripleBlock ==
    ASSUME NEW x \in Part, NEW y \in Part, NEW z \in Part
    PROVE  <<x, y, z>> \in Block /\ <<x, y, z>>[1] = x
  BY DEF Block

\* What may be typed, and what the buffers hold first, are buffers.
LEMMA TextBlocks ==
    /\ Texts \subseteq Block /\ Empty \in Block /\ Junk \in Block
    /\ ~IsDone(Empty)
  <1>1. /\ "" \in Part /\ "do" \in Part /\ "ne" \in Part /\ "fi" \in Part /\ "or" \in Part
        /\ " day" \in Part /\ "way" \in Part /\ "?" \in Part
    BY DEF Part
  <1>2. Texts \subseteq Block
    <2>1. <<"do", "ne", "">> \in Block
      BY <1>1, TripleBlock
    <2>2. <<"fi", "ne", " day">> \in Block
      BY <1>1, TripleBlock
    <2>3. <<"do", "or", "way">> \in Block
      BY <1>1, TripleBlock
    <2>4. QED
      BY <2>1, <2>2, <2>3 DEF Texts
  <1>3. Empty \in Block /\ Empty[1] = "" /\ Junk \in Block
    BY <1>1, TripleBlock DEF Empty, Junk
  <1>4. QED
    BY <1>2, <1>3 DEF IsDone

\* read() puts what it takes of the stream to the front of the buffer.
LEMMA FilledTypes ==
    ASSUME NEW b \in Block, NEW s \in Seq(Part), NEW k \in 1 .. 3, k <= Len(s)
    PROVE  Filled(b, s, k) \in Block
  BY DEF Filled, Block, BUFFER_SIZE

\* A read() that does not cut a message gets all of it.
LEMMA FilledWhole ==
    ASSUME NEW b \in Block, NEW s \in Seq(Part), Len(s) = 3
    PROVE  Filled(b, s, 3) = s
  BY DEF Filled, Block, BUFFER_SIZE

\* What a read() leaves in the stream.
LEMMA RestTypes ==
    ASSUME NEW s \in Seq(Part), NEW k \in 1 .. 3, k <= Len(s)
    PROVE  /\ SubSeq(s, k + 1, Len(s)) \in Seq(Part)
           /\ Len(SubSeq(s, k + 1, Len(s))) = Len(s) - k
           /\ Len(s) = k => SubSeq(s, k + 1, Len(s)) = << >>
  OBVIOUS

\* What a write() adds to the stream.
LEMMA WriteTypes ==
    ASSUME NEW s \in Seq(Part), NEW b \in Seq(Part), Len(b) = 3
    PROVE  /\ s \o b \in Seq(Part) /\ Len(s \o b) = Len(s) + 3
           /\ s = << >> => s \o b = b
  <1>1. s \o b \in Seq(Part) /\ Len(s \o b) = Len(s) + Len(b)
    BY ConcatProperties
  <1>2. Len(s) \in Nat
    OBVIOUS
  <1>3. s = << >> => s \o b = b
    BY ConcatEmptySeq
  <1>4. QED
    BY <1>1, <1>2, <1>3

\* A reset empties a stream.
LEMMA ResetTypes ==
    ASSUME NEW f \in [Clients -> Seq(Part)], NEW c \in Clients
    PROVE  [f EXCEPT ![c] = << >>] \in [Clients -> Seq(Part)]
  <1>1. << >> \in Seq(Part)
    BY EmptySeq
  <1>2. QED
    BY <1>1

\* How much a read() may take.
LEMMA PortionTypes ==
    ASSUME NEW s \in Seq(Part), NEW k \in Portions(s)
    PROVE  k \in 1 .. 3 /\ k <= Len(s)
  BY DEF Portions, BUFFER_SIZE

\* A read() that leaves nothing of a message gets all of it.
LEMMA PortionWhole ==
    ASSUME NEW s \in Seq(Part), Len(s) = 3, NEW k \in Portions(s), ~CutShort(s, k)
    PROVE  k = 3
  BY DEF Portions, CutShort, BUFFER_SIZE

-----------------------------------------------------------------------------
(* The invariant holds initially and is kept *)

\* Nobody has connected yet.
LEMMA InvInit == Init => Inv
  <1> SUFFICES ASSUME Init PROVE Inv
    OBVIOUS
  <1>1. Texts \subseteq Block /\ Empty \in Block /\ Junk \in Block
    BY TextBlocks
  <1>3. ~IsDone(Empty)
    BY TextBlocks
  <1>4. Types
    <2>1. language \in {"c", "cpp"} /\ spc = "off" /\ cpc = [c \in Clients |-> "off"]
      BY Zenon DEF Init
    <2>2. msg \in [Clients -> Block]
      BY <1>1, Zenon DEF Init
    <2>3. buffer \in Block
      BY <1>1, Zenon DEF Init
    <2>4. received \in [Clients -> Block]
      BY <1>1, Zenon DEF Init
    <2>5. up = [c \in Clients |-> << >>] /\ down = [c \in Clients |-> << >>] /\ splits = 0
      BY Zenon DEF Init
    <2>6. said \in [Clients -> BOOLEAN]
      BY Zenon DEF Init
    <2>7. QED
      BY <2>1, <2>2, <2>3, <2>4, <2>5, <2>6 DEF Types
  <1>5. /\ spc = "off" /\ cpc = [c \in Clients |-> "off"] /\ backlog = << >> /\ partner = NoClient
        /\ up = [c \in Clients |-> << >>] /\ down = [c \in Clients |-> << >>]
    BY Zenon DEF Init
  <1>6. Connected
    BY <1>5 DEF Connected
  <1>7. Heard
    <2>1. language = "cpp" => ~IsDone(buffer)
      BY <1>3, Zenon DEF Init
    <2>2. QED
      BY <1>5, <2>1 DEF Heard
  <1>8. Whole
    BY <1>5 DEF Whole, NothingOnItsWay, HungUp, Listening
  <1>9. QED
    BY <1>4, <1>6, <1>7, <1>8 DEF Inv

\* What the steps of the server and of a client do not change.
LEMMA ServerFrame ==
    ASSUME Server
    PROVE  UNCHANGED <<language, cpc, msg, received, said>>
  BY DEF Server, bind_to_server, Accept, ServerRead, Echo, TestDone, CloseServer, client, streams

LEMMA ClientFrame ==
    ASSUME NEW c, connect_to_server(c) \/ Type(c) \/ Client(c) \/ KillClient(c)
    PROVE  UNCHANGED <<language, spc, buffer, partner>>
  BY DEF connect_to_server, Type, Client, ClientWrite, ClientRead, TestReply, KillClient, server

\* A read() of the server.
LEMMA ServerReadStep ==
    ASSUME Types, Connected, ServerRead, ~(spc' = "test" /\ up[partner] = << >> /\ Away(partner) /\ UNCHANGED <<buffer, up, splits>>)
    PROVE  \E k \in Portions(up[partner]) :
              /\ partner \in Clients /\ up[partner] \in Seq(Part) /\ k \in 1 .. 3 /\ k <= Len(up[partner])
              /\ buffer' = Filled(buffer, up[partner], k)
              /\ up' = [up EXCEPT ![partner] = SubSeq(@, k + 1, Len(@))]
              /\ splits' = splits + (IF CutShort(up[partner], k) THEN 1 ELSE 0)
              /\ spc' = "echo"
  <1>1. partner \in Clients /\ up[partner] \in Seq(Part)
    BY DEF ServerRead, Connected, Types
  <1>2. PICK k \in Portions(up[partner]) :
              /\ buffer' = Filled(buffer, up[partner], k)
              /\ up' = [up EXCEPT ![partner] = SubSeq(@, k + 1, Len(@))]
              /\ splits' = splits + (IF CutShort(up[partner], k) THEN 1 ELSE 0)
              /\ spc' = "echo"
    BY DEF ServerRead
  <1>3. k \in 1 .. 3 /\ k <= Len(up[partner])
    BY <1>1, PortionTypes
  <1>4. QED
    BY <1>1, <1>2, <1>3

\* Streams and buffers keep their types.
LEMMA TypesStep == Types /\ Connected /\ [Next]_vars => Types' /\ Connected'
  <1> SUFFICES ASSUME Types, Connected, [Next]_vars PROVE Types' /\ Connected'
    OBVIOUS
  <1> USE DEF server, client, streams
  <1>1. CASE bind_to_server
    BY <1>1 DEF bind_to_server, Types, Connected
  <1>2. CASE Accept
    <2>1. /\ UNCHANGED <<language, buffer, cpc, msg, received, up, down, said, splits>> /\ spc = "accept"
          /\ spc' \in {"read", "failed"}
      BY <1>2 DEF Accept
    <2>2. Types'
      BY <2>1 DEF Types
    <2>3. CASE spc' = "read"
      <3>1. backlog # << >> /\ partner' = Head(backlog) /\ backlog' = Tail(backlog)
        BY <1>2, <2>3 DEF Accept
      <3>2. Head(backlog) \in Clients /\ Tail(backlog) \in Seq(Clients)
        BY <3>1 DEF Connected
      <3>3. QED
        BY <2>1, <2>2, <2>3, <3>1, <3>2 DEF Connected
    <2>4. CASE spc' = "failed"
      BY <1>2, <2>1, <2>2, <2>4 DEF Accept, Connected
    <2>5. QED
      BY <2>1, <2>3, <2>4
  <1>3. CASE ServerRead
    <2>1. /\ spc = "read" /\ spc' \in {"echo", "test"}
          /\ UNCHANGED <<language, partner, backlog, cpc, msg, received, down, said>>
      BY <1>3 DEF ServerRead
    <2>2. Connected'
      BY <2>1 DEF Connected
    <2>3. buffer' \in Block /\ up' \in [Clients -> Seq(Part)] /\ splits' \in Nat
      <3>1. CASE UNCHANGED <<buffer, up, splits>>
        BY <3>1 DEF Types
      <3>2. CASE ~UNCHANGED <<buffer, up, splits>>
        <4>1. PICK k \in Portions(up[partner]) :
                 /\ partner \in Clients /\ up[partner] \in Seq(Part) /\ k \in 1 .. 3 /\ k <= Len(up[partner])
                 /\ buffer' = Filled(buffer, up[partner], k)
                 /\ up' = [up EXCEPT ![partner] = SubSeq(@, k + 1, Len(@))]
                 /\ splits' = splits + (IF CutShort(up[partner], k) THEN 1 ELSE 0)
          BY <1>3, <3>2, ServerReadStep
        <4>2. buffer' \in Block
          BY <4>1, FilledTypes DEF Types
        <4>3. SubSeq(up[partner], k + 1, Len(up[partner])) \in Seq(Part)
          BY <4>1, RestTypes
        <4>4. up' \in [Clients -> Seq(Part)]
          BY <4>1, <4>3 DEF Types
        <4>5. splits' \in Nat
          BY <4>1 DEF Types
        <4>6. QED
          BY <4>2, <4>4, <4>5
      <3>3. QED
        BY <3>1, <3>2
    <2>4. QED
      BY <2>1, <2>2, <2>3 DEF Types
  <1>4. CASE Echo
    <2>1. /\ spc = "echo" /\ spc' \in {"test", "killed"} /\ partner \in Clients
          /\ UNCHANGED <<language, buffer, partner, backlog, cpc, msg, received, up, said, splits>>
          /\ down' = down \/ down' = [down EXCEPT ![partner] = @ \o buffer]
      BY <1>4 DEF Echo, Connected
    <2>2. down[partner] \in Seq(Part) /\ buffer \in Seq(Part) /\ Len(buffer) = 3
      BY <2>1, BufferSeq DEF Types
    <2>3. down[partner] \o buffer \in Seq(Part)
      BY <2>2, WriteTypes
    <2>4. down' \in [Clients -> Seq(Part)]
      BY <2>1, <2>3 DEF Types
    <2>5. QED
      BY <2>1, <2>4 DEF Types, Connected
  <1>5. CASE TestDone
    <2>1. /\ spc = "test" /\ spc' \in {"close", "read"} /\ partner \in Clients
          /\ UNCHANGED <<language, buffer, partner, backlog, cpc, msg, received, up, said, splits>>
          /\ down' = down \/ down' = [down EXCEPT ![partner] = << >>]
      BY <1>5 DEF TestDone, Connected
    <2>2. down' \in [Clients -> Seq(Part)]
      <3>1. down \in [Clients -> Seq(Part)]
        BY DEF Types
      <3>2. [down EXCEPT ![partner] = << >>] \in [Clients -> Seq(Part)]
        BY <2>1, <3>1, ResetTypes
      <3>3. QED
        BY <2>1, <3>1, <3>2
    <2>3. QED
      BY <2>1, <2>2 DEF Types, Connected
  <1>6. CASE CloseServer
    BY <1>6 DEF CloseServer, Types, Connected
  <1>7. ASSUME NEW c \in Clients, connect_to_server(c) PROVE Types' /\ Connected'
    <2>1. /\ UNCHANGED <<language, spc, buffer, partner, msg, received, up, down, said, splits>>
          /\ \/ Listening /\ cpc' = [cpc EXCEPT ![c] = "ask"] /\ backlog' = Append(backlog, c)
             \/ cpc' = [cpc EXCEPT ![c] = "failed"] /\ backlog' = backlog
      BY <1>7 DEF connect_to_server
    <2>2. Types'
      BY <2>1 DEF Types
    <2>3. backlog' \in Seq(Clients)
      BY <2>1 DEF Connected
    <2>4. spc = "off" => \A d \in Clients : cpc'[d] \in {"off", "failed"}
      BY <2>1 DEF Connected, Listening, Types
    <2>5. QED
      BY <2>1, <2>2, <2>3, <2>4 DEF Connected
  <1>8. ASSUME NEW c \in Clients, Type(c) \/ Client(c) \/ KillClient(c) PROVE Types' /\ Connected'
    <2>1. /\ UNCHANGED <<language, spc, buffer, partner, backlog>>
          /\ cpc[c] \in {"ask", "write", "read", "test"}
          /\ \E to \in {"ask", "write", "read", "test", "done", "killed"} : cpc' = [cpc EXCEPT ![c] = to]
      BY <1>8 DEF Type, Client, ClientWrite, ClientRead, TestReply, KillClient, ClientGoto, OnEof
    <2>2. spc # "off"
      BY <2>1 DEF Connected
    <2>3. Connected'
      BY <2>1, <2>2 DEF Connected
    <2>4. cpc' \in [Clients -> {"off", "ask", "write", "read", "test", "done", "failed", "killed"}]
      BY <2>1 DEF Types
    <2>5. CASE Type(c)
      <3>1. Texts \subseteq Block
        BY TextBlocks
      <3>2. /\ msg' \in [Clients -> Block] /\ UNCHANGED <<received, up, down, said, splits>>
        BY <2>5, <3>1 DEF Type, Types
      <3>3. QED
        BY <2>1, <2>3, <2>4, <3>2 DEF Types
    <2>6. CASE ClientWrite(c)
      <3>1. /\ up[c] \in Seq(Part) /\ msg[c] \in Seq(Part) /\ Len(msg[c]) = 3
        BY BufferSeq DEF Types
      <3>2. up[c] \o msg[c] \in Seq(Part)
        BY <3>1, WriteTypes
      <3>3. up' \in [Clients -> Seq(Part)]
        BY <2>6, <3>2 DEF ClientWrite, Types
      <3>4. said' \in [Clients -> BOOLEAN]
        BY <2>6 DEF ClientWrite, Types
      <3>5. UNCHANGED <<msg, received, down, splits>>
        BY <2>6 DEF ClientWrite
      <3>6. QED
        BY <2>1, <2>3, <2>4, <3>3, <3>4, <3>5 DEF Types
    <2>7. CASE ClientRead(c)
      <3>1. UNCHANGED <<msg, up, said>>
        BY <2>7 DEF ClientRead
      <3>2. CASE UNCHANGED <<received, down, splits>>
        BY <2>1, <2>3, <2>4, <3>1, <3>2 DEF Types
      <3>3. CASE ~UNCHANGED <<received, down, splits>>
        <4>1. PICK k \in Portions(down[c]) :
                 /\ received' = [received EXCEPT ![c] = Filled(@, down[c], k)]
                 /\ down' = [down EXCEPT ![c] = SubSeq(@, k + 1, Len(@))]
                 /\ splits' = splits + (IF CutShort(down[c], k) THEN 1 ELSE 0)
          BY <2>7, <3>3 DEF ClientRead
        <4>2. down[c] \in Seq(Part) /\ received[c] \in Block
          BY DEF Types
        <4>3. k \in 1 .. 3 /\ k <= Len(down[c])
          BY <4>2, PortionTypes
        <4>4. Filled(received[c], down[c], k) \in Block
          BY <4>2, <4>3, FilledTypes
        <4>5. SubSeq(down[c], k + 1, Len(down[c])) \in Seq(Part)
          BY <4>2, <4>3, RestTypes
        <4>6. received' \in [Clients -> Block]
          BY <4>1, <4>4 DEF Types
        <4>7. down' \in [Clients -> Seq(Part)] /\ splits' \in Nat
          BY <4>1, <4>5 DEF Types
        <4>8. QED
          BY <2>1, <2>3, <2>4, <3>1, <4>6, <4>7 DEF Types
      <3>4. QED
        BY <3>2, <3>3
    <2>8. CASE TestReply(c)
      BY <2>1, <2>3, <2>4, <2>8 DEF TestReply, Types
    <2>9. CASE KillClient(c)
      <3>1. UNCHANGED <<msg, received, down, said, splits>> /\ (up' = up \/ up' = [up EXCEPT ![c] = << >>])
        BY <2>9 DEF KillClient
      <3>2. up' \in [Clients -> Seq(Part)]
        <4>1. up \in [Clients -> Seq(Part)]
          BY DEF Types
        <4>2. [up EXCEPT ![c] = << >>] \in [Clients -> Seq(Part)]
          BY <4>1, ResetTypes
        <4>3. QED
          BY <3>1, <4>1, <4>2
      <3>3. QED
        BY <2>1, <2>3, <2>4, <3>1, <3>2 DEF Types
    <2>10. QED
      BY <1>8, <2>5, <2>6, <2>7, <2>8, <2>9 DEF Client
  <1>9. CASE UNCHANGED vars
    BY <1>9 DEF vars, Types, Connected
  <1>10. QED
    BY <1>1, <1>2, <1>3, <1>4, <1>5, <1>6, <1>7, <1>8, <1>9 DEF Next, Server

\* The count of cut messages never goes back.
LEMMA SplitsGrow ==
    ASSUME Types, [Next]_vars, splits' = 0
    PROVE  splits = 0
  <1>1. splits' = splits \/ \E n \in {0, 1} : splits' = splits + n
    BY DEF Next, Server, bind_to_server, Accept, ServerRead, Echo, TestDone, CloseServer,
           connect_to_server, Type, Client, ClientWrite, ClientRead, TestReply, KillClient, vars
  <1>2. QED
    BY <1>1 DEF Types

\* A read() that gets a whole message.
LEMMA WholeRead ==
    ASSUME NEW s \in Seq(Part), Len(s) = 3, NEW b \in Block, NEW k \in Portions(s),
           ~CutShort(s, k)
    PROVE  Filled(b, s, k) = s /\ SubSeq(s, k + 1, Len(s)) = << >>
  <1>1. k = 3
    BY PortionWhole
  <1>2. Filled(b, s, 3) = s
    BY FilledWhole
  <1>3. SubSeq(s, 3 + 1, Len(s)) = << >>
    BY RestTypes
  <1>4. QED
    BY <1>1, <1>2, <1>3

\* As long as messages arrive whole, the C++ server hears only what was sent.
LEMMA HeardStep == Types /\ Connected /\ Heard /\ Whole /\ [Next]_vars => Heard'
  <1> SUFFICES ASSUME Types, Connected, Heard, Whole, [Next]_vars, language' = "cpp", splits' = 0
               PROVE  Heard'
    BY DEF Heard
  <1>0. splits = 0
    BY SplitsGrow
  <1>1. language = "cpp"
    BY ServerFrame, ClientFrame DEF Next, vars
  <1> DEFINE Stream(c) == up[c] = << >> \/ (Len(up[c]) = 3 /\ (IsDone(up[c]) => said[c]))
  <1>2. /\ \A c \in Clients : Stream(c)
        /\ IsDone(buffer) => partner \in Clients /\ said[partner]
        /\ spc \in {"close", "done"} => IsDone(buffer)
    BY <1>0, <1>1 DEF Heard
  <1> SUFFICES /\ \A c \in Clients : Stream(c)'
               /\ IsDone(buffer') => partner' \in Clients /\ said'[partner']
               /\ spc' \in {"close", "done"} => IsDone(buffer')
    BY DEF Heard, IsDone
  <1> USE DEF server, client, streams
  <1>3. CASE /\ UNCHANGED <<up, said, partner, buffer>>
             /\ spc' \in {"close", "done"} => spc \in {"close", "done"} \/ IsDone(buffer)
    BY <1>2, <1>3 DEF IsDone
  <1>4. CASE bind_to_server \/ TestDone \/ CloseServer \/ Echo
    BY <1>3, <1>4 DEF bind_to_server, TestDone, CloseServer, Echo
  <1>5. CASE Accept
    <2>1. partner = NoClient /\ UNCHANGED <<up, said, buffer>> /\ spc' \in {"read", "failed"}
      BY <1>5 DEF Accept, Connected
    <2>2. ~IsDone(buffer)
      BY <1>2, <2>1
    <2>3. QED
      BY <1>2, <2>1, <2>2 DEF IsDone
  <1>6. CASE ServerRead
    <2>1. CASE spc' = "test" /\ UNCHANGED <<buffer, up>>
      BY <1>3, <1>6, <2>1 DEF ServerRead
    <2>2. CASE ~(spc' = "test" /\ UNCHANGED <<buffer, up>>)
      <3>1. PICK k \in Portions(up[partner]) :
              /\ partner \in Clients /\ up[partner] \in Seq(Part) /\ k \in 1 .. 3 /\ k <= Len(up[partner])
              /\ buffer' = Filled(buffer, up[partner], k)
              /\ up' = [up EXCEPT ![partner] = SubSeq(@, k + 1, Len(@))]
              /\ splits' = splits + (IF CutShort(up[partner], k) THEN 1 ELSE 0)
              /\ spc' = "echo"
        BY <1>6, <2>2, ServerReadStep
      <3>2. UNCHANGED <<said, partner>>
        BY <1>6 DEF ServerRead
      <3>3. Len(up[partner]) = 3 /\ (IsDone(up[partner]) => said[partner])
        <4>1. Len(<< >>) = 0
          BY EmptySeq
        <4>2. QED
          BY <1>2, <3>1, <4>1
      <3>4. ~CutShort(up[partner], k)
        BY <1>0, <3>1
      <3>5. buffer' = up[partner] /\ SubSeq(up[partner], k + 1, Len(up[partner])) = << >>
        BY <3>1, <3>3, <3>4, WholeRead DEF Types
      <3>6. \A c \in Clients : up'[c] = IF c = partner THEN << >> ELSE up[c]
        BY <3>1, <3>5 DEF Types
      <3>7. QED
        BY <1>2, <3>1, <3>2, <3>3, <3>5, <3>6 DEF IsDone
    <2>3. QED
      BY <2>1, <2>2
  <1>7. ASSUME NEW c \in Clients, connect_to_server(c) \/ Type(c) \/ ClientRead(c) \/ TestReply(c)
        PROVE  UNCHANGED <<up, said, partner, buffer, spc>>
    BY <1>7 DEF connect_to_server, Type, ClientRead, TestReply
  <1>8. ASSUME NEW c \in Clients, ClientWrite(c) \/ KillClient(c)
        PROVE  /\ UNCHANGED <<partner, buffer, spc>>
               /\ \A d \in Clients : Stream(d)' /\ (said[d] => said'[d])
    <2>1. CASE UNCHANGED <<up, said>>
      BY <1>2, <1>8, <2>1 DEF ClientWrite, KillClient, IsDone
    <2>2. CASE KillClient(c) /\ up' = [up EXCEPT ![c] = << >>]
      <3>1. UNCHANGED <<partner, buffer, spc, said>>
        BY <2>2 DEF KillClient
      <3>2. \A d \in Clients : up'[d] = IF d = c THEN << >> ELSE up[d]
        BY <2>2 DEF Types
      <3>3. QED
        BY <1>2, <3>1, <3>2 DEF IsDone
    <2>3. CASE ClientWrite(c) /\ ~UNCHANGED <<up, said>>
      <3>1. /\ UNCHANGED <<partner, buffer, spc>> /\ cpc[c] = "write" /\ ~HungUp(c)
            /\ up' = [up EXCEPT ![c] = @ \o msg[c]]
            /\ said' = [said EXCEPT ![c] = @ \/ IsDone(msg[c])]
        BY <2>3 DEF ClientWrite
      <3>2. up[c] = << >>
        BY <1>0, <3>1 DEF Whole, InStep, NothingOnItsWay, Away
      <3>3. msg[c] \in Seq(Part) /\ Len(msg[c]) = 3
        BY BufferSeq DEF Types
      <3>4. << >> \o msg[c] = msg[c]
        BY <3>3, ConcatEmptySeq
      <3>5. /\ \A d \in Clients : up'[d] = IF d = c THEN msg[c] ELSE up[d]
            /\ \A d \in Clients : said'[d] = IF d = c THEN said[c] \/ IsDone(msg[c]) ELSE said[d]
        BY <3>1, <3>2, <3>4 DEF Types
      <3>6. ASSUME NEW d \in Clients PROVE Stream(d)' /\ (said[d] => said'[d])
        <4>1. CASE d = c
          BY <3>3, <3>5, <4>1 DEF IsDone
        <4>2. CASE d # c
          <5>1. up'[d] = up[d] /\ said'[d] = said[d]
            BY <3>5, <4>2
          <5>2. Stream(d)
            BY <1>2
          <5>3. QED
            BY <5>1, <5>2 DEF IsDone
        <4>3. QED
          BY <4>1, <4>2
      <3>7. QED
        BY <3>1, <3>6
    <2>4. QED
      BY <1>8, <2>1, <2>2, <2>3 DEF KillClient
  <1>9. CASE UNCHANGED vars
    BY <1>3, <1>9 DEF vars
  <1>10. ASSUME NEW c \in Clients, connect_to_server(c) \/ Type(c) \/ Client(c) \/ KillClient(c)
         PROVE  /\ \A d \in Clients : Stream(d)'
                /\ IsDone(buffer') => partner' \in Clients /\ said'[partner']
                /\ spc' \in {"close", "done"} => IsDone(buffer')
    <2>1. CASE ClientWrite(c) \/ KillClient(c)
      BY <1>2, <1>8, <2>1 DEF IsDone
    <2>2. CASE connect_to_server(c) \/ Type(c) \/ ClientRead(c) \/ TestReply(c)
      BY <1>2, <1>7, <2>2 DEF IsDone
    <2>3. QED
      BY <1>10, <2>1, <2>2 DEF Client
  <1>11. QED
    BY <1>4, <1>5, <1>6, <1>9, <1>10 DEF Next, Server

\* What Whole says of one client.
WholeFor(c) ==
    /\ Len(up[c]) + Len(down[c]) <= 3
    /\ cpc[c] \in {"off", "failed"} => NothingOnItsWay(c)
    /\ ~Away(c) /\ ~HungUp(c) => InStep(c)

\* Streams that do not get longer keep to the bound.
LEMMA NotLonger ==
    ASSUME NEW s, NEW t, Len(s) \in Nat, Len(t) \in Nat, Len(s) + Len(t) <= 3,
           NEW s1, NEW t1, Len(s1) \in Int, Len(t1) \in Int, Len(s1) <= Len(s), Len(t1) <= Len(t)
    PROVE  Len(s1) + Len(t1) <= 3
  <1> DEFINE a == Len(s)  b == Len(t)  a1 == Len(s1)  b1 == Len(t1)
  <1>1. a \in Nat /\ b \in Nat /\ a + b <= 3 /\ a1 \in Int /\ b1 \in Int /\ a1 <= a /\ b1 <= b
    OBVIOUS
  <1> HIDE DEF a, b, a1, b1
  <1>2. a1 + b1 <= 3
    BY <1>1
  <1>3. QED
    BY <1>2 DEF a1, b1

\* The server passes a whole message on.
LEMMA WholeServer ==
    ASSUME Types, Connected, NEW c \in Clients, WholeFor(c), Server, splits = 0, splits' = 0
    PROVE  WholeFor(c)'
  <1>1. /\ UNCHANGED <<cpc, msg, received>> /\ (Away(c)' <=> Away(c))
        /\ up[c] \in Seq(Part) /\ down[c] \in Seq(Part) /\ Len(up[c]) \in Nat /\ Len(down[c]) \in Nat
        /\ msg[c] \in Block /\ Len(<< >>) = 0 /\ cpc[c] \in {"off", "ask", "write", "read", "test", "done", "failed", "killed"}
    BY ServerFrame, EmptySeq DEF Types, Away
  <1>2. /\ msg[c] \in Seq(Part) /\ Len(msg[c]) = 3 /\ msg[c] # << >>
    BY <1>1, BufferSeq
  <1>bound. Len(up[c]) \in Nat /\ Len(down[c]) \in Nat /\ Len(up[c]) + Len(down[c]) <= 3
    BY <1>1 DEF WholeFor
  <1> USE DEF server, client, streams
  <1> USE DEF HungUp, Listening, NothingOnItsWay
  <1>3. CASE bind_to_server
    <2>1. spc = "off" /\ spc' \in {"accept", "failed"} /\ UNCHANGED <<up, down, partner>>
      BY <1>3 DEF bind_to_server
    <2>2. cpc[c] \in {"off", "failed"}
      BY <2>1 DEF Connected
    <2>3. QED
      BY <1>1, <2>1, <2>2 DEF WholeFor, InStep
  <1>4. CASE Accept
    <2>1. /\ spc = "accept" /\ UNCHANGED <<up, down>> /\ partner = NoClient
          /\ spc' = "read" \/ (spc' = "failed" /\ partner' = partner)
      BY <1>4 DEF Accept, Connected
    <2>2. ~HungUp(c) /\ c # partner
      BY <2>1
    <2>3. QED
      BY <1>1, <2>1, <2>2 DEF WholeFor, InStep
  <1>5. CASE ServerRead
    <2>1. /\ spc = "read" /\ partner \in Clients
          /\ UNCHANGED <<partner, down>>
      BY <1>5 DEF ServerRead, Connected
    <2>2. CASE spc' = "test" /\ up[partner] = << >> /\ Away(partner) /\ UNCHANGED <<buffer, up, splits>>
      BY <1>1, <2>1, <2>2 DEF WholeFor, InStep
    <2>3. CASE ~(spc' = "test" /\ up[partner] = << >> /\ Away(partner) /\ UNCHANGED <<buffer, up, splits>>)
      <3>1. PICK k \in Portions(up[partner]) :
               /\ up[partner] \in Seq(Part) /\ k \in 1 .. 3 /\ k <= Len(up[partner])
               /\ buffer' = Filled(buffer, up[partner], k)
               /\ up' = [up EXCEPT ![partner] = SubSeq(@, k + 1, Len(@))]
               /\ splits' = splits + (IF CutShort(up[partner], k) THEN 1 ELSE 0)
               /\ spc' = "echo"
        BY <1>5, <2>3, ServerReadStep
      <3>2. CASE c # partner
        <4>1. up'[c] = up[c]
          BY <3>1, <3>2 DEF Types
        <4>2. QED
          BY <1>1, <2>1, <3>1, <3>2, <4>1 DEF WholeFor, InStep
      <3>3. CASE c = partner
        <4>1. up'[c] = SubSeq(up[c], k + 1, Len(up[c])) /\ Len(up'[c]) = Len(up[c]) - k
          BY <2>1, <3>1, <3>3, RestTypes DEF Types
        <4>2. up[c] # << >>
          BY <1>1, <3>1, <3>3
        <4>3. ~(cpc[c] \in {"off", "failed"})
          BY <4>2 DEF WholeFor
        <4>4. ASSUME ~Away(c) PROVE InStep(c)'
          <5>1. InStep(c)
            BY <2>1, <3>3, <4>4 DEF WholeFor
          <5>2. cpc[c] = "read" /\ up[c] = msg[c] /\ down[c] = << >>
            BY <1>1, <2>1, <4>2, <4>4, <5>1 DEF InStep, Away
          <5>3. ~CutShort(up[partner], k)
            BY <3>1
          <5>4. Filled(buffer, up[c], k) = up[c] /\ SubSeq(up[c], k + 1, Len(up[c])) = << >>
            BY <1>1, <1>2, <3>1, <3>3, <5>2, <5>3, WholeRead DEF Types
          <5>5. buffer' = msg[c] /\ up'[c] = << >>
            BY <3>1, <3>3, <4>1, <5>2, <5>4
          <5>6. QED
            BY <1>1, <2>1, <3>1, <3>3, <5>2, <5>5 DEF InStep
        <4>5. Len(up'[c]) + Len(down'[c]) <= 3
          <5>2. Len(up'[c]) \in Int /\ Len(up'[c]) <= Len(up[c])
            BY <1>1, <3>1, <4>1
          <5>3. Len(down'[c]) \in Int /\ Len(down'[c]) <= Len(down[c])
            BY <1>1, <2>1
          <5>4. QED
            BY <1>bound, <5>2, <5>3, NotLonger, Zenon
        <4>6. QED
          BY <1>1, <4>3, <4>4, <4>5 DEF WholeFor
      <3>4. QED
        BY <3>2, <3>3
    <2>4. QED
      BY <2>2, <2>3
  <1>6. CASE Echo
    <2>1. /\ spc = "echo" /\ partner \in Clients /\ UNCHANGED <<partner, up, buffer>>
      BY <1>6 DEF Echo, Connected
    <2>2. CASE Away(partner)
      <3>1. spc' \in {"test", "killed"} /\ down' = down
        BY <1>6, <2>2 DEF Echo
      <3>2. QED
        BY <1>1, <2>1, <2>2, <3>1 DEF WholeFor, InStep
    <2>3. CASE ~Away(partner)
      <3>1. spc' = "test" /\ down' = [down EXCEPT ![partner] = @ \o buffer]
        BY <1>6, <2>3 DEF Echo
      <3>2. CASE c # partner
        <4>1. down'[c] = down[c]
          BY <3>1, <3>2 DEF Types
        <4>2. QED
          BY <1>1, <2>1, <3>1, <3>2, <4>1 DEF WholeFor, InStep
      <3>3. CASE c = partner
        <4>1. InStep(c)
          BY <2>1, <2>3, <3>3 DEF WholeFor
        <4>2. cpc[c] = "read" /\ up[c] = << >> /\ down[c] = << >> /\ buffer = msg[c]
          BY <2>1, <3>3, <4>1 DEF InStep
        <4>3. << >> \o msg[c] = msg[c]
          BY <1>2, ConcatEmptySeq
        <4>4. down'[c] = msg[c]
          BY <2>1, <3>1, <3>3, <4>2, <4>3 DEF Types
        <4>5. Len(up'[c]) + Len(down'[c]) <= 3
          <5>1. Len(up'[c]) = 0 /\ Len(down'[c]) = 3
            BY <1>1, <1>2, <2>1, <4>2, <4>4
          <5>2. QED
            BY <5>1
        <4>6. InStep(c)'
          BY <1>1, <2>1, <3>1, <4>2, <4>4 DEF InStep
        <4>7. QED
          BY <1>1, <4>2, <4>5, <4>6 DEF WholeFor
      <3>4. QED
        BY <3>2, <3>3
    <2>4. QED
      BY <2>2, <2>3
  <1>7. CASE TestDone
    <2>1. /\ spc = "test" /\ partner \in Clients /\ UNCHANGED <<partner, up, buffer>>
          /\ spc' \in {"close", "read"}
          /\ down' = down \/ (spc' = "close" /\ down' = [down EXCEPT ![partner] = << >>])
      BY <1>7 DEF TestDone, Connected
    <2>2. CASE down' = down
      BY <1>1, <2>1, <2>2 DEF WholeFor, InStep
    <2>3. CASE spc' = "close" /\ down' = [down EXCEPT ![partner] = << >>]
      <3>1. down'[c] = IF c = partner THEN << >> ELSE down[c]
        BY <2>3 DEF Types
      <3>2. Len(up'[c]) + Len(down'[c]) <= 3
        <4>1. /\ Len(up'[c]) \in Int /\ Len(up'[c]) <= Len(up[c])
              /\ Len(down'[c]) \in Int /\ Len(down'[c]) <= Len(down[c])
          BY <1>1, <2>1, <3>1
        <4>2. QED
          BY <1>bound, <4>1, NotLonger, Zenon
      <3>3. CASE c = partner
        BY <1>1, <2>1, <2>3, <3>1, <3>2, <3>3 DEF WholeFor
      <3>4. CASE c # partner
        BY <1>1, <2>1, <2>3, <3>1, <3>2, <3>4 DEF WholeFor, InStep
      <3>5. QED
        BY <3>3, <3>4
    <2>4. QED
      BY <2>1, <2>2, <2>3
  <1>8. CASE CloseServer
    <2>1. spc' = "done" /\ UNCHANGED <<partner, up, down>>
      BY <1>8 DEF CloseServer
    <2>2. QED
      BY <1>1, <2>1 DEF WholeFor
  <1>9. QED
    BY <1>3, <1>4, <1>5, <1>6, <1>7, <1>8 DEF Server

\* A client sends a message and gets it back whole.
LEMMA WholeClient ==
    ASSUME Types, Connected, NEW c \in Clients, WholeFor(c), splits = 0, splits' = 0,
           connect_to_server(c) \/ Type(c) \/ Client(c) \/ KillClient(c)
    PROVE  WholeFor(c)'
  <1>1. /\ UNCHANGED <<spc, buffer, partner>> /\ (HungUp(c)' <=> HungUp(c))
        /\ up[c] \in Seq(Part) /\ down[c] \in Seq(Part) /\ Len(up[c]) \in Nat /\ Len(down[c]) \in Nat
        /\ msg[c] \in Block /\ Len(<< >>) = 0
    BY ClientFrame, EmptySeq DEF Types, HungUp, Listening
  <1>2. /\ msg[c] \in Seq(Part) /\ Len(msg[c]) = 3 /\ msg[c] # << >>
    BY <1>1, BufferSeq
  <1>bound. Len(up[c]) \in Nat /\ Len(down[c]) \in Nat /\ Len(up[c]) + Len(down[c]) <= 3
    BY <1>1 DEF WholeFor
  <1> USE DEF server, client, streams, ClientGoto
  <1> USE DEF NothingOnItsWay
  <1>3. CASE connect_to_server(c)
    <2>1. cpc[c] = "off" /\ cpc'[c] \in {"ask", "failed"} /\ UNCHANGED <<up, down>>
      BY <1>3 DEF connect_to_server, Types
    <2>2. QED
      BY <1>1, <2>1 DEF WholeFor, InStep, Away
  <1>4. CASE Type(c)
    <2>1. cpc[c] = "ask" /\ cpc'[c] = "write" /\ UNCHANGED <<up, down>>
      BY <1>4 DEF Type, Types
    <2>2. QED
      BY <1>1, <2>1 DEF WholeFor, InStep, Away
  <1>5. CASE ClientWrite(c)
    <2>1. cpc[c] = "write" /\ cpc'[c] \in {"read", "killed"} /\ UNCHANGED <<msg, down>>
      BY <1>5 DEF ClientWrite, Types
    <2>2. CASE HungUp(c)
      <3>1. up' = up
        BY <1>5, <2>2 DEF ClientWrite
      <3>2. QED
        BY <1>1, <2>1, <2>2, <3>1 DEF WholeFor
    <2>3. CASE ~HungUp(c)
      <3>1. InStep(c) /\ up[c] = << >> /\ down[c] = << >> /\ ~(c = partner /\ spc = "echo")
        BY <2>1, <2>3 DEF WholeFor, InStep, Away
      <3>2. << >> \o msg[c] = msg[c]
        BY <1>2, ConcatEmptySeq
      <3>3. up'[c] = msg[c] /\ cpc'[c] = "read"
        BY <1>5, <2>3, <3>1, <3>2 DEF ClientWrite, Types
      <3>4. Len(up'[c]) + Len(down'[c]) <= 3
        <4>1. Len(up'[c]) = 3 /\ Len(down'[c]) = 0
          BY <1>1, <1>2, <2>1, <3>1, <3>3
        <4>2. QED
          BY <4>1
      <3>5. InStep(c)'
        BY <1>1, <2>1, <3>1, <3>3 DEF InStep
      <3>6. QED
        BY <3>3, <3>4, <3>5 DEF WholeFor
    <2>4. QED
      BY <2>2, <2>3
  <1>6. CASE ClientRead(c)
    <2>1. cpc[c] = "read" /\ cpc'[c] \in {"ask", "test"} /\ UNCHANGED <<msg, up>>
      BY <1>6 DEF ClientRead, OnEof, Types
    <2>2. CASE HungUp(c) /\ down' = down
      BY <1>1, <2>1, <2>2 DEF WholeFor
    <2>3. CASE ~(HungUp(c) /\ down' = down)
      <3>1. PICK k \in Portions(down[c]) :
               /\ received' = [received EXCEPT ![c] = Filled(@, down[c], k)]
               /\ down' = [down EXCEPT ![c] = SubSeq(@, k + 1, Len(@))]
               /\ splits' = splits + (IF CutShort(down[c], k) THEN 1 ELSE 0)
               /\ cpc' = [cpc EXCEPT ![c] = "test"]
        BY <1>6, <2>3 DEF ClientRead
      <3>2. k \in 1 .. 3 /\ k <= Len(down[c])
        BY <1>1, PortionTypes
      <3>3. down'[c] = SubSeq(down[c], k + 1, Len(down[c])) /\ Len(down'[c]) = Len(down[c]) - k
        BY <1>1, <3>1, <3>2, RestTypes DEF Types
      <3>4. cpc'[c] = "test" /\ received'[c] = Filled(received[c], down[c], k)
        BY <3>1 DEF Types
      <3>5. ASSUME ~HungUp(c) PROVE InStep(c)'
        <4>1. InStep(c) /\ down[c] # << >>
          BY <1>1, <2>1, <3>2, <3>5 DEF WholeFor, Away
        <4>2. up[c] = << >> /\ down[c] = msg[c] /\ ~(c = partner /\ spc = "echo")
          BY <2>1, <4>1 DEF InStep
        <4>3. ~CutShort(down[c], k) /\ received[c] \in Block
          BY <3>1 DEF Types
        <4>4. received'[c] = msg[c] /\ down'[c] = << >>
          BY <1>1, <1>2, <3>3, <3>4, <4>2, <4>3, WholeRead
        <4>5. QED
          BY <1>1, <2>1, <3>4, <4>2, <4>4 DEF InStep
      <3>6. Len(up'[c]) + Len(down'[c]) <= 3
        <4>1. Len(up'[c]) \in Int /\ Len(up'[c]) <= Len(up[c])
          BY <1>1, <2>1
        <4>2. Len(down'[c]) \in Int /\ Len(down'[c]) <= Len(down[c])
          BY <1>1, <3>2, <3>3
        <4>3. QED
          BY <1>bound, <4>1, <4>2, NotLonger, Zenon
      <3>7. QED
        BY <1>1, <3>4, <3>5, <3>6 DEF WholeFor
    <2>4. QED
      BY <2>2, <2>3
  <1>7. CASE TestReply(c)
    <2>1. cpc[c] = "test" /\ cpc'[c] \in {"done", "ask"} /\ UNCHANGED <<msg, up, down>>
      BY <1>7 DEF TestReply, Types
    <2>2. QED
      BY <1>1, <2>1 DEF WholeFor, InStep, Away
  <1>8. CASE KillClient(c)
    <2>1. /\ cpc'[c] = "killed" /\ down' = down /\ up'[c] \in {up[c], << >>}
      BY <1>8 DEF KillClient, Types
    <2>2. Len(up'[c]) + Len(down'[c]) <= 3
      <3>1. /\ Len(up'[c]) \in Int /\ Len(up'[c]) <= Len(up[c])
            /\ Len(down'[c]) \in Int /\ Len(down'[c]) <= Len(down[c])
        BY <1>1, <2>1
      <3>2. QED
        BY <1>bound, <3>1, NotLonger, Zenon
    <2>3. QED
      BY <2>1, <2>2 DEF WholeFor, Away
  <1>9. QED
    BY <1>3, <1>4, <1>5, <1>6, <1>7, <1>8 DEF Client

\* Another client is not affected by a client's step.
LEMMA OtherClient ==
    ASSUME Types, NEW c \in Clients, NEW d \in Clients, d # c, WholeFor(d),
           connect_to_server(c) \/ Type(c) \/ Client(c) \/ KillClient(c)
    PROVE  WholeFor(d)'
  <1>1. UNCHANGED <<spc, buffer, partner>>
    BY ClientFrame
  <1>2. /\ cpc'[d] = cpc[d] /\ msg'[d] = msg[d] /\ received'[d] = received[d]
    BY DEF connect_to_server, Type, Client, ClientWrite, ClientRead, TestReply, KillClient, ClientGoto,
           server, client, streams, Types
  <1>3. up'[d] = up[d] /\ down'[d] = down[d]
    BY DEF connect_to_server, Type, Client, ClientWrite, ClientRead, TestReply, KillClient, ClientGoto,
           server, client, streams, Types
  <1>4. QED
    BY <1>1, <1>2, <1>3 DEF WholeFor, InStep, NothingOnItsWay, HungUp, Listening, Away

\* As long as no message is cut, client and server move in step.
LEMMA WholeStep == Types /\ Connected /\ Whole /\ [Next]_vars => Whole'
  <1> SUFFICES ASSUME Types, Connected, Whole, [Next]_vars, splits' = 0, NEW c \in Clients
               PROVE  WholeFor(c)'
    BY DEF Whole, WholeFor
  <1>1. splits = 0
    BY SplitsGrow
  <1>2. WholeFor(c)
    BY <1>1 DEF Whole, WholeFor
  <1>3. CASE Server
    BY <1>1, <1>2, <1>3, WholeServer
  <1>4. ASSUME NEW d \in Clients, connect_to_server(d) \/ Type(d) \/ Client(d) \/ KillClient(d)
        PROVE  WholeFor(c)'
    <2>1. CASE d = c
      BY <1>1, <1>2, <1>4, <2>1, WholeClient
    <2>2. CASE d # c
      BY <1>2, <1>4, <2>2, OtherClient
    <2>3. QED
      BY <2>1, <2>2
  <1>5. CASE UNCHANGED vars
    BY <1>2, <1>5 DEF vars, server, client, streams, WholeFor, InStep, NothingOnItsWay, HungUp,
         Listening, Away
  <1>6. QED
    BY <1>3, <1>4, <1>5 DEF Next

\* "echo as confirmation": for any number of clients and kills, and as long as
\* no read() has left a part of a message behind, a client that looks at its
\* reply sees the message it has sent last, and the C++ server closes only
\* because its partner has sent "done".
THEOREM EchoAlways == Spec => []EchoInv
  <1>1. Inv => EchoInv
    <2> SUFFICES ASSUME Inv PROVE EchoInv
      OBVIOUS
    <2>1. Types /\ Connected /\ Heard /\ Whole
      BY DEF Inv
    <2>2. TypeOK
      <3>1. Len(buffer) = 3 /\ \A c \in Clients : Len(received[c]) = 3
        BY <2>1, BufferSeq DEF Types, BUFFER_SIZE
      <3>2. partner \in Clients \cup {NoClient}
        BY <2>1 DEF Connected
      <3>3. QED
        BY <2>1, <3>1, <3>2 DEF TypeOK, Whole, BUFFER_SIZE
    <2>3. EchoConfirms
      BY <2>1 DEF EchoConfirms, Whole, InStep, Away
    <2>4. EndsOnlyOnDone
      BY <2>1 DEF EndsOnlyOnDone, Heard
    <2>5. QED
      BY <2>2, <2>3, <2>4 DEF EchoInv
  <1>2. Inv /\ [Next]_vars => Inv'
    BY TypesStep, HeardStep, WholeStep DEF Inv
  <1>3. QED
    BY <1>1, <1>2, InvInit, PTL DEF Spec

=============================================================================
