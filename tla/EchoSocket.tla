----------------------------- MODULE EchoSocket -----------------------------
(***************************************************************************)
(* The TCP echo server and its clients: c/ipc/include/socket.h with        *)
(* server.c and client.c, and cpp/ipc/message_passing/socket/sockets.hh.   *)
(* The server accepts one client, sends everything back to it, and ends    *)
(* when it is sent "done".  More clients can connect, but are never        *)
(* accepted.                                                               *)
(*                                                                         *)
(* All messages have BUFFER_SIZE bytes, but TCP carries bytes, and read()  *)
(* may return with a part of a message, which it puts over the front of    *)
(* what the buffer holds.  A message is modelled as three parts: bytes 1   *)
(* and 2, bytes 3 and 4, and the rest.  The first two tell "done" from     *)
(* other messages; a read() may end inside of them, or after them.         *)
(***************************************************************************)
EXTENDS Naturals, Sequences, SequencesExt

CONSTANTS Clients,
          NoClient,
          MaxSplits,       \* bound on read()s that leave the rest of a message
          SetupMayFail,    \* may socket, bind, listen, connect or accept fail?
          MaxKills,        \* bound on clients killed
          MaxStream        \* bound on the parts on their way when a line is typed

ASSUME SocketAssumption ==
    /\ NoClient \notin Clients
    /\ MaxSplits \in Nat /\ SetupMayFail \in BOOLEAN
    /\ MaxKills \in Nat /\ MaxStream \in Nat

BUFFER_SIZE == 3    \* in parts

\* What may be typed: "fine" ends like "done", and "door" begins like it.
Texts == {<<"do", "ne", "">>, <<"fi", "ne", " day">>, <<"do", "or", "way">>}
Empty == <<"", "", "">>
Junk  == <<"?", "?", "?">>

\* strncasecmp(b, "done", 4) == 0
IsDone(b) == b[1] = "do" /\ b[2] = "ne"

VARIABLES
    language,             \* which of the two versions is run
    spc, buffer,          \* where the server is; its buffer
    partner, backlog,     \* the accepted client; those that wait for accept()
    cpc,                  \* where each client is
    msg, received,        \* the two buffers of each client
    up, down,             \* the parts on their way to and from the server
    said,                 \* auxiliary: has the client sent "done"?
    splits,               \* how many read()s have left the rest of a message
    kills

server  == <<spc, buffer, partner>>
client  == <<cpc, msg, received>>
streams == <<up, down>>
vars    == <<language, server, backlog, client, streams, said, splits, kills>>

\* The C server's buffer is not initialized: it may even begin with "done".
Init ==
    /\ language \in {"c", "cpp"}
    /\ spc = "off"
    /\ buffer \in IF language = "c" THEN Texts \cup {Junk} ELSE {Empty}
    /\ partner = NoClient /\ backlog = << >>
    /\ cpc = [c \in Clients |-> "off"]
    /\ msg = [c \in Clients |-> Empty]
    /\ received = [c \in Clients |-> Empty]
    /\ up = [c \in Clients |-> << >>] /\ down = [c \in Clients |-> << >>]
    /\ said = [c \in Clients |-> FALSE]
    /\ splits = 0
    /\ kills = 0

Listening  == spc \in {"accept", "read", "echo", "test", "close"}
Away(c)    == cpc[c] \in {"done", "failed", "killed"}

\* Has the server's side of the connection been closed?
HungUp(c) == IF c = partner THEN spc \in {"close", "done", "killed"} ELSE ~Listening

\* Slip: read() is given an offset that leaves the front as it was.
FilledSlip(b, s, k) == [i \in 1 .. BUFFER_SIZE |-> IF i = 1 THEN b[i] ELSE s[1]]

\* read() puts the first k parts of the stream to the front of the buffer.
Filled(b, s, k) == [i \in 1 .. BUFFER_SIZE |-> IF i <= k THEN s[i] ELSE b[i]]

\* Does a read() of k parts leave the rest of a message behind?
CutShort(s, k) == k < BUFFER_SIZE /\ k < Len(s)

\* How much a read() of BUFFER_SIZE bytes may take.
Portions(s) ==
    {k \in 1 .. BUFFER_SIZE : k <= Len(s) /\ (CutShort(s, k) => splits < MaxSplits)}

-----------------------------------------------------------------------------
(* The server *)

\* create_socket and bind_to_server; any failure ends the server.
bind_to_server ==
    /\ spc = "off"
    /\ \/ spc' = "accept"
       \/ SetupMayFail /\ spc' = "failed"
    /\ UNCHANGED <<language, buffer, partner, backlog, client, streams, said, kills, splits>>

\* accept(); a failure ends the server.
Accept ==
    /\ spc = "accept"
    /\ \/ /\ backlog # << >>
          /\ partner' = Head(backlog)
          /\ backlog' = Tail(backlog)
          /\ spc' = "read"
       \/ SetupMayFail /\ spc' = "failed" /\ UNCHANGED <<partner, backlog>>
    /\ UNCHANGED <<language, buffer, client, streams, said, kills, splits>>

\* Slip: only a message that arrives whole is echoed.
ServerReadSlip ==
    /\ spc = "read"
    /\ \/ \E k \in Portions(up[partner]) :
             /\ buffer' = Filled(buffer, up[partner], k)
             /\ up' = [up EXCEPT ![partner] = SubSeq(@, k + 1, Len(@))]
             /\ splits' = splits + (IF CutShort(up[partner], k) THEN 1 ELSE 0)
             /\ spc' = IF k = BUFFER_SIZE THEN "echo" ELSE "test"
       \/ /\ up[partner] = << >> /\ Away(partner)
          /\ spc' = "test"
          /\ UNCHANGED <<buffer, up, splits>>
    /\ UNCHANGED <<language, partner, backlog, client, down, said, kills>>

\* read(): some bytes, or 0 or -1 when the client is gone.
ServerRead ==
    /\ spc = "read"
    /\ \/ \E k \in Portions(up[partner]) :
             /\ buffer' = Filled(buffer, up[partner], k)
             /\ up' = [up EXCEPT ![partner] = SubSeq(@, k + 1, Len(@))]
             /\ splits' = splits + (IF CutShort(up[partner], k) THEN 1 ELSE 0)
             /\ spc' = "echo"
       \/ /\ up[partner] = << >> /\ Away(partner)
          /\ spc' = "test"
          /\ UNCHANGED <<buffer, up, splits>>
    /\ UNCHANGED <<language, partner, backlog, client, down, said, kills>>

\* The whole buffer is written back, however much was read.  When the client
\* is gone, the bytes are lost, and SIGPIPE may kill the server.
Echo ==
    /\ spc = "echo"
    /\ \/ /\ ~Away(partner)
          /\ spc' = "test"
          /\ down' = [down EXCEPT ![partner] = @ \o buffer]
       \/ /\ Away(partner)
          /\ spc' \in {"test", "killed"}
          /\ UNCHANGED down
    /\ UNCHANGED <<language, buffer, partner, backlog, client, up, said, kills, splits>>

\* Slip: the test asks for a message that is not "done".
TestDoneSlip ==
    /\ spc = "test"
    /\ spc' = IF IsDone(buffer) THEN "read" ELSE "close"
    /\ UNCHANGED <<language, buffer, partner, backlog, client, streams, said, kills, splits>>

\* "done" closes the connection.  If the client has sent more than was read,
\* the reset may overtake what the client has not read yet.
TestDone ==
    /\ spc = "test"
    /\ IF IsDone(buffer)
       THEN /\ spc' = "close"
            /\ down' \in IF up[partner] = << >> THEN {down}
                         ELSE {down, [down EXCEPT ![partner] = << >>]}
       ELSE spc' = "read" /\ UNCHANGED down
    /\ UNCHANGED <<language, buffer, partner, backlog, client, up, said, kills, splits>>

\* The listening socket is closed, and with it all connections in backlog.
CloseServer ==
    /\ spc = "close"
    /\ spc' = "done"
    /\ UNCHANGED <<language, buffer, partner, backlog, client, streams, said, kills, splits>>

Server == bind_to_server \/ Accept \/ ServerRead \/ Echo \/ TestDone \/ CloseServer

-----------------------------------------------------------------------------
(* The clients *)

ClientGoto(c, from, to) == cpc[c] = from /\ cpc' = [cpc EXCEPT ![c] = to]

\* create_socket, get_address and connect_to_server; any failure ends the client.
connect_to_server(c) ==
    /\ cpc[c] = "off"
    /\ \/ /\ Listening
          /\ cpc' = [cpc EXCEPT ![c] = "ask"]
          /\ backlog' = Append(backlog, c)
       \/ /\ ~Listening \/ SetupMayFail
          /\ cpc' = [cpc EXCEPT ![c] = "failed"]
          /\ UNCHANGED backlog
    /\ UNCHANGED <<language, server, msg, received, streams, said, kills, splits>>

\* A line is typed.
Type(c) ==
    /\ ClientGoto(c, "ask", "write")
    /\ Len(up[c]) + Len(down[c]) <= MaxStream
    /\ \E m \in Texts : msg' = [msg EXCEPT ![c] = m]
    /\ UNCHANGED <<language, server, backlog, received, streams, said, kills, splits>>

\* write(); when the server has hung up the bytes are lost, and SIGPIPE may
\* kill the client.
ClientWrite(c) ==
    /\ cpc[c] = "write"
    /\ \/ /\ ~HungUp(c)
          /\ cpc' = [cpc EXCEPT ![c] = "read"]
          /\ up' = [up EXCEPT ![c] = @ \o msg[c]]
          /\ said' = [said EXCEPT ![c] = @ \/ IsDone(msg[c])]
       \/ /\ HungUp(c)
          /\ \E to \in {"read", "killed"} : cpc' = [cpc EXCEPT ![c] = to]
          /\ UNCHANGED <<up, said>>
    /\ UNCHANGED <<language, server, backlog, msg, received, down, splits, kills>>

\* Where a read() that returns 0 leads to: continue begins the while (true)
\* of the C version anew, and goes to the test of the C++ do ... while.
OnEof == IF language = "c" THEN "ask" ELSE "test"

\* read(): some bytes; or 0; or -1, which is taken for a message.
ClientRead(c) ==
    /\ cpc[c] = "read"
    /\ \/ \E k \in Portions(down[c]) :
             /\ received' = [received EXCEPT ![c] = Filled(@, down[c], k)]
             /\ down' = [down EXCEPT ![c] = SubSeq(@, k + 1, Len(@))]
             /\ splits' = splits + (IF CutShort(down[c], k) THEN 1 ELSE 0)
             /\ cpc' = [cpc EXCEPT ![c] = "test"]
       \/ /\ down[c] = << >> /\ HungUp(c)
          /\ \E to \in {OnEof, "test"} : cpc' = [cpc EXCEPT ![c] = to]
          /\ UNCHANGED <<received, down, splits>>
    /\ UNCHANGED <<language, server, backlog, msg, up, said, kills>>

\* The C version looks at what it has received, the C++ one at what it sent.
ClientDone(c) == IF language = "c" THEN IsDone(received[c]) ELSE IsDone(msg[c])

TestReply(c) ==
    /\ ClientGoto(c, "test", IF ClientDone(c) THEN "done" ELSE "ask")
    /\ UNCHANGED <<language, server, backlog, msg, received, streams, said, kills, splits>>

Client(c) == ClientWrite(c) \/ ClientRead(c) \/ TestReply(c)

\* Ctrl-C: there is no handler.  When the client had not read everything, the
\* reset may overtake what the server has not read yet.
KillClient(c) ==
    /\ kills < MaxKills
    /\ cpc[c] \in {"ask", "write", "read", "test"}
    /\ kills' = kills + 1
    /\ cpc' = [cpc EXCEPT ![c] = "killed"]
    /\ up' \in IF down[c] = << >> THEN {up} ELSE {up, [up EXCEPT ![c] = << >>]}
    /\ UNCHANGED <<language, server, backlog, msg, received, down, said, splits>>

-----------------------------------------------------------------------------

Next ==
    \/ Server
    \/ \E c \in Clients : connect_to_server(c) \/ Type(c) \/ Client(c) \/ KillClient(c)

Spec == Init /\ [][Next]_vars

\* The server is started, and the processes are scheduled.  Nobody has to
\* start a client or to type.
FairSpec == Spec /\ WF_vars(Server) /\ \A c \in Clients : WF_vars(Client(c))

-----------------------------------------------------------------------------
(* Properties *)

\* Buffers keep their length, and, while messages arrive whole, never more
\* than one is on its way between a client and the server: each waits for the
\* other.
TypeOK ==
    /\ Len(buffer) = BUFFER_SIZE /\ \A c \in Clients : Len(received[c]) = BUFFER_SIZE
    /\ partner \in Clients \cup {NoClient}
    /\ \A c \in Clients : splits = 0 => Len(up[c]) + Len(down[c]) <= BUFFER_SIZE

\* "echo as confirmation": what the client has received, when it looks at
\* it, is the message it has sent last, as long as messages arrive whole.
EchoConfirms ==
    \A c \in Clients :
        cpc[c] = "test" /\ ~HungUp(c) /\ splits = 0 => received[c] = msg[c]

\* The C++ server, whose buffer is initialized, closes only because its
\* partner has sent "done", as long as messages arrive whole: after "fine"
\* the first two bytes of "door" would make a "done", too.
EndsOnlyOnDone ==
    language = "cpp" /\ splits = 0 /\ spc \in {"close", "done"} => said[partner]

\* Client and server agree on what was said: the echo is the message, and the
\* server does not hear a "done" that nobody has said.
EchoInv == TypeOK /\ EchoConfirms /\ EndsOnlyOnDone

\* Clients that have sent "done", that have gone, that are in read().
Sayers == {c \in Clients : said[c]}
Leavers == {c \in Clients : Away(c)}
Readers == {c \in Clients : cpc[c] = "read"}

\* "done" by the accepted client ends both sides, even if the client is gone
\* before the server gets to it, unless the message falls apart.
DoneEndsBoth ==
    partner \in Sayers ~>
        splits > 0 \/ (spc \in {"done", "killed"} /\ partner \in Leavers)

\* However TCP cuts the messages, client and server never wait for each other:
\* the accepted client's read() always returns, because every write() of a
\* message is answered by at least one of the same length.
AnswerArrives == partner \in Readers ~> partner \notin Readers

=============================================================================
