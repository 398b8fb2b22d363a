------------------------ MODULE MessagePassingProofs ------------------------
(***************************************************************************)
(* Proofs about the two programs that pass messages: the message queue     *)
(* (MessageQueue), whose lines arrive in order, once and without gaps, and *)
(* whose reader leaves no line behind; and the two-way pipe (TwoWayPipe),  *)
(* whose processes hold a conversation.                                    *)
(*                                                                         *)
(* A line of the message queue is in one of four places: printed, held by  *)
(* the reader, waiting in the queue, or ready to be sent.  The invariant   *)
(* is about this stream; the steps of both programs and of their handlers  *)
(* are shown to do to it one of six things: type, send, receive, show,     *)
(* lose, or nothing.                                                       *)
(***************************************************************************)
EXTENDS MessageQueue, SequenceTheorems, TLAPS

USE QueueAssumption

-----------------------------------------------------------------------------
(* The stream of lines: those printed, the one the reader holds, those in  *)
(* the queue and the one the writer is about to send.                      *)

Texts == NoText .. MaxLines

\* Of two lines, a was typed before b, or a writer in C has repeated it.
Precedes(a, b, rep) == a > 0 /\ b > 0 => a < b \/ (a = b /\ rep)

\* s was printed, h is held, w waits in the queue, y is ready to be sent, and
\* n lines have been typed.
Bounded(s, h, w, y, n) ==
    /\ \A i \in 1 .. Len(s) : s[i] \in 0 .. n
    /\ h <= n /\ y \in {NoText, Zero, n}
    /\ \A j \in 1 .. Len(w) : w[j] <= n

\* The line that is ready is none of those before it.
Fresh(s, h, w, y, n, rep) ==
    y > 0 /\ ~rep => /\ h < n
                     /\ \A i \in 1 .. Len(s) : s[i] < n
                     /\ \A j \in 1 .. Len(w) : w[j] < n

InOrder(s, h, w, rep) ==
    /\ \A i, j \in 1 .. Len(s) : i < j => Precedes(s[i], s[j], rep)
    /\ \A i, j \in 1 .. Len(w) : i < j => Precedes(w[i], w[j], rep)
    /\ \A i \in 1 .. Len(s) : Precedes(s[i], h, rep)
    /\ \A j \in 1 .. Len(w) : Precedes(h, w[j], rep)
    /\ \A i \in 1 .. Len(s), j \in 1 .. Len(w) : Precedes(s[i], w[j], rep)

Ordered(s, h, w, y, n, rep) ==
    Bounded(s, h, w, y, n) /\ Fresh(s, h, w, y, n, rep) /\ InOrder(s, h, w, rep)

\* k was printed, or is held.
Arrived(s, h, k) == h = k \/ \E i \in 1 .. Len(s) : s[i] = k

\* Whatever was printed, was printed without a gap.
PrintedAll(s) == \A i \in 1 .. Len(s) : \A k \in 1 .. s[i] : \E j \in 1 .. i : s[j] = k

\* Nothing is missing before a line that is held or waits.
NoneMissing(s, h, w) ==
    /\ \A k \in 1 .. h : Arrived(s, h, k)
    /\ \A j \in 1 .. Len(w) : \A k \in 1 .. w[j] - 1 :
         Arrived(s, h, k) \/ \E i \in 1 .. j - 1 : w[i] = k

\* Every line that was typed is somewhere.
NoneLost(s, h, w, y, n) ==
    \A k \in 1 .. n : y = k \/ Arrived(s, h, k) \/ \E i \in 1 .. Len(w) : w[i] = k

-----------------------------------------------------------------------------
(* The invariant *)

WriterPCs == {"off", "open", "ask", "send", "test", "exit", "ended"}
ReaderPCs == {"off", "open", "receive", "show", "check", "remove", "exit", "ended"}

Control ==
    /\ lang \in [Progs -> {"c", "cpp"}]
    /\ pc \in [Progs -> WriterPCs \cup ReaderPCs]
    /\ pc["writer"] \in WriterPCs /\ pc["reader"] \in ReaderPCs
    /\ hpc \in [Progs -> {"none", "create", "send"}]
    /\ cut \in [Progs -> BOOLEAN]
    /\ runs \in [Progs -> 0 .. MaxRuns] /\ sigints \in [Progs -> 0 .. MaxSigints]
    /\ \A p \in Progs : pc[p] # "off" => runs[p] >= 1
    /\ \A p \in Progs : hpc[p] # "none" =>
         /\ lang[p] = "c" /\ ~Gone(p) /\ sigints[p] > 0
         /\ cut[p] => pc[p] \in {"ask", "send", "receive"}
         /\ hpc[p] = "send" => text[p] = Zero

\* How many queues p may have made.
Used(p) ==
    runs[p] + sigints[p] - (IF pc[p] = "open" THEN 1 ELSE 0) - (IF hpc[p] = "create" THEN 1 ELSE 0)

Queues ==
    /\ made \in Nat /\ made <= Used("writer") + Used("reader")
    /\ current \in 0 .. made
    /\ id \in [Progs -> 0 .. made] /\ hid \in [Progs -> 0 .. made]
    /\ queue \in [Ids -> Seq(Texts)]
    /\ \A q \in Ids : Len(queue[q]) <= QueueMax /\ (q # current => queue[q] = << >>)
    /\ pc["reader"] \in {"receive", "show", "check", "remove"} => id["reader"] = current /\ current # NoQueue
    /\ pc["reader"] \in {"exit", "ended"} => current # id["reader"]

Buffers ==
    /\ typed \in 0 .. MaxLines /\ fails \in Nat
    /\ text \in [Progs -> Texts] /\ type \in [Progs -> {0, 1}] /\ shown \in Seq(Texts)
    /\ text["writer"] \in {NoText, Zero, typed}
    /\ pc["writer"] \in {"ask", "send", "test"} => type["writer"] = 1
    /\ TooLong => text["reader"] = NoText

Waiting == IF current = NoQueue THEN << >> ELSE queue[current]
Held    == IF pc["reader"] = "show" THEN text["reader"] ELSE NoText
Ready   == IF pc["writer"] = "send" THEN text["writer"] ELSE NoText
Repeats == fails > 0 /\ lang["writer"] = "c"

\* Nothing but a 0 is still to come from the reader, from the writer.
ReaderDone ==
    \/ pc["reader"] \in {"show", "check"} /\ text["reader"] = Zero
    \/ pc["reader"] \in {"remove", "exit"}
    \/ Gone("reader") /\ runs["reader"] = 1
WriterDone ==
    \/ pc["writer"] \in {"send", "test"} /\ text["writer"] = Zero
    \/ pc["writer"] = "exit"
    \/ Gone("writer") /\ runs["writer"] = 1

OneRun == runs["reader"] <= 1 /\ runs["writer"] <= 1 /\ fails = 0

Complete ==
    OneRun =>
        /\ PrintedAll(shown)
        /\ ~ReaderDone =>
             /\ NoneMissing(shown, Held, Waiting)
             /\ pc["writer"] \in {"ask", "send", "test"} => id["writer"] = current /\ current # NoQueue
             /\ ~WriterDone => NoneLost(shown, Held, Waiting, Ready, typed)

StreamInv == Ordered(shown, Held, Waiting, Ready, typed, Repeats) /\ Complete

QueueInv == Control /\ Queues /\ Buffers /\ StreamInv

-----------------------------------------------------------------------------
(* What can happen to the stream *)

StreamType(s, h, w, y, n) ==
    /\ s \in Seq(Texts) /\ w \in Seq(Texts)
    /\ h \in Texts /\ y \in Texts /\ n \in 0 .. MaxLines

\* Sequences of texts: what Append, Head and Tail do to their elements.
LEMMA TextSeqs ==
    /\ NoText \in Texts /\ Zero \in Texts /\ << >> \in Seq(Texts) /\ Len(<< >>) = 0
    /\ \A w \in Seq(Texts), x \in Texts :
         /\ Append(w, x) \in Seq(Texts) /\ Len(Append(w, x)) = Len(w) + 1
         /\ \A i \in 1 .. Len(w) + 1 : Append(w, x)[i] = IF i = Len(w) + 1 THEN x ELSE w[i]
    /\ \A w \in Seq(Texts) : /\ Len(w) \in Nat
                             /\ \A i \in 1 .. Len(w) : w[i] \in Texts
    /\ \A w \in Seq(Texts) : w # << >> =>
         /\ Head(w) = w[1] /\ Head(w) \in Texts /\ Len(w) >= 1
         /\ Tail(w) \in Seq(Texts) /\ Len(Tail(w)) = Len(w) - 1
         /\ \A i \in 1 .. Len(w) - 1 : Tail(w)[i] = w[i + 1]
  <1>1. NoText \in Texts /\ Zero \in Texts
    BY DEF Texts, NoText, Zero
  <1>2. << >> \in Seq(Texts) /\ Len(<< >>) = 0
    BY EmptySeq
  <1>3. ASSUME NEW w \in Seq(Texts), NEW x \in Texts
        PROVE  /\ Append(w, x) \in Seq(Texts) /\ Len(Append(w, x)) = Len(w) + 1
               /\ \A i \in 1 .. Len(w) + 1 : Append(w, x)[i] = IF i = Len(w) + 1 THEN x ELSE w[i]
    BY AppendProperties
  <1>4. ASSUME NEW w \in Seq(Texts)
        PROVE  Len(w) \in Nat /\ \A i \in 1 .. Len(w) : w[i] \in Texts
    BY LenProperties
  <1>5. ASSUME NEW w \in Seq(Texts), w # << >>
        PROVE  /\ Head(w) = w[1] /\ Head(w) \in Texts /\ Len(w) >= 1
               /\ Tail(w) \in Seq(Texts) /\ Len(Tail(w)) = Len(w) - 1
               /\ \A i \in 1 .. Len(w) - 1 : Tail(w)[i] = w[i + 1]
    <2>1. Len(w) \in Nat /\ Len(w) # 0
      BY <1>4, <1>5, EmptySeq
    <2>2. Head(w) = w[1] /\ Head(w) \in Texts
      BY <1>5, <2>1, HeadTailProperties
    <2>3. /\ Tail(w) \in Seq(Texts) /\ Len(Tail(w)) = Len(w) - 1
          /\ \A i \in 1 .. Len(w) - 1 : Tail(w)[i] = w[i + 1]
      BY <1>5, HeadTailProperties
    <2>4. QED
      BY <2>1, <2>2, <2>3
  <1>6. QED
    BY <1>1, <1>2, <1>3, <1>4, <1>5

\* A text is sent: the line that is ready, or a 0.
LEMMA SendStream ==
    ASSUME NEW s, NEW h, NEW w, NEW y, NEW n, NEW rep,
           StreamType(s, h, w, y, n), Ordered(s, h, w, y, n, rep)
    PROVE  /\ Ordered(s, h, Append(w, y), NoText, n, rep)
           /\ Ordered(s, h, Append(w, Zero), y, n, rep)
  <1>0. /\ \A i \in 1 .. Len(s) : s[i] \in Int
        /\ \A i \in 1 .. Len(w) : w[i] \in Int
        /\ Len(s) \in Nat /\ Len(w) \in Nat /\ n \in Nat /\ h \in Int /\ y \in Int
    BY TextSeqs DEF StreamType, Texts, NoText
  <1>a. Len(s) \in Nat /\ Len(w) \in Nat
    BY <1>0
  <1>1. Ordered(s, h, Append(w, y), NoText, n, rep)
    <2>1. /\ Len(Append(w, y)) = Len(w) + 1
          /\ \A i \in 1 .. Len(w) + 1 : Append(w, y)[i] = IF i = Len(w) + 1 THEN y ELSE w[i]
      BY TextSeqs DEF StreamType
    <2> DEFINE v == Append(w, y)
    <2> HIDE DEF v
    <2>2. /\ Len(v) = Len(w) + 1
          /\ \A i \in 1 .. Len(w) + 1 : v[i] = IF i = Len(w) + 1 THEN y ELSE w[i]
      BY <2>1 DEF v
    <2>3. Ordered(s, h, v, NoText, n, rep)
      <3>1. Bounded(s, h, v, NoText, n)
        BY <1>0, <2>2 DEF Ordered, Bounded, NoText, Zero
      <3>2. Fresh(s, h, v, NoText, n, rep)
        BY <1>0, <2>2 DEF Ordered, Bounded, Fresh, NoText, Zero
      <3>3. InOrder(s, h, v, rep)
        <4>1. /\ \A i \in 1 .. Len(s) : Precedes(s[i], y, rep)
              /\ \A j \in 1 .. Len(w) : Precedes(w[j], y, rep)
              /\ Precedes(h, y, rep)
          BY <1>0 DEF Ordered, Bounded, Fresh, Precedes, NoText, Zero
        <4>2. \A i, j \in 1 .. Len(s) : i < j => Precedes(s[i], s[j], rep)
          BY <1>a, <2>2, <4>1 DEF Ordered, InOrder
        <4>3. \A i, j \in 1 .. Len(v) : i < j => Precedes(v[i], v[j], rep)
          BY <1>a, <2>2, <4>1 DEF Ordered, InOrder
        <4>4. /\ \A i \in 1 .. Len(s) : Precedes(s[i], h, rep)
              /\ \A j \in 1 .. Len(v) : Precedes(h, v[j], rep)
          BY <1>a, <2>2, <4>1 DEF Ordered, InOrder
        <4>5. \A i \in 1 .. Len(s), j \in 1 .. Len(v) : Precedes(s[i], v[j], rep)
          BY <1>a, <2>2, <4>1 DEF Ordered, InOrder
        <4>6. QED
          BY <4>2, <4>3, <4>4, <4>5 DEF InOrder
      <3>4. QED
        BY <3>1, <3>2, <3>3 DEF Ordered
    <2>4. QED
      BY <2>3 DEF v
  <1>2. Ordered(s, h, Append(w, Zero), y, n, rep)
    <2>1. /\ Len(Append(w, Zero)) = Len(w) + 1
          /\ \A i \in 1 .. Len(w) + 1 : Append(w, Zero)[i] = IF i = Len(w) + 1 THEN Zero ELSE w[i]
      BY TextSeqs DEF StreamType
    <2> DEFINE v == Append(w, Zero)
    <2> HIDE DEF v
    <2>2. /\ Len(v) = Len(w) + 1
          /\ \A i \in 1 .. Len(w) + 1 : v[i] = IF i = Len(w) + 1 THEN Zero ELSE w[i]
      BY <2>1 DEF v
    <2>3. Ordered(s, h, v, y, n, rep)
      <3>1. Bounded(s, h, v, y, n)
        BY <1>0, <2>2 DEF Ordered, Bounded, NoText, Zero
      <3>2. Fresh(s, h, v, y, n, rep)
        BY <1>0, <2>2 DEF Ordered, Bounded, Fresh, NoText, Zero
      <3>3. InOrder(s, h, v, rep)
        <4>1. \A x : Precedes(x, Zero, rep)
          BY DEF Precedes, Zero
        <4>2. \A i, j \in 1 .. Len(s) : i < j => Precedes(s[i], s[j], rep)
          BY <1>a, <2>2, <4>1 DEF Ordered, InOrder
        <4>3. \A i, j \in 1 .. Len(v) : i < j => Precedes(v[i], v[j], rep)
          BY <1>a, <2>2, <4>1 DEF Ordered, InOrder
        <4>4. /\ \A i \in 1 .. Len(s) : Precedes(s[i], h, rep)
              /\ \A j \in 1 .. Len(v) : Precedes(h, v[j], rep)
          BY <1>a, <2>2, <4>1 DEF Ordered, InOrder
        <4>5. \A i \in 1 .. Len(s), j \in 1 .. Len(v) : Precedes(s[i], v[j], rep)
          BY <1>a, <2>2, <4>1 DEF Ordered, InOrder
        <4>6. QED
          BY <4>2, <4>3, <4>4, <4>5 DEF InOrder
      <3>4. QED
        BY <3>1, <3>2, <3>3 DEF Ordered
    <2>4. QED
      BY <2>3 DEF v
  <1>3. QED
    BY <1>1, <1>2

\* The oldest text of the queue is received.
LEMMA ReceiveStream ==
    ASSUME NEW s, NEW w, NEW y, NEW n, NEW rep, w # << >>,
           StreamType(s, NoText, w, y, n), Ordered(s, NoText, w, y, n, rep)
    PROVE  Ordered(s, Head(w), Tail(w), y, n, rep)
  <1>0. /\ \A i \in 1 .. Len(s) : s[i] \in Int
        /\ \A i \in 1 .. Len(w) : w[i] \in Int
        /\ Len(s) \in Nat /\ Len(w) \in Nat /\ Len(w) >= 1 /\ n \in Nat /\ y \in Int
    BY TextSeqs DEF StreamType, Texts, NoText
  <1>a. Len(s) \in Nat /\ Len(w) \in Nat
    BY <1>0
  <1>1. /\ Head(w) = w[1] /\ Len(Tail(w)) = Len(w) - 1
        /\ \A i \in 1 .. Len(w) - 1 : Tail(w)[i] = w[i + 1]
    BY TextSeqs DEF StreamType
  <1> DEFINE h == Head(w)
             v == Tail(w)
  <1> HIDE DEF h, v
  <1>2. /\ h = w[1] /\ Len(v) = Len(w) - 1
        /\ \A i \in 1 .. Len(w) - 1 : v[i] = w[i + 1]
    BY <1>1 DEF h, v
  <1>3. Ordered(s, h, v, y, n, rep)
    <2>1. Bounded(s, h, v, y, n)
      BY <1>0, <1>2, SMTT(20) DEF Ordered, Bounded, NoText, Zero
    <2>2. Fresh(s, h, v, y, n, rep)
      BY <1>0, <1>2, SMTT(20) DEF Ordered, Bounded, Fresh, NoText, Zero
    <2>3. InOrder(s, h, v, rep)
      <3>2. \A i, j \in 1 .. Len(s) : i < j => Precedes(s[i], s[j], rep)
        BY <1>a, <1>2 DEF Ordered, InOrder
      <3>3. \A i, j \in 1 .. Len(v) : i < j => Precedes(v[i], v[j], rep)
        BY <1>a, <1>2 DEF Ordered, InOrder
      <3>4. /\ \A i \in 1 .. Len(s) : Precedes(s[i], h, rep)
            /\ \A j \in 1 .. Len(v) : Precedes(h, v[j], rep)
        BY <1>a, <1>2 DEF Ordered, InOrder
      <3>5. \A i \in 1 .. Len(s), j \in 1 .. Len(v) : Precedes(s[i], v[j], rep)
        BY <1>a, <1>2 DEF Ordered, InOrder
      <3>6. QED
        BY <3>2, <3>3, <3>4, <3>5 DEF InOrder
    <2>4. QED
      BY <2>1, <2>2, <2>3 DEF Ordered
  <1>4. QED
    BY <1>3 DEF h, v

\* The text that is held is printed, if it is not empty.
LEMMA ShowStream ==
    ASSUME NEW s, NEW h, NEW w, NEW y, NEW n, NEW rep,
           StreamType(s, h, w, y, n), Ordered(s, h, w, y, n, rep)
    PROVE  /\ h = NoText => Ordered(s, NoText, w, y, n, rep)
           /\ h # NoText => Ordered(Append(s, h), NoText, w, y, n, rep)
  <1>0. /\ \A i \in 1 .. Len(s) : s[i] \in Int
        /\ \A i \in 1 .. Len(w) : w[i] \in Int
        /\ Len(s) \in Nat /\ Len(w) \in Nat /\ n \in Nat /\ h \in Int /\ y \in Int
        /\ h # NoText => h >= 0
    BY TextSeqs DEF StreamType, Texts, NoText
  <1>a. Len(s) \in Nat /\ Len(w) \in Nat
    BY <1>0
  <1>1. ASSUME h # NoText PROVE Ordered(Append(s, h), NoText, w, y, n, rep)
    <2>1. /\ Len(Append(s, h)) = Len(s) + 1
          /\ \A i \in 1 .. Len(s) + 1 : Append(s, h)[i] = IF i = Len(s) + 1 THEN h ELSE s[i]
      BY TextSeqs DEF StreamType
    <2> DEFINE v == Append(s, h)
    <2> HIDE DEF v
    <2>2. /\ Len(v) = Len(s) + 1
          /\ \A i \in 1 .. Len(s) + 1 : v[i] = IF i = Len(s) + 1 THEN h ELSE s[i]
      BY <2>1 DEF v
    <2>3. Ordered(v, NoText, w, y, n, rep)
      <3>1. Bounded(v, NoText, w, y, n)
        BY <1>0, <1>1, <2>2 DEF Ordered, Bounded, NoText, Zero
      <3>2. Fresh(v, NoText, w, y, n, rep)
        BY <1>0, <1>1, <2>2, SMTT(20) DEF Ordered, Bounded, Fresh, NoText, Zero
      <3>3. InOrder(v, NoText, w, rep)
        <4>1. \A x : Precedes(x, NoText, rep) /\ Precedes(NoText, x, rep)
          BY DEF Precedes, NoText
        <4>2. \A i, j \in 1 .. Len(v) : i < j => Precedes(v[i], v[j], rep)
          BY <1>a, <2>2, <4>1 DEF Ordered, InOrder
        <4>3. \A i, j \in 1 .. Len(w) : i < j => Precedes(w[i], w[j], rep)
          BY <1>a, <2>2, <4>1 DEF Ordered, InOrder
        <4>4. /\ \A i \in 1 .. Len(v) : Precedes(v[i], NoText, rep)
              /\ \A j \in 1 .. Len(w) : Precedes(NoText, w[j], rep)
          BY <1>a, <2>2, <4>1 DEF Ordered, InOrder
        <4>5. \A i \in 1 .. Len(v), j \in 1 .. Len(w) : Precedes(v[i], w[j], rep)
          BY <1>a, <2>2, <4>1 DEF Ordered, InOrder
        <4>6. QED
          BY <4>2, <4>3, <4>4, <4>5 DEF InOrder
      <3>4. QED
        BY <3>1, <3>2, <3>3 DEF Ordered
    <2>4. QED
      BY <2>3 DEF v
  <1>2. QED
    BY <1>1

\* Texts are lost: the one that is held or ready, or the queue.
LEMMA LoseStream ==
    ASSUME NEW s, NEW h, NEW w, NEW y, NEW n, NEW rep,
           StreamType(s, h, w, y, n), Ordered(s, h, w, y, n, rep),
           NEW hh \in {h, Zero, NoText}, NEW ww \in {w, << >>}, NEW yy \in {y, Zero, NoText}
    PROVE  Ordered(s, hh, ww, yy, n, rep)
  <1>0. /\ \A i \in 1 .. Len(s) : s[i] \in Int
        /\ \A i \in 1 .. Len(w) : w[i] \in Int
        /\ Len(s) \in Nat /\ Len(w) \in Nat /\ n \in Nat /\ h \in Int /\ y \in Int
    BY TextSeqs DEF StreamType, Texts, NoText
  <1>a. Len(s) \in Nat /\ Len(w) \in Nat
    BY <1>0
  <1>1. \A j \in 1 .. Len(ww) : j \in 1 .. Len(w) /\ ww[j] = w[j]
    BY TextSeqs
  <1>2. QED
    BY <1>0, <1>1, SMTT(20) DEF Ordered, Bounded, Fresh, InOrder, Precedes, NoText, Zero

\* A line is typed, or a writer in C has no more input and repeats itself.
LEMMA TypeStream ==
    ASSUME NEW s, NEW h, NEW w, NEW n, NEW rep,
           StreamType(s, h, w, NoText, n), Ordered(s, h, w, NoText, n, rep)
    PROVE  /\ Ordered(s, h, w, n + 1, n + 1, rep)
           /\ \A yy \in {NoText, Zero, n} : Ordered(s, h, w, yy, n, TRUE)
  <1>0. /\ \A i \in 1 .. Len(s) : s[i] \in Int
        /\ \A i \in 1 .. Len(w) : w[i] \in Int
        /\ Len(s) \in Nat /\ Len(w) \in Nat /\ n \in Nat /\ h \in Int
    BY TextSeqs DEF StreamType, Texts, NoText
  <1>1. Ordered(s, h, w, n + 1, n + 1, rep)
    <2>1. Bounded(s, h, w, n + 1, n + 1)
      BY <1>0 DEF Ordered, Bounded, NoText, Zero
    <2>2. Fresh(s, h, w, n + 1, n + 1, rep)
      BY <1>0 DEF Ordered, Bounded, Fresh, NoText, Zero
    <2>3. InOrder(s, h, w, rep)
      BY <1>0 DEF Ordered, Bounded, Fresh, InOrder, Precedes, NoText, Zero
    <2>4. QED
      BY <2>1, <2>2, <2>3 DEF Ordered
  <1>2. ASSUME NEW yy \in {NoText, Zero, n} PROVE Ordered(s, h, w, yy, n, TRUE)
    BY <1>0 DEF Ordered, Bounded, Fresh, InOrder, Precedes, NoText, Zero
  <1>3. QED
    BY <1>1, <1>2

\* Sending a text moves it to the queue: no line is lost, and none is missing
\* before another.
LEMMA SendComplete ==
    ASSUME NEW s, NEW h, NEW w, NEW y, NEW n,
           StreamType(s, h, w, y, n), NoneMissing(s, h, w)
    PROVE  /\ NoneMissing(s, h, Append(w, Zero))
           /\ NoneLost(s, h, w, y, n) => NoneLost(s, h, Append(w, Zero), y, n)
           /\ NoneLost(s, h, w, y, n) /\ y \in {NoText, Zero, n} =>
                NoneMissing(s, h, Append(w, y)) /\ NoneLost(s, h, Append(w, y), NoText, n)
  <1>0. Len(w) \in Nat /\ n \in Nat
    BY TextSeqs DEF StreamType
  <1>1. ASSUME NEW x \in Texts,
               \A k \in 1 .. x - 1 : Arrived(s, h, k) \/ \E i \in 1 .. Len(w) : w[i] = k
        PROVE  /\ NoneMissing(s, h, Append(w, x))
               /\ \A k : (\E i \in 1 .. Len(w) : w[i] = k) \/ k = x =>
                           \E i \in 1 .. Len(Append(w, x)) : Append(w, x)[i] = k
    <2>1. /\ Len(Append(w, x)) = Len(w) + 1
          /\ \A i \in 1 .. Len(w) + 1 : Append(w, x)[i] = IF i = Len(w) + 1 THEN x ELSE w[i]
      BY TextSeqs DEF StreamType
    <2> DEFINE v == Append(w, x)
    <2> HIDE DEF v
    <2>2. /\ Len(v) = Len(w) + 1 /\ v[Len(w) + 1] = x
          /\ \A i \in 1 .. Len(w) : v[i] = w[i]
      BY <1>0, <2>1 DEF v
    <2>3. ASSUME NEW j \in 1 .. Len(v), NEW k \in 1 .. v[j] - 1
          PROVE  Arrived(s, h, k) \/ \E i \in 1 .. j - 1 : v[i] = k
      <3>1. CASE j = Len(w) + 1
        BY <1>0, <1>1, <2>2, <2>3, <3>1
      <3>2. CASE j \in 1 .. Len(w)
        <4>1. PICK jj \in 1 .. Len(w) : jj = j /\ k \in 1 .. w[jj] - 1
          BY <2>2, <2>3, <3>2
        <4>2. Arrived(s, h, k) \/ \E i \in 1 .. jj - 1 : w[i] = k
          BY <4>1 DEF NoneMissing
        <4>3. QED
          BY <1>0, <2>2, <4>1, <4>2
      <3>3. QED
        BY <1>0, <2>2, <3>1, <3>2
    <2>4. NoneMissing(s, h, v)
      BY <2>3 DEF NoneMissing
    <2>5. \A k : (\E i \in 1 .. Len(w) : w[i] = k) \/ k = x => \E i \in 1 .. Len(v) : v[i] = k
      BY <1>0, <2>2
    <2>6. QED
      BY <2>4, <2>5 DEF v
  <1>2. /\ NoneMissing(s, h, Append(w, Zero))
        /\ NoneLost(s, h, w, y, n) => NoneLost(s, h, Append(w, Zero), y, n)
    <2>1. \A k \in 1 .. Zero - 1 : Arrived(s, h, k) \/ \E i \in 1 .. Len(w) : w[i] = k
      BY DEF Zero
    <2>2. QED
      BY <1>1, <2>1, TextSeqs DEF NoneLost
  <1>3. ASSUME NoneLost(s, h, w, y, n), y \in {NoText, Zero, n}
        PROVE  NoneMissing(s, h, Append(w, y)) /\ NoneLost(s, h, Append(w, y), NoText, n)
    <2>1. ASSUME NEW k \in 1 .. y - 1
          PROVE  Arrived(s, h, k) \/ \E i \in 1 .. Len(w) : w[i] = k
      <3>1. k \in 1 .. n /\ k # y
        BY <1>0, <1>3 DEF NoText, Zero
      <3>2. QED
        BY <1>3, <3>1 DEF NoneLost
    <2>2. y \in Texts
      BY DEF StreamType
    <2>3. QED
      BY <1>1, <1>3, <2>1, <2>2 DEF NoneLost
  <1>4. QED
    BY <1>2, <1>3

\* Receiving moves the oldest text from the queue to msg, and loses nothing.
LEMMA ReceiveComplete ==
    ASSUME NEW s, NEW w, NEW y, NEW n, w # << >>,
           StreamType(s, NoText, w, y, n), NoneMissing(s, NoText, w)
    PROVE  /\ NoneMissing(s, Head(w), Tail(w))
           /\ NoneLost(s, NoText, w, y, n) => NoneLost(s, Head(w), Tail(w), y, n)
  <1>0. /\ Len(w) \in Nat /\ Len(w) >= 1 /\ w[1] \in Int
    BY TextSeqs DEF StreamType, Texts, NoText
  <1>1. /\ Head(w) = w[1] /\ Len(Tail(w)) = Len(w) - 1
        /\ \A i \in 1 .. Len(w) - 1 : Tail(w)[i] = w[i + 1]
    BY TextSeqs DEF StreamType
  <1> DEFINE h == Head(w)
             v == Tail(w)
  <1> HIDE DEF h, v
  <1>2. /\ h = w[1] /\ Len(v) = Len(w) - 1
        /\ \A i \in 1 .. Len(w) - 1 : v[i] = w[i + 1]
    BY <1>1 DEF h, v
  <1>3. \A k \in Int : k >= 1 /\ Arrived(s, NoText, k) => Arrived(s, h, k)
    BY DEF Arrived, NoText
  <1>4. \A m \in 1 .. Len(w) : \A k : (\E i \in 1 .. m : w[i] = k) =>
           Arrived(s, h, k) \/ \E i \in 1 .. m - 1 : v[i] = k
    <2> SUFFICES ASSUME NEW m \in 1 .. Len(w), NEW k, NEW i \in 1 .. m, w[i] = k
                 PROVE  Arrived(s, h, k) \/ \E ii \in 1 .. m - 1 : v[ii] = k
      OBVIOUS
    <2>1. CASE i = 1
      BY <1>2, <2>1 DEF Arrived
    <2>2. CASE i # 1
      <3>1. i - 1 \in 1 .. m - 1 /\ i - 1 \in 1 .. Len(w) - 1 /\ (i - 1) + 1 = i
        BY <1>0, <2>2
      <3>2. v[i - 1] = k
        BY <1>2, <3>1
      <3>3. QED
        BY <3>1, <3>2
    <2>3. QED
      BY <2>1, <2>2
  <1>5. NoneMissing(s, h, v)
    <2>1. ASSUME NEW k \in 1 .. h PROVE Arrived(s, h, k)
      <3>1. CASE k = h
        BY <3>1 DEF Arrived
      <3>2. CASE k # h
        <4>1. 1 \in 1 .. Len(w) /\ k \in 1 .. w[1] - 1
          BY <1>0, <1>2, <3>2
        <4>2. Arrived(s, NoText, k) \/ \E i \in 1 .. 1 - 1 : w[i] = k
          BY <4>1 DEF NoneMissing
        <4>3. QED
          BY <1>3, <4>1, <4>2
      <3>3. QED
        BY <3>1, <3>2
    <2>2. ASSUME NEW j \in 1 .. Len(v), NEW k \in 1 .. v[j] - 1
          PROVE  Arrived(s, h, k) \/ \E i \in 1 .. j - 1 : v[i] = k
      <3>1. j \in 1 .. Len(w) /\ j + 1 \in 1 .. Len(w) /\ k \in 1 .. w[j + 1] - 1
        BY <1>0, <1>2, <2>2
      <3>2. Arrived(s, NoText, k) \/ \E i \in 1 .. (j + 1) - 1 : w[i] = k
        BY <3>1 DEF NoneMissing
      <3>3. Arrived(s, NoText, k) \/ \E i \in 1 .. j : w[i] = k
        BY <3>1, <3>2
      <3>4. QED
        BY <1>3, <1>4, <3>1, <3>3
    <2>3. QED
      BY <2>1, <2>2 DEF NoneMissing
  <1>6. NoneLost(s, NoText, w, y, n) => NoneLost(s, h, v, y, n)
    <2> SUFFICES ASSUME NoneLost(s, NoText, w, y, n), NEW k \in 1 .. n
                 PROVE  y = k \/ Arrived(s, h, k) \/ \E i \in 1 .. Len(v) : v[i] = k
      BY DEF NoneLost
    <2>1. y = k \/ Arrived(s, NoText, k) \/ \E i \in 1 .. Len(w) : w[i] = k
      BY DEF NoneLost
    <2>2. Len(w) \in 1 .. Len(w) /\ Len(v) = Len(w) - 1
      BY <1>0, <1>2
    <2>3. QED
      BY <1>3, <1>4, <2>1, <2>2
  <1>7. QED
    BY <1>5, <1>6 DEF h, v

\* Printing moves the text from msg to what is shown, and leaves no gap.
LEMMA ShowComplete ==
    ASSUME NEW s, NEW h, NEW w, NEW y, NEW n,
           StreamType(s, h, w, y, n), NoneMissing(s, h, w), PrintedAll(s)
    PROVE  /\ PrintedAll(Append(s, h))
           /\ NoneMissing(Append(s, h), NoText, w)
           /\ NoneLost(s, h, w, y, n) => NoneLost(Append(s, h), NoText, w, y, n)
           /\ h = NoText => /\ NoneMissing(s, NoText, w)
                            /\ NoneLost(s, h, w, y, n) => NoneLost(s, NoText, w, y, n)
  <1>0. Len(s) \in Nat
    BY TextSeqs DEF StreamType
  <1>1. /\ Len(Append(s, h)) = Len(s) + 1
        /\ \A i \in 1 .. Len(s) + 1 : Append(s, h)[i] = IF i = Len(s) + 1 THEN h ELSE s[i]
    BY TextSeqs DEF StreamType
  <1> DEFINE v == Append(s, h)
  <1> HIDE DEF v
  <1>2. /\ Len(v) = Len(s) + 1 /\ v[Len(s) + 1] = h
        /\ \A i \in 1 .. Len(s) : v[i] = s[i]
    BY <1>0, <1>1 DEF v
  <1>3. \A k : Arrived(s, h, k) => \E i \in 1 .. Len(v) : v[i] = k
    BY <1>0, <1>2 DEF Arrived
  <1>4. \A k : Arrived(s, h, k) => Arrived(v, NoText, k)
    BY <1>3 DEF Arrived
  <1>5. PrintedAll(v)
    <2> SUFFICES ASSUME NEW i \in 1 .. Len(v), NEW k \in 1 .. v[i]
                 PROVE  \E j \in 1 .. i : v[j] = k
      BY DEF PrintedAll
    <2>1. CASE i = Len(s) + 1
      <3>1. Arrived(s, h, k)
        BY <1>2, <2>1 DEF NoneMissing
      <3>2. QED
        BY <1>2, <1>3, <2>1, <3>1
    <2>2. CASE i \in 1 .. Len(s)
      <3>1. v[i] = s[i]
        BY <1>2, <2>2
      <3>2. PICK j \in 1 .. i : s[j] = k
        BY <2>2, <3>1 DEF PrintedAll
      <3>3. j \in 1 .. Len(s)
        BY <1>0, <2>2
      <3>4. QED
        BY <1>2, <3>2, <3>3
    <2>3. QED
      BY <1>0, <1>2, <2>1, <2>2
  <1>6. NoneMissing(v, NoText, w)
    BY <1>4 DEF NoneMissing, NoText
  <1>7. NoneLost(s, h, w, y, n) => NoneLost(v, NoText, w, y, n)
    BY <1>4 DEF NoneLost
  <1>8. QED
    BY <1>5, <1>6, <1>7 DEF v

\* A line that has been typed is ready to be sent.
LEMMA TypeComplete ==
    ASSUME NEW s, NEW h, NEW w, NEW n, n \in Nat, NoneLost(s, h, w, NoText, n)
    PROVE  NoneLost(s, h, w, n + 1, n + 1)
  <1> SUFFICES ASSUME NEW k \in 1 .. n + 1, k # n + 1
               PROVE  Arrived(s, h, k) \/ \E i \in 1 .. Len(w) : w[i] = k
    BY DEF NoneLost
  <1>1. k \in 1 .. n /\ k # NoText
    BY DEF NoText
  <1>2. QED
    BY <1>1 DEF NoneLost


-----------------------------------------------------------------------------
(* What the invariant says of every state *)

State == Control /\ Queues /\ Buffers

\* The ids that are used are those of queues the bounds allow.
LEMMA QueueIds ==
    ASSUME State
    PROVE  /\ made \in 0 .. MaxQueues /\ current \in Ids \cup {NoQueue}
           /\ (\E p \in Progs : pc[p] = "open" \/ hpc[p] = "create") => made + 1 \in Ids
  <1>1. \A p \in Progs : /\ runs[p] \in 0 .. MaxRuns /\ sigints[p] \in 0 .. MaxSigints
                         /\ Used(p) \in Int /\ Used(p) <= MaxRuns + MaxSigints
                         /\ (pc[p] = "open" \/ hpc[p] = "create") => Used(p) <= MaxRuns + MaxSigints - 1
    BY DEF State, Control, Used
  <1>2. made <= Used("writer") + Used("reader") /\ made \in Nat /\ current \in 0 .. made
    BY DEF State, Queues
  <1>3. Progs = {"writer", "reader"}
    BY DEF Progs
  <1>4. made <= MaxQueues
    BY <1>1, <1>2, <1>3 DEF MaxQueues
  <1>5. (\E p \in Progs : pc[p] = "open" \/ hpc[p] = "create") => made + 1 <= MaxQueues
    BY <1>1, <1>2, <1>3 DEF MaxQueues
  <1>6. QED
    BY <1>2, <1>4, <1>5 DEF Ids, NoQueue, MaxQueues

\* The stream of a state has its type.
LEMMA StreamOfState ==
    ASSUME State
    PROVE  StreamType(shown, Held, Waiting, Ready, typed)
  <1>1. Waiting \in Seq(Texts)
    BY QueueIds, TextSeqs DEF State, Queues, Waiting
  <1>2. Held \in Texts /\ Ready \in Texts
    BY TextSeqs DEF State, Buffers, Held, Ready, Progs
  <1>3. QED
    BY <1>1, <1>2 DEF State, Buffers, StreamType

\* A step that leaves the stream as it is.
LEMMA SameStream ==
    ASSUME StreamInv,
           shown' = shown, Held' = Held, Waiting' = Waiting, Ready' = Ready, typed' = typed,
           Repeats' = Repeats,
           OneRun' => /\ OneRun
                      /\ ReaderDone => ReaderDone'
                      /\ WriterDone => WriterDone'
                      /\ ~ReaderDone' /\ pc'["writer"] \in {"ask", "send", "test"} =>
                           id'["writer"] = current' /\ current' # NoQueue
    PROVE  StreamInv'
  <1>1. Ordered(shown, Held, Waiting, Ready, typed, Repeats)'
    BY DEF StreamInv
  <1>2. Complete'
    BY DEF StreamInv, Complete
  <1>3. QED
    BY <1>1, <1>2 DEF StreamInv

-----------------------------------------------------------------------------
(* Every step preserves the invariant *)

\* Nothing has been typed, and no queue made.
LEMMA InitInv == Init => QueueInv
  <1> SUFFICES ASSUME Init PROVE QueueInv
    OBVIOUS
  <1>1. Control
    <2>1. lang \in [Progs -> {"c", "cpp"}]
      BY DEF Init
    <2>2. \A p \in Progs : pc[p] = "off" /\ hpc[p] = "none"
      BY DEF Init
    <2>3. /\ pc \in [Progs -> WriterPCs \cup ReaderPCs] /\ hpc \in [Progs -> {"none", "create", "send"}]
          /\ cut \in [Progs -> BOOLEAN]
          /\ runs \in [Progs -> 0 .. MaxRuns] /\ sigints \in [Progs -> 0 .. MaxSigints]
      BY DEF Init, WriterPCs, ReaderPCs
    <2>4. QED
      BY <2>1, <2>2, <2>3 DEF Control, Progs, WriterPCs, ReaderPCs
  <1>2. Queues
    <2>1. \A q \in Ids : queue[q] \in Seq(Texts) /\ queue[q] = << >> /\ Len(queue[q]) = 0
      BY TextSeqs DEF Init
    <2>2. queue \in [Ids -> Seq(Texts)]
      BY TextSeqs DEF Init
    <2>3. QED
      BY <2>1, <2>2 DEF Init, Queues, Used, Progs, NoQueue
  <1>3. Buffers
    BY TextSeqs DEF Init, Buffers, Progs, TooLong
  <1>4. Ordered(shown, Held, Waiting, Ready, typed, Repeats)
    <2>1. shown = << >> /\ Held = NoText /\ Waiting = << >> /\ Ready = NoText /\ typed = 0
      BY DEF Init, Held, Waiting, Ready, Progs
    <2>2. QED
      BY <2>1, TextSeqs DEF Ordered, Bounded, Fresh, InOrder, NoText
  <1>5. Complete
    <2>1. shown = << >> /\ Held = NoText /\ Waiting = << >> /\ Ready = NoText /\ typed = 0
          /\ pc["writer"] = "off"
      BY DEF Init, Held, Waiting, Ready, Progs
    <2>2. QED
      BY <2>1, TextSeqs DEF Complete, PrintedAll, NoneMissing, NoneLost, NoText
  <1>6. QED
    BY <1>1, <1>2, <1>3, <1>4, <1>5 DEF QueueInv, StreamInv

\* SIGINT in C calls the handler, which has done nothing yet.
LEMMA SigintInv ==
    ASSUME QueueInv, NEW p \in Progs, Sigint(p) PROVE QueueInv'
  <1> USE DEF Sigint, kernel, input
  <1>1. Control'
    <2>1. /\ sigints' \in [Progs -> 0 .. MaxSigints] /\ sigints'[p] > 0
          /\ \A o \in Progs : o # p => sigints'[o] = sigints[o] /\ hpc'[o] = hpc[o] /\ cut'[o] = cut[o]
      BY DEF QueueInv, Control
    <2>2. /\ cut' \in [Progs -> BOOLEAN]
          /\ cut'[p] => pc[p] \in {"ask", "send", "receive"}
      <3>1. Blocked(p) \in BOOLEAN /\ (Blocked(p) => pc[p] \in {"ask", "send", "receive"})
        BY DEF Blocked
      <3>2. PICK b \in {FALSE, Blocked(p)} : cut' = [cut EXCEPT ![p] = b]
        OBVIOUS
      <3>3. b \in BOOLEAN /\ (b => pc[p] \in {"ask", "send", "receive"})
        BY <3>1, <3>2, Zenon
      <3>4. cut \in [Progs -> BOOLEAN]
        BY DEF QueueInv, Control
      <3>5. QED
        BY ONLY p \in Progs, <3>2, <3>3, <3>4
    <2>h. hpc' \in [Progs -> {"none", "create", "send"}] /\ hpc'[p] = "create"
      BY DEF QueueInv, Control
    <2>3. QED
      BY <2>1, <2>2, <2>h DEF QueueInv, Control, Gone
  <1>2. Queues'
    <2>1. \A o \in Progs : Used(o)' = Used(o)
      BY DEF QueueInv, Control, Used
    <2>2. QED
      BY <2>1 DEF QueueInv, Queues, Progs
  <1>3. Buffers'
    BY DEF QueueInv, Buffers, TooLong
  <1>4. StreamInv'
    <2>1. Held' = Held /\ Waiting' = Waiting /\ Ready' = Ready /\ Repeats' = Repeats
      BY DEF Held, Waiting, Ready, Repeats
    <2>2. OneRun' = OneRun /\ ReaderDone' = ReaderDone /\ WriterDone' = WriterDone
      BY DEF OneRun, ReaderDone, WriterDone, Gone
    <2>3. QED
      BY <2>1, <2>2, SameStream DEF QueueInv, StreamInv, Complete
  <1>5. QED
    BY <1>1, <1>2, <1>3, <1>4 DEF QueueInv

\* A program starts: it has not been started before, or there is no OneRun.
LEMMA StartInv ==
    ASSUME QueueInv, NEW p \in Progs, Start(p) PROVE QueueInv'
  <1> USE DEF Start, kernel, handler
  <1>0. /\ pc' = [pc EXCEPT ![p] = "open"] /\ Gone(p) /\ hpc[p] = "none" /\ hpc' = hpc
        /\ runs[p] < MaxRuns /\ runs[p] \in Nat /\ runs' = [runs EXCEPT ![p] = @ + 1]
    BY DEF QueueInv, Control
  <1>1. Control'
    BY <1>0 DEF QueueInv, Control, Gone, WriterPCs, ReaderPCs, Progs
  <1>2. Queues'
    <2>1. \A o \in Progs : Used(o)' = Used(o)
      BY <1>0 DEF QueueInv, Control, Used, Gone
    <2>2. QED
      BY <1>0, <2>1 DEF QueueInv, Control, Queues, Progs
  <1>3. Buffers'
    BY <1>0, TextSeqs DEF QueueInv, Control, Buffers, TooLong, Progs
  <1>4. StreamInv'
    <2>1. Held' = Held /\ Waiting' = Waiting /\ Ready' = Ready /\ Repeats' = Repeats
      BY <1>0 DEF QueueInv, Control, Held, Waiting, Ready, Repeats, Gone, Progs
    <2>2. ASSUME OneRun'
          PROVE  /\ OneRun
                 /\ ReaderDone => ReaderDone'
                 /\ WriterDone => WriterDone'
                 /\ ~ReaderDone => ~ReaderDone'
      BY <1>0, <2>2 DEF QueueInv, Control, OneRun, ReaderDone, WriterDone, Gone, Progs
    <2>3. ASSUME OneRun', ~ReaderDone', pc'["writer"] \in {"ask", "send", "test"}
          PROVE  id'["writer"] = current' /\ current' # NoQueue
      BY <1>0, <2>2, <2>3 DEF QueueInv, Control, StreamInv, Complete, Progs
    <2>4. QED
      BY <2>1, <2>2, <2>3, SameStream DEF QueueInv
  <1>5. QED
    BY <1>1, <1>2, <1>3, <1>4 DEF QueueInv

\* SIGINT in C++ kills the program: what it holds or was about to send is lost.
LEMMA KillInv ==
    ASSUME QueueInv, NEW p \in Progs, KillBySigint(p) PROVE QueueInv'
  <1> USE DEF KillBySigint, kernel, handler, input
  <1>0. /\ pc' = [pc EXCEPT ![p] = "off"] /\ ~Gone(p) /\ lang[p] = "cpp" /\ hpc[p] = "none" /\ hpc' = hpc
        /\ pc[p] # "off" /\ runs[p] >= 1 /\ runs[p] \in Nat /\ runs' = runs
        /\ sigints' = [sigints EXCEPT ![p] = @ + 1]
    BY DEF QueueInv, Control, Gone
  <1>1. Control'
    BY <1>0 DEF QueueInv, Control, Gone, WriterPCs, ReaderPCs, Progs
  <1>2. Queues'
    <2>1. \A o \in Progs : Used(o) \in Int /\ Used(o)' \in Int /\ Used(o)' >= Used(o)
      BY <1>0 DEF QueueInv, Control, Used
    <2>2. made' \in Nat /\ made' <= Used("writer")' + Used("reader")'
      BY <2>1 DEF QueueInv, Queues, Progs
    <2>3. QED
      BY <1>0, <2>2 DEF QueueInv, Control, Queues, Progs
  <1>3. Buffers'
    BY <1>0 DEF QueueInv, Control, Buffers, TooLong, Progs
  <1>4. StreamInv'
    <2>1. /\ shown' = shown /\ typed' = typed /\ Waiting' = Waiting /\ Repeats' = Repeats
          /\ Held' \in {Held, Zero, NoText} /\ Ready' \in {Ready, Zero, NoText}
          /\ p # "reader" => Held' = Held
      BY <1>0 DEF QueueInv, Control, Held, Waiting, Ready, Repeats, Progs
    <2>2. Ordered(shown, Held, Waiting, Ready, typed, Repeats)'
      BY <2>1, StreamOfState, LoseStream DEF QueueInv, State, StreamInv
    <2>3. ASSUME OneRun'
          PROVE  /\ OneRun
                 /\ p = "reader" => ReaderDone'
                 /\ p = "writer" => WriterDone' /\ ReaderDone' = ReaderDone /\ pc'["writer"] = "off"
      BY <1>0, <2>3 DEF QueueInv, Control, OneRun, ReaderDone, WriterDone, Gone, Progs
    <2>4. Complete'
      BY <2>1, <2>3 DEF QueueInv, StreamInv, Complete, Progs
    <2>5. QED
      BY <2>2, <2>4 DEF StreamInv
  <1>5. QED
    BY <1>1, <1>2, <1>3, <1>4 DEF QueueInv

\* What create_queue() does to the queues, in open and in the handler: a queue
\* that it makes is empty.
LEMMA QueueCreated ==
    ASSUME State, NEW p \in Progs, pc[p] = "open" \/ hpc[p] = "create",
           create_queue(id, p) \/ create_queue(hid, p)
    PROVE  /\ made' \in made .. made + 1 /\ made' \in Nat
           /\ current' \in 1 .. made' /\ queue' = queue
           /\ current # NoQueue => current' = current
           /\ current = NoQueue => current' = made + 1
           /\ \A q \in Ids : q # current' => queue'[q] = << >>
           /\ Waiting' = Waiting
  <1>0. made \in Nat /\ current \in 0 .. made
    BY DEF State, Queues
  <1>1. CASE current # NoQueue
    BY <1>0, <1>1 DEF State, Queues, create_queue, kernel, Waiting, NoQueue
  <1>2. CASE current = NoQueue
    <2>1. made' = made + 1 /\ current' = made + 1 /\ queue' = queue
      BY <1>2 DEF create_queue
    <2>2. made + 1 \in Ids /\ made + 1 # current
      BY <1>0, QueueIds
    <2>3. \A q \in Ids : queue[q] = << >>
      BY <1>2 DEF State, Queues, Ids, NoQueue
    <2>4. Waiting = << >> /\ Waiting' = << >>
      BY <1>0, <1>2, <2>1, <2>2, <2>3 DEF Waiting, NoQueue
    <2>5. QED
      BY <1>0, <1>2, <2>1, <2>3, <2>4
  <1>3. QED
    BY <1>1, <1>2

\* A program opens the queue.
LEMMA OpenInv ==
    ASSUME QueueInv, NEW p \in Progs, Open(p) PROVE QueueInv'
  <1> USE DEF Open, Goto, handler, input
  <1>0. /\ pc' = [pc EXCEPT ![p] = IF p = "writer" THEN "ask" ELSE "receive"]
        /\ pc[p] = "open" /\ hpc[p] = "none" /\ hpc' = hpc /\ runs' = runs /\ sigints' = sigints
        /\ create_queue(id, p)
    OBVIOUS
  <1>1. Control'
    BY <1>0 DEF QueueInv, Control, Gone, WriterPCs, ReaderPCs, Progs
  <1>c. /\ made' \in made .. made + 1 /\ made' \in Nat /\ made \in Nat
        /\ current' \in 1 .. made' /\ queue' = queue
        /\ current # NoQueue => current' = current
        /\ current = NoQueue => current' = made + 1
        /\ \A q \in Ids : q # current' => queue'[q] = << >>
        /\ Waiting' = Waiting
    BY <1>0, QueueCreated DEF QueueInv, State, Queues
  <1>d. id' = [id EXCEPT ![p] = current']
    BY DEF create_queue, kernel
  <1>2. Queues'
    <2>1. \A o \in Progs : Used(o) \in Int /\ Used(o)' = IF o = p THEN Used(o) + 1 ELSE Used(o)
      BY <1>0 DEF QueueInv, Control, Used
    <2>2. made' <= Used("writer")' + Used("reader")'
      BY <1>c, <2>1 DEF QueueInv, Queues, Progs
    <2>3. id' \in [Progs -> 0 .. made'] /\ hid' \in [Progs -> 0 .. made']
      BY <1>c, <1>d DEF QueueInv, Queues
    <2>4. /\ pc'["reader"] \in {"receive", "show", "check", "remove"} => id'["reader"] = current' /\ current' # NoQueue
          /\ pc'["reader"] \in {"exit", "ended"} => current' # id'["reader"]
      BY <1>0, <1>c, <1>d DEF QueueInv, Control, Queues, Progs, NoQueue
    <2>5. QED
      BY <1>c, <2>2, <2>3, <2>4 DEF QueueInv, Queues
  <1>3. Buffers'
    BY <1>0 DEF QueueInv, Control, Buffers, TooLong, Progs
  <1>4. StreamInv'
    <2>1. Held' = Held /\ Ready' = Ready /\ Repeats' = Repeats
      BY <1>0 DEF QueueInv, Control, Buffers, Held, Ready, Repeats, Progs
    <2>2. OneRun' = OneRun /\ ReaderDone' = ReaderDone /\ WriterDone' = WriterDone
      BY <1>0 DEF QueueInv, Control, OneRun, ReaderDone, WriterDone, Gone, Progs
    <2>3. ASSUME OneRun', ~ReaderDone', pc'["writer"] \in {"ask", "send", "test"}
          PROVE  id'["writer"] = current' /\ current' # NoQueue
      BY <1>0, <1>c, <1>d, <2>2, <2>3 DEF QueueInv, Control, Queues, StreamInv, Complete, Progs, NoQueue
    <2>4. QED
      BY <1>c, <2>1, <2>2, <2>3, SameStream DEF QueueInv
  <1>5. QED
    BY <1>1, <1>2, <1>3, <1>4 DEF QueueInv

\* The handler writes a 0 over the text of msg: what the program holds or was
\* about to send is lost, and it ends.
LEMMA HandlerCreateInv ==
    ASSUME QueueInv, NEW p \in Progs, HandlerCreate(p) PROVE QueueInv'
  <1> USE DEF HandlerCreate, input
  <1>0. /\ hpc[p] = "create" /\ hpc' = [hpc EXCEPT ![p] = "send"] /\ lang[p] = "c" /\ ~Gone(p)
        /\ pc' = pc /\ runs' = runs /\ sigints' = sigints /\ id' = id /\ type' = type
        /\ text' = [text EXCEPT ![p] = Zero]
        /\ create_queue(hid, p)
    BY DEF QueueInv, Control
  <1>1. Control'
    BY <1>0, TextSeqs DEF QueueInv, Control, Buffers, Gone
  <1>c. /\ made' \in made .. made + 1 /\ made' \in Nat /\ made \in Nat
        /\ current' \in 1 .. made' /\ queue' = queue
        /\ current # NoQueue => current' = current
        /\ current = NoQueue => current' = made + 1
        /\ \A q \in Ids : q # current' => queue'[q] = << >>
        /\ Waiting' = Waiting
    BY <1>0, QueueCreated DEF QueueInv, State, Queues
  <1>d. hid' = [hid EXCEPT ![p] = current']
    BY DEF create_queue, kernel
  <1>2. Queues'
    <2>1. \A o \in Progs : Used(o) \in Int /\ Used(o)' = IF o = p THEN Used(o) + 1 ELSE Used(o)
      BY <1>0 DEF QueueInv, Control, Used
    <2>2. made' <= Used("writer")' + Used("reader")'
      BY <1>c, <2>1 DEF QueueInv, Queues, Progs
    <2>3. id' \in [Progs -> 0 .. made'] /\ hid' \in [Progs -> 0 .. made']
      BY <1>0, <1>c, <1>d DEF QueueInv, Queues
    <2>4. /\ pc'["reader"] \in {"receive", "show", "check", "remove"} => id'["reader"] = current' /\ current' # NoQueue
          /\ pc'["reader"] \in {"exit", "ended"} => current' # id'["reader"]
      BY <1>0, <1>c DEF QueueInv, Control, Queues, Progs, NoQueue
    <2>5. QED
      BY <1>c, <2>2, <2>3, <2>4 DEF QueueInv, Queues
  <1>3. Buffers'
    BY <1>0, TextSeqs DEF QueueInv, Control, Buffers, TooLong, Progs
  <1>4. StreamInv'
    <2>1. /\ shown' = shown /\ typed' = typed /\ Repeats' = Repeats
          /\ Held' \in {Held, Zero, NoText} /\ Ready' \in {Ready, Zero, NoText}
      BY <1>0 DEF QueueInv, Buffers, Held, Ready, Repeats, Progs
    <2>2. Ordered(shown, Held, Waiting, Ready, typed, Repeats)'
      BY <1>c, <2>1, StreamOfState, LoseStream DEF QueueInv, State, StreamInv
    <2>3. /\ OneRun' = OneRun
          /\ ReaderDone => ReaderDone'
          /\ WriterDone => WriterDone'
          /\ ~ReaderDone' => Held' = Held
          /\ ~WriterDone' => Ready' = Ready
      BY <1>0 DEF QueueInv, Buffers, OneRun, ReaderDone, WriterDone, Gone, Progs, Held, Ready
    <2>4. ASSUME OneRun', ~ReaderDone', pc'["writer"] \in {"ask", "send", "test"}
          PROVE  id'["writer"] = current' /\ current' # NoQueue
      BY <1>0, <1>c, <2>3, <2>4 DEF QueueInv, StreamInv, Complete
    <2>5. Complete'
      BY <1>c, <2>1, <2>3, <2>4 DEF QueueInv, StreamInv, Complete
    <2>6. QED
      BY <2>2, <2>5 DEF StreamInv
  <1>5. QED
    BY <1>1, <1>2, <1>3, <1>4 DEF QueueInv

\* msgsnd() puts the text last into the queue that has the key, or nowhere.
LEMMA Sent ==
    ASSUME State, NEW q \in 0 .. made, NEW p \in Progs, msgsnd(q, p), current' = current
    PROVE  /\ queue' \in [Ids -> Seq(Texts)]
           /\ \A r \in Ids : Len(queue'[r]) <= QueueMax /\ (r # current => queue'[r] = << >>)
           /\ Waiting' \in {Waiting, Append(Waiting, text[p])}
           /\ q = current /\ current # NoQueue /\ type[p] = 1 => Waiting' = Append(Waiting, text[p])
  <1>0. /\ queue \in [Ids -> Seq(Texts)] /\ text[p] \in Texts
        /\ \A r \in Ids : Len(queue[r]) <= QueueMax /\ (r # current => queue[r] = << >>)
    BY DEF State, Queues, Buffers
  <1>1. CASE Exists(q) /\ type[p] > 0
    <2>1. /\ q = current /\ q # NoQueue /\ q \in Ids /\ ~Full(q)
          /\ queue' = [queue EXCEPT ![q] = Append(@, text[p])]
      BY <1>1, QueueIds DEF msgsnd, Exists
    <2>2. Append(queue[q], text[p]) \in Seq(Texts) /\ Len(Append(queue[q], text[p])) = Len(queue[q]) + 1
          /\ Len(queue[q]) \in Nat
      BY <1>0, <2>1, TextSeqs
    <2>3. Len(queue[q]) + 1 <= QueueMax
      BY <2>1, <2>2 DEF Full
    <2>4. QED
      BY <1>0, <2>1, <2>2, <2>3 DEF Waiting
  <1>2. CASE ~(Exists(q) /\ type[p] > 0)
    BY <1>0, <1>2 DEF msgsnd, Exists, Waiting
  <1>3. QED
    BY <1>1, <1>2

\* The handler sends a 0 and returns; a call of the main loop that it
\* interrupted has failed, with that 0 in msg.
LEMMA HandlerSendInv ==
    ASSUME QueueInv, NEW p \in Progs, HandlerSend(p) PROVE QueueInv'
  <1> USE DEF HandlerSend, input
  <1>0. /\ hpc[p] = "send" /\ hpc' = [hpc EXCEPT ![p] = "none"] /\ text[p] = Zero /\ ~Gone(p)
        /\ text' = text /\ runs' = runs /\ sigints' = sigints /\ id' = id /\ type' = type
        /\ current' = current /\ made' = made
        /\ cut[p] => pc[p] \in {"ask", "send", "receive"}
    BY DEF QueueInv, Control
  <1>p. /\ pc' = [pc EXCEPT ![p] = pc'[p]]
        /\ \/ pc'[p] = pc[p]
           \/ p = "writer" /\ pc[p] = "ask" /\ pc'[p] = "send"
           \/ p = "writer" /\ pc[p] = "send" /\ pc'[p] = "test"
           \/ p = "reader" /\ pc[p] = "receive" /\ pc'[p] = "show"
    <2>1. AfterCall["ask"] = "send" /\ AfterCall["send"] = "test" /\ AfterCall["receive"] = "show"
      BY DEF AfterCall
    <2>2. /\ pc \in [Progs -> WriterPCs \cup ReaderPCs]
          /\ p = "writer" => pc[p] # "receive"
          /\ p = "reader" => pc[p] \notin {"ask", "send"}
      BY DEF QueueInv, Control, Progs, WriterPCs, ReaderPCs
    <2>3. p = "writer" \/ p = "reader"
      BY DEF Progs
    <2>4. CASE cut[p]
      <3>1. pc' = [pc EXCEPT ![p] = AfterCall[pc[p]]]
        BY <2>4
      <3>2. pc'[p] = AfterCall[pc[p]] /\ pc' = [pc EXCEPT ![p] = pc'[p]]
        BY <2>2, <3>1
      <3>3. QED
        BY <1>0, <2>1, <2>2, <2>3, <2>4, <3>2
    <2>5. CASE ~cut[p]
      BY <2>2, <2>5
    <2>6. QED
      BY <2>4, <2>5
  <1>s. /\ queue' \in [Ids -> Seq(Texts)]
        /\ \A r \in Ids : Len(queue'[r]) <= QueueMax /\ (r # current => queue'[r] = << >>)
        /\ Waiting' \in {Waiting, Append(Waiting, Zero)}
    BY <1>0, Sent DEF QueueInv, State, Queues
  <1>1. Control'
    BY <1>0, <1>p DEF QueueInv, Control, Gone, WriterPCs, ReaderPCs, Progs
  <1>2. Queues'
    <2>1. \A o \in Progs : Used(o)' = Used(o)
      BY <1>0, <1>p DEF QueueInv, Control, Used
    <2>2. QED
      BY <1>0, <1>p, <1>s, <2>1 DEF QueueInv, Control, Queues, Progs
  <1>3. Buffers'
    BY <1>0, <1>p DEF QueueInv, Control, Buffers, TooLong, Progs
  <1>4. StreamInv'
    <2>1. /\ shown' = shown /\ typed' = typed /\ Repeats' = Repeats
          /\ Held' \in {Held, Zero, NoText} /\ Ready' \in {Ready, Zero, NoText}
      BY <1>0, <1>p DEF QueueInv, Control, Held, Ready, Repeats, Progs
    <2>2. /\ StreamType(shown, Held, Waiting', Ready, typed)
          /\ Ordered(shown, Held, Waiting', Ready, typed, Repeats)
      <3>1. /\ StreamType(shown, Held, Waiting, Ready, typed)
            /\ Ordered(shown, Held, Waiting, Ready, typed, Repeats)
        BY StreamOfState DEF QueueInv, State, StreamInv
      <3>2. StreamType(shown, Held, Append(Waiting, Zero), Ready, typed)
        BY <3>1, TextSeqs DEF StreamType
      <3>3. Ordered(shown, Held, Append(Waiting, Zero), Ready, typed, Repeats)
        BY <3>1, SendStream
      <3>4. QED
        BY <1>s, <3>1, <3>2, <3>3
    <2>3. Ordered(shown, Held, Waiting, Ready, typed, Repeats)'
      BY <2>1, <2>2, LoseStream
    <2>4. /\ OneRun' = OneRun
          /\ ReaderDone => ReaderDone'
          /\ WriterDone => WriterDone'
          /\ ~ReaderDone' => Held' = Held
          /\ ~WriterDone' => Ready' = Ready
          /\ pc'["writer"] \in {"ask", "send", "test"} => pc["writer"] \in {"ask", "send", "test"}
      BY <1>0, <1>p DEF QueueInv, Control, OneRun, ReaderDone, WriterDone, Gone, Progs, Held, Ready
    <2>5. ASSUME NoneMissing(shown, Held, Waiting)
          PROVE  /\ NoneMissing(shown, Held, Waiting')
                 /\ NoneLost(shown, Held, Waiting, Ready, typed) =>
                      NoneLost(shown, Held, Waiting', Ready, typed)
      BY <1>s, <2>5, StreamOfState, SendComplete DEF QueueInv, State
    <2>6. Complete'
      BY <1>0, <2>1, <2>4, <2>5 DEF QueueInv, StreamInv, Complete
    <2>7. QED
      BY <2>3, <2>6 DEF StreamInv
  <1>5. QED
    BY <1>1, <1>2, <1>3, <1>4 DEF QueueInv

\* A line is typed.
LEMMA TypeInv ==
    ASSUME QueueInv, Type PROVE QueueInv'
  <1> USE DEF Type, Goto, kernel, handler
  <1>0. /\ pc' = [pc EXCEPT !["writer"] = "send"] /\ pc["writer"] = "ask"
        /\ hpc' = hpc /\ hpc["writer"] = "none" /\ runs' = runs /\ sigints' = sigints /\ id' = id
        /\ type' = type /\ lang' = lang /\ fails' = fails /\ shown' = shown
        /\ current' = current /\ made' = made /\ queue' = queue
    OBVIOUS
  <1>t. /\ typed \in 0 .. MaxLines /\ text \in [Progs -> Texts]
        /\ \/ typed' = typed + 1 /\ typed < MaxLines /\ text' = [text EXCEPT !["writer"] = typed + 1]
           \/ typed' = typed /\ text' = [text EXCEPT !["writer"] = Zero]
        /\ typed' \in 0 .. MaxLines /\ text' \in [Progs -> Texts]
        /\ text'["writer"] = Zero \/ text'["writer"] = typed'
        /\ text'["reader"] = text["reader"]
    <2>1. typed \in 0 .. MaxLines /\ text \in [Progs -> Texts]
      BY DEF QueueInv, Buffers
    <2>2. \/ typed' = typed + 1 /\ typed < MaxLines /\ text' = [text EXCEPT !["writer"] = typed + 1]
          \/ typed' = typed /\ text' = [text EXCEPT !["writer"] = Zero]
      OBVIOUS
    <2>3. QED
      BY <2>1, <2>2 DEF Texts, NoText, Zero, Progs
  <1>1. Control'
    BY <1>0, <1>t DEF QueueInv, Control, Gone, WriterPCs, ReaderPCs, Progs
  <1>2. Queues'
    <2>1. \A o \in Progs : Used(o)' = Used(o)
      BY <1>0 DEF QueueInv, Control, Used, Progs
    <2>2. QED
      BY <1>0, <2>1 DEF QueueInv, Control, Queues, Progs
  <1>3. Buffers'
    BY <1>0, <1>t DEF QueueInv, Control, Buffers, TooLong, Progs
  <1>4. StreamInv'
    <2>1. /\ Held' = Held /\ Waiting' = Waiting /\ Repeats' = Repeats
          /\ Ready = NoText /\ Ready' = text'["writer"]
      BY <1>0, <1>t DEF QueueInv, Control, Held, Waiting, Ready, Repeats, Progs
    <2>2. /\ StreamType(shown, Held, Waiting, NoText, typed)
          /\ Ordered(shown, Held, Waiting, NoText, typed, Repeats)
      BY <2>1, StreamOfState DEF QueueInv, State, StreamInv
    <2>3. /\ OneRun' = OneRun /\ ReaderDone' = ReaderDone /\ ~WriterDone
          /\ text'["writer"] = Zero => WriterDone'
      BY <1>0, <1>t DEF QueueInv, Control, OneRun, ReaderDone, WriterDone, Gone, Progs
    <2>4. CASE typed' = typed + 1 /\ text' = [text EXCEPT !["writer"] = typed + 1]
      <3>1. Ready' = typed + 1
        BY <1>t, <2>1, <2>4 DEF Progs
      <3>2. Ordered(shown, Held, Waiting, Ready, typed, Repeats)'
        <4>1. Ordered(shown, Held, Waiting, typed + 1, typed + 1, Repeats)
          BY ONLY <2>2, TypeStream
        <4>2. QED
          BY <1>0, <2>1, <2>4, <3>1, <4>1
      <3>3. NoneLost(shown, Held, Waiting, NoText, typed) =>
              NoneLost(shown, Held, Waiting, typed + 1, typed + 1)
        BY <1>t, TypeComplete
      <3>4. Complete'
        BY <1>0, <2>1, <2>3, <2>4, <3>1, <3>3 DEF QueueInv, StreamInv, Complete
      <3>5. QED
        BY <3>2, <3>4 DEF StreamInv
    <2>5. CASE typed' = typed /\ text' = [text EXCEPT !["writer"] = Zero]
      <3>1. Ready' = Zero
        BY <1>t, <2>1, <2>5 DEF Progs
      <3>2. Ordered(shown, Held, Waiting, Ready, typed, Repeats)'
        BY <1>0, <2>1, <2>2, <2>5, <3>1, LoseStream
      <3>3. Complete'
        BY <1>0, <2>1, <2>3, <2>5, <3>1 DEF QueueInv, StreamInv, Complete
      <3>4. QED
        BY <3>2, <3>3 DEF StreamInv
    <2>6. QED
      BY <1>t, <2>4, <2>5
  <1>5. QED
    BY <1>1, <1>2, <1>3, <1>4 DEF QueueInv

\* There is no input: a writer in C repeats what is in msg.
LEMMA NoInputInv ==
    ASSUME QueueInv, NoInput PROVE QueueInv'
  <1> USE DEF NoInput, Goto, kernel, handler
  <1>0. /\ pc' = [pc EXCEPT !["writer"] = "send"] /\ pc["writer"] = "ask"
        /\ hpc' = hpc /\ hpc["writer"] = "none" /\ runs' = runs /\ sigints' = sigints /\ id' = id
        /\ type' = type /\ lang' = lang /\ fails' = fails + 1 /\ shown' = shown /\ typed' = typed
        /\ current' = current /\ made' = made /\ queue' = queue
    OBVIOUS
  <1>t. /\ text' \in [Progs -> Texts] /\ text'["reader"] = text["reader"]
        /\ text'["writer"] = IF lang["writer"] = "c" THEN text["writer"] ELSE NoText
    BY TextSeqs DEF QueueInv, Buffers, Progs
  <1>1. Control'
    BY <1>0, <1>t DEF QueueInv, Control, Gone, WriterPCs, ReaderPCs, Progs
  <1>2. Queues'
    <2>1. \A o \in Progs : Used(o)' = Used(o)
      BY <1>0 DEF QueueInv, Control, Used, Progs
    <2>2. QED
      BY <1>0, <2>1 DEF QueueInv, Control, Queues, Progs
  <1>3. Buffers'
    BY <1>0, <1>t DEF QueueInv, Control, Buffers, TooLong, Progs
  <1>4. StreamInv'
    <2>1. /\ Held' = Held /\ Waiting' = Waiting
          /\ Ready = NoText /\ Ready' = text'["writer"]
      BY <1>0, <1>t DEF QueueInv, Control, Held, Waiting, Ready, Progs
    <2>2. /\ StreamType(shown, Held, Waiting, NoText, typed)
          /\ Ordered(shown, Held, Waiting, NoText, typed, Repeats)
      BY <2>1, StreamOfState DEF QueueInv, State, StreamInv
    <2>3. fails \in Nat /\ text["writer"] \in {NoText, Zero, typed}
      BY DEF QueueInv, Buffers
    <2>4. Ordered(shown, Held, Waiting, Ready, typed, Repeats)'
      <3>1. CASE lang["writer"] = "c"
        <4>1. Repeats' = TRUE
          BY <1>0, <2>3, <3>1 DEF Repeats
        <4>2. Ready' \in {NoText, Zero, typed}
          BY <1>t, <2>1, <2>3, <3>1
        <4>3. \A yy \in {NoText, Zero, typed} : Ordered(shown, Held, Waiting, yy, typed, TRUE)
          BY ONLY <2>2, TypeStream
        <4>4. Ordered(shown, Held, Waiting, Ready', typed, TRUE)
          BY <4>2, <4>3
        <4>5. QED
          BY <1>0, <2>1, <4>1, <4>4
      <3>2. CASE lang["writer"] # "c"
        <4>1. Repeats' = Repeats
          BY <1>0, <3>2 DEF Repeats
        <4>2. QED
          BY <1>0, <1>t, <2>1, <2>2, <3>2, <4>1
      <3>3. QED
        BY <3>1, <3>2
    <2>5. Complete'
      BY <1>0, <2>3 DEF Complete, OneRun
    <2>6. QED
      BY <2>4, <2>5 DEF StreamInv
  <1>5. QED
    BY <1>1, <1>2, <1>3, <1>4 DEF QueueInv

\* The writer sends the line, unless the queue it opened is gone.
LEMMA SendInv ==
    ASSUME QueueInv, Send PROVE QueueInv'
  <1> USE DEF Send, Goto, handler, input
  <1>0. /\ pc' = [pc EXCEPT !["writer"] = "test"] /\ pc["writer"] = "send"
        /\ hpc' = hpc /\ hpc["writer"] = "none" /\ runs' = runs /\ sigints' = sigints /\ id' = id
        /\ text' = text /\ type' = type /\ lang' = lang /\ shown' = shown /\ typed' = typed
        /\ fails' = fails /\ current' = current /\ made' = made
        /\ type["writer"] = 1 /\ text["writer"] \in {NoText, Zero, typed}
    BY DEF QueueInv, Buffers
  <1>s. /\ queue' \in [Ids -> Seq(Texts)]
        /\ \A r \in Ids : Len(queue'[r]) <= QueueMax /\ (r # current => queue'[r] = << >>)
        /\ Waiting' \in {Waiting, Append(Waiting, text["writer"])}
        /\ id["writer"] = current /\ current # NoQueue => Waiting' = Append(Waiting, text["writer"])
    BY <1>0, Sent DEF QueueInv, State, Queues, Progs
  <1>1. Control'
    BY <1>0 DEF QueueInv, Control, Gone, WriterPCs, ReaderPCs, Progs
  <1>2. Queues'
    <2>1. \A o \in Progs : Used(o)' = Used(o)
      BY <1>0 DEF QueueInv, Control, Used, Progs
    <2>2. QED
      BY <1>0, <1>s, <2>1 DEF QueueInv, Control, Queues, Progs
  <1>3. Buffers'
    BY <1>0 DEF QueueInv, Control, Buffers, TooLong, Progs
  <1>4. StreamInv'
    <2>1. /\ Held' = Held /\ Repeats' = Repeats
          /\ Ready = text["writer"] /\ Ready' = NoText
      BY <1>0 DEF QueueInv, Control, Held, Ready, Repeats, Progs
    <2>2. /\ StreamType(shown, Held, Waiting, Ready, typed)
          /\ Ordered(shown, Held, Waiting, Ready, typed, Repeats)
      BY StreamOfState DEF QueueInv, State, StreamInv
    <2>3. Ordered(shown, Held, Append(Waiting, Ready), NoText, typed, Repeats)
      BY ONLY <2>2, SendStream
    <2>4. Ordered(shown, Held, Waiting, NoText, typed, Repeats)
      BY ONLY <2>2, LoseStream
    <2>5. Ordered(shown, Held, Waiting, Ready, typed, Repeats)'
      BY <1>0, <1>s, <2>1, <2>3, <2>4
    <2>6. /\ OneRun' = OneRun /\ ReaderDone' = ReaderDone /\ WriterDone' = WriterDone
          /\ WriterDone = (text["writer"] = Zero)
      BY <1>0 DEF QueueInv, Control, OneRun, ReaderDone, WriterDone, Gone, Progs
    <2>7. ASSUME OneRun, ~ReaderDone
          PROVE  /\ NoneMissing(shown, Held, Waiting') /\ Waiting' = Append(Waiting, Ready)
                 /\ ~WriterDone => NoneLost(shown, Held, Waiting', NoText, typed)
                 /\ id["writer"] = current /\ current # NoQueue
      <3>1. /\ NoneMissing(shown, Held, Waiting)
            /\ id["writer"] = current /\ current # NoQueue
            /\ ~WriterDone => NoneLost(shown, Held, Waiting, Ready, typed)
        BY <1>0, <2>7 DEF QueueInv, StreamInv, Complete
      <3>2. Waiting' = Append(Waiting, Ready) /\ Ready \in {NoText, Zero, typed}
        BY <1>0, <1>s, <2>1, <3>1
      <3>3. /\ NoneMissing(shown, Held, Append(Waiting, Zero))
            /\ NoneLost(shown, Held, Waiting, Ready, typed) =>
                 /\ NoneMissing(shown, Held, Append(Waiting, Ready))
                 /\ NoneLost(shown, Held, Append(Waiting, Ready), NoText, typed)
        BY ONLY <2>2, <3>1, <3>2, SendComplete
      <3>4. QED
        BY <2>1, <2>6, <3>1, <3>2, <3>3
    <2>8. PrintedAll(shown') \/ ~OneRun
      BY <1>0 DEF QueueInv, StreamInv, Complete
    <2>9. Complete'
      BY <1>0, <2>1, <2>6, <2>7, <2>8 DEF Complete
    <2>10. QED
      BY <2>5, <2>9 DEF StreamInv
  <1>5. QED
    BY <1>1, <1>2, <1>3, <1>4 DEF QueueInv

\* The writer looks at what it has sent.
LEMMA TestSentInv ==
    ASSUME QueueInv, TestSent PROVE QueueInv'
  <1> USE DEF TestSent, Goto, handler, input, kernel
  <1>0. /\ pc' = [pc EXCEPT !["writer"] = IF text["writer"] = Zero THEN "exit" ELSE "ask"]
        /\ pc["writer"] = "test"
        /\ hpc' = hpc /\ hpc["writer"] = "none" /\ runs' = runs /\ sigints' = sigints /\ id' = id
        /\ text' = text /\ type' = type /\ lang' = lang /\ shown' = shown /\ typed' = typed
        /\ fails' = fails /\ current' = current /\ made' = made /\ queue' = queue
    OBVIOUS
  <1>1. Control'
    BY <1>0 DEF QueueInv, Control, Gone, WriterPCs, ReaderPCs, Progs
  <1>2. Queues'
    <2>1. \A o \in Progs : Used(o)' = Used(o)
      BY <1>0 DEF QueueInv, Control, Used, Progs
    <2>2. QED
      BY <1>0, <2>1 DEF QueueInv, Control, Queues, Progs
  <1>3. Buffers'
    BY <1>0 DEF QueueInv, Control, Buffers, TooLong, Progs
  <1>4. StreamInv'
    <2>1. Held' = Held /\ Waiting' = Waiting /\ Ready' = Ready /\ Repeats' = Repeats
      BY <1>0 DEF QueueInv, Control, Held, Waiting, Ready, Repeats, Progs
    <2>2. /\ OneRun' = OneRun /\ ReaderDone' = ReaderDone
          /\ OneRun /\ WriterDone => WriterDone'
      BY <1>0 DEF QueueInv, Control, OneRun, ReaderDone, WriterDone, Gone, Progs
    <2>3. ASSUME OneRun', ~ReaderDone', pc'["writer"] \in {"ask", "send", "test"}
          PROVE  id'["writer"] = current' /\ current' # NoQueue
      BY <1>0, <2>2, <2>3 DEF QueueInv, StreamInv, Complete
    <2>4. QED
      BY <1>0, <2>1, <2>2, <2>3, SameStream DEF QueueInv
  <1>5. QED
    BY <1>1, <1>2, <1>3, <1>4 DEF QueueInv

\* The reader takes the oldest text, or fails to and has an empty msg.
LEMMA ReceiveInv ==
    ASSUME QueueInv, Receive PROVE QueueInv'
  <1> USE DEF Receive, Goto, handler, input
  <1>0. /\ pc' = [pc EXCEPT !["reader"] = "show"] /\ pc["reader"] = "receive"
        /\ hpc' = hpc /\ hpc["reader"] = "none" /\ runs' = runs /\ sigints' = sigints /\ id' = id
        /\ lang' = lang /\ shown' = shown /\ typed' = typed
        /\ fails' = fails /\ current' = current /\ made' = made
        /\ id["reader"] = current /\ current # NoQueue
    BY DEF QueueInv, Queues
  <1>q. /\ current \in Ids /\ Exists(current) /\ Waiting = queue[current] /\ Waiting \in Seq(Texts)
        /\ Held = NoText
    BY <1>0, QueueIds DEF QueueInv, State, Queues, Exists, Waiting, Held
  <1>r. \/ /\ Waiting # << >> /\ ~TooLong /\ text' = [text EXCEPT !["reader"] = Head(Waiting)]
           /\ type' = [type EXCEPT !["reader"] = 1] /\ queue' = [queue EXCEPT ![current] = Tail(@)]
        \/ TooLong /\ text' = text /\ type' = type /\ queue' = queue
    BY <1>0, <1>q DEF LeftInQueue
  <1>a. CASE /\ Waiting # << >> /\ ~TooLong /\ text' = [text EXCEPT !["reader"] = Head(Waiting)]
             /\ type' = [type EXCEPT !["reader"] = 1] /\ queue' = [queue EXCEPT ![current] = Tail(@)]
    <2>h. /\ Head(Waiting) \in Texts /\ Tail(Waiting) \in Seq(Texts)
          /\ Len(Tail(Waiting)) <= QueueMax
      <3>1. Len(Waiting) \in Nat /\ Len(Waiting) <= QueueMax /\ Len(Tail(Waiting)) = Len(Waiting) - 1
        BY <1>a, <1>q, TextSeqs DEF QueueInv, Queues
      <3>2. QED
        BY <1>a, <1>q, <3>1, TextSeqs
    <2>t. /\ text \in [Progs -> Texts] /\ text' \in [Progs -> Texts]
          /\ text'["reader"] = Head(Waiting) /\ text'["writer"] = text["writer"]
      BY <1>a, <2>h DEF QueueInv, Buffers, Progs
    <2>1. Control'
      BY <1>0, <2>t DEF QueueInv, Control, Gone, WriterPCs, ReaderPCs, Progs
    <2>2. Queues'
      <3>1. \A o \in Progs : Used(o)' = Used(o)
        BY <1>0 DEF QueueInv, Control, Used, Progs
      <3>2. /\ queue' \in [Ids -> Seq(Texts)]
            /\ \A q \in Ids : Len(queue'[q]) <= QueueMax /\ (q # current' => queue'[q] = << >>)
        BY <1>0, <1>q, <1>a, <2>h DEF QueueInv, Queues
      <3>3. QED
        BY <1>0, <3>1, <3>2 DEF QueueInv, Control, Queues, Progs
    <2>3. Buffers'
      BY <1>0, <1>a, <2>t DEF QueueInv, Control, Buffers, TooLong, Progs
    <2>4. StreamInv'
      <3>1. /\ Held' = Head(Waiting) /\ Waiting' = Tail(Waiting) /\ Ready' = Ready /\ Repeats' = Repeats
        BY <1>0, <1>q, <1>a, <2>t DEF QueueInv, Control, Queues, Held, Waiting, Ready, Repeats, Progs
      <3>2. /\ StreamType(shown, NoText, Waiting, Ready, typed) /\ Waiting # << >>
            /\ Ordered(shown, NoText, Waiting, Ready, typed, Repeats)
        BY <1>q, <1>a, StreamOfState DEF QueueInv, State, StreamInv
      <3>3. Ordered(shown, Head(Waiting), Tail(Waiting), Ready, typed, Repeats)
        BY ONLY <3>2, ReceiveStream
      <3>4. NoneMissing(shown, NoText, Waiting) =>
              /\ NoneMissing(shown, Head(Waiting), Tail(Waiting))
              /\ NoneLost(shown, NoText, Waiting, Ready, typed) =>
                   NoneLost(shown, Head(Waiting), Tail(Waiting), Ready, typed)
        BY ONLY <3>2, ReceiveComplete
      <3>5. OneRun' = OneRun /\ ~ReaderDone /\ WriterDone' = WriterDone
        BY <1>0, <2>t DEF QueueInv, Control, OneRun, ReaderDone, WriterDone, Gone, Progs
      <3>6. pc'["writer"] = pc["writer"]
        BY <1>0 DEF QueueInv, Control, Progs
      <3>7. Complete'
        BY <1>0, <1>q, <3>1, <3>4, <3>5, <3>6 DEF QueueInv, StreamInv, Complete
      <3>8. QED
        BY <1>0, <3>1, <3>3, <3>7 DEF StreamInv
    <2>5. QED
      BY <2>1, <2>2, <2>3, <2>4 DEF QueueInv
  <1>b. CASE TooLong /\ text' = text /\ type' = type /\ queue' = queue
    <2>1. Control'
      BY <1>0, <1>b DEF QueueInv, Control, Gone, WriterPCs, ReaderPCs, Progs
    <2>2. Queues'
      <3>1. \A o \in Progs : Used(o)' = Used(o)
        BY <1>0 DEF QueueInv, Control, Used, Progs
      <3>2. QED
        BY <1>0, <1>b, <3>1 DEF QueueInv, Control, Queues, Progs
    <2>3. Buffers'
      BY <1>0, <1>b DEF QueueInv, Control, Buffers, TooLong, Progs
    <2>4. StreamInv'
      <3>1. Held' = Held /\ Waiting' = Waiting /\ Ready' = Ready /\ Repeats' = Repeats
        BY <1>0, <1>q, <1>b DEF QueueInv, Control, Buffers, Held, Waiting, Ready, Repeats, Progs
      <3>2. /\ OneRun' = OneRun /\ ~ReaderDone /\ WriterDone' = WriterDone
            /\ pc'["writer"] = pc["writer"]
        BY <1>0, <1>b DEF QueueInv, Control, OneRun, ReaderDone, WriterDone, Gone, Progs
      <3>3. ASSUME OneRun', ~ReaderDone', pc'["writer"] \in {"ask", "send", "test"}
            PROVE  id'["writer"] = current' /\ current' # NoQueue
        BY <1>0, <3>2, <3>3 DEF QueueInv, StreamInv, Complete
      <3>4. QED
        BY <1>0, <3>1, <3>2, <3>3, SameStream DEF QueueInv
    <2>5. QED
      BY <2>1, <2>2, <2>3, <2>4 DEF QueueInv
  <1>5. QED
    BY <1>r, <1>a, <1>b

\* The reader prints what it holds.
LEMMA ShowInv ==
    ASSUME QueueInv, Show PROVE QueueInv'
  <1> USE DEF Show, Goto, handler, input, kernel
  <1>0. /\ pc' = [pc EXCEPT !["reader"] = "check"] /\ pc["reader"] = "show"
        /\ hpc' = hpc /\ hpc["reader"] = "none" /\ runs' = runs /\ sigints' = sigints /\ id' = id
        /\ text' = text /\ type' = type /\ lang' = lang /\ typed' = typed
        /\ fails' = fails /\ current' = current /\ made' = made /\ queue' = queue
    OBVIOUS
  <1>h. /\ shown \in Seq(Texts) /\ text["reader"] \in Texts /\ Held = text["reader"]
        /\ shown' = IF Held = NoText THEN shown ELSE Append(shown, Held)
    BY <1>0 DEF QueueInv, Buffers, Held, Printed, Progs
  <1>1. Control'
    BY <1>0 DEF QueueInv, Control, Gone, WriterPCs, ReaderPCs, Progs
  <1>2. Queues'
    <2>1. \A o \in Progs : Used(o)' = Used(o)
      BY <1>0 DEF QueueInv, Control, Used, Progs
    <2>2. QED
      BY <1>0, <2>1 DEF QueueInv, Control, Queues, Progs
  <1>3. Buffers'
    <2>1. shown' \in Seq(Texts)
      BY <1>h, TextSeqs
    <2>2. QED
      BY <1>0, <2>1 DEF QueueInv, Control, Buffers, TooLong, Progs
  <1>4. StreamInv'
    <2>1. Held' = NoText /\ Waiting' = Waiting /\ Ready' = Ready /\ Repeats' = Repeats
      BY <1>0 DEF QueueInv, Control, Held, Waiting, Ready, Repeats, Progs
    <2>2. /\ StreamType(shown, Held, Waiting, Ready, typed)
          /\ Ordered(shown, Held, Waiting, Ready, typed, Repeats)
      BY StreamOfState DEF QueueInv, State, StreamInv
    <2>3. /\ Held = NoText => Ordered(shown, NoText, Waiting, Ready, typed, Repeats)
          /\ Held # NoText => Ordered(Append(shown, Held), NoText, Waiting, Ready, typed, Repeats)
      BY ONLY <2>2, ShowStream
    <2>4. Ordered(shown, Held, Waiting, Ready, typed, Repeats)'
      BY <1>0, <1>h, <2>1, <2>3
    <2>5. /\ OneRun' = OneRun /\ ReaderDone' = ReaderDone /\ WriterDone' = WriterDone
          /\ ReaderDone = (Held = Zero) /\ pc'["writer"] = pc["writer"]
      BY <1>0, <1>h DEF QueueInv, Control, OneRun, ReaderDone, WriterDone, Gone, Progs
    <2>6. ASSUME OneRun, Held = Zero PROVE PrintedAll(shown')
      <3>1. StreamType(shown, Zero, << >>, NoText, typed)
        BY <2>2, TextSeqs DEF StreamType
      <3>2. NoneMissing(shown, Zero, << >>)
        BY TextSeqs DEF NoneMissing, Zero
      <3>3. PrintedAll(shown)
        BY <2>6 DEF QueueInv, StreamInv, Complete
      <3>4. PrintedAll(Append(shown, Zero))
        BY ONLY <3>1, <3>2, <3>3, ShowComplete
      <3>5. QED
        BY <1>h, <2>6, <3>4 DEF Zero, NoText
    <2>7. ASSUME OneRun, ~ReaderDone
          PROVE  /\ PrintedAll(shown') /\ NoneMissing(shown', NoText, Waiting)
                 /\ NoneLost(shown, Held, Waiting, Ready, typed) =>
                      NoneLost(shown', NoText, Waiting, Ready, typed)
      <3>1. PrintedAll(shown) /\ NoneMissing(shown, Held, Waiting)
        BY <2>7 DEF QueueInv, StreamInv, Complete
      <3>2. /\ PrintedAll(Append(shown, Held))
            /\ NoneMissing(Append(shown, Held), NoText, Waiting)
            /\ NoneLost(shown, Held, Waiting, Ready, typed) =>
                 NoneLost(Append(shown, Held), NoText, Waiting, Ready, typed)
        BY ONLY <2>2, <3>1, ShowComplete
      <3>3. QED
        BY <1>h, <3>1, <3>2
    <2>8. Complete'
      BY <1>0, <2>1, <2>5, <2>6, <2>7 DEF QueueInv, StreamInv, Complete
    <2>9. QED
      BY <2>4, <2>8 DEF StreamInv
  <1>5. QED
    BY <1>1, <1>2, <1>3, <1>4 DEF QueueInv

\* The reader looks at what it has printed, or a 0 of its handler.
LEMMA TestShownInv ==
    ASSUME QueueInv, TestShown PROVE QueueInv'
  <1> USE DEF TestShown, Goto, handler, input, kernel
  <1>0. /\ pc' = [pc EXCEPT !["reader"] = IF text["reader"] = Zero THEN "remove" ELSE "receive"]
        /\ pc["reader"] = "check"
        /\ hpc' = hpc /\ hpc["reader"] = "none" /\ runs' = runs /\ sigints' = sigints /\ id' = id
        /\ text' = text /\ type' = type /\ lang' = lang /\ shown' = shown /\ typed' = typed
        /\ fails' = fails /\ current' = current /\ made' = made /\ queue' = queue
    OBVIOUS
  <1>1. Control'
    BY <1>0 DEF QueueInv, Control, Gone, WriterPCs, ReaderPCs, Progs
  <1>2. Queues'
    <2>1. \A o \in Progs : Used(o)' = Used(o)
      BY <1>0 DEF QueueInv, Control, Used, Progs
    <2>2. QED
      BY <1>0, <2>1 DEF QueueInv, Control, Queues, Progs
  <1>3. Buffers'
    BY <1>0 DEF QueueInv, Control, Buffers, TooLong, Progs
  <1>4. StreamInv'
    <2>1. Held' = Held /\ Waiting' = Waiting /\ Ready' = Ready /\ Repeats' = Repeats
      BY <1>0 DEF QueueInv, Control, Held, Waiting, Ready, Repeats, Progs
    <2>2. /\ OneRun' = OneRun /\ ReaderDone' = ReaderDone /\ WriterDone' = WriterDone
          /\ pc'["writer"] = pc["writer"]
      BY <1>0 DEF QueueInv, Control, OneRun, ReaderDone, WriterDone, Gone, Progs
    <2>3. ASSUME OneRun', ~ReaderDone', pc'["writer"] \in {"ask", "send", "test"}
          PROVE  id'["writer"] = current' /\ current' # NoQueue
      BY <1>0, <2>2, <2>3 DEF QueueInv, StreamInv, Complete
    <2>4. QED
      BY <1>0, <2>1, <2>2, <2>3, SameStream DEF QueueInv
  <1>5. QED
    BY <1>1, <1>2, <1>3, <1>4 DEF QueueInv

\* The reader destroys the queue, which is the one that has the key.
LEMMA DestroyQueueInv ==
    ASSUME QueueInv, DestroyQueue PROVE QueueInv'
  <1> USE DEF DestroyQueue, Goto, handler, input
  <1>0. /\ pc' = [pc EXCEPT !["reader"] = "exit"] /\ pc["reader"] = "remove"
        /\ hpc' = hpc /\ hpc["reader"] = "none" /\ runs' = runs /\ sigints' = sigints /\ id' = id
        /\ text' = text /\ type' = type /\ lang' = lang /\ typed' = typed /\ shown' = shown
        /\ fails' = fails /\ made' = made
        /\ id["reader"] = current /\ current # NoQueue
    BY DEF QueueInv, Queues
  <1>c. current' = NoQueue /\ queue' = [queue EXCEPT ![current] = << >>] /\ current \in Ids
    BY <1>0, QueueIds DEF QueueInv, State, Exists
  <1>1. Control'
    BY <1>0 DEF QueueInv, Control, Gone, WriterPCs, ReaderPCs, Progs
  <1>2. Queues'
    <2>1. \A o \in Progs : Used(o)' = Used(o)
      BY <1>0 DEF QueueInv, Control, Used, Progs
    <2>2. /\ queue' \in [Ids -> Seq(Texts)]
          /\ \A q \in Ids : Len(queue'[q]) <= QueueMax /\ queue'[q] = << >>
      BY <1>c, TextSeqs DEF QueueInv, Queues
    <2>3. /\ made' \in Nat /\ made' <= Used("writer")' + Used("reader")' /\ current' \in 0 .. made'
          /\ id' \in [Progs -> 0 .. made'] /\ hid' \in [Progs -> 0 .. made']
      BY <1>0, <1>c, <2>1 DEF QueueInv, Queues, Progs, NoQueue
    <2>4. pc'["reader"] = "exit" /\ current' # id'["reader"]
      BY <1>0, <1>c DEF QueueInv, Control, Progs
    <2>5. QED
      BY <2>2, <2>3, <2>4 DEF Queues
  <1>3. Buffers'
    BY <1>0 DEF QueueInv, Control, Buffers, TooLong, Progs
  <1>4. StreamInv'
    <2>1. Held' = Held /\ Waiting' = << >> /\ Ready' = Ready /\ Repeats' = Repeats
      BY <1>0, <1>c DEF QueueInv, Control, Held, Waiting, Ready, Repeats, Progs
    <2>2. /\ StreamType(shown, Held, Waiting, Ready, typed)
          /\ Ordered(shown, Held, Waiting, Ready, typed, Repeats)
      BY StreamOfState DEF QueueInv, State, StreamInv
    <2>3. Ordered(shown, Held, << >>, Ready, typed, Repeats)
      BY ONLY <2>2, LoseStream
    <2>4. Ordered(shown, Held, Waiting, Ready, typed, Repeats)'
      BY <1>0, <2>1, <2>3
    <2>5. OneRun' = OneRun /\ (OneRun => ReaderDone')
      BY <1>0 DEF QueueInv, Control, OneRun, ReaderDone, Gone, Progs
    <2>6. Complete'
      BY <1>0, <2>5 DEF QueueInv, StreamInv, Complete
    <2>7. QED
      BY <2>4, <2>6 DEF StreamInv
  <1>5. QED
    BY <1>1, <1>2, <1>3, <1>4 DEF QueueInv

\* A program ends, with nothing left to send or to print.
LEMMA ExitInv ==
    ASSUME QueueInv, NEW p \in Progs, Exit(p) PROVE QueueInv'
  <1> USE DEF Exit, Goto, handler, input, kernel
  <1>0. /\ pc' = [pc EXCEPT ![p] = "ended"] /\ pc[p] = "exit"
        /\ hpc' = hpc /\ hpc[p] = "none" /\ runs' = runs /\ sigints' = sigints /\ id' = id
        /\ text' = text /\ type' = type /\ lang' = lang /\ shown' = shown /\ typed' = typed
        /\ fails' = fails /\ current' = current /\ made' = made /\ queue' = queue
        /\ runs[p] >= 1 /\ runs[p] \in Nat
    BY DEF QueueInv, Control
  <1>1. Control'
    BY <1>0 DEF QueueInv, Control, Gone, WriterPCs, ReaderPCs, Progs
  <1>2. Queues'
    <2>1. \A o \in Progs : Used(o)' = Used(o)
      BY <1>0 DEF QueueInv, Control, Used, Progs
    <2>2. QED
      BY <1>0, <2>1 DEF QueueInv, Control, Queues, Progs
  <1>3. Buffers'
    BY <1>0 DEF QueueInv, Control, Buffers, TooLong, Progs
  <1>4. StreamInv'
    <2>1. Held' = Held /\ Waiting' = Waiting /\ Ready' = Ready /\ Repeats' = Repeats
      BY <1>0 DEF QueueInv, Control, Held, Waiting, Ready, Repeats, Progs
    <2>2. /\ OneRun' = OneRun
          /\ OneRun => ReaderDone' = ReaderDone /\ (WriterDone => WriterDone')
          /\ pc'["writer"] \in {"ask", "send", "test"} => pc'["writer"] = pc["writer"]
      BY <1>0 DEF QueueInv, Control, OneRun, ReaderDone, WriterDone, Gone, Progs
    <2>3. ASSUME OneRun', ~ReaderDone', pc'["writer"] \in {"ask", "send", "test"}
          PROVE  id'["writer"] = current' /\ current' # NoQueue
      BY <1>0, <2>2, <2>3 DEF QueueInv, StreamInv, Complete
    <2>4. QED
      BY <1>0, <2>1, <2>2, <2>3, SameStream DEF QueueInv
  <1>5. QED
    BY <1>1, <1>2, <1>3, <1>4 DEF QueueInv

\* A step that changes nothing.
LEMMA QueueStutter ==
    ASSUME QueueInv, UNCHANGED vars PROVE QueueInv'
  <1> USE DEF vars, kernel, handler, input
  <1>1. Control'
    BY DEF QueueInv, Control, Gone
  <1>2. Queues'
    BY DEF QueueInv, Queues, Used
  <1>3. Buffers'
    BY DEF QueueInv, Buffers, TooLong
  <1>4. StreamInv'
    BY DEF QueueInv, StreamInv, Complete, Held, Waiting, Ready, Repeats, OneRun,
           ReaderDone, WriterDone, Gone
  <1>5. QED
    BY <1>1, <1>2, <1>3, <1>4 DEF QueueInv

\* Every step preserves the invariant of the message queue.
LEMMA QueueStep ==
    ASSUME QueueInv, [Next]_vars PROVE QueueInv'
  <1>0. "writer" \in Progs /\ "reader" \in Progs
    BY DEF Progs
  <1>1. CASE Writer
    BY <1>0, <1>1, OpenInv, SendInv, TestSentInv, ExitInv, HandlerCreateInv, HandlerSendInv
       DEF Writer, close_ipc
  <1>2. CASE Reader
    BY <1>0, <1>2, OpenInv, ReceiveInv, ShowInv, TestShownInv, DestroyQueueInv, ExitInv,
       HandlerCreateInv, HandlerSendInv
       DEF Reader, close_ipc
  <1>3. CASE Type
    BY <1>3, TypeInv
  <1>4. CASE NoInput
    BY <1>4, NoInputInv
  <1>5. CASE \E p \in Progs : Start(p) \/ Sigint(p) \/ KillBySigint(p)
    BY <1>5, StartInv, SigintInv, KillInv
  <1>6. CASE UNCHANGED vars
    BY <1>6, QueueStutter
  <1>7. QED
    BY <1>1, <1>2, <1>3, <1>4, <1>5, <1>6 DEF Next

\* The inductive invariant of the message queue.
LEMMA QueueInvAlways == Spec => []QueueInv
  BY InitInv, QueueStep, PTL DEF Spec

\* Whatever the handlers write over msg, whichever calls fail unnoticed and
\* however often the queue is destroyed and made again: the reader prints the
\* lines in the order in which they were typed, each at most once, and no line
\* is skipped as long as no program is started twice.
THEOREM LinesAlwaysArrive == Spec => []LinesArrive
  <1>1. QueueInv => LinesArrive
    <2> SUFFICES ASSUME QueueInv PROVE LinesArrive
      OBVIOUS
    <2>1. TypeOK
      BY QueueIds DEF QueueInv, State, Queues, Buffers, TypeOK, Texts
    <2>2. InOrderOnce
      <3>1. \A i \in 1 .. Len(shown) : shown[i] \in 0 .. typed
        BY DEF QueueInv, StreamInv, Ordered, Bounded
      <3>2. \A i, j \in 1 .. Len(shown) : i < j => Precedes(shown[i], shown[j], Repeats)
        BY DEF QueueInv, StreamInv, Ordered, InOrder
      <3>3. typed \in Nat
        BY DEF QueueInv, Buffers
      <3>4. QED
        BY <3>1, <3>2, <3>3 DEF InOrderOnce, Precedes, Repeats, Zero
    <2>3. NoGaps
      BY DEF QueueInv, StreamInv, Complete, OneRun, PrintedAll, NoGaps
    <2>4. QED
      BY <2>1, <2>2, <2>3 DEF LinesArrive
  <1>2. QED
    BY <1>1, QueueInvAlways, PTL

\* A step of the programs or of their handlers leaves nothing behind: queues
\* are made where there is none, by a writer that opens or by a handler, and
\* handlers send a 0.
LEMMA LeavesNothing ==
    ASSUME QueueInv, NothingLeftBehind, [Next]_vars PROVE NothingLeftBehind'
  <1>q. QueueInv'
    BY QueueStep
  <1> SUFFICES ASSUME pc'["reader"] \in {"exit", "ended"}
               PROVE  \/ current' \in {NoQueue, id'["writer"]}
                      \/ /\ \E p \in Progs : sigints'[p] > 0
                         /\ \A i \in 1 .. Len(queue'[current']) : queue'[current'][i] = Zero
    BY <1>q DEF NothingLeftBehind, QueueInv, Queues
  <1> DEFINE Left(c, w, sg, q) ==
               \/ c \in {NoQueue, w}
               \/ (\E p \in Progs : sg[p] > 0) /\ \A i \in 1 .. Len(q[c]) : q[c][i] = Zero
  <1> HIDE DEF Left
  <1>0. /\ State /\ "writer" \in Progs /\ "reader" \in Progs
        /\ pc \in [Progs -> WriterPCs \cup ReaderPCs] /\ sigints \in [Progs -> Nat]
        /\ pc["reader"] \in {"exit", "ended"} => Left(current, id["writer"], sigints, queue)
    BY DEF QueueInv, State, Control, Progs, NothingLeftBehind, Left
  <1>1. ASSUME UNCHANGED <<current, queue>>, id'["writer"] = id["writer"],
               \A p \in Progs : sigints[p] > 0 => sigints'[p] > 0,
               pc["reader"] \in {"exit", "ended"}
        PROVE  Left(current, id["writer"], sigints, queue)'
    BY <1>0, <1>1 DEF Left
  <1>2. ASSUME NEW p \in Progs, Open(p) PROVE Left(current, id["writer"], sigints, queue)'
    <2>1. p = "writer"
      BY <1>0, <1>2 DEF Open, Goto, Progs
    <2>2. id'["writer"] = current'
      BY <1>2, <2>1 DEF Open, create_queue, kernel, QueueInv, Queues, Progs
    <2>3. QED
      BY <2>2 DEF Left
  <1>3. ASSUME NEW p \in Progs, HandlerCreate(p) PROVE Left(current, id["writer"], sigints, queue)'
    <2>1. /\ pc["reader"] \in {"exit", "ended"} /\ id' = id /\ sigints' = sigints /\ sigints[p] > 0
          /\ queue' = queue
      BY <1>3 DEF HandlerCreate, create_queue, kernel, QueueInv, Control
    <2>2. CASE current' = current
      BY <1>0, <1>1, <2>1, <2>2
    <2>3. CASE current' # current
      <3>1. current = NoQueue /\ current' = made + 1
        BY <1>3, <2>3 DEF HandlerCreate, create_queue, kernel
      <3>2. made + 1 \in Ids /\ made + 1 # current
        BY <1>0, <1>3, <3>1, QueueIds DEF HandlerCreate, State, Queues, NoQueue
      <3>3. queue'[current'] = << >>
        BY <2>1, <3>1, <3>2 DEF QueueInv, Queues
      <3>4. QED
        BY <2>1, <3>3, TextSeqs DEF Left
    <2>4. QED
      BY <2>2, <2>3
  <1>4. ASSUME NEW p \in Progs, HandlerSend(p) PROVE Left(current, id["writer"], sigints, queue)'
    <2>1. /\ pc["reader"] \in {"exit", "ended"} /\ id' = id /\ sigints' = sigints /\ sigints[p] > 0
          /\ current' = current /\ text[p] = Zero /\ msgsnd(hid[p], p)
      <3>1. pc["reader"] \in {"exit", "ended"}
        BY <1>0, <1>4 DEF HandlerSend, AfterCall, QueueInv, Control
      <3>2. QED
        BY <1>4, <3>1 DEF HandlerSend, QueueInv, Control
    <2>2. CASE queue' = queue
      BY <1>1, <2>1, <2>2
    <2>3. CASE queue' # queue
      <3>1. /\ hid[p] = current /\ current # NoQueue /\ current \in Ids
            /\ queue' = [queue EXCEPT ![current] = Append(@, Zero)]
        BY <1>0, <2>1, <2>3, QueueIds DEF msgsnd, Exists
      <3>2. queue[current] \in Seq(Texts) /\ queue'[current] = Append(queue[current], Zero)
        BY <3>1 DEF QueueInv, Queues
      <3>3. /\ Len(queue[current]) \in Nat /\ Len(queue'[current]) = Len(queue[current]) + 1
            /\ \A i \in 1 .. Len(queue[current]) + 1 :
                 queue'[current][i] = IF i = Len(queue[current]) + 1 THEN Zero ELSE queue[current][i]
        BY <3>2, TextSeqs
      <3>4. CASE current = id["writer"]
        BY <2>1, <3>4 DEF Left
      <3>5. CASE current # id["writer"]
        <4>0. Left(current, id["writer"], sigints, queue)
          BY <1>0, <2>1
        <4>1. \A i \in 1 .. Len(queue[current]) : queue[current][i] = Zero
          BY ONLY <3>1, <3>5, <4>0 DEF Left
        <4>2. \A i \in 1 .. Len(queue'[current']) : queue'[current'][i] = Zero
          BY <2>1, <3>3, <4>1
        <4>3. QED
          BY <2>1, <4>2 DEF Left
      <3>6. QED
        BY <3>4, <3>5
    <2>4. QED
      BY <2>2, <2>3
  <1>5. ASSUME Send PROVE Left(current, id["writer"], sigints, queue)'
    <2>1. /\ pc["reader"] \in {"exit", "ended"} /\ id' = id /\ sigints' = sigints
          /\ current' = current /\ msgsnd(id["writer"], "writer")
      BY <1>0, <1>5 DEF Send, Goto
    <2>2. queue' = queue \/ current = id["writer"]
      BY <2>1 DEF msgsnd, Exists
    <2>3. QED
      BY <1>1, <2>1, <2>2 DEF Left
  <1>6. ASSUME DestroyQueue PROVE Left(current, id["writer"], sigints, queue)'
    BY <1>6 DEF DestroyQueue, Goto, Exists, QueueInv, Queues, Left
  <1>7. ASSUME UNCHANGED <<current, queue, id>>, pc["reader"] \in {"exit", "ended"},
               sigints' = sigints \/ \E p \in Progs : sigints' = [sigints EXCEPT ![p] = @ + 1]
        PROVE  Left(current, id["writer"], sigints, queue)'
    <2>1. \A p \in Progs : sigints[p] > 0 => sigints'[p] > 0
      BY <1>0, <1>7
    <2>2. QED
      BY <1>1, <1>7, <2>1
  <1>8. ASSUME \/ TestSent \/ Type \/ NoInput \/ UNCHANGED vars
               \/ \E p \in Progs : Exit(p) \/ Start(p) \/ Sigint(p) \/ KillBySigint(p)
        PROVE  Left(current, id["writer"], sigints, queue)'
    <2>1. /\ UNCHANGED <<current, queue, id>>
          /\ sigints' = sigints \/ \E p \in Progs : sigints' = [sigints EXCEPT ![p] = @ + 1]
      BY <1>8 DEF TestSent, Type, NoInput, Exit, Start, Sigint, KillBySigint, vars, kernel
    <2>2. pc["reader"] \in {"exit", "ended"}
      BY <1>0, <1>8 DEF TestSent, Type, NoInput, Exit, Start, Sigint, KillBySigint, vars, Goto
    <2>3. QED
      BY <1>7, <2>1, <2>2
  <1>9. ~(Receive \/ Show \/ TestShown)
    BY <1>0 DEF Receive, Show, TestShown, Goto
  <1>10. Left(current, id["writer"], sigints, queue)'
    BY <1>0, <1>2, <1>3, <1>4, <1>5, <1>6, <1>8, <1>9 DEF Next, Writer, Reader, close_ipc
  <1>11. QED
    BY <1>10 DEF Left

\* When the reader has destroyed its queue, there is none, or one that a writer
\* has opened, or one that a handler has made after a SIGINT and that holds
\* only the 0 of handlers: no line is left behind for the next reader.
THEOREM NothingIsLeftBehind == Spec => []NothingLeftBehind
  <1>1. Init => NothingLeftBehind
    BY DEF Init, NothingLeftBehind, Progs
  <1>2. QED
    BY <1>1, QueueInvAlways, LeavesNothing, PTL DEF Spec

-----------------------------------------------------------------------------
(* The two-way pipe.  Its program shares nothing with those of the message *)
(* queue: it has variables of its own.                                     *)

CONSTANT ForkMayFail

VARIABLES language, place, msg, running, eof, pipe, heard, signals

Pipe == INSTANCE TwoWayPipe
            WITH pc <- place, dry <- eof, shown <- heard, sigints <- signals

Places == {"absent", "start", "check", "ask", "write", "read", "test", "answer", "close", "done", "killed"}

BothLive == Pipe!Live("parent") /\ Pipe!Live("child")

\* w holds a message that is not a 0, no two of them, none of those in S.
WordIn(w)     == \E i \in 1 .. Len(w) : w[i] # "0"
OneWord(w)    == \A i, j \in 1 .. Len(w) : w[i] # "0" /\ w[j] # "0" => i = j
Without(w, S) == \A i \in 1 .. Len(w) : w[i] \notin S

\* It is p's turn to write; what it will write need not be a 0; the loop is
\* being left for a 0.
HasTurn(p) ==
    place[p] \in {"check", "ask", "write", "test", "answer"} \/ (p = "parent" /\ place[p] = "start")
HasWord(p) ==
    \/ place[p] = "ask"
    \/ place[p] = "write" /\ msg[p] # "0"
    \/ place[p] = "test" /\ running[p] /\ msg[p] # "0"
    \/ place[p] = "check" /\ running[p]
    \/ p = "parent" /\ place[p] = "start" /\ running[p]
Leaving(p) == place[p] \in {"answer", "close"} \/ (place[p] = "test" /\ msg[p] = "0")

PipeTypes ==
    /\ language \in {"c", "cpp"}
    /\ place \in [Pipe!Procs -> Places]
    /\ msg \in [Pipe!Procs -> Pipe!Messages]
    /\ running \in [Pipe!Procs -> BOOLEAN] /\ eof \in [Pipe!Procs -> BOOLEAN]
    /\ pipe \in [Pipe!Procs -> Seq(Pipe!Messages)]
    /\ heard \in [Pipe!Procs -> Pipe!Messages \cup {"nothing"}]
    /\ signals \in [Pipe!Procs -> Nat]
    /\ \A p \in Pipe!Procs : /\ place[p] = "answer" => msg[p] = "0"
                             /\ ~running[p] => signals[p] > 0 /\ language = "c"
                             /\ place[p] = "absent" => p = "parent"

\* What p is about to write; the word that it may get from q; and that it may
\* answer a last 0.
Owed(p)   == IF HasTurn(p) THEN 1 ELSE 0
Coming(q) == IF HasWord(q) \/ WordIn(pipe[q]) THEN 1 ELSE 0
Last(p)   == IF Leaving(p) THEN 1 ELSE 0

\* There is at most one word, with a process or in a pipe: what an interrupted
\* read() adds to the conversation are 0s, each of them paid for by a signal.
WordInv(p, q) ==
    /\ Len(pipe[p]) <= 2 + signals[p]
    /\ BothLive =>
         /\ Len(pipe[p]) + Owed(p) + Coming(q) <= 1 + signals[p] + Last(p)
         /\ OneWord(pipe[p])
         /\ HasWord(p) => /\ ~HasWord(q) /\ ~WordIn(pipe[p])
                          /\ ~WordIn(pipe[q])
         /\ WordIn(pipe[p]) => ~WordIn(pipe[q])

\* Without signals there is one turn, and it is with a process or in a pipe;
\* the last word of a process that has left is a 0.
TurnInv(p, q) ==
    /\ HasTurn(p) => ~HasTurn(q) /\ pipe[p] = << >> /\ pipe[q] = << >>
    /\ pipe[p] # << >> => Len(pipe[p]) = 1 /\ pipe[q] = << >>
    /\ ~Pipe!Live(q) \/ place[q] = "close" =>
         /\ place[p] \notin {"check", "ask", "write"}
         /\ place[p] \in {"start", "read"} =>
              pipe[q] # << >> /\ Head(pipe[q]) = "0"
         /\ place[p] = "test" => msg[p] = "0"
    /\ place[p] = "killed" => place[q] = "done"

\* ... and what comes from a pipe was typed at the other end.
Hearing == Pipe!Quiet /\ (language = "cpp" \/ \A p \in Pipe!Procs : ~eof[p])
HearInv(p, q) ==
    /\ Without(pipe[p], {q, "junk"})
    /\ place[p] = "write" => msg[p] \notin {q, "junk"}
    /\ place[p] = "test" => msg[p] \notin {p, "junk"}
    /\ heard[p] \notin {p, "junk"}

PipeInv ==
    /\ PipeTypes
    /\ \A p, q \in Pipe!Procs : p # q =>
         /\ WordInv(p, q)
         /\ Pipe!Quiet => TurnInv(p, q)
         /\ Hearing => HearInv(p, q)

-----------------------------------------------------------------------------
(* What happens to a pipe *)

\* Sequences of messages: what Append and Tail do to their words.
LEMMA MessageSeqs ==
    /\ << >> \in Seq(Pipe!Messages) /\ Len(<< >>) = 0 /\ ~WordIn(<< >>) /\ OneWord(<< >>)
    /\ \A S : Without(<< >>, S)
    /\ \A w \in Seq(Pipe!Messages) : Len(w) \in Nat /\ (Len(w) = 0 <=> w = << >>)
    /\ \A w \in Seq(Pipe!Messages), x \in Pipe!Messages :
         /\ Append(w, x) \in Seq(Pipe!Messages) /\ Len(Append(w, x)) = Len(w) + 1
         /\ w = << >> => Head(Append(w, x)) = x
         /\ WordIn(Append(w, x)) <=> WordIn(w) \/ x # "0"
         /\ OneWord(w) /\ (x # "0" => ~WordIn(w)) => OneWord(Append(w, x))
         /\ \A S : Without(w, S) /\ x \notin S => Without(Append(w, x), S)
    /\ \A w \in Seq(Pipe!Messages) : w # << >> =>
         /\ Head(w) \in Pipe!Messages /\ Tail(w) \in Seq(Pipe!Messages) /\ Len(Tail(w)) = Len(w) - 1
         /\ Head(w) = "0" => (WordIn(Tail(w)) <=> WordIn(w))
         /\ Head(w) # "0" => WordIn(w) /\ (OneWord(w) => ~WordIn(Tail(w)))
         /\ OneWord(w) => OneWord(Tail(w))
         /\ \A S : Without(w, S) => Without(Tail(w), S) /\ Head(w) \notin S
  <1>1. << >> \in Seq(Pipe!Messages) /\ Len(<< >>) = 0 /\ ~WordIn(<< >>) /\ OneWord(<< >>)
        /\ \A S : Without(<< >>, S)
    BY EmptySeq DEF WordIn, OneWord, Without
  <1>2. ASSUME NEW w \in Seq(Pipe!Messages)
        PROVE  Len(w) \in Nat /\ (Len(w) = 0 <=> w = << >>)
    BY LenProperties, EmptySeq
  <1>3. ASSUME NEW w \in Seq(Pipe!Messages), NEW x \in Pipe!Messages
        PROVE  /\ Append(w, x) \in Seq(Pipe!Messages) /\ Len(Append(w, x)) = Len(w) + 1
               /\ w = << >> => Head(Append(w, x)) = x
               /\ WordIn(Append(w, x)) <=> WordIn(w) \/ x # "0"
               /\ OneWord(w) /\ (x # "0" => ~WordIn(w)) => OneWord(Append(w, x))
               /\ \A S : Without(w, S) /\ x \notin S => Without(Append(w, x), S)
    <2>1. /\ Append(w, x) \in Seq(Pipe!Messages) /\ Len(Append(w, x)) = Len(w) + 1 /\ Len(w) \in Nat
          /\ \A i \in 1 .. Len(w) : Append(w, x)[i] = w[i]
          /\ Append(w, x)[Len(w) + 1] = x
      BY <1>2, AppendProperties
    <2>2. w = << >> => Head(Append(w, x)) = x
      <3>1. Append(w, x) # << >>
        BY <2>1, EmptySeq
      <3>2. Head(Append(w, x)) = Append(w, x)[1]
        BY <2>1, <3>1, HeadTailProperties
      <3>3. QED
        BY <2>1, <3>2, EmptySeq
    <2> DEFINE v == Append(w, x)
    <2> HIDE DEF v
    <2>3. /\ Len(v) = Len(w) + 1 /\ Len(w) \in Nat /\ v[Len(w) + 1] = x
          /\ \A i \in 1 .. Len(w) : v[i] = w[i]
      BY <2>1 DEF v
    <2>4. WordIn(v) <=> WordIn(w) \/ x # "0"
      BY <2>3 DEF WordIn
    <2>5. OneWord(w) /\ (x # "0" => ~WordIn(w)) => OneWord(v)
      BY <2>3 DEF WordIn, OneWord
    <2>6. \A S : Without(w, S) /\ x \notin S => Without(v, S)
      BY <2>3 DEF Without
    <2>7. QED
      BY <2>1, <2>2, <2>4, <2>5, <2>6 DEF v
  <1>4. ASSUME NEW w \in Seq(Pipe!Messages), w # << >>
        PROVE  /\ Head(w) \in Pipe!Messages /\ Tail(w) \in Seq(Pipe!Messages)
               /\ Len(Tail(w)) = Len(w) - 1
               /\ Head(w) = "0" => (WordIn(Tail(w)) <=> WordIn(w))
               /\ Head(w) # "0" => WordIn(w) /\ (OneWord(w) => ~WordIn(Tail(w)))
               /\ OneWord(w) => OneWord(Tail(w))
               /\ \A S : Without(w, S) => Without(Tail(w), S) /\ Head(w) \notin S
    <2>1. Len(w) \in Nat /\ Len(w) >= 1
      BY <1>2, <1>4
    <2>2. /\ Head(w) = w[1] /\ Head(w) \in Pipe!Messages
          /\ Tail(w) \in Seq(Pipe!Messages) /\ Len(Tail(w)) = Len(w) - 1
          /\ \A i \in 1 .. Len(w) - 1 : Tail(w)[i] = w[i + 1]
      BY <1>4, HeadTailProperties
    <2> DEFINE h == Head(w)
               v == Tail(w)
    <2> HIDE DEF h, v
    <2>3. /\ h = w[1] /\ Len(v) = Len(w) - 1 /\ \A i \in 1 .. Len(w) - 1 : v[i] = w[i + 1]
      BY <2>2 DEF h, v
    <2>4. \A i \in 2 .. Len(w) : i - 1 \in 1 .. Len(v) /\ v[i - 1] = w[i]
      <3> SUFFICES ASSUME NEW i \in 2 .. Len(w) PROVE i - 1 \in 1 .. Len(v) /\ v[i - 1] = w[i]
        OBVIOUS
      <3>1. i - 1 \in 1 .. Len(w) - 1 /\ (i - 1) + 1 = i
        BY <2>1
      <3>2. QED
        BY <2>3, <3>1
    <2>5. WordIn(v) => WordIn(w)
      BY <2>1, <2>3 DEF WordIn
    <2>6. h = "0" /\ WordIn(w) => WordIn(v)
      <3> SUFFICES ASSUME h = "0", NEW i \in 1 .. Len(w), w[i] # "0" PROVE WordIn(v)
        BY DEF WordIn
      <3>1. i \in 2 .. Len(w)
        BY <2>1, <2>3
      <3>2. QED
        BY <2>4, <3>1 DEF WordIn
    <2>7. h # "0" => WordIn(w) /\ (OneWord(w) => ~WordIn(v))
      BY <2>1, <2>3 DEF WordIn, OneWord
    <2>8. OneWord(w) => OneWord(v)
      BY <2>1, <2>3 DEF OneWord
    <2>9. \A S : Without(w, S) => Without(v, S) /\ h \notin S
      BY <2>1, <2>3 DEF Without
    <2>10. QED
      BY <2>2, <2>5, <2>6, <2>7, <2>8, <2>9 DEF h, v
  <1>5. QED
    BY <1>1, <1>2, <1>3, <1>4

\* The two processes are each other's peers.
LEMMA Peers ==
    ASSUME NEW p \in Pipe!Procs
    PROVE  \E q \in Pipe!Procs : /\ q # p /\ Pipe!Peer(p) = q /\ Pipe!Peer(q) = p
                                 /\ Pipe!Procs = {p, q} /\ Pipe!Procs = {"parent", "child"}
                                 /\ BothLive <=> Pipe!Live(p) /\ Pipe!Live(q)
  BY DEF Pipe!Procs, Pipe!Peer, BothLive

-----------------------------------------------------------------------------
(* Every step preserves the invariant *)

\* Nobody has written anything.  The process of parent_process has the turn.
LEMMA PipeInitInv == Pipe!Init => PipeInv
  <1> SUFFICES ASSUME Pipe!Init PROVE PipeInv
    OBVIOUS
  <1>1. PipeTypes
    <2>1. /\ language \in {"c", "cpp"} /\ msg \in [Pipe!Procs -> {"junk", "0", "empty"}]
          /\ place \in [Pipe!Procs -> {"start", "absent"}] /\ place["child"] = "start"
      BY DEF Pipe!Init, Pipe!Procs
    <2>2. /\ running \in [Pipe!Procs -> BOOLEAN] /\ eof \in [Pipe!Procs -> BOOLEAN]
          /\ signals \in [Pipe!Procs -> Nat]
          /\ \A p \in Pipe!Procs : running[p]
          /\ heard \in [Pipe!Procs -> {"nothing"}]
      BY DEF Pipe!Init
    <2>3. pipe \in [Pipe!Procs -> Seq(Pipe!Messages)]
      BY MessageSeqs DEF Pipe!Init
    <2>4. QED
      BY <2>1, <2>2, <2>3 DEF PipeTypes, Places, Pipe!Messages, Pipe!Procs
  <1>2. ASSUME NEW p \in Pipe!Procs, NEW q \in Pipe!Procs, p # q
        PROVE  WordInv(p, q) /\ (Pipe!Quiet => TurnInv(p, q))
    <2>1. (p = "parent" /\ q = "child") \/ (p = "child" /\ q = "parent")
      BY <1>2 DEF Pipe!Procs
    <2>2. \A o \in Pipe!Procs : pipe[o] = << >> /\ signals[o] = 0
      BY DEF Pipe!Init
    <2>3. \A o \in Pipe!Procs : place[o] = "start" \/ (place[o] = "absent" /\ o = "parent")
      BY DEF Pipe!Init, Pipe!Procs
    <2>4. HasTurn(p) => ~HasTurn(q)
      BY <2>1, <2>3 DEF HasTurn
    <2>5. HasWord(p) => ~HasWord(q)
      BY <2>1, <2>3 DEF HasWord
    <2>6. WordInv(p, q)
      <3>1. HasWord(q) => ~HasTurn(p)
        BY <2>1, <2>3 DEF HasWord, HasTurn
      <3>2. /\ Len(pipe[p]) = 0 /\ ~WordIn(pipe[q]) /\ ~WordIn(pipe[p]) /\ OneWord(pipe[p])
            /\ signals[p] = 0
        BY <2>2, MessageSeqs
      <3>3. QED
        BY <2>5, <3>1, <3>2 DEF WordInv, Owed, Coming, Last
    <2>7. Pipe!Quiet => TurnInv(p, q)
      BY <2>1, <2>2, <2>3, <2>4, MessageSeqs DEF TurnInv, Pipe!Live, Pipe!Quiet
    <2>8. QED
      BY <2>6, <2>7
  <1>3. ASSUME NEW p \in Pipe!Procs, NEW q \in Pipe!Procs PROVE HearInv(p, q)
    <2>1. pipe[p] = << >> /\ heard[p] = "nothing" /\ place[p] \in {"start", "absent"}
      BY DEF Pipe!Init, Pipe!Procs
    <2>2. QED
      BY <2>1, MessageSeqs DEF HearInv, Pipe!Procs
  <1>4. QED
    BY <1>1, <1>2, <1>3 DEF PipeInv

\* p and q are the two processes.
Both(p, q) ==
    /\ p # q /\ Pipe!Peer(p) = q /\ Pipe!Peer(q) = p
    /\ Pipe!Procs = {p, q} /\ Pipe!Procs = {"parent", "child"}

\* p takes a step, its peer q stays where it is.
Aside(p, q) ==
    /\ place' = [place EXCEPT ![p] = place'[p]] /\ place'[q] = place[q]
    /\ msg'[q] = msg[q] /\ running'[q] = running[q]
    /\ signals'[q] = signals[q] /\ signals'[p] \in {signals[p], signals[p] + 1}
    /\ heard'[q] = heard[q] /\ (eof[p] => eof'[p]) /\ eof'[q] = eof[q] /\ language' = language

\* What p's peer has is not disturbed by a step of p.
LEMMA PeerStays ==
    ASSUME PipeInv, NEW p \in Pipe!Procs, NEW q \in Pipe!Procs, Both(p, q), Aside(p, q)
    PROVE  /\ HasTurn(q)' <=> HasTurn(q)
           /\ HasWord(q)' <=> HasWord(q)
           /\ Leaving(q)' <=> Leaving(q)
           /\ Pipe!Live(q)' <=> Pipe!Live(q)
           /\ BothLive' <=> Pipe!Live(p)' /\ Pipe!Live(q)
           /\ BothLive <=> Pipe!Live(p) /\ Pipe!Live(q)
           /\ place[p] # "absent" => (Pipe!Quiet' => Pipe!Quiet /\ signals'[p] = signals[p])
           /\ place[p] # "absent" => (Hearing' => Hearing)
  <1>0. q # p /\ Pipe!Procs = {p, q} /\ Pipe!Procs = {"parent", "child"}
    BY DEF Both
  <1>1. /\ place'[q] = place[q] /\ msg'[q] = msg[q] /\ running'[q] = running[q]
        /\ signals'[q] = signals[q] /\ signals'[p] \in {signals[p], signals[p] + 1}
        /\ signals[p] \in Nat /\ signals[q] \in Nat
        /\ (eof[p] => eof'[p]) /\ eof'[q] = eof[q] /\ language' = language
    BY DEF Aside, PipeInv, PipeTypes
  <1>2. /\ HasTurn(q)' <=> HasTurn(q)
        /\ HasWord(q)' <=> HasWord(q)
        /\ Leaving(q)' <=> Leaving(q)
        /\ Pipe!Live(q)' <=> Pipe!Live(q)
    BY <1>1 DEF HasTurn, HasWord, Leaving, Pipe!Live
  <1>3. /\ BothLive' <=> Pipe!Live(p)' /\ Pipe!Live(q)
        /\ BothLive <=> Pipe!Live(p) /\ Pipe!Live(q)
    BY <1>0, <1>2 DEF BothLive
  <1>5. place[p] # "absent" => (Pipe!Quiet' => Pipe!Quiet /\ signals'[p] = signals[p])
    <2> SUFFICES ASSUME place[p] # "absent", Pipe!Quiet' PROVE Pipe!Quiet /\ signals'[p] = signals[p]
      OBVIOUS
    <2>1. signals'[p] = 0 /\ signals'[q] = 0 /\ place'["parent"] # "absent"
      BY <1>0 DEF Pipe!Quiet
    <2>2. signals[p] = 0 /\ signals[q] = 0 /\ signals'[p] = signals[p]
      BY <1>1, <2>1
    <2>3. place["parent"] # "absent"
      BY <1>0, <1>1, <2>1
    <2>4. QED
      BY <1>0, <2>2, <2>3 DEF Pipe!Quiet
  <1>6. place[p] # "absent" => (Hearing' => Hearing)
    BY <1>0, <1>1, <1>5 DEF Hearing
  <1>7. QED
    BY <1>2, <1>3, <1>5, <1>6

\* What the counters mean, before and after a step.
LEMMA Counts ==
    \A p : /\ Owed(p) \in {0, 1} /\ (Owed(p) = 1 <=> HasTurn(p))
          /\ Coming(p) \in {0, 1} /\ (Coming(p) = 1 <=> HasWord(p) \/ WordIn(pipe[p]))
          /\ Last(p) \in {0, 1} /\ (Last(p) = 1 <=> Leaving(p))
          /\ Owed(p)' \in {0, 1} /\ (Owed(p)' = 1 <=> HasTurn(p)')
          /\ Coming(p)' \in {0, 1} /\ (Coming(p)' = 1 <=> HasWord(p)' \/ WordIn(pipe'[p]))
          /\ Last(p)' \in {0, 1} /\ (Last(p)' = 1 <=> Leaving(p)')
  BY DEF Owed, Coming, Last

\* How a step may change the account of p: nothing is added to it but by a
\* signal; p writes; p reads a word, or a 0; q reads.
LEMMA Balance ==
    ASSUME NEW p, NEW q,
           Len(pipe[p]) \in Nat, Len(pipe'[p]) \in Nat, signals[p] \in Nat, signals'[p] \in Nat,
           Len(pipe[p]) + Owed(p) + Coming(q) <= 1 + signals[p] + Last(p),
           \/ /\ Len(pipe'[p]) = Len(pipe[p]) /\ Owed(p)' <= Owed(p) + (signals'[p] - signals[p])
              /\ Coming(q)' <= Coming(q) /\ Last(p)' >= Last(p)
           \/ /\ Len(pipe'[p]) = Len(pipe[p]) + 1 /\ Owed(p) = 1 /\ Owed(p)' = 0
              /\ Coming(q)' = Coming(q) /\ Last(p)' = Last(p) /\ signals'[p] = signals[p]
           \/ /\ Len(pipe'[p]) = Len(pipe[p]) /\ Owed(p) = 0 /\ signals'[p] = signals[p]
              /\ \/ Coming(q) = 1 /\ Coming(q)' = 0 /\ Last(p)' >= Last(p)
                 \/ Coming(q)' = Coming(q) /\ Last(p) = 0 /\ Last(p)' = 1
           \/ /\ Len(pipe'[p]) = Len(pipe[p]) - 1 /\ Owed(p)' = Owed(p) /\ signals'[p] = signals[p]
              /\ Last(p)' = Last(p)
    PROVE  /\ Len(pipe'[p]) + Owed(p)' + Coming(q)' <= 1 + signals'[p] + Last(p)'
           /\ Len(pipe'[p]) <= 2 + signals'[p]
  <1> DEFINE l0 == Len(pipe[p])
             l1 == Len(pipe'[p])
             o0 == Owed(p)
             o1 == Owed(p)'
             c0 == Coming(q)
             c1 == Coming(q)'
             e0 == Last(p)
             e1 == Last(p)'
             s0 == signals[p]
             s1 == signals'[p]
  <1> HIDE DEF l0, l1, o0, o1, c0, c1, e0, e1, s0, s1
  <1>1. /\ l0 \in Nat /\ l1 \in Nat /\ s0 \in Nat /\ s1 \in Nat
        /\ o0 \in {0, 1} /\ o1 \in {0, 1} /\ c0 \in {0, 1} /\ c1 \in {0, 1}
        /\ e0 \in {0, 1} /\ e1 \in {0, 1}
        /\ l0 + o0 + c0 <= 1 + s0 + e0
    BY Counts DEF l0, l1, o0, o1, c0, c1, e0, e1, s0, s1
  <1>2. \/ l1 = l0 /\ o1 <= o0 + (s1 - s0) /\ c1 <= c0 /\ e1 >= e0
        \/ l1 = l0 + 1 /\ o0 = 1 /\ o1 = 0 /\ c1 = c0 /\ e1 = e0 /\ s1 = s0
        \/ /\ l1 = l0 /\ o0 = 0 /\ s1 = s0
           /\ (c0 = 1 /\ c1 = 0 /\ e1 >= e0) \/ (c1 = c0 /\ e0 = 0 /\ e1 = 1)
        \/ l1 = l0 - 1 /\ o1 = o0 /\ s1 = s0 /\ e1 = e0
    BY DEF l0, l1, o0, o1, c0, c1, e0, e1, s0, s1
  <1>3. l1 + o1 + c1 <= 1 + s1 + e1 /\ l1 <= 2 + s1
    BY ONLY <1>1, <1>2
  <1>4. QED
    BY <1>3 DEF l0, l1, o0, o1, c0, c1, e0, e1, s0, s1

\* A step that leaves the pipes as they are: p gets the turn only by a signal,
\* and no word.
LEMMA QuietWord ==
    ASSUME PipeInv, NEW p \in Pipe!Procs, NEW q \in Pipe!Procs, Both(p, q), Aside(p, q),
           pipe' = pipe, Pipe!Live(p),
           BothLive' => /\ HasTurn(p)' => HasTurn(p) \/ signals'[p] = signals[p] + 1
                        /\ HasWord(p)' => HasWord(p)
                        /\ Leaving(p) => Leaving(p)'
    PROVE  WordInv(p, q)' /\ WordInv(q, p)'
  <1>1. /\ HasTurn(q)' <=> HasTurn(q)
        /\ HasWord(q)' <=> HasWord(q)
        /\ Leaving(q)' <=> Leaving(q)
        /\ BothLive' => BothLive
    BY PeerStays
  <1>2. /\ signals'[q] = signals[q] /\ signals'[p] \in {signals[p], signals[p] + 1}
        /\ signals[p] \in Nat /\ signals[q] \in Nat
        /\ Len(pipe[p]) \in Nat /\ Len(pipe[q]) \in Nat
    BY MessageSeqs DEF Aside, PipeInv, PipeTypes
  <1>3. WordInv(p, q) /\ WordInv(q, p)
    BY DEF PipeInv, Both
  <1>4. WordInv(p, q)'
    <2>1. ASSUME BothLive'
          PROVE  Len(pipe'[p]) + Owed(p)' + Coming(q)' <= 1 + signals'[p] + Last(p)'
      <3>1. Owed(p)' <= Owed(p) + (signals'[p] - signals[p])
        BY <1>2, <2>1, Counts
      <3>2. Coming(q)' <= Coming(q) /\ Last(p)' >= Last(p)
        BY <1>1, <2>1, Counts
      <3>3. Len(pipe[p]) + Owed(p) + Coming(q) <= 1 + signals[p] + Last(p)
        BY <1>1, <1>3, <2>1 DEF WordInv
      <3>4. Len(pipe'[p]) = Len(pipe[p]) /\ Len(pipe'[p]) \in Nat /\ signals'[p] \in Nat
        BY <1>2
      <3>5. QED
        BY <1>2, <3>1, <3>2, <3>3, <3>4, Balance
    <2>2. QED
      BY <1>1, <1>2, <1>3, <2>1 DEF WordInv
  <1>5. WordInv(q, p)'
    BY <1>1, <1>2, <1>3, Counts DEF WordInv
  <1>6. QED
    BY <1>4, <1>5

\* The parts of the invariant after a step of p.
LEMMA PipeStep ==
    ASSUME PipeInv, NEW p \in Pipe!Procs, NEW q \in Pipe!Procs, Both(p, q), Aside(p, q),
           Pipe!Live(p), PipeTypes', WordInv(p, q)' /\ WordInv(q, p)',
           Pipe!Quiet /\ Pipe!Quiet' => TurnInv(p, q)' /\ TurnInv(q, p)',
           Hearing /\ Hearing' => HearInv(p, q)' /\ HearInv(q, p)'
    PROVE  PipeInv'
  <1>1. Pipe!Quiet' => Pipe!Quiet
    BY PeerStays DEF Pipe!Live
  <1>2. Hearing' => Hearing
    BY PeerStays DEF Pipe!Live
  <1>3. Pipe!Procs = {p, q}
    BY DEF Both
  <1>4. QED
    BY <1>1, <1>2, <1>3 DEF PipeInv

\* ... when nothing is written or read, and no turn is taken.
LEMMA QuietTurn ==
    ASSUME PipeInv, NEW p \in Pipe!Procs, NEW q \in Pipe!Procs, Both(p, q), Aside(p, q),
           Pipe!Live(p), pipe' = pipe, Pipe!Quiet, HasTurn(p)' => HasTurn(p),
           ~Pipe!Live(p)' \/ place'[p] = "close" => place[p] = "close",
           ~Pipe!Live(q) \/ place[q] = "close" =>
             /\ place'[p] \notin {"check", "ask", "write"}
             /\ place'[p] \in {"start", "read"} => place[p] \in {"start", "read"}
             /\ place'[p] = "test" => msg'[p] = "0",
           place'[p] # "killed", place[q] = "killed" => place'[p] = "done"
    PROVE  TurnInv(p, q)' /\ TurnInv(q, p)'
  <1>1. /\ HasTurn(q)' <=> HasTurn(q)
        /\ Pipe!Live(q)' <=> Pipe!Live(q)
        /\ place'[q] = place[q] /\ msg'[q] = msg[q]
    BY PeerStays DEF Aside
  <1>2. TurnInv(p, q) /\ TurnInv(q, p)
    BY DEF PipeInv, Both
  <1>3. TurnInv(p, q)'
    BY <1>1, <1>2 DEF TurnInv
  <1>4. TurnInv(q, p)'
    BY <1>1, <1>2 DEF TurnInv
  <1>5. QED
    BY <1>3, <1>4

\* The types after a step of p.
LEMMA StepTypes ==
    ASSUME PipeInv, NEW p \in Pipe!Procs, NEW q \in Pipe!Procs, Both(p, q), Aside(p, q),
           place'[p] \in Places, place'[p] # "absent", place'[p] = "answer" => msg'[p] = "0",
           msg' \in [Pipe!Procs -> Pipe!Messages], eof' \in [Pipe!Procs -> BOOLEAN],
           pipe' \in [Pipe!Procs -> Seq(Pipe!Messages)],
           heard' \in [Pipe!Procs -> Pipe!Messages \cup {"nothing"}],
           \/ running' = running /\ signals' = signals
           \/ /\ language = "c" /\ running' = [running EXCEPT ![p] = FALSE]
              /\ signals' = [signals EXCEPT ![p] = @ + 1]
           \/ running' = running /\ signals' = [signals EXCEPT ![p] = @ + 1]
    PROVE  PipeTypes'
  <1>0. p # q /\ Pipe!Procs = {p, q}
    BY DEF Both
  <1>1. /\ language \in {"c", "cpp"} /\ place \in [Pipe!Procs -> Places]
        /\ running \in [Pipe!Procs -> BOOLEAN] /\ signals \in [Pipe!Procs -> Nat]
        /\ \A o \in Pipe!Procs : /\ place[o] = "answer" => msg[o] = "0"
                                 /\ ~running[o] => signals[o] > 0 /\ language = "c"
                                 /\ place[o] = "absent" => o = "parent"
    BY DEF PipeInv, PipeTypes
  <1>2. /\ place' = [place EXCEPT ![p] = place'[p]] /\ place'[q] = place[q] /\ msg'[q] = msg[q]
        /\ language' = language
    BY DEF Aside
  <1>3. place' \in [Pipe!Procs -> Places]
    BY <1>1, <1>2
  <1>4. running' \in [Pipe!Procs -> BOOLEAN] /\ signals' \in [Pipe!Procs -> Nat]
    <2>1. running' \in [Pipe!Procs -> BOOLEAN]
      <3>1. CASE running' = running
        BY <1>1, <3>1
      <3>2. CASE running' = [running EXCEPT ![p] = FALSE]
        BY <1>1, <3>2
      <3>3. QED
        BY <3>1, <3>2
    <2>2. signals' \in [Pipe!Procs -> Nat]
      <3>1. CASE signals' = signals
        BY <1>1, <3>1
      <3>2. CASE signals' = [signals EXCEPT ![p] = @ + 1]
        BY <1>1, <3>2
      <3>3. QED
        BY <3>1, <3>2
    <2>3. QED
      BY <2>1, <2>2
  <1>5. \A o \in Pipe!Procs : ~running'[o] => signals'[o] > 0 /\ language' = "c"
    <2> SUFFICES ASSUME NEW o \in Pipe!Procs, ~running'[o] PROVE signals'[o] > 0 /\ language = "c"
      BY <1>2
    <2>1. signals[o] \in Nat /\ (signals' = signals \/ signals'[o] \in {signals[o], signals[o] + 1})
      BY <1>1
    <2>2. CASE running' = running
      BY <1>1, <2>1, <2>2
    <2>3. CASE /\ language = "c" /\ running' = [running EXCEPT ![p] = FALSE]
               /\ signals' = [signals EXCEPT ![p] = @ + 1]
      <3>1. CASE o = p
        BY <1>1, <2>1, <2>3, <3>1
      <3>2. CASE o # p
        <4>1. ~running[o] /\ signals'[o] = signals[o]
          BY <1>1, <2>3, <3>2
        <4>2. QED
          BY <1>1, <4>1
      <3>3. QED
        BY <3>1, <3>2
    <2>4. QED
      BY <2>2, <2>3
  <1>6. \A o \in Pipe!Procs : /\ place'[o] = "answer" => msg'[o] = "0"
                              /\ place'[o] = "absent" => o = "parent"
    BY <1>0, <1>1, <1>2
  <1>7. QED
    BY <1>1, <1>2, <1>3, <1>4, <1>5, <1>6 DEF PipeTypes

\* ... and nobody hears anything new.
LEMMA QuietHear ==
    ASSUME PipeInv, NEW p \in Pipe!Procs, NEW q \in Pipe!Procs, Both(p, q), Aside(p, q),
           pipe' = pipe, Hearing,
           place'[p] = "write" => msg'[p] \notin {q, "junk"},
           place'[p] = "test" => msg'[p] \notin {p, "junk"},
           heard'[p] = heard[p] \/ heard'[p] \notin {p, "junk"}
    PROVE  HearInv(p, q)' /\ HearInv(q, p)'
  <1>1. place'[q] = place[q] /\ msg'[q] = msg[q] /\ heard'[q] = heard[q]
    BY DEF Aside
  <1>2. HearInv(p, q) /\ HearInv(q, p)
    BY DEF PipeInv, Both
  <1>3. HearInv(p, q)'
    BY <1>2 DEF HearInv
  <1>4. HearInv(q, p)'
    BY <1>1, <1>2 DEF HearInv
  <1>5. QED
    BY <1>3, <1>4

\* The loop is entered: by the parent with the turn, by the child to read.
LEMMA EnterLoopInv ==
    ASSUME PipeInv, NEW p \in Pipe!Procs, NEW q \in Pipe!Procs, Both(p, q), Pipe!EnterLoop(p)
    PROVE  PipeInv'
  <1>1. /\ place[p] = "start" /\ place' = [place EXCEPT ![p] = place'[p]]
        /\ p = "parent" => place'[p] = IF language = "c" THEN "check" ELSE "ask"
        /\ p # "parent" => place'[p] = "read"
        /\ msg' = msg /\ eof' = eof /\ pipe' = pipe /\ heard' = heard
        /\ language' = language /\ running' = running /\ signals' = signals
    BY DEF PipeInv, PipeTypes, Pipe!EnterLoop, Pipe!Goto, Pipe!Ask
  <1>2. place'[q] = place[q] /\ Pipe!Live(p) /\ Pipe!Live(p)' /\ language \in {"c", "cpp"}
    BY <1>1 DEF PipeInv, PipeTypes, Both, Pipe!Live
  <1>3. Aside(p, q)
    BY <1>1, <1>2 DEF Aside
  <1>4. PipeTypes'
    <2>1. place'[p] \in Places \ {"absent", "answer"}
      BY <1>1, <1>2 DEF Places
    <2>2. QED
      BY <1>1, <1>3, <2>1, StepTypes DEF PipeInv, PipeTypes
  <1>5. /\ HasTurn(p)' => HasTurn(p)
        /\ HasWord(p)' => HasWord(p)
        /\ Leaving(p) => Leaving(p)'
    BY <1>1 DEF PipeInv, PipeTypes, HasTurn, HasWord, Leaving
  <1>6. WordInv(p, q)' /\ WordInv(q, p)'
    BY <1>1, <1>2, <1>3, <1>5, QuietWord
  <1>7. ASSUME Pipe!Quiet PROVE TurnInv(p, q)' /\ TurnInv(q, p)'
    <2>1. TurnInv(p, q) /\ TurnInv(q, p)
      BY <1>7 DEF PipeInv, Both
    <2>2. p = "parent" => Pipe!Live(q) /\ place[q] # "close"
      BY <1>1, <2>1 DEF TurnInv, HasTurn
    <2>3. place[q] # "killed" /\ place'[p] \notin {"killed", "close", "test"}
      BY <1>1, <2>1 DEF TurnInv
    <2>4. QED
      BY <1>1, <1>2, <1>3, <1>5, <1>7, <2>2, <2>3, QuietTurn
  <1>8. ASSUME Hearing PROVE HearInv(p, q)' /\ HearInv(q, p)'
    BY <1>1, <1>3, <1>8, QuietHear
  <1>9. QED
    BY <1>2, <1>3, <1>4, <1>6, <1>7, <1>8, PipeStep

\* A process that has got a signal does not ask but writes a 0.
LEMMA CheckRunningInv ==
    ASSUME PipeInv, NEW p \in Pipe!Procs, NEW q \in Pipe!Procs, Both(p, q), Pipe!CheckRunning(p)
    PROVE  PipeInv'
  <1>1. /\ place[p] = "check" /\ place' = [place EXCEPT ![p] = place'[p]]
        /\ place'[p] = IF running[p] THEN "ask" ELSE "write"
        /\ msg' = IF running[p] THEN msg ELSE [msg EXCEPT ![p] = "0"]
        /\ eof' = eof /\ pipe' = pipe /\ heard' = heard
        /\ language' = language /\ running' = running /\ signals' = signals
    BY DEF PipeInv, PipeTypes, Pipe!CheckRunning, Pipe!Goto
  <1>2. /\ place'[q] = place[q] /\ msg'[q] = msg[q] /\ Pipe!Live(p) /\ Pipe!Live(p)'
        /\ ~running[p] => msg'[p] = "0"
    BY <1>1 DEF PipeInv, PipeTypes, Both, Pipe!Live
  <1>3. Aside(p, q)
    BY <1>1, <1>2 DEF Aside
  <1>4. PipeTypes'
    <2>1. place'[p] \in Places \ {"absent", "answer"}
      BY <1>1, <1>2 DEF Places
    <2>2. msg' \in [Pipe!Procs -> Pipe!Messages]
      BY <1>1 DEF PipeInv, PipeTypes, Pipe!Messages
    <2>3. QED
      BY <1>1, <1>3, <2>1, <2>2, StepTypes DEF PipeInv, PipeTypes
  <1>5. /\ HasTurn(p)' => HasTurn(p)
        /\ HasWord(p)' => HasWord(p)
        /\ Leaving(p) => Leaving(p)'
    BY <1>1, <1>2 DEF PipeInv, PipeTypes, HasTurn, HasWord, Leaving
  <1>6. WordInv(p, q)' /\ WordInv(q, p)'
    BY <1>1, <1>2, <1>3, <1>5, QuietWord
  <1>7. ASSUME Pipe!Quiet PROVE TurnInv(p, q)' /\ TurnInv(q, p)'
    <2>1. TurnInv(p, q) /\ TurnInv(q, p)
      BY <1>7 DEF PipeInv, Both
    <2>2. Pipe!Live(q) /\ place[q] # "close"
      BY <1>1, <2>1 DEF TurnInv
    <2>3. place[q] # "killed" /\ place'[p] \notin {"killed", "close", "test"}
      BY <1>1, <2>1 DEF TurnInv
    <2>4. QED
      BY <1>1, <1>2, <1>3, <1>5, <1>7, <2>2, <2>3, QuietTurn
  <1>8. ASSUME Hearing PROVE HearInv(p, q)' /\ HearInv(q, p)'
    <2>1. q # "0"
      BY DEF Pipe!Procs
    <2>2. QED
      BY <1>1, <1>2, <1>3, <1>8, <2>1, QuietHear
  <1>9. QED
    BY <1>2, <1>3, <1>4, <1>6, <1>7, <1>8, PipeStep

\* The user types, or there is nothing to read.
LEMMA TypeLineInv ==
    ASSUME PipeInv, NEW p \in Pipe!Procs, NEW q \in Pipe!Procs, Both(p, q), Pipe!Type(p)
    PROVE  PipeInv'
  <1>1. /\ place[p] = "ask" /\ place' = [place EXCEPT ![p] = place'[p]] /\ place'[p] = "write"
        /\ pipe' = pipe /\ heard' = heard
        /\ language' = language /\ running' = running /\ signals' = signals
    BY DEF PipeInv, PipeTypes, Pipe!Type, Pipe!Goto
  <1>2. \/ /\ \E x \in {p, "0"} : msg' = [msg EXCEPT ![p] = x]
           /\ eof' = eof \/ eof' = [eof EXCEPT ![p] = TRUE]
        \/ /\ msg' = [msg EXCEPT ![p] = IF language = "c" THEN msg[p] ELSE "empty"]
           /\ eof' = [eof EXCEPT ![p] = TRUE]
    BY DEF Pipe!Type, Pipe!NoInput
  <1>3. /\ msg' \in [Pipe!Procs -> Pipe!Messages] /\ eof' \in [Pipe!Procs -> BOOLEAN]
        /\ msg'[q] = msg[q] /\ (eof[p] => eof'[p]) /\ eof'[q] = eof[q]
        /\ msg'[p] \in {p, "0", "empty"} \/ (eof'[p] /\ language = "c")
    <2>0. p # q /\ msg \in [Pipe!Procs -> Pipe!Messages] /\ eof \in [Pipe!Procs -> BOOLEAN]
      BY DEF PipeInv, PipeTypes, Both
    <2>1. p \in Pipe!Messages /\ "0" \in Pipe!Messages /\ "empty" \in Pipe!Messages
      BY DEF Pipe!Messages, Pipe!Texts
    <2>2. PICK x \in Pipe!Messages : /\ msg' = [msg EXCEPT ![p] = x]
                                     /\ \/ x \in {p, "0", "empty"}
                                        \/ language = "c" /\ eof' = [eof EXCEPT ![p] = TRUE]
      BY <1>2, <2>0, <2>1
    <2>3. msg' \in [Pipe!Procs -> Pipe!Messages] /\ msg'[q] = msg[q] /\ msg'[p] = x
      BY <2>0, <2>2
    <2>4. eof' = eof \/ eof' = [eof EXCEPT ![p] = TRUE]
      BY <1>2
    <2>5. eof' \in [Pipe!Procs -> BOOLEAN] /\ (eof[p] => eof'[p]) /\ eof'[q] = eof[q]
      BY <2>0, <2>4
    <2>6. QED
      BY <2>0, <2>2, <2>3, <2>5
  <1>4. place'[q] = place[q] /\ Pipe!Live(p) /\ Pipe!Live(p)'
    BY <1>1 DEF PipeInv, PipeTypes, Both, Pipe!Live
  <1>5. Aside(p, q)
    BY <1>1, <1>3, <1>4 DEF Aside
  <1>6. PipeTypes'
    <2>1. place'[p] \in Places \ {"absent", "answer"}
      BY <1>1 DEF Places
    <2>2. QED
      BY <1>1, <1>3, <1>5, <2>1, StepTypes DEF PipeInv, PipeTypes
  <1>7. /\ HasTurn(p)' => HasTurn(p)
        /\ HasWord(p)' => HasWord(p)
        /\ Leaving(p) => Leaving(p)'
    BY <1>1 DEF HasTurn, HasWord, Leaving
  <1>8. WordInv(p, q)' /\ WordInv(q, p)'
    BY <1>1, <1>4, <1>5, <1>7, QuietWord
  <1>9. ASSUME Pipe!Quiet PROVE TurnInv(p, q)' /\ TurnInv(q, p)'
    <2>1. TurnInv(p, q) /\ TurnInv(q, p)
      BY <1>9 DEF PipeInv, Both
    <2>2. Pipe!Live(q) /\ place[q] # "close"
      BY <1>1, <2>1 DEF TurnInv
    <2>3. place[q] # "killed" /\ place'[p] \notin {"killed", "close", "test"}
      BY <1>1, <2>1 DEF TurnInv
    <2>4. QED
      BY <1>1, <1>4, <1>5, <1>7, <1>9, <2>2, <2>3, QuietTurn
  <1>10. ASSUME Hearing, Hearing' PROVE HearInv(p, q)' /\ HearInv(q, p)'
    <2>1. msg'[p] \in {p, "0", "empty"}
      BY <1>1, <1>3, <1>10 DEF Hearing
    <2>2. msg'[p] \notin {q, "junk"}
      BY <2>1 DEF Pipe!Procs, Both
    <2>3. QED
      BY <1>1, <1>5, <1>10, <2>2, QuietHear
  <1>11. QED
    BY <1>4, <1>5, <1>6, <1>8, <1>9, <1>10, PipeStep

\* The message is displayed, and a 0 leads out of the loop.
LEMMA TestZeroInv ==
    ASSUME PipeInv, NEW p \in Pipe!Procs, NEW q \in Pipe!Procs, Both(p, q), Pipe!TestZero(p)
    PROVE  PipeInv'
  <1>1. /\ place[p] = "test" /\ place' = [place EXCEPT ![p] = place'[p]]
        /\ msg[p] = "0" => place'[p] = "answer"
        /\ msg[p] # "0" => place'[p] = IF language = "c" THEN "check" ELSE "ask"
        /\ msg' = msg /\ eof' = eof /\ pipe' = pipe
        /\ heard' = heard \/ heard' = [heard EXCEPT ![p] = msg[p]]
        /\ language' = language /\ running' = running /\ signals' = signals
    BY DEF PipeInv, PipeTypes, Pipe!TestZero, Pipe!Goto, Pipe!Ask, Pipe!LastWord
  <1>2. /\ place'[q] = place[q] /\ Pipe!Live(p) /\ Pipe!Live(p)' /\ language \in {"c", "cpp"}
        /\ heard'[q] = heard[q] /\ heard'[p] \in {heard[p], msg[p]}
    BY <1>1 DEF PipeInv, PipeTypes, Both, Pipe!Live
  <1>3. Aside(p, q)
    BY <1>1, <1>2 DEF Aside
  <1>4. PipeTypes'
    <2>1. place'[p] \in Places \ {"absent"} /\ (place'[p] = "answer" => msg'[p] = "0")
      BY <1>1, <1>2 DEF Places
    <2>2. heard' \in [Pipe!Procs -> Pipe!Messages \cup {"nothing"}]
      BY <1>1 DEF PipeInv, PipeTypes
    <2>3. QED
      BY <1>1, <1>3, <2>1, <2>2, StepTypes DEF PipeInv, PipeTypes
  <1>5. /\ HasTurn(p)' => HasTurn(p)
        /\ HasWord(p)' => HasWord(p)
        /\ Leaving(p) => Leaving(p)'
    BY <1>1, <1>2 DEF PipeInv, PipeTypes, HasTurn, HasWord, Leaving
  <1>6. WordInv(p, q)' /\ WordInv(q, p)'
    BY <1>1, <1>2, <1>3, <1>5, QuietWord
  <1>7. ASSUME Pipe!Quiet PROVE TurnInv(p, q)' /\ TurnInv(q, p)'
    <2>1. TurnInv(p, q) /\ TurnInv(q, p)
      BY <1>7 DEF PipeInv, Both
    <2>2. ~Pipe!Live(q) \/ place[q] = "close" => place'[p] = "answer"
      BY <1>1, <2>1 DEF TurnInv
    <2>3. place[q] # "killed" /\ place'[p] \notin {"killed", "close", "test", "start", "read"}
      BY <1>1, <1>2, <2>1 DEF TurnInv
    <2>4. QED
      BY <1>1, <1>2, <1>3, <1>5, <1>7, <2>2, <2>3, QuietTurn
  <1>8. ASSUME Hearing PROVE HearInv(p, q)' /\ HearInv(q, p)'
    <2>1. msg[p] \notin {p, "junk"}
      BY <1>1, <1>8 DEF PipeInv, HearInv, Both
    <2>2. place'[p] \notin {"write", "test"}
      BY <1>1, <1>2
    <2>3. QED
      BY <1>1, <1>2, <1>3, <1>8, <2>1, <2>2, QuietHear
  <1>9. QED
    BY <1>2, <1>3, <1>4, <1>6, <1>7, <1>8, PipeStep

\* The function returns.
LEMMA ClosePipesInv ==
    ASSUME PipeInv, NEW p \in Pipe!Procs, NEW q \in Pipe!Procs, Both(p, q), Pipe!ClosePipes(p)
    PROVE  PipeInv'
  <1>1. /\ place[p] = "close" /\ place' = [place EXCEPT ![p] = place'[p]] /\ place'[p] = "done"
        /\ msg' = msg /\ eof' = eof /\ pipe' = pipe /\ heard' = heard
        /\ language' = language /\ running' = running /\ signals' = signals
    BY DEF PipeInv, PipeTypes, Pipe!ClosePipes, Pipe!Goto
  <1>2. place'[q] = place[q] /\ Pipe!Live(p) /\ ~Pipe!Live(p)'
    BY <1>1 DEF PipeInv, PipeTypes, Both, Pipe!Live
  <1>3. Aside(p, q)
    BY <1>1, <1>2 DEF Aside
  <1>4. PipeTypes'
    <2>1. place'[p] \in Places \ {"absent", "answer"}
      BY <1>1 DEF Places
    <2>2. QED
      BY <1>1, <1>3, <2>1, StepTypes DEF PipeInv, PipeTypes
  <1>5. ~BothLive' /\ ~HasTurn(p)'
    BY <1>1, <1>2, <1>3, PeerStays DEF HasTurn
  <1>6. WordInv(p, q)' /\ WordInv(q, p)'
    BY <1>1, <1>2, <1>3, <1>5, QuietWord
  <1>7. ASSUME Pipe!Quiet PROVE TurnInv(p, q)' /\ TurnInv(q, p)'
    BY <1>1, <1>2, <1>3, <1>5, <1>7, QuietTurn
  <1>8. ASSUME Hearing PROVE HearInv(p, q)' /\ HearInv(q, p)'
    BY <1>1, <1>3, <1>8, QuietHear
  <1>9. QED
    BY <1>2, <1>3, <1>4, <1>6, <1>7, <1>8, PipeStep

\* A signal in C: an interrupted read() takes the turn, but no word.
LEMMA CloseWriteInv ==
    ASSUME PipeInv, NEW p \in Pipe!Procs, NEW q \in Pipe!Procs, Both(p, q), Pipe!close_write(p)
    PROVE  PipeInv'
  <1>1. /\ language = "c" /\ Pipe!Live(p) /\ signals' = [signals EXCEPT ![p] = @ + 1]
        /\ running' = [running EXCEPT ![p] = FALSE]
        /\ place' = [place EXCEPT ![p] = place'[p]]
        /\ \/ place[p] = "ask" /\ place'[p] = "write"
           \/ place[p] = "read" /\ place'[p] = "test"
           \/ place'[p] = place[p]
        /\ msg' = msg /\ eof' = eof /\ pipe' = pipe /\ heard' = heard /\ language' = language
    BY DEF PipeInv, PipeTypes, Pipe!close_write
  <1>2. /\ place'[q] = place[q] /\ running'[q] = running[q] /\ ~running'[p]
        /\ signals'[q] = signals[q] /\ signals'[p] = signals[p] + 1 /\ signals[p] \in Nat
    BY <1>1 DEF PipeInv, PipeTypes, Both
  <1>3. Aside(p, q)
    BY <1>1, <1>2 DEF Aside
  <1>4. PipeTypes'
    <2>1. /\ place'[p] \in Places /\ place'[p] # "absent"
          /\ place'[p] = "answer" => msg'[p] = "0"
      BY <1>1 DEF Places, PipeInv, PipeTypes, Pipe!Live
    <2>2. QED
      BY <1>1, <1>3, <2>1, StepTypes DEF PipeInv, PipeTypes
  <1>5. /\ HasWord(p)' => HasWord(p)
        /\ Leaving(p) => Leaving(p)'
    BY <1>1, <1>2 DEF HasWord, Leaving
  <1>6. WordInv(p, q)' /\ WordInv(q, p)'
    BY <1>1, <1>2, <1>3, <1>5, QuietWord
  <1>7. ~Pipe!Quiet'
    BY <1>2 DEF Pipe!Quiet
  <1>8. ~Hearing'
    BY <1>7 DEF Hearing
  <1>9. QED
    BY <1>1, <1>3, <1>4, <1>6, <1>7, <1>8, PipeStep

\* A signal in C++ kills the process.
LEMMA KilledInv ==
    ASSUME PipeInv, NEW p \in Pipe!Procs, NEW q \in Pipe!Procs, Both(p, q), Pipe!KillBySigint(p)
    PROVE  PipeInv'
  <1>1. /\ Pipe!Live(p) /\ signals' = [signals EXCEPT ![p] = @ + 1] /\ running' = running
        /\ place' = [place EXCEPT ![p] = place'[p]] /\ place'[p] = "killed"
        /\ msg' = msg /\ eof' = eof /\ pipe' = pipe /\ heard' = heard /\ language' = language
    BY DEF PipeInv, PipeTypes, Pipe!KillBySigint
  <1>2. /\ place'[q] = place[q] /\ ~Pipe!Live(p)'
        /\ signals'[q] = signals[q] /\ signals'[p] = signals[p] + 1 /\ signals[p] \in Nat
    BY <1>1 DEF PipeInv, PipeTypes, Both, Pipe!Live
  <1>3. Aside(p, q)
    BY <1>1, <1>2 DEF Aside
  <1>4. PipeTypes'
    <2>1. place'[p] \in Places \ {"absent", "answer"}
      BY <1>1 DEF Places
    <2>2. QED
      BY <1>1, <1>3, <2>1, StepTypes DEF PipeInv, PipeTypes
  <1>5. ~BothLive'
    BY <1>2, <1>3, PeerStays
  <1>6. WordInv(p, q)' /\ WordInv(q, p)'
    BY <1>1, <1>3, <1>5, QuietWord
  <1>7. ~Pipe!Quiet'
    BY <1>2 DEF Pipe!Quiet
  <1>8. ~Hearing'
    BY <1>7 DEF Hearing
  <1>9. QED
    BY <1>1, <1>3, <1>4, <1>6, <1>7, <1>8, PipeStep

\* A message is written to the pipe.  A process that writes to nobody is killed,
\* and without signals that happens to the last answer only.
LEMMA WriteInv ==
    ASSUME PipeInv, NEW p \in Pipe!Procs, NEW q \in Pipe!Procs, Both(p, q),
           Pipe!Write(p, "write", "read") \/ Pipe!Write(p, "answer", "close")
    PROVE  PipeInv'
  <1>1. /\ place[p] \in {"write", "answer"} /\ place' = [place EXCEPT ![p] = place'[p]]
        /\ msg' = msg /\ eof' = eof /\ heard' = heard
        /\ language' = language /\ running' = running /\ signals' = signals
        /\ \/ /\ Pipe!Live(q) /\ pipe' = [pipe EXCEPT ![p] = Append(@, msg[p])]
              /\ place'[p] = IF place[p] = "write" THEN "read" ELSE "close"
           \/ ~Pipe!Live(q) /\ pipe' = pipe /\ place'[p] = "killed"
    BY DEF PipeInv, PipeTypes, Pipe!Write, Pipe!HasReader, Both
  <1>2. /\ place'[q] = place[q] /\ Pipe!Live(p) /\ p # q
        /\ place[p] = "answer" => msg[p] = "0"
        /\ msg[p] \in Pipe!Messages /\ pipe[p] \in Seq(Pipe!Messages) /\ pipe[q] \in Seq(Pipe!Messages)
        /\ signals[p] \in Nat /\ signals[q] \in Nat
    BY <1>1 DEF PipeInv, PipeTypes, Both, Pipe!Live
  <1>3. Aside(p, q)
    BY <1>1, <1>2 DEF Aside
  <1>4. /\ HasTurn(q)' <=> HasTurn(q)
        /\ HasWord(q)' <=> HasWord(q)
        /\ Leaving(q)' <=> Leaving(q)
        /\ Pipe!Live(q)' <=> Pipe!Live(q)
        /\ BothLive' <=> Pipe!Live(p)' /\ Pipe!Live(q)
        /\ BothLive <=> Pipe!Live(p) /\ Pipe!Live(q)
    BY <1>3, PeerStays
  <1>5. WordInv(p, q) /\ WordInv(q, p)
    BY DEF PipeInv, Both
  <1>6. PipeTypes'
    <2>1. place'[p] \in Places \ {"absent", "answer"}
      BY <1>1 DEF Places
    <2>2. pipe' \in [Pipe!Procs -> Seq(Pipe!Messages)]
      <3>1. Append(pipe[p], msg[p]) \in Seq(Pipe!Messages)
        BY <1>2, MessageSeqs
      <3>2. pipe \in [Pipe!Procs -> Seq(Pipe!Messages)]
        BY DEF PipeInv, PipeTypes
      <3>3. QED
        BY <1>1, <3>1, <3>2
    <2>3. QED
      BY <1>1, <1>3, <2>1, <2>2, StepTypes DEF PipeInv, PipeTypes
  <1>a. CASE /\ Pipe!Live(q) /\ pipe' = [pipe EXCEPT ![p] = Append(@, msg[p])]
             /\ place'[p] = IF place[p] = "write" THEN "read" ELSE "close"
    <2>1. /\ pipe'[p] = Append(pipe[p], msg[p]) /\ pipe'[q] = pipe[q]
          /\ Len(pipe'[p]) = Len(pipe[p]) + 1 /\ Len(pipe[p]) \in Nat /\ Len(pipe[q]) \in Nat
          /\ WordIn(pipe'[p]) <=> WordIn(pipe[p]) \/ msg[p] # "0"
          /\ OneWord(pipe[p]) /\ (msg[p] # "0" => ~WordIn(pipe[p])) => OneWord(pipe'[p])
          /\ pipe[p] = << >> => Head(pipe'[p]) = msg[p]
          /\ \A S : Without(pipe[p], S) /\ msg[p] \notin S => Without(pipe'[p], S)
          /\ pipe'[p] # << >>
      <3>1. pipe'[p] = Append(pipe[p], msg[p]) /\ pipe'[q] = pipe[q]
        BY <1>2, <1>a DEF PipeInv, PipeTypes
      <3>2. Len(Append(pipe[p], msg[p])) = Len(pipe[p]) + 1 /\ Len(pipe[p]) \in Nat /\ Len(pipe[q]) \in Nat
        BY <1>2, MessageSeqs
      <3>3. Append(pipe[p], msg[p]) # << >>
        BY <3>2, EmptySeq
      <3>4. QED
        BY <1>2, <3>1, <3>2, <3>3, MessageSeqs
    <2>2. BothLive /\ BothLive' /\ Pipe!Live(p)'
      BY <1>1, <1>2, <1>4, <1>a DEF Pipe!Live
    <2>3. /\ HasTurn(p) /\ ~HasTurn(p)' /\ ~HasWord(p)'
          /\ Leaving(p)' <=> Leaving(p)
          /\ msg[p] # "0" => HasWord(p)
      BY <1>1, <1>2, <1>a DEF HasTurn, HasWord, Leaving
    <2>4. WordInv(p, q)'
      <3>1. Owed(p) = 1 /\ Owed(p)' = 0 /\ Coming(q)' = Coming(q) /\ Last(p)' = Last(p)
        BY <1>4, <2>1, <2>3, Counts
      <3>2. Len(pipe[p]) + Owed(p) + Coming(q) <= 1 + signals[p] + Last(p)
        BY <1>5, <2>2 DEF WordInv
      <3>3. Len(pipe'[p]) \in Nat /\ signals'[p] \in Nat /\ signals'[p] = signals[p]
        BY <1>1, <1>2, <2>1
      <3>4. /\ Len(pipe'[p]) + Owed(p)' + Coming(q)' <= 1 + signals'[p] + Last(p)'
            /\ Len(pipe'[p]) <= 2 + signals'[p]
        BY <1>2, <2>1, <3>1, <3>2, <3>3, Balance
      <3>5. /\ OneWord(pipe'[p])
            /\ WordIn(pipe'[p]) => ~WordIn(pipe'[q])
        BY <1>5, <2>1, <2>2, <2>3 DEF WordInv
      <3>6. QED
        BY <2>3, <3>4, <3>5 DEF WordInv
    <2>5. WordInv(q, p)'
      <3>0. HasWord(p)' \/ WordIn(pipe'[p]) => HasWord(p) \/ WordIn(pipe[p])
        BY <2>1, <2>3
      <3>1. Owed(q)' = Owed(q) /\ Last(q)' = Last(q) /\ Coming(p)' <= Coming(p)
        BY <1>4, <3>0, Counts
      <3>2. Len(pipe[q]) + Owed(q) + Coming(p) <= 1 + signals[q] + Last(q)
        BY <1>5, <2>2 DEF WordInv
      <3>3. /\ Len(pipe'[q]) = Len(pipe[q]) /\ Len(pipe'[q]) \in Nat
            /\ signals'[q] = signals[q] /\ signals'[q] \in Nat
        BY <1>1, <1>2, <2>1
      <3>t. Owed(q)' <= Owed(q) + (signals'[q] - signals[q]) /\ Last(q)' >= Last(q)
        BY <1>2, <3>1, <3>3, Counts
      <3>4. /\ Len(pipe'[q]) + Owed(q)' + Coming(p)' <= 1 + signals'[q] + Last(q)'
            /\ Len(pipe'[q]) <= 2 + signals'[q]
        BY <1>2, <2>1, <3>1, <3>2, <3>3, <3>t, Balance
      <3>5. /\ OneWord(pipe'[q])
            /\ WordIn(pipe'[q]) => ~WordIn(pipe'[p])
            /\ HasWord(q)' => /\ ~HasWord(p)' /\ ~WordIn(pipe'[q])
                              /\ ~WordIn(pipe'[p])
        BY <1>4, <1>5, <2>1, <2>2, <2>3 DEF WordInv
      <3>6. QED
        BY <3>4, <3>5 DEF WordInv
    <2>6. ASSUME Pipe!Quiet PROVE TurnInv(p, q)' /\ TurnInv(q, p)'
      <3>1. TurnInv(p, q) /\ TurnInv(q, p)
        BY <2>6 DEF PipeInv, Both
      <3>2. pipe[p] = << >> /\ pipe[q] = << >> /\ ~HasTurn(q)
        BY <2>3, <3>1 DEF TurnInv
      <3>3. Len(pipe'[p]) = 1
        BY <2>1, <3>2, MessageSeqs
      <3>4. TurnInv(p, q)'
        <4>1. ~Pipe!Live(q)' \/ place'[q] = "close" => place'[p] = "close"
          BY <1>1, <1>2, <1>4, <1>a, <3>1 DEF TurnInv
        <4>2. place'[p] # "killed"
          BY <1>1, <1>a
        <4>3. QED
          BY <2>1, <2>3, <3>2, <3>3, <4>1, <4>2 DEF TurnInv
      <3>5. TurnInv(q, p)'
        <4>1. place'[p] = "close" => msg[p] = "0"
          BY <1>1, <1>2, <1>a
        <4>2. place'[q] \notin {"check", "ask", "write", "test", "killed"}
          BY <1>2, <1>a, <3>2 DEF HasTurn, Pipe!Live
        <4>3. QED
          BY <1>4, <2>1, <2>2, <3>2, <4>1, <4>2 DEF TurnInv
      <3>6. QED
        BY <3>4, <3>5
    <2>7. ASSUME Hearing PROVE HearInv(p, q)' /\ HearInv(q, p)'
      <3>1. HearInv(p, q) /\ HearInv(q, p)
        BY <2>7 DEF PipeInv, Both
      <3>2. msg[p] \notin {q, "junk"}
        BY <1>1, <1>2, <3>1 DEF HearInv, Pipe!Procs
      <3>3. HearInv(p, q)'
        <4>1. Without(pipe'[p], {q, "junk"})
          BY <2>1, <3>1, <3>2 DEF HearInv
        <4>2. place'[p] \notin {"write", "test"}
          BY <1>a
        <4>3. QED
          BY <1>1, <3>1, <4>1, <4>2 DEF HearInv
      <3>4. HearInv(q, p)'
        BY <1>1, <1>2, <2>1, <3>1 DEF HearInv
      <3>5. QED
        BY <3>3, <3>4
    <2>8. QED
      BY <1>2, <1>3, <1>6, <2>4, <2>5, <2>6, <2>7, PipeStep
  <1>b. CASE ~Pipe!Live(q) /\ pipe' = pipe /\ place'[p] = "killed"
    <2>1. ~BothLive' /\ ~HasTurn(p)'
      BY <1>4, <1>b DEF HasTurn
    <2>2. WordInv(p, q)' /\ WordInv(q, p)'
      BY <1>2, <1>3, <1>b, <2>1, QuietWord
    <2>3. ASSUME Pipe!Quiet PROVE TurnInv(p, q)' /\ TurnInv(q, p)'
      <3>1. TurnInv(p, q) /\ TurnInv(q, p)
        BY <2>3 DEF PipeInv, Both
      <3>2. place[q] = "done"
        <4>1. place[q] \in {"absent", "done", "killed"}
          BY <1>b DEF Pipe!Live
        <4>2. place[q] # "killed"
          BY <1>1, <3>1 DEF TurnInv
        <4>3. place[q] # "absent"
          BY <2>3 DEF Pipe!Quiet, PipeInv, PipeTypes
        <4>4. QED
          BY <4>1, <4>2, <4>3
      <3>3. TurnInv(p, q)'
        BY <1>2, <1>4, <1>b, <2>1, <3>1, <3>2 DEF TurnInv
      <3>4. TurnInv(q, p)'
        BY <1>2, <1>4, <1>b, <2>1, <3>1, <3>2 DEF TurnInv
      <3>5. QED
        BY <3>3, <3>4
    <2>4. ASSUME Hearing PROVE HearInv(p, q)' /\ HearInv(q, p)'
      BY <1>1, <1>3, <1>b, <2>4, QuietHear
    <2>5. QED
      BY <1>2, <1>3, <1>6, <2>2, <2>3, <2>4, PipeStep
  <1>7. QED
    BY <1>1, <1>a, <1>b

\* A message is read.  The end of the file is read only when signals have come.
LEMMA ReadInv ==
    ASSUME PipeInv, NEW p \in Pipe!Procs, NEW q \in Pipe!Procs, Both(p, q), Pipe!Read(p)
    PROVE  PipeInv'
  <1>1. /\ place[p] = "read" /\ place' = [place EXCEPT ![p] = place'[p]] /\ place'[p] = "test"
        /\ eof' = eof /\ heard' = heard
        /\ language' = language /\ running' = running /\ signals' = signals
        /\ \/ /\ pipe[q] # << >> /\ msg' = [msg EXCEPT ![p] = Head(pipe[q])]
              /\ pipe' = [pipe EXCEPT ![q] = Tail(@)]
           \/ pipe[q] = << >> /\ ~Pipe!Live(q) /\ pipe' = pipe /\ msg' = msg
    BY DEF PipeInv, PipeTypes, Pipe!Read, Pipe!Goto, Pipe!Source, Pipe!HasWriter, Both
  <1>2. /\ place'[q] = place[q] /\ Pipe!Live(p) /\ Pipe!Live(p)' /\ p # q
        /\ pipe[p] \in Seq(Pipe!Messages) /\ pipe[q] \in Seq(Pipe!Messages)
        /\ pipe \in [Pipe!Procs -> Seq(Pipe!Messages)] /\ msg \in [Pipe!Procs -> Pipe!Messages]
        /\ signals[p] \in Nat /\ signals[q] \in Nat
    BY <1>1 DEF PipeInv, PipeTypes, Both, Pipe!Live
  <1>3. Aside(p, q)
    BY <1>1, <1>2 DEF Aside
  <1>4. /\ HasTurn(q)' <=> HasTurn(q)
        /\ HasWord(q)' <=> HasWord(q)
        /\ Leaving(q)' <=> Leaving(q)
        /\ Pipe!Live(q)' <=> Pipe!Live(q)
        /\ BothLive' <=> Pipe!Live(p)' /\ Pipe!Live(q)
        /\ BothLive <=> Pipe!Live(p) /\ Pipe!Live(q)
    BY <1>3, PeerStays
  <1>5. WordInv(p, q) /\ WordInv(q, p)
    BY DEF PipeInv, Both
  <1>6. place'[p] \in Places \ {"absent", "answer"}
    BY <1>1 DEF Places
  <1>a. CASE /\ pipe[q] # << >> /\ msg' = [msg EXCEPT ![p] = Head(pipe[q])]
             /\ pipe' = [pipe EXCEPT ![q] = Tail(@)]
    <2>1. /\ pipe'[q] = Tail(pipe[q]) /\ pipe'[p] = pipe[p] /\ msg'[p] = Head(pipe[q]) /\ msg'[q] = msg[q]
          /\ Head(pipe[q]) \in Pipe!Messages /\ Tail(pipe[q]) \in Seq(Pipe!Messages)
          /\ Len(pipe'[q]) = Len(pipe[q]) - 1 /\ Len(pipe[p]) \in Nat /\ Len(pipe[q]) \in Nat
          /\ Len(pipe'[q]) \in Nat
      <3>1. /\ Head(pipe[q]) \in Pipe!Messages /\ Tail(pipe[q]) \in Seq(Pipe!Messages)
            /\ Len(Tail(pipe[q])) = Len(pipe[q]) - 1 /\ Len(pipe[p]) \in Nat /\ Len(pipe[q]) \in Nat
            /\ Len(Tail(pipe[q])) \in Nat
        BY <1>2, <1>a, MessageSeqs
      <3>2. pipe'[q] = Tail(pipe[q]) /\ pipe'[p] = pipe[p] /\ msg'[p] = Head(pipe[q]) /\ msg'[q] = msg[q]
        BY <1>2, <1>a
      <3>3. QED
        BY <3>1, <3>2
    <2>2. /\ msg'[p] = "0" => (WordIn(pipe'[q]) <=> WordIn(pipe[q]))
          /\ msg'[p] # "0" => WordIn(pipe[q]) /\ (OneWord(pipe[q]) => ~WordIn(pipe'[q]))
          /\ OneWord(pipe[q]) => OneWord(pipe'[q])
          /\ \A S : Without(pipe[q], S) => Without(pipe'[q], S) /\ msg'[p] \notin S
      BY <1>2, <1>a, <2>1, MessageSeqs
    <2>3. PipeTypes'
      <3>1. pipe' \in [Pipe!Procs -> Seq(Pipe!Messages)] /\ msg' \in [Pipe!Procs -> Pipe!Messages]
        BY <1>2, <1>a, <2>1
      <3>2. QED
        BY <1>1, <1>3, <1>6, <3>1, StepTypes DEF PipeInv, PipeTypes
    <2>4. /\ ~HasTurn(p) /\ HasTurn(p)' /\ ~Leaving(p) /\ ~HasWord(p)
          /\ HasWord(p)' => msg'[p] # "0"
          /\ Leaving(p)' <=> msg'[p] = "0"
      BY <1>1 DEF HasTurn, HasWord, Leaving
    <2>5. /\ Len(pipe'[p]) <= 2 + signals'[p] /\ Len(pipe'[q]) <= 2 + signals'[q]
          /\ signals'[p] = signals[p] /\ signals'[q] = signals[q]
      BY <1>1, <1>2, <1>5, <2>1 DEF WordInv
    <2>6. ASSUME BothLive'
          PROVE  /\ Len(pipe'[p]) + Owed(p)' + Coming(q)' <= 1 + signals'[p] + Last(p)'
                 /\ Len(pipe'[q]) + Owed(q)' + Coming(p)' <= 1 + signals'[q] + Last(q)'
                 /\ OneWord(pipe'[p]) /\ OneWord(pipe'[q])
                 /\ HasWord(p)' => ~HasWord(q)' /\ ~WordIn(pipe'[p]) /\ ~WordIn(pipe'[q])
                 /\ HasWord(q)' => ~HasWord(p)' /\ ~WordIn(pipe'[p]) /\ ~WordIn(pipe'[q])
                 /\ WordIn(pipe'[p]) => ~WordIn(pipe'[q])
      <3>1. BothLive
        BY <1>2, <1>4, <2>6
      <3>2. /\ OneWord(pipe[p]) /\ OneWord(pipe[q])
            /\ HasWord(q) => ~WordIn(pipe[p]) /\ ~WordIn(pipe[q])
            /\ WordIn(pipe[q]) => ~WordIn(pipe[p])
        BY <1>5, <3>1 DEF WordInv
      <3>3. /\ OneWord(pipe'[p]) /\ OneWord(pipe'[q])
            /\ HasWord(p)' => ~HasWord(q)' /\ ~WordIn(pipe'[p]) /\ ~WordIn(pipe'[q])
            /\ HasWord(q)' => ~HasWord(p)' /\ ~WordIn(pipe'[p]) /\ ~WordIn(pipe'[q])
            /\ WordIn(pipe'[p]) => ~WordIn(pipe'[q])
        BY <1>4, <2>1, <2>2, <2>4, <3>2
      <3>4. /\ Len(pipe[p]) + Owed(p) + Coming(q) <= 1 + signals[p] + Last(p)
            /\ Len(pipe[q]) + Owed(q) + Coming(p) <= 1 + signals[q] + Last(q)
        BY <1>5, <3>1 DEF WordInv
      <3>5. Len(pipe'[p]) + Owed(p)' + Coming(q)' <= 1 + signals'[p] + Last(p)'
        <4>1. Owed(p) = 0 /\ Last(p) = 0
          BY <2>4, Counts
        <4>2. CASE msg'[p] = "0"
          <5>1. Coming(q)' = Coming(q) /\ Last(p)' = 1
            BY <1>4, <2>2, <2>4, <4>2, Counts
          <5>2. QED
            BY <1>2, <2>1, <2>5, <3>4, <4>1, <5>1, Balance
        <4>3. CASE msg'[p] # "0"
          <5>1. Coming(q) = 1 /\ Coming(q)' = 0
            BY <1>4, <2>2, <3>2, <4>3, Counts
          <5>2. Last(p)' >= Last(p)
            BY <4>1, Counts
          <5>3. QED
            BY <1>2, <2>1, <2>5, <3>4, <4>1, <5>1, <5>2, Balance
        <4>4. QED
          BY <4>2, <4>3
      <3>6. Len(pipe'[q]) + Owed(q)' + Coming(p)' <= 1 + signals'[q] + Last(q)'
        <4>1. Owed(q)' = Owed(q) /\ Last(q)' = Last(q)
          BY <1>4, Counts
        <4>2. QED
          BY <1>2, <2>1, <2>5, <3>4, <4>1, Balance
      <3>7. QED
        BY <3>3, <3>5, <3>6
    <2>7. WordInv(p, q)' /\ WordInv(q, p)'
      BY <2>5, <2>6 DEF WordInv
    <2>8. ASSUME Pipe!Quiet PROVE TurnInv(p, q)' /\ TurnInv(q, p)'
      <3>1. TurnInv(p, q) /\ TurnInv(q, p)
        BY <2>8 DEF PipeInv, Both
      <3>2. pipe[p] = << >> /\ Len(pipe[q]) = 1 /\ ~HasTurn(q) /\ place[q] # "killed"
        BY <1>1, <1>a, <3>1 DEF TurnInv
      <3>3. pipe'[q] = << >> /\ pipe'[p] = << >>
        <4>1. Len(Tail(pipe[q])) = 0 /\ Tail(pipe[q]) \in Seq(Pipe!Messages)
          BY <2>1, <3>2
        <4>2. Tail(pipe[q]) = << >>
          BY <4>1, EmptySeq
        <4>3. QED
          BY <2>1, <3>2, <4>2
      <3>4. TurnInv(p, q)'
        <4>1. ~Pipe!Live(q)' \/ place'[q] = "close" => msg'[p] = "0"
          BY <1>1, <1>2, <1>4, <2>1, <3>1 DEF TurnInv
        <4>2. QED
          BY <1>1, <1>4, <2>4, <3>2, <3>3, <4>1 DEF TurnInv
      <3>5. TurnInv(q, p)'
        BY <1>1, <1>2, <1>4, <3>2, <3>3 DEF TurnInv
      <3>6. QED
        BY <3>4, <3>5
    <2>9. ASSUME Hearing PROVE HearInv(p, q)' /\ HearInv(q, p)'
      <3>1. HearInv(p, q) /\ HearInv(q, p)
        BY <2>9 DEF PipeInv, Both
      <3>2. Without(pipe'[q], {p, "junk"}) /\ msg'[p] \notin {p, "junk"}
        BY <2>2, <3>1 DEF HearInv
      <3>3. HearInv(p, q)'
        BY <1>1, <2>1, <3>1, <3>2 DEF HearInv
      <3>4. HearInv(q, p)'
        BY <1>1, <1>2, <2>1, <3>1, <3>2 DEF HearInv
      <3>5. QED
        BY <3>3, <3>4
    <2>10. Aside(p, q)
      BY <1>3
    <2>11. QED
      BY <1>2, <2>3, <2>7, <2>8, <2>9, <2>10, PipeStep
  <1>b. CASE pipe[q] = << >> /\ ~Pipe!Live(q) /\ pipe' = pipe /\ msg' = msg
    <2>1. PipeTypes'
      BY <1>1, <1>3, <1>6, <1>b, StepTypes DEF PipeInv, PipeTypes
    <2>2. ~BothLive'
      BY <1>4, <1>b
    <2>3. WordInv(p, q)' /\ WordInv(q, p)'
      BY <1>2, <1>3, <1>b, <2>2, QuietWord
    <2>4. ~Pipe!Quiet /\ ~Hearing
      BY <1>1, <1>b DEF PipeInv, Both, TurnInv, Hearing
    <2>5. QED
      BY <1>2, <1>3, <2>1, <2>3, <2>4, PipeStep
  <1>7. QED
    BY <1>1, <1>a, <1>b

\* The inductive invariant of the two-way pipe.
LEMMA PipeInvAlways == Pipe!Spec => []PipeInv
  <1>1. PipeInv /\ [Pipe!Next]_(Pipe!vars) => PipeInv'
    <2> SUFFICES ASSUME PipeInv, [Pipe!Next]_(Pipe!vars) PROVE PipeInv'
      OBVIOUS
    <2>1. ASSUME NEW p \in Pipe!Procs,
                 Pipe!Process(p) \/ Pipe!Type(p) \/ Pipe!close_write(p) \/ Pipe!KillBySigint(p)
          PROVE  PipeInv'
      <3>1. PICK q \in Pipe!Procs : Both(p, q)
        BY Peers DEF Both
      <3>2. QED
        BY <2>1, <3>1, EnterLoopInv, CheckRunningInv, TypeLineInv, WriteInv, ReadInv, TestZeroInv,
           ClosePipesInv, CloseWriteInv, KilledInv DEF Pipe!Process
    <2>2. CASE UNCHANGED Pipe!vars
      <3> USE <2>2 DEF Pipe!vars
      <3>1. PipeTypes'
        BY DEF PipeInv, PipeTypes
      <3>2. ASSUME NEW p \in Pipe!Procs, NEW q \in Pipe!Procs, p # q
            PROVE  /\ WordInv(p, q)'
                   /\ Pipe!Quiet' => TurnInv(p, q)'
                   /\ Hearing' => HearInv(p, q)'
        <4>1. /\ \A o : /\ Owed(o)' = Owed(o) /\ Coming(o)' = Coming(o) /\ Last(o)' = Last(o)
                        /\ HasTurn(o)' <=> HasTurn(o)
                        /\ HasWord(o)' <=> HasWord(o)
                        /\ Pipe!Live(o)' <=> Pipe!Live(o)
              /\ BothLive' <=> BothLive
              /\ Pipe!Quiet' <=> Pipe!Quiet
              /\ Hearing' <=> Hearing
          BY DEF Owed, Coming, Last, Leaving, HasTurn, HasWord, Hearing, BothLive, Pipe!Quiet, Pipe!Live
        <4>2. WordInv(p, q)'
          BY <3>2, <4>1 DEF PipeInv, WordInv
        <4>3. Pipe!Quiet' => TurnInv(p, q)'
          BY <3>2, <4>1 DEF PipeInv, TurnInv
        <4>4. Hearing' => HearInv(p, q)'
          BY <3>2, <4>1 DEF PipeInv, HearInv
        <4>5. QED
          BY <4>2, <4>3, <4>4
      <3>3. QED
        BY <3>1, <3>2 DEF PipeInv
    <2>3. QED
      BY <2>1, <2>2 DEF Pipe!Next, Pipe!Terminated
  <1>2. QED
    BY <1>1, PipeInitInv, PTL DEF Pipe!Spec

\* In the two-way pipe, whatever signals come, however read() and fgets are
\* interrupted, and even when fork() fails, no write() can block; and as long as
\* no signal has come, the processes speak by turns, hear what the other one
\* said, and are not both killed at the end.
THEOREM PipeConversation == Pipe!Spec => []Pipe!Conversation
  <1>1. PipeInv => Pipe!Conversation
    <2> SUFFICES ASSUME PipeInv PROVE Pipe!Conversation
      OBVIOUS
    <2>0. \A p \in Pipe!Procs : \E q \in Pipe!Procs : Both(p, q)
      BY Peers DEF Both
    <2>1. Pipe!TypeOK
      <3>1. \A p \in Pipe!Procs : Len(pipe[p]) <= 2 + signals[p]
        BY <2>0 DEF PipeInv, WordInv, Both
      <3>2. QED
        BY <3>1 DEF PipeInv, PipeTypes, Pipe!TypeOK
    <2>2. Pipe!TakeTurns
      <3> SUFFICES ASSUME NEW p \in Pipe!Procs, Pipe!Quiet, place[p] = "ask"
                   PROVE  place[Pipe!Peer(p)] # "ask" /\ pipe[Pipe!Peer(p)] = << >>
        BY DEF Pipe!TakeTurns
      <3>1. PICK q \in Pipe!Procs : Both(p, q)
        BY <2>0
      <3>2. TurnInv(p, q) /\ Pipe!Peer(p) = q
        BY <3>1 DEF PipeInv, Both
      <3>3. QED
        BY <3>2 DEF TurnInv, HasTurn
    <2>3. Pipe!HearsPeer
      <3> SUFFICES ASSUME NEW p \in Pipe!Procs, Hearing PROVE heard[p] \notin {p, "junk"}
        BY DEF Pipe!HearsPeer, Hearing
      <3>1. PICK q \in Pipe!Procs : Both(p, q)
        BY <2>0
      <3>2. QED
        BY <3>1 DEF PipeInv, Both, HearInv
    <2>4. Pipe!OneGetsThrough
      <3> SUFFICES ASSUME Pipe!Ended, Pipe!Quiet PROVE \E p \in Pipe!Procs : place[p] = "done"
        BY DEF Pipe!OneGetsThrough
      <3>1. PICK q \in Pipe!Procs : q = "child" /\ "parent" \in Pipe!Procs
        BY DEF Pipe!Procs
      <3>2. place["parent"] \in {"done", "killed"}
        BY <3>1 DEF Pipe!Ended, Pipe!Live, Pipe!Quiet
      <3>3. place["parent"] = "killed" => place["child"] = "done"
        BY <3>1 DEF PipeInv, TurnInv
      <3>4. QED
        BY <3>1, <3>2, <3>3
    <2>5. QED
      BY <2>1, <2>2, <2>3, <2>4 DEF Pipe!Conversation
  <1>2. QED
    BY <1>1, PipeInvAlways, PTL

=============================================================================
