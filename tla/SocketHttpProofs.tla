-------------------------- MODULE SocketHttpProofs --------------------------
(***************************************************************************)
(* For every set of requests and every bound on lookups and failures: a      *)
(* SocketHttp is an HttpChannel. Each step of its machines, however far the  *)
(* methods call each other in it, takes requests from the front of those     *)
(* that wait, adds one behind them, or leaves them alone.                    *)
(***************************************************************************)
EXTENDS HttpLookups, TLAPS, SequenceTheorems

\* Where the send machine rests it has something to send, or nothing waits.
SendSide(s) ==
    /\ s.send = "dequeue" <=> s.sendReq = NoRequest
    /\ s.send = "dequeue" => s.queue = <<>>
    /\ s.writing => s.send = "request"

\* While the receive machine has a pump, the server owes the responses that the
\* machine expects, in its order.
RecvSide(s) ==
    /\ s.recv = "dequeue" <=> s.recvReq = NoRequest
    /\ s.recv = "dequeue" => s.recvQueue = <<>> /\ s.wire = <<>>
    /\ s.recv # "dequeue" /\ s.reading => s.wire = <<s.recvReq>> \o s.recvQueue
    /\ s.wire # <<>> => s.connected

Told(s) == s.outcome \in [Requests -> {"none", "answered", "cancelled"}]

Once(w) == \A i, j \in 1 .. Len(w) : w[i] = w[j] => i = j

Good(s) == s \in Socket /\ Told(s) /\ SendSide(s) /\ RecvSide(s) /\ Once(Waiting(s))

\* The inductive invariant
IInv == Good(socket) /\ netUp \in BOOLEAN /\ faults \in 0 .. MaxFaults

-----------------------------------------------------------------------------
(* Sequences *)

LEMMA OneType ==
    /\ \A r \in Requests \cup {NoRequest} : One(r) \in Seq(Requests)
    /\ One(NoRequest) = <<>>
    /\ \A r \in Requests : One(r) = <<r>>
BY NoRequestAssumption DEF One

LEMMA Parts ==
    ASSUME NEW S, NEW a \in Seq(S), NEW b \in Seq(S)
    PROVE  /\ a \o b \in Seq(S)
           /\ Len(a \o b) = Len(a) + Len(b) /\ Len(a) \in Nat /\ Len(b) \in Nat
           /\ \A i \in 1 .. Len(a) : (a \o b)[i] = a[i]
           /\ \A i \in 1 .. Len(b) : (a \o b)[Len(a) + i] = b[i]
<1>1. /\ a \o b \in Seq(S)
      /\ Len(a \o b) = Len(a) + Len(b)
      /\ \A i \in 1 .. Len(a) + Len(b) : (a \o b)[i] = IF i <= Len(a) THEN a[i] ELSE b[i - Len(a)]
  BY ConcatProperties
<1>2. Len(a) \in Nat /\ Len(b) \in Nat
  OBVIOUS
<1>3. \A i \in 1 .. Len(b) : Len(a) + i \in 1 .. Len(a) + Len(b) /\ ~(Len(a) + i <= Len(a)) /\ (Len(a) + i) - Len(a) = i
  BY <1>2
<1>. QED  BY <1>1, <1>2, <1>3

\* The front of a sequence and what is behind it
LEMMA Split ==
    ASSUME NEW S, NEW a \in Seq(S), NEW b \in Seq(S)
    PROVE  /\ SubSeq(a \o b, 1, Len(a)) = a
           /\ SubSeq(a \o b, Len(a) + 1, Len(a \o b)) = b
<1> DEFINE w == a \o b
<1>1. /\ w \in Seq(S) /\ Len(w) = Len(a) + Len(b) /\ Len(a) \in Nat /\ Len(b) \in Nat
      /\ \A i \in 1 .. Len(a) : w[i] = a[i]
      /\ \A i \in 1 .. Len(b) : w[Len(a) + i] = b[i]
  BY Parts
<1>2. \A i \in 1 .. Len(w) : w[i] \in S
  BY <1>1
<1> HIDE DEF w
<1>3. SubSeq(w, 1, Len(a)) = a
  <2> DEFINE u == SubSeq(w, 1, Len(a))
  <2>1. /\ u \in Seq(S) /\ Len(u) = Len(a)
        /\ \A i \in 1 .. Len(a) : u[i] = w[i]
    <3>1. \A i \in 1 .. Len(a) : w[i] \in S
      BY <1>1
    <3>2. /\ u \in Seq(S)
          /\ Len(u) = IF 1 <= Len(a) THEN Len(a) - 1 + 1 ELSE 0
          /\ \A i \in 1 .. Len(a) - 1 + 1 : u[i] = w[1 + i - 1]
      BY <1>1, <3>1, SubSeqProperties
    <3>. QED  BY <1>1, <3>2
  <2> HIDE DEF u
  <2>2. u = a
    BY <1>1, <2>1, SeqEqual
  <2>. QED  BY <2>2 DEF u
<1>4. SubSeq(w, Len(a) + 1, Len(w)) = b
  <2> DEFINE u == SubSeq(w, Len(a) + 1, Len(w))
  <2>1. /\ u \in Seq(S) /\ Len(u) = Len(b)
        /\ \A i \in 1 .. Len(b) : u[i] = w[Len(a) + i]
    <3>1. \A i \in Len(a) + 1 .. Len(w) : w[i] \in S
      BY <1>1, <1>2
    <3>2. /\ u \in Seq(S)
          /\ Len(u) = IF Len(a) + 1 <= Len(w) THEN Len(w) - (Len(a) + 1) + 1 ELSE 0
          /\ \A i \in 1 .. Len(w) - (Len(a) + 1) + 1 : u[i] = w[(Len(a) + 1) + i - 1]
      BY <1>1, <3>1, SubSeqProperties
    <3>. QED  BY <1>1, <3>2
  <2> HIDE DEF u
  <2>2. u = b
    BY <1>1, <2>1, SeqEqual
  <2>. QED  BY <2>2 DEF u
<1>. QED  BY <1>3, <1>4 DEF w

\* What is left behind the front still occurs once.
LEMMA OnceBehind ==
    ASSUME NEW a \in Seq(Requests), NEW b \in Seq(Requests), Once(a \o b)
    PROVE  /\ Once(b)
           /\ \A i \in 1 .. Len(a), j \in 1 .. Len(b) : a[i] # b[j]
<1>1. /\ Len(a \o b) = Len(a) + Len(b) /\ Len(a) \in Nat /\ Len(b) \in Nat
      /\ \A i \in 1 .. Len(a) : (a \o b)[i] = a[i]
      /\ \A i \in 1 .. Len(b) : (a \o b)[Len(a) + i] = b[i]
  BY Parts
<1>2. ASSUME NEW i \in 1 .. Len(b), NEW j \in 1 .. Len(b), b[i] = b[j] PROVE i = j
  <2>1. Len(a) + i \in 1 .. Len(a \o b) /\ Len(a) + j \in 1 .. Len(a \o b)
    BY <1>1
  <2>2. Len(a) + i = Len(a) + j
    BY <1>1, <1>2, <2>1 DEF Once
  <2>. QED  BY <1>1, <2>2
<1>3. ASSUME NEW i \in 1 .. Len(a), NEW j \in 1 .. Len(b), a[i] = b[j] PROVE FALSE
  <2>1. i \in 1 .. Len(a \o b) /\ Len(a) + j \in 1 .. Len(a \o b)
    BY <1>1
  <2>2. i = Len(a) + j
    BY <1>1, <1>3, <2>1 DEF Once
  <2>. QED  BY <1>1, <2>2
<1>. QED  BY <1>2, <1>3 DEF Once

LEMMA Grouped == \A a, b, c \in Seq(Requests) : (a \o b) \o c = a \o (b \o c)
BY ConcatAssociative

LEMMA OldestFirst ==
    ASSUME NEW r \in Requests, NEW q \in Seq(Requests), NEW u \in Seq(Requests), NEW w \in Seq(Requests)
    PROVE  ((<<r>> \o q) \o u) \o w = <<r>> \o ((q \o u) \o w)
<1>1. <<r>> \in Seq(Requests)
  OBVIOUS
<1>2. \A x \in Seq(Requests) : (x \o q) \o u = x \o (q \o u)
  BY Grouped
<1>3. \A x, v \in Seq(Requests) : (x \o v) \o w = x \o (v \o w)
  BY SMTT(60), Grouped
<1>4. q \o u \in Seq(Requests)
  BY ConcatProperties
<1>5. (<<r>> \o q) \o u = <<r>> \o (q \o u)
  BY <1>1, <1>2
<1>6. (<<r>> \o (q \o u)) \o w = <<r>> \o ((q \o u) \o w)
  BY <1>1, <1>3, <1>4
<1>. QED  BY <1>5, <1>6

LEMMA Unshift ==
    ASSUME NEW r \in Requests, NEW q \in Seq(Requests)
    PROVE  LET w == <<r>> \o q IN w # <<>> /\ Head(w) = r /\ Tail(w) = q
<1> DEFINE w == <<r>> \o q
<1>1. /\ w \in Seq(Requests) /\ Len(w) = 1 + Len(q) /\ Len(q) \in Nat
      /\ w[1] = r
      /\ \A i \in 1 .. Len(q) : w[1 + i] = q[i]
  <2>1. /\ <<r>> \in Seq(Requests) /\ Len(<<r>>) = 1 /\ <<r>>[1] = r /\ 1 \in 1 .. Len(<<r>>)
    OBVIOUS
  <2>. QED  BY <2>1, Parts
<1> HIDE DEF w
<1>2. w # <<>> /\ Head(w) = r
  BY <1>1
<1>3. /\ Tail(w) \in Seq(Requests) /\ Len(Tail(w)) = Len(w) - 1
      /\ \A i \in 1 .. Len(Tail(w)) : Tail(w)[i] = w[i + 1]
  BY <1>1, <1>2, HeadTailProperties
<1>4. Len(Tail(w)) = Len(q) /\ \A i \in 1 .. Len(q) : Tail(w)[i] = q[i]
  BY <1>1, <1>3
<1>5. Tail(w) = q
  BY <1>3, <1>4, SeqEqual
<1>. QED  BY <1>2, <1>5 DEF w

LEMMA Behind ==
    ASSUME NEW a \in Seq(Requests), NEW b \in Seq(Requests), NEW r \in Requests
    PROVE  /\ Append(a \o b, r) = a \o Append(b, r)
           /\ Append(b, r) = b \o <<r>>
<1>1. a \o b \in Seq(Requests) /\ <<r>> \in Seq(Requests)
  BY ConcatProperties
<1>2. Append(a \o b, r) = (a \o b) \o <<r>>
  BY <1>1, AppendIsConcat
<1>3. Append(b, r) = b \o <<r>>
  BY AppendIsConcat
<1>4. (a \o b) \o <<r>> = a \o (b \o <<r>>)
  BY <1>1, ConcatAssociative
<1>. QED  BY <1>2, <1>3, <1>4

LEMMA HeadAndTail ==
    ASSUME NEW q \in Seq(Requests), q # <<>>
    PROVE  Head(q) \in Requests /\ Tail(q) \in Seq(Requests) /\ <<Head(q)>> \o Tail(q) = q
<1> DEFINE w == <<Head(q)>> \o Tail(q)
<1>1. /\ Head(q) \in Requests /\ Tail(q) \in Seq(Requests) /\ Len(Tail(q)) = Len(q) - 1
      /\ \A i \in 1 .. Len(Tail(q)) : Tail(q)[i] = q[i + 1]
  BY HeadTailProperties
<1>2. /\ <<Head(q)>> \in Seq(Requests) /\ Len(<<Head(q)>>) = 1 /\ <<Head(q)>>[1] = q[1]
      /\ Len(q) \in Nat
  BY <1>1
<1>3. /\ w \in Seq(Requests)
      /\ Len(w) = 1 + Len(Tail(q))
      /\ \A i \in 1 .. 1 + Len(Tail(q)) : w[i] = IF i <= 1 THEN <<Head(q)>>[i] ELSE Tail(q)[i - 1]
  BY <1>1, <1>2, ConcatProperties
<1>4. Len(w) = Len(q)
  BY <1>1, <1>2, <1>3
<1>5. ASSUME NEW i \in 1 .. Len(w) PROVE w[i] = q[i]
  <2>1. CASE i = 1
    BY <1>1, <1>2, <1>3, <1>5, <2>1
  <2>2. CASE i # 1
    <3>1. i - 1 \in 1 .. Len(Tail(q)) /\ ~(i <= 1) /\ (i - 1) + 1 = i
      BY <1>1, <1>2, <1>4, <1>5, <2>2
    <3>. QED  BY <1>1, <1>3, <1>5, <3>1
  <2>. QED  BY <2>1, <2>2
<1> HIDE DEF w
<1>6. w = q
  BY <1>3, <1>4, <1>5, SeqEqual
<1>. QED  BY <1>1, <1>6 DEF w

-----------------------------------------------------------------------------
(* The methods *)

LEMMA WaitingType ==
    ASSUME NEW s \in Socket
    PROVE  /\ OnTheWire(s) \in Seq(Requests) /\ s.queue \in Seq(Requests)
           /\ Waiting(s) = OnTheWire(s) \o s.queue
           /\ Waiting(s) \in Seq(Requests)
<1>1. /\ s.recvReq \in Requests \cup {NoRequest} /\ s.sendReq \in Requests \cup {NoRequest}
      /\ s.recvQueue \in Seq(Requests) /\ s.queue \in Seq(Requests)
  BY DEF Socket
<1>2. One(s.recvReq) \in Seq(Requests) /\ One(s.sendReq) \in Seq(Requests)
  BY <1>1, OneType
<1>3. One(s.recvReq) \o s.recvQueue \in Seq(Requests)
  BY <1>1, <1>2, ConcatProperties
<1>4. OnTheWire(s) \in Seq(Requests)
  BY <1>2, <1>3, ConcatProperties DEF OnTheWire
<1>. QED  BY <1>1, <1>4, ConcatProperties DEF Waiting

\* The outcomes when the requests of rs are cancelled
Cancelling(o, rs) == [r \in Requests |-> IF r \in rs THEN "cancelled" ELSE o[r]]

\* What dequeuing leaves alone
SameReceiver(s, d) ==
    d.wire = s.wire /\ d.reading = s.reading /\ d.connected = s.connected /\ d.closing = s.closing

\* The request at the head of the queue goes on the wire, behind what was there.
TakesNext(s, d) ==
    /\ d.recv = s.recv /\ d.recvReq = s.recvReq /\ d.recvQueue = s.recvQueue
    /\ d.outcome = s.outcome /\ Waiting(d) = Waiting(s)

\* Or there is no connection to be had, and all is cancelled.
GivesUp(s, d) ==
    /\ s.queue # <<>> /\ ~s.connected
    /\ d.recv = "dequeue" /\ d.recvReq = NoRequest /\ d.recvQueue = <<>>
    /\ d.outcome = Cancelling(s.outcome, Range(Waiting(s)))
    /\ Waiting(d) = <<>>

LEMMA TakeKeeps ==
    ASSUME NEW s \in Socket, s.sendReq = NoRequest, s.queue # <<>>, NEW d \in Socket,
           d.recvReq = s.recvReq, d.recvQueue = s.recvQueue,
           d.sendReq = Head(s.queue), d.queue = Tail(s.queue)
    PROVE  Waiting(d) = Waiting(s)
<1> DEFINE a == One(s.recvReq)
           q == s.queue
<1>1. /\ a \in Seq(Requests) /\ s.recvQueue \in Seq(Requests) /\ q \in Seq(Requests)
      /\ One(s.sendReq) = <<>>
  BY OneType DEF Socket
<1>2. Head(q) \in Requests /\ Tail(q) \in Seq(Requests) /\ <<Head(q)>> \o Tail(q) = q
  BY <1>1, HeadAndTail
<1>3. One(d.sendReq) = <<Head(q)>> /\ <<Head(q)>> \in Seq(Requests)
  BY <1>2, OneType
<1>4. a \o s.recvQueue \in Seq(Requests) /\ (a \o s.recvQueue) \o <<>> = a \o s.recvQueue
  BY <1>1, ConcatProperties, ConcatEmptySeq
<1>5. Waiting(s) = (a \o s.recvQueue) \o q
  BY <1>1, <1>4 DEF Waiting, OnTheWire
<1>6. Waiting(d) = ((a \o s.recvQueue) \o <<Head(q)>>) \o Tail(q)
  BY <1>3 DEF Waiting, OnTheWire
<1>7. ((a \o s.recvQueue) \o <<Head(q)>>) \o Tail(q) = (a \o s.recvQueue) \o (<<Head(q)>> \o Tail(q))
  <2> DEFINE b == a \o s.recvQueue
             h == <<Head(q)>>
             u == Tail(q)
  <2>1. b \in Seq(Requests) /\ h \in Seq(Requests) /\ u \in Seq(Requests)
    BY <1>2, <1>3, <1>4
  <2>2. (b \o h) \o u = b \o (h \o u)
    <3> HIDE DEF b, h, u
    <3>. QED  BY <2>1, ConcatAssociative
  <2>. QED  BY <2>2
<1>. QED  BY <1>2, <1>5, <1>6, <1>7

LEMMA SendDequeueKeeps ==
    ASSUME NEW s \in Socket, Told(s), s.sendReq = NoRequest, ~s.writing,
           s.connected \/ s.lookups < MaxLookups
    PROVE  LET d == SendDequeue(s)
           IN  /\ d \in Socket /\ Told(d) /\ SendSide(d) /\ SameReceiver(s, d)
               /\ TakesNext(s, d) \/ GivesUp(s, d)
<1> DEFINE d == SendDequeue(s)
           q == s.queue
<1>1. CASE q = <<>>
  <2>1. d = [s EXCEPT !.send = "dequeue", !.sendReq = NoRequest]
    BY <1>1 DEF SendDequeue
  <2>2. /\ d \in Socket /\ d.send = "dequeue" /\ d.sendReq = s.sendReq /\ d.queue = q
        /\ d.recv = s.recv /\ d.recvReq = s.recvReq /\ d.recvQueue = s.recvQueue
        /\ d.outcome = s.outcome /\ d.writing = s.writing /\ SameReceiver(s, d)
    <3> HIDE DEF d
    <3>. QED  BY <2>1 DEF Socket, SameReceiver
  <2>3. Waiting(d) = Waiting(s)
    BY <2>2 DEF Waiting, OnTheWire
  <2>. QED  BY <1>1, <2>2, <2>3 DEF TakesNext, SendSide, Told
<1>2. CASE q # <<>>
  <2>1. q \in Seq(Requests) /\ Head(q) \in Requests /\ Tail(q) \in Seq(Requests)
    BY <1>2, HeadAndTail DEF Socket
  <2> DEFINE t == Take(s)
  <2>2. /\ t \in Socket /\ t.sendReq = Head(q) /\ t.queue = Tail(q)
        /\ t.recv = s.recv /\ t.recvReq = s.recvReq /\ t.recvQueue = s.recvQueue
        /\ t.outcome = s.outcome /\ SameReceiver(s, t) /\ ~t.writing /\ t.lookups = s.lookups
    BY <2>1 DEF Take, Socket, SameReceiver
  \* All that is done with the head of the queue
  <2>3. ASSUME NEW e \in Socket, e.sendReq = t.sendReq, e.queue = t.queue,
               e.recv = t.recv, e.recvReq = t.recvReq, e.recvQueue = t.recvQueue,
               e.outcome = t.outcome, SameReceiver(t, e),
               e.send # "dequeue", e.writing => e.send = "request"
        PROVE  Told(e) /\ SendSide(e) /\ SameReceiver(s, e) /\ TakesNext(s, e)
    <3>1. Waiting(e) = Waiting(s)
      <4> HIDE DEF t
      <4>. QED  BY <1>2, <2>2, <2>3, TakeKeeps
    <3>2. e.sendReq # NoRequest
      BY <2>1, <2>2, <2>3, NoRequestAssumption
    <3> HIDE DEF t
    <3>. QED  BY <2>2, <2>3, <3>1, <3>2 DEF Told, SendSide, SameReceiver, TakesNext
  <2>4. CASE s.connected
    <3>1. d = SendRequest(t)
      BY <1>2, <2>4 DEF SendDequeue
    <3> HIDE DEF d, t
    <3>2. /\ d \in Socket /\ d.sendReq = t.sendReq /\ d.queue = t.queue
          /\ d.recv = t.recv /\ d.recvReq = t.recvReq /\ d.recvQueue = t.recvQueue
          /\ d.outcome = t.outcome /\ SameReceiver(t, d) /\ d.send = "request"
      BY <2>2, <3>1 DEF SendRequest, Socket, SameReceiver
    <3>3. Told(d) /\ SendSide(d) /\ SameReceiver(s, d) /\ TakesNext(s, d)
      BY <2>3, <3>2
    <3>. QED  BY <3>2, <3>3 DEF d
  <2>5. CASE ~s.connected /\ ~s.isIp
    <3>1. d = [t EXCEPT !.send = "resolve", !.lookups = @ + 1]
      BY <1>2, <2>5 DEF SendDequeue
    <3>2. t.lookups + 1 \in 0 .. MaxLookups
      BY <2>2, <2>5, BoundsAssumption DEF Socket
    <3> HIDE DEF d, t
    <3>3. /\ d \in Socket /\ d.sendReq = t.sendReq /\ d.queue = t.queue
          /\ d.recv = t.recv /\ d.recvReq = t.recvReq /\ d.recvQueue = t.recvQueue
          /\ d.outcome = t.outcome /\ SameReceiver(t, d) /\ d.send = "resolve" /\ ~d.writing
      BY <2>2, <3>1, <3>2 DEF Socket, SameReceiver
    <3>4. Told(d) /\ SendSide(d) /\ SameReceiver(s, d) /\ TakesNext(s, d)
      BY <2>3, <3>3
    <3>. QED  BY <3>3, <3>4 DEF d
  <2>6. CASE ~s.connected /\ s.isIp /\ netUp
    <3>1. d = SendRequest([t EXCEPT !.open = TRUE])
      BY <1>2, <2>6 DEF SendDequeue
    <3> HIDE DEF d, t
    <3>2. /\ d \in Socket /\ d.sendReq = t.sendReq /\ d.queue = t.queue
          /\ d.recv = t.recv /\ d.recvReq = t.recvReq /\ d.recvQueue = t.recvQueue
          /\ d.outcome = t.outcome /\ SameReceiver(t, d) /\ d.send = "request"
      BY <2>2, <3>1 DEF SendRequest, Socket, SameReceiver
    <3>3. Told(d) /\ SendSide(d) /\ SameReceiver(s, d) /\ TakesNext(s, d)
      BY <2>3, <3>2
    <3>. QED  BY <3>2, <3>3 DEF d
  <2>7. CASE ~s.connected /\ s.isIp /\ ~netUp
    <3> DEFINE c == Cancelled(s, Range(Waiting(s)))
               o == Cancelling(s.outcome, Range(Waiting(s)))
    <3>1. d = [c EXCEPT !.queue = <<>>, !.send = "dequeue", !.sendReq = NoRequest,
                        !.recvQueue = <<>>, !.recvReq = NoRequest, !.recv = "dequeue"]
      BY <1>2, <2>7 DEF SendDequeue
    <3>2. c = [s EXCEPT !.outcome = o]
      BY DEF Cancelled, Cancelling
    <3>3. o \in [Requests -> {"none", "answered", "cancelled"}] /\ o \in [Requests -> Outcomes]
      BY DEF Told, Cancelling, Outcomes
    <3> HIDE DEF d, c, o
    <3>e. <<>> \in Seq(Requests)
      OBVIOUS
    <3>c. c \in Socket /\ c.outcome = o /\ SameReceiver(s, c) /\ ~c.writing
      BY <3>2, <3>3 DEF Socket, SameReceiver
    <3>4. /\ d \in Socket /\ d.outcome = o /\ d.queue = <<>> /\ d.send = "dequeue"
          /\ d.sendReq = NoRequest /\ d.recvQueue = <<>> /\ d.recvReq = NoRequest
          /\ d.recv = "dequeue" /\ SameReceiver(s, d) /\ ~d.writing
      BY ZenonT(60), <3>1, <3>c, <3>e DEF Socket, SameReceiver
    <3>5. Waiting(d) = <<>>
      BY <3>4, OneType DEF Waiting, OnTheWire
    <3>. QED  BY <1>2, <2>7, <3>3, <3>4, <3>5 DEF o, d, Told, SendSide, GivesUp
  <2>. QED  BY <2>4, <2>5, <2>6, <2>7
<1>. QED  BY <1>1, <1>2

LEMMA RecvDequeueKeeps ==
    ASSUME NEW s \in Socket, s.recvReq = NoRequest,
           s.open => s.wire = s.recvQueue, s.recvQueue = <<>> => s.wire = <<>>,
           s.wire # <<>> => s.connected
    PROVE  LET d == RecvDequeue(s)
           IN  /\ d \in Socket /\ RecvSide(d) /\ Waiting(d) = Waiting(s)
               /\ d.outcome = s.outcome /\ d.send = s.send /\ d.sendReq = s.sendReq
               /\ d.queue = s.queue /\ d.writing = s.writing
<1> DEFINE d == RecvDequeue(s)
           q == s.recvQueue
<1>1. CASE q # <<>>
  <2>1. q \in Seq(Requests) /\ Head(q) \in Requests /\ Tail(q) \in Seq(Requests) /\ <<Head(q)>> \o Tail(q) = q
    BY <1>1, HeadAndTail DEF Socket
  <2>2. d = [s EXCEPT !.recvReq = Head(q), !.recvQueue = Tail(q), !.recv = "headers", !.reading = s.open]
    BY <1>1 DEF RecvDequeue
  <2>3. /\ d \in Socket /\ d.recvReq = Head(q) /\ d.recvQueue = Tail(q) /\ d.recv = "headers"
        /\ d.reading = s.open /\ d.wire = s.wire /\ d.connected = s.connected
        /\ d.outcome = s.outcome /\ d.send = s.send /\ d.sendReq = s.sendReq
        /\ d.queue = s.queue /\ d.writing = s.writing
    <3> HIDE DEF d
    <3>. QED  BY <2>1, <2>2 DEF Socket
  <2>4. One(d.recvReq) \o d.recvQueue = One(s.recvReq) \o s.recvQueue
    <3>1. One(d.recvReq) = <<Head(q)>> /\ One(s.recvReq) = <<>>
      BY <2>1, <2>3, OneType
    <3>2. <<>> \o q = q
      BY <2>1, ConcatEmptySeq
    <3>. QED  BY <2>1, <2>3, <3>1, <3>2
  <2>5. Waiting(d) = Waiting(s)
    BY <2>3, <2>4 DEF Waiting, OnTheWire
  <2>6. RecvSide(d)
    BY <2>1, <2>3, NoRequestAssumption DEF RecvSide
  <2>. QED  BY <2>3, <2>5, <2>6
<1>2. CASE q = <<>>
  <2>1. d = [s EXCEPT !.recvReq = NoRequest, !.recv = "dequeue", !.reading = s.connected \/ s.reading]
    BY <1>2 DEF RecvDequeue
  <2>2. /\ d \in Socket /\ d.recvReq = s.recvReq /\ d.recvQueue = q /\ d.recv = "dequeue"
        /\ d.wire = s.wire /\ d.connected = s.connected
        /\ d.outcome = s.outcome /\ d.send = s.send /\ d.sendReq = s.sendReq
        /\ d.queue = s.queue /\ d.writing = s.writing
    <3> HIDE DEF d
    <3>. QED  BY ZenonT(60), <2>1 DEF Socket
  <2>3. Waiting(d) = Waiting(s) /\ RecvSide(d)
    BY <1>2, <2>2 DEF Waiting, OnTheWire, RecvSide
  <2>. QED  BY <2>2, <2>3
<1>. QED  BY <1>1, <1>2

\* What close() and a failed connect do to the requests: the oldest are cancelled.
CancelsOldest(s, d) ==
    \E a, b \in Seq(Requests) :
        /\ Waiting(s) = a \o b /\ Waiting(d) = b
        /\ d.outcome = Cancelling(s.outcome, Range(a))

LEMMA CloseKeeps ==
    ASSUME NEW s \in Socket, Told(s), s.lookups < MaxLookups
    PROVE  LET d == Close(s)
           IN  /\ d \in Socket /\ Told(d) /\ SendSide(d) /\ RecvSide(d)
               /\ CancelsOldest(s, d)
               /\ d.recvReq = NoRequest /\ d.recvQueue = <<>> /\ d.wire = <<>>
<1> DEFINE a == OnTheWire(s)
           q == s.queue
           o == Cancelling(s.outcome, Range(a))
           empty == [TcpClose(s) EXCEPT !.sendReq = NoRequest, !.recvReq = NoRequest,
                                        !.recvQueue = <<>>, !.closing = FALSE]
           e == Cancelled(empty, Range(a))
           f == SendDequeue(e)
           d == Close(s)
<1>1. a \in Seq(Requests) /\ q \in Seq(Requests) /\ Waiting(s) = a \o q
  BY WaitingType
<1>2. o \in [Requests -> {"none", "answered", "cancelled"}] /\ o \in [Requests -> Outcomes]
  BY DEF Told, Cancelling, Outcomes
<1>3. /\ empty \in Socket /\ empty.sendReq = NoRequest /\ empty.recvReq = NoRequest
      /\ empty.recvQueue = <<>> /\ empty.queue = q /\ empty.wire = <<>> /\ ~empty.writing
      /\ ~empty.connected /\ ~empty.open /\ ~empty.reading
      /\ empty.outcome = s.outcome /\ empty.lookups = s.lookups
  <2> DEFINE t == TcpClose(s)
  <2>1. <<>> \in Seq(Requests)
    OBVIOUS
  <2>2. /\ t \in Socket /\ t.wire = <<>> /\ ~t.writing /\ ~t.connected /\ ~t.open /\ ~t.reading
        /\ t.queue = q /\ t.outcome = s.outcome /\ t.lookups = s.lookups
    BY <2>1 DEF Socket, TcpClose
  <2>3. empty = [t EXCEPT !.sendReq = NoRequest, !.recvReq = NoRequest,
                          !.recvQueue = <<>>, !.closing = FALSE]
    OBVIOUS
  <2> HIDE DEF t, empty
  <2>. QED  BY <2>1, <2>2, <2>3 DEF Socket
<1>4. e = [empty EXCEPT !.outcome = o]
  <2>1. o = [r \in Requests |-> IF r \in Range(a) THEN "cancelled" ELSE empty.outcome[r]]
    <3> HIDE DEF empty
    <3>. QED  BY <1>3 DEF Cancelling
  <2>. QED  BY <2>1 DEF Cancelled
<1>5. /\ e \in Socket /\ e.sendReq = NoRequest /\ e.recvReq = NoRequest
      /\ e.recvQueue = <<>> /\ e.queue = q /\ e.wire = <<>> /\ ~e.writing
      /\ ~e.connected /\ e.outcome = o /\ e.lookups = s.lookups
  <2> HIDE DEF empty, e, o
  <2>. QED  BY <1>2, <1>3, <1>4 DEF Socket
<1>6. Told(e)
  BY <1>2, <1>5 DEF Told
<1>7. Waiting(e) = q
  <2>1. One(e.recvReq) = <<>> /\ One(e.sendReq) = <<>> /\ e.recvQueue = <<>> /\ e.queue = q
    BY <1>5, OneType
  <2>2. (<<>> \o <<>>) \o <<>> = <<>>
    OBVIOUS
  <2>3. Waiting(e) = <<>> \o q
    BY <2>1, <2>2 DEF Waiting, OnTheWire
  <2>. QED  BY <1>1, <2>3, ConcatEmptySeq
<1> HIDE DEF e, f
<1>8. /\ f \in Socket /\ Told(f) /\ SendSide(f) /\ SameReceiver(e, f)
      /\ TakesNext(e, f) \/ GivesUp(e, f)
  BY <1>5, <1>6, SendDequeueKeeps DEF f
<1>9. f.recvReq = NoRequest /\ f.recvQueue = <<>> /\ f.wire = <<>>
  BY <1>5, <1>8 DEF SameReceiver, TakesNext, GivesUp
<1>10. d = RecvDequeue(f)
  BY DEF Close, f, e
<1>11. /\ d \in Socket /\ RecvSide(d) /\ Waiting(d) = Waiting(f) /\ d.outcome = f.outcome
       /\ d.send = f.send /\ d.sendReq = f.sendReq /\ d.queue = f.queue /\ d.writing = f.writing
  BY <1>8, <1>9, <1>10, RecvDequeueKeeps
<1>12. d.recvReq = NoRequest /\ d.recvQueue = <<>> /\ d.wire = <<>>
  <2>1. d = [f EXCEPT !.recvReq = NoRequest, !.recv = "dequeue", !.reading = f.connected \/ f.reading]
    BY <1>9, <1>10 DEF RecvDequeue
  <2> HIDE DEF d
  <2>. QED  BY <1>8, <1>9, <2>1 DEF Socket
<1> HIDE DEF d
<1>13. Told(d) /\ SendSide(d)
  BY <1>8, <1>11 DEF Told, SendSide
<1>14. CASE TakesNext(e, f)
  <2>1. Waiting(d) = q /\ d.outcome = o
    BY <1>5, <1>7, <1>11, <1>14 DEF TakesNext
  <2>2. CancelsOldest(s, d)
    BY <1>1, <2>1 DEF CancelsOldest
  <2>. QED  BY <1>11, <1>12, <1>13, <2>2 DEF d
<1>15. CASE GivesUp(e, f)
  <2>1. Waiting(d) = <<>> /\ d.outcome = Cancelling(o, Range(q))
    BY <1>5, <1>7, <1>11, <1>15 DEF GivesUp
  <2>2. Cancelling(o, Range(q)) = Cancelling(s.outcome, Range(a \o q))
    <3>1. Range(a \o q) = Range(a) \cup Range(q)
      BY <1>1, RangeConcatenation
    <3>. QED  BY <3>1 DEF Cancelling
  <2>3. a \o q \in Seq(Requests) /\ (a \o q) \o <<>> = a \o q /\ <<>> \in Seq(Requests)
    BY <1>1, ConcatProperties, ConcatEmptySeq
  <2>4. CancelsOldest(s, d)
    <3> DEFINE w == a \o q
    <3>1. w \in Seq(Requests) /\ <<>> \in Seq(Requests) /\ Waiting(s) = w \o <<>> /\ Waiting(d) = <<>>
          /\ d.outcome = Cancelling(s.outcome, Range(w))
      BY <1>1, <2>1, <2>2, <2>3
    <3> HIDE DEF w
    <3>. QED  BY <3>1 DEF CancelsOldest
  <2>. QED  BY <1>11, <1>12, <1>13, <2>4 DEF d
<1>. QED  BY <1>8, <1>14, <1>15

-----------------------------------------------------------------------------
(* The steps of a SocketHttp as steps of an HttpChannel *)

\* One request is added, or all is cancelled with it.
FetchStep(r, s, d) ==
    \/ Waiting(d) = Append(Waiting(s), r) /\ d.outcome = s.outcome
    \/ Waiting(d) = <<>> /\ d.outcome = Cancelling(s.outcome, Range(Waiting(s)) \cup {r})

\* The oldest is answered and some of the next are cancelled.
AnswersOldest(s, d) ==
    \E r \in Requests, a, b \in Seq(Requests) :
        /\ Waiting(s) = (<<r>> \o a) \o b /\ Waiting(d) = b
        /\ d.outcome = Cancelling([s.outcome EXCEPT ![r] = "answered"], Range(a))

Unseen(s, d) == Waiting(d) = Waiting(s) /\ d.outcome = s.outcome

LEMMA DeliverKeeps ==
    ASSUME NEW s, Good(s), s.recv = "response", s.reading
    PROVE  LET d == Deliver(s)
           IN  /\ d \in Socket /\ Told(d) /\ SendSide(d)
               /\ d.recvReq = NoRequest /\ d.wire = d.recvQueue /\ d.open = s.open
               /\ d.wire # <<>> => d.connected
               /\ d.lookups = s.lookups
               /\ s.recvReq \in Requests
               /\ Waiting(s) = <<s.recvReq>> \o Waiting(d)
               /\ d.outcome = [s.outcome EXCEPT ![s.recvReq] = "answered"]
<1> DEFINE d == Deliver(s)
           r == s.recvReq
           q == s.recvQueue
           u == One(s.sendReq)
           o == [s.outcome EXCEPT ![r] = "answered"]
<1>1. /\ s \in Socket /\ r \in Requests /\ q \in Seq(Requests) /\ s.wire = <<r>> \o q
      /\ s.queue \in Seq(Requests) /\ u \in Seq(Requests) /\ <<r>> \in Seq(Requests)
  BY OneType DEF Good, RecvSide, Socket
<1>2. Head(s.wire) = r /\ Tail(s.wire) = q /\ s.wire # <<>>
  BY <1>1, Unshift
<1>3. o \in [Requests -> {"none", "answered", "cancelled"}] /\ o \in [Requests -> Outcomes]
  BY <1>1 DEF Good, Told, Outcomes
<1>4. d = [s EXCEPT !.outcome = o, !.wire = q, !.recvReq = NoRequest]
  BY <1>1, <1>2 DEF Deliver, Socket
<1> HIDE DEF o
<1>5. /\ d \in Socket /\ d.outcome = o /\ d.wire = q /\ d.recvReq = NoRequest /\ d.recvQueue = q
      /\ d.send = s.send /\ d.sendReq = s.sendReq /\ d.queue = s.queue /\ d.writing = s.writing
      /\ d.open = s.open /\ d.connected = s.connected /\ d.lookups = s.lookups
  <2> HIDE DEF d
  <2>. QED  BY <1>1, <1>3, <1>4 DEF Socket
<1>6. Waiting(s) = <<r>> \o Waiting(d)
  <2>1. Waiting(s) = ((<<r>> \o q) \o u) \o s.queue
    BY <1>1, OneType DEF Waiting, OnTheWire
  <2>2. One(d.recvReq) = <<>> /\ <<>> \o q = q
    BY <1>1, <1>5, OneType, ConcatEmptySeq
  <2>3. Waiting(d) = (q \o u) \o s.queue
    BY <1>5, <2>2 DEF Waiting, OnTheWire
  <2>5. ((<<r>> \o q) \o u) \o s.queue = <<r>> \o ((q \o u) \o s.queue)
    <3>1. r \in Requests /\ q \in Seq(Requests) /\ u \in Seq(Requests) /\ s.queue \in Seq(Requests)
      BY <1>1
    <3>2. \A e \in Requests : \A x, y, z \in Seq(Requests) :
             ((<<e>> \o x) \o y) \o z = <<e>> \o ((x \o y) \o z)
      BY OldestFirst
    <3> HIDE DEF r, q, u
    <3>. QED  BY <3>1, <3>2
  <2>. QED  BY <2>1, <2>3, <2>5
<1>7. Told(d) /\ SendSide(d) /\ (d.wire # <<>> => d.connected)
  BY <1>2, <1>3, <1>5 DEF Good, Told, SendSide, RecvSide
<1>. QED  BY <1>1, <1>5, <1>6, <1>7 DEF o

\* The end of a response leaves the requests alone.
LEMMA RecvCompleteKeeps ==
    ASSUME NEW s \in Socket, Told(s), SendSide(s), s.recvReq = NoRequest,
           s.wire = s.recvQueue, s.wire # <<>> => s.connected, NEW closing \in BOOLEAN
    PROVE  LET d == RecvComplete(s, closing)
           IN  d \in Socket /\ Told(d) /\ SendSide(d) /\ RecvSide(d) /\ Unseen(s, d)
<1> DEFINE read == [s EXCEPT !.reading = FALSE, !.closing = FALSE]
           e == IF closing THEN TcpClose(read) ELSE read
           d == RecvComplete(s, closing)
<1>1. <<>> \in Seq(Requests)
  OBVIOUS
<1>2. /\ read \in Socket /\ read.outcome = s.outcome /\ read.wire = s.wire
      /\ read.recvReq = NoRequest /\ read.recvQueue = s.recvQueue /\ read.queue = s.queue
      /\ read.sendReq = s.sendReq /\ read.send = s.send /\ read.writing = s.writing
      /\ read.connected = s.connected
  BY DEF Socket
<1> HIDE DEF read
<1>3. /\ e \in Socket /\ e.outcome = s.outcome
      /\ e.recvReq = NoRequest /\ e.recvQueue = s.recvQueue /\ e.queue = s.queue
      /\ e.sendReq = s.sendReq /\ e.send = s.send /\ (e.writing => s.writing)
      /\ e.open => e.wire = e.recvQueue
      /\ e.recvQueue = <<>> => e.wire = <<>>
      /\ e.wire # <<>> => e.connected
  <2>1. CASE closing
    <3>1. e = TcpClose(read)
      BY <2>1
    <3> HIDE DEF e
    <3>. QED  BY <1>1, <1>2, <3>1 DEF TcpClose, Socket
  <2>2. CASE ~closing
    <3>1. e = read
      BY <2>2
    <3> HIDE DEF e
    <3>. QED  BY <1>2, <3>1
  <2>. QED  BY <2>1, <2>2
<1>4. d = RecvDequeue(e)
  BY DEF RecvComplete, read
<1> HIDE DEF d, e
<1>5. /\ d \in Socket /\ RecvSide(d) /\ Waiting(d) = Waiting(e)
      /\ d.outcome = e.outcome /\ d.send = e.send /\ d.sendReq = e.sendReq
      /\ d.queue = e.queue /\ d.writing = e.writing
  BY <1>3, <1>4, RecvDequeueKeeps
<1>6. Waiting(e) = Waiting(s)
  BY <1>3 DEF Waiting, OnTheWire
<1>. QED  BY <1>3, <1>5, <1>6 DEF d, Told, SendSide, Unseen

\* What the channel sees of a step
Step(s, d) ==
    \/ \E r \in Requests :
          s.outcome[r] = "none" /\ r \notin Range(Waiting(s)) /\ FetchStep(r, s, d)
    \/ CancelsOldest(s, d)
    \/ AnswersOldest(s, d)
    \/ Unseen(s, d)

\* A machine that is left well has every request once.
Well(d) == d \in Socket /\ Told(d) /\ SendSide(d) /\ RecvSide(d)

LEMMA StepKeepsOnce ==
    ASSUME NEW s, Good(s), NEW d, Well(d), Step(s, d)
    PROVE  Good(d)
<1> DEFINE w == Waiting(s)
<1>1. w \in Seq(Requests) /\ Once(w)
  BY WaitingType DEF Good
<1>2. ASSUME NEW r \in Requests, r \notin Range(w), FetchStep(r, s, d) PROVE Once(Waiting(d))
  <2>1. CASE Waiting(d) = Append(w, r)
    <3> DEFINE v == Append(w, r)
    <3>1. /\ Len(v) = Len(w) + 1 /\ Len(w) \in Nat /\ v[Len(w) + 1] = r
          /\ \A i \in 1 .. Len(w) : v[i] = w[i] /\ w[i] \in Range(w)
      BY <1>1, AppendProperties, RangeEquality
    <3>2. \A i \in 1 .. Len(v) : i \in 1 .. Len(w) \/ i = Len(w) + 1
      BY <3>1
    <3> HIDE DEF v, w
    <3>3. Once(v)
      BY <1>1, <1>2, <3>1, <3>2 DEF Once
    <3>. QED  BY <2>1, <3>3 DEF v, w
  <2>2. CASE Waiting(d) = <<>>
    BY <2>2 DEF Once
  <2>. QED  BY <1>2, <2>1, <2>2 DEF FetchStep
<1>3. ASSUME CancelsOldest(s, d) PROVE Once(Waiting(d))
  BY <1>1, <1>3, OnceBehind DEF CancelsOldest
<1>4. ASSUME AnswersOldest(s, d) PROVE Once(Waiting(d))
  <2>1. PICK r \in Requests, a \in Seq(Requests), b \in Seq(Requests) :
            w = (<<r>> \o a) \o b /\ Waiting(d) = b
    BY <1>4 DEF AnswersOldest
  <2>2. <<r>> \o a \in Seq(Requests)
    BY ConcatProperties
  <2>. QED  BY <1>1, <2>1, <2>2, OnceBehind
<1>5. ASSUME Unseen(s, d) PROVE Once(Waiting(d))
  BY <1>1, <1>5 DEF Unseen
<1>. QED  BY <1>2, <1>3, <1>4, <1>5 DEF Step, Well, Good

LEMMA CloseStep ==
    ASSUME NEW s, Good(s), s.lookups < MaxLookups
    PROVE  Well(Close(s)) /\ Step(s, Close(s))
BY CloseKeeps DEF Good, Well, Step

LEMMA FetchKeeps ==
    ASSUME NEW r \in Requests, IInv, Fetch(r)
    PROVE  Well(socket') /\ Step(socket, socket')
<1> DEFINE s == socket
           m == [s EXCEPT !.queue = Append(@, r)]
           d == socket'
<1>1. Good(s) /\ s \in Socket /\ s.outcome[r] = "none" /\ r \notin Range(Waiting(s)) /\ s.lookups < MaxLookups
  BY DEF IInv, Good, Fetch, New
<1>2. d = IF s.send = "dequeue" THEN SendDequeue(m) ELSE m
  BY DEF Fetch
<1>3. /\ m \in Socket /\ m.queue = Append(s.queue, r) /\ m.send = s.send /\ m.sendReq = s.sendReq
      /\ m.recv = s.recv /\ m.recvReq = s.recvReq /\ m.recvQueue = s.recvQueue
      /\ m.writing = s.writing /\ m.outcome = s.outcome /\ m.lookups = s.lookups
      /\ SameReceiver(s, m)
  BY <1>1, AppendProperties DEF Socket, SameReceiver
<1>4. Waiting(m) = Append(Waiting(s), r)
  <2>1. OnTheWire(m) = OnTheWire(s)
    BY <1>3 DEF OnTheWire
  <2>2. /\ Waiting(s) = OnTheWire(s) \o s.queue /\ Waiting(m) = OnTheWire(m) \o m.queue
        /\ OnTheWire(s) \in Seq(Requests) /\ s.queue \in Seq(Requests)
    BY <1>1, <1>3, WaitingType
  <2>. QED  BY <1>3, <2>1, <2>2, Behind
<1> HIDE DEF m, d
<1>5. CASE s.send # "dequeue"
  <2>1. d = m
    BY <1>2, <1>5
  <2>2. Well(m)
    BY <1>1, <1>3, <1>5 DEF Good, Well, Told, SendSide, RecvSide, SameReceiver
  <2>3. FetchStep(r, s, m)
    BY <1>3, <1>4 DEF FetchStep
  <2>. QED  BY <1>1, <2>1, <2>2, <2>3 DEF d, Step
<1>6. CASE s.send = "dequeue"
  <2>1. Told(m) /\ m.sendReq = NoRequest /\ ~m.writing /\ m.lookups < MaxLookups
    BY <1>1, <1>3, <1>6 DEF Good, Told, SendSide
  <2>2. /\ d \in Socket /\ Told(d) /\ SendSide(d) /\ SameReceiver(m, d)
        /\ TakesNext(m, d) \/ GivesUp(m, d)
    BY <1>2, <1>3, <1>6, <2>1, SendDequeueKeeps
  <2>3. RecvSide(m)
    BY <1>1, <1>3 DEF Good, RecvSide, SameReceiver
  <2>4. CASE TakesNext(m, d)
    <3>1. RecvSide(d)
      BY <2>2, <2>3, <2>4 DEF RecvSide, SameReceiver, TakesNext
    <3>2. FetchStep(r, s, d)
      BY <1>3, <1>4, <2>4 DEF TakesNext, FetchStep
    <3>. QED  BY <1>1, <2>2, <3>1, <3>2 DEF d, Well, Step
  <2>5. CASE GivesUp(m, d)
    <3>1. RecvSide(d)
      BY <2>2, <2>3, <2>5 DEF RecvSide, SameReceiver, GivesUp
    <3>2. Range(Waiting(m)) = Range(Waiting(s)) \cup {r}
      <4>1. Waiting(s) \in Seq(Requests) /\ <<r>> \in Seq(Requests)
        BY <1>1, WaitingType
      <4>2. Waiting(m) = Waiting(s) \o <<r>>
        BY <1>4, <4>1, AppendIsConcat
      <4>3. Range(<<r>>) = {r}
        <5>1. Range(<<r>>) = {<<r>>[i] : i \in 1 .. Len(<<r>>)}
          BY <4>1, RangeEquality
        <5>2. 1 .. Len(<<r>>) = {1} /\ <<r>>[1] = r
          OBVIOUS
        <5>. QED  BY <5>1, <5>2
      <4>4. \A a, b \in Seq(Requests) : Range(a \o b) = Range(a) \cup Range(b)
        BY RangeConcatenation
      <4>5. Range(Waiting(s) \o <<r>>) = Range(Waiting(s)) \cup Range(<<r>>)
        BY <4>1, <4>4
      <4>. QED  BY <4>2, <4>3, <4>5
    <3>3. FetchStep(r, s, d)
      BY <1>3, <2>5, <3>2 DEF GivesUp, FetchStep
    <3>. QED  BY <1>1, <2>2, <3>1, <3>3 DEF d, Well, Step
  <2>. QED  BY <2>2, <2>4, <2>5
<1>. QED  BY <1>5, <1>6

LEMMA LookupKeeps ==
    ASSUME IInv, NEW found \in BOOLEAN, LookupDone(found)
    PROVE  Well(socket') /\ Step(socket, socket')
<1> DEFINE s == socket
           m == [s EXCEPT !.lookups = @ - 1]
           d == socket'
<1>1. Good(s) /\ s \in Socket /\ s.lookups > 0 /\ s.lookups \in 0 .. MaxLookups
  BY DEF IInv, Good, LookupDone, Socket
<1>2. s.lookups - 1 \in 0 .. MaxLookups /\ s.lookups - 1 < MaxLookups
  BY <1>1, BoundsAssumption
<1>3. /\ m \in Socket /\ m.queue = s.queue /\ m.send = s.send /\ m.sendReq = s.sendReq
      /\ m.recv = s.recv /\ m.recvReq = s.recvReq /\ m.recvQueue = s.recvQueue
      /\ m.writing = s.writing /\ m.outcome = s.outcome /\ m.lookups < MaxLookups
      /\ SameReceiver(s, m)
  BY <1>1, <1>2 DEF Socket, SameReceiver
<1> HIDE DEF m
<1>4. Waiting(m) = Waiting(s) /\ Well(m) /\ Good(m)
  BY <1>1, <1>3 DEF Waiting, OnTheWire, Good, Well, Told, SendSide, RecvSide, SameReceiver
<1>5. ASSUME Well(Close(m)), d = Close(m) PROVE Well(d) /\ Step(s, d)
  <2>1. CancelsOldest(m, Close(m))
    BY <1>3, <1>4, CloseKeeps DEF Well
  <2>2. CancelsOldest(s, d)
    BY <1>3, <1>4, <1>5, <2>1 DEF CancelsOldest
  <2>. QED  BY <1>5, <2>2 DEF Step
<1>6. Well(Close(m))
  BY <1>3, <1>4, CloseStep
<1>7. CASE m.send # "resolve"
  <2>1. d = m
    BY <1>7 DEF LookupDone, m
  <2>. QED  BY <1>3, <1>4, <2>1 DEF Step, Unseen
<1>8. CASE m.send = "resolve" /\ found /\ netUp
  <2>1. d = SendRequest([m EXCEPT !.open = TRUE])
    BY <1>8 DEF LookupDone, SendConnect, m
  <2> HIDE DEF d
  <2>2. /\ d \in Socket /\ d.queue = m.queue /\ d.send = "request" /\ d.sendReq = m.sendReq
        /\ d.recv = m.recv /\ d.recvReq = m.recvReq /\ d.recvQueue = m.recvQueue
        /\ d.outcome = m.outcome /\ SameReceiver(m, d)
    BY <1>3, <2>1 DEF SendRequest, Socket, SameReceiver
  <2>3. Waiting(d) = Waiting(m) /\ Well(d)
    BY <1>4, <1>8, <2>2 DEF Waiting, OnTheWire, Well, Told, SendSide, RecvSide, SameReceiver
  <2>. QED  BY <1>3, <1>4, <2>2, <2>3 DEF d, Step, Unseen
<1>9. CASE m.send = "resolve" /\ ~(found /\ netUp)
  <2>1. d = Close(m)
    BY <1>9 DEF LookupDone, SendConnect, m
  <2>. QED  BY <1>5, <1>6, <2>1
<1>. QED  BY <1>7, <1>8, <1>9

LEMMA SendCompleteKeeps ==
    ASSUME IInv, SendComplete
    PROVE  Well(socket') /\ Step(socket, socket')
<1> DEFINE s == socket
           x == s.sendReq
           q == s.recvQueue
           m == [s EXCEPT !.connected = TRUE, !.writing = FALSE, !.wire = Append(@, x),
                          !.recvQueue = Append(@, x), !.sendReq = NoRequest]
           n == SendDequeue(m)
           d == socket'
<1>1. Good(s) /\ s \in Socket /\ s.writing
  BY DEF IInv, Good, SendComplete
<1>2. x \in Requests /\ q \in Seq(Requests) /\ s.wire \in Seq(Requests)
  BY <1>1 DEF Good, SendSide, Socket
<1>3. Append(q, x) \in Seq(Requests) /\ Append(s.wire, x) \in Seq(Requests) /\ Append(q, x) # <<>>
  BY <1>2, AppendProperties
<1>4. d = IF s.recv = "dequeue" THEN RecvDequeue(n) ELSE n
  BY DEF SendComplete
<1>5. /\ m \in Socket /\ m.queue = s.queue /\ m.sendReq = NoRequest
      /\ m.recv = s.recv /\ m.recvReq = s.recvReq /\ m.recvQueue = Append(q, x)
      /\ ~m.writing /\ m.outcome = s.outcome /\ m.wire = Append(s.wire, x)
      /\ m.connected /\ m.reading = s.reading
  <2> HIDE DEF x
  <2>. QED  BY <1>1, <1>3 DEF Socket
<1>6. Waiting(m) = Waiting(s)
  <2> DEFINE a == One(s.recvReq)
  <2>1. a \in Seq(Requests) /\ One(x) = <<x>> /\ One(NoRequest) = <<>>
    BY <1>1, <1>2, OneType DEF Socket
  <2>2. a \o Append(q, x) = (a \o q) \o <<x>>
    <3>1. a \o q \in Seq(Requests)
      BY <1>2, <2>1, ConcatProperties
    <3>2. Append(a \o q, x) = a \o Append(q, x) /\ Append(a \o q, x) = (a \o q) \o <<x>>
      <4> HIDE DEF a, q, x
      <4>. QED  BY <1>2, <2>1, <3>1, Behind, AppendIsConcat
    <3>. QED  BY <3>2
  <2>3. (a \o Append(q, x)) \o <<>> = a \o Append(q, x)
    <3>1. \A u \in Seq(Requests) : u \o <<>> = u
      BY ConcatEmptySeq
    <3>2. a \o Append(q, x) \in Seq(Requests)
      BY <1>3, <2>1, ConcatProperties
    <3>. QED  BY <3>1, <3>2
  <2>4. Waiting(m) = ((a \o Append(q, x)) \o <<>>) \o s.queue
    <3> HIDE DEF m
    <3>. QED  BY <1>5, <2>1 DEF Waiting, OnTheWire
  <2>5. Waiting(s) = ((a \o q) \o <<x>>) \o s.queue
    BY <2>1 DEF Waiting, OnTheWire
  <2>. QED  BY <2>2, <2>3, <2>4, <2>5
<1> HIDE DEF m, n, d
<1>7. /\ n \in Socket /\ Told(n) /\ SendSide(n) /\ SameReceiver(m, n) /\ TakesNext(m, n)
  <2>1. Told(m)
    BY <1>1, <1>5 DEF Good, Told
  <2>2. TakesNext(m, n) \/ GivesUp(m, n)
    BY <1>5, <2>1, SendDequeueKeeps DEF n
  <2>3. TakesNext(m, n)
    BY <1>5, <2>2 DEF GivesUp
  <2>. QED  BY <1>5, <2>1, <2>3, SendDequeueKeeps DEF n
<1>8. /\ n.recv = s.recv /\ n.recvReq = s.recvReq /\ n.recvQueue = Append(q, x)
      /\ n.wire = Append(s.wire, x) /\ n.connected /\ n.reading = s.reading
      /\ n.outcome = s.outcome /\ Waiting(n) = Waiting(s)
  BY <1>5, <1>6, <1>7 DEF SameReceiver, TakesNext
<1>9. CASE s.recv = "dequeue"
  <2>1. s.recvReq = NoRequest /\ q = <<>> /\ s.wire = <<>>
    BY <1>1, <1>9 DEF Good, RecvSide
  <2>2. n.wire = n.recvQueue /\ n.recvQueue # <<>>
    BY <1>3, <1>8, <2>1
  <2>3. /\ d \in Socket /\ RecvSide(d) /\ Waiting(d) = Waiting(n)
        /\ d.outcome = n.outcome /\ d.send = n.send /\ d.sendReq = n.sendReq
        /\ d.queue = n.queue /\ d.writing = n.writing
    BY <1>4, <1>7, <1>8, <1>9, <2>1, <2>2, RecvDequeueKeeps
  <2>4. Well(d)
    BY <1>7, <2>3 DEF Well, Told, SendSide
  <2>. QED  BY <1>8, <2>3, <2>4 DEF d, Step, Unseen
<1>10. CASE s.recv # "dequeue"
  <2>1. d = n
    BY <1>4, <1>10
  <2>2. s.recvReq \in Requests /\ (s.reading => s.wire = <<s.recvReq>> \o q)
    BY <1>1, <1>10 DEF Good, RecvSide, Socket
  <2>3. s.reading => n.wire = <<n.recvReq>> \o n.recvQueue
    <3>1. <<s.recvReq>> \in Seq(Requests)
      BY <2>2
    <3>2. Append(<<s.recvReq>> \o q, x) = <<s.recvReq>> \o Append(q, x)
      <4> DEFINE a == <<s.recvReq>>
      <4>1. a \in Seq(Requests)
        BY <3>1
      <4>2. Append(a \o q, x) = a \o Append(q, x)
        <5> HIDE DEF a, q, x
        <5>. QED  BY <1>2, <4>1, Behind
      <4>. QED  BY <4>2
    <3>. QED  BY <1>8, <2>2, <3>2
  <2>4. RecvSide(n)
    BY <1>8, <1>10, <2>2, <2>3, NoRequestAssumption DEF RecvSide
  <2>. QED  BY <1>7, <1>8, <2>1, <2>4 DEF d, Well, Step, Unseen
<1>. QED  BY <1>9, <1>10

LEMMA ReadHeadersKeeps ==
    ASSUME IInv, NEW closing \in BOOLEAN, ReadHeaders(closing)
    PROVE  Well(socket') /\ Step(socket, socket')
<1> DEFINE d == socket'
<1>1. Good(socket) /\ socket \in Socket /\ socket.recv = "headers"
  BY DEF IInv, Good, ReadHeaders
<1>2. d = [socket EXCEPT !.connected = TRUE, !.recv = "response", !.closing = closing]
  BY DEF ReadHeaders
<1> HIDE DEF d
<1>3. /\ d \in Socket /\ d.queue = socket.queue /\ d.send = socket.send /\ d.sendReq = socket.sendReq
      /\ d.recv = "response" /\ d.recvReq = socket.recvReq /\ d.recvQueue = socket.recvQueue
      /\ d.writing = socket.writing /\ d.outcome = socket.outcome /\ d.connected
      /\ d.wire = socket.wire /\ d.reading = socket.reading
  BY <1>1, <1>2 DEF Socket
<1>4. Waiting(d) = Waiting(socket) /\ Well(d)
  BY <1>1, <1>3 DEF Waiting, OnTheWire, Good, Well, Told, SendSide, RecvSide
<1>. QED  BY <1>3, <1>4 DEF d, Step, Unseen

LEMMA ReadBodyKeeps ==
    ASSUME IInv, ReadBody
    PROVE  Well(socket') /\ Step(socket, socket')
<1> DEFINE s == socket
           r == s.recvReq
           m == Deliver(s)
           d == socket'
<1>1. Good(s) /\ s.recv = "response" /\ s.reading /\ s.closing \in BOOLEAN /\ d = RecvComplete(m, s.closing)
  BY DEF IInv, ReadBody, Good, Socket
<1> HIDE DEF m, d
<1>2. /\ m \in Socket /\ Told(m) /\ SendSide(m)
      /\ m.recvReq = NoRequest /\ m.wire = m.recvQueue /\ (m.wire # <<>> => m.connected)
      /\ r \in Requests
      /\ Waiting(s) = <<r>> \o Waiting(m)
      /\ m.outcome = [s.outcome EXCEPT ![r] = "answered"]
  BY <1>1, DeliverKeeps DEF m
<1>3. Well(d) /\ Unseen(m, d)
  BY <1>1, <1>2, RecvCompleteKeeps DEF Well
<1>4. AnswersOldest(s, d)
  <2>1. Waiting(m) \in Seq(Requests) /\ Waiting(d) = Waiting(m) /\ d.outcome = m.outcome
    BY <1>2, <1>3, WaitingType DEF Unseen
  <2>2. <<r>> \o <<>> = <<r>> /\ <<>> \in Seq(Requests)
    BY <1>2, ConcatEmptySeq
  <2>3. Range(<<>>) = {}
    BY DEF Range
  <2>4. Cancelling(m.outcome, Range(<<>>)) = m.outcome
    BY <1>2, <2>3 DEF Cancelling, Socket
  <2>5. Waiting(s) = (<<r>> \o <<>>) \o Waiting(d)
    BY <1>2, <2>1, <2>2
  <2>6. d.outcome = Cancelling([s.outcome EXCEPT ![r] = "answered"], Range(<<>>))
    BY <1>2, <2>1, <2>4
  <2> DEFINE b == Waiting(d)
  <2>7. b \in Seq(Requests)
    BY <2>1
  <2>. QED  BY <1>2, <2>2, <2>5, <2>6, <2>7 DEF AnswersOldest
<1>. QED  BY <1>3, <1>4 DEF d, Step

LEMMA ReadBodyAndCloseKeeps ==
    ASSUME IInv, ReadBodyAndClose
    PROVE  Well(socket') /\ Step(socket, socket')
<1> DEFINE s == socket
           r == s.recvReq
           m == Deliver(s)
           c == Close(m)
           d == socket'
<1>1. /\ Good(s) /\ s.recv = "response" /\ s.reading /\ s.closing \in BOOLEAN
      /\ s.lookups < MaxLookups /\ d = RecvComplete(c, s.closing)
  BY DEF IInv, ReadBodyAndClose, Good, Socket
<1> HIDE DEF m, c, d
<1>2. /\ m \in Socket /\ Told(m) /\ m.lookups = s.lookups
      /\ r \in Requests
      /\ Waiting(s) = <<r>> \o Waiting(m)
      /\ m.outcome = [s.outcome EXCEPT ![r] = "answered"]
  BY <1>1, DeliverKeeps DEF m
<1>3. /\ c \in Socket /\ Told(c) /\ SendSide(c) /\ CancelsOldest(m, c)
      /\ c.recvReq = NoRequest /\ c.recvQueue = <<>> /\ c.wire = <<>>
  BY <1>1, <1>2, CloseKeeps DEF c
<1>4. Well(d) /\ Unseen(c, d)
  BY <1>1, <1>3, RecvCompleteKeeps DEF Well
<1>5. PICK a \in Seq(Requests), b \in Seq(Requests) :
          /\ Waiting(m) = a \o b /\ Waiting(c) = b
          /\ c.outcome = Cancelling(m.outcome, Range(a))
  BY <1>3 DEF CancelsOldest
<1>6. Waiting(s) = (<<r>> \o a) \o b
  <2>1. \A x, y, z \in Seq(Requests) : (x \o y) \o z = x \o (y \o z)
    BY SMTT(60), ConcatAssociative
  <2>2. <<r>> \in Seq(Requests)
    BY <1>2
  <2>. QED  BY <1>2, <1>5, <2>1, <2>2
<1>7. AnswersOldest(s, d)
  BY <1>2, <1>4, <1>5, <1>6 DEF AnswersOldest, Unseen
<1>. QED  BY <1>4, <1>7 DEF d, Step

LEMMA InitGood == Init => IInv
<1>1. SUFFICES ASSUME Init PROVE IInv
  OBVIOUS
<1>2. PICK ip \in BOOLEAN :
         socket = [ isIp |-> ip, send |-> "dequeue", recv |-> "dequeue",
                  queue |-> <<>>, sendReq |-> NoRequest,
                  recvQueue |-> <<>>, recvReq |-> NoRequest,
                  connected |-> FALSE, open |-> FALSE,
                  reading |-> FALSE, writing |-> FALSE,
                  lookups |-> 0, wire |-> <<>>, closing |-> FALSE,
                  outcome |-> [r \in Requests |-> "none"] ]
  BY <1>1 DEF Init
<1>3. <<>> \in Seq(Requests) /\ 0 \in 0 .. MaxLookups /\ 0 \in 0 .. MaxFaults
  BY BoundsAssumption
<1>4. socket \in Socket
  BY <1>2, <1>3 DEF Socket, Outcomes
<1>5. Told(socket) /\ SendSide(socket) /\ RecvSide(socket)
  BY <1>2 DEF Told, SendSide, RecvSide
<1>6. Waiting(socket) = <<>>
  BY <1>2, OneType DEF Waiting, OnTheWire
<1>7. Once(Waiting(socket))
  BY <1>6 DEF Once
<1>. QED  BY <1>1, <1>3, <1>4, <1>5, <1>7 DEF Init, IInv, Good

\* What every action does, seen from the channel
LEMMA ActionKeeps ==
    ASSUME IInv, Next
    PROVE  /\ Well(socket') \/ UNCHANGED socket
           /\ Step(socket, socket')
           /\ netUp' \in BOOLEAN /\ faults' \in 0 .. MaxFaults
<1> DEFINE Rest == netUp' \in BOOLEAN /\ faults' \in 0 .. MaxFaults
<1>1. Good(socket) /\ netUp \in BOOLEAN /\ faults \in 0 .. MaxFaults /\ socket \in Socket
  BY DEF IInv, Good
<1>2. Fault => faults' \in 0 .. MaxFaults
  BY <1>1, BoundsAssumption DEF Fault
<1>3. CASE \E r \in Requests : Fetch(r)
  BY <1>1, <1>3, FetchKeeps DEF Fetch
<1>4. CASE OwnerClose
  BY <1>1, <1>2, <1>4, CloseStep DEF OwnerClose
<1>5. CASE LookupSucceeds \/ LookupFails
  BY <1>1, <1>2, <1>5, LookupKeeps DEF LookupSucceeds, LookupFails, LookupDone
<1>6. CASE SendComplete
  BY <1>1, <1>6, SendCompleteKeeps DEF SendComplete
<1>7. CASE \E closing \in BOOLEAN : ReadHeaders(closing)
  BY <1>1, <1>7, ReadHeadersKeeps DEF ReadHeaders
<1>8. CASE ReadBody
  BY <1>1, <1>8, ReadBodyKeeps DEF ReadBody
<1>9. CASE ReadBodyAndClose
  BY <1>1, <1>2, <1>9, ReadBodyAndCloseKeeps DEF ReadBodyAndClose
<1>10. CASE ConnectionFails
  BY <1>1, <1>2, <1>10, CloseStep DEF ConnectionFails
<1>11. CASE NetworkChanges
  <2>1. Unseen(socket, socket')
    BY <1>11 DEF NetworkChanges, Unseen
  <2>. QED  BY <1>1, <1>2, <1>11, <2>1 DEF NetworkChanges, Step
<1>. QED  BY <1>3, <1>4, <1>5, <1>6, <1>7, <1>8, <1>9, <1>10, <1>11 DEF Next

LEMMA StepGood == IInv /\ [Next]_vars => IInv'
<1>1. SUFFICES ASSUME IInv, [Next]_vars PROVE IInv'
  OBVIOUS
<1>2. CASE Next
  <2>1. Good(socket')
    BY <1>1, <1>2, ActionKeeps, StepKeepsOnce DEF IInv
  <2>. QED  BY <1>1, <1>2, <2>1, ActionKeeps DEF IInv
<1>3. CASE UNCHANGED vars
  BY <1>1, <1>3 DEF vars, IInv
<1>. QED  BY <1>1, <1>2, <1>3

LEMMA Inductive == Spec => []IInv
<1>. QED  BY InitGood, StepGood, PTL DEF Spec

LEMMA SameRange == \A w : Channel!Range(w) = Range(w)
BY DEF Range, Channel!Range

\* Each of these is a step of the abstract channel.
LEMMA ChannelStep ==
    ASSUME IInv, Step(socket, socket')
    PROVE  [Channel!Next]_(Channel!vars)
<1> DEFINE s == socket
           d == socket'
           w == Waiting(socket)
<1>1. w \in Seq(Requests) /\ Once(w) /\ s.outcome \in [Requests -> Outcomes]
  BY WaitingType DEF IInv, Good, Socket
<1>2. ASSUME NEW r \in Requests, s.outcome[r] = "none", r \notin Range(w), FetchStep(r, s, d)
      PROVE  Channel!Fetch(r) \/ Channel!FetchFails(r)
  BY <1>2, SameRange DEF FetchStep, Channel!Fetch, Channel!FetchFails, Channel!New, Channel!CancelAll, Cancelling
<1>3. ASSUME CancelsOldest(s, d) PROVE Channel!Cancel \/ UNCHANGED Channel!vars
  <2>1. PICK a \in Seq(Requests), b \in Seq(Requests) :
           w = a \o b /\ Waiting(d) = b /\ d.outcome = Cancelling(s.outcome, Range(a))
    BY <1>3 DEF CancelsOldest
  <2>2. /\ SubSeq(w, 1, Len(a)) = a /\ SubSeq(w, Len(a) + 1, Len(w)) = b
        /\ Len(w) = Len(a) + Len(b) /\ Len(a) \in Nat /\ Len(b) \in Nat
    BY <2>1, Split, Parts
  <2>3. CASE a = <<>>
    <3>1. Waiting(d) = w
      <4>1. <<>> \o b = b
        BY ConcatEmptySeq
      <4>. QED  BY <2>1, <2>3, <4>1
    <3>2. d.outcome = s.outcome
      <4>1. Range(a) = {}
        BY <2>3 DEF Range
      <4>. QED  BY <1>1, <2>1, <4>1 DEF Cancelling
    <3>. QED  BY <3>1, <3>2 DEF Channel!vars
  <2>4. CASE a # <<>>
    <3>1. Len(a) \in 1 .. Len(w)
      BY <2>2, <2>4
    <3>. QED  BY <2>1, <2>2, <3>1, SameRange DEF Channel!Cancel, Channel!CancelAll, Cancelling
  <2>. QED  BY <2>3, <2>4
<1>4. ASSUME AnswersOldest(s, d) PROVE Channel!Answer
  <2>1. PICK r \in Requests, a \in Seq(Requests), b \in Seq(Requests) :
           /\ w = (<<r>> \o a) \o b /\ Waiting(d) = b
           /\ d.outcome = Cancelling([s.outcome EXCEPT ![r] = "answered"], Range(a))
    BY <1>4 DEF AnswersOldest
  <2> DEFINE n == Len(<<r>> \o a)
  <2>2. <<r>> \o a \in Seq(Requests) /\ n = 1 + Len(a) /\ Len(a) \in Nat /\ <<r>> \in Seq(Requests)
    <3>1. <<r>> \in Seq(Requests) /\ Len(<<r>>) = 1
      OBVIOUS
    <3>. QED  BY <3>1, Parts
  <2>3. /\ SubSeq(w, n + 1, Len(w)) = b
        /\ Len(w) = n + Len(b) /\ Len(b) \in Nat
    BY <2>1, <2>2, Split, Parts
  <2>4. w = <<r>> \o (a \o b) /\ a \o b \in Seq(Requests)
    <3>1. (<<r>> \o a) \o b = <<r>> \o (a \o b)
      <4>1. \A x \in Seq(Requests) : (x \o a) \o b = x \o (a \o b)
        BY Grouped
      <4>. QED  BY <2>2, <4>1
    <3>. QED  BY <2>1, <3>1, ConcatProperties
  <2>5. Head(w) = r /\ Tail(w) = a \o b /\ w # <<>>
    BY <2>4, Unshift
  <2>6. SubSeq(w, 2, n) = a
    <3> DEFINE u == SubSeq(w, 2, n)
    <3>1. /\ Len(w) = 1 + (Len(a) + Len(b))
          /\ \A i \in 1 .. Len(a) : w[i + 1] = a[i]
      <4>1. Len(w) = n + Len(b)
        BY <2>3
      <4>2. \A i \in 1 .. n : w[i] = (<<r>> \o a)[i]
        BY <2>1, <2>2, Parts
      <4>3. \A i \in 1 .. Len(a) : (<<r>> \o a)[1 + i] = a[i]
        <5>1. Len(<<r>>) = 1
          OBVIOUS
        <5>. QED  BY <2>2, <5>1, Parts
      <4>4. \A i \in 1 .. Len(a) : i + 1 \in 1 .. n /\ i + 1 = 1 + i
        BY <2>2
      <4>5. ASSUME NEW i \in 1 .. Len(a) PROVE w[i + 1] = a[i]
        <5>1. w[i + 1] = (<<r>> \o a)[i + 1]
          BY <4>2, <4>4
        <5>2. (<<r>> \o a)[i + 1] = a[i]
          BY <4>3, <4>4
        <5>. QED  BY <5>1, <5>2
      <4>6. Len(w) = 1 + (Len(a) + Len(b))
        BY <2>2, <2>3, <4>1
      <4>. QED  BY <4>5, <4>6
    <3>2. \A i \in 2 .. n : w[i] \in Requests
      BY <1>1, <2>2, <2>3
    <3>3. /\ u \in Seq(Requests)
          /\ Len(u) = IF 2 <= n THEN n - 2 + 1 ELSE 0
          /\ \A i \in 1 .. n - 2 + 1 : u[i] = w[2 + i - 1]
      <4> HIDE DEF n, w
      <4>. QED  BY <2>2, <3>2, SubSeqProperties
    <3> HIDE DEF u
    <3>4. Len(u) = Len(a) /\ \A i \in 1 .. Len(u) : u[i] = a[i]
      <4> HIDE DEF n, w
      <4>. QED  BY <2>2, <3>1, <3>3
    <3>5. u = a
      BY <3>3, <3>4, SeqEqual
    <3>. QED  BY <3>5 DEF u
  <2>7. r \notin Range(a)
    <3>1. Once(<<r>> \o a)
      BY <1>1, <2>1, <2>2, <2>3, Parts DEF Once
    <3>2. \A i \in 1 .. Len(<<r>>), j \in 1 .. Len(a) : <<r>>[i] # a[j]
      BY <2>2, <3>1, OnceBehind
    <3>3. \A j \in 1 .. Len(a) : r # a[j]
      <4>1. 1 \in 1 .. Len(<<r>>) /\ <<r>>[1] = r
        OBVIOUS
      <4>. QED  BY <3>2, <4>1
    <3>. QED  BY <3>3, RangeEquality
  <2>8. n \in 1 .. Len(w)
    BY <2>2, <2>3
  <2>9. d.outcome = [x \in Requests |-> IF x = Head(w) THEN "answered"
                                        ELSE IF x \in Range(SubSeq(w, 2, n)) THEN "cancelled"
                                        ELSE s.outcome[x]]
    <3>1. d.outcome = [x \in Requests |-> IF x \in Range(a) THEN "cancelled"
                                          ELSE [s.outcome EXCEPT ![r] = "answered"][x]]
      BY <2>1 DEF Cancelling
    <3>2. \A x \in Requests : [s.outcome EXCEPT ![r] = "answered"][x] = IF x = r THEN "answered" ELSE s.outcome[x]
      BY <1>1
    <3> HIDE DEF n, w
    <3>. QED  BY <2>5, <2>6, <2>7, <3>1, <3>2
  <2>. QED  BY <2>1, <2>3, <2>8, <2>9, SameRange DEF Channel!Answer
<1>5. ASSUME Unseen(s, d) PROVE UNCHANGED Channel!vars
  BY <1>5 DEF Unseen, Channel!vars
<1>. QED  BY <1>2, <1>3, <1>4, <1>5 DEF Step, Channel!Next

-----------------------------------------------------------------------------
(* The theorems *)

\* The machines keep to their types, however their methods call each other, and no
\* answer ever goes to another request than its own (SocketHttp.lua, t_rcvResponse).
THEOREM SocketSound == Spec => [](TypeOK /\ \A r \in Requests : socket.outcome[r] # "mixed")
<1>1. IInv => TypeOK /\ \A r \in Requests : socket.outcome[r] # "mixed"
  BY DEF IInv, Good, Told, TypeOK
<1>. QED  BY <1>1, Inductive, PTL

\* A SocketHttp is an HttpChannel: requests get their outcome in the order of the
\* calls of fetch, each at most once, and every answer goes to its own request
\* (SocketHttp.lua and HttpChannel.tla).
THEOREM ChannelImplemented == Spec => RefinesChannel
<1>1. Init => Channel!Init
  <2>1. SUFFICES ASSUME Init PROVE Channel!Init
    OBVIOUS
  <2>2. Waiting(socket) = <<>> /\ socket.outcome = [r \in Requests |-> "none"]
    BY <2>1, OneType DEF Init, Waiting, OnTheWire
  <2>. QED  BY <2>2 DEF Channel!Init
<1>2. IInv /\ [Next]_vars => [Channel!Next]_(Channel!vars)
  <2>1. SUFFICES ASSUME IInv, [Next]_vars PROVE [Channel!Next]_(Channel!vars)
    OBVIOUS
  <2>2. CASE Next
    BY <2>1, <2>2, ActionKeeps, ChannelStep
  <2>3. CASE UNCHANGED vars
    BY <2>3 DEF vars, Channel!vars
  <2>. QED  BY <2>1, <2>2, <2>3
<1>. QED  BY <1>1, <1>2, Inductive, PTL DEF Spec, RefinesChannel, Channel!Spec

-----------------------------------------------------------------------------
(* Lookups: what the thread writes and the main thread reads *)

\* The answers that are told
Told_ == {D!Error(e) : e \in D!Errors} \cup {D!Found(n) : n \in Names}

Answer == [error : Text, name : Seq(Text), alias : Seq(Text), ip : Seq(Text)]

\* What the thread writes for an answer
Written(a) == IF a.error # D!Empty THEN <<a.error>> ELSE D!Strings(a)

\* The empty string is no error.
LEMMA EmptyFacts == D!Empty \in Text /\ D!Empty \notin D!Errors /\ D!Errors \in SUBSET Text
<1>1. D!Empty \in Text /\ D!Errors \in SUBSET Text
  BY LookupsAssumption DEF D!NamesAssumption
<1>2. D!Empty # "Not found" /\ D!Empty # "Try again"
  BY DEF D!Empty
<1>3. D!Empty \notin D!Errors
  BY <1>2, Zenon DEF D!Errors, D!Repeated
<1>. QED  BY <1>1, <1>3

\* r is a with b behind it.
IsJoin(r, a, b) ==
    /\ Len(r) = Len(a) + Len(b)
    /\ \A i \in 1 .. Len(a) : r[i] = a[i]
    /\ \A i \in 1 .. Len(b) : r[Len(a) + i] = b[i]

\* Two sequences, one after the other
LEMMA Joined ==
    ASSUME NEW T, NEW a \in Seq(T), NEW b \in Seq(T)
    PROVE  a \o b \in Seq(T) /\ IsJoin(a \o b, a, b)
  BY DEF IsJoin

\* An answer is an error, or it is found and has one name and no empty string.
LEMMA ToldFacts ==
    ASSUME NEW a \in Told_
    PROVE  /\ a \in Answer
           /\ a.error # D!Empty => a.error \in D!Errors /\ a = D!Error(a.error)
           /\ a.error = D!Empty => /\ a = D!Found(a) /\ Len(a.name) = 1
                                   /\ \A i \in DOMAIN a.alias : a.alias[i] # D!Empty
                                   /\ \A i \in DOMAIN a.ip : a.ip[i] # D!Empty
<1>1. CASE \E e \in D!Errors : a = D!Error(e)
  <2>1. PICK e \in D!Errors : a = D!Error(e)
    BY <1>1
  <2>2. e \in Text /\ e # D!Empty
    BY EmptyFacts
  <2>3. a.error = e /\ a \in Answer
    BY <2>1, <2>2 DEF D!Error, Answer
  <2>. QED  BY <2>1, <2>2, <2>3
<1>2. CASE \E n \in Names : a = D!Found(n)
  <2>1. PICK n \in Names : a = D!Found(n)
    BY <1>2
  <2>2. /\ n \in [name : Seq(Text), alias : Seq(Text), ip : Seq(Text)]
        /\ Len(n.name) = 1 /\ D!Empty \notin D!Range(n.name) \cup D!Range(n.alias) \cup D!Range(n.ip)
    BY LookupsAssumption DEF D!NamesAssumption
  <2>3. a.error = D!Empty /\ a.name = n.name /\ a.alias = n.alias /\ a.ip = n.ip
    BY <2>1 DEF D!Found
  <2>4. a = D!Found(a) /\ a \in Answer
    BY <2>1, <2>2, <2>3, EmptyFacts DEF D!Found, Answer
  <2>5. \A i \in DOMAIN a.alias : a.alias[i] # D!Empty
    BY <2>2, <2>3 DEF D!Range
  <2>6. \A i \in DOMAIN a.ip : a.ip[i] # D!Empty
    BY <2>2, <2>3 DEF D!Range
  <2>. QED  BY <2>2, <2>3, <2>4, <2>5, <2>6
<1>. QED  BY <1>1, <1>2 DEF Told_

\* Where each string of an answer is
LEMMA WrittenFacts ==
    ASSUME NEW a \in Told_
    PROVE  /\ Written(a) \in Seq(Text) /\ Len(Written(a)) \in Nat \ {0}
           /\ a.error # D!Empty => Len(Written(a)) = 1 /\ Written(a)[1] = a.error
           /\ a.error = D!Empty =>
                /\ Len(Written(a)) = 4 + Len(a.alias) + Len(a.ip)
                /\ Written(a)[1] = D!Empty /\ Written(a)[2] = a.name[1]
                /\ \A i \in 1 .. Len(a.alias) : Written(a)[2 + i] = a.alias[i]
                /\ Written(a)[3 + Len(a.alias)] = D!Empty
                /\ \A i \in 1 .. Len(a.ip) : Written(a)[3 + Len(a.alias) + i] = a.ip[i]
                /\ Written(a)[4 + Len(a.alias) + Len(a.ip)] = D!Empty
<1>1. CASE a.error # D!Empty
  <2>1. Written(a) = <<a.error>> /\ a.error \in Text
    BY <1>1, ToldFacts, EmptyFacts DEF Written
  <2>2. Written(a) \in Seq(Text) /\ Len(Written(a)) = 1 /\ Written(a)[1] = a.error
    BY <2>1
  <2>3. Len(Written(a)) \in Nat \ {0}
    BY <2>2
  <2>. QED  BY <1>1, <2>2, <2>3, Zenon
<1>2. CASE a.error = D!Empty
  <2> DEFINE e == <<D!Empty>>
             n == a.name
             m == a.alias
             p == a.ip
             s1 == e \o n
             s2 == s1 \o m
             s3 == s2 \o e
             s4 == s3 \o p
             s5 == s4 \o e
  <2>1. /\ n \in Seq(Text) /\ m \in Seq(Text) /\ p \in Seq(Text) /\ Len(n) = 1
        /\ Len(m) \in Nat /\ Len(p) \in Nat
    BY <1>2, ToldFacts DEF Answer
  <2>2. Written(a) = s5
    BY <1>2 DEF Written, D!Strings
  <2>3. e \in Seq(Text) /\ Len(e) = 1 /\ e[1] = D!Empty
    BY EmptyFacts
  <2> HIDE DEF n, m, p, e
  <2>4. /\ s1 \in Seq(Text) /\ Len(s1) = 2
        /\ \A i \in 1 .. 1 : s1[i] = e[i]
        /\ \A i \in 1 .. 1 : s1[1 + i] = n[i]
    <3>1. s1 \in Seq(Text) /\ IsJoin(s1, e, n)
      BY <2>1, <2>3, Joined
    <3> HIDE DEF s1
    <3>. QED  BY <2>1, <2>3, <3>1 DEF IsJoin
  <2> HIDE DEF s1
  <2>5. /\ s2 \in Seq(Text) /\ Len(s2) = 2 + Len(m)
        /\ \A i \in 1 .. 2 : s2[i] = s1[i]
        /\ \A i \in 1 .. Len(m) : s2[2 + i] = m[i]
    <3>1. s2 \in Seq(Text) /\ IsJoin(s2, s1, m)
      BY <2>1, <2>4, Joined
    <3> HIDE DEF s2
    <3>. QED  BY <2>1, <2>4, <3>1 DEF IsJoin
  <2> HIDE DEF s2
  <2>6. /\ s3 \in Seq(Text) /\ Len(s3) = 3 + Len(m)
        /\ \A i \in 1 .. 2 + Len(m) : s3[i] = s2[i]
        /\ \A i \in 1 .. 1 : s3[2 + Len(m) + i] = e[i]
    <3>1. s3 \in Seq(Text) /\ IsJoin(s3, s2, e)
      BY <2>1, <2>3, <2>5, Joined
    <3> HIDE DEF s3
    <3>. QED  BY <2>1, <2>3, <2>5, <3>1 DEF IsJoin
  <2> HIDE DEF s3
  <2>7. /\ s4 \in Seq(Text) /\ Len(s4) = 3 + Len(m) + Len(p)
        /\ \A i \in 1 .. 3 + Len(m) : s4[i] = s3[i]
        /\ \A i \in 1 .. Len(p) : s4[3 + Len(m) + i] = p[i]
    <3>1. s4 \in Seq(Text) /\ IsJoin(s4, s3, p)
      BY <2>1, <2>6, Joined
    <3> HIDE DEF s4
    <3>. QED  BY <2>1, <2>6, <3>1 DEF IsJoin
  <2> HIDE DEF s4
  <2>8. /\ s5 \in Seq(Text) /\ Len(s5) = 4 + Len(m) + Len(p)
        /\ \A i \in 1 .. 3 + Len(m) + Len(p) : s5[i] = s4[i]
        /\ \A i \in 1 .. 1 : s5[3 + Len(m) + Len(p) + i] = e[i]
    <3>1. s5 \in Seq(Text) /\ IsJoin(s5, s4, e)
      BY <2>1, <2>3, <2>7, Joined
    <3> HIDE DEF s5
    <3>. QED  BY <2>1, <2>3, <2>7, <3>1 DEF IsJoin
  <2> HIDE DEF s5
  <2>9. s5[1] = D!Empty /\ s5[2] = n[1]
    <3>1. s1[1] = e[1] /\ s1[2] = n[1]
      BY <2>4
    <3>2. s2[1] = e[1] /\ s2[2] = n[1]
      BY <2>5, <3>1
    <3>3. s3[1] = e[1] /\ s3[2] = n[1]
      BY <2>1, <2>6, <3>2
    <3>4. s4[1] = e[1] /\ s4[2] = n[1]
      BY <2>1, <2>7, <3>3
    <3>5. 1 \in 1 .. 3 + Len(m) + Len(p) /\ 2 \in 1 .. 3 + Len(m) + Len(p)
      BY <2>1
    <3>. QED  BY <2>3, <2>8, <3>4, <3>5
  <2>10. s5[3 + Len(m)] = D!Empty
    <3>1. s3[3 + Len(m)] = D!Empty
      BY <2>1, <2>3, <2>6
    <3>2. s4[3 + Len(m)] = D!Empty
      BY <2>1, <2>7, <3>1
    <3>. QED  BY <2>1, <2>8, <3>2
  <2>11. \A i \in 1 .. Len(m) : s5[2 + i] = m[i]
    <3>1. TAKE i \in 1 .. Len(m)
    <3>2. 2 + i \in 1 .. 2 + Len(m) /\ 2 + i \in 1 .. 3 + Len(m) /\ 2 + i \in 1 .. 3 + Len(m) + Len(p)
      BY <2>1
    <3>. QED  BY <2>5, <2>6, <2>7, <2>8, <3>2
  <2>12. \A i \in 1 .. Len(p) : s5[3 + Len(m) + i] = p[i]
    <3>1. TAKE i \in 1 .. Len(p)
    <3>2. 3 + Len(m) + i \in 1 .. 3 + Len(m) + Len(p)
      BY <2>1
    <3>. QED  BY <2>7, <2>8, <3>2
  <2>13. s5[4 + Len(m) + Len(p)] = D!Empty
    BY <2>1, <2>3, <2>8
  <2>14. Len(s5) \in Nat \ {0}
    BY <2>1, <2>8
  <2>. QED  BY <1>2, <2>2, <2>8, <2>9, <2>10, <2>11, <2>12, <2>13, <2>14, Zenon DEF n, m, p
<1>. QED  BY <1>1, <1>2

\* The strings s on their way are those of the answers w, of which pos have been read:
\* c[j] is where the j-th answer ends.
Cuts(w, pos, s, c) ==
    /\ c \in [0 .. Len(w) -> Int] /\ c[0] = 0 - pos /\ c[Len(w)] = Len(s)
    /\ \A j \in 1 .. Len(w) : c[j] = c[j - 1] + Len(w[j]) /\ c[j] \in 1 .. Len(s)
    /\ \A j \in 1 .. Len(w) : \A k \in 1 .. Len(w[j]) : c[j - 1] + k >= 1 => s[c[j - 1] + k] = w[j][k]

Answers(w) == w \in Seq(Seq(Text)) /\ \A j \in 1 .. Len(w) : Len(w[j]) \in Nat \ {0}

\* The lengths of answers, and where they end
LEMMA CutsFacts ==
    ASSUME NEW w, Answers(w), NEW pos \in Nat, NEW s \in Seq(Text), NEW c, Cuts(w, pos, s, c),
           NEW j \in 1 .. Len(w)
    PROVE  /\ Len(w[j]) \in Nat \ {0} /\ Len(s) \in Nat
           /\ c[j] \in Int /\ c[j - 1] \in Int /\ c[j] >= 1 /\ c[j] <= Len(s)
           /\ c[j] = c[j - 1] + Len(w[j])
<1>1. Len(w) \in Nat
  BY DEF Answers
<1>2. j \in 0 .. Len(w) /\ j - 1 \in 0 .. Len(w) /\ Len(s) \in Nat
  BY <1>1
<1>. QED  BY <1>2 DEF Cuts, Answers

\* A string on its way belongs to the first answer that is not read.
LEMMA NextString ==
    ASSUME NEW w, Answers(w), NEW pos \in Nat, NEW s \in Seq(Text), s # <<>>, NEW c, Cuts(w, pos, s, c)
    PROVE  /\ Len(w) \in Nat \ {0} /\ c[0] = 0 - pos /\ c[1] = Len(w[1]) - pos /\ pos + 1 <= Len(w[1])
           /\ Head(s) = w[1][pos + 1]
<1>1. Len(s) \in Nat \ {0} /\ Head(s) = s[1] /\ Len(w) \in Nat
  BY DEF Answers
<1>2. c[0] = 0 - pos /\ c[Len(w)] = Len(s)
  BY DEF Cuts
<1>3. 1 \in 1 .. Len(w) /\ 1 - 1 = 0
  BY <1>1, <1>2
<1> DEFINE l == Len(w[1])
           b == c[0]
           e == c[1]
<1>4. l \in Nat /\ b \in Int /\ e \in Int /\ e >= 1 /\ e = b + l /\ b = 0 - pos
  <2>1. l \in Nat /\ e \in Int /\ e >= 1 /\ c[1 - 1] \in Int /\ e = c[1 - 1] + l
    BY <1>3, CutsFacts
  <2>. QED  BY <1>2, <1>3, <2>1
<1> HIDE DEF l, b, e
<1>5. pos + 1 \in 1 .. l /\ b + (pos + 1) = 1 /\ e = l - pos
  BY <1>4
<1> USE DEF l, b, e
<1>6. s[c[1 - 1] + (pos + 1)] = w[1][pos + 1]
  <2>1. c[1 - 1] + (pos + 1) >= 1
    BY <1>3, <1>5
  <2>. QED  BY <1>3, <1>5, <2>1 DEF Cuts
<1>7. Len(w) \in Nat \ {0} /\ pos + 1 <= Len(w[1]) /\ s[1] = w[1][pos + 1]
  BY <1>1, <1>3, <1>4, <1>5, <1>6
<1>. QED  BY <1>1, <1>2, <1>5, <1>7

\* A string is read that is not the last of its answer.
LEMMA ReadOn ==
    ASSUME NEW w, Answers(w), NEW pos \in Nat, NEW s \in Seq(Text), s # <<>>, NEW c, Cuts(w, pos, s, c),
           pos + 1 < Len(w[1])
    PROVE  \E d : Cuts(w, pos + 1, Tail(s), d)
<1> DEFINE u == Len(w)
           d == [j \in 0 .. u |-> c[j] - 1]
           t == Tail(s)
<1>1. u \in Nat \ {0} /\ c[0] = 0 - pos /\ c[1] = Len(w[1]) - pos /\ c[u] = Len(s) /\ Len(w[1]) \in Nat
  <2>1. u \in Nat \ {0} /\ c[0] = 0 - pos /\ c[1] = Len(w[1]) - pos
    BY NextString
  <2>2. 1 \in 1 .. u
    BY <2>1
  <2>. QED  BY <2>1, <2>2, CutsFacts DEF Cuts
<1>2. /\ Len(s) \in Nat \ {0} /\ Len(t) = Len(s) - 1 /\ t \in Seq(Text)
      /\ \A i \in 1 .. Len(s) - 1 : t[i] = s[i + 1]
  OBVIOUS
<1>3. \A j \in 0 .. u : d[j] = c[j] - 1 /\ c[j] \in Int
  BY DEF Cuts
<1>4. d \in [0 .. u -> Int]
  BY <1>3
<1> HIDE DEF t, d
<1>5. ASSUME NEW j \in 1 .. u
      PROVE  /\ d[j] = d[j - 1] + Len(w[j]) /\ d[j] \in 1 .. Len(t)
             /\ \A k \in 1 .. Len(w[j]) : d[j - 1] + k >= 1 => t[d[j - 1] + k] = w[j][k]
  <2>1. /\ Len(w[j]) \in Nat \ {0} /\ c[j] \in Int /\ c[j - 1] \in Int /\ c[j] >= 1 /\ c[j] <= Len(s)
        /\ c[j] = c[j - 1] + Len(w[j])
    BY CutsFacts
  <2>2. d[j] = c[j] - 1 /\ d[j - 1] = c[j - 1] - 1
    <3>1. j \in 0 .. u /\ j - 1 \in 0 .. u
      BY <1>1
    <3>. QED  BY <1>3, <3>1
  <2>3. c[j] >= 2
    <3>1. CASE j = 1
      BY <1>1, <3>1
    <3>2. CASE j # 1
      <4>1. j - 1 \in 1 .. u
        BY <1>1, <3>2
      <4>2. c[j - 1] >= 1
        BY <4>1, CutsFacts
      <4>. QED  BY <2>1, <4>2
    <3>. QED  BY <3>1, <3>2
  <2> DEFINE l == Len(s)
             n == Len(w[j])
             b == c[j - 1]
             e == c[j]
             x == d[j]
             y == d[j - 1]
  <2>a. /\ l \in Nat /\ n \in Nat /\ b \in Int /\ e \in Int /\ e >= 2 /\ e <= l /\ e = b + n
        /\ x = e - 1 /\ y = b - 1
    BY <1>2, <2>1, <2>2, <2>3
  <2>4. d[j] = d[j - 1] + Len(w[j]) /\ d[j] \in 1 .. Len(t)
    <3> HIDE DEF l, n, b, e, x, y
    <3>1. x = y + n /\ x \in 1 .. l - 1
      BY <2>a
    <3>. QED  BY <1>2, <3>1 DEF l, n, x, y
  <2>5. ASSUME NEW k \in 1 .. Len(w[j]), d[j - 1] + k >= 1
        PROVE  t[d[j - 1] + k] = w[j][k]
    <3>1. c[j - 1] + k >= 1 /\ d[j - 1] + k \in 1 .. Len(s) - 1 /\ d[j - 1] + k + 1 = c[j - 1] + k
      <4> HIDE DEF l, n, b, e, x, y
      <4>1. k \in 1 .. n /\ y + k >= 1
        BY <2>5 DEF n, y
      <4>2. b + k >= 1 /\ y + k \in 1 .. l - 1 /\ y + k + 1 = b + k
        BY <2>a, <4>1
      <4>. QED  BY <4>2 DEF l, b, y
    <3>2. s[c[j - 1] + k] = w[j][k]
      BY <3>1 DEF Cuts
    <3>. QED  BY <1>2, <3>1, <3>2
  <2>. QED  BY <2>4, <2>5
<1>6. d[0] = 0 - (pos + 1) /\ d[u] = Len(t)
  <2>1. 0 \in 0 .. u /\ u \in 0 .. u
    BY <1>1
  <2>2. d[0] = (0 - pos) - 1 /\ d[u] = Len(s) - 1
    BY <1>1, <1>3, <2>1
  <2>. QED  BY <1>2, <2>2
<1>7. Cuts(w, pos + 1, t, d)
  BY <1>4, <1>5, <1>6 DEF Cuts
<1>. QED  BY <1>7 DEF t

\* The last string of an answer is read.
LEMMA ReadLast ==
    ASSUME NEW w, Answers(w), NEW pos \in Nat, NEW s \in Seq(Text), s # <<>>, NEW c, Cuts(w, pos, s, c),
           pos + 1 = Len(w[1])
    PROVE  \E d : Cuts(Tail(w), 0, Tail(s), d)
<1> DEFINE u == Len(w)
           v == Tail(w)
           d == [j \in 0 .. u - 1 |-> c[j + 1] - 1]
           t == Tail(s)
<1>1. u \in Nat \ {0} /\ c[0] = 0 - pos /\ c[1] = 1 /\ c[u] = Len(s)
  <2>1. u \in Nat \ {0} /\ c[0] = 0 - pos /\ c[1] = Len(w[1]) - pos
    BY NextString
  <2>. QED  BY <2>1 DEF Cuts
<1>2. /\ Len(s) \in Nat \ {0} /\ Len(t) = Len(s) - 1 /\ t \in Seq(Text)
      /\ \A i \in 1 .. Len(s) - 1 : t[i] = s[i + 1]
  OBVIOUS
<1>3. Len(v) = u - 1 /\ \A j \in 1 .. u - 1 : v[j] = w[j + 1]
  BY <1>1 DEF Answers
<1>4. \A j \in 0 .. u - 1 : d[j] = c[j + 1] - 1 /\ c[j + 1] \in Int
  <2>1. TAKE j \in 0 .. u - 1
  <2>2. j + 1 \in 0 .. u
    BY <1>1
  <2>. QED  BY <2>2 DEF Cuts
<1>5. d \in [0 .. u - 1 -> Int]
  BY <1>4
<1> HIDE DEF t, d, v
<1>6. ASSUME NEW j \in 1 .. u - 1
      PROVE  /\ d[j] = d[j - 1] + Len(v[j]) /\ d[j] \in 1 .. Len(t)
             /\ \A k \in 1 .. Len(v[j]) : d[j - 1] + k >= 1 => t[d[j - 1] + k] = v[j][k]
  <2>1. /\ j \in 1 .. u /\ j + 1 \in 1 .. u /\ (j + 1) - 1 = j /\ j \in 0 .. u - 1
        /\ j - 1 \in 0 .. u - 1 /\ (j - 1) + 1 = j
    BY <1>1
  <2>2. /\ Len(w[j + 1]) \in Nat \ {0} /\ c[j + 1] \in Int /\ c[j + 1] >= 1 /\ c[j + 1] <= Len(s)
        /\ c[j + 1] = c[(j + 1) - 1] + Len(w[j + 1])
    BY SMTT(60), <2>1, CutsFacts
  <2>3. c[j] \in Int /\ c[j] >= 1
    BY <2>1, CutsFacts
  <2>4. d[j] = c[j + 1] - 1 /\ d[j - 1] = c[j] - 1 /\ v[j] = w[j + 1]
    BY <1>3, <1>4, <2>1
  <2> DEFINE l == Len(s)
             n == Len(w[j + 1])
             b == c[j]
             e == c[j + 1]
             x == d[j]
             y == d[j - 1]
  <2>a. /\ l \in Nat /\ n \in Nat \ {0} /\ b \in Int /\ e \in Int /\ b >= 1 /\ e <= l /\ e = b + n
        /\ x = e - 1 /\ y = b - 1
    BY <1>2, <2>1, <2>2, <2>3, <2>4
  <2>5. d[j] = d[j - 1] + Len(v[j]) /\ d[j] \in 1 .. Len(t)
    <3> HIDE DEF l, n, b, e, x, y
    <3>1. x = y + n /\ x \in 1 .. l - 1
      BY <2>a
    <3>. QED  BY <1>2, <2>4, <3>1 DEF l, n, x, y
  <2>6. ASSUME NEW k \in 1 .. Len(v[j]), d[j - 1] + k >= 1
        PROVE  t[d[j - 1] + k] = v[j][k]
    <3>1. /\ c[(j + 1) - 1] + k >= 1 /\ d[j - 1] + k \in 1 .. Len(s) - 1
          /\ d[j - 1] + k + 1 = c[(j + 1) - 1] + k
      <4> HIDE DEF l, n, b, e, x, y
      <4>1. k \in 1 .. n /\ y + k >= 1
        BY <2>4, <2>6 DEF n, y
      <4>2. b + k >= 1 /\ y + k \in 1 .. l - 1 /\ y + k + 1 = b + k
        BY <2>a, <4>1
      <4>. QED  BY <2>1, <4>2 DEF l, b, y
    <3>2. s[c[(j + 1) - 1] + k] = w[j + 1][k]
      BY <2>1, <2>4, <3>1 DEF Cuts
    <3>. QED  BY <1>2, <2>4, <3>1, <3>2
  <2>. QED  BY <2>5, <2>6
<1>7. d[0] = 0 /\ d[u - 1] = Len(t)
  <2>1. 0 \in 0 .. u - 1 /\ u - 1 \in 0 .. u - 1 /\ 0 + 1 = 1 /\ (u - 1) + 1 = u
    BY <1>1
  <2>2. d[0] = c[1] - 1 /\ d[u - 1] = c[u] - 1
    BY <1>4, <2>1
  <2>. QED  BY <1>1, <1>2, <2>2
<1>8. Cuts(v, 0, t, d)
  <2>1. Len(v) = u - 1 /\ 0 - 0 = 0
    BY <1>3
  <2>. QED  BY <1>5, <1>6, <1>7, <2>1 DEF Cuts
<1>. QED  BY <1>8 DEF t, v

\* The thread has an answer to write.
LEMMA WriteMore ==
    ASSUME NEW w, Answers(w), NEW pos \in Nat, NEW s \in Seq(Text), NEW c, Cuts(w, pos, s, c),
           NEW a \in Seq(Text), Len(a) \in Nat \ {0}
    PROVE  \E d : Cuts(Append(w, a), pos, s \o a, d)
<1> DEFINE u == Len(w)
           v == Append(w, a)
           t == s \o a
           d == [j \in 0 .. u + 1 |-> IF j <= u THEN c[j] ELSE c[u] + Len(a)]
<1>1. u \in Nat /\ Len(v) = u + 1 /\ v[u + 1] = a /\ \A j \in 1 .. u : v[j] = w[j]
  BY DEF Answers
<1>2. t \in Seq(Text) /\ IsJoin(t, s, a)
  BY Joined
<1> HIDE DEF t, v
<1>3. Len(t) = Len(s) + Len(a) /\ Len(s) \in Nat
  BY <1>2 DEF IsJoin
<1>4. c[0] = 0 - pos /\ c[u] = Len(s) /\ \A j \in 0 .. u : c[j] \in Int
  BY DEF Cuts
<1>5. d \in [0 .. u + 1 -> Int] /\ (\A j \in 0 .. u : d[j] = c[j]) /\ d[u + 1] = Len(t)
  BY <1>1, <1>3, <1>4
<1> HIDE DEF d
<1>6. ASSUME NEW j \in 1 .. u
      PROVE  /\ d[j] = d[j - 1] + Len(v[j]) /\ d[j] \in 1 .. Len(t)
             /\ \A k \in 1 .. Len(v[j]) : d[j - 1] + k >= 1 => t[d[j - 1] + k] = v[j][k]
  <2>1. /\ Len(w[j]) \in Nat \ {0} /\ c[j] \in Int /\ c[j - 1] \in Int /\ c[j] >= 1 /\ c[j] <= Len(s)
        /\ c[j] = c[j - 1] + Len(w[j])
    BY CutsFacts
  <2>2. v[j] = w[j] /\ d[j] = c[j] /\ d[j - 1] = c[j - 1]
    <3>1. j \in 0 .. u /\ j - 1 \in 0 .. u
      BY <1>1
    <3>. QED  BY <1>1, <1>5, <3>1
  <2>3. ASSUME NEW k \in 1 .. Len(w[j]), c[j - 1] + k >= 1
        PROVE  t[c[j - 1] + k] = w[j][k]
    <3>1. s[c[j - 1] + k] = w[j][k]
      BY <2>3 DEF Cuts
    <3> DEFINE i == c[j - 1] + k
    <3>2. i \in 1 .. Len(s)
      <4> DEFINE b == c[j - 1]
                 m == Len(w[j])
                 l == Len(s)
                 e == c[j]
      <4>1. b \in Int /\ e \in Int /\ m \in Nat /\ l \in Nat /\ e <= l /\ e = b + m
        BY <1>3, <2>1
      <4>2. k \in 1 .. m /\ b + k >= 1
        BY <2>3
      <4> HIDE DEF b, m, l, e
      <4>3. b + k \in 1 .. l
        BY <4>1, <4>2
      <4>. QED  BY <4>3 DEF b, l
    <3>3. s[i] = w[j][k]
      BY <3>1
    <3> HIDE DEF i
    <3>4. t[i] = s[i]
      BY <1>2, <3>2 DEF IsJoin
    <3>5. t[i] = w[j][k]
      BY <3>3, <3>4
    <3>. QED  BY <3>5 DEF i
  <2>4. d[j] \in 1 .. Len(t)
    BY <1>3, <2>1, <2>2
  <2>. QED  BY <2>1, <2>2, <2>3, <2>4
<1>7. /\ d[u + 1] = d[(u + 1) - 1] + Len(v[u + 1]) /\ d[u + 1] \in 1 .. Len(t)
      /\ \A k \in 1 .. Len(v[u + 1]) : d[(u + 1) - 1] + k >= 1 => t[d[(u + 1) - 1] + k] = v[u + 1][k]
  <2>1. (u + 1) - 1 = u /\ d[u] = Len(s)
    BY SMTT(60), <1>1, <1>4, <1>5
  <2>2. d[u + 1] = d[u] + Len(a) /\ d[u + 1] \in 1 .. Len(t)
    BY <1>3, <1>5, <2>1
  <2>3. \A k \in 1 .. Len(a) : t[d[u] + k] = a[k]
    BY <1>2, <2>1 DEF IsJoin
  <2>. QED  BY <1>1, <2>1, <2>2, <2>3
<1>8. \A j \in 1 .. u + 1 : j \in 1 .. u \/ j = u + 1
  BY <1>1
<1>9. d[0] = 0 - pos
  BY <1>1, <1>4, <1>5
<1>10. Cuts(v, pos, t, d)
  BY <1>1, <1>5, <1>6, <1>7, <1>8, <1>9 DEF Cuts
<1>. QED  BY <1>10 DEF t, v
-----------------------------------------------------------------------------
(* Lookups: the queue of those who wait, the lookups and the strings between them *)

Places == {"nothing", "name", "alias", "ip"}

Lookup == [host : Hosts, answer : Told_ \cup {NoRequest}]

\* What the variables hold
DnsTypes ==
    /\ requests \in Seq(Hosts) /\ replies \in Seq(Text)
    /\ thread \in [host : Hosts \cup {NoRequest}, out : Seq(Text), failed : D!Errors \cup {D!Empty}, fresh : BOOLEAN]
    /\ thread.host # NoRequest => thread.out = <<>>
    /\ dnsQueue \in Seq(Askers) /\ asked \in [Askers -> Hosts \cup {NoRequest}] /\ DOMAIN got = Askers
    /\ reading \in [at : Places, name : Seq(Text), alias : Seq(Text), ip : Seq(Text)]
    /\ lookups \in Seq(Lookup)
    /\ silent \in BOOLEAN

\* The host that the thread looks up is one more.
Busy == IF thread.host = NoRequest THEN 0 ELSE 1

\* n answers have been read, the u behind them are on their way; each task that waits has a
\* place in the queue, and behind it is what it asked for.
Matched(n, u) ==
    /\ n \in Nat /\ u \in Nat /\ Len(lookups) = n + u /\ Len(dnsQueue) = u + Busy + Len(requests)
    /\ \A i \in 1 .. Len(lookups) : lookups[i].answer \in Told_
    /\ \A i \in 1 .. u : asked[dnsQueue[i]] = lookups[n + i].host
    /\ Busy = 1 => asked[dnsQueue[u + 1]] = thread.host
    /\ \A i \in 1 .. Len(requests) : asked[dnsQueue[u + Busy + i]] = requests[i]
    /\ \A i, j \in 1 .. Len(dnsQueue) : dnsQueue[i] = dnsQueue[j] => i = j

OwedBy(l, n, u) == [i \in 1 .. u |-> Written(l[n + i].answer)]
Owed(n, u) == OwedBy(lookups, n, u)

\* How many strings of its answer have been read
Position ==
    CASE reading.at = "nothing" -> 0
      [] reading.at = "name" -> 1
      [] reading.at = "alias" -> 2 + Len(reading.alias)
      [] reading.at = "ip" -> 3 + Len(reading.alias) + Len(reading.ip)

Begins(s, t) == Len(s) <= Len(t) /\ \A i \in 1 .. Len(s) : s[i] = t[i]

\* What has been read is the beginning of the first of them.
ReadOf(a) ==
    /\ a.error = D!Empty
    /\ reading.at = "name" => reading.name = <<>> /\ reading.alias = <<>>
    /\ reading.at = "alias" => reading.name = a.name /\ Begins(reading.alias, a.alias)
    /\ reading.at = "ip" => reading.name = a.name /\ reading.alias = a.alias /\ Begins(reading.ip, a.ip)
    /\ reading.at # "ip" => reading.ip = <<>>

Half(n, u) == IF reading.at = "nothing" THEN reading = D!NotReading ELSE u >= 1 /\ ReadOf(lookups[n + 1].answer)

OnTheWay(n, u) == \E c : Cuts(Owed(n, u), Position, replies \o thread.out, c)

InStep == \E n, u \in Nat : Matched(n, u) /\ Half(n, u) /\ OnTheWay(n, u)

DnsInv == DnsTypes /\ (silent \/ (InStep /\ D!WakesRequester))

\* What a step of a task's wake-up keeps of the types
LEMMA WakeTypes ==
    ASSUME DnsTypes, NEW answer, D!Wake(answer)
    PROVE  /\ reading' \in [at : Places, name : Seq(Text), alias : Seq(Text), ip : Seq(Text)]
           /\ dnsQueue' \in Seq(Askers) /\ asked' \in [Askers -> Hosts \cup {NoRequest}]
           /\ DOMAIN got' = Askers
<1>1. reading' = D!NotReading
  BY DEF D!Wake
<1>2. CASE dnsQueue = <<>>
  BY <1>1, <1>2 DEF D!Wake, D!NotReading, DnsTypes, Places
<1>3. CASE dnsQueue # <<>>
  <2>1. Head(dnsQueue) \in Askers /\ Tail(dnsQueue) \in Seq(Askers)
    BY <1>3 DEF DnsTypes
  <2>2. /\ dnsQueue' = Tail(dnsQueue)
        /\ got' = [got EXCEPT ![Head(dnsQueue)] = [host |-> asked[Head(dnsQueue)], answer |-> answer]]
        /\ asked' = [asked EXCEPT ![Head(dnsQueue)] = NoRequest]
    BY <1>3 DEF D!Wake
  <2>3. asked' \in [Askers -> Hosts \cup {NoRequest}] /\ DOMAIN got' = Askers
    BY <2>1, <2>2 DEF DnsTypes
  <2>. QED  BY <1>1, <2>1, <2>2, <2>3 DEF D!NotReading, Places
<1>. QED  BY <1>2, <1>3

\* A string that is read ends an answer or is kept.
LEMMA ReadCases ==
    ASSUME DnsTypes, D!Read
    PROVE  /\ replies # <<>> /\ replies' = Tail(replies)
           /\ UNCHANGED <<requests, thread, changed, lookups, silent>>
           /\ \/ reading.at = "nothing" /\ Head(replies) # D!Empty /\ D!Wake(D!Error(Head(replies)))
              \/ reading.at = "ip" /\ Head(replies) = D!Empty /\ D!Wake(D!Found(reading))
              \/ /\ UNCHANGED <<dnsQueue, asked, got>>
                 /\ \/ /\ reading.at = "nothing" /\ Head(replies) = D!Empty
                       /\ reading' = [reading EXCEPT !.at = "name"]
                    \/ reading.at = "name" /\ reading' = [reading EXCEPT !.at = "alias", !.name = <<Head(replies)>>]
                    \/ /\ reading.at = "alias" /\ Head(replies) = D!Empty
                       /\ reading' = [reading EXCEPT !.at = "ip"]
                    \/ /\ reading.at = "alias" /\ Head(replies) # D!Empty
                       /\ reading' = [reading EXCEPT !.alias = Append(@, Head(replies))]
                    \/ /\ reading.at = "ip" /\ Head(replies) # D!Empty
                       /\ reading' = [reading EXCEPT !.ip = Append(@, Head(replies))]
<1>1. reading.at \in Places
  BY DEF DnsTypes
<1>2. CASE reading.at = "nothing"
  BY <1>2 DEF D!Read
<1>3. CASE reading.at = "name"
  BY <1>3 DEF D!Read
<1>4. CASE reading.at = "alias"
  BY <1>4 DEF D!Read
<1>5. CASE reading.at = "ip"
  BY <1>5 DEF D!Read
<1>. QED  BY <1>1, <1>2, <1>3, <1>4, <1>5 DEF Places

\* What is written and recorded when the thread has an answer
LEMMA AnsweredTypes ==
    ASSUME DnsTypes, thread.host # NoRequest, NEW answer \in Told_ \cup {NoRequest}, NEW out \in Seq(Text),
           NEW failed \in D!Errors \cup {D!Empty}, NEW fresh \in BOOLEAN,
           thread' = [host |-> NoRequest, out |-> out, failed |-> failed, fresh |-> fresh],
           lookups' = Append(lookups, [host |-> thread.host, answer |-> answer])
    PROVE  /\ thread' \in [host : Hosts \cup {NoRequest}, out : Seq(Text), failed : D!Errors \cup {D!Empty},
                           fresh : BOOLEAN]
           /\ thread'.host = NoRequest /\ thread'.out = out
           /\ lookups' \in Seq(Lookup)
<1>1. thread.host \in Hosts
  BY DEF DnsTypes
<1>2. [host |-> thread.host, answer |-> answer] \in Lookup
  BY <1>1 DEF Lookup
<1>. QED  BY <1>2 DEF DnsTypes

\* An error, and what is written for it
LEMMA ErrorTold ==
    ASSUME NEW e \in D!Errors
    PROVE  D!Error(e) \in Told_ /\ Written(D!Error(e)) = <<e>> /\ <<e>> \in Seq(Text)
<1>1. e \in Text /\ e # D!Empty
  BY EmptyFacts
<1>2. D!Error(e) \in Told_
  BY DEF Told_
<1>3. D!Error(e).error = e
  BY DEF D!Error
<1>. QED  BY <1>1, <1>2, <1>3 DEF Written

\* A name that is found, and what is written for it
LEMMA NameTold ==
    ASSUME NEW n \in Names
    PROVE  D!Found(n) \in Told_ /\ Written(D!Found(n)) = D!Strings(n) /\ D!Strings(n) \in Seq(Text)
<1>1. D!Found(n) \in Told_
  BY DEF Told_
<1>2. D!Found(n).error = D!Empty /\ D!Found(n).name = n.name /\ D!Found(n).alias = n.alias /\ D!Found(n).ip = n.ip
  BY DEF D!Found
<1>3. Written(D!Found(n)) = D!Strings(n)
  BY <1>2 DEF Written, D!Strings
<1>. QED  BY <1>1, <1>3, WrittenFacts

\* The thread has an answer, old or new, and writes it.
WritesAnswer(answer) ==
    /\ \E failed \in D!Errors \cup {D!Empty}, fresh \in BOOLEAN :
        thread' = [host |-> NoRequest, out |-> Written(answer), failed |-> failed, fresh |-> fresh]
    /\ lookups' = Append(lookups, [host |-> thread.host, answer |-> answer])
    /\ UNCHANGED silent

\* The resolver fails in another way, and nothing is written.
WritesNothing ==
    /\ thread' = [host |-> NoRequest, out |-> <<>>, failed |-> D!Empty, fresh |-> FALSE]
    /\ lookups' = Append(lookups, [host |-> thread.host, answer |-> NoRequest])
    /\ silent' = TRUE

\* The thread repeats an error or asks the resolver.
LEMMA AnswerCases ==
    ASSUME DnsTypes, D!Repeat \/ D!Resolve
    PROVE  /\ thread.host # NoRequest /\ UNCHANGED <<requests, replies, dnsQueue, reading, asked, got>>
           /\ WritesNothing \/ \E answer \in Told_ : WritesAnswer(answer)
<1>1. CASE D!Repeat
  <2>1. thread.failed \in D!Errors /\ thread.fresh \in BOOLEAN
    BY <1>1 DEF D!Repeat, D!Repeats, DnsTypes
  <2>2. thread' = [host |-> NoRequest, out |-> <<thread.failed>>, failed |-> thread.failed, fresh |-> thread.fresh]
    BY <1>1 DEF D!Repeat, DnsTypes
  <2>3. WritesAnswer(D!Error(thread.failed))
    BY <1>1, <2>1, <2>2, ErrorTold DEF D!Repeat, WritesAnswer
  <2>. QED  BY <1>1, <2>1, <2>3, ErrorTold DEF D!Repeat, D!mainVars
<1>2. CASE D!Resolve
  <2>1. /\ thread.host # NoRequest /\ UNCHANGED <<requests, replies, dnsQueue, reading, asked, got>>
    BY <1>2 DEF D!Resolve, D!mainVars
  <2>2. CASE \E n \in Names : D!Answered(D!Found(n), D!Strings(n), D!Empty) /\ UNCHANGED silent
    <3>1. PICK n \in Names : D!Answered(D!Found(n), D!Strings(n), D!Empty) /\ UNCHANGED silent
      BY <2>2
    <3>2. WritesAnswer(D!Found(n))
      <4>1. thread' = [host |-> NoRequest, out |-> Written(D!Found(n)), failed |-> D!Empty, fresh |-> FALSE]
        BY <3>1, NameTold DEF D!Answered
      <4>. QED  BY <3>1, <4>1 DEF D!Answered, WritesAnswer
    <3>. QED  BY <2>1, <3>2, NameTold
  <2>3. CASE \E e \in D!Errors : D!Answered(D!Error(e), <<e>>, IF e \in D!Repeated THEN e ELSE D!Empty) /\ UNCHANGED silent
    <3>1. PICK e \in D!Errors : D!Answered(D!Error(e), <<e>>, IF e \in D!Repeated THEN e ELSE D!Empty) /\ UNCHANGED silent
      BY <2>3
    <3> DEFINE f == IF e \in D!Repeated THEN e ELSE D!Empty
    <3>2. f \in D!Errors \cup {D!Empty} /\ (f # D!Empty) \in BOOLEAN
      OBVIOUS
    <3>3. WritesAnswer(D!Error(e))
      <4>1. thread' = [host |-> NoRequest, out |-> Written(D!Error(e)), failed |-> f, fresh |-> f # D!Empty]
        BY <3>1, ErrorTold DEF D!Answered
      <4> HIDE DEF f
      <4>. QED  BY <3>1, <3>2, <4>1 DEF D!Answered, WritesAnswer
    <3>. QED  BY <2>1, <3>3, ErrorTold
  <2>4. CASE D!Answered(NoRequest, <<>>, D!Empty) /\ silent' = TRUE
    BY <2>1, <2>4 DEF D!Answered, WritesNothing
  <2>. QED  BY <1>2, <2>2, <2>3, <2>4 DEF D!Resolve
<1>. QED  BY <1>1, <1>2

\* Every variable of the lookups keeps its type.
LEMMA DnsTyped == DnsTypes /\ D!Next => DnsTypes'
<1> SUFFICES ASSUME DnsTypes, D!Next PROVE DnsTypes'
  OBVIOUS
<1>1. CASE D!Ask
  <2>1. PICK t \in Askers, h \in Hosts :
            /\ requests' = Append(requests, h) /\ dnsQueue' = Append(dnsQueue, t)
            /\ asked' = [asked EXCEPT ![t] = h]
    BY <1>1 DEF D!Ask
  <2>2. UNCHANGED <<replies, thread, changed, reading, got, lookups, silent>>
    BY <1>1 DEF D!Ask
  <2>. QED  BY <2>1, <2>2 DEF DnsTypes
<1>2. CASE D!Read
  <2>1. /\ replies # <<>> /\ replies' = Tail(replies)
        /\ UNCHANGED <<requests, thread, changed, lookups, silent>>
    BY <1>2, ReadCases
  <2>2. Head(replies) \in Text /\ replies' \in Seq(Text)
    BY <2>1 DEF DnsTypes
  <2>3. /\ reading' \in [at : Places, name : Seq(Text), alias : Seq(Text), ip : Seq(Text)]
        /\ dnsQueue' \in Seq(Askers) /\ asked' \in [Askers -> Hosts \cup {NoRequest}]
        /\ DOMAIN got' = Askers
    <3>1. CASE \E answer : D!Wake(answer)
      BY <3>1, WakeTypes
    <3>2. CASE /\ UNCHANGED <<dnsQueue, asked, got>>
               /\ \/ reading' = [reading EXCEPT !.at = "name"]
                  \/ reading' = [reading EXCEPT !.at = "alias", !.name = <<Head(replies)>>]
                  \/ reading' = [reading EXCEPT !.at = "ip"]
                  \/ reading' = [reading EXCEPT !.alias = Append(@, Head(replies))]
                  \/ reading' = [reading EXCEPT !.ip = Append(@, Head(replies))]
      <4>1. /\ reading \in [at : Places, name : Seq(Text), alias : Seq(Text), ip : Seq(Text)]
            /\ dnsQueue' \in Seq(Askers) /\ asked' \in [Askers -> Hosts \cup {NoRequest}]
            /\ DOMAIN got' = Askers
        BY <3>2 DEF DnsTypes
      <4>2. /\ <<Head(replies)>> \in Seq(Text) /\ Append(reading.alias, Head(replies)) \in Seq(Text)
            /\ Append(reading.ip, Head(replies)) \in Seq(Text)
        BY <2>2, <4>1
      <4>3. reading' \in [at : Places, name : Seq(Text), alias : Seq(Text), ip : Seq(Text)]
        BY <3>2, <4>1, <4>2 DEF Places
      <4>. QED  BY <4>1, <4>3
    <3>. QED  BY <1>2, <3>1, <3>2, ReadCases
  <2>. QED  BY <2>1, <2>2, <2>3 DEF DnsTypes
<1>3. CASE D!Take
  <2>1. Head(requests) \in Hosts /\ Tail(requests) \in Seq(Hosts)
    BY <1>3 DEF D!Take, DnsTypes
  <2>. QED  BY <1>3, <2>1 DEF D!Take, D!mainVars, DnsTypes
<1>4. CASE D!Repeat \/ D!Resolve
  <2>1. /\ thread.host # NoRequest /\ UNCHANGED <<requests, replies, dnsQueue, reading, asked, got>>
        /\ WritesNothing \/ \E answer \in Told_ : WritesAnswer(answer)
    BY <1>4, AnswerCases
  <2>2. /\ thread' \in [host : Hosts \cup {NoRequest}, out : Seq(Text), failed : D!Errors \cup {D!Empty},
                        fresh : BOOLEAN]
        /\ thread'.host = NoRequest
        /\ lookups' \in Seq(Lookup)
        /\ silent' \in BOOLEAN
    <3>1. CASE WritesNothing
      <4>1. NoRequest \in Told_ \cup {NoRequest} /\ <<>> \in Seq(Text)
        OBVIOUS
      <4>. QED  BY <2>1, <3>1, <4>1, AnsweredTypes DEF WritesNothing
    <3>2. CASE \E answer \in Told_ : WritesAnswer(answer)
      <4>1. PICK answer \in Told_ : WritesAnswer(answer)
        BY <3>2
      <4>2. Written(answer) \in Seq(Text)
        BY WrittenFacts
      <4>. QED  BY <2>1, <4>1, <4>2, AnsweredTypes DEF WritesAnswer, DnsTypes
    <3>. QED  BY <2>1, <3>1, <3>2
  <2>. QED  BY <2>1, <2>2 DEF DnsTypes
<1>5. CASE D!Write
  <2>1. Head(thread.out) \in Text /\ Tail(thread.out) \in Seq(Text)
    BY <1>5 DEF D!Write, DnsTypes
  <2>2. thread.host = NoRequest
    BY <1>5 DEF D!Write, DnsTypes
  <2>3. /\ thread' \in [host : Hosts \cup {NoRequest}, out : Seq(Text), failed : D!Errors \cup {D!Empty},
                        fresh : BOOLEAN]
        /\ thread'.host = NoRequest
    BY <1>5, <2>1, <2>2 DEF D!Write, DnsTypes
  <2>4. replies' \in Seq(Text)
    BY <1>5, <2>1 DEF D!Write, DnsTypes
  <2>5. UNCHANGED <<requests, changed, lookups, silent, dnsQueue, reading, asked, got>>
    BY <1>5 DEF D!Write, D!mainVars
  <2>. QED  BY <2>3, <2>4, <2>5 DEF DnsTypes
<1>6. CASE D!Expire
  BY <1>6 DEF D!Expire, D!mainVars, DnsTypes
<1>7. CASE D!EditResolvConf
  BY <1>7 DEF D!EditResolvConf, D!mainVars, DnsTypes
<1>. QED  BY <1>1, <1>2, <1>3, <1>4, <1>5, <1>6, <1>7 DEF D!Next

\* What is recorded of a lookup
LEMMA LookupTypes ==
    ASSUME DnsTypes, NEW k \in 1 .. Len(lookups)
    PROVE  lookups[k] \in Lookup /\ lookups[k].host \in Hosts
<1>1. lookups[k] \in Lookup
  BY DEF DnsTypes
<1>. QED  BY <1>1 DEF Lookup

\* Whoever has a place in the queue waits for the answer to its question.
LEMMA QueuedAsked ==
    ASSUME DnsTypes, NEW n, NEW u, Matched(n, u), NEW i \in 1 .. Len(dnsQueue)
    PROVE  asked[dnsQueue[i]] \in Hosts /\ dnsQueue[i] \in Askers
<1>1. /\ n \in Nat /\ u \in Nat /\ Len(lookups) = n + u /\ Len(dnsQueue) = u + Busy + Len(requests)
      /\ Busy \in {0, 1} /\ Len(requests) \in Nat /\ (Busy = 1 => thread.host \in Hosts)
  BY DEF Matched, Busy, DnsTypes
<1>2. dnsQueue[i] \in Askers
  BY DEF DnsTypes
<1>3. CASE i \in 1 .. u
  <2>1. n + i \in 1 .. Len(lookups)
    BY <1>1, <1>3
  <2>2. lookups[n + i].host \in Hosts
    BY <2>1, LookupTypes, Zenon
  <2>. QED  BY <1>2, <1>3, <2>2 DEF Matched
<1>4. CASE i = u + 1 /\ Busy = 1
  BY <1>1, <1>2, <1>4 DEF Matched
<1>5. CASE i > u + Busy
  <2>1. i - (u + Busy) \in 1 .. Len(requests) /\ u + Busy + (i - (u + Busy)) = i
    BY <1>1, <1>5
  <2>2. requests[i - (u + Busy)] \in Hosts
    BY <2>1 DEF DnsTypes
  <2>3. asked[dnsQueue[u + Busy + (i - (u + Busy))]] = requests[i - (u + Busy)]
    BY <2>1 DEF Matched
  <2>. QED  BY <1>2, <2>1, <2>2, <2>3
<1>. QED  BY <1>1, <1>3, <1>4, <1>5

\* What is on the way is not what a step changes elsewhere.
LEMMA WaySame ==
    ASSUME NEW n, NEW u, UNCHANGED <<lookups, reading, replies>>, thread'.out = thread.out
    PROVE  (OnTheWay(n, u) => OnTheWay(n, u)') /\ (Half(n, u) => Half(n, u)')
<1>1. Owed(n, u)' = Owed(n, u) /\ Position' = Position
  BY DEF Owed, OwedBy, Position
<1>2. OnTheWay(n, u) => OnTheWay(n, u)'
  BY <1>1 DEF OnTheWay
<1>3. Half(n, u) => Half(n, u)'
  BY DEF Half, ReadOf
<1>. QED  BY <1>2, <1>3

\* A task gets the last place.
LEMMA AskKeeps ==
    ASSUME DnsTypes, DnsTypes', NEW n, NEW u, Matched(n, u), D!Ask
    PROVE  Matched(n, u)'
<1>1. PICK t \in Askers, h \in Hosts :
          /\ asked[t] = NoRequest /\ requests' = Append(requests, h) /\ dnsQueue' = Append(dnsQueue, t)
          /\ asked' = [asked EXCEPT ![t] = h]
  BY DEF D!Ask
<1>2. UNCHANGED <<replies, thread, changed, reading, got, lookups, silent>>
  BY DEF D!Ask
<1> DEFINE r == Len(requests)
           q == Len(dnsQueue)
<1>3. /\ n \in Nat /\ u \in Nat /\ Len(lookups) = n + u /\ q = u + Busy + r
      /\ Busy \in {0, 1} /\ r \in Nat
  BY DEF Matched, Busy, DnsTypes
<1>4. Busy' = Busy
  BY <1>2 DEF Busy
<1>5. /\ Len(requests') = r + 1 /\ requests'[r + 1] = h /\ \A i \in 1 .. r : requests'[i] = requests[i]
      /\ Len(dnsQueue') = q + 1 /\ dnsQueue'[q + 1] = t /\ \A i \in 1 .. q : dnsQueue'[i] = dnsQueue[i]
  <2>1. requests \in Seq(Hosts) /\ dnsQueue \in Seq(Askers)
    BY DEF DnsTypes
  <2>2. Len(requests') = r + 1 /\ requests'[r + 1] = h /\ \A i \in 1 .. r : requests'[i] = requests[i]
    BY <1>1, <2>1
  <2>3. Len(dnsQueue') = q + 1 /\ dnsQueue'[q + 1] = t /\ \A i \in 1 .. q : dnsQueue'[i] = dnsQueue[i]
    BY <1>1, <2>1
  <2>. QED  BY <2>2, <2>3
<1>6. \A i \in 1 .. q : dnsQueue[i] # t /\ asked'[dnsQueue[i]] = asked[dnsQueue[i]]
  <2>1. TAKE i \in 1 .. q
  <2>2. asked[dnsQueue[i]] \in Hosts /\ dnsQueue[i] \in Askers
    BY QueuedAsked
  <2>3. dnsQueue[i] # t
    BY <1>1, <2>2, LookupsAssumption
  <2>. QED  BY <1>1, <2>2, <2>3 DEF DnsTypes
<1>7. asked'[t] = h
  BY <1>1 DEF DnsTypes
<1> HIDE DEF r, q
<1>8. \A i \in 1 .. u : asked'[dnsQueue'[i]] = lookups'[n + i].host
  <2>1. TAKE i \in 1 .. u
  <2>2. i \in 1 .. q
    BY <1>3
  <2>. QED  BY <1>2, <1>5, <1>6, <2>2 DEF Matched
<1>9. Busy = 1 => asked'[dnsQueue'[u + 1]] = thread'.host
  <2>1. SUFFICES ASSUME Busy = 1 PROVE asked'[dnsQueue'[u + 1]] = thread'.host
    OBVIOUS
  <2>2. u + 1 \in 1 .. q
    BY <1>3, <2>1
  <2>. QED  BY <1>2, <1>5, <1>6, <2>1, <2>2 DEF Matched
<1>10. \A i \in 1 .. r + 1 : asked'[dnsQueue'[u + Busy + i]] = requests'[i]
  <2>1. TAKE i \in 1 .. r + 1
  <2>2. CASE i = r + 1
    BY <1>3, <1>5, <1>7, <2>2
  <2>3. CASE i # r + 1
    <3>1. i \in 1 .. r /\ u + Busy + i \in 1 .. q
      BY <1>3, <2>3
    <3>2. asked[dnsQueue[u + Busy + i]] = requests[i]
      BY <3>1 DEF Matched, r
    <3>. QED  BY <1>5, <1>6, <3>1, <3>2
  <2>. QED  BY <2>2, <2>3
<1>11. \A i, j \in 1 .. q + 1 : dnsQueue'[i] = dnsQueue'[j] => i = j
  <2>1. TAKE i, j \in 1 .. q + 1
  <2>2. CASE i \in 1 .. q /\ j \in 1 .. q
    BY <1>5, <2>2 DEF Matched, q
  <2>3. CASE i \in 1 .. q /\ j = q + 1
    BY <1>5, <1>6, <2>3
  <2>4. CASE i = q + 1 /\ j \in 1 .. q
    BY <1>5, <1>6, <2>4
  <2>5. CASE i = q + 1 /\ j = q + 1
    BY <2>5
  <2>6. q \in Nat
    BY <1>3
  <2>. QED  BY <2>2, <2>3, <2>4, <2>5, <2>6
<1>12. Len(dnsQueue') = u + Busy + (r + 1)
  BY <1>3, <1>5
<1>. QED  BY <1>2, <1>3, <1>4, <1>5, <1>8, <1>9, <1>10, <1>11, <1>12 DEF Matched

\* The thread reads a name: the task that asked for it keeps its place.
LEMMA TakeKeepsPlaces ==
    ASSUME DnsTypes, NEW n, NEW u, Matched(n, u), D!Take
    PROVE  Matched(n, u)' /\ thread'.out = thread.out
<1>1. /\ thread.host = NoRequest /\ requests # <<>> /\ requests' = Tail(requests)
      /\ thread' = [thread EXCEPT !.host = Head(requests)]
      /\ UNCHANGED <<replies, changed, lookups, silent, dnsQueue, reading, asked, got>>
  BY DEF D!Take, D!mainVars
<1> DEFINE r == Len(requests)
<1>2. /\ n \in Nat /\ u \in Nat /\ Len(lookups) = n + u /\ Len(dnsQueue) = u + r /\ Busy = 0 /\ r \in Nat \ {0}
  BY <1>1 DEF Matched, Busy, DnsTypes
<1>3. /\ Head(requests) = requests[1] /\ requests[1] \in Hosts /\ Len(requests') = r - 1
      /\ \A i \in 1 .. r - 1 : requests'[i] = requests[i + 1]
  BY <1>1 DEF DnsTypes
<1>4. thread'.host = requests[1] /\ Busy' = 1 /\ thread'.out = thread.out
  BY <1>1, <1>3, LookupsAssumption DEF Busy, DnsTypes
<1>5. \A i \in 1 .. r : asked[dnsQueue[u + 0 + i]] = requests[i]
  BY <1>2 DEF Matched
<1> HIDE DEF r
<1>6. asked'[dnsQueue'[u + 1]] = thread'.host
  <2>1. 1 \in 1 .. r /\ u + 0 + 1 = u + 1
    BY <1>2
  <2>. QED  BY <1>1, <1>4, <1>5, <2>1
<1>7. \A i \in 1 .. r - 1 : asked'[dnsQueue'[u + 1 + i]] = requests'[i]
  <2>1. TAKE i \in 1 .. r - 1
  <2>2. i + 1 \in 1 .. r /\ u + 0 + (i + 1) = u + 1 + i
    BY <1>2
  <2>. QED  BY <1>1, <1>3, <1>5, <2>2
<1>8. Len(dnsQueue') = u + 1 + (r - 1)
  BY <1>1, <1>2
<1>9. \A i \in 1 .. u : asked'[dnsQueue'[i]] = lookups'[n + i].host
  BY <1>1 DEF Matched
<1>10. \A i \in 1 .. Len(lookups') : lookups'[i].answer \in Told_
  BY <1>1 DEF Matched
<1>11. \A i, j \in 1 .. Len(dnsQueue') : dnsQueue'[i] = dnsQueue'[j] => i = j
  BY <1>1 DEF Matched
<1>. QED  BY <1>1, <1>2, <1>3, <1>4, <1>6, <1>7, <1>8, <1>9, <1>10, <1>11 DEF Matched

\* The answers on their way
LEMMA OwedFacts ==
    ASSUME NEW l, NEW n \in Nat, NEW u \in Nat, \A i \in 1 .. n + u : l[i].answer \in Told_
    PROVE  /\ Answers(OwedBy(l, n, u)) /\ Len(OwedBy(l, n, u)) = u
           /\ \A j \in 1 .. u : OwedBy(l, n, u)[j] = Written(l[n + j].answer) /\ l[n + j].answer \in Told_
<1> DEFINE w == OwedBy(l, n, u)
           T == Seq(Text)
<1>1. \A j \in 1 .. u : l[n + j].answer \in Told_
  <2>1. TAKE j \in 1 .. u
  <2>2. n + j \in 1 .. n + u
    OBVIOUS
  <2>. QED  BY <2>2
<1>2. \A j \in 1 .. u : Written(l[n + j].answer) \in T /\ Len(Written(l[n + j].answer)) \in Nat \ {0}
  BY <1>1, WrittenFacts
<1>3. w \in [1 .. u -> T] /\ \A j \in 1 .. u : w[j] = Written(l[n + j].answer)
  BY <1>2 DEF OwedBy
<1> HIDE DEF w, T
<1>4. w \in Seq(T) /\ Len(w) = u
  BY <1>3
<1>5. Answers(w)
  BY <1>2, <1>3, <1>4 DEF Answers, T
<1>. QED  BY <1>1, <1>3, <1>4, <1>5 DEF w

\* Where the reader is
LEMMA PositionFacts ==
    ASSUME DnsTypes
    PROVE  /\ Position \in Nat /\ Len(reading.alias) \in Nat /\ Len(reading.ip) \in Nat
           /\ reading.at = "nothing" => Position = 0
           /\ reading.at = "name" => Position = 1
           /\ reading.at = "alias" => Position = 2 + Len(reading.alias)
           /\ reading.at = "ip" => Position = 3 + Len(reading.alias) + Len(reading.ip)
<1>1. reading.at \in Places /\ Len(reading.alias) \in Nat /\ Len(reading.ip) \in Nat
  BY DEF DnsTypes
<1>2. CASE reading.at = "nothing"
  BY <1>1, <1>2 DEF Position
<1>3. CASE reading.at = "name"
  BY <1>1, <1>3 DEF Position
<1>4. CASE reading.at = "alias"
  BY <1>1, <1>4 DEF Position
<1>5. CASE reading.at = "ip"
  <2>1. Position = 3 + Len(reading.alias) + Len(reading.ip)
    BY <1>5 DEF Position
  <2>2. \A i, j \in Nat : 3 + i + j \in Nat
    OBVIOUS
  <2>3. Position \in Nat
    BY <1>1, <2>1, <2>2, Zenon
  <2>. QED  BY <1>1, <1>5, <2>1, <2>3, Zenon
<1>. QED  BY <1>1, <1>2, <1>3, <1>4, <1>5 DEF Places

\* Nothing is on its way behind what has been written.
LEMMA NoMore == \A s \in Seq(Text) : s \o <<>> = s
  OBVIOUS

\* The thread has an answer for the task behind those whose answers are on their way.
LEMMA AnswerKeeps ==
    ASSUME DnsTypes, DnsTypes', NEW n, NEW u, Matched(n, u), Half(n, u), OnTheWay(n, u),
           thread.host # NoRequest, UNCHANGED <<requests, replies, dnsQueue, reading, asked, got>>,
           NEW answer \in Told_, WritesAnswer(answer)
    PROVE  Matched(n, u + 1)' /\ Half(n, u + 1)' /\ OnTheWay(n, u + 1)'
<1> DEFINE r == Len(requests)
           a == Written(answer)
<1>1. /\ n \in Nat /\ u \in Nat /\ Len(lookups) = n + u /\ Len(dnsQueue) = u + 1 + r /\ Busy = 1 /\ r \in Nat
  BY DEF Matched, Busy, DnsTypes
<1>2. thread'.host = NoRequest /\ thread'.out = a /\ Busy' = 0 /\ UNCHANGED silent
  BY DEF WritesAnswer, Busy
<1>3. /\ Len(lookups') = n + (u + 1) /\ lookups'[n + (u + 1)].host = thread.host
      /\ lookups'[n + (u + 1)].answer = answer
      /\ \A i \in 1 .. n + u : lookups'[i] = lookups[i]
  <2> DEFINE x == [host |-> thread.host, answer |-> answer]
  <2>1. lookups' = Append(lookups, x) /\ lookups \in Seq(Lookup)
    BY DEF WritesAnswer, DnsTypes
  <2>2. x.host = thread.host /\ x.answer = answer
    OBVIOUS
  <2> HIDE DEF x
  <2>3. Len(lookups') = Len(lookups) + 1 /\ lookups'[Len(lookups) + 1] = x /\ \A i \in 1 .. Len(lookups) : lookups'[i] = lookups[i]
    BY <2>1
  <2>. QED  BY <1>1, <2>2, <2>3
<1> HIDE DEF r
<1>4. Matched(n, u + 1)'
  <2>1. \A i \in 1 .. Len(lookups') : lookups'[i].answer \in Told_
    <3>1. TAKE i \in 1 .. Len(lookups')
    <3>2. CASE i = n + (u + 1)
      BY <1>3, <3>2
    <3>3. CASE i # n + (u + 1)
      <4>1. i \in 1 .. n + u
        BY <1>1, <1>3, <3>3
      <4>. QED  BY <1>1, <1>3, <4>1 DEF Matched
    <3>. QED  BY <3>2, <3>3
  <2>2. \A i \in 1 .. u + 1 : asked'[dnsQueue'[i]] = lookups'[n + i].host
    <3>1. TAKE i \in 1 .. u + 1
    <3>2. CASE i = u + 1
      BY <1>1, <1>3, <3>2 DEF Matched
    <3>3. CASE i # u + 1
      <4>1. i \in 1 .. u /\ n + i \in 1 .. n + u
        BY <1>1, <3>3
      <4>. QED  BY <1>3, <4>1 DEF Matched
    <3>. QED  BY <3>2, <3>3
  <2>3. \A i \in 1 .. Len(requests') : asked'[dnsQueue'[(u + 1) + 0 + i]] = requests'[i]
    <3>1. TAKE i \in 1 .. Len(requests')
    <3>2. (u + 1) + 0 + i = u + 1 + i
      BY <1>1
    <3>3. asked[dnsQueue[u + 1 + i]] = requests[i]
      BY <1>1 DEF Matched
    <3>. QED  BY <3>2, <3>3
  <2>4. \A i, j \in 1 .. Len(dnsQueue') : dnsQueue'[i] = dnsQueue'[j] => i = j
    BY DEF Matched
  <2>5. Len(dnsQueue') = (u + 1) + 0 + Len(requests') /\ u + 1 \in Nat
    BY <1>1 DEF r
  <2>. QED  BY <1>1, <1>2, <1>3, <2>1, <2>2, <2>3, <2>4, <2>5 DEF Matched
<1>5. Half(n, u + 1)'
  <2>1. CASE reading.at = "nothing"
    BY <2>1 DEF Half
  <2>2. CASE reading.at # "nothing"
    <3>1. u >= 1 /\ ReadOf(lookups[n + 1].answer)
      BY <2>2 DEF Half
    <3>2. n + 1 \in 1 .. n + u /\ u + 1 >= 1
      BY <1>1, <3>1
    <3>3. ReadOf(lookups[n + 1].answer)'
      BY <1>3, <3>1, <3>2 DEF ReadOf
    <3>. QED  BY <2>2, <3>2, <3>3 DEF Half
  <2>. QED  BY <2>1, <2>2
<1>6. OnTheWay(n, u + 1)'
  <2> DEFINE w == Owed(n, u)
             v == Owed(n, u + 1)'
  <2>1. Answers(w) /\ Len(w) = u /\ \A j \in 1 .. u : w[j] = Written(lookups[n + j].answer)
    <3>1. \A i \in 1 .. n + u : lookups[i].answer \in Told_
      BY <1>1 DEF Matched
    <3>2. n \in Nat /\ u \in Nat
      BY <1>1 DEF Matched
    <3>3. Answers(OwedBy(lookups, n, u)) /\ Len(OwedBy(lookups, n, u)) = u
          /\ \A j \in 1 .. u : OwedBy(lookups, n, u)[j] = Written(lookups[n + j].answer)
      BY <3>1, <3>2, OwedFacts
    <3>. QED  BY <3>3 DEF Owed
  <2>2. Answers(v) /\ Len(v) = u + 1 /\ \A j \in 1 .. u + 1 : v[j] = Written(lookups'[n + j].answer)
    <3>1. \A i \in 1 .. n + (u + 1) : lookups'[i].answer \in Told_
      BY <1>3, <1>4 DEF Matched
    <3>2. u + 1 \in Nat
      BY <1>1
    <3>3. Answers(OwedBy(lookups', n, u + 1))
          /\ Len(OwedBy(lookups', n, u + 1)) = u + 1
          /\ \A j \in 1 .. u + 1 : OwedBy(lookups', n, u + 1)[j] = Written(lookups'[n + j].answer)
      BY <1>1, <3>1, <3>2, OwedFacts
    <3>. QED  BY <3>3 DEF Owed
  <2>3. a \in Seq(Text) /\ Len(a) \in Nat \ {0}
    BY WrittenFacts
  <2> HIDE DEF w, v, a
  <2>4. v = Append(w, a)
    <3>1. \A j \in 1 .. u : v[j] = w[j]
      <4>1. TAKE j \in 1 .. u
      <4>2. n + j \in 1 .. n + u /\ j \in 1 .. u + 1
        BY <1>1
      <4>. QED  BY <1>3, <2>1, <2>2, <4>2
    <3>2. v[u + 1] = a
      <4>1. u + 1 \in 1 .. u + 1
        BY <1>1
      <4>. QED  BY <1>3, <2>2, <4>1 DEF a
    <3>3. w \in Seq(Seq(Text)) /\ v \in Seq(Seq(Text))
      BY <2>1, <2>2 DEF Answers
    <3> DEFINE x == Append(w, a)
    <3>4. x \in Seq(Seq(Text)) /\ Len(x) = u + 1 /\ x[u + 1] = a /\ \A j \in 1 .. u : x[j] = w[j]
      BY <2>1, <2>3, <3>3
    <3> HIDE DEF x
    <3>5. \A j \in 1 .. Len(v) : v[j] = x[j]
      <4>1. \A j \in 1 .. u + 1 : j \in 1 .. u \/ j = u + 1
        BY <1>1
      <4>. QED  BY <2>2, <3>1, <3>2, <3>4, <4>1
    <3>6. v = x
      BY <2>2, <3>3, <3>4, <3>5, SeqEqual
    <3>. QED  BY <3>6 DEF x
  <2>5. PICK c : Cuts(w, Position, replies \o thread.out, c)
    BY DEF OnTheWay, w
  <2>6. thread.out = <<>> /\ replies \in Seq(Text) /\ replies \o thread.out = replies
    BY NoMore DEF DnsTypes
  <2>7. Cuts(w, Position, replies, c)
    BY <2>5, <2>6
  <2>8. \E d : Cuts(Append(w, a), Position, replies \o a, d)
    BY <2>1, <2>3, <2>6, <2>7, PositionFacts, WriteMore
  <2>9. Position' = Position
    BY DEF Position
  <2>10. \E d : Cuts(v, Position', replies' \o thread'.out, d)
    BY <1>2, <2>4, <2>8, <2>9
  <2>. QED  BY <2>10 DEF OnTheWay, v
<1>. QED  BY <1>4, <1>5, <1>6

\* The string that is read next is one of the first answer on its way.
LEMMA NextRead ==
    ASSUME DnsTypes, NEW n, NEW u, Matched(n, u), OnTheWay(n, u), replies # <<>>,
           NEW a, a = lookups[n + 1].answer
    PROVE  /\ u >= 1 /\ a \in Told_ /\ Position + 1 <= Len(Written(a)) /\ Head(replies) = Written(a)[Position + 1]
           /\ Position + 1 < Len(Written(a)) => \E d : Cuts(Owed(n, u), Position + 1, Tail(replies) \o thread.out, d)
           /\ Position + 1 = Len(Written(a)) => \E d : Cuts(Owed(n + 1, u - 1), 0, Tail(replies) \o thread.out, d)
<1> DEFINE w == Owed(n, u)
           v == Owed(n + 1, u - 1)
           s == replies \o thread.out
           t == Tail(replies) \o thread.out
<1>1. n \in Nat /\ u \in Nat /\ \A i \in 1 .. n + u : lookups[i].answer \in Told_
  BY DEF Matched
<1>2. Answers(w) /\ Len(w) = u /\ \A j \in 1 .. u : w[j] = Written(lookups[n + j].answer) /\ lookups[n + j].answer \in Told_
  BY <1>1, OwedFacts DEF Owed
<1>3. PICK c : Cuts(w, Position, s, c)
  BY DEF OnTheWay
<1>4. s \in Seq(Text) /\ s # <<>> /\ Head(s) = Head(replies) /\ Tail(s) = t
  <2>1. replies \in Seq(Text) /\ thread.out \in Seq(Text)
    BY DEF DnsTypes
  <2> DEFINE o == thread.out
             r == Tail(replies)
             q == Tail(s)
  <2>2. /\ s \in Seq(Text) /\ Len(s) = Len(replies) + Len(o) /\ \A i \in 1 .. Len(replies) : s[i] = replies[i]
        /\ \A i \in 1 .. Len(o) : s[Len(replies) + i] = o[i]
    BY <2>1, Joined DEF IsJoin
  <2>3. /\ r \in Seq(Text) /\ Len(r) = Len(replies) - 1 /\ Len(replies) \in Nat \ {0} /\ Len(o) \in Nat
        /\ \A i \in 1 .. Len(r) : r[i] = replies[i + 1]
    BY <2>1
  <2>4. t \in Seq(Text) /\ IsJoin(t, r, o)
    BY <2>1, <2>3, Joined
  <2> HIDE DEF o, r, s, t
  <2>5. s # <<>> /\ Head(s) = Head(replies)
    BY <2>1, <2>2, <2>3
  <2>6. q \in Seq(Text) /\ Len(q) = Len(s) - 1 /\ \A i \in 1 .. Len(q) : q[i] = s[i + 1]
    BY <2>2, <2>5
  <2> HIDE DEF q
  <2>7. \A i \in 1 .. Len(q) : q[i] = t[i]
    <3>1. TAKE i \in 1 .. Len(q)
    <3>2. CASE i <= Len(r)
      <4>1. i \in 1 .. Len(r) /\ i + 1 \in 1 .. Len(replies)
        BY <2>3, <2>6, <3>2
      <4>. QED  BY <2>2, <2>3, <2>4, <2>6, <4>1 DEF IsJoin
    <3>3. CASE i > Len(r)
      <4>1. i - Len(r) \in 1 .. Len(o) /\ Len(r) + (i - Len(r)) = i /\ Len(replies) + (i - Len(r)) = i + 1
        BY <2>2, <2>3, <2>6, <3>3
      <4>2. t[i] = o[i - Len(r)]
        BY <2>4, <4>1 DEF IsJoin
      <4>3. s[i + 1] = o[i - Len(r)]
        BY <2>2, <4>1
      <4>. QED  BY <2>6, <4>2, <4>3
    <3>. QED  BY <2>3, <2>6, <3>2, <3>3
  <2>8. Len(q) = Len(t)
    BY <2>2, <2>3, <2>4, <2>6 DEF IsJoin
  <2>9. q = t
    BY <2>4, <2>6, <2>7, <2>8, SeqEqual
  <2>. QED  BY <2>2, <2>5, <2>9 DEF q
<1> HIDE DEF w, v, s, t
<1>5. Len(w) \in Nat \ {0} /\ Position + 1 <= Len(w[1]) /\ Head(s) = w[1][Position + 1]
  BY <1>2, <1>3, <1>4, PositionFacts, NextString
<1>6. u >= 1 /\ w[1] = Written(a) /\ a \in Told_
  <2>1. 1 \in 1 .. u
    BY <1>1, <1>2, <1>5
  <2>. QED  BY <1>1, <1>2, <2>1
<1>7. ASSUME Position + 1 < Len(Written(a))
      PROVE  \E d : Cuts(w, Position + 1, t, d)
  BY <1>2, <1>3, <1>4, <1>6, <1>7, PositionFacts, ReadOn
<1>8. ASSUME Position + 1 = Len(Written(a))
      PROVE  \E d : Cuts(v, 0, t, d)
  <2>1. \E d : Cuts(Tail(w), 0, t, d)
    BY <1>2, <1>3, <1>4, <1>6, <1>8, PositionFacts, ReadLast
  <2>2. Tail(w) = v
    <3>1. n + 1 \in Nat /\ u - 1 \in Nat /\ (n + 1) + (u - 1) = n + u
      BY <1>1, <1>6
    <3>2. Answers(v) /\ Len(v) = u - 1 /\ \A j \in 1 .. u - 1 : v[j] = Written(lookups[(n + 1) + j].answer)
      BY <1>1, <3>1, OwedFacts DEF Owed, v
    <3> DEFINE y == Tail(w)
    <3>3. y \in Seq(Seq(Text)) /\ Len(y) = u - 1 /\ \A j \in 1 .. u - 1 : y[j] = w[j + 1]
      BY <1>2, <1>5 DEF Answers
    <3> HIDE DEF y
    <3>4. \A j \in 1 .. u - 1 : y[j] = v[j]
      <4>1. TAKE j \in 1 .. u - 1
      <4>2. j + 1 \in 1 .. u /\ n + (j + 1) = (n + 1) + j
        BY <1>1
      <4>. QED  BY <1>2, <3>2, <3>3, <4>2
    <3>5. y = v
      BY <3>2, <3>3, <3>4, SeqEqual DEF Answers
    <3>. QED  BY <3>5 DEF y
  <2>. QED  BY <2>1, <2>2
<1>9. Position + 1 <= Len(Written(a)) /\ Head(replies) = Written(a)[Position + 1]
  BY <1>4, <1>5, <1>6
<1>. QED  BY <1>6, <1>7, <1>8, <1>9 DEF w, v, t

\* One more string of an answer has been read: never its last, nor one of another.
LEMMA ReadOnKeeps ==
    ASSUME DnsTypes, DnsTypes', NEW n, NEW u, Matched(n, u), Half(n, u), OnTheWay(n, u), replies # <<>>,
           UNCHANGED lookups,
           \/ /\ reading.at = "nothing" /\ Head(replies) = D!Empty
              /\ reading' = [reading EXCEPT !.at = "name"]
           \/ reading.at = "name" /\ reading' = [reading EXCEPT !.at = "alias", !.name = <<Head(replies)>>]
           \/ reading.at = "alias" /\ Head(replies) = D!Empty /\ reading' = [reading EXCEPT !.at = "ip"]
           \/ /\ reading.at = "alias" /\ Head(replies) # D!Empty
              /\ reading' = [reading EXCEPT !.alias = Append(@, Head(replies))]
           \/ /\ reading.at = "ip" /\ Head(replies) # D!Empty
              /\ reading' = [reading EXCEPT !.ip = Append(@, Head(replies))]
    PROVE  Half(n, u)' /\ Position' = Position + 1 /\ Position + 1 < Len(Written(lookups[n + 1].answer))
<1> DEFINE a == lookups[n + 1].answer
           W == Written(a)
           h == Head(replies)
           m == Len(a.alias)
           p == Len(a.ip)
           L == Len(W)
           P == Position
           k == Len(reading.alias)
           l == Len(reading.ip)
<1>1. u >= 1 /\ a \in Told_ /\ P + 1 <= L /\ h = W[P + 1]
  BY NextRead
<1>2. h \in Text
  BY DEF DnsTypes
<1>3. /\ reading \in [at : Places, name : Seq(Text), alias : Seq(Text), ip : Seq(Text)]
      /\ reading' \in [at : Places, name : Seq(Text), alias : Seq(Text), ip : Seq(Text)]
  BY DEF DnsTypes
<1>4. a' = a
  OBVIOUS
<1>5. /\ a.name \in Seq(Text) /\ a.alias \in Seq(Text) /\ a.ip \in Seq(Text)
      /\ m \in Nat /\ p \in Nat /\ k \in Nat /\ l \in Nat /\ P \in Nat
  BY SMTT(60), <1>1, ToldFacts, PositionFacts DEF Answer
<1>6. ASSUME a.error = D!Empty
      PROVE  /\ L = 4 + m + p /\ W[1] = D!Empty /\ W[2] = a.name[1] /\ Len(a.name) = 1
             /\ \A i \in 1 .. m : W[2 + i] = a.alias[i] /\ a.alias[i] # D!Empty
             /\ W[3 + m] = D!Empty
             /\ \A i \in 1 .. p : W[3 + m + i] = a.ip[i] /\ a.ip[i] # D!Empty
             /\ W[4 + m + p] = D!Empty
  <2>1. /\ Len(a.name) = 1 /\ \A i \in DOMAIN a.alias : a.alias[i] # D!Empty
        /\ \A i \in DOMAIN a.ip : a.ip[i] # D!Empty
    BY <1>1, <1>6, ToldFacts
  <2>2. DOMAIN a.alias = 1 .. m /\ DOMAIN a.ip = 1 .. p
    BY <1>5
  <2>3. /\ L = 4 + m + p /\ W[1] = D!Empty /\ W[2] = a.name[1]
        /\ \A i \in 1 .. m : W[2 + i] = a.alias[i]
        /\ W[3 + m] = D!Empty
        /\ \A i \in 1 .. p : W[3 + m + i] = a.ip[i]
        /\ W[4 + m + p] = D!Empty
    BY <1>1, <1>6, WrittenFacts
  <2>. QED  BY <2>1, <2>2, <2>3, Zenon
<1>7. a.error # D!Empty => W[1] = a.error
  BY <1>1, WrittenFacts
<1>8. /\ reading.at # "nothing" => ReadOf(a)
      /\ reading.at = "alias" => P = 2 + k /\ k <= m
      /\ reading.at = "ip" => P = 3 + m + l /\ l <= p
  <2>1. reading.at # "nothing" => ReadOf(a)
    BY DEF Half
  <2>2. reading.at = "alias" => P = 2 + k /\ k <= m
    BY <2>1, PositionFacts DEF ReadOf, Begins
  <2>3. reading.at = "ip" => P = 3 + m + l /\ l <= p
    BY <2>1, PositionFacts DEF ReadOf, Begins
  <2>. QED  BY <2>1, <2>2, <2>3, Zenon
<1> HIDE DEF a, W, h, m, p, L, P, k, l
<1>9. CASE reading.at = "nothing" /\ h = D!Empty /\ reading' = [reading EXCEPT !.at = "name"]
  <2>1. P = 0 /\ reading = D!NotReading
    BY <1>9, PositionFacts DEF Half, P
  <2>2. a.error = D!Empty
    <3>1. P + 1 = 1
      BY <2>1
    <3>. QED  BY <1>1, <1>7, <1>9, <3>1, Zenon
  <2>3. reading'.at = "name" /\ reading'.name = <<>> /\ reading'.alias = <<>> /\ reading'.ip = <<>>
    BY <1>9, <2>1 DEF D!NotReading
  <2>4. Position' = P + 1
    BY <2>1, <2>3 DEF Position
  <2>5. ReadOf(a)'
    BY <1>4, <2>2, <2>3 DEF ReadOf
  <2>6. P + 1 < L
    <3>1. L = 4 + m + p
      BY <1>6, <2>2
    <3>. QED  BY <1>5, <2>1, <3>1
  <2>. QED  BY <1>1, <2>3, <2>4, <2>5, <2>6 DEF Half, a, W, P, L
<1>10. CASE reading.at = "name" /\ reading' = [reading EXCEPT !.at = "alias", !.name = <<h>>]
  <2>1. P = 1 /\ ReadOf(a) /\ a.error = D!Empty /\ reading.alias = <<>> /\ reading.ip = <<>>
    BY <1>8, <1>10, PositionFacts DEF ReadOf, P
  <2>2. L = 4 + m + p /\ W[2] = a.name[1] /\ Len(a.name) = 1
    BY <1>6, <2>1
  <2>3. h = a.name[1]
    <3>1. P + 1 = 2
      BY <2>1
    <3>. QED  BY <1>1, <2>2, <3>1, Zenon
  <2>4. P + 1 < L
    BY <1>5, <2>1, <2>2
  <2>5. reading'.at = "alias" /\ reading'.name = <<h>> /\ reading'.alias = <<>> /\ reading'.ip = <<>>
    BY <1>3, <1>10, <2>1
  <2>6. <<h>> = a.name
    <3> DEFINE x == <<h>>
    <3>1. x \in Seq(Text) /\ Len(x) = 1 /\ x[1] = h
      BY <1>2
    <3> HIDE DEF x
    <3>2. x = a.name
      BY <1>5, <2>2, <2>3, <3>1, SeqEqual
    <3>. QED  BY <3>2 DEF x
  <2>7. Position' = P + 1
    BY <2>1, <2>5 DEF Position
  <2>8. ReadOf(a)'
    BY <1>4, <1>5, <2>1, <2>5, <2>6 DEF ReadOf, Begins, m
  <2>. QED  BY <1>1, <2>4, <2>5, <2>7, <2>8 DEF Half, a, W, P, L
<1>11. CASE reading.at = "alias" /\ h = D!Empty /\ reading' = [reading EXCEPT !.at = "ip"]
  <2>1. /\ P = 2 + k /\ k <= m /\ ReadOf(a) /\ a.error = D!Empty /\ reading.name = a.name
        /\ Begins(reading.alias, a.alias) /\ reading.ip = <<>>
    BY <1>8, <1>11 DEF ReadOf
  <2>2. L = 4 + m + p /\ \A i \in 1 .. m : W[2 + i] = a.alias[i] /\ a.alias[i] # D!Empty
    BY <1>6, <2>1
  <2>3. k = m
    <3>1. SUFFICES ASSUME k < m PROVE FALSE
      BY <1>5, <2>1
    <3>2. k + 1 \in 1 .. m /\ 2 + (k + 1) = P + 1
      BY <1>5, <2>1, <3>1
    <3>. QED  BY <1>1, <1>11, <2>2, <3>2
  <2>4. reading.alias = a.alias
    BY <1>3, <1>5, <2>1, <2>3, SeqEqual DEF Begins, k, m
  <2>5. reading'.at = "ip" /\ reading'.name = a.name /\ reading'.alias = a.alias /\ reading'.ip = <<>>
    BY <1>3, <1>11, <2>1, <2>4
  <2>6. Position' = P + 1
    <3>1. Position' = 3 + m + 0
      BY <2>5 DEF Position, m
    <3>. QED  BY <1>5, <2>1, <2>3, <3>1
  <2>7. ReadOf(a)'
    BY <1>4, <1>5, <2>1, <2>5 DEF ReadOf, Begins, p
  <2>8. P + 1 < L
    BY <1>5, <2>1, <2>2, <2>3
  <2>. QED  BY <1>1, <2>5, <2>6, <2>7, <2>8 DEF Half, a, W, P, L
<1>12. CASE reading.at = "alias" /\ h # D!Empty /\ reading' = [reading EXCEPT !.alias = Append(@, h)]
  <2> DEFINE x == Append(reading.alias, h)
  <2>1. /\ P = 2 + k /\ k <= m /\ ReadOf(a) /\ a.error = D!Empty /\ reading.name = a.name
        /\ Begins(reading.alias, a.alias) /\ reading.ip = <<>>
    BY <1>8, <1>12 DEF ReadOf
  <2>2. L = 4 + m + p /\ W[3 + m] = D!Empty /\ \A i \in 1 .. m : W[2 + i] = a.alias[i]
    BY <1>6, <2>1
  <2>3. k < m
    <3>1. SUFFICES ASSUME k = m PROVE FALSE
      BY <1>5, <2>1
    <3>2. P + 1 = 3 + m
      BY <1>5, <2>1, <3>1
    <3>. QED  BY <1>1, <1>12, <2>2, <3>2
  <2>4. h = a.alias[k + 1]
    <3>1. k + 1 \in 1 .. m /\ 2 + (k + 1) = P + 1
      BY <1>5, <2>1, <2>3
    <3>. QED  BY <1>1, <2>2, <3>1
  <2>5. x \in Seq(Text) /\ Len(x) = k + 1 /\ x[k + 1] = h /\ \A i \in 1 .. k : x[i] = reading.alias[i]
    BY <1>2, <1>3 DEF k
  <2>6. reading'.at = "alias" /\ reading'.name = a.name /\ reading'.alias = x /\ reading'.ip = <<>>
    BY <1>3, <1>12, <2>1
  <2> HIDE DEF x
  <2>7. Begins(x, a.alias)
    <3>1. \A i \in 1 .. k + 1 : i \in 1 .. k \/ i = k + 1
      BY <1>5
    <3>2. \A i \in 1 .. k : reading.alias[i] = a.alias[i]
      BY <2>1 DEF Begins, k
    <3>3. k + 1 <= m
      BY <1>5, <2>3
    <3>. QED  BY <2>4, <2>5, <3>1, <3>2, <3>3 DEF Begins, m
  <2>8. Position' = P + 1
    <3>1. Position' = 2 + (k + 1)
      BY <2>5, <2>6 DEF Position
    <3>. QED  BY <1>5, <2>1, <3>1
  <2>9. ReadOf(a)'
    BY <1>4, <2>1, <2>6, <2>7 DEF ReadOf
  <2>10. P + 1 < L
    BY <1>5, <2>1, <2>2, <2>3
  <2>. QED  BY <1>1, <2>6, <2>8, <2>9, <2>10 DEF Half, a, W, P, L
<1>13. CASE reading.at = "ip" /\ h # D!Empty /\ reading' = [reading EXCEPT !.ip = Append(@, h)]
  <2> DEFINE x == Append(reading.ip, h)
  <2>1. /\ P = 3 + m + l /\ l <= p /\ ReadOf(a) /\ a.error = D!Empty /\ reading.name = a.name
        /\ reading.alias = a.alias /\ Begins(reading.ip, a.ip)
    BY <1>8, <1>13 DEF ReadOf
  <2>2. L = 4 + m + p /\ W[4 + m + p] = D!Empty /\ \A i \in 1 .. p : W[3 + m + i] = a.ip[i]
    BY <1>6, <2>1
  <2>3. l < p
    <3>1. SUFFICES ASSUME l = p PROVE FALSE
      BY <1>5, <2>1
    <3>2. P + 1 = 4 + m + p
      BY <1>5, <2>1, <3>1
    <3>. QED  BY <1>1, <1>13, <2>2, <3>2
  <2>4. h = a.ip[l + 1]
    <3>1. l + 1 \in 1 .. p /\ 3 + m + (l + 1) = P + 1
      <4>1. l + 1 \in 1 .. p
        BY <1>5, <2>1, <2>3
      <4>2. P = 3 + m + l /\ P \in Nat /\ m \in Nat /\ l \in Nat
        BY <1>5, <2>1
      <4>3. 3 + m + (l + 1) = P + 1
        BY <4>2
      <4>. QED  BY <4>1, <4>3
    <3>. QED  BY <1>1, <2>2, <3>1
  <2>5. x \in Seq(Text) /\ Len(x) = l + 1 /\ x[l + 1] = h /\ \A i \in 1 .. l : x[i] = reading.ip[i]
    BY <1>2, <1>3 DEF l
  <2>6. reading'.at = "ip" /\ reading'.name = a.name /\ reading'.alias = a.alias /\ reading'.ip = x
    BY <1>3, <1>13, <2>1
  <2> HIDE DEF x
  <2>7. Begins(x, a.ip)
    <3>1. \A i \in 1 .. l + 1 : i \in 1 .. l \/ i = l + 1
      BY <1>5
    <3>2. \A i \in 1 .. l : reading.ip[i] = a.ip[i]
      BY <2>1 DEF Begins, l
    <3>3. l + 1 <= p
      BY <1>5, <2>3
    <3>. QED  BY <2>4, <2>5, <3>1, <3>2, <3>3 DEF Begins, p
  <2>8. Position' = P + 1
    <3>1. Position' = 3 + m + (l + 1)
      BY <2>5, <2>6 DEF Position, m
    <3>. QED  BY <1>5, <2>1, <3>1
  <2>9. ReadOf(a)'
    BY <1>4, <2>1, <2>6, <2>7 DEF ReadOf
  <2>10. P + 1 < L
    BY <1>5, <2>1, <2>2, <2>3
  <2>. QED  BY <1>1, <2>6, <2>8, <2>9, <2>10 DEF Half, a, W, P, L
<1>. QED  BY <1>9, <1>10, <1>11, <1>12, <1>13 DEF h, a, W, P, L

\* The last string of an answer: what is told is what was written.
LEMMA ReadLastTells ==
    ASSUME DnsTypes, NEW n, NEW u, Matched(n, u), Half(n, u), OnTheWay(n, u), replies # <<>>,
           NEW told,
           \/ reading.at = "nothing" /\ Head(replies) # D!Empty /\ told = D!Error(Head(replies))
           \/ reading.at = "ip" /\ Head(replies) = D!Empty /\ told = D!Found(reading)
    PROVE  told = lookups[n + 1].answer /\ Position + 1 = Len(Written(lookups[n + 1].answer))
<1> DEFINE a == lookups[n + 1].answer
           W == Written(a)
           h == Head(replies)
           m == Len(a.alias)
           p == Len(a.ip)
           L == Len(W)
           P == Position
           l == Len(reading.ip)
<1>1. a \in Told_ /\ P + 1 <= L /\ h = W[P + 1]
  BY NextRead
<1>2. reading \in [at : Places, name : Seq(Text), alias : Seq(Text), ip : Seq(Text)]
  BY DEF DnsTypes
<1>3. /\ a.name \in Seq(Text) /\ a.alias \in Seq(Text) /\ a.ip \in Seq(Text)
      /\ m \in Nat /\ p \in Nat /\ l \in Nat /\ P \in Nat
  BY SMTT(60), <1>1, ToldFacts, PositionFacts DEF Answer
<1>4. CASE reading.at = "nothing" /\ h # D!Empty /\ told = D!Error(h)
  <2>1. P = 0 /\ P + 1 = 1
    BY <1>4, PositionFacts
  <2>2. a.error # D!Empty
    <3>1. SUFFICES ASSUME a.error = D!Empty PROVE FALSE
      OBVIOUS
    <3>2. W[1] = D!Empty
      BY <1>1, <3>1, WrittenFacts
    <3>. QED  BY <1>1, <1>4, <2>1, <3>2, Zenon
  <2>3. L = 1 /\ W[1] = a.error /\ a = D!Error(a.error)
    BY <1>1, <2>2, WrittenFacts, ToldFacts
  <2>4. h = a.error
    BY <1>1, <2>1, <2>3, Zenon
  <2>. QED  BY <1>4, <2>1, <2>3, <2>4, Zenon
<1>5. CASE reading.at = "ip" /\ h = D!Empty /\ told = D!Found(reading)
  <2>1. /\ ReadOf(a) /\ a.error = D!Empty /\ reading.name = a.name /\ reading.alias = a.alias
        /\ Begins(reading.ip, a.ip) /\ P = 3 + m + l /\ l <= p
    BY <1>5, PositionFacts DEF Half, ReadOf, Begins
  <2>2. L = 4 + m + p /\ \A i \in 1 .. p : W[3 + m + i] = a.ip[i]
    BY <1>1, <2>1, WrittenFacts
  <2>3. a = D!Found(a) /\ \A i \in DOMAIN a.ip : a.ip[i] # D!Empty
    BY <1>1, <2>1, ToldFacts
  <2> HIDE DEF a, W, h, m, p, L, P, l
  <2>4. l = p
    <3>1. SUFFICES ASSUME l < p PROVE FALSE
      BY <1>3, <2>1
    <3>2. l + 1 \in 1 .. p
      BY <1>3, <3>1
    <3>3. 3 + m + (l + 1) = P + 1
      BY <1>3, <2>1
    <3>4. a.ip[l + 1] # D!Empty
      BY <1>3, <2>3, <3>2 DEF p
    <3>. QED  BY <1>1, <1>5, <2>2, <3>2, <3>3, <3>4
  <2>5. reading.ip = a.ip
    BY <1>2, <1>3, <2>1, <2>4, SeqEqual DEF Begins, l, p
  <2>6. told = a
    BY <1>5, <2>1, <2>3, <2>5 DEF D!Found
  <2>7. P + 1 = L
    BY <1>3, <2>1, <2>2, <2>4
  <2>. QED  BY <2>6, <2>7 DEF a, P, L, W
<1>. QED  BY <1>4, <1>5 DEF h, a, P, L, W

\* The task that waits longest gets the first answer that is on its way, the one to its own
\* request; the others keep their places.
LEMMA WakeKeeps ==
    ASSUME DnsTypes, DnsTypes', NEW n, NEW u, Matched(n, u), u >= 1, D!WakesRequester,
           D!Wake(lookups[n + 1].answer), UNCHANGED <<requests, thread, lookups>>
    PROVE  Matched(n + 1, u - 1)' /\ Half(n + 1, u - 1)' /\ D!WakesRequester' /\ Position' = 0
<1> DEFINE q == Len(dnsQueue)
           r == Len(requests)
           t == Head(dnsQueue)
           g == [host |-> asked[t], answer |-> lookups[n + 1].answer]
<1>1. /\ n \in Nat /\ u \in Nat \ {0} /\ Len(lookups) = n + u /\ q = u + Busy + r
      /\ Busy \in {0, 1} /\ r \in Nat /\ q \in Nat \ {0}
  <2>1. n \in Nat /\ u \in Nat /\ Len(lookups) = n + u /\ q = u + Busy + r
    BY DEF Matched
  <2>2. Busy \in {0, 1} /\ r \in Nat
    BY DEF Busy, DnsTypes
  <2>. QED  BY <2>1, <2>2
<1>2. /\ dnsQueue # <<>> /\ t = dnsQueue[1] /\ t \in Askers /\ Len(dnsQueue') = q - 1
      /\ \A i \in 1 .. q - 1 : dnsQueue'[i] = dnsQueue[i + 1]
      /\ reading' = D!NotReading /\ dnsQueue' = Tail(dnsQueue)
  <2>1. dnsQueue # <<>>
    BY <1>1
  <2>2. reading' = D!NotReading /\ dnsQueue' = Tail(dnsQueue)
    BY <2>1 DEF D!Wake
  <2>3. dnsQueue \in Seq(Askers)
    BY DEF DnsTypes
  <2>. QED  BY <2>1, <2>2, <2>3
<1>3. asked' = [asked EXCEPT ![t] = NoRequest] /\ got' = [got EXCEPT ![t] = g]
  BY <1>2 DEF D!Wake
<1>4. Busy' = Busy /\ thread' = thread /\ requests' = requests /\ lookups' = lookups
  BY DEF Busy
<1>5. g = lookups[n + 1] /\ n + 1 \in 1 .. Len(lookups)
  <2>1. n + 1 \in 1 .. Len(lookups) /\ 1 \in 1 .. u
    BY <1>1
  <2>2. lookups[n + 1] \in Lookup
    BY <2>1, LookupTypes
  <2>3. asked[t] = lookups[n + 1].host
    BY <1>2, <2>1 DEF Matched
  <2>4. g = lookups[n + 1]
    BY <2>2, <2>3 DEF Lookup
  <2>. QED  BY <2>1, <2>4
<1> HIDE DEF g, t
<1>6. D!WakesRequester'
  <2>1. SUFFICES ASSUME NEW s \in Askers, got'[s] # NoRequest
                 PROVE  \E i \in DOMAIN lookups' : lookups'[i] = got'[s]
    BY DEF D!WakesRequester
  <2>2. CASE s = t
    <3>1. got'[s] = g
      BY <1>2, <1>3, <2>2 DEF DnsTypes
    <3>2. n + 1 \in DOMAIN lookups
      BY <1>5 DEF DnsTypes
    <3>. QED  BY <1>4, <1>5, <3>1, <3>2
  <2>3. CASE s # t
    <3>1. got'[s] = got[s]
      BY <1>3, <2>1, <2>3 DEF DnsTypes
    <3>. QED  BY <1>4, <2>1, <3>1 DEF D!WakesRequester
  <2>. QED  BY <2>2, <2>3
<1>7. \A i \in 2 .. q : dnsQueue[i] # t /\ asked'[dnsQueue[i]] = asked[dnsQueue[i]]
  <2>1. TAKE i \in 2 .. q
  <2>2. i \in 1 .. q /\ 1 \in 1 .. q /\ i # 1
    BY <1>1
  <2>3. dnsQueue[i] # t
    BY <1>2, <2>2 DEF Matched
  <2>4. dnsQueue[i] \in Askers
    BY <2>2, QueuedAsked
  <2>. QED  BY <1>3, <2>3, <2>4 DEF DnsTypes
<1> HIDE DEF q, r
<1>8. \A i \in 1 .. q - 1 : i + 1 \in 2 .. q /\ i + 1 \in 1 .. q
  BY <1>1
<1>9. \A i \in 1 .. q - 1 : asked'[dnsQueue'[i]] = asked[dnsQueue[i + 1]]
  BY <1>2, <1>7, <1>8
<1>10. Matched(n + 1, u - 1)'
  <2>1. \A i \in 1 .. u - 1 : asked'[dnsQueue'[i]] = lookups'[(n + 1) + i].host
    <3>1. TAKE i \in 1 .. u - 1
    <3>2. i \in 1 .. q - 1 /\ i + 1 \in 1 .. u /\ n + (i + 1) = (n + 1) + i
      BY <1>1
    <3>3. asked[dnsQueue[i + 1]] = lookups[n + (i + 1)].host
      BY <3>2 DEF Matched
    <3>. QED  BY <1>4, <1>9, <3>2, <3>3
  <2>2. Busy = 1 => asked'[dnsQueue'[(u - 1) + 1]] = thread'.host
    <3>1. SUFFICES ASSUME Busy = 1 PROVE asked'[dnsQueue'[(u - 1) + 1]] = thread'.host
      OBVIOUS
    <3>2. (u - 1) + 1 = u /\ u \in 1 .. q - 1
      BY <1>1, <3>1
    <3>3. asked[dnsQueue[u + 1]] = thread.host
      BY <3>1 DEF Matched
    <3>. QED  BY <1>4, <1>9, <3>2, <3>3
  <2>3. \A i \in 1 .. r : asked'[dnsQueue'[(u - 1) + Busy + i]] = requests'[i]
    <3>1. TAKE i \in 1 .. r
    <3>2. /\ (u - 1) + Busy + i \in 1 .. q - 1
          /\ ((u - 1) + Busy + i) + 1 = u + Busy + i
      BY <1>1
    <3>3. asked[dnsQueue[u + Busy + i]] = requests[i]
      BY DEF Matched, r
    <3>. QED  BY <1>4, <1>9, <3>2, <3>3
  <2>4. \A i, j \in 1 .. q - 1 : dnsQueue'[i] = dnsQueue'[j] => i = j
    <3>1. TAKE i, j \in 1 .. q - 1
    <3>2. SUFFICES ASSUME dnsQueue'[i] = dnsQueue'[j] PROVE i = j
      OBVIOUS
    <3>3. dnsQueue[i + 1] = dnsQueue[j + 1] /\ i + 1 \in 1 .. q /\ j + 1 \in 1 .. q
      BY <1>2, <1>8, <3>2
    <3>4. i + 1 = j + 1
      BY <3>3 DEF Matched, q
    <3>. QED  BY <3>4
  <2>5. \A i \in 1 .. Len(lookups') : lookups'[i].answer \in Told_
    BY <1>4 DEF Matched
  <2>6. /\ n + 1 \in Nat /\ u - 1 \in Nat /\ Len(lookups') = (n + 1) + (u - 1)
        /\ Len(dnsQueue') = (u - 1) + Busy + Len(requests')
    BY <1>1, <1>2, <1>4 DEF r
  <2>. QED  BY <1>2, <1>4, <2>1, <2>2, <2>3, <2>4, <2>5, <2>6 DEF Matched, r
<1>11. Half(n + 1, u - 1)' /\ Position' = 0
  BY <1>2 DEF Half, Position, D!NotReading
<1>. QED  BY <1>6, <1>10, <1>11

\* A string moves from what the thread has still to write to what is written.
LEMMA OneMoved ==
    ASSUME NEW r \in Seq(Text), NEW o \in Seq(Text), o # <<>>
    PROVE  Append(r, Head(o)) \o Tail(o) = r \o o
<1> DEFINE h == Head(o)
           e == Tail(o)
           b == Append(r, h)
           x == b \o e
           y == r \o o
<1>1. /\ h \in Text /\ h = o[1] /\ e \in Seq(Text) /\ Len(e) = Len(o) - 1 /\ Len(o) \in Nat \ {0}
      /\ Len(r) \in Nat /\ \A i \in 1 .. Len(o) - 1 : e[i] = o[i + 1]
  OBVIOUS
<1> HIDE DEF h, e
<1>2. b \in Seq(Text) /\ Len(b) = Len(r) + 1 /\ b[Len(r) + 1] = h /\ \A i \in 1 .. Len(r) : b[i] = r[i]
  BY <1>1
<1> HIDE DEF b
<1>3. x \in Seq(Text) /\ IsJoin(x, b, e) /\ y \in Seq(Text) /\ IsJoin(y, r, o)
  BY <1>1, <1>2, Joined
<1> HIDE DEF x, y
<1>4. Len(x) = Len(r) + Len(o) /\ Len(y) = Len(r) + Len(o)
  BY <1>1, <1>2, <1>3 DEF IsJoin
<1>5. ASSUME NEW i \in 1 .. Len(x)
      PROVE  x[i] = y[i]
  <2>1. CASE i <= Len(r)
    <3>1. i \in 1 .. Len(r) /\ i \in 1 .. Len(b)
      BY <1>1, <1>2, <2>1
    <3>. QED  BY <1>2, <1>3, <3>1 DEF IsJoin
  <2>2. CASE i = Len(r) + 1
    <3>1. i \in 1 .. Len(b) /\ 1 \in 1 .. Len(o)
      BY <1>1, <1>2, <2>2
    <3>2. x[i] = h
      BY <1>2, <1>3, <2>2, <3>1 DEF IsJoin
    <3>3. y[Len(r) + 1] = o[1]
      BY <1>3, <3>1 DEF IsJoin
    <3>. QED  BY <1>1, <2>2, <3>2, <3>3
  <2>3. CASE i > Len(r) + 1
    <3> DEFINE j == i - (Len(r) + 1)
    <3>1. j \in 1 .. Len(e) /\ j \in 1 .. Len(o) - 1 /\ Len(b) + j = i /\ j + 1 \in 1 .. Len(o) /\ Len(r) + (j + 1) = i
      BY <1>1, <1>2, <1>4, <2>3
    <3> HIDE DEF j
    <3>2. x[i] = e[j]
      BY <1>3, <3>1 DEF IsJoin
    <3>3. y[i] = o[j + 1]
      BY <1>3, <3>1 DEF IsJoin
    <3>. QED  BY <1>1, <3>1, <3>2, <3>3
  <2>. QED  BY <1>1, <1>4, <2>1, <2>2, <2>3
<1>6. x = y
  BY <1>3, <1>4, <1>5, SeqEqual
<1>. QED  BY <1>6 DEF x, y, b, h, e

\* Who has been woken up keeps its answer.
LEMMA WokenSame ==
    ASSUME D!WakesRequester, got' = got, lookups \in Seq(Lookup),
           lookups' = lookups \/ \E x \in Lookup : lookups' = Append(lookups, x)
    PROVE  D!WakesRequester'
<1>1. \A i \in DOMAIN lookups : i \in DOMAIN lookups' /\ lookups'[i] = lookups[i]
  <2>1. CASE lookups' = lookups
    BY <2>1
  <2>2. CASE \E x \in Lookup : lookups' = Append(lookups, x)
    BY <2>2
  <2>. QED  BY <2>1, <2>2
<1>. QED  BY <1>1 DEF D!WakesRequester

\* Nothing of it changes when none of the variables does.
LEMMA DnsSame == DnsInv /\ UNCHANGED dnsVars => DnsInv'
<1> SUFFICES ASSUME DnsInv, UNCHANGED dnsVars PROVE DnsInv'
  OBVIOUS
<1>1. UNCHANGED <<requests, replies, thread, changed, dnsQueue, reading, asked, got, lookups, silent>>
  BY DEF dnsVars
<1>2. DnsTypes'
  BY <1>1 DEF DnsInv, DnsTypes
<1>3. InStep => InStep'
  <2>1. SUFFICES ASSUME NEW n \in Nat, NEW u \in Nat, Matched(n, u), Half(n, u), OnTheWay(n, u)
                 PROVE  Matched(n, u)' /\ Half(n, u)' /\ OnTheWay(n, u)'
    BY DEF InStep
  <2>2. Matched(n, u)'
    BY <1>1, <2>1 DEF Matched, Busy
  <2>. QED  BY <1>1, <2>1, <2>2, WaySame
<1>4. D!WakesRequester => D!WakesRequester'
  BY <1>1 DEF D!WakesRequester
<1>. QED  BY <1>1, <1>2, <1>3, <1>4 DEF DnsInv

\* At the beginning nobody waits.
LEMMA DnsStart == D!Init => DnsInv
<1> SUFFICES ASSUME D!Init PROVE DnsInv
  OBVIOUS
<1>1. /\ requests = <<>> /\ replies = <<>> /\ dnsQueue = <<>> /\ reading = D!NotReading /\ lookups = <<>>
      /\ thread = [host |-> NoRequest, out |-> <<>>, failed |-> D!Empty, fresh |-> FALSE] /\ silent = FALSE
      /\ asked = [t \in Askers |-> NoRequest] /\ got = [t \in Askers |-> NoRequest]
  BY DEF D!Init
<1>2. reading \in [at : Places, name : Seq(Text), alias : Seq(Text), ip : Seq(Text)] /\ reading.at = "nothing"
  BY <1>1 DEF D!NotReading, Places
<1>3. DnsTypes
  <2>1. thread \in [host : Hosts \cup {NoRequest}, out : Seq(Text), failed : D!Errors \cup {D!Empty}, fresh : BOOLEAN]
    BY <1>1
  <2>2. /\ requests \in Seq(Hosts) /\ replies \in Seq(Text) /\ dnsQueue \in Seq(Askers)
        /\ lookups \in Seq(Lookup)
    BY <1>1
  <2>3. asked \in [Askers -> Hosts \cup {NoRequest}] /\ DOMAIN got = Askers /\ silent \in BOOLEAN
    BY <1>1
  <2>4. thread.host # NoRequest => thread.out = <<>>
    BY <1>1
  <2>. QED  BY <1>2, <2>1, <2>2, <2>3, <2>4 DEF DnsTypes
<1>4. Matched(0, 0)
  BY <1>1 DEF Matched, Busy
<1>5. Half(0, 0)
  BY <1>1, <1>2 DEF Half
<1>6. OnTheWay(0, 0)
  <2> DEFINE w == Owed(0, 0)
             s == replies \o thread.out
             c == [j \in 0 .. 0 |-> 0]
  <2>1. Len(w) = 0 /\ Position = 0 /\ Len(s) = 0
    <3>1. Len(w) = 0
      <4>1. 0 \in Nat /\ \A i \in 1 .. 0 + 0 : lookups[i].answer \in Told_
        OBVIOUS
      <4>. QED  BY <4>1, OwedFacts DEF Owed
    <3>. QED  BY <1>1, <1>2, <1>3, <3>1, PositionFacts
  <2>2. c \in [0 .. 0 -> Int] /\ c[0] = 0
    OBVIOUS
  <2> HIDE DEF w, s, c
  <2>3. Cuts(w, 0, s, c)
    BY <2>1, <2>2 DEF Cuts
  <2>. QED  BY <2>1, <2>3 DEF OnTheWay, w, s
<1>7. D!WakesRequester
  BY <1>1 DEF D!WakesRequester
<1>. QED  BY <1>3, <1>4, <1>5, <1>6, <1>7 DEF DnsInv, InStep

\* Every step of the tasks, the DNS task and the thread keeps it.
LEMMA DnsStep == DnsInv /\ D!Next => DnsInv'
<1> SUFFICES ASSUME DnsInv, D!Next PROVE DnsInv'
  OBVIOUS
<1>1. DnsTypes /\ DnsTypes'
  BY DnsTyped DEF DnsInv
<1>2. silent => silent'
  BY <1>1, AnswerCases DEF D!Next, D!Ask, D!Read, D!Take, D!Write, D!Expire, D!EditResolvConf, WritesAnswer, WritesNothing
<1>3. SUFFICES ASSUME ~silent' PROVE InStep' /\ D!WakesRequester'
  BY <1>1 DEF DnsInv
<1>4. D!WakesRequester
  BY <1>2, <1>3 DEF DnsInv
<1>5. PICK n, u \in Nat : Matched(n, u) /\ Half(n, u) /\ OnTheWay(n, u)
  BY <1>2, <1>3 DEF DnsInv, InStep
<1>6. lookups \in Seq(Lookup)
  BY <1>1 DEF DnsTypes
<1>7. CASE D!Ask
  <2>1. UNCHANGED <<lookups, reading, replies, thread, got>>
    BY <1>7 DEF D!Ask
  <2>2. Matched(n, u)' /\ Half(n, u)' /\ OnTheWay(n, u)'
    BY <1>1, <1>5, <1>7, <2>1, AskKeeps, WaySame
  <2>. QED  BY <1>4, <1>6, <2>1, <2>2, WokenSame DEF InStep
<1>8. CASE D!Read
  <2>1. /\ replies # <<>> /\ replies' = Tail(replies)
        /\ UNCHANGED <<requests, thread, changed, lookups, silent>>
    BY <1>1, <1>8, ReadCases
  <2> DEFINE a == lookups[n + 1].answer
  <2>2. /\ u >= 1
        /\ Position + 1 < Len(Written(a)) => \E d : Cuts(Owed(n, u), Position + 1, Tail(replies) \o thread.out, d)
        /\ Position + 1 = Len(Written(a)) => \E d : Cuts(Owed(n + 1, u - 1), 0, Tail(replies) \o thread.out, d)
    BY <1>1, <1>5, <2>1, NextRead
  <2>3. CASE \/ reading.at = "nothing" /\ Head(replies) # D!Empty /\ D!Wake(D!Error(Head(replies)))
             \/ reading.at = "ip" /\ Head(replies) = D!Empty /\ D!Wake(D!Found(reading))
    <3>1. D!Wake(a) /\ Position + 1 = Len(Written(a))
      <4>1. CASE reading.at = "nothing" /\ Head(replies) # D!Empty /\ D!Wake(D!Error(Head(replies)))
        <5>1. D!Error(Head(replies)) = a /\ Position + 1 = Len(Written(a))
          BY <1>1, <1>5, <2>1, <4>1, ReadLastTells
        <5>. QED  BY <4>1, <5>1
      <4>2. CASE reading.at = "ip" /\ Head(replies) = D!Empty /\ D!Wake(D!Found(reading))
        <5>1. D!Found(reading) = a /\ Position + 1 = Len(Written(a))
          BY <1>1, <1>5, <2>1, <4>2, ReadLastTells
        <5>. QED  BY <4>2, <5>1
      <4>. QED  BY <2>3, <4>1, <4>2
    <3>2. Matched(n + 1, u - 1)' /\ Half(n + 1, u - 1)' /\ D!WakesRequester' /\ Position' = 0
      BY <1>1, <1>4, <1>5, <2>1, <2>2, <3>1, WakeKeeps
    <3>3. OnTheWay(n + 1, u - 1)'
      <4>1. Owed(n + 1, u - 1)' = Owed(n + 1, u - 1) /\ replies' \o thread'.out = Tail(replies) \o thread.out
        BY <2>1 DEF Owed
      <4>. QED  BY <2>2, <3>1, <3>2, <4>1 DEF OnTheWay
    <3>4. n + 1 \in Nat /\ u - 1 \in Nat
      BY <2>2
    <3>. QED  BY <3>2, <3>3, <3>4 DEF InStep
  <2>4. CASE ~ \/ reading.at = "nothing" /\ Head(replies) # D!Empty /\ D!Wake(D!Error(Head(replies)))
               \/ reading.at = "ip" /\ Head(replies) = D!Empty /\ D!Wake(D!Found(reading))
    <3>1. /\ UNCHANGED <<dnsQueue, asked, got>>
          /\ \/ /\ reading.at = "nothing" /\ Head(replies) = D!Empty
                /\ reading' = [reading EXCEPT !.at = "name"]
             \/ reading.at = "name" /\ reading' = [reading EXCEPT !.at = "alias", !.name = <<Head(replies)>>]
             \/ /\ reading.at = "alias" /\ Head(replies) = D!Empty
                /\ reading' = [reading EXCEPT !.at = "ip"]
             \/ /\ reading.at = "alias" /\ Head(replies) # D!Empty
                /\ reading' = [reading EXCEPT !.alias = Append(@, Head(replies))]
             \/ /\ reading.at = "ip" /\ Head(replies) # D!Empty
                /\ reading' = [reading EXCEPT !.ip = Append(@, Head(replies))]
      BY <1>1, <1>8, <2>4, ReadCases
    <3>2. Half(n, u)' /\ Position' = Position + 1 /\ Position + 1 < Len(Written(a))
      BY <1>1, <1>5, <2>1, <3>1, ReadOnKeeps
    <3>3. Matched(n, u)'
      BY <1>5, <2>1, <3>1 DEF Matched, Busy
    <3>4. OnTheWay(n, u)'
      <4>1. Owed(n, u)' = Owed(n, u) /\ replies' \o thread'.out = Tail(replies) \o thread.out
        BY <2>1 DEF Owed
      <4>. QED  BY <2>2, <3>2, <4>1 DEF OnTheWay
    <3>. QED  BY <1>4, <1>6, <2>1, <3>1, <3>2, <3>3, <3>4, WokenSame DEF InStep
  <2>. QED  BY <2>3, <2>4
<1>9. CASE D!Take
  <2>1. UNCHANGED <<lookups, reading, replies, got>>
    BY <1>9 DEF D!Take, D!mainVars
  <2>2. Matched(n, u)' /\ Half(n, u)' /\ OnTheWay(n, u)'
    BY <1>1, <1>5, <1>9, <2>1, TakeKeepsPlaces, WaySame
  <2>. QED  BY <1>4, <1>6, <2>1, <2>2, WokenSame DEF InStep
<1>10. CASE D!Repeat \/ D!Resolve
  <2>1. /\ thread.host # NoRequest /\ UNCHANGED <<requests, replies, dnsQueue, reading, asked, got>>
        /\ WritesNothing \/ \E answer \in Told_ : WritesAnswer(answer)
    BY <1>1, <1>10, AnswerCases
  <2>2. ~WritesNothing
    BY <1>3 DEF WritesNothing
  <2>3. PICK answer \in Told_ : WritesAnswer(answer)
    BY <2>1, <2>2
  <2>4. Matched(n, u + 1)' /\ Half(n, u + 1)' /\ OnTheWay(n, u + 1)'
    BY <1>1, <1>5, <2>1, <2>3, AnswerKeeps
  <2>5. [host |-> thread.host, answer |-> answer] \in Lookup
    BY <1>1, <2>1 DEF DnsTypes, Lookup
  <2>6. D!WakesRequester'
    BY <1>4, <1>6, <2>1, <2>3, <2>5, WokenSame DEF WritesAnswer
  <2>7. u + 1 \in Nat
    OBVIOUS
  <2>. QED  BY <2>4, <2>6, <2>7 DEF InStep
<1>11. CASE D!Write
  <2>1. /\ thread.out # <<>> /\ replies' = Append(replies, Head(thread.out))
        /\ thread' = [thread EXCEPT !.out = Tail(@)]
        /\ UNCHANGED <<requests, changed, lookups, silent, dnsQueue, reading, asked, got>>
    BY <1>11 DEF D!Write, D!mainVars
  <2>2. thread'.host = thread.host /\ thread'.out = Tail(thread.out)
    BY <1>1, <2>1 DEF DnsTypes
  <2>3. Matched(n, u)' /\ Half(n, u)'
    BY <1>5, <2>1, <2>2 DEF Matched, Half, ReadOf, Busy
  <2>4. replies' \o thread'.out = replies \o thread.out
    BY <1>1, <2>1, <2>2, OneMoved DEF DnsTypes
  <2>5. Owed(n, u)' = Owed(n, u) /\ Position' = Position
    BY <2>1 DEF Owed, Position
  <2>6. OnTheWay(n, u)'
    BY <1>5, <2>4, <2>5 DEF OnTheWay
  <2>. QED  BY <1>4, <1>6, <2>1, <2>3, <2>6, WokenSame DEF InStep
<1>12. CASE D!Expire \/ D!EditResolvConf
  <2>1. /\ UNCHANGED <<requests, replies, lookups, dnsQueue, reading, asked, got>>
        /\ thread'.host = thread.host /\ thread'.out = thread.out
    BY <1>1, <1>12 DEF D!Expire, D!EditResolvConf, D!mainVars, DnsTypes
  <2>2. Matched(n, u)'
    BY <1>5, <2>1 DEF Matched, Busy
  <2>3. Half(n, u)' /\ OnTheWay(n, u)'
    BY <1>5, <2>1, WaySame
  <2>. QED  BY <1>4, <1>6, <2>1, <2>2, <2>3, WokenSame DEF InStep
<1>. QED  BY <1>7, <1>8, <1>9, <1>10, <1>11, <1>12 DEF D!Next

\* r is s from its end to its beginning.
IsReverse(r, s) == Len(r) = Len(s) /\ \A i \in 1 .. Len(s) : r[i] = s[(Len(s) - i) + 1]

\* A sequence from its end to its beginning
LEMMA Reversed ==
    ASSUME NEW T, NEW s \in Seq(T)
    PROVE  D!Reverse(s) \in Seq(T) /\ IsReverse(D!Reverse(s), s)
<1> DEFINE n == Len(s)
           x == D!Reverse(s)
<1>1. n \in Nat
  OBVIOUS
<1>2. x = [i \in 1 .. n |-> s[(n - i) + 1]]
  BY DEF D!Reverse
<1>3. \A i \in 1 .. n : (n - i) + 1 \in 1 .. n /\ s[(n - i) + 1] \in T
  OBVIOUS
<1> HIDE DEF x, n
<1>4. x \in [1 .. n -> T] /\ \A i \in 1 .. n : x[i] = s[(n - i) + 1]
  BY <1>2, <1>3
<1>5. x \in Seq(T) /\ Len(x) = n
  BY <1>1, <1>4
<1>. QED  BY <1>4, <1>5 DEF IsReverse, x, n

\* The tasks that wait are those whose requests are on the way, in their order.
LEMMA WaitersPending ==
    ASSUME DnsTypes, NEW n, NEW u, Matched(n, u)
    PROVE  D!Pending
<1> DEFINE host == IF thread.host = NoRequest THEN <<>> ELSE <<thread.host>>
           asks == [i \in DOMAIN dnsQueue |-> asked[dnsQueue[i]]]
           s == host \o requests
           r == Len(requests)
           b == Busy
           x == D!Reverse(s)
           y == D!Reverse(asks)
<1>1. n \in Nat /\ u \in Nat /\ Len(dnsQueue) = u + b + r /\ b \in {0, 1} /\ r \in Nat
  <2>1. n \in Nat /\ u \in Nat /\ Len(dnsQueue) = u + b + r
    BY DEF Matched
  <2>. QED  BY <2>1 DEF Busy, DnsTypes
<1>2. /\ host \in Seq(Hosts) /\ Len(host) = b /\ requests \in Seq(Hosts)
      /\ b = 1 => host[1] = thread.host
  BY DEF Busy, DnsTypes
<1>3. s \in Seq(Hosts) /\ IsJoin(s, host, requests)
  BY <1>2, Joined
<1>4. asks \in Seq(Hosts) /\ Len(asks) = u + b + r /\ \A i \in 1 .. u + b + r : asks[i] = asked[dnsQueue[i]]
  <2>1. DOMAIN dnsQueue = 1 .. u + b + r
    BY <1>1 DEF DnsTypes
  <2>2. \A i \in 1 .. u + b + r : asked[dnsQueue[i]] \in Hosts
    BY <1>1, QueuedAsked
  <2>. QED  BY <1>1, <2>1, <2>2
<1> HIDE DEF host, asks, s, r, b
<1>5. Len(s) = b + r
  BY <1>2, <1>3 DEF IsJoin, r
<1>6. \A i \in 1 .. b + r : s[i] = asks[u + i]
  <2>1. TAKE i \in 1 .. b + r
  <2>2. u + i \in 1 .. u + b + r
    BY <1>1
  <2>3. CASE i <= b
    <3>1. i = 1 /\ b = 1 /\ i \in 1 .. Len(host)
      BY <1>1, <1>2, <2>3
    <3>2. asked[dnsQueue[u + 1]] = thread.host
      BY <3>1 DEF Matched, b
    <3>. QED  BY <1>2, <1>3, <1>4, <2>2, <3>1, <3>2 DEF IsJoin
  <2>4. CASE i > b
    <3>1. i - b \in 1 .. r /\ b + (i - b) = i /\ u + b + (i - b) = u + i
      BY <1>1, <2>4
    <3>2. s[i] = requests[i - b]
      BY <1>2, <1>3, <3>1 DEF IsJoin, r
    <3>3. asked[dnsQueue[u + b + (i - b)]] = requests[i - b]
      BY <3>1 DEF Matched, b, r
    <3>. QED  BY <1>4, <2>2, <3>1, <3>2, <3>3
  <2>. QED  BY <1>1, <2>3, <2>4
<1>7. x \in Seq(Hosts) /\ Len(x) = b + r /\ \A i \in 1 .. b + r : x[i] = s[((b + r) - i) + 1]
  BY SMTT(60), <1>1, <1>3, <1>5, Reversed DEF IsReverse
<1>8. y \in Seq(Hosts) /\ Len(y) = u + b + r /\ \A i \in 1 .. u + b + r : y[i] = asks[((u + b + r) - i) + 1]
  <2>1. y \in Seq(Hosts) /\ IsReverse(y, asks)
    BY <1>4, Reversed
  <2> DEFINE N == u + b + r
  <2>2. N = Len(asks)
    BY <1>4
  <2> HIDE DEF y, N
  <2>3. Len(y) = N /\ \A i \in 1 .. N : y[i] = asks[(N - i) + 1]
    BY <2>1, <2>2 DEF IsReverse
  <2>. QED  BY <2>1, <2>3 DEF N
<1> HIDE DEF x, y
<1>9. \A i \in 1 .. b + r : x[i] = y[i]
  <2>1. TAKE i \in 1 .. b + r
  <2>2. /\ i \in 1 .. u + b + r /\ ((b + r) - i) + 1 \in 1 .. b + r
        /\ u + (((b + r) - i) + 1) = ((u + b + r) - i) + 1
    BY <1>1
  <2>. QED  BY <1>6, <1>7, <1>8, <2>2
<1>10. D!IsPrefix(x, y)
  <2>1. Len(x) <= Len(y) /\ b + r \in Nat
    BY <1>1, <1>7, <1>8
  <2>2. SubSeq(x, 1, Len(x)) = SubSeq(y, 1, Len(x))
    BY <1>7, <1>8, <1>9, <2>1
  <2>. QED  BY <2>1, <2>2 DEF D!IsPrefix
<1>11. D!IsSuffix(s, asks)
  BY <1>10 DEF D!IsSuffix, x, y
<1>. QED  BY <1>11 DEF D!Pending, s, asks, host

\* Whatever a SocketHttp and the tasks that ask for names do, an answer of the resolver
\* reaches the task that asked for it, as long as each lookup has one (src/jive_dns.c,
\* net/DNS.lua).
THEOREM LookupsAnswered == AllSpec => []AnswersMatch
<1>1. AllInit => IInv /\ DnsInv
  BY InitGood, DnsStart DEF AllInit
<1>2. IInv /\ DnsInv /\ [AllNext]_<<moves, vars, dnsVars>> => IInv' /\ DnsInv'
  <2>1. SUFFICES ASSUME IInv, DnsInv, [AllNext]_<<moves, vars, dnsVars>> PROVE IInv' /\ DnsInv'
    OBVIOUS
  <2>2. CASE Next /\ UNCHANGED dnsVars
    BY <2>1, <2>2, StepGood, DnsSame
  <2>3. CASE D!Next /\ UNCHANGED vars
    BY <2>1, <2>3, StepGood, DnsStep
  <2>4. CASE UNCHANGED <<moves, vars, dnsVars>>
    BY <2>1, <2>4, StepGood, DnsSame
  <2>. QED  BY <2>1, <2>2, <2>3, <2>4 DEF AllNext
<1>3. IInv /\ DnsInv => AnswersMatch
  <2>1. SUFFICES ASSUME IInv, DnsInv PROVE AnswersMatch
    OBVIOUS
  <2>2. TypeOK
    BY <2>1 DEF IInv, Good, TypeOK
  <2>3. InStep => D!Pending
    BY <2>1, WaitersPending DEF InStep, DnsInv
  <2>. QED  BY <2>1, <2>2, <2>3 DEF AnswersMatch, D!AnswersMatch, DnsInv
<1>. QED  BY <1>1, <1>2, <1>3, PTL DEF AllSpec
====
