----------------------------- MODULE SocketHttp -----------------------------
(***************************************************************************)
(* One SocketHttp (jive/net/SocketHttp.lua over SocketTcp and Socket): its  *)
(* queue of requests, its send and its receive state machine, the pumps it  *)
(* has registered with the network thread, and the web server's end of the  *)
(* connection.  Requests are pipelined: the next one is sent while the      *)
(* responses to earlier ones are awaited.                                   *)
(*                                                                         *)
(* The socket is a record and each method a function from one record to the *)
(* next, because the methods call each other in the middle of their work    *)
(* (close() restarts the send machine, which may call close() again).       *)
(***************************************************************************)
EXTENDS Naturals, Sequences, FiniteSets, SequencesExt

CONSTANTS
    Requests,   \* the requests to fetch
    NoRequest,  \* no request
    MaxLookups, \* bound: DNS lookups at the same time
    MaxFaults   \* bound: failures and calls of close()

ASSUME NoRequestAssumption == NoRequest \notin Requests
ASSUME BoundsAssumption == MaxLookups \in Nat /\ MaxFaults \in Nat

VARIABLES
    socket,     \* the SocketHttp
    netUp,      \* connect() does not fail at once
    faults

vars == <<socket, netUp, faults>>

Outcomes == {"none", "answered", "cancelled", "mixed"}

\* isIp: the host is an IP address or cachedIp is set, so that no lookup is needed;
\* send, recv: t_httpSendState and t_httpRecvState where they rest;
\* connected: t_tcp.connected; open: t_sock; reading, writing: a pump is
\* registered for t_sock; lookups: DNS tasks under way; wire: the requests the
\* server has received on this connection and not answered; closing: the
\* response being read ends with its connection; outcome: what each request's
\* sink was told.
Socket ==
    [ isIp : BOOLEAN,
      send : {"dequeue", "resolve", "request"},
      recv : {"dequeue", "headers", "response"},
      queue : Seq(Requests), sendReq : Requests \cup {NoRequest},
      recvQueue : Seq(Requests), recvReq : Requests \cup {NoRequest},
      connected : BOOLEAN, open : BOOLEAN, reading : BOOLEAN, writing : BOOLEAN,
      lookups : 0 .. MaxLookups, wire : Seq(Requests), closing : BOOLEAN,
      outcome : [Requests -> Outcomes] ]

TypeOK == socket \in Socket /\ netUp \in BOOLEAN /\ faults \in 0 .. MaxFaults

Init ==
    /\ \E ip \in BOOLEAN :
         socket = [ isIp |-> ip, send |-> "dequeue", recv |-> "dequeue",
                  queue |-> <<>>, sendReq |-> NoRequest,
                  recvQueue |-> <<>>, recvReq |-> NoRequest,
                  connected |-> FALSE, open |-> FALSE,
                  reading |-> FALSE, writing |-> FALSE,
                  lookups |-> 0, wire |-> <<>>, closing |-> FALSE,
                  outcome |-> [r \in Requests |-> "none"] ]
    /\ netUp = TRUE
    /\ faults = 0

-----------------------------------------------------------------------------
One(r) == IF r = NoRequest THEN <<>> ELSE <<r>>

\* Requests taken from the queue and not finished, oldest first.
OnTheWire(s) == One(s.recvReq) \o s.recvQueue \o One(s.sendReq)

Waiting(s) == OnTheWire(s) \o s.queue

Cancelled(s, rs) ==
    [s EXCEPT !.outcome = [r \in Requests |-> IF r \in rs THEN "cancelled" ELSE @[r]]]

\* SocketTcp:close(): the pumps go with the socket.
TcpClose(s) ==
    [s EXCEPT !.connected = FALSE, !.open = FALSE, !.reading = FALSE,
              !.writing = FALSE, !.wire = <<>>]

\* The head of the queue becomes the request being sent.
Take(s) == [s EXCEPT !.sendReq = Head(s.queue), !.queue = Tail(s.queue)]

\* t_sendRequest()
SendRequest(s) == [s EXCEPT !.send = "request", !.writing = TRUE]

\* t_sendDequeue() and, for an IP address, t_sendResolve() and t_sendConnect().
\* A connect that fails at once closes the socket, which dequeues the next
\* request, and so on until the queue is empty.
SendDequeue(s) ==
    CASE s.queue = <<>> -> [s EXCEPT !.send = "dequeue", !.sendReq = NoRequest]
      [] s.queue # <<>> /\ s.connected -> SendRequest(Take(s))
      [] s.queue # <<>> /\ ~s.connected /\ ~s.isIp ->
            [Take(s) EXCEPT !.send = "resolve", !.lookups = @ + 1]
      [] s.queue # <<>> /\ ~s.connected /\ s.isIp /\ netUp ->
            SendRequest([Take(s) EXCEPT !.open = TRUE])
      [] OTHER ->
            [Cancelled(s, Range(Waiting(s))) EXCEPT
                !.queue = <<>>, !.send = "dequeue", !.sendReq = NoRequest,
                !.recvQueue = <<>>, !.recvReq = NoRequest, !.recv = "dequeue"]

RecvDequeue_TakesLast(s) ==
    IF s.recvQueue # <<>>
    THEN [s EXCEPT !.recvReq = Last(s.recvQueue), !.recvQueue = Front(s.recvQueue),
                   !.recv = "headers", !.reading = s.open]
    ELSE [s EXCEPT !.recvReq = NoRequest, !.recv = "dequeue",
                   !.reading = s.connected \/ s.reading]

\* t_recvDequeue() and t_rcvHeaders(): a pump is registered only if there is a
\* socket (NetworkThread's _add ignores a missing one).
RecvDequeue(s) ==
    IF s.recvQueue # <<>>
    THEN [s EXCEPT !.recvReq = Head(s.recvQueue), !.recvQueue = Tail(s.recvQueue),
                   !.recv = "headers", !.reading = s.open]
    ELSE [s EXCEPT !.recvReq = NoRequest, !.recv = "dequeue",
                   !.reading = s.connected \/ s.reading]

\* close(err): cancel what is on the wire, then start again with the queue.
Close(s) ==
    LET empty == [TcpClose(s) EXCEPT !.sendReq = NoRequest, !.recvReq = NoRequest,
                                     !.recvQueue = <<>>, !.closing = FALSE]
    IN  RecvDequeue(SendDequeue(Cancelled(empty, Range(OnTheWire(s)))))

\* t_sendConnect(), after a lookup
SendConnect(s) == IF netUp THEN SendRequest([s EXCEPT !.open = TRUE]) ELSE Close(s)

-----------------------------------------------------------------------------
(* Calls *)

New(r) == socket.outcome[r] = "none" /\ r \notin Range(Waiting(socket))

\* fetch()
Fetch(r) ==
    /\ New(r)
    /\ socket.lookups < MaxLookups
    /\ LET queued == [socket EXCEPT !.queue = Append(@, r)]
       IN  socket' = IF socket.send = "dequeue" THEN SendDequeue(queued) ELSE queued
    /\ UNCHANGED <<netUp, faults>>

Fault == faults < MaxFaults /\ faults' = faults + 1

\* close() by the owner (Comet, HttpPool)
OwnerClose ==
    /\ Fault
    /\ socket.lookups < MaxLookups
    /\ socket' = Close(socket)
    /\ UNCHANGED netUp

-----------------------------------------------------------------------------
(* Events of the network thread *)

\* The task of t_sendResolve: its result is used if a request is being resolved,
\* whether or not it is the one that asked.
LookupDone(found) ==
    /\ socket.lookups > 0
    /\ LET rest == [socket EXCEPT !.lookups = @ - 1]
       IN  socket' = CASE rest.send # "resolve" -> rest
                       [] rest.send = "resolve" /\ found -> SendConnect(rest)
                       [] OTHER -> Close(rest)
    /\ UNCHANGED netUp

LookupSucceeds == LookupDone(TRUE) /\ UNCHANGED faults
LookupFails    == LookupDone(FALSE) /\ Fault

SendComplete_StaysIdle ==
    /\ socket.writing
    /\ LET sent == [socket EXCEPT !.connected = TRUE, !.writing = FALSE,
                                  !.wire = Append(@, socket.sendReq),
                                  !.recvQueue = Append(@, socket.sendReq),
                                  !.sendReq = NoRequest]
       IN  socket' = SendDequeue(sent)
    /\ UNCHANGED <<netUp, faults>>

\* The pump of t_sendRequest has written everything: t_sendComplete().
SendComplete ==
    /\ socket.writing
    /\ LET sent == [socket EXCEPT !.connected = TRUE, !.writing = FALSE,
                                  !.wire = Append(@, socket.sendReq),
                                  !.recvQueue = Append(@, socket.sendReq),
                                  !.sendReq = NoRequest]
           next == SendDequeue(sent)
       IN  socket' = IF socket.recv = "dequeue" THEN RecvDequeue(next) ELSE next
    /\ UNCHANGED <<netUp, faults>>

\* The pump of t_rcvHeaders has read the headers of a response.  The connection
\* ends with the response if it says Connection: close or has no length.
ReadHeaders(closing) ==
    /\ socket.recv = "headers" /\ socket.reading /\ socket.wire # <<>>
    /\ socket' = [socket EXCEPT !.connected = TRUE, !.recv = "response", !.closing = closing]
    /\ UNCHANGED <<netUp, faults>>

\* The request being received and its sink gets the response.
Deliver(s) ==
    [s EXCEPT !.outcome[s.recvReq] = IF Head(s.wire) = s.recvReq THEN "answered" ELSE "mixed",
              !.wire = Tail(@), !.recvReq = NoRequest]

\* What the pump of t_rcvResponse does after the sink, and t_recvComplete().
\* For Connection: close it closes whatever socket there is now.
RecvComplete(s, closing) ==
    LET read == [s EXCEPT !.reading = FALSE, !.closing = FALSE]
    IN  RecvDequeue(IF closing THEN TcpClose(read) ELSE read)

\* The pump of t_rcvResponse has read the end of the body.
ReadBody ==
    /\ socket.recv = "response" /\ socket.reading
    /\ socket' = RecvComplete(Deliver(socket), socket.closing)
    /\ UNCHANGED <<netUp, faults>>

\* The same, with a sink that calls close() (Comet, for a refused handshake).
ReadBodyAndClose ==
    /\ socket.recv = "response" /\ socket.reading
    /\ Fault
    /\ socket.lookups < MaxLookups
    /\ socket' = RecvComplete(Close(Deliver(socket)), socket.closing)
    /\ UNCHANGED netUp

\* A pump meets an error, a timeout or, when nothing is awaited, a readable
\* socket ("idle close").
ConnectionFails ==
    /\ socket.reading \/ socket.writing
    /\ Fault
    /\ socket.lookups < MaxLookups
    /\ socket' = Close(socket)
    /\ UNCHANGED netUp

NetworkChanges ==
    /\ netUp \/ faults > 0
    /\ netUp' = ~netUp
    /\ IF netUp THEN Fault ELSE UNCHANGED faults
    /\ UNCHANGED socket

-----------------------------------------------------------------------------
Next ==
    \/ \E r \in Requests : Fetch(r)
    \/ OwnerClose
    \/ LookupSucceeds
    \/ LookupFails
    \/ SendComplete
    \/ \E closing \in BOOLEAN : ReadHeaders(closing)
    \/ ReadBody
    \/ ReadBodyAndClose
    \/ ConnectionFails
    \/ NetworkChanges

Spec == Init /\ [][Next]_vars

\* The network thread runs every pump that is ready and the DNS tasks end.
HttpFairness ==
    /\ WF_vars(LookupSucceeds)
    /\ WF_vars(SendComplete)
    /\ WF_vars(\E closing \in BOOLEAN : ReadHeaders(closing))
    /\ WF_vars(ReadBody)

FairSpec == Spec /\ HttpFairness

-----------------------------------------------------------------------------
(* Properties *)

\* A SocketHttp is an HttpChannel: requests get their outcome in the order of the
\* calls of fetch, each at most once, and every answer goes to its own request.
Channel == INSTANCE HttpChannel WITH waiting <- Waiting(socket), outcome <- socket.outcome

RefinesChannel == Channel!Spec

\* A machine that waits for the network has a pump registered with it.
Wedged ==
    \/ socket.send = "request" /\ ~socket.writing
    \/ socket.recv # "dequeue" /\ ~socket.reading

\* Every request gets an outcome, unless the machines are wedged.
EveryRequestEnds ==
    \A r \in Requests :
        r \in Range(Waiting(socket)) ~> socket.outcome[r] # "none" \/ Wedged

=============================================================================
