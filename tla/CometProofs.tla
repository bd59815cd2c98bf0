---------------------------- MODULE CometProofs ----------------------------
(***************************************************************************)
(* Proofs about Comet.tla, for every set of subscriptions and every bound:  *)
(* type correctness; that the SlimServer's netstate and the Comet object's  *)
(* state agree; that no request is lost, executed or called back for too    *)
(* often; and that an object goes on trying to connect until told not to.   *)
(*                                                                         *)
(* The functions of CometClient nest, so the argument follows them: for     *)
(* each there is a lemma that it takes an object to an object, one that it  *)
(* keeps the object consistent, and one of what it does with the requests.  *)
(***************************************************************************)
EXTENDS Comet, TLAPS

(* Type correctness of the functions *)

\* Closing the request connection takes an object to an object (SocketHttp:close).
LEMMA CloseRequestsType == ASSUME NEW c \in Object PROVE CloseRequests(c) \in Object
  <1>1. c.outbox # <<>> => Tail(c.outbox) \in Seq(Bundle)
    BY DEF Object
  <1>2. <<>> \in Seq(Answer)
    OBVIOUS
  <1> QED
    BY <1>1, <1>2 DEF CloseRequests, Object

\* So does telling the server of the disconnection (notify_cometDisconnected).
LEMMA NotifyDisconnectedType ==
    ASSUME NEW c \in Object PROVE NotifyDisconnected(c) \in Object
  BY DEF NotifyDisconnected, Object, NetStates

\* And becoming UNCONNECTED, with what it closes and tells (_state).
LEMMA ToUnconnectedType ==
    ASSUME NEW c \in Object PROVE ToUnconnected(c) \in Object
  <1> DEFINE d == [c EXCEPT !.timer = FALSE, !.state = "UNCONNECTED", !.chttp = "none"]
  <1>1. d \in Object
    BY DEF Object, States, Streams
  <1> QED
    BY <1>1, CloseRequestsType, NotifyDisconnectedType DEF ToUnconnected

\* And becoming CONNECTED (_state, notify_cometConnected).
LEMMA ToConnectedType == ASSUME NEW c \in Object PROVE ToConnected(c) \in Object
  BY DEF ToConnected, Object, States, NetStates

\* Marking subscriptions as pending or not leaves them subscriptions (_handshake).
LEMMA PendingType ==
    ASSUME NEW S \in SUBSET SubRec, NEW p \in BOOLEAN
    PROVE  {[s EXCEPT !.pending = p] : s \in S} \in SUBSET SubRec
  <1>1. \A s \in SubRec : [s EXCEPT !.pending = p] \in SubRec
    BY DEF SubRec
  <1> QED
    BY <1>1

\* Starting a handshake takes an object to an object (_handshake).
LEMMA HandshakeType ==
    ASSUME NEW c \in Object PROVE Handshake(c) \in Object
  <1>1. {[s EXCEPT !.pending = TRUE] : s \in c.subs} \in SUBSET SubRec
    BY PendingType DEF Object
  <1>2. {m \in c.sent : \A s \in c.subs : s.id # m.id} \in SUBSET Message
    BY DEF Object
  <1> QED
    BY <1>1, <1>2 DEF Handshake, Object, States, Streams, NoCid

\* And a reconnect, with or without a client id (_reconnect).
LEMMA ReconnectType == ASSUME NEW c \in Object PROVE Reconnect(c) \in Object
  <1>1. [c EXCEPT !.timer = FALSE, !.state = "CONNECTING", !.chttp = "reconnect"] \in Object
    BY DEF Object, States, Streams
  <1> QED
    BY <1>1, HandshakeType DEF Reconnect

\* And following the server's advice (_handleAdvice).
LEMMA HandleAdviceType == ASSUME NEW c \in Object PROVE HandleAdvice(c) \in Object
  <1> DEFINE d == ToUnconnected(c)
  <1>1. d \in Object
    BY ToUnconnectedType
  <1> HIDE DEF d
  <1>2. [d EXCEPT !.clientId = NoCid] \in Object
    BY <1>1 DEF Object
  <1>3. [d EXCEPT !.timer = TRUE] \in Object
    BY <1>1 DEF Object
  <1> QED
    BY <1>2, <1>3 DEF HandleAdvice, d

\* And the retry timer (_handleTimer).
LEMMA HandleTimerType == ASSUME NEW c \in Object PROVE HandleTimer(c) \in Object
  <1> DEFINE d == [c EXCEPT !.timer = FALSE]
  <1>1. d \in Object
    BY DEF Object
  <1> HIDE DEF d
  <1> QED
    BY <1>1, HandshakeType, ReconnectType DEF HandleTimer, d

\* What is collected for a batch are messages: unsubscriptions, subscriptions and
\* requests (_addPendingRequests).
LEMMA MessagesType ==
    ASSUME NEW c \in Object, c.clientId # NoCid
    PROVE  /\ SubMessages(c) \in SUBSET Message
           /\ RequestMessages(c) \in SUBSET Message
           /\ PendingMessages(c) \in SUBSET Message
  <1> c.clientId \in Cids
    BY DEF Object
  <1>1. UnsubMessages(c) \in SUBSET Message
    <2>1. \A u \in UnsubRec : [kind |-> "unsubscribe", id |-> u.id, name |-> u.name,
                                cid |-> c.clientId, func |-> TRUE] \in Message
      BY DEF UnsubRec, Message
    <2> QED
      BY <2>1 DEF UnsubMessages, Object
  <1>2. SubMessages(c) \in SUBSET Message
    <2>1. \A s \in SubRec : [kind |-> "subscribe", id |-> s.id, name |-> s.name,
                              cid |-> c.clientId, func |-> TRUE] \in Message
      BY DEF SubRec, Message
    <2> QED
      BY <2>1 DEF SubMessages, Object
  <1>3. RequestMessages(c) \in SUBSET Message
    <2>1. \A r \in ReqRec : [kind |-> "request", id |-> r.id, name |-> NoSub,
                              cid |-> c.clientId, func |-> r.func] \in Message
      BY DEF ReqRec, Message
    <2> QED
      BY <2>1 DEF RequestMessages, Object
  <1> QED
    BY <1>1, <1>2, <1>3 DEF PendingMessages

\* Moving what is pending to sent_reqs takes an object to an object
\* (_addPendingRequests).
LEMMA AddPendingRequestsType ==
    ASSUME NEW c \in Object, c.clientId # NoCid
    PROVE  AddPendingRequests(c) \in Object
  <1> DEFINE subs    == {[s EXCEPT !.pending = FALSE] : s \in c.subs}
             sent    == c.sent \cup {m \in PendingMessages(c) : m.func}
             entries == c.entries \cup {m.name : m \in SubMessages(c)}
             notify  == [n \in Subs |->
                          c.notify[n] \cup {m.id : m \in {k \in SubMessages(c) : k.name = n}}]
             waiting == c.waiting \cup {m.id : m \in {k \in RequestMessages(c) : k.func}}
  <1>1. subs \in SUBSET SubRec
    BY PendingType DEF Object
  <1>2. sent \in SUBSET Message
    BY MessagesType DEF Object
  <1>3. entries \in SUBSET Subs
    <2>1. \A m \in SubMessages(c) : m.name \in Subs
      BY DEF SubMessages, Object, SubRec
    <2> QED
      BY <2>1 DEF Object
  <1>4. \A m \in Message : m.id \in ReqIds
    BY DEF Message
  <1>5. notify \in [Subs -> SUBSET ReqIds]
    BY <1>4, MessagesType DEF Object
  <1>6. waiting \in SUBSET ReqIds
    BY <1>4, MessagesType DEF Object
  <1> HIDE DEF subs, sent, entries, notify, waiting
  <1>7. [c EXCEPT !.unsubs = {}, !.reqs = {}, !.subs = subs, !.sent = sent,
                  !.entries = entries, !.notify = notify, !.waiting = waiting] \in Object
    BY <1>1, <1>2, <1>3, <1>5, <1>6 DEF Object
  <1> QED
    BY <1>7 DEF AddPendingRequests, subs, sent, entries, notify, waiting

\* Queueing a batch at the request connection does (SocketHttp:fetch).
LEMMA FetchType ==
    ASSUME NEW c \in Object, NEW b \in Bundle PROVE Fetch(c, b) \in Object
  <1>1. Append(c.outbox, b) \in Seq(Bundle)
    BY DEF Object
  <1> QED
    BY <1>1 DEF Fetch, Object

\* And sending all that is pending (_sendPendingRequests).
LEMMA SendPendingRequestsType ==
    ASSUME NEW c \in Object, c.clientId # NoCid, NEW R \in SUBSET Message
    PROVE  SendPendingRequests(c, R) \in Object
  <1> DEFINE d == AddPendingRequests(c)
             b == [kind |-> "batch", cid |-> c.clientId, msgs |-> R \cup PendingMessages(c)]
  <1>1. d \in Object
    BY AddPendingRequestsType
  <1>2. b \in Bundle
    BY MessagesType DEF Bundle, Object
  <1> HIDE DEF d, b
  <1>3. Fetch(d, b) \in Object
    BY <1>1, <1>2, FetchType
  <1> QED
    BY <1>1, <1>3 DEF SendPendingRequests, d, b

\* And sending it only when connected and outside a batch (subscribe, request).
LEMMA SendIfConnectedType ==
    ASSUME NEW c \in Object, c.state = "CONNECTED" => c.clientId # NoCid
    PROVE  SendIfConnected(c) \in Object
  BY SendPendingRequestsType DEF SendIfConnected

\* And resending what was not acknowledged (_connected).
LEMMA ConnectedType ==
    ASSUME NEW c \in Object, c.clientId # NoCid
    PROVE  Connected(c) \in Object
  <1>1. SendPendingRequests(c, c.sent) \in Object
    BY SendPendingRequestsType DEF Object
  <1> QED
    BY <1>1, ToConnectedType DEF Connected

\* And sending the disconnect message (_disconnect).
LEMMA SendDisconnectType ==
    ASSUME NEW c \in Object, c.clientId # NoCid
    PROVE  SendDisconnect(c) \in Object
  <1> DEFINE subs == {[s EXCEPT !.pending = TRUE] : s \in c.subs}
             d == [c EXCEPT !.subs = subs, !.sent = {}, !.timer = FALSE,
                            !.state = "UNCONNECTING"]
             b == [kind |-> "disconnect", cid |-> c.clientId, msgs |-> {}]
  <1>1. subs \in SUBSET SubRec
    BY PendingType DEF Object
  <1>2. d \in Object
    <2> HIDE DEF subs
    <2> QED
      BY <1>1 DEF Object, States
  <1>3. b \in Bundle
    BY DEF Bundle, Object
  <1>4. SendDisconnect(c) = Fetch(d, b)
    BY DEF SendDisconnect
  <1> HIDE DEF d, b
  <1> QED
    BY <1>2, <1>3, <1>4, FetchType

-----------------------------------------------------------------------------
(* Consistency.  NetStateAgrees speaks of the two states only.  It is not    *)
(* inductive: the answer to a connect makes the object CONNECTED whatever it *)
(* was, so an answer awaited must imply CONNECTING, and what an object sends *)
(* while CONNECTED carries its client id, so it must have one.               *)

NetState(c) ==
    /\ c.netstate # "disconnected" <=> c.active
    /\ c.netstate = "connected" =>
         \/ c.state = "CONNECTED"
         \/ c.state = "UNCONNECTING" /\ c.idleTriggered
    /\ c.netstate = "connecting" => c.state \in {"CONNECTING", "UNCONNECTED"}
    /\ c.netstate = "disconnected" => c.state \in {"UNCONNECTING", "UNCONNECTED"}
    /\ c.idleTriggered => c.state = "UNCONNECTING"

Consistent(c) ==
    /\ NetState(c)
    /\ c.chttp \in {"handshake", "connect", "reconnect"} <=> c.state = "CONNECTING"
    /\ c.state = "UNCONNECTED" => c.chttp = "none"
    /\ c.chttp \in {"connect", "reconnect"} \/ c.state = "CONNECTED" => c.clientId # NoCid

Good(c) == c \in Object /\ Consistent(c)

\* d differs from c only in what Consistent does not speak of.
SameControl(c, d) ==
    /\ d.state = c.state /\ d.netstate = c.netstate /\ d.active = c.active
    /\ d.idleTriggered = c.idleTriggered /\ d.chttp = c.chttp /\ d.clientId = c.clientId

\* A step that leaves the control state alone keeps an object consistent.
LEMMA SameControlConsistent ==
    ASSUME NEW c, NEW d, Consistent(c), SameControl(c, d) PROVE Consistent(d)
  BY DEF Consistent, NetState, SameControl

\* Closing the request connection leaves the control state alone.
LEMMA CloseRequestsKeeps ==
    ASSUME NEW c \in Object PROVE SameControl(c, CloseRequests(c))
  BY DEF CloseRequests, SameControl, Object

\* Sending what is pending does.
LEMMA SendPendingRequestsKeeps ==
    ASSUME NEW c \in Object, NEW R PROVE SameControl(c, SendPendingRequests(c, R))
  BY DEF SendPendingRequests, AddPendingRequests, Fetch, SameControl, Object

\* So sending it when connected keeps an object good.
LEMMA SendIfConnectedGood ==
    ASSUME NEW c, Good(c) PROVE Good(SendIfConnected(c))
  <1>1. SameControl(c, SendIfConnected(c))
    BY SendPendingRequestsKeeps DEF SendIfConnected, SameControl, Good
  <1>2. SendIfConnected(c) \in Object
    BY SendIfConnectedType DEF Good, Consistent
  <1> QED
    BY <1>1, <1>2, SameControlConsistent DEF Good

\* _state(UNCONNECTED) ends every wait, and an idle disconnect its cause.  It is
\* called in the middle of connect() and disconnect(), where the object is not
\* consistent yet.
LEMMA ToUnconnectedGood ==
    ASSUME NEW c \in Object, c.netstate # "disconnected" <=> c.active,
           c.state = "UNCONNECTED" => Consistent(c)
    PROVE  /\ Good(ToUnconnected(c))
           /\ ToUnconnected(c).state = "UNCONNECTED"
           /\ ~c.idleTriggered /\ c.active => ToUnconnected(c).active
  <1> DEFINE d == [c EXCEPT !.timer = FALSE, !.state = "UNCONNECTED", !.chttp = "none"]
             e == CloseRequests(d)
  <1>1. CASE c.state = "UNCONNECTED"
    BY <1>1 DEF ToUnconnected, Good
  <1>2. CASE c.state # "UNCONNECTED"
    <2>1. d \in Object
      BY DEF Object, States, Streams
    <2>2. /\ d.state = "UNCONNECTED" /\ d.chttp = "none" /\ d.netstate = c.netstate
          /\ d.active = c.active /\ d.idleTriggered = c.idleTriggered
      BY DEF Object
    <2>3. e \in Object
      BY <2>1, CloseRequestsType
    <2>4. SameControl(d, e)
      BY <2>1, CloseRequestsKeeps
    <2> HIDE DEF d, e
    <2>5. /\ Consistent(NotifyDisconnected(e))
          /\ NotifyDisconnected(e).state = "UNCONNECTED"
          /\ ~c.idleTriggered /\ c.active => NotifyDisconnected(e).active
      BY <2>2, <2>3, <2>4
      DEF Consistent, NetState, SameControl, NotifyDisconnected, Object, NetStates
    <2>6. ToUnconnected(c) = NotifyDisconnected(e)
      BY <1>2 DEF ToUnconnected, d, e
    <2> QED
      BY <2>5, <2>6, ToUnconnectedType DEF Good
  <1> QED
    BY <1>1, <1>2

\* A handshake keeps an object good: it starts from UNCONNECTED (_handshake).
LEMMA HandshakeGood ==
    ASSUME NEW c, Good(c), c.state \in {"UNCONNECTED", "CONNECTING"}
    PROVE  Good(Handshake(c))
  <1>1. CASE ~c.active
    BY <1>1 DEF Handshake
  <1>2. CASE c.active
    <2>1. Consistent(Handshake(c))
      BY <1>2 DEF Handshake, Good, Consistent, NetState, Object, NetStates
    <2> QED
      BY <2>1, HandshakeType DEF Good
  <1> QED
    BY <1>1, <1>2

\* And a reconnect (_reconnect).
LEMMA ReconnectGood ==
    ASSUME NEW c, Good(c), c.state = "UNCONNECTED" PROVE Good(Reconnect(c))
  <1>1. CASE c.active /\ c.clientId # NoCid
    <2>1. Consistent(Reconnect(c))
      BY <1>1 DEF Reconnect, Good, Consistent, NetState, Object, NetStates
    <2> QED
      BY <2>1, ReconnectType DEF Good
  <1> QED
    BY <1>1, HandshakeGood DEF Reconnect

\* After _handleAdvice the object is UNCONNECTED, whatever the advice.  A failed
\* connection is closed before, when the object is not consistent.
LEMMA HandleAdviceGood ==
    ASSUME NEW c \in Object, c.netstate # "disconnected" <=> c.active,
           c.state = "UNCONNECTED" => Consistent(c)
    PROVE  Good(HandleAdvice(c))
  <1> DEFINE d == ToUnconnected(c)
  <1>1. Good(d) /\ d.state = "UNCONNECTED"
    BY ToUnconnectedGood
  <1> HIDE DEF d
  <1>2. Consistent([d EXCEPT !.clientId = NoCid])
    BY <1>1 DEF Good, Consistent, NetState, Object
  <1>3. Consistent([d EXCEPT !.timer = TRUE])
    BY <1>1 DEF Good, Consistent, NetState, Object
  <1>4. Consistent(HandleAdvice(c))
    BY <1>2, <1>3 DEF HandleAdvice, d
  <1> QED
    BY <1>4, HandleAdviceType DEF Good

\* The retry timer keeps an object good in every state (_handleTimer).
LEMMA HandleTimerGood ==
    ASSUME NEW c, Good(c) PROVE Good(HandleTimer(c))
  <1> DEFINE d == [c EXCEPT !.timer = FALSE]
  <1>1. d \in Object /\ SameControl(c, d)
    BY DEF Good, Object, SameControl
  <1>2. Good(d)
    BY <1>1, SameControlConsistent DEF Good
  <1>3. d.state = c.state
    BY <1>1 DEF SameControl
  <1> HIDE DEF d
  <1> QED
    BY <1>2, <1>3, HandshakeGood, ReconnectGood DEF HandleTimer, d

\* Only an object that waits for the answer to a connect becomes CONNECTED.
LEMMA ConnectDoneGood ==
    ASSUME NEW c, Good(c), c.chttp \in {"connect", "reconnect"}
    PROVE  Good(ConnectDone(c))
  <1> DEFINE d == [c EXCEPT !.advice = "retry", !.chttp = "stream"]
             e == SendPendingRequests(d, d.sent)
  <1>1. d \in Object
    BY DEF Good, Object, Advices, Streams
  <1>2. /\ d.state = "CONNECTING" /\ d.clientId # NoCid /\ d.chttp = "stream"
        /\ d.netstate = c.netstate /\ d.active = c.active
        /\ d.idleTriggered = c.idleTriggered /\ c.state = "CONNECTING"
    BY DEF Good, Consistent, Object
  <1>3. e \in Object /\ SameControl(d, e)
    BY <1>1, <1>2, SendPendingRequestsType, SendPendingRequestsKeeps DEF Object
  <1>4. ConnectDone(c) = ToConnected(e)
    BY DEF ConnectDone, Connected
  <1> HIDE DEF d, e
  <1>5. Consistent(ToConnected(e))
    BY <1>2, <1>3 DEF Good, Consistent, NetState, SameControl, ToConnected, Object, NetStates
  <1> QED
    BY <1>3, <1>4, <1>5, ToConnectedType DEF Good

\* Sending the disconnect message makes the object UNCONNECTING and nothing else of
\* the control state (_disconnect).
LEMMA SendDisconnectControl ==
    ASSUME NEW c \in Object
    PROVE  /\ SendDisconnect(c).state = "UNCONNECTING"
           /\ SendDisconnect(c).netstate = c.netstate /\ SendDisconnect(c).active = c.active
           /\ SendDisconnect(c).idleTriggered = c.idleTriggered
           /\ SendDisconnect(c).chttp = c.chttp
  BY DEF SendDisconnect, Fetch, Object

-----------------------------------------------------------------------------
(* The interface *)

\* The next request id is within the bound when the guard of a call held.
LEMMA ReqIdStep ==
    ASSUME NEW c \in Object, c.reqid <= MaxReqId
    PROVE  c.reqid \in ReqIds /\ c.reqid + 1 \in 1 .. (MaxReqId + 1)
  <1>1. c.reqid \in 1 .. (MaxReqId + 1)
    BY DEF Object
  <1> QED
    BY <1>1, BoundsAssumption DEF ReqIds

\* subscribe() keeps an object good.
LEMMA SubscribeGood ==
    ASSUME NEW c, Good(c), c.reqid <= MaxReqId, NEW name \in Subs
    PROVE  Good(Subscribe(c, name))
  <1> DEFINE s == [id |-> c.reqid, name |-> name, pending |-> TRUE]
             d == [c EXCEPT !.subs = @ \cup {s}, !.reqid = @ + 1]
  <1>1. c.reqid \in ReqIds /\ c.reqid + 1 \in 1 .. (MaxReqId + 1)
    BY ReqIdStep DEF Good
  <1>2. s \in SubRec
    BY <1>1 DEF SubRec
  <1>3. d \in Object
    <2> DEFINE next == c.reqid + 1
    <2> HIDE DEF s, next
    <2>1. [c EXCEPT !.subs = @ \cup {s}, !.reqid = next] \in Object
      BY <1>1, <1>2 DEF Good, Object, next
    <2> QED
      BY <2>1 DEF next
  <1>4. SameControl(c, d)
    BY DEF Good, Object, SameControl
  <1>5. Good(d)
    BY <1>3, <1>4, SameControlConsistent DEF Good
  <1> QED
    BY <1>5, SendIfConnectedGood DEF Subscribe

\* unsubscribe() without a callback keeps an object good.
LEMMA UnsubscribeGood ==
    ASSUME NEW c, Good(c), c.reqid <= MaxReqId, NEW name \in Subs
    PROVE  Good(Unsubscribe(c, name))
  <1> DEFINE matching == {s \in c.subs : s.name = name}
             first == {s \in matching : \A t \in matching : s.id <= t.id}
             u == [id |-> c.reqid, name |-> name]
             d == [c EXCEPT !.entries = @ \ {name}, !.notify[name] = {},
                            !.subs = @ \ first, !.unsubs = @ \cup {u}, !.reqid = @ + 1]
  <1>1. c.reqid \in ReqIds /\ c.reqid + 1 \in 1 .. (MaxReqId + 1)
    BY ReqIdStep DEF Good
  <1>2. u \in UnsubRec
    BY <1>1 DEF UnsubRec
  <1>3. d \in Object
    <2> DEFINE next == c.reqid + 1
    <2> HIDE DEF u, first, next
    <2>1. [c.notify EXCEPT ![name] = {}] \in [Subs -> SUBSET ReqIds]
      BY DEF Good, Object
    <2>2. [c EXCEPT !.entries = @ \ {name}, !.notify[name] = {}, !.subs = @ \ first,
                    !.unsubs = @ \cup {u}, !.reqid = next] \in Object
      BY <1>1, <1>2, <2>1 DEF Good, Object, next
    <2> QED
      BY <2>2 DEF next
  <1>4. SameControl(c, d)
    BY DEF Good, Object, SameControl
  <1>5. Good(d)
    BY <1>3, <1>4, SameControlConsistent DEF Good
  <1> QED
    BY <1>5, SendIfConnectedGood DEF Unsubscribe

\* unsubscribe() with a callback, and removeCallback(), keep it good.
LEMMA RemoveCallbackGood ==
    ASSUME NEW c, Good(c), NEW name \in Subs, NEW id
    PROVE  Good(RemoveCallback(c, name, id))
  <1>1. RemoveCallback(c, name, id) \in Object
    BY DEF RemoveCallback, Good, Object
  <1>2. SameControl(c, RemoveCallback(c, name, id))
    BY DEF RemoveCallback, Good, Object, SameControl
  <1> QED
    BY <1>1, <1>2, SameControlConsistent DEF Good

\* startBatch() and endBatch() keep it good.
LEMMA BatchGood ==
    ASSUME NEW c, Good(c)
    PROVE  /\ c.batch < MaxBatch => Good(StartBatch(c))
           /\ c.batch > 0 => Good(EndBatch(c))
  <1>1. ASSUME c.batch < MaxBatch PROVE Good(StartBatch(c))
    <2>1. StartBatch(c) \in Object
      <3> DEFINE n == c.batch + 1
      <3>1. c.batch \in 0 .. MaxBatch
        BY DEF Good, Object
      <3>2. n \in 0 .. MaxBatch
        BY <1>1, <3>1, BoundsAssumption
      <3> HIDE DEF n
      <3>3. [c EXCEPT !.batch = n] \in Object
        BY <3>2 DEF Good, Object
      <3> QED
        BY <3>3 DEF StartBatch, n
    <2>2. SameControl(c, StartBatch(c))
      BY DEF StartBatch, Good, Object, SameControl
    <2> QED
      BY <2>1, <2>2, SameControlConsistent DEF Good
  <1>2. ASSUME c.batch > 0 PROVE Good(EndBatch(c))
    <2> DEFINE d == [c EXCEPT !.batch = @ - 1]
    <2>1. d \in Object
      <3> DEFINE n == c.batch - 1
      <3>1. c.batch \in 0 .. MaxBatch
        BY DEF Good, Object
      <3>2. n \in 0 .. MaxBatch
        BY <1>2, <3>1, BoundsAssumption
      <3> HIDE DEF n
      <3>3. [c EXCEPT !.batch = n] \in Object
        BY <3>2 DEF Good, Object
      <3> QED
        BY <3>3 DEF n
    <2>2. SameControl(c, d)
      BY DEF Good, Object, SameControl
    <2>3. Good(d)
      BY <2>1, <2>2, SameControlConsistent DEF Good
    <2> QED
      BY <2>3, SendIfConnectedGood DEF EndBatch
  <1> QED
    BY <1>1, <1>2

\* A request that runs into the assertion of _reconnect keeps it good: it has only
\* been queued.
LEMMA RequestFailsGood ==
    ASSUME NEW c, Good(c), c.reqid <= MaxReqId, NEW func \in BOOLEAN
    PROVE  Good(RequestFails(c, func)) /\ SameControl(c, RequestFails(c, func))
  <1> DEFINE r == [id |-> c.reqid, func |-> func]
             next == c.reqid + 1
  <1>1. c.reqid \in ReqIds /\ next \in 1 .. (MaxReqId + 1)
    BY ReqIdStep DEF Good
  <1>2. r \in ReqRec
    BY <1>1 DEF ReqRec
  <1>3. RequestFails(c, func) = [c EXCEPT !.reqs = @ \cup {r}, !.reqid = next]
    BY DEF RequestFails
  <1> HIDE DEF r, next
  <1>4. RequestFails(c, func) \in Object
    <2>1. [c EXCEPT !.reqs = @ \cup {r}, !.reqid = next] \in Object
      BY <1>1, <1>2 DEF Good, Object
    <2> QED
      BY <1>3, <2>1
  <1>5. SameControl(c, RequestFails(c, func))
    BY <1>3 DEF Good, Object, SameControl
  <1> QED
    BY <1>4, <1>5, SameControlConsistent DEF Good

\* request() keeps it good, with the reconnect it may start.
LEMMA RequestGood ==
    ASSUME NEW c, Good(c), c.reqid <= MaxReqId, NEW func \in BOOLEAN,
           c.state # "UNCONNECTING"
    PROVE  Good(Request(c, func))
  <1> DEFINE q == RequestFails(c, func)
             t == IF c.state = "UNCONNECTED" THEN Reconnect(q) ELSE q
  <1>1. Good(q) /\ q.state = c.state
    BY RequestFailsGood DEF SameControl
  <1>2. Good(t)
    BY <1>1, ReconnectGood
  <1>3. t.state # "UNCONNECTING"
    <2>1. q.state = "UNCONNECTED" => Reconnect(q).state \in {"UNCONNECTED", "CONNECTING"}
      <3> HIDE DEF q
      <3> QED
        BY <1>1 DEF Reconnect, Handshake, Good, Object
    <2> QED
      BY <1>1, <2>1
  <1>4. Request(c, func) = IF t.state # "CONNECTED" THEN NotifyDisconnected(t)
                           ELSE SendIfConnected(t)
    BY DEF Request, RequestFails
  <1> HIDE DEF t
  <1>5. CASE t.state # "CONNECTED"
    <2>1. Consistent(NotifyDisconnected(t))
      BY <1>2, <1>3, <1>5
      DEF Good, Consistent, NetState, NotifyDisconnected, Object, NetStates
    <2> QED
      BY <1>2, <1>4, <1>5, <2>1, NotifyDisconnectedType DEF Good
  <1> QED
    BY <1>2, <1>4, <1>5, SendIfConnectedGood

\* A new network connection keeps it good (notify_networkConnected).
LEMMA NetworkConnectedGood ==
    ASSUME NEW c, Good(c) PROVE Good(NetworkConnected(c))
  <1>1. CASE c.state \in {"CONNECTING", "CONNECTED"}
    <2> DEFINE d == ToUnconnected(c)
               e == [d EXCEPT !.active = TRUE]
    <2>1. ~c.idleTriggered /\ c.active
      BY <1>1 DEF Good, Consistent, NetState, Object, NetStates
    <2>2. Good(d) /\ d.state = "UNCONNECTED" /\ d.active
      BY <2>1, ToUnconnectedGood DEF Good, Consistent, NetState
    <2>3. NetworkConnected(c) = Handshake(e)
      BY <1>1, <2>2 DEF NetworkConnected, Connect
    <2> HIDE DEF d
    <2>4. e \in Object /\ SameControl(d, e)
      BY <2>2 DEF Good, Object, SameControl
    <2>5. Good(e) /\ e.state = "UNCONNECTED"
      BY <2>2, <2>4, SameControlConsistent DEF Good, SameControl
    <2> HIDE DEF e
    <2> QED
      BY <2>3, <2>5, HandshakeGood
  <1> QED
    BY <1>1 DEF NetworkConnected

\* The idle timer keeps it good (_resetIdleTimer).
LEMMA IdleTimeoutGood ==
    ASSUME NEW c, Good(c) PROVE Good(IdleTimeout(c))
  <1> DEFINE d == [c EXCEPT !.idleTimer = FALSE]
             e == [d EXCEPT !.idleTriggered = TRUE]
             f == SendDisconnect(e)
  <1>1. d \in Object /\ SameControl(c, d)
    BY DEF Good, Object, SameControl
  <1>2. CASE c.state # "CONNECTED"
    BY <1>1, <1>2, SameControlConsistent DEF IdleTimeout, Good
  <1>3. CASE c.state = "CONNECTED"
    <2>1. /\ e \in Object /\ e.clientId = c.clientId /\ e.idleTriggered
          /\ e.netstate = c.netstate /\ e.active = c.active /\ e.chttp = c.chttp
      BY DEF Good, Object
    <2>2. IdleTimeout(c) = f
      BY <1>3 DEF IdleTimeout
    <2>3. c.clientId # NoCid
      BY <1>3 DEF Good, Consistent
    <2> HIDE DEF e
    <2>4. f \in Object
      BY <2>1, <2>3, SendDisconnectType
    <2>5. /\ f.state = "UNCONNECTING" /\ f.idleTriggered /\ f.netstate = c.netstate
          /\ f.active = c.active /\ f.chttp = c.chttp
      BY <2>1, SendDisconnectControl
    <2> HIDE DEF f
    <2>6. Consistent(f)
      BY <1>3, <2>5 DEF Good, Consistent, NetState
    <2> QED
      BY <2>2, <2>4, <2>6 DEF Good
  <1> QED
    BY <1>2, <1>3

\* An acknowledgement keeps it good (_response).
LEMMA AcknowledgeGood ==
    ASSUME NEW c, Good(c), NEW ids
    PROVE  Good(Acknowledge(c, ids)) /\ Good(RemoveRequests(c, ids))
  <1>1. Acknowledge(c, ids) \in Object /\ SameControl(c, Acknowledge(c, ids))
    BY DEF Acknowledge, Good, Object, SameControl
  <1>2. RemoveRequests(c, ids) \in Object /\ SameControl(c, RemoveRequests(c, ids))
    BY DEF RemoveRequests, Good, Object, SameControl
  <1> QED
    BY <1>1, <1>2, SameControlConsistent DEF Good

\* And an answer with its result (_response).
LEMMA RequestAnsweredGood ==
    ASSUME NEW c, Good(c), NEW id PROVE Good(RequestAnswered(c, id))
  <1> DEFINE d == Acknowledge(c, {id})
  <1>1. Good(d)
    BY AcknowledgeGood
  <1> HIDE DEF d
  <1>2. RequestAnswered(c, id) =
          [d EXCEPT !.waiting = @ \ {id},
                    !.userRequests = IF id \in c.waiting THEN @ \ {id} ELSE @]
    BY DEF RequestAnswered, d
  <1> DEFINE w == d.waiting \ {id}
             u == IF id \in c.waiting THEN d.userRequests \ {id} ELSE d.userRequests
  <1>3. w \in SUBSET ReqIds /\ u \in SUBSET ReqIds
    BY <1>1 DEF Good, Object
  <1>4. RequestAnswered(c, id) = [d EXCEPT !.waiting = w, !.userRequests = u]
    BY <1>2
  <1> HIDE DEF w, u
  <1>5. RequestAnswered(c, id) \in Object /\ SameControl(d, RequestAnswered(c, id))
    BY ZenonT(60), <1>1, <1>3, <1>4 DEF Good, Object, SameControl
  <1> QED
    BY <1>1, <1>5, SameControlConsistent DEF Good

-----------------------------------------------------------------------------
(* The SlimServer *)

\* SlimServer:connect() keeps it good, and brings netstate along.
LEMMA ServerConnectGood ==
    ASSUME NEW c, Good(c)
    PROVE  Good(ServerConnect(c)) /\ ServerConnect(c).reqid = c.reqid
  <1> DEFINE d == [c EXCEPT !.netstate = "connecting"]
             a == [d EXCEPT !.active = TRUE]
             u == ToUnconnected(a)
  <1>1. CASE c.netstate # "disconnected"
    BY <1>1 DEF ServerConnect
  <1>2. CASE c.netstate = "disconnected"
    <2>1. /\ a \in Object /\ a.netstate = "connecting" /\ a.active
          /\ a.state = c.state /\ a.chttp = c.chttp /\ a.idleTriggered = c.idleTriggered
          /\ a.clientId = c.clientId /\ a.reqid = c.reqid /\ d.state = c.state
      BY DEF Good, Object, NetStates
    <2>2. c.state \in {"UNCONNECTING", "UNCONNECTED"}
      BY <1>2 DEF Good, Consistent, NetState
    <2>3. ServerConnect(c) = Handshake(IF c.state = "UNCONNECTING" THEN u ELSE a)
      BY <1>2, <2>1, <2>2 DEF ServerConnect, Connect
    <2> HIDE DEF a
    <2>4. a.state = "UNCONNECTED" => Consistent(a)
      BY <1>2, <2>1 DEF Good, Consistent, NetState
    <2>5. Good(u) /\ u.state = "UNCONNECTED"
      BY <2>1, <2>4, ToUnconnectedGood
    <2>6. u.reqid = a.reqid
      BY <2>1 DEF ToUnconnected, NotifyDisconnected, CloseRequests, Object
    <2> HIDE DEF u
    <2>7. \A x : Good(x) => Handshake(x).reqid = x.reqid
      BY DEF Handshake, Good, Object
    <2> QED
      BY <2>1, <2>2, <2>3, <2>4, <2>5, <2>6, <2>7, HandshakeGood DEF Good
  <1> QED
    BY <1>1, <1>2

\* SlimServer:disconnect() keeps it good.
LEMMA ServerDisconnectGood ==
    ASSUME NEW c, Good(c) PROVE Good(ServerDisconnect(c))
  <1> DEFINE d == [c EXCEPT !.netstate = "disconnected"]
             i == [d EXCEPT !.active = FALSE]
  <1>1. CASE c.netstate = "disconnected"
    BY <1>1 DEF ServerDisconnect
  <1>2. CASE c.netstate # "disconnected"
    <2>1. /\ i \in Object /\ i.netstate = "disconnected" /\ ~i.active
          /\ i.state = c.state /\ i.chttp = c.chttp /\ i.idleTriggered = c.idleTriggered
          /\ i.clientId = c.clientId /\ d.state = c.state
      BY DEF Good, Object, NetStates
    <2>2. ServerDisconnect(c) = CASE c.state \in {"UNCONNECTED", "UNCONNECTING"} -> i
                                  [] c.state = "CONNECTING" -> ToUnconnected(i)
                                  [] c.state = "CONNECTED"  -> SendDisconnect(i)
      BY <1>2, <2>1 DEF ServerDisconnect, Disconnect
    <2> HIDE DEF i
    <2>3. CASE c.state \in {"UNCONNECTED", "UNCONNECTING"}
      BY <2>1, <2>2, <2>3 DEF Good, Consistent, NetState
    <2>4. CASE c.state = "CONNECTING"
      BY <2>1, <2>2, <2>4, ToUnconnectedGood
    <2>5. CASE c.state = "CONNECTED"
      <3> DEFINE f == SendDisconnect(i)
      <3>1. f \in Object
        BY <2>1, <2>5, SendDisconnectType DEF Good, Consistent
      <3>2. /\ f.state = "UNCONNECTING" /\ f.netstate = "disconnected" /\ ~f.active
            /\ f.chttp = c.chttp /\ f.idleTriggered = c.idleTriggered
        BY <2>1, SendDisconnectControl
      <3> HIDE DEF f
      <3>3. Consistent(f)
        BY <2>5, <3>2 DEF Good, Consistent, NetState
      <3> QED
        BY <2>2, <2>5, <3>1, <3>3 DEF Good, f
    <2>6. c.state \in {"UNCONNECTED", "CONNECTING", "CONNECTED", "UNCONNECTING"}
      BY DEF Good, Object, States
    <2> QED
      BY <2>3, <2>4, <2>5, <2>6
  <1> QED
    BY <1>1, <1>2

\* Forgetting the user requests leaves the other requests requests.
LEMMA UserRequestsType ==
    ASSUME NEW c, Good(c), NEW ids \in SUBSET ReqIds
    PROVE  Good([c EXCEPT !.userRequests = ids])
  <1> DEFINE d == [c EXCEPT !.userRequests = ids]
  <1>1. d \in Object /\ SameControl(c, d)
    BY DEF Good, Object, SameControl
  <1> QED
    BY <1>1, SameControlConsistent DEF Good

\* SlimServer:userRequest() keeps it good, with the connect it may start.
LEMMA UserRequestGood ==
    ASSUME NEW c, Good(c), c.reqid <= MaxReqId PROVE Good(UserRequest(c))
  <1> DEFINE up == ServerConnect(c)
  <1>1. Good(up) /\ up.reqid <= MaxReqId
    BY ServerConnectGood
  <1> HIDE DEF up
  <1>2. CASE up.state = "UNCONNECTING"
    BY <1>1, <1>2, RequestFailsGood DEF UserRequest, up
  <1>3. CASE up.state # "UNCONNECTING"
    <2> DEFINE r == Request(up, TRUE)
    <2>1. Good(r)
      BY <1>1, <1>3, RequestGood
    <2>2. UserRequest(c) = [r EXCEPT !.userRequests = r.userRequests \cup {c.reqid}]
      BY <1>3 DEF UserRequest, up
    <2> HIDE DEF r
    <2>3. r.userRequests \cup {c.reqid} \in SUBSET ReqIds
      BY <2>1, ReqIdStep DEF Good, Object
    <2> QED
      BY <2>1, <2>2, <2>3, UserRequestsType
  <1> QED
    BY <1>2, <1>3

\* SlimServer:request() keeps it good.
LEMMA BackgroundRequestGood ==
    ASSUME NEW c, Good(c), c.reqid <= MaxReqId, NEW func \in BOOLEAN
    PROVE  Good(BackgroundRequest(c, func))
  BY RequestFailsGood, RequestGood DEF BackgroundRequest

\* SlimServer:removeAllUserRequests() keeps it good.
LEMMA RemoveAllUserRequestsGood ==
    ASSUME NEW c, Good(c) PROVE Good(RemoveAllUserRequests(c))
  BY AcknowledgeGood, UserRequestsType DEF RemoveAllUserRequests

\* The answer to a handshake keeps it good (_getHandshakeSink, _connect).
LEMMA HandshakeDoneGood ==
    ASSUME NEW c, Good(c), c.chttp = "handshake", NEW cid \in Cids
    PROVE  Good(HandshakeDone(c, cid))
  <1> DEFINE sent == {IF m.kind = "unsubscribe" THEN m ELSE [m EXCEPT !.cid = cid] : m \in c.sent}
             d == [c EXCEPT !.clientId = cid, !.advice = "retry", !.chttp = "connect",
                            !.sent = sent]
  <1>1. sent \in SUBSET Message
    <2>1. \A m \in Message : [m EXCEPT !.cid = cid] \in Message
      BY DEF Message
    <2> QED
      BY <2>1 DEF Good, Object
  <1>2. cid # NoCid
    BY DEF Cids, NoCid
  <1>3. HandshakeDone(c, cid) = d
    BY DEF HandshakeDone
  <1> HIDE DEF sent
  <1>4. d \in Object
    BY <1>1 DEF Good, Object, Advices, Streams
  <1>5. Consistent(d)
    BY <1>2 DEF Good, Consistent, NetState, Object
  <1> QED
    BY <1>3, <1>4, <1>5 DEF Good

\* And its refusal or failure (_getHandshakeSink).
LEMMA RefusedGood ==
    ASSUME NEW c, Good(c), NEW advice \in Advices PROVE Good(Refused(c, advice))
  <1> DEFINE d == [c EXCEPT !.advice = advice]
  <1>1. d \in Object /\ SameControl(c, d)
    BY DEF Good, Object, SameControl
  <1>2. Good(d)
    BY <1>1, SameControlConsistent DEF Good
  <1> QED
    BY <1>1, <1>2, HandleAdviceGood DEF Refused, Good, Consistent, NetState

\* And the answer to a disconnect (_response).
LEMMA DisconnectDoneGood ==
    ASSUME NEW c, Good(c) PROVE Good(DisconnectDone(c))
  <1> DEFINE d == [c EXCEPT !.clientId = NoCid]
  <1>1. /\ d \in Object /\ d.state = c.state /\ d.netstate = c.netstate /\ d.active = c.active
    BY DEF Good, Object
  <1>2. CASE c.state = "UNCONNECTING"
    BY <1>1, <1>2, ToUnconnectedGood DEF DisconnectDone, Good, Consistent, NetState
  <1> QED
    BY <1>2 DEF DisconnectDone

-----------------------------------------------------------------------------
(* The steps of Comet.tla *)

ServerTypeOK ==
    /\ nextCid \in 1 .. (MaxCid + 1)
    /\ known \in SUBSET Cids
    /\ subscribed \in [Cids -> SUBSET Subs]
    /\ executed \in [ReqIds -> Nat]
    /\ results \in SUBSET (Cids \X ReqIds)
    /\ faults \in 0 .. MaxFaults
    /\ called \in [ReqIds -> Nat]

\* The inductive invariant.
Inv == Good(comet) /\ ServerTypeOK

\* The invariant holds of a new object and an empty server.
LEMMA InvInit == Init => Inv
  <1> SUFFICES ASSUME Init PROVE Inv
    OBVIOUS
  <1>1. NewObject \in Object
    <2>1. 1 \in 1 .. (MaxReqId + 1) /\ 0 \in 0 .. MaxBatch
      BY BoundsAssumption
    <2>2. <<>> \in Seq(Bundle) /\ <<>> \in Seq(Answer)
      OBVIOUS
    <2> QED
      BY <2>1, <2>2 DEF NewObject, Object, States, NoCid, Advices, NetStates, Streams
  <1>2. Consistent(NewObject)
    BY DEF NewObject, Consistent, NetState
  <1>3. ServerTypeOK
    BY BoundsAssumption, FaultsAssumption DEF Init, ServerTypeOK, Cids
  <1> QED
    BY <1>1, <1>2, <1>3 DEF Inv, Init, Good

\* Every call of a user of the SlimServer keeps the object good.
LEMMA CallsGood == ASSUME Inv, Calls PROVE Good(comet')
  <1> Good(comet)
    BY DEF Inv
  <1>1. ASSUME NEW n \in Subs, SubscribeCall(n) PROVE Good(comet')
    BY <1>1, SubscribeGood DEF SubscribeCall, HasReqId
  <1>2. ASSUME NEW n \in Subs, UnsubscribeCall(n) PROVE Good(comet')
    BY <1>2, UnsubscribeGood DEF UnsubscribeCall, HasReqId
  <1>3. ASSUME NEW n \in Subs, RemoveCallbackCall(n) PROVE Good(comet')
    BY <1>3, RemoveCallbackGood DEF RemoveCallbackCall
  <1>4. ASSUME UserRequestCall PROVE Good(comet')
    BY <1>4, UserRequestGood DEF UserRequestCall, HasReqId
  <1>5. ASSUME NEW func \in BOOLEAN, BackgroundRequestCall(func) PROVE Good(comet')
    BY <1>5, BackgroundRequestGood DEF BackgroundRequestCall, HasReqId
  <1>6. ASSUME RemoveAllUserRequestsCall PROVE Good(comet')
    BY <1>6, RemoveAllUserRequestsGood DEF RemoveAllUserRequestsCall
  <1>7. ASSUME StartBatchCall \/ EndBatchCall PROVE Good(comet')
    BY <1>7, BatchGood DEF StartBatchCall, EndBatchCall
  <1>8. ASSUME ConnectCall PROVE Good(comet')
    BY <1>8, ServerConnectGood DEF ConnectCall
  <1>9. ASSUME DisconnectCall PROVE Good(comet')
    BY <1>9, ServerDisconnectGood DEF DisconnectCall
  <1>10. ASSUME ReconnectCall PROVE Good(comet')
    BY <1>10, ServerDisconnectGood, ServerConnectGood DEF ReconnectCall, ServerReconnect
  <1>11. ASSUME NEW on \in BOOLEAN, SetIdleTimeout(on) PROVE Good(comet')
    <2> DEFINE d == [comet EXCEPT !.idleTimer = on]
    <2>1. d \in Object /\ SameControl(comet, d)
      BY DEF Good, Object, SameControl
    <2> HIDE DEF d
    <2>2. Good(d)
      BY <2>1, SameControlConsistent DEF Good
    <2> QED
      BY <1>11, <2>2 DEF SetIdleTimeout, d
  <1> QED
    BY <1>1, <1>2, <1>3, <1>4, <1>5, <1>6, <1>7, <1>8, <1>9, <1>10, <1>11 DEF Calls

\* So does every timer, answer and failure.
LEMMA EventsGood == ASSUME Inv, Events PROVE Good(comet')
  <1> Good(comet)
    BY DEF Inv
  <1>1. ASSUME ReconnectTimer PROVE Good(comet')
    BY <1>1, HandleTimerGood DEF ReconnectTimer
  <1>2. ASSUME IdleTimer PROVE Good(comet')
    BY <1>2, IdleTimeoutGood DEF IdleTimer
  <1>3. ASSUME NetworkConnectedEvent PROVE Good(comet')
    BY <1>3, NetworkConnectedGood DEF NetworkConnectedEvent
  <1>4. ASSUME ChunkedFails PROVE Good(comet')
    <2> DEFINE d == [comet EXCEPT !.chttp = "none"]
    <2>1. d \in Object
      BY DEF Good, Object, Streams
    <2>2. /\ d.netstate # "disconnected" <=> d.active
          /\ d.state = "UNCONNECTED" => Consistent(d)
      BY DEF Good, Object, Consistent, NetState
    <2>3. comet' = HandleAdvice(d)
      BY <1>4 DEF ChunkedFails
    <2> HIDE DEF d
    <2> QED
      BY <2>1, <2>2, <2>3, HandleAdviceGood
  <1>5. ASSUME RequestsFail PROVE Good(comet')
    <2>1. Good(CloseRequests(comet))
      BY CloseRequestsType, CloseRequestsKeeps, SameControlConsistent DEF Good
    <2> QED
      BY <1>5, <2>1, HandleAdviceGood DEF RequestsFail, Good, Consistent, NetState
  <1>6. ASSUME NEW advice \in Advices, RefuseHandshake(advice) PROVE Good(comet')
    BY <1>6, RefusedGood DEF RefuseHandshake
  <1>7. ASSUME NEW cid \in Cids, ForgetClient(cid) PROVE Good(comet')
    BY <1>7 DEF ForgetClient
  <1> QED
    BY <1>1, <1>2, <1>3, <1>4, <1>5, <1>6, <1>7 DEF Events

\* The request connection does not take part in Consistent.
LEMMA OutboxGood ==
    ASSUME NEW c, Good(c), NEW out \in Seq(Bundle), NEW ans \in Seq(Answer)
    PROVE  Good([c EXCEPT !.outbox = out, !.answers = ans])
  <1> DEFINE d == [c EXCEPT !.outbox = out, !.answers = ans]
  <1>1. d \in Object /\ SameControl(c, d)
    BY DEF Good, Object, SameControl
  <1> QED
    BY <1>1, SameControlConsistent DEF Good

\* A batch that is served is answered, and the object keeps good.
LEMMA ServeGood == ASSUME Inv, Serve PROVE Good(comet')
  <1> DEFINE bundle == Head(comet.outbox)
             acked  == {m.id : m \in {k \in bundle.msgs : k.func}}
             answer == CASE bundle.cid \notin known -> [kind |-> "refused", ids |-> {}]
                         [] bundle.cid \in known /\ bundle.kind = "disconnect"
                                            -> [kind |-> "disconnected", ids |-> {}]
                         [] OTHER -> [kind |-> "acks", ids |-> acked]
             out == Tail(comet.outbox)
             ans == Append(comet.answers, answer)
  <1>1. comet.outbox \in Seq(Bundle) /\ comet.outbox # <<>> /\ comet.answers \in Seq(Answer)
    BY DEF Inv, Good, Object, Serve
  <1>2. bundle \in Bundle /\ out \in Seq(Bundle)
    BY <1>1
  <1>3. acked \in SUBSET ReqIds
    <2> HIDE DEF bundle
    <2> QED
      BY <1>2 DEF Bundle, Message
  <1>4. answer \in Answer
    <2> HIDE DEF bundle, acked
    <2>1. /\ [kind |-> "refused", ids |-> {}] \in Answer
          /\ [kind |-> "disconnected", ids |-> {}] \in Answer
          /\ [kind |-> "acks", ids |-> acked] \in Answer
      BY <1>3 DEF Answer
    <2> QED
      BY <2>1
  <1>5. comet' = [comet EXCEPT !.outbox = out, !.answers = ans]
    BY DEF Serve
  <1> HIDE DEF answer
  <1>6. ans \in Seq(Answer)
    BY <1>1, <1>4
  <1> HIDE DEF out, ans
  <1> QED
    BY <1>2, <1>5, <1>6, OutboxGood DEF Inv

\* The answer to a batch keeps the object good (_response).
LEMMA AnsweredGood == ASSUME Inv, Answered PROVE Good(comet')
  <1> DEFINE answer == Head(comet.answers)
             rest   == [comet EXCEPT !.answers = Tail(@)]
  <1>1. comet \in Object /\ comet.answers \in Seq(Answer) /\ comet.answers # <<>>
    BY DEF Inv, Good, Object, Answered
  <1>2. answer \in Answer /\ Tail(comet.answers) \in Seq(Answer)
    BY <1>1
  <1>3. Good(rest)
    <2> DEFINE tail == Tail(comet.answers)
    <2> HIDE DEF tail
    <2>1. [comet EXCEPT !.answers = tail] \in Object
      BY <1>1, <1>2 DEF Object, tail
    <2>2. SameControl(comet, [comet EXCEPT !.answers = tail])
      BY <1>1 DEF Object, SameControl
    <2>3. rest = [comet EXCEPT !.answers = tail]
      BY DEF tail
    <2> QED
      BY <2>1, <2>2, <2>3, SameControlConsistent DEF Inv, Good
  <1>4. answer.kind \in {"acks", "refused", "disconnected"}
    <2> HIDE DEF answer
    <2> QED
      BY <1>2 DEF Answer
  <1>5. comet' = CASE answer.kind = "acks"         -> Acknowledge(rest, answer.ids)
                   [] answer.kind = "refused"      -> Refused(rest, "handshake")
                   [] answer.kind = "disconnected" -> DisconnectDone(rest)
    BY DEF Answered
  <1> HIDE DEF answer, rest
  <1>6. CASE answer.kind = "acks"
    BY <1>3, <1>5, <1>6, AcknowledgeGood
  <1>7. CASE answer.kind = "refused"
    BY <1>3, <1>5, <1>7, RefusedGood DEF Advices
  <1>8. CASE answer.kind = "disconnected"
    BY <1>3, <1>5, <1>8, DisconnectDoneGood
  <1> QED
    BY <1>4, <1>6, <1>7, <1>8

\* And so does every answer of the server.
LEMMA ProgressGood == ASSUME Inv, Progress PROVE Good(comet')
  <1> Good(comet)
    BY DEF Inv
  <1>1. ASSUME AnswerHandshake PROVE Good(comet')
    BY <1>1, HandshakeDoneGood DEF AnswerHandshake
  <1>2. ASSUME AnswerConnect PROVE Good(comet')
    BY <1>2, ConnectDoneGood, RefusedGood DEF AnswerConnect, Advices
  <1>3. ASSUME NEW id \in ReqIds, ResultArrives(id) PROVE Good(comet')
    BY <1>3, RequestAnsweredGood DEF ResultArrives
  <1> QED
    BY <1>1, <1>2, <1>3, ServeGood, AnsweredGood DEF Progress

\* The calls leave the model of the server typed.
LEMMA CallsServer == ASSUME Inv, Calls PROVE ServerTypeOK'
  <1>1. UNCHANGED <<server, called>> /\ faults' \in 0 .. MaxFaults
    BY FaultsAssumption
    DEF Calls, SubscribeCall, UnsubscribeCall, RemoveCallbackCall, UserRequestCall,
        BackgroundRequestCall, RemoveAllUserRequestsCall, StartBatchCall, EndBatchCall,
        ConnectCall, DisconnectCall, ReconnectCall, SetIdleTimeout, Disturb, Inv, ServerTypeOK
  <1> QED
    BY <1>1 DEF Inv, ServerTypeOK, server

\* So do the timers and failures.
LEMMA EventsServer == ASSUME Inv, Events PROVE ServerTypeOK'
  <1>1. ASSUME NEW cid \in Cids, ForgetClient(cid) PROVE ServerTypeOK'
    BY <1>1, FaultsAssumption DEF ForgetClient, Disturb, Inv, ServerTypeOK
  <1>2. ASSUME Events, \A cid \in Cids : ~ForgetClient(cid) PROVE ServerTypeOK'
    <2>1. UNCHANGED <<server, called>> /\ faults' \in 0 .. MaxFaults
      BY <1>2, FaultsAssumption
      DEF Events, ReconnectTimer, IdleTimer, NetworkConnectedEvent, ChunkedFails,
          RequestsFail, RefuseHandshake, Disturb, Inv, ServerTypeOK
    <2> QED
      BY <2>1 DEF Inv, ServerTypeOK, server
  <1> QED
    BY <1>1, <1>2

\* A batch served adds subscriptions, executions and results of its client.
LEMMA ServeServer == ASSUME Inv, Serve PROVE ServerTypeOK'
  <1> DEFINE bundle   == Head(comet.outbox)
             requests == {m \in bundle.msgs : m.kind = "request"}
             ran(r)   == IF \E m \in requests : m.id = r THEN 1 ELSE 0
             asked    == {<<m.cid, m.id>> : m \in {k \in requests : k.func /\ k.cid \in known}}
  <1>1. bundle \in Bundle
    BY DEF Inv, Good, Object, Serve
  <1> HIDE DEF bundle
  <1>2. bundle.cid \in Cids /\ bundle.msgs \in SUBSET Message
    BY <1>1 DEF Bundle
  <1>3. asked \in SUBSET (Cids \X ReqIds)
    BY <1>2 DEF Message
  <1>4. SubscribedAfter(bundle.msgs) \in [Cids -> SUBSET Subs]
    BY DEF SubscribedAfter, Inv, ServerTypeOK
  <1>5. [r \in ReqIds |-> executed[r] + ran(r)] \in [ReqIds -> Nat]
    BY DEF Inv, ServerTypeOK
  <1> HIDE DEF asked, ran
  <1>6. \/ UNCHANGED server
        \/ /\ known' = known \ {bundle.cid}
           /\ subscribed' = [subscribed EXCEPT ![bundle.cid] = {}]
           /\ results' = {r \in results : r[1] # bundle.cid}
           /\ UNCHANGED <<nextCid, executed>>
        \/ /\ subscribed' = SubscribedAfter(bundle.msgs)
           /\ executed' = [r \in ReqIds |-> executed[r] + ran(r)]
           /\ results' = results \cup asked
           /\ UNCHANGED <<nextCid, known>>
    BY DEF Serve, bundle, requests, asked, ran
  <1>7. UNCHANGED <<faults, called>>
    BY DEF Serve
  <1> QED
    BY <1>2, <1>3, <1>4, <1>5, <1>6, <1>7 DEF Inv, ServerTypeOK, server

\* Every answer of the server leaves its tables typed.
LEMMA ProgressServer == ASSUME Inv, Progress PROVE ServerTypeOK'
  <1>1. ASSUME AnswerHandshake PROVE ServerTypeOK'
    BY <1>1, BoundsAssumption DEF AnswerHandshake, Inv, ServerTypeOK, Cids
  <1>2. ASSUME AnswerConnect \/ Answered PROVE ServerTypeOK'
    BY <1>2 DEF AnswerConnect, Answered, server, Inv, ServerTypeOK
  <1>3. ASSUME NEW id \in ReqIds, ResultArrives(id) PROVE ServerTypeOK'
    <2>1. called' \in [ReqIds -> Nat]
      BY <1>3 DEF ResultArrives, Inv, ServerTypeOK
    <2> QED
      BY <1>3, <2>1 DEF ResultArrives, Inv, ServerTypeOK
  <1> QED
    BY <1>1, <1>2, <1>3, ServeServer DEF Progress

\* The invariant is inductive.
LEMMA InvNext == Inv /\ [Next]_vars => Inv'
  <1>1. ASSUME Inv, Next PROVE Inv'
    <2>1. Good(comet')
      BY <1>1, CallsGood, EventsGood, ProgressGood DEF Next
    <2>2. ServerTypeOK'
      BY <1>1, CallsServer, EventsServer, ProgressServer DEF Next
    <2> QED
      BY <2>1, <2>2 DEF Inv, Good, Consistent, NetState
  <1>2. ASSUME Inv, UNCHANGED vars PROVE Inv'
    BY <1>2 DEF Inv, Good, Consistent, NetState, ServerTypeOK, vars, server
  <1> QED
    BY <1>1, <1>2

\* The inductive invariant holds: the Comet object is consistent with the SlimServer's
\* netstate in every state, and the server's tables have their types.
THEOREM Invariant == Spec => []Inv
  BY InvInit, InvNext, PTL DEF Spec

\* The object and the model of the server keep their types: in particular
\* everything that is sent carries a client id (_addPendingRequests).
THEOREM TypeCorrect == Spec => []TypeOK
  <1>1. Inv => TypeOK
    BY DEF Inv, Good, ServerTypeOK, TypeOK
  <1> QED
    BY <1>1, Invariant, PTL

\* The SlimServer's netstate and isactive agree with the state of its Comet
\* object after every call, timer, failure and answer (SlimServer.lua: connect,
\* disconnect, notify_cometConnected, notify_cometDisconnected).
THEOREM NetStateCorrect == Spec => []NetStateAgrees
  <1>1. Inv => NetStateAgrees
    BY DEF Inv, Good, Consistent, NetState, NetStateAgrees
  <1> QED
    BY <1>1, Invariant, PTL

-----------------------------------------------------------------------------
(* What is asked for.  The properties of the requests speak of different     *)
(* lists of the object and of the server, and are not inductive: nothing is  *)
(* lost because whatever was sent wants an answer, and nothing is done twice *)
(* because a request that is pending is nowhere else.                        *)

\* Nothing waits to be sent.
Quiet(c) == c.unsubs = {} /\ c.reqs = {} /\ \A s \in c.subs : ~s.pending

Flushed(c) == c.state = "CONNECTED" /\ c.batch = 0 => Quiet(c)

Flying(c, id) ==
    \/ \E i \in DOMAIN c.outbox : \E m \in c.outbox[i].msgs : m.func /\ m.id = id
    \/ \E i \in DOMAIN c.answers : c.answers[i].kind = "refused" \/ id \in c.answers[i].ids

Flown(c) == c.state = "CONNECTED" => \A m \in c.sent : Flying(c, m.id)

\* What was sent wants an answer, and only a batch carries messages.
Answerable(c) ==
    /\ \A m \in c.sent : m.func
    /\ \A i \in DOMAIN c.outbox : c.outbox[i].kind = "disconnect" => c.outbox[i].msgs = {}
    /\ \A i \in DOMAIN c.answers : c.answers[i].kind = "disconnected" => c.answers[i].ids = {}

NoGhost(c) ==
    \A n \in Subs : \A id \in c.notify[n] : \E s \in c.subs : s.name = n /\ s.id = id

\* A request is pending, or waits for its result, or has been called back.
CalledOnce(c, ca) ==
    /\ \A r \in c.waiting : r < c.reqid
    /\ \A q \in c.reqs : q.id < c.reqid /\ q.id \notin c.waiting
    /\ \A r \in ReqIds : ca[r] > 0 =>
          ca[r] = 1 /\ r < c.reqid /\ r \notin c.waiting /\ \A q \in c.reqs : q.id # r

IsRequest(m, id) == m.kind = "request" /\ m.id = id

Queued(c, id) == \E j \in DOMAIN c.outbox : \E k \in c.outbox[j].msgs : IsRequest(k, id)

Resent(c, id) == \E m \in c.sent : IsRequest(m, id)

\* A request that is pending is nowhere else.
PendingOnly(c, ex) ==
    /\ \A r \in ReqIds : ex[r] > 0 \/ Queued(c, r) \/ Resent(c, r) => r < c.reqid
    /\ \A q \in c.reqs :
          /\ q.id < c.reqid /\ ex[q.id] = 0 /\ ~Queued(c, q.id) /\ ~Resent(c, q.id)
          /\ \A p \in c.reqs : p.id = q.id => p = q

\* A request without a callback is in one bundle, and not executed.
InOneBundle(c, ex) ==
    \A i \in DOMAIN c.outbox : \A m \in c.outbox[i].msgs : ~m.func =>
        /\ m.kind = "request" /\ ex[m.id] = 0 /\ ~Resent(c, m.id)
        /\ \A q \in c.reqs : q.id # m.id
        /\ \A j \in DOMAIN c.outbox : \A k \in c.outbox[j].msgs : IsRequest(k, m.id) => i = j

Orderly(c, ex, ca) ==
    Answerable(c) /\ NoGhost(c) /\ CalledOnce(c, ca) /\ PendingOnly(c, ex) /\ InOneBundle(c, ex)

Sound(c, ex, ca) == Orderly(c, ex, ca) /\ Flushed(c) /\ Flown(c)

\* What both sides count
Counts == [ReqIds -> Nat]

\* From c to d requests are dropped or withdrawn and nothing is added.
Loses(c, d) ==
    /\ d.reqid = c.reqid /\ d.reqs \subseteq c.reqs /\ d.waiting \subseteq c.waiting
    /\ \A m \in d.sent : \E k \in c.sent : k.id = m.id /\ k.kind = m.kind /\ k.func = m.func
    /\ \A s \in c.subs : \E t \in d.subs : t.id = s.id /\ t.name = s.name
    /\ \A n \in Subs : d.notify[n] \subseteq c.notify[n]
    /\ \E n \in Nat : \A i \in DOMAIN d.outbox : i + n \in DOMAIN c.outbox /\ d.outbox[i] = c.outbox[i + n]
    /\ \A i \in DOMAIN d.answers : \E j \in DOMAIN c.answers : d.answers[i] = c.answers[j]

\* If d is connected, c was, and what is pending or on its way has not changed.
StaysUp(c, d) ==
    d.state = "CONNECTED" =>
        /\ c.state = "CONNECTED" /\ (d.batch = 0 => c.batch = 0)
        /\ d.subs = c.subs /\ d.unsubs = c.unsubs /\ d.reqs \subseteq c.reqs
        /\ d.sent \subseteq c.sent /\ d.outbox = c.outbox /\ d.answers = c.answers

\* The same requests everywhere
SameWork(c, d) ==
    /\ d.reqid = c.reqid /\ d.reqs = c.reqs /\ d.waiting = c.waiting /\ d.sent = c.sent
    /\ d.subs = c.subs /\ d.unsubs = c.unsubs /\ d.notify = c.notify
    /\ d.outbox = c.outbox /\ d.answers = c.answers /\ d.batch = c.batch

\* Where the requests are the same, none is added.
LEMMA SameWorkLoses ==
    ASSUME NEW c \in Object, NEW d \in Object, SameWork(c, d)
    PROVE  Loses(c, d)
  <1>1. 0 \in Nat /\ \A i \in DOMAIN c.outbox : i + 0 = i
    BY DEF Object
  <1> QED
    BY <1>1 DEF SameWork, Loses

\* What only loses requests twice only loses requests.
LEMMA LosesTransitive ==
    ASSUME NEW c \in Object, NEW d \in Object, NEW e \in Object, Loses(c, d), Loses(d, e)
    PROVE  Loses(c, e)
  <1>1. PICK n \in Nat : \A i \in DOMAIN d.outbox :
              i + n \in DOMAIN c.outbox /\ d.outbox[i] = c.outbox[i + n]
    BY DEF Loses
  <1>2. PICK k \in Nat : \A i \in DOMAIN e.outbox :
              i + k \in DOMAIN d.outbox /\ e.outbox[i] = d.outbox[i + k]
    BY DEF Loses
  <1>3. \A i \in DOMAIN e.outbox :
           i + (k + n) \in DOMAIN c.outbox /\ e.outbox[i] = c.outbox[i + (k + n)]
    <2> SUFFICES ASSUME NEW i \in DOMAIN e.outbox
                 PROVE  i + (k + n) \in DOMAIN c.outbox /\ e.outbox[i] = c.outbox[i + (k + n)]
      OBVIOUS
    <2>1. i \in Int
      BY DEF Object
    <2>2. (i + k) + n = i + (k + n)
      BY <2>1
    <2> QED
      BY <1>1, <1>2, <2>2
  <1>4. k + n \in Nat
    OBVIOUS
  <1>5. \A m \in e.sent : \E j \in c.sent : j.id = m.id /\ j.kind = m.kind /\ j.func = m.func
    BY DEF Loses
  <1>6. \A s \in c.subs : \E t \in e.subs : t.id = s.id /\ t.name = s.name
    BY DEF Loses
  <1>7. \A i \in DOMAIN e.answers : \E j \in DOMAIN c.answers : e.answers[i] = c.answers[j]
    BY DEF Loses
  <1>8. /\ e.reqid = c.reqid /\ e.reqs \subseteq c.reqs /\ e.waiting \subseteq c.waiting
        /\ \A m \in Subs : e.notify[m] \subseteq c.notify[m]
    BY DEF Loses
  <1> QED
    BY <1>3, <1>4, <1>5, <1>6, <1>7, <1>8 DEF Loses

\* What loses some of an orderly object's requests leaves it orderly.
LEMMA LosesOrderly ==
    ASSUME NEW c \in Object, NEW d \in Object, NEW ex \in Counts, NEW ca \in Counts,
           Orderly(c, ex, ca), Loses(c, d)
    PROVE  Orderly(d, ex, ca)
  <1>1. PICK n \in Nat : \A i \in DOMAIN d.outbox :
              i + n \in DOMAIN c.outbox /\ d.outbox[i] = c.outbox[i + n]
    BY DEF Loses
  <1>2. /\ \A i \in DOMAIN d.outbox : i \in Int
        /\ \A m \in d.sent : \E k \in c.sent : k.id = m.id /\ k.kind = m.kind /\ k.func = m.func
        /\ \A i \in DOMAIN d.answers : \E j \in DOMAIN c.answers : d.answers[i] = c.answers[j]
        /\ d.reqid = c.reqid /\ d.reqs \subseteq c.reqs /\ d.waiting \subseteq c.waiting
    BY DEF Loses, Object
  <1>3. Answerable(d)
    BY <1>1, <1>2 DEF Answerable, Orderly
  <1>4. NoGhost(d)
    <2> SUFFICES ASSUME NEW n1 \in Subs, NEW id \in d.notify[n1]
                 PROVE  \E t \in d.subs : t.name = n1 /\ t.id = id
      BY DEF NoGhost
    <2>1. PICK s \in c.subs : s.name = n1 /\ s.id = id
      BY DEF Loses, Orderly, NoGhost
    <2> QED
      BY <2>1 DEF Loses
  <1>5. CalledOnce(d, ca)
    BY <1>2 DEF CalledOnce, Orderly
  <1>6. \A r : Queued(d, r) => Queued(c, r)
    BY <1>1 DEF Queued
  <1>7. \A r : Resent(d, r) => Resent(c, r)
    BY <1>2 DEF Resent, IsRequest
  <1>8. PendingOnly(d, ex)
    BY <1>2, <1>6, <1>7 DEF PendingOnly, Orderly
  <1>9. InOneBundle(d, ex)
    <2> SUFFICES ASSUME NEW i \in DOMAIN d.outbox, NEW m \in d.outbox[i].msgs, ~m.func
                 PROVE  /\ m.kind = "request" /\ ex[m.id] = 0 /\ ~Resent(d, m.id)
                        /\ \A q \in d.reqs : q.id # m.id
                        /\ \A j \in DOMAIN d.outbox : \A k \in d.outbox[j].msgs :
                              IsRequest(k, m.id) => i = j
      BY DEF InOneBundle
    <2>1. i + n \in DOMAIN c.outbox /\ m \in c.outbox[i + n].msgs
      BY <1>1
    <2>2. /\ m.kind = "request" /\ ex[m.id] = 0 /\ ~Resent(c, m.id)
          /\ \A q \in c.reqs : q.id # m.id
          /\ \A j \in DOMAIN c.outbox : \A k \in c.outbox[j].msgs :
                IsRequest(k, m.id) => i + n = j
      BY <2>1 DEF InOneBundle, Orderly
    <2>3. ASSUME NEW j \in DOMAIN d.outbox, NEW k \in d.outbox[j].msgs, IsRequest(k, m.id)
          PROVE  i = j
      <3>1. j + n \in DOMAIN c.outbox /\ k \in c.outbox[j + n].msgs
        BY <1>1
      <3>2. i + n = j + n
        BY <2>2, <2>3, <3>1
      <3>3. i \in Int /\ j \in Int /\ n \in Int
        BY <1>2
      <3>4. \A a, b, e \in Int : a + e = b + e => a = b
        OBVIOUS
      <3> QED
        BY <3>2, <3>3, <3>4, Zenon
    <2> QED
      BY <1>2, <1>7, <2>2, <2>3
  <1> QED
    BY <1>3, <1>4, <1>5, <1>8, <1>9 DEF Orderly

\* And one that is still connected has flushed and flown what it had.
LEMMA LosesSound ==
    ASSUME NEW c \in Object, NEW d \in Object, NEW ex \in Counts, NEW ca \in Counts,
           Sound(c, ex, ca), Loses(c, d), StaysUp(c, d)
    PROVE  Sound(d, ex, ca)
  <1>1. Orderly(d, ex, ca)
    BY LosesOrderly DEF Sound
  <1>2. Flushed(d)
    BY DEF Sound, Flushed, Quiet, StaysUp
  <1>3. Flown(d)
    BY DEF Sound, Flown, Flying, StaysUp
  <1> QED
    BY <1>1, <1>2, <1>3 DEF Sound

-----------------------------------------------------------------------------
(* What each function drops *)

\* What is left of the requests by an object that is not connected any more.
Drops(c, d) == d \in Object /\ Loses(c, d) /\ d.state # "CONNECTED"

\* So do the functions that follow each other, if the last leaves it not connected.
LEMMA DropsTransitive ==
    ASSUME NEW c \in Object, NEW d \in Object, NEW e, Loses(c, d), Drops(d, e)
    PROVE  Drops(c, e)
  BY LosesTransitive DEF Drops

\* An object that loses its requests and its connection has its requests in order.
LEMMA DropsSound ==
    ASSUME NEW c \in Object, NEW d, NEW ex \in Counts, NEW ca \in Counts,
           Sound(c, ex, ca), Drops(c, d)
    PROVE  Sound(d, ex, ca)
  BY LosesSound DEF Drops, StaysUp

\* Closing the request connection drops the request being sent and all answers.
LEMMA CloseRequestsLoses == ASSUME NEW c \in Object PROVE Loses(c, CloseRequests(c))
  <1> DEFINE d == CloseRequests(c)
  <1>1. /\ d.reqid = c.reqid /\ d.reqs = c.reqs /\ d.waiting = c.waiting /\ d.sent = c.sent
        /\ d.subs = c.subs /\ d.notify = c.notify /\ d.answers = <<>>
        /\ d.outbox = IF c.outbox = <<>> THEN <<>> ELSE Tail(c.outbox)
    BY DEF CloseRequests, Object
  <1>2. DOMAIN d.answers = {}
    BY <1>1
  <1>3. \E n \in Nat : \A i \in DOMAIN d.outbox :
            i + n \in DOMAIN c.outbox /\ d.outbox[i] = c.outbox[i + n]
    <2>1. CASE c.outbox = <<>>
      <3>1. DOMAIN d.outbox = {} /\ 0 \in Nat
        BY <1>1, <2>1
      <3> QED
        BY <3>1
    <2>2. CASE c.outbox # <<>>
      <3> DEFINE q == c.outbox
      <3>1. q \in Seq(Bundle) /\ q # <<>> /\ d.outbox = Tail(q)
        BY <1>1, <2>2 DEF Object
      <3> HIDE DEF q, d
      <3>2. 1 \in Nat /\ \A i \in DOMAIN Tail(q) : i + 1 \in DOMAIN q /\ Tail(q)[i] = q[i + 1]
        BY <3>1
      <3>3. \A i \in DOMAIN d.outbox : i + 1 \in DOMAIN q /\ d.outbox[i] = q[i + 1]
        BY <3>1, <3>2
      <3> QED
        BY <3>2, <3>3 DEF q
    <2> QED
      BY <2>1, <2>2
  <1> HIDE DEF d
  <1>4. Loses(c, d)
    BY <1>1, <1>2, <1>3 DEF Loses
  <1> QED
    BY <1>4 DEF d

\* The notification of a disconnection changes no request.
LEMMA NotifyDisconnectedWork ==
    ASSUME NEW c \in Object
    PROVE  SameWork(c, NotifyDisconnected(c)) /\ NotifyDisconnected(c).state = c.state
  BY DEF NotifyDisconnected, SameWork, Object

\* Becoming UNCONNECTED drops what the request connection had (_state).
LEMMA ToUnconnectedDrops ==
    ASSUME NEW c \in Object
    PROVE  Drops(c, ToUnconnected(c)) /\ ToUnconnected(c).state = "UNCONNECTED"
  <1> DEFINE d == [c EXCEPT !.timer = FALSE, !.state = "UNCONNECTED", !.chttp = "none"]
             e == CloseRequests(d)
             f == NotifyDisconnected(e)
  <1>1. CASE c.state = "UNCONNECTED"
    BY <1>1, SameWorkLoses DEF ToUnconnected, Drops, SameWork
  <1>2. CASE c.state # "UNCONNECTED"
    <2>1. d \in Object /\ SameWork(c, d) /\ d.state = "UNCONNECTED"
      BY DEF Object, States, Streams, SameWork
    <2>2. Loses(c, d)
      BY <2>1, SameWorkLoses
    <2> HIDE DEF d
    <2>3. e \in Object /\ Loses(d, e) /\ e.state = "UNCONNECTED"
      BY <2>1, CloseRequestsType, CloseRequestsLoses, CloseRequestsKeeps DEF SameControl
    <2> HIDE DEF e
    <2>4. f \in Object /\ Loses(e, f) /\ f.state = "UNCONNECTED"
      BY <2>3, NotifyDisconnectedType, NotifyDisconnectedWork, SameWorkLoses
    <2>5. Loses(c, f)
      BY <2>1, <2>2, <2>3, <2>4, LosesTransitive
    <2>6. ToUnconnected(c) = f
      BY <1>2 DEF ToUnconnected, d, e
    <2> QED
      BY <2>4, <2>5, <2>6 DEF Drops
  <1> QED
    BY <1>1, <1>2

\* Marking subscriptions as pending or not leaves the same subscriptions.
LEMMA PendingKeeps ==
    ASSUME NEW S \in SUBSET SubRec, NEW p \in BOOLEAN
    PROVE  /\ \A s \in S : \E t \in {[x EXCEPT !.pending = p] : x \in S} :
                 t.id = s.id /\ t.name = s.name
           /\ \A t \in {[x EXCEPT !.pending = p] : x \in S} :
                 t.pending = p /\ \E s \in S : t.id = s.id /\ t.name = s.name
  <1>1. \A x \in SubRec : /\ [x EXCEPT !.pending = p].id = x.id
                          /\ [x EXCEPT !.pending = p].name = x.name
                          /\ [x EXCEPT !.pending = p].pending = p
    BY DEF SubRec
  <1> QED
    BY <1>1

\* A handshake forgets what was sent for subscriptions: they are pending again.
LEMMA HandshakeDrops ==
    ASSUME NEW c \in Object, c.state # "CONNECTED" PROVE Drops(c, Handshake(c))
  <1> DEFINE d == Handshake(c)
  <1>1. CASE ~c.active
    BY <1>1, SameWorkLoses DEF Handshake, Drops, SameWork
  <1>2. CASE c.active
    <2>1. /\ d.reqid = c.reqid /\ d.reqs = c.reqs /\ d.waiting = c.waiting
          /\ d.notify = c.notify /\ d.outbox = c.outbox /\ d.answers = c.answers
          /\ d.subs = {[s EXCEPT !.pending = TRUE] : s \in c.subs}
          /\ d.sent = {m \in c.sent : \A s \in c.subs : s.id # m.id}
          /\ d.state = "CONNECTING"
      BY <1>2 DEF Handshake, Object
    <2>2. \A s \in c.subs : \E t \in d.subs : t.id = s.id /\ t.name = s.name
      <3> HIDE DEF d
      <3>1. c.subs \in SUBSET SubRec /\ TRUE \in BOOLEAN
        BY DEF Object
      <3>2. \A s \in c.subs : \E t \in {[x EXCEPT !.pending = TRUE] : x \in c.subs} :
               t.id = s.id /\ t.name = s.name
        BY <3>1, PendingKeeps, Zenon
      <3> QED
        BY <2>1, <3>2
    <2>3. d \in Object
      BY HandshakeType
    <2>4. 0 \in Nat /\ \A i \in DOMAIN c.outbox : i + 0 = i
      BY DEF Object
    <2> HIDE DEF d
    <2>5. Loses(c, d)
      <3>1. \A m \in d.sent : m \in c.sent
        BY <2>1
      <3>2. \E n \in Nat : \A i \in DOMAIN d.outbox :
                i + n \in DOMAIN c.outbox /\ d.outbox[i] = c.outbox[i + n]
        BY <2>1, <2>4
      <3>3. \A m \in d.sent : \E k \in c.sent : k.id = m.id /\ k.kind = m.kind /\ k.func = m.func
        BY <3>1
      <3> QED
        BY <2>1, <2>2, <3>2, <3>3 DEF Loses
    <2> QED
      BY <2>1, <2>3, <2>5 DEF Drops, d
  <1> QED
    BY <1>1, <1>2

\* Reconnecting adds no request (_reconnect).
LEMMA ReconnectDrops ==
    ASSUME NEW c \in Object, c.state # "CONNECTED" PROVE Drops(c, Reconnect(c))
  <1> DEFINE d == [c EXCEPT !.timer = FALSE, !.state = "CONNECTING", !.chttp = "reconnect"]
  <1>1. d \in Object /\ SameWork(c, d) /\ d.state = "CONNECTING"
    BY DEF Object, States, Streams, SameWork
  <1>2. Drops(c, d)
    BY <1>1, SameWorkLoses DEF Drops
  <1>3. Drops(c, c)
    BY SameWorkLoses DEF Drops, SameWork
  <1> QED
    BY <1>2, <1>3, HandshakeDrops DEF Reconnect

\* A failure or a refusal drops what the request connection had (_handleAdvice).
LEMMA HandleAdviceDrops ==
    ASSUME NEW c \in Object PROVE Drops(c, HandleAdvice(c))
  <1> DEFINE d == ToUnconnected(c)
  <1>1. Drops(c, d) /\ d.state = "UNCONNECTED" /\ d \in Object
    BY ToUnconnectedDrops DEF Drops
  <1>2. CASE c.state = "UNCONNECTED"
    BY <1>2, SameWorkLoses DEF HandleAdvice, Drops, SameWork
  <1>3. CASE c.state # "UNCONNECTED"
    <2> HIDE DEF d
    <2>1. /\ [d EXCEPT !.clientId = NoCid] \in Object /\ SameWork(d, [d EXCEPT !.clientId = NoCid])
          /\ [d EXCEPT !.clientId = NoCid].state = d.state
      BY <1>1 DEF Object, SameWork
    <2>2. /\ [d EXCEPT !.timer = TRUE] \in Object /\ SameWork(d, [d EXCEPT !.timer = TRUE])
          /\ [d EXCEPT !.timer = TRUE].state = d.state
      BY <1>1 DEF Object, SameWork
    <2>3. Drops(d, [d EXCEPT !.clientId = NoCid]) /\ Drops(d, [d EXCEPT !.timer = TRUE])
      BY <1>1, <2>1, <2>2, SameWorkLoses DEF Drops
    <2>4. Drops(c, [d EXCEPT !.clientId = NoCid]) /\ Drops(c, [d EXCEPT !.timer = TRUE])
      BY <1>1, <2>3, DropsTransitive DEF Drops
    <2> QED
      BY <1>3, <2>4 DEF HandleAdvice, d
  <1> QED
    BY <1>2, <1>3

\* What changes no request leaves a sound object sound.
LEMMA SameWorkSound ==
    ASSUME NEW c \in Object, NEW d \in Object, NEW ex \in Counts, NEW ca \in Counts,
           Sound(c, ex, ca), SameWork(c, d), d.state = "CONNECTED" => c.state = "CONNECTED"
    PROVE  Sound(d, ex, ca)
  BY SameWorkLoses, LosesSound DEF StaysUp, SameWork

\* The retry timer loses nothing while connected (_handleTimer).
LEMMA HandleTimerSound ==
    ASSUME NEW c \in Object, NEW ex \in Counts, NEW ca \in Counts, Sound(c, ex, ca)
    PROVE  Sound(HandleTimer(c), ex, ca)
  <1> DEFINE d == [c EXCEPT !.timer = FALSE]
  <1>1. d \in Object /\ SameWork(c, d) /\ d.state = c.state
    BY DEF Object, SameWork
  <1>2. Sound(d, ex, ca)
    BY <1>1, SameWorkSound
  <1> HIDE DEF d
  <1>3. d.state # "CONNECTED" => Sound(Handshake(d), ex, ca) /\ Sound(Reconnect(d), ex, ca)
    BY <1>1, <1>2, HandshakeDrops, ReconnectDrops, DropsSound
  <1> QED
    BY <1>1, <1>2, <1>3 DEF HandleTimer, d

\* The answer to a disconnect loses nothing of a connected object.
LEMMA DisconnectDoneSound ==
    ASSUME NEW c \in Object, NEW ex \in Counts, NEW ca \in Counts, Sound(c, ex, ca)
    PROVE  Sound(DisconnectDone(c), ex, ca)
  <1> DEFINE d == [c EXCEPT !.clientId = NoCid]
  <1>1. d \in Object /\ SameWork(c, d) /\ d.state = c.state
    BY DEF Object, SameWork
  <1>2. Sound(d, ex, ca)
    BY <1>1, SameWorkSound
  <1> HIDE DEF d
  <1>3. Sound(ToUnconnected(d), ex, ca)
    BY <1>1, <1>2, ToUnconnectedDrops, DropsSound
  <1> QED
    BY <1>3 DEF DisconnectDone, d

\* A new client id is written into what will be sent again, and changes nothing else.
LEMMA HandshakeDoneSound ==
    ASSUME NEW c, Good(c), c.chttp = "handshake", NEW cid \in Cids,
           NEW ex \in Counts, NEW ca \in Counts, Sound(c, ex, ca)
    PROVE  Sound(HandshakeDone(c, cid), ex, ca)
  <1> DEFINE d == HandshakeDone(c, cid)
             renamed(m) == IF m.kind = "unsubscribe" THEN m ELSE [m EXCEPT !.cid = cid]
  <1>1. d \in Object
    BY HandshakeDoneGood DEF Good
  <1>2. c \in Object /\ c.state = "CONNECTING"
    BY DEF Good, Consistent
  <1>3. /\ d.state = "CONNECTING" /\ d.reqid = c.reqid /\ d.reqs = c.reqs
        /\ d.waiting = c.waiting /\ d.subs = c.subs /\ d.notify = c.notify
        /\ d.outbox = c.outbox /\ d.answers = c.answers
        /\ d.sent = {renamed(m) : m \in c.sent}
    BY <1>2 DEF HandshakeDone, Object
  <1>4. \A m \in Message : /\ renamed(m).id = m.id /\ renamed(m).kind = m.kind
                           /\ renamed(m).func = m.func
    BY DEF Message
  <1> HIDE DEF renamed, d
  <1>5. \A m \in d.sent : \E k \in c.sent : k.id = m.id /\ k.kind = m.kind /\ k.func = m.func
    <2>1. c.sent \subseteq Message
      BY <1>2 DEF Object
    <2> QED
      BY <1>3, <1>4, <2>1
  <1>6. \E n \in Nat : \A i \in DOMAIN d.outbox :
            i + n \in DOMAIN c.outbox /\ d.outbox[i] = c.outbox[i + n]
    <2>1. 0 \in Nat /\ \A i \in DOMAIN c.outbox : i + 0 = i
      BY <1>2 DEF Object
    <2> QED
      BY <1>3, <2>1
  <1>7. Loses(c, d)
    BY <1>3, <1>5, <1>6 DEF Loses
  <1> QED
    BY <1>1, <1>2, <1>3, <1>7, DropsSound DEF Drops, d

\* What is withdrawn or acknowledged is not missed.
LEMMA WithdrawnSound ==
    ASSUME NEW c \in Object, NEW d \in Object, NEW ex \in Counts, NEW ca \in Counts,
           Sound(c, ex, ca),
           d.state = c.state, d.batch = c.batch, d.reqid = c.reqid, d.subs = c.subs,
           d.unsubs = c.unsubs, d.outbox = c.outbox, d.answers = c.answers,
           d.sent \subseteq c.sent, d.reqs \subseteq c.reqs, d.waiting \subseteq c.waiting,
           \A n \in Subs : d.notify[n] \subseteq c.notify[n]
    PROVE  Sound(d, ex, ca)
  <1>1. 0 \in Nat /\ \A i \in DOMAIN c.outbox : i + 0 = i
    BY DEF Object
  <1>2. \E n \in Nat : \A i \in DOMAIN d.outbox :
            i + n \in DOMAIN c.outbox /\ d.outbox[i] = c.outbox[i + n]
    BY <1>1
  <1>3. \A m \in d.sent : \E k \in c.sent : k.id = m.id /\ k.kind = m.kind /\ k.func = m.func
    OBVIOUS
  <1>4. Loses(c, d)
    BY <1>2, <1>3 DEF Loses
  <1> QED
    BY <1>4, LosesSound DEF StaysUp

\* An acknowledged request needs no answer any more (_response).
LEMMA AcknowledgeSound ==
    ASSUME NEW c \in Object, NEW ids, NEW ex \in Counts, NEW ca \in Counts, Sound(c, ex, ca)
    PROVE  Sound(Acknowledge(c, ids), ex, ca) /\ Sound(RemoveRequests(c, ids), ex, ca)
  <1> DEFINE d == Acknowledge(c, ids)
             e == RemoveRequests(c, ids)
  <1>1. /\ d \in Object /\ d.state = c.state /\ d.batch = c.batch /\ d.reqid = c.reqid
        /\ d.subs = c.subs /\ d.unsubs = c.unsubs /\ d.outbox = c.outbox
        /\ d.answers = c.answers /\ d.reqs = c.reqs /\ d.waiting = c.waiting
        /\ d.notify = c.notify /\ d.sent \subseteq c.sent
    BY DEF Acknowledge, Object
  <1>2. /\ e \in Object /\ e.state = c.state /\ e.batch = c.batch /\ e.reqid = c.reqid
        /\ e.subs = c.subs /\ e.unsubs = c.unsubs /\ e.outbox = c.outbox
        /\ e.answers = c.answers /\ e.waiting = c.waiting
        /\ e.notify = c.notify /\ e.sent \subseteq c.sent /\ e.reqs \subseteq c.reqs
    BY DEF RemoveRequests, Object
  <1> HIDE DEF d, e
  <1>3. Sound(d, ex, ca)
    BY <1>1, WithdrawnSound
  <1>4. Sound(e, ex, ca)
    BY <1>2, WithdrawnSound
  <1> QED
    BY <1>3, <1>4 DEF d, e

\* Removing a callback leaves no callback without a subscription (removeCallback).
LEMMA RemoveCallbackSound ==
    ASSUME NEW c \in Object, NEW name \in Subs, NEW id, NEW ex \in Counts, NEW ca \in Counts,
           Sound(c, ex, ca)
    PROVE  Sound(RemoveCallback(c, name, id), ex, ca)
  <1> DEFINE d == RemoveCallback(c, name, id)
  <1>1. /\ d \in Object /\ d.state = c.state /\ d.batch = c.batch /\ d.reqid = c.reqid
        /\ d.subs = c.subs /\ d.unsubs = c.unsubs /\ d.outbox = c.outbox
        /\ d.answers = c.answers /\ d.reqs = c.reqs /\ d.waiting = c.waiting
        /\ d.sent = c.sent
        /\ d.notify = [c.notify EXCEPT ![name] = @ \ {id}] /\ c.notify \in [Subs -> SUBSET ReqIds]
    BY DEF RemoveCallback, Object
  <1>2. \A n \in Subs : d.notify[n] \subseteq c.notify[n]
    BY <1>1
  <1> HIDE DEF d
  <1>3. Sound(d, ex, ca)
    BY <1>1, <1>2, WithdrawnSound
  <1> QED
    BY <1>3 DEF d

\* A result takes the request from those that wait, and that is the only time.
LEMMA RequestAnsweredSound ==
    ASSUME NEW c \in Object, NEW id \in ReqIds, NEW ex \in Counts, NEW ca \in Counts,
           Sound(c, ex, ca), Good(c)
    PROVE  Sound(RequestAnswered(c, id), ex,
                 [ca EXCEPT ![id] = @ + (IF id \in c.waiting THEN 1 ELSE 0)])
  <1> DEFINE d == RequestAnswered(c, id)
             cb == [ca EXCEPT ![id] = @ + (IF id \in c.waiting THEN 1 ELSE 0)]
  <1>1. d \in Object
    BY RequestAnsweredGood DEF Good
  <1>2. /\ d.state = c.state /\ d.batch = c.batch /\ d.reqid = c.reqid
        /\ d.subs = c.subs /\ d.unsubs = c.unsubs /\ d.outbox = c.outbox
        /\ d.answers = c.answers /\ d.reqs = c.reqs /\ d.waiting = c.waiting \ {id}
        /\ d.notify = c.notify /\ d.sent \subseteq c.sent
    BY DEF RequestAnswered, Acknowledge, Object
  <1> HIDE DEF d
  <1>3. Sound(d, ex, ca)
    BY <1>1, <1>2, WithdrawnSound
  <1>4. \A r \in ReqIds : ca[r] \in Nat /\ (r # id => cb[r] = ca[r])
    BY DEF Counts
  <1>5. cb[id] = IF id \in c.waiting THEN ca[id] + 1 ELSE ca[id]
    BY <1>4 DEF Counts
  <1>6. CalledOnce(c, ca) /\ CalledOnce(d, ca)
    BY <1>3 DEF Sound, Orderly
  <1>7. id \in c.waiting =>
           ca[id] = 0 /\ id < d.reqid /\ id \notin d.waiting /\ \A q \in d.reqs : q.id # id
    BY <1>2, <1>4, <1>6 DEF CalledOnce
  <1> HIDE DEF cb
  <1>8. \A r \in ReqIds : cb[r] > 0 =>
            cb[r] = 1 /\ r < d.reqid /\ r \notin d.waiting /\ \A q \in d.reqs : q.id # r
    <2> SUFFICES ASSUME NEW r \in ReqIds, cb[r] > 0
                 PROVE  cb[r] = 1 /\ r < d.reqid /\ r \notin d.waiting /\ \A q \in d.reqs : q.id # r
      OBVIOUS
    <2>1. CASE r = id /\ id \in c.waiting
      <3>1. cb[r] = 1
        BY <1>5, <1>7, <2>1
      <3> QED
        BY <1>7, <2>1, <3>1
    <2>2. CASE r # id \/ id \notin c.waiting
      <3>1. cb[r] = ca[r]
        BY <1>4, <1>5, <2>2
      <3> QED
        BY <1>6, <3>1 DEF CalledOnce
    <2> QED
      BY <2>1, <2>2
  <1>9. CalledOnce(d, cb)
    BY <1>6, <1>8 DEF CalledOnce
  <1> QED
    BY <1>3, <1>9 DEF Sound, Orderly, d, cb

-----------------------------------------------------------------------------
(* What is added and sent *)

\* The outbox q is p with the bundle b behind it, which may be missing if it is empty.
Adds(p, q, b) ==
    /\ \A i \in DOMAIN p : i \in DOMAIN q /\ q[i] = p[i]
    /\ \A i \in DOMAIN q \ DOMAIN p : q[i] = b /\ \A j \in DOMAIN q \ DOMAIN p : i = j
    /\ b.msgs # {} => \E i \in DOMAIN q : q[i] = b

\* Appending leaves what is there where it is, and adds one.
LEMMA AppendAdds ==
    ASSUME NEW p \in Seq(Bundle), NEW b
    PROVE  Adds(p, Append(p, b), b)
  <1>1. Len(p) \in Nat /\ DOMAIN p = 1 .. Len(p) /\ DOMAIN Append(p, b) = 1 .. Len(p) + 1
    OBVIOUS
  <1>2. /\ \A i \in 1 .. Len(p) : Append(p, b)[i] = p[i]
        /\ Append(p, b)[Len(p) + 1] = b
    OBVIOUS
  <1>3. \A i \in DOMAIN Append(p, b) \ DOMAIN p : i = Len(p) + 1
    BY <1>1
  <1>4. Len(p) + 1 \in DOMAIN Append(p, b)
    BY <1>1
  <1>5. \A i \in DOMAIN p : i \in DOMAIN Append(p, b) /\ Append(p, b)[i] = p[i]
    BY <1>1, <1>2
  <1> QED
    BY <1>2, <1>3, <1>4, <1>5 DEF Adds

\* Every message that is pending is made of a subscription, an unsubscription or a
\* request that is.
LEMMA PendingFacts ==
    ASSUME NEW c \in Object
    PROVE  /\ \A m \in PendingMessages(c) :
                 /\ m.kind = "request" => \E q \in c.reqs : q.id = m.id /\ q.func = m.func
                 /\ m.kind # "request" => m.func
           /\ \A m \in SubMessages(c) : \E s \in c.subs : s.id = m.id /\ s.name = m.name
           /\ \A m \in RequestMessages(c) : \E q \in c.reqs : q.id = m.id /\ q.func = m.func
  <1>1. \A m \in UnsubMessages(c) : m.kind = "unsubscribe" /\ m.func
    BY DEF UnsubMessages
  <1>2. \A m \in SubMessages(c) : m.kind = "subscribe" /\ m.func
    BY DEF SubMessages
  <1>3. \A m \in SubMessages(c) : \E s \in c.subs : s.id = m.id /\ s.name = m.name
    BY DEF SubMessages
  <1>4. \A m \in RequestMessages(c) : \E q \in c.reqs : q.id = m.id /\ q.func = m.func
    BY DEF RequestMessages
  <1>5. \A m \in RequestMessages(c) : m.kind = "request"
    BY DEF RequestMessages
  <1>6. ASSUME NEW m \in PendingMessages(c)
        PROVE  /\ m.kind = "request" => \E q \in c.reqs : q.id = m.id /\ q.func = m.func
               /\ m.kind # "request" => m.func
    <2>1. CASE m \in UnsubMessages(c)
      BY <1>1, <2>1
    <2>2. CASE m \in SubMessages(c)
      BY <1>2, <2>2
    <2>3. CASE m \in RequestMessages(c)
      BY <1>4, <1>5, <2>3
    <2> QED
      BY <2>1, <2>2, <2>3 DEF PendingMessages
  <1> QED
    BY <1>3, <1>4, <1>6

\* What _sendPendingRequests leaves in each field.
LEMMA SendPendingFields ==
    ASSUME NEW c \in Object, NEW R
    PROVE  LET d == SendPendingRequests(c, R)
           IN  /\ d.state = c.state /\ d.batch = c.batch /\ d.reqid = c.reqid
               /\ d.answers = c.answers /\ d.unsubs = {} /\ d.reqs = {}
               /\ d.subs = {[s EXCEPT !.pending = FALSE] : s \in c.subs}
               /\ d.sent = c.sent \cup {m \in PendingMessages(c) : m.func}
               /\ d.notify = [n \in Subs |->
                     c.notify[n] \cup {m.id : m \in {k \in SubMessages(c) : k.name = n}}]
               /\ d.waiting = c.waiting \cup {m.id : m \in {k \in RequestMessages(c) : k.func}}
               /\ Adds(c.outbox, d.outbox, [kind |-> "batch", cid |-> c.clientId,
                                            msgs |-> R \cup PendingMessages(c)])
  <1> DEFINE P == PendingMessages(c)
             b == [kind |-> "batch", cid |-> c.clientId, msgs |-> R \cup P]
             a == AddPendingRequests(c)
             d == SendPendingRequests(c, R)
             N == [n \in Subs |->
                     c.notify[n] \cup {m.id : m \in {k \in SubMessages(c) : k.name = n}}]
             W == c.waiting \cup {m.id : m \in {k \in RequestMessages(c) : k.func}}
             E == c.entries \cup {m.name : m \in SubMessages(c)}
             T == c.sent \cup {m \in P : m.func}
             S == {[s EXCEPT !.pending = FALSE] : s \in c.subs}
  <1>1. a = [c EXCEPT !.unsubs = {}, !.reqs = {}, !.subs = S, !.sent = T, !.entries = E,
                      !.notify = N, !.waiting = W]
    BY DEF AddPendingRequests
  <1> HIDE DEF P, a, N, W, E, T, S
  <1>2. /\ a.state = c.state /\ a.batch = c.batch /\ a.reqid = c.reqid
        /\ a.answers = c.answers /\ a.unsubs = {} /\ a.reqs = {} /\ a.subs = S
        /\ a.sent = T /\ a.notify = N /\ a.waiting = W /\ a.outbox = c.outbox
    BY <1>1 DEF Object
  <1>3. [a EXCEPT !.outbox = Append(@, b)] = [a EXCEPT !.outbox = Append(c.outbox, b)]
    BY <1>2
  <1>4. d = IF R \cup P = {} THEN a ELSE [a EXCEPT !.outbox = Append(c.outbox, b)]
    BY <1>3 DEF SendPendingRequests, Fetch, a, P
  <1>5. /\ d.state = c.state /\ d.batch = c.batch /\ d.reqid = c.reqid
        /\ d.answers = c.answers /\ d.unsubs = {} /\ d.reqs = {} /\ d.subs = S
        /\ d.sent = T /\ d.notify = N /\ d.waiting = W
        /\ d.outbox = IF R \cup P = {} THEN c.outbox ELSE Append(c.outbox, b)
    <2> DEFINE o == Append(c.outbox, b)
               e == [a EXCEPT !.outbox = o]
    <2>1. e = [c EXCEPT !.unsubs = {}, !.reqs = {}, !.subs = S, !.sent = T, !.entries = E,
                        !.notify = N, !.waiting = W, !.outbox = o]
      <3> HIDE DEF o
      <3> QED
        BY <1>1 DEF Object
    <2> HIDE DEF o
    <2>2. /\ e.state = c.state /\ e.batch = c.batch /\ e.reqid = c.reqid
          /\ e.answers = c.answers /\ e.unsubs = {} /\ e.reqs = {} /\ e.subs = S
          /\ e.sent = T /\ e.notify = N /\ e.waiting = W /\ e.outbox = o
      BY <2>1 DEF Object
    <2> HIDE DEF e
    <2>3. d = IF R \cup P = {} THEN a ELSE e
      BY <1>4 DEF e, o
    <2>4. CASE R \cup P = {}
      BY <1>2, <2>3, <2>4
    <2>5. CASE R \cup P # {}
      BY <2>2, <2>3, <2>5 DEF o
    <2> QED
      BY <2>4, <2>5
  <1>6. Adds(c.outbox, d.outbox, b)
    <2>1. c.outbox \in Seq(Bundle)
      BY DEF Object
    <2>2. CASE R \cup P = {}
      <3>1. d.outbox = c.outbox /\ b.msgs = {}
        BY <1>5, <2>2
      <3> HIDE DEF d, b
      <3> QED
        BY <3>1 DEF Adds
    <2>3. CASE R \cup P # {}
      <3>1. d.outbox = Append(c.outbox, b)
        BY <1>5, <2>3
      <3> HIDE DEF d, b
      <3> QED
        BY <2>1, <3>1, AppendAdds
    <2> QED
      BY <2>2, <2>3
  <1> HIDE DEF d
  <1>7. /\ d.state = c.state /\ d.batch = c.batch /\ d.reqid = c.reqid
        /\ d.answers = c.answers /\ d.unsubs = {} /\ d.reqs = {}
        /\ d.subs = {[s EXCEPT !.pending = FALSE] : s \in c.subs}
        /\ d.sent = c.sent \cup {m \in PendingMessages(c) : m.func}
        /\ d.notify = [n \in Subs |->
              c.notify[n] \cup {m.id : m \in {k \in SubMessages(c) : k.name = n}}]
        /\ d.waiting = c.waiting \cup {m.id : m \in {k \in RequestMessages(c) : k.func}}
        /\ Adds(c.outbox, d.outbox, [kind |-> "batch", cid |-> c.clientId,
                                     msgs |-> R \cup PendingMessages(c)])
    BY <1>5, <1>6 DEF P, N, W, T, S
  <1> QED
    BY <1>7 DEF d

\* Sending what is pending, and some of what was sent before, once more.
LEMMA SendPendingOrderly ==
    ASSUME NEW c \in Object, NEW ex \in Counts, NEW ca \in Counts, Orderly(c, ex, ca),
           NEW R \in SUBSET c.sent
    PROVE  Orderly(SendPendingRequests(c, R), ex, ca)
  <1> DEFINE d == SendPendingRequests(c, R)
             P == PendingMessages(c)
             b == [kind |-> "batch", cid |-> c.clientId, msgs |-> R \cup P]
  <1>1. /\ d.reqid = c.reqid /\ d.answers = c.answers /\ d.reqs = {}
        /\ d.subs = {[s EXCEPT !.pending = FALSE] : s \in c.subs}
        /\ d.sent = c.sent \cup {m \in P : m.func}
        /\ d.notify = [n \in Subs |->
              c.notify[n] \cup {m.id : m \in {k \in SubMessages(c) : k.name = n}}]
        /\ d.waiting = c.waiting \cup {m.id : m \in {k \in RequestMessages(c) : k.func}}
        /\ Adds(c.outbox, d.outbox, b)
    BY SendPendingFields
  <1>2. /\ \A m \in P : /\ m.kind = "request" => \E q \in c.reqs : q.id = m.id /\ q.func = m.func
                        /\ m.kind # "request" => m.func
        /\ \A m \in SubMessages(c) : \E s \in c.subs : s.id = m.id /\ s.name = m.name
        /\ \A m \in RequestMessages(c) : \E q \in c.reqs : q.id = m.id /\ q.func = m.func
    BY PendingFacts
  <1>3. b.kind = "batch" /\ b.msgs = R \cup P
    OBVIOUS
  <1> HIDE DEF d, P, b
  <1>4. \A i \in DOMAIN d.outbox :
            \/ i \in DOMAIN c.outbox /\ d.outbox[i] = c.outbox[i]
            \/ i \notin DOMAIN c.outbox /\ d.outbox[i] = b
    BY <1>1 DEF Adds
  <1>5. \A m \in R \cup P : \A r : IsRequest(m, r) => Resent(c, r) \/ \E q \in c.reqs : q.id = r
    BY <1>2 DEF IsRequest, Resent
  <1>6. \A r : Queued(d, r) => Queued(c, r) \/ Resent(c, r) \/ \E q \in c.reqs : q.id = r
    BY <1>3, <1>4, <1>5 DEF Queued
  <1>7. \A r : Resent(d, r) => Resent(c, r) \/ \E q \in c.reqs : q.id = r
    BY <1>1, <1>5 DEF Resent
  <1>8. Answerable(d)
    <2>1. Answerable(c)
      BY DEF Orderly
    <2>2. \A m \in d.sent : m.func
      BY <1>1, <2>1 DEF Answerable
    <2> QED
      BY <1>1, <1>3, <1>4, <2>1, <2>2 DEF Answerable
  <1>9. NoGhost(d)
    <2>1. \A s \in c.subs : \E t \in d.subs : t.id = s.id /\ t.name = s.name
      <3>1. c.subs \in SUBSET SubRec /\ FALSE \in BOOLEAN
        BY DEF Object
      <3>2. \A s \in c.subs : \E t \in {[x EXCEPT !.pending = FALSE] : x \in c.subs} :
               t.id = s.id /\ t.name = s.name
        BY <3>1, PendingKeeps, Zenon
      <3> QED
        BY <1>1, <3>2
    <2>2. ASSUME NEW n \in Subs, NEW id \in d.notify[n]
          PROVE  \E s \in c.subs : s.name = n /\ s.id = id
      <3>1. id \in c.notify[n] \/ \E m \in SubMessages(c) : m.name = n /\ m.id = id
        BY <1>1, <2>2
      <3> QED
        BY <1>2, <3>1 DEF Orderly, NoGhost
    <2> QED
      BY <2>1, <2>2 DEF NoGhost
  <1>10. CalledOnce(d, ca)
    <2>1. CalledOnce(c, ca)
      BY DEF Orderly
    <2>2. \A r \in d.waiting : r \in c.waiting \/ \E q \in c.reqs : q.id = r
      BY <1>1, <1>2
    <2> QED
      BY <1>1, <2>1, <2>2 DEF CalledOnce
  <1>11. PendingOnly(c, ex)
    BY DEF Orderly
  <1>12. PendingOnly(d, ex)
    <2>1. \A r \in ReqIds : ex[r] > 0 \/ Queued(d, r) \/ Resent(d, r) => r < d.reqid
      BY <1>1, <1>6, <1>7, <1>11 DEF PendingOnly
    <2> QED
      BY <1>1, <2>1 DEF PendingOnly
  <1>13. InOneBundle(d, ex)
    <2> SUFFICES ASSUME NEW i \in DOMAIN d.outbox, NEW m \in d.outbox[i].msgs, ~m.func
                 PROVE  /\ m.kind = "request" /\ ex[m.id] = 0 /\ ~Resent(d, m.id)
                        /\ \A q \in d.reqs : q.id # m.id
                        /\ \A j \in DOMAIN d.outbox : \A k \in d.outbox[j].msgs :
                              IsRequest(k, m.id) => i = j
      BY DEF InOneBundle
    <2>1. CASE i \in DOMAIN c.outbox /\ d.outbox[i] = c.outbox[i]
      <3>1. /\ m.kind = "request" /\ ex[m.id] = 0 /\ ~Resent(c, m.id)
            /\ \A q \in c.reqs : q.id # m.id
            /\ \A j \in DOMAIN c.outbox : \A k \in c.outbox[j].msgs :
                  IsRequest(k, m.id) => i = j
        BY <2>1 DEF InOneBundle, Orderly
      <3>2. ~Resent(d, m.id)
        BY <1>7, <3>1
      <3>3. ASSUME NEW j \in DOMAIN d.outbox, NEW k \in d.outbox[j].msgs, IsRequest(k, m.id)
            PROVE  i = j
        BY <1>3, <1>4, <1>5, <3>1, <3>3
      <3> QED
        BY <1>1, <3>1, <3>2, <3>3
    <2>2. CASE i \notin DOMAIN c.outbox /\ d.outbox[i] = b
      <3>1. m \notin c.sent
        BY DEF Orderly, Answerable
      <3>2. m \in P
        BY <1>3, <2>2, <3>1
      <3>3. PICK q \in c.reqs : q.id = m.id /\ q.func = m.func
        BY <1>2, <3>2
      <3>4. m.kind = "request"
        BY <1>2, <3>2
      <3>5. /\ ex[m.id] = 0 /\ ~Queued(c, m.id) /\ ~Resent(c, m.id)
            /\ \A p \in c.reqs : p.id = m.id => p = q
        BY <1>11, <3>3 DEF PendingOnly
      <3>6. ~Resent(d, m.id)
        <4> SUFFICES ASSUME NEW k \in d.sent, IsRequest(k, m.id) PROVE FALSE
          BY DEF Resent
        <4>1. k \in P /\ k.func /\ k.kind = "request" /\ k.id = m.id
          BY <1>1, <3>5 DEF Resent, IsRequest
        <4>2. PICK p \in c.reqs : p.id = k.id /\ p.func = k.func
          BY <1>2, <4>1
        <4>3. p = q
          BY <3>5, <4>1, <4>2
        <4> QED
          BY <3>3, <4>1, <4>2, <4>3
      <3>7. ASSUME NEW j \in DOMAIN d.outbox, NEW k \in d.outbox[j].msgs, IsRequest(k, m.id)
            PROVE  i = j
        <4>1. j \notin DOMAIN c.outbox
          BY <1>4, <3>5, <3>7 DEF Queued
        <4> QED
          BY <1>1, <2>2, <4>1 DEF Adds
      <3> QED
        BY <1>1, <3>4, <3>5, <3>6, <3>7
    <2> QED
      BY <1>4, <2>1, <2>2
  <1> QED
    BY <1>8, <1>9, <1>10, <1>12, <1>13 DEF Orderly, d

\* Afterwards nothing is pending, and what is sent flies.
LEMMA SendPendingFlies ==
    ASSUME NEW c \in Object, NEW R \in SUBSET c.sent, Answerable(c),
           R = c.sent \/ \A m \in c.sent : Flying(c, m.id)
    PROVE  /\ Quiet(SendPendingRequests(c, R))
           /\ \A m \in SendPendingRequests(c, R).sent : Flying(SendPendingRequests(c, R), m.id)
  <1> DEFINE d == SendPendingRequests(c, R)
             P == PendingMessages(c)
             b == [kind |-> "batch", cid |-> c.clientId, msgs |-> R \cup P]
  <1>1. /\ d.answers = c.answers /\ d.reqs = {} /\ d.unsubs = {}
        /\ d.subs = {[s EXCEPT !.pending = FALSE] : s \in c.subs}
        /\ d.sent = c.sent \cup {m \in P : m.func}
        /\ Adds(c.outbox, d.outbox, b)
    BY SendPendingFields
  <1>2. b.msgs = R \cup P
    OBVIOUS
  <1> HIDE DEF d, P, b
  <1>3. Quiet(d)
    <2>1. c.subs \in SUBSET SubRec /\ FALSE \in BOOLEAN
      BY DEF Object
    <2>2. \A t \in {[x EXCEPT !.pending = FALSE] : x \in c.subs} : t.pending = FALSE
      BY <2>1, PendingKeeps, Zenon
    <2> QED
      BY <1>1, <2>2 DEF Quiet
  <1>4. ASSUME NEW m \in d.sent PROVE Flying(d, m.id)
    <2>1. CASE m \in R \cup P
      <3>1. m.func
        BY <1>1, <1>4 DEF Answerable
      <3>2. PICK i \in DOMAIN d.outbox : d.outbox[i] = b
        BY <1>1, <1>2, <2>1 DEF Adds
      <3> QED
        BY <1>2, <2>1, <3>1, <3>2 DEF Flying
    <2>2. CASE m \notin R \cup P
      <3>1. Flying(c, m.id)
        BY <1>1, <1>4, <2>2
      <3>2. CASE \E i \in DOMAIN c.outbox : \E k \in c.outbox[i].msgs : k.func /\ k.id = m.id
        BY <1>1, <3>2 DEF Adds, Flying
      <3>3. CASE \E i \in DOMAIN c.answers :
                    c.answers[i].kind = "refused" \/ m.id \in c.answers[i].ids
        BY <1>1, <3>3 DEF Flying
      <3> QED
        BY <3>1, <3>2, <3>3 DEF Flying
    <2> QED
      BY <2>1, <2>2
  <1> QED
    BY <1>3, <1>4 DEF d

\* What subscribe(), unsubscribe(), request() and endBatch() end with leaves the object
\* sound: it may have found something pending.
LEMMA SendIfConnectedSound ==
    ASSUME NEW c \in Object, NEW ex \in Counts, NEW ca \in Counts, Orderly(c, ex, ca), Flown(c)
    PROVE  Sound(SendIfConnected(c), ex, ca)
  <1> DEFINE d == SendPendingRequests(c, {})
  <1>1. CASE c.state # "CONNECTED" \/ c.batch # 0
    BY <1>1 DEF SendIfConnected, Sound, Flushed
  <1>2. CASE c.state = "CONNECTED" /\ c.batch = 0
    <2>1. {} \in SUBSET c.sent
      OBVIOUS
    <2>2. Orderly(d, ex, ca)
      BY <2>1, SendPendingOrderly
    <2>3. Answerable(c) /\ \A m \in c.sent : Flying(c, m.id)
      BY <1>2 DEF Orderly, Flown
    <2>4. Quiet(d) /\ \A m \in d.sent : Flying(d, m.id)
      BY <2>1, <2>3, SendPendingFlies
    <2>5. SendIfConnected(c) = d
      BY <1>2 DEF SendIfConnected
    <2> HIDE DEF d
    <2> QED
      BY <2>2, <2>4, <2>5 DEF Sound, Flushed, Flown
  <1> QED
    BY <1>1, <1>2

\* A connection made sends again what was not acknowledged (_connected).
LEMMA ConnectDoneSound ==
    ASSUME NEW c, Good(c), c.chttp \in {"connect", "reconnect"},
           NEW ex \in Counts, NEW ca \in Counts, Sound(c, ex, ca)
    PROVE  Sound(ConnectDone(c), ex, ca)
  <1> DEFINE d == [c EXCEPT !.advice = "retry", !.chttp = "stream"]
             e == SendPendingRequests(d, d.sent)
             f == ToConnected(e)
  <1>1. /\ c \in Object /\ d \in Object /\ SameWork(c, d) /\ d.state = c.state
        /\ d.clientId = c.clientId /\ d.state # "CONNECTED"
    BY DEF Good, Consistent, Object, Advices, Streams, SameWork
  <1>2. Sound(d, ex, ca) /\ d.clientId # NoCid
    BY <1>1, SameWorkSound DEF Good, Consistent
  <1>3. ConnectDone(c) = f
    BY DEF ConnectDone, Connected
  <1> HIDE DEF d
  <1>4. d.sent \in SUBSET d.sent /\ d.sent \in SUBSET Message
    BY <1>1 DEF Object
  <1>5. Orderly(e, ex, ca)
    BY <1>1, <1>2, <1>4, SendPendingOrderly DEF Sound
  <1>6. Quiet(e) /\ \A m \in e.sent : Flying(e, m.id)
    BY <1>1, <1>2, <1>4, SendPendingFlies DEF Sound, Orderly
  <1>7. e \in Object
    BY <1>1, <1>2, <1>4, SendPendingRequestsType
  <1> HIDE DEF e
  <1>8. f \in Object /\ SameWork(e, f)
    BY <1>7, ToConnectedType DEF ToConnected, SameWork, Object
  <1>9. Orderly(f, ex, ca)
    BY <1>5, <1>7, <1>8, SameWorkLoses, LosesOrderly
  <1> HIDE DEF f
  <1>10. Quiet(f) /\ \A m \in f.sent : Flying(f, m.id)
    BY <1>6, <1>8 DEF SameWork, Quiet, Flying
  <1> QED
    BY <1>3, <1>9, <1>10 DEF Sound, Flushed, Flown

\* The disconnect message carries no request (_disconnect).
LEMMA SendDisconnectSound ==
    ASSUME NEW c \in Object, NEW ex \in Counts, NEW ca \in Counts, Sound(c, ex, ca)
    PROVE  Sound(SendDisconnect(c), ex, ca)
  <1> DEFINE d == SendDisconnect(c)
             b == [kind |-> "disconnect", cid |-> c.clientId, msgs |-> {}]
  <1>1. /\ d.reqid = c.reqid /\ d.answers = c.answers /\ d.reqs = c.reqs
        /\ d.subs = {[s EXCEPT !.pending = TRUE] : s \in c.subs}
        /\ d.sent = {} /\ d.notify = c.notify /\ d.waiting = c.waiting
        /\ d.outbox = Append(c.outbox, b) /\ d.state = "UNCONNECTING"
    BY DEF SendDisconnect, Fetch, Object
  <1>2. Adds(c.outbox, Append(c.outbox, b), b)
    <2>1. c.outbox \in Seq(Bundle)
      BY DEF Object
    <2> HIDE DEF b
    <2> QED
      BY <2>1, AppendAdds
  <1>3. b.msgs = {}
    OBVIOUS
  <1> HIDE DEF d, b
  <1>4. \A i \in DOMAIN d.outbox :
            \/ i \in DOMAIN c.outbox /\ d.outbox[i] = c.outbox[i]
            \/ d.outbox[i].msgs = {}
    BY <1>1, <1>2, <1>3 DEF Adds
  <1>5. \A r : Queued(d, r) => Queued(c, r)
    BY <1>4 DEF Queued
  <1>6. \A r : ~Resent(d, r)
    BY <1>1 DEF Resent
  <1>7. /\ Answerable(c) /\ NoGhost(c) /\ CalledOnce(c, ca) /\ PendingOnly(c, ex)
        /\ InOneBundle(c, ex)
    BY DEF Sound, Orderly
  <1>8. Answerable(d)
    BY <1>1, <1>4, <1>7 DEF Answerable
  <1>9. NoGhost(d)
    <2>1. c.subs \in SUBSET SubRec /\ TRUE \in BOOLEAN
      BY DEF Object
    <2>2. \A s \in c.subs : \E t \in {[x EXCEPT !.pending = TRUE] : x \in c.subs} :
             t.id = s.id /\ t.name = s.name
      BY <2>1, PendingKeeps, Zenon
    <2>3. \A s \in c.subs : \E t \in d.subs : t.id = s.id /\ t.name = s.name
      BY <1>1, <2>2
    <2>4. d.notify = c.notify
      BY <1>1
    <2> QED
      BY <1>7, <2>3, <2>4 DEF NoGhost
  <1>10. CalledOnce(d, ca)
    BY <1>1, <1>7 DEF CalledOnce
  <1>11. PendingOnly(d, ex)
    BY <1>1, <1>5, <1>6, <1>7 DEF PendingOnly
  <1>12. InOneBundle(d, ex)
    BY <1>1, <1>4, <1>6, <1>7 DEF InOneBundle
  <1> QED
    BY <1>1, <1>8, <1>9, <1>10, <1>11, <1>12 DEF Sound, Orderly, Flushed, Flown, d

-----------------------------------------------------------------------------
(* The interface again *)

\* The next id is not in use.
LEMMA NextIdIsNew ==
    ASSUME NEW c \in Object, c.reqid <= MaxReqId, NEW ex \in Counts, NEW ca \in Counts,
           Orderly(c, ex, ca)
    PROVE  /\ c.reqid \in ReqIds /\ c.reqid \notin c.waiting
           /\ ex[c.reqid] = 0 /\ ca[c.reqid] = 0
           /\ ~Queued(c, c.reqid) /\ ~Resent(c, c.reqid)
           /\ \A q \in c.reqs : q.id # c.reqid
           /\ \A r \in Nat : r < c.reqid => r < c.reqid + 1
  <1>1. c.reqid \in ReqIds /\ c.reqid \in Nat
    BY ReqIdStep DEF ReqIds
  <1>2. ~(c.reqid < c.reqid) /\ \A r \in Nat : r < c.reqid => r < c.reqid + 1
    BY <1>1
  <1>3. ex[c.reqid] \in Nat /\ ca[c.reqid] \in Nat
    BY <1>1 DEF Counts
  <1>4. CalledOnce(c, ca) /\ PendingOnly(c, ex)
    BY DEF Orderly
  <1>5. ~(ex[c.reqid] > 0) /\ ~(ca[c.reqid] > 0)
    BY <1>1, <1>2, <1>4 DEF CalledOnce, PendingOnly
  <1> QED
    BY <1>1, <1>2, <1>3, <1>4, <1>5 DEF CalledOnce, PendingOnly

\* Taking an id, with what becomes of subscriptions, leaves the requests alone.
LEMMA TakeIdOrderly ==
    ASSUME NEW c \in Object, c.reqid <= MaxReqId, NEW d \in Object,
           NEW ex \in Counts, NEW ca \in Counts, Orderly(c, ex, ca), Flown(c), NoGhost(d),
           d.reqid = c.reqid + 1, d.state = c.state, d.reqs = c.reqs, d.sent = c.sent,
           d.waiting = c.waiting, d.outbox = c.outbox, d.answers = c.answers
    PROVE  Orderly(d, ex, ca) /\ Flown(d)
  <1>1. \A r \in ReqIds : r < c.reqid => r < d.reqid
    BY NextIdIsNew DEF ReqIds
  <1>2. c.waiting \subseteq ReqIds /\ \A q \in c.reqs : q.id \in ReqIds
    BY DEF Object, ReqRec
  <1>3. Answerable(d)
    BY DEF Orderly, Answerable
  <1>4. CalledOnce(d, ca)
    BY <1>1, <1>2 DEF Orderly, CalledOnce
  <1>5. \A r : (Queued(d, r) <=> Queued(c, r)) /\ (Resent(d, r) <=> Resent(c, r))
    BY DEF Queued, Resent
  <1>6. PendingOnly(d, ex)
    BY <1>1, <1>2, <1>5 DEF Orderly, PendingOnly
  <1>7. InOneBundle(d, ex)
    BY <1>5 DEF Orderly, InOneBundle
  <1>8. Flown(d)
    BY DEF Flown, Flying
  <1> QED
    BY <1>3, <1>4, <1>6, <1>7, <1>8 DEF Orderly

\* A new subscription takes an id that nothing has (subscribe).
LEMMA SubscribeSound ==
    ASSUME NEW c, Good(c), c.reqid <= MaxReqId, NEW name \in Subs,
           NEW ex \in Counts, NEW ca \in Counts, Sound(c, ex, ca)
    PROVE  Sound(Subscribe(c, name), ex, ca)
  <1> DEFINE s == [id |-> c.reqid, name |-> name, pending |-> TRUE]
             next == c.reqid + 1
             subs == c.subs \cup {s}
             d == [c EXCEPT !.subs = subs, !.reqid = next]
  <1>1. c \in Object /\ next \in 1 .. (MaxReqId + 1) /\ s \in SubRec
    BY ReqIdStep DEF Good, SubRec
  <1>2. Subscribe(c, name) = SendIfConnected(d)
    BY DEF Subscribe
  <1> HIDE DEF s, next
  <1>3. d \in Object
    BY <1>1 DEF Object
  <1>4. /\ d.reqid = next /\ d.state = c.state /\ d.reqs = c.reqs /\ d.sent = c.sent
        /\ d.waiting = c.waiting /\ d.outbox = c.outbox /\ d.answers = c.answers
        /\ d.notify = c.notify /\ d.subs = subs
    BY <1>1 DEF Object
  <1> HIDE DEF d
  <1>5. NoGhost(d)
    BY <1>4 DEF Sound, Orderly, NoGhost
  <1>6. Orderly(d, ex, ca) /\ Flown(d)
    BY <1>1, <1>3, <1>4, <1>5, TakeIdOrderly DEF Sound, next
  <1> QED
    BY <1>2, <1>3, <1>6, SendIfConnectedSound

\* An unsubscription takes the callbacks with it, and the first of the subscriptions.
LEMMA UnsubscribeSound ==
    ASSUME NEW c, Good(c), c.reqid <= MaxReqId, NEW name \in Subs,
           NEW ex \in Counts, NEW ca \in Counts, Sound(c, ex, ca)
    PROVE  Sound(Unsubscribe(c, name), ex, ca)
  <1> DEFINE matching == {s \in c.subs : s.name = name}
             first == {s \in matching : \A t \in matching : s.id <= t.id}
             u == [id |-> c.reqid, name |-> name]
             next == c.reqid + 1
             d == [c EXCEPT !.entries = @ \ {name}, !.notify[name] = {},
                            !.subs = @ \ first, !.unsubs = @ \cup {u}, !.reqid = next]
  <1>1. /\ c \in Object /\ next \in 1 .. (MaxReqId + 1) /\ u \in UnsubRec
        /\ first \subseteq matching
    BY ReqIdStep DEF Good, UnsubRec
  <1>2. Unsubscribe(c, name) = SendIfConnected(d)
    BY DEF Unsubscribe
  <1> HIDE DEF u, next, first
  <1>3. [c.notify EXCEPT ![name] = {}] \in [Subs -> SUBSET ReqIds]
    BY <1>1 DEF Object
  <1>4. d \in Object
    BY <1>1, <1>3 DEF Object
  <1>5. /\ d.reqid = next /\ d.state = c.state /\ d.reqs = c.reqs /\ d.sent = c.sent
        /\ d.waiting = c.waiting /\ d.outbox = c.outbox /\ d.answers = c.answers
        /\ d.notify = [c.notify EXCEPT ![name] = {}] /\ d.subs = c.subs \ first
    BY <1>1 DEF Object
  <1> HIDE DEF d
  <1>6. NoGhost(d)
    <2> SUFFICES ASSUME NEW n \in Subs, NEW id \in d.notify[n]
                 PROVE  \E s \in d.subs : s.name = n /\ s.id = id
      BY DEF NoGhost
    <2>1. n # name /\ id \in c.notify[n]
      BY <1>1, <1>5 DEF Object
    <2>2. PICK s \in c.subs : s.name = n /\ s.id = id
      BY <2>1 DEF Sound, Orderly, NoGhost
    <2>3. s \notin first
      BY <1>1, <2>1, <2>2
    <2> QED
      BY <1>5, <2>2, <2>3
  <1>7. Orderly(d, ex, ca) /\ Flown(d)
    BY <1>1, <1>4, <1>5, <1>6, TakeIdOrderly DEF Sound, next
  <1> QED
    BY <1>2, <1>4, <1>7, SendIfConnectedSound

\* A request that is queued is new everywhere.
LEMMA QueuedOrderly ==
    ASSUME NEW c, Good(c), c.reqid <= MaxReqId, NEW func \in BOOLEAN,
           NEW ex \in Counts, NEW ca \in Counts, Sound(c, ex, ca)
    PROVE  /\ Orderly(RequestFails(c, func), ex, ca) /\ Flown(RequestFails(c, func))
           /\ RequestFails(c, func) \in Object /\ RequestFails(c, func).state = c.state
  <1> DEFINE q == [id |-> c.reqid, func |-> func]
             next == c.reqid + 1
             d == RequestFails(c, func)
  <1>1. c \in Object /\ next = c.reqid + 1 /\ q.id = c.reqid
    BY DEF Good
  <1>2. d \in Object /\ d.state = c.state
    BY RequestFailsGood DEF Good, SameControl
  <1>3. /\ d.reqid = next /\ d.reqs = c.reqs \cup {q} /\ d.sent = c.sent /\ d.subs = c.subs
        /\ d.notify = c.notify /\ d.waiting = c.waiting /\ d.outbox = c.outbox
        /\ d.answers = c.answers
    BY <1>1 DEF RequestFails, Object
  <1> HIDE DEF q, next, d
  <1>4. /\ c.reqid \in ReqIds /\ c.reqid \notin c.waiting
        /\ ex[c.reqid] = 0 /\ ca[c.reqid] = 0
        /\ ~Queued(c, c.reqid) /\ ~Resent(c, c.reqid)
        /\ \A p \in c.reqs : p.id # c.reqid
        /\ \A r \in Nat : r < c.reqid => r < c.reqid + 1
    BY <1>1, NextIdIsNew DEF Sound
  <1>5. /\ \A r \in ReqIds : r < c.reqid => r < d.reqid
        /\ c.reqid < d.reqid
    BY <1>1, <1>3, <1>4 DEF ReqIds
  <1>6. /\ c.waiting \subseteq ReqIds /\ \A p \in c.reqs : p.id \in ReqIds
    BY <1>1 DEF Object, ReqRec
  <1>7. /\ Answerable(c) /\ NoGhost(c) /\ CalledOnce(c, ca) /\ PendingOnly(c, ex)
        /\ InOneBundle(c, ex)
    BY DEF Sound, Orderly
  <1>8. Answerable(d) /\ NoGhost(d)
    BY <1>3, <1>7 DEF Answerable, NoGhost
  <1>9. CalledOnce(d, ca)
    <2>1. \A r \in d.waiting : r < d.reqid
      BY <1>3, <1>5, <1>6, <1>7 DEF CalledOnce
    <2>2. \A p \in d.reqs : p.id < d.reqid /\ p.id \notin d.waiting
      BY <1>1, <1>3, <1>4, <1>5, <1>6, <1>7 DEF CalledOnce
    <2>3. ASSUME NEW r \in ReqIds, ca[r] > 0
          PROVE  ca[r] = 1 /\ r < d.reqid /\ r \notin d.waiting /\ \A p \in d.reqs : p.id # r
      <3>1. r # c.reqid
        BY <1>4, <2>3
      <3> QED
        BY <1>1, <1>3, <1>5, <1>7, <2>3, <3>1 DEF CalledOnce
    <2> QED
      BY <2>1, <2>2, <2>3 DEF CalledOnce
  <1>10. \A r : (Queued(d, r) <=> Queued(c, r)) /\ (Resent(d, r) <=> Resent(c, r))
    BY <1>3 DEF Queued, Resent
  <1>11. PendingOnly(d, ex)
    <2>1. \A r \in ReqIds : ex[r] > 0 \/ Queued(d, r) \/ Resent(d, r) => r < d.reqid
      BY <1>5, <1>7, <1>10 DEF PendingOnly
    <2>2. \A p \in d.reqs :
              /\ p.id < d.reqid /\ ex[p.id] = 0 /\ ~Queued(d, p.id) /\ ~Resent(d, p.id)
              /\ \A o \in d.reqs : o.id = p.id => o = p
      BY <1>1, <1>3, <1>4, <1>5, <1>6, <1>7, <1>10 DEF PendingOnly
    <2> QED
      BY <2>1, <2>2 DEF PendingOnly
  <1>12. InOneBundle(d, ex)
    <2> SUFFICES ASSUME NEW i \in DOMAIN d.outbox, NEW m \in d.outbox[i].msgs, ~m.func
                 PROVE  /\ m.kind = "request" /\ ex[m.id] = 0 /\ ~Resent(d, m.id)
                        /\ \A p \in d.reqs : p.id # m.id
                        /\ \A j \in DOMAIN d.outbox : \A k \in d.outbox[j].msgs :
                              IsRequest(k, m.id) => i = j
      BY DEF InOneBundle
    <2>1. i \in DOMAIN c.outbox /\ m \in c.outbox[i].msgs
      BY <1>3
    <2>2. /\ m.kind = "request" /\ ex[m.id] = 0 /\ ~Resent(c, m.id)
          /\ \A p \in c.reqs : p.id # m.id
          /\ \A j \in DOMAIN c.outbox : \A k \in c.outbox[j].msgs : IsRequest(k, m.id) => i = j
      BY <1>7, <2>1 DEF InOneBundle
    <2>3. Queued(c, m.id)
      BY <2>1, <2>2 DEF Queued, IsRequest
    <2>4. c.reqid # m.id
      BY <1>4, <2>3
    <2> QED
      BY <1>1, <1>3, <1>10, <2>2, <2>4
  <1>13. Flown(d)
    <2>1. Flown(c)
      BY DEF Sound
    <2> QED
      BY <1>2, <1>3, <2>1 DEF Flown, Flying
  <1> QED
    BY <1>2, <1>8, <1>9, <1>11, <1>12, <1>13 DEF Orderly, d

\* A request that is only queued is nowhere else (request).
LEMMA RequestFailsSound ==
    ASSUME NEW c, Good(c), c.reqid <= MaxReqId, NEW func \in BOOLEAN, c.state # "CONNECTED",
           NEW ex \in Counts, NEW ca \in Counts, Sound(c, ex, ca)
    PROVE  Sound(RequestFails(c, func), ex, ca)
  BY QueuedOrderly DEF Sound, Flushed

\* request(), whether it reconnects, waits or sends.
LEMMA RequestSound ==
    ASSUME NEW c, Good(c), c.reqid <= MaxReqId, NEW func \in BOOLEAN, c.state # "UNCONNECTING",
           NEW ex \in Counts, NEW ca \in Counts, Sound(c, ex, ca)
    PROVE  Sound(Request(c, func), ex, ca)
  <1> DEFINE q == RequestFails(c, func)
             t == IF c.state = "UNCONNECTED" THEN Reconnect(q) ELSE q
  <1>1. /\ Orderly(q, ex, ca) /\ Flown(q) /\ q \in Object /\ q.state = c.state
    BY QueuedOrderly
  <1>2. Request(c, func) = IF t.state # "CONNECTED" THEN NotifyDisconnected(t)
                           ELSE SendIfConnected(t)
    BY DEF Request, RequestFails
  <1> HIDE DEF q
  <1>3. CASE c.state = "CONNECTED"
    BY <1>1, <1>2, <1>3, SendIfConnectedSound
  <1>4. CASE c.state # "CONNECTED"
    <2>1. Sound(q, ex, ca)
      BY <1>1, <1>4 DEF Sound, Flushed
    <2>2. Drops(q, Reconnect(q))
      BY <1>1, <1>4, ReconnectDrops
    <2>3. Sound(t, ex, ca) /\ t \in Object /\ t.state # "CONNECTED"
      BY <1>1, <1>4, <2>1, <2>2, DropsSound DEF Drops
    <2> HIDE DEF t
    <2>4. Sound(NotifyDisconnected(t), ex, ca)
      BY <2>3, NotifyDisconnectedType, NotifyDisconnectedWork, SameWorkSound
    <2> QED
      BY <1>2, <2>3, <2>4
  <1> QED
    BY <1>3, <1>4

\* The end of a batch sends what it held back (startBatch, endBatch).
LEMMA BatchSound ==
    ASSUME NEW c, Good(c), NEW ex \in Counts, NEW ca \in Counts, Sound(c, ex, ca)
    PROVE  /\ Sound(StartBatch(c), ex, ca)
           /\ c.batch > 0 => Sound(EndBatch(c), ex, ca)
  <1>1. c \in Object /\ c.batch \in Nat
    BY BoundsAssumption DEF Good, Object
  <1>2. ASSUME NEW n PROVE Orderly([c EXCEPT !.batch = n], ex, ca) /\ Flown([c EXCEPT !.batch = n])
    <2> DEFINE d == [c EXCEPT !.batch = n]
    <2>1. /\ d.state = c.state /\ d.reqid = c.reqid /\ d.reqs = c.reqs /\ d.waiting = c.waiting
          /\ d.sent = c.sent /\ d.subs = c.subs /\ d.unsubs = c.unsubs /\ d.notify = c.notify
          /\ d.outbox = c.outbox /\ d.answers = c.answers
      BY <1>1 DEF Object
    <2> HIDE DEF d
    <2>2. \A r : (Queued(d, r) <=> Queued(c, r)) /\ (Resent(d, r) <=> Resent(c, r))
      BY <2>1 DEF Queued, Resent
    <2>3. Answerable(d) /\ NoGhost(d) /\ CalledOnce(d, ca)
      BY <2>1 DEF Sound, Orderly, Answerable, NoGhost, CalledOnce
    <2>4. PendingOnly(d, ex)
      BY <2>1, <2>2 DEF Sound, Orderly, PendingOnly
    <2>5. InOneBundle(d, ex)
      BY <2>1, <2>2 DEF Sound, Orderly, InOneBundle
    <2>6. Flown(d)
      BY <2>1 DEF Sound, Flown, Flying
    <2> QED
      BY <2>3, <2>4, <2>5, <2>6 DEF Orderly, d
  <1>3. Sound(StartBatch(c), ex, ca)
    <2>1. StartBatch(c).batch # 0
      BY <1>1 DEF StartBatch, Object
    <2>2. Orderly(StartBatch(c), ex, ca) /\ Flown(StartBatch(c))
      <3> DEFINE n == c.batch + 1
      <3>1. StartBatch(c) = [c EXCEPT !.batch = n]
        BY DEF StartBatch
      <3> HIDE DEF n
      <3> QED
        BY <1>2, <3>1
    <2> QED
      BY <2>1, <2>2 DEF Sound, Flushed
  <1>4. ASSUME c.batch > 0 PROVE Sound(EndBatch(c), ex, ca)
    <2> DEFINE n == c.batch - 1
               d == [c EXCEPT !.batch = n]
    <2>1. EndBatch(c) = SendIfConnected(d)
      BY DEF EndBatch
    <2>2. Orderly(d, ex, ca) /\ Flown(d)
      <3> HIDE DEF n
      <3> QED
        BY <1>2
    <2>3. d \in Object
      <3>1. n \in 0 .. MaxBatch
        BY <1>4, BoundsAssumption DEF Good, Object
      <3> HIDE DEF n
      <3> QED
        BY <1>1, <3>1 DEF Object
    <2> HIDE DEF d
    <2> QED
      BY <2>1, <2>2, <2>3, SendIfConnectedSound
  <1> QED
    BY <1>3, <1>4

\* Starting over drops what the request connection had (notify_networkConnected).
LEMMA NetworkConnectedSound ==
    ASSUME NEW c, Good(c), NEW ex \in Counts, NEW ca \in Counts, Sound(c, ex, ca)
    PROVE  Sound(NetworkConnected(c), ex, ca)
  <1> DEFINE d == ToUnconnected(c)
             e == [d EXCEPT !.active = TRUE]
  <1>1. c \in Object
    BY DEF Good
  <1>2. Drops(c, d) /\ d.state = "UNCONNECTED" /\ d \in Object
    BY <1>1, ToUnconnectedDrops DEF Drops
  <1>3. CASE c.state \in {"CONNECTING", "CONNECTED"}
    <2>1. NetworkConnected(c) = Handshake(e)
      BY <1>2, <1>3 DEF NetworkConnected, Connect
    <2>2. Sound(d, ex, ca)
      BY <1>1, <1>2, DropsSound
    <2> HIDE DEF d
    <2>3. e \in Object /\ SameWork(d, e) /\ e.state = d.state
      BY <1>2 DEF Object, SameWork
    <2> HIDE DEF e
    <2>4. Sound(e, ex, ca)
      BY <1>2, <2>2, <2>3, SameWorkSound
    <2>5. Drops(e, Handshake(e))
      BY <1>2, <2>3, HandshakeDrops
    <2> QED
      BY <2>1, <2>3, <2>4, <2>5, DropsSound
  <1> QED
    BY <1>3 DEF NetworkConnected

\* Going idle drops what was sent (_disconnect).
LEMMA IdleTimeoutSound ==
    ASSUME NEW c, Good(c), NEW ex \in Counts, NEW ca \in Counts, Sound(c, ex, ca)
    PROVE  Sound(IdleTimeout(c), ex, ca)
  <1> DEFINE d == [c EXCEPT !.idleTimer = FALSE]
             e == [d EXCEPT !.idleTriggered = TRUE]
  <1>1. c \in Object /\ d \in Object /\ SameWork(c, d) /\ d.state = c.state
    BY DEF Good, Object, SameWork
  <1>2. Sound(d, ex, ca)
    BY <1>1, SameWorkSound
  <1> HIDE DEF d
  <1>3. e \in Object /\ SameWork(d, e) /\ e.state = d.state
    BY <1>1 DEF Object, SameWork
  <1>4. Sound(e, ex, ca)
    BY <1>1, <1>2, <1>3, SameWorkSound
  <1> HIDE DEF e
  <1>5. Sound(SendDisconnect(e), ex, ca)
    BY <1>3, <1>4, SendDisconnectSound
  <1> QED
    BY <1>2, <1>5 DEF IdleTimeout, d, e

\* Connecting keeps the requests that are to be sent (SlimServer:connect).
LEMMA ServerConnectSound ==
    ASSUME NEW c, Good(c), NEW ex \in Counts, NEW ca \in Counts, Sound(c, ex, ca)
    PROVE  Sound(ServerConnect(c), ex, ca)
  <1> DEFINE d == [c EXCEPT !.netstate = "connecting"]
             a == [d EXCEPT !.active = TRUE]
             u == ToUnconnected(a)
  <1>1. CASE c.netstate # "disconnected"
    BY <1>1 DEF ServerConnect
  <1>2. CASE c.netstate = "disconnected"
    <2>1. c \in Object /\ c.state \in {"UNCONNECTING", "UNCONNECTED"}
      BY <1>2 DEF Good, Consistent, NetState
    <2>2. a \in Object /\ SameWork(c, a) /\ a.state = c.state /\ d.state = c.state
      BY <2>1 DEF Object, NetStates, SameWork
    <2>3. ServerConnect(c) = Handshake(IF c.state = "UNCONNECTING" THEN u ELSE a)
      BY <1>2, <2>1, <2>2 DEF ServerConnect, Connect
    <2> HIDE DEF a
    <2>4. Sound(a, ex, ca) /\ a.state # "CONNECTED"
      BY <2>1, <2>2, SameWorkSound
    <2>5. Drops(a, u)
      BY <2>2, ToUnconnectedDrops
    <2>6. Sound(u, ex, ca) /\ u.state # "CONNECTED" /\ u \in Object
      BY <2>2, <2>4, <2>5, DropsSound DEF Drops
    <2> HIDE DEF u
    <2>7. Sound(Handshake(a), ex, ca) /\ Sound(Handshake(u), ex, ca)
      BY <2>2, <2>4, <2>6, HandshakeDrops, DropsSound
    <2> QED
      BY <2>3, <2>7
  <1> QED
    BY <1>1, <1>2

\* So does disconnecting (SlimServer:disconnect).
LEMMA ServerDisconnectSound ==
    ASSUME NEW c, Good(c), NEW ex \in Counts, NEW ca \in Counts, Sound(c, ex, ca)
    PROVE  Sound(ServerDisconnect(c), ex, ca)
  <1> DEFINE d == [c EXCEPT !.netstate = "disconnected"]
             i == [d EXCEPT !.active = FALSE]
  <1>1. CASE c.netstate = "disconnected"
    BY <1>1 DEF ServerDisconnect
  <1>2. CASE c.netstate # "disconnected"
    <2>1. c \in Object /\ i \in Object /\ SameWork(c, i) /\ i.state = c.state /\ d.state = c.state
      BY DEF Good, Object, NetStates, SameWork
    <2>2. ServerDisconnect(c) = CASE c.state \in {"UNCONNECTED", "UNCONNECTING"} -> i
                                  [] c.state = "CONNECTING" -> ToUnconnected(i)
                                  [] c.state = "CONNECTED"  -> SendDisconnect(i)
      BY <1>2, <2>1 DEF ServerDisconnect, Disconnect
    <2> HIDE DEF i
    <2>3. Sound(i, ex, ca)
      BY <2>1, SameWorkSound
    <2>4. Sound(ToUnconnected(i), ex, ca)
      BY <2>1, <2>3, ToUnconnectedDrops, DropsSound
    <2>5. Sound(SendDisconnect(i), ex, ca)
      BY <2>1, <2>3, SendDisconnectSound
    <2>6. c.state \in {"UNCONNECTED", "UNCONNECTING", "CONNECTING", "CONNECTED"}
      BY <2>1 DEF Object, States
    <2> QED
      BY <2>2, <2>3, <2>4, <2>5, <2>6
  <1> QED
    BY <1>1, <1>2

\* A request of the user connects, and is queued or sent once (SlimServer:userRequest).
LEMMA UserRequestSound ==
    ASSUME NEW c, Good(c), c.reqid <= MaxReqId,
           NEW ex \in Counts, NEW ca \in Counts, Sound(c, ex, ca)
    PROVE  Sound(UserRequest(c), ex, ca)
  <1> DEFINE up == ServerConnect(c)
             r == Request(up, TRUE)
             d == [r EXCEPT !.userRequests = @ \cup {c.reqid}]
  <1>1. Good(up) /\ up.reqid = c.reqid /\ Sound(up, ex, ca)
    BY ServerConnectGood, ServerConnectSound
  <1> HIDE DEF up
  <1>2. CASE up.state = "UNCONNECTING"
    <2>1. UserRequest(c) = RequestFails(up, TRUE)
      BY <1>2 DEF UserRequest, up
    <2> QED
      BY <1>1, <1>2, <2>1, RequestFailsSound
  <1>3. CASE up.state # "UNCONNECTING"
    <2>1. r \in Object /\ Sound(r, ex, ca)
      BY <1>1, <1>3, RequestGood, RequestSound DEF Good
    <2>2. UserRequest(c) = d
      BY <1>3 DEF UserRequest, up
    <2>3. d \in Object
      BY <2>2, UserRequestGood DEF Good
    <2> HIDE DEF r
    <2>4. SameWork(r, d) /\ d.state = r.state
      BY <2>1 DEF Object, SameWork
    <2> HIDE DEF d
    <2> QED
      BY <2>1, <2>2, <2>3, <2>4, SameWorkSound
  <1> QED
    BY <1>2, <1>3

\* One in the background is queued or sent once (SlimServer:request).
LEMMA BackgroundRequestSound ==
    ASSUME NEW c, Good(c), c.reqid <= MaxReqId, NEW func \in BOOLEAN,
           NEW ex \in Counts, NEW ca \in Counts, Sound(c, ex, ca)
    PROVE  Sound(BackgroundRequest(c, func), ex, ca)
  BY RequestFailsSound, RequestSound DEF BackgroundRequest

\* Withdrawn requests are gone from both lists (removeAllUserRequests).
LEMMA RemoveAllUserRequestsSound ==
    ASSUME NEW c, Good(c), NEW ex \in Counts, NEW ca \in Counts, Sound(c, ex, ca)
    PROVE  Sound(RemoveAllUserRequests(c), ex, ca)
  <1> DEFINE r == RemoveRequests(c, c.userRequests)
             d == [r EXCEPT !.userRequests = {}]
  <1>1. r \in Object /\ Sound(r, ex, ca)
    BY AcknowledgeGood, AcknowledgeSound DEF Good
  <1> HIDE DEF r
  <1>2. d \in Object /\ SameWork(r, d) /\ d.state = r.state
    BY <1>1 DEF Object, SameWork
  <1>3. RemoveAllUserRequests(c) = d
    BY DEF RemoveAllUserRequests, r
  <1> HIDE DEF d
  <1> QED
    BY <1>1, <1>2, <1>3, SameWorkSound

\* A failure, a refusal, with what happened before it.
LEMMA HandleAdviceSound ==
    ASSUME NEW c \in Object, NEW d \in Object, Loses(c, d),
           NEW ex \in Counts, NEW ca \in Counts, Sound(c, ex, ca)
    PROVE  Sound(HandleAdvice(d), ex, ca)
  <1>1. Drops(c, HandleAdvice(d))
    BY HandleAdviceDrops, DropsTransitive
  <1> QED
    BY <1>1, DropsSound

\* A refusal closes what is open, and adds nothing (_handleAdvice).
LEMMA RefusedSound ==
    ASSUME NEW c \in Object, NEW d \in Object, Loses(c, d), NEW advice \in Advices,
           NEW ex \in Counts, NEW ca \in Counts, Sound(c, ex, ca)
    PROVE  Sound(Refused(d, advice), ex, ca)
  <1> DEFINE e == [d EXCEPT !.advice = advice]
  <1>1. e \in Object /\ SameWork(d, e)
    BY DEF Object, SameWork
  <1> HIDE DEF e
  <1>2. Loses(c, e)
    BY <1>1, SameWorkLoses, LosesTransitive
  <1> QED
    BY <1>1, <1>2, HandleAdviceSound DEF Refused, e

-----------------------------------------------------------------------------
(* Answers *)

\* The tail of a sequence is what is behind its head.
LEMMA TailFacts ==
    ASSUME NEW A, NEW p \in Seq(A), p # <<>>
    PROVE  /\ 1 \in DOMAIN p /\ p[1] = Head(p)
           /\ \A i \in DOMAIN Tail(p) : i + 1 \in DOMAIN p /\ i + 1 # 1 /\ Tail(p)[i] = p[i + 1]
           /\ \A i \in DOMAIN p : i = 1 \/ \E j \in DOMAIN Tail(p) : Tail(p)[j] = p[i]
  <1>1. /\ Len(p) \in Nat \ {0} /\ DOMAIN p = 1 .. Len(p) /\ DOMAIN Tail(p) = 1 .. Len(p) - 1
        /\ \A i \in 1 .. Len(p) - 1 : Tail(p)[i] = p[i + 1]
    OBVIOUS
  <1>2. 1 \in DOMAIN p /\ p[1] = Head(p)
    BY <1>1
  <1>3. \A i \in DOMAIN Tail(p) : i + 1 \in DOMAIN p /\ i + 1 # 1 /\ Tail(p)[i] = p[i + 1]
    BY <1>1
  <1>4. ASSUME NEW i \in DOMAIN p, i # 1 PROVE \E j \in DOMAIN Tail(p) : Tail(p)[j] = p[i]
    <2>1. i - 1 \in 1 .. Len(p) - 1 /\ (i - 1) + 1 = i
      BY <1>1, <1>4
    <2>2. Tail(p)[i - 1] = p[i]
      BY <1>1, <2>1
    <2> QED
      BY <1>1, <2>1, <2>2
  <1> QED
    BY <1>2, <1>3, <1>4

\* An answer that is taken acknowledges what it answers, and nothing else is missed.
LEMMA AnswerTakenSound ==
    ASSUME NEW c \in Object, NEW d \in Object, NEW ex \in Counts, NEW ca \in Counts,
           Sound(c, ex, ca), c.answers # <<>>, Head(c.answers).kind # "refused",
           d.state = c.state, d.batch = c.batch, d.reqid = c.reqid, d.subs = c.subs,
           d.unsubs = c.unsubs, d.notify = c.notify, d.outbox = c.outbox,
           d.reqs = c.reqs, d.waiting = c.waiting, d.answers = Tail(c.answers),
           d.sent \subseteq c.sent, \A m \in d.sent : m.id \notin Head(c.answers).ids
    PROVE  Sound(d, ex, ca)
  <1> DEFINE p == c.answers
  <1>1. p \in Seq(Answer) /\ p # <<>>
    BY DEF Object
  <1>2. /\ p[1] = Head(p)
        /\ \A i \in DOMAIN Tail(p) : i + 1 \in DOMAIN p /\ Tail(p)[i] = p[i + 1]
        /\ \A i \in DOMAIN p : i = 1 \/ \E j \in DOMAIN Tail(p) : Tail(p)[j] = p[i]
    <2> HIDE DEF p
    <2> QED
      BY <1>1, TailFacts
  <1>3. \E n \in Nat : \A i \in DOMAIN d.outbox :
            i + n \in DOMAIN c.outbox /\ d.outbox[i] = c.outbox[i + n]
    <2>1. 0 \in Nat /\ \A i \in DOMAIN c.outbox : i + 0 = i
      BY DEF Object
    <2> QED
      BY <2>1
  <1>4. Loses(c, d)
    <2>1. \A m \in d.sent : \E k \in c.sent : k.id = m.id /\ k.kind = m.kind /\ k.func = m.func
      OBVIOUS
    <2>2. \A i \in DOMAIN d.answers : \E j \in DOMAIN c.answers : d.answers[i] = c.answers[j]
      BY <1>2
    <2> QED
      BY <1>3, <2>1, <2>2 DEF Loses
  <1>5. Orderly(d, ex, ca)
    BY <1>4, LosesOrderly DEF Sound
  <1>6. Flushed(d)
    BY DEF Sound, Flushed, Quiet
  <1>7. ASSUME d.state = "CONNECTED", NEW m \in d.sent PROVE Flying(d, m.id)
    <2>1. Flying(c, m.id)
      BY <1>7 DEF Sound, Flown
    <2>2. CASE \E i \in DOMAIN c.outbox : \E k \in c.outbox[i].msgs : k.func /\ k.id = m.id
      BY <2>2 DEF Flying
    <2>3. CASE \E i \in DOMAIN p : p[i].kind = "refused" \/ m.id \in p[i].ids
      <3>1. PICK i \in DOMAIN p : p[i].kind = "refused" \/ m.id \in p[i].ids
        BY <2>3
      <3>2. i # 1
        BY <1>2, <1>7, <3>1
      <3>3. PICK j \in DOMAIN Tail(p) : Tail(p)[j] = p[i]
        BY <1>2, <3>2
      <3> QED
        BY <3>1, <3>3 DEF Flying
    <2> QED
      BY <2>1, <2>2, <2>3 DEF Flying
  <1> QED
    BY <1>5, <1>6, <1>7 DEF Sound, Flown

\* An answer acknowledges, or drops (_getRequestSink).
LEMMA AnsweredSound ==
    ASSUME Inv, Sound(comet, executed, called), Answered
    PROVE  Sound(comet', executed, called)
  <1> DEFINE answer == Head(comet.answers)
             tail == Tail(comet.answers)
             rest == [comet EXCEPT !.answers = tail]
             acked == Acknowledge(rest, answer.ids)
  <1>1. /\ comet \in Object /\ comet.answers \in Seq(Answer) /\ comet.answers # <<>>
        /\ executed \in Counts /\ called \in Counts
    BY DEF Inv, Good, Object, Answered, ServerTypeOK, Counts
  <1>2. answer \in Answer /\ tail \in Seq(Answer)
    BY <1>1
  <1>3. comet' = CASE answer.kind = "acks"         -> acked
                   [] answer.kind = "refused"      -> Refused(rest, "handshake")
                   [] answer.kind = "disconnected" -> DisconnectDone(rest)
    BY DEF Answered
  <1>4. answer.kind \in {"acks", "refused", "disconnected"}
    <2> HIDE DEF answer
    <2> QED
      BY <1>2 DEF Answer
  <1>5. answer.kind = "disconnected" => answer.ids = {}
    <2>1. 1 \in DOMAIN comet.answers /\ comet.answers[1] = answer
      BY <1>1
    <2> HIDE DEF answer
    <2> QED
      BY <2>1 DEF Sound, Orderly, Answerable
  <1>6. \A i \in DOMAIN tail : \E j \in DOMAIN comet.answers : tail[i] = comet.answers[j]
    BY <1>1, TailFacts
  <1> HIDE DEF answer, tail
  <1>7. /\ rest \in Object /\ rest.answers = tail /\ rest.state = comet.state
        /\ rest.batch = comet.batch /\ rest.reqid = comet.reqid /\ rest.subs = comet.subs
        /\ rest.unsubs = comet.unsubs /\ rest.notify = comet.notify
        /\ rest.outbox = comet.outbox /\ rest.reqs = comet.reqs
        /\ rest.waiting = comet.waiting /\ rest.sent = comet.sent
    BY <1>1, <1>2 DEF Object
  <1> HIDE DEF rest
  <1>8. Loses(comet, rest)
    <2>1. 0 \in Nat /\ \A i \in DOMAIN comet.outbox : i + 0 = i
      BY <1>1 DEF Object
    <2>2. \E n \in Nat : \A i \in DOMAIN rest.outbox :
              i + n \in DOMAIN comet.outbox /\ rest.outbox[i] = comet.outbox[i + n]
      BY <1>7, <2>1
    <2> QED
      BY <1>6, <1>7, <2>2 DEF Loses
  <1>9. CASE answer.kind = "refused"
    BY <1>1, <1>3, <1>7, <1>8, <1>9, RefusedSound DEF Advices
  <1>10. CASE answer.kind = "acks"
    <2>1. /\ acked \in Object /\ acked.answers = tail /\ acked.state = comet.state
          /\ acked.batch = comet.batch /\ acked.reqid = comet.reqid
          /\ acked.subs = comet.subs /\ acked.unsubs = comet.unsubs
          /\ acked.notify = comet.notify /\ acked.outbox = comet.outbox
          /\ acked.reqs = comet.reqs /\ acked.waiting = comet.waiting
          /\ acked.sent = {m \in comet.sent : m.id \notin answer.ids}
      <3>1. /\ acked \in Object /\ acked.answers = rest.answers /\ acked.state = rest.state
            /\ acked.batch = rest.batch /\ acked.reqid = rest.reqid
            /\ acked.subs = rest.subs /\ acked.unsubs = rest.unsubs
            /\ acked.notify = rest.notify /\ acked.outbox = rest.outbox
            /\ acked.reqs = rest.reqs /\ acked.waiting = rest.waiting
            /\ acked.sent = {m \in rest.sent : m.id \notin answer.ids}
        BY <1>7 DEF Acknowledge, Object
      <3> HIDE DEF acked
      <3> QED
        BY <1>7, <3>1
    <2> HIDE DEF acked
    <2>2. comet' = acked
      BY <1>3, <1>10
    <2>3. Sound(acked, executed, called)
      BY <1>1, <1>10, <2>1, AnswerTakenSound DEF answer, tail
    <2> QED
      BY <2>2, <2>3
  <1>11. CASE answer.kind = "disconnected"
    <2>1. comet' = DisconnectDone(rest)
      BY <1>3, <1>11
    <2>2. Sound(rest, executed, called)
      BY <1>1, <1>5, <1>7, <1>11, AnswerTakenSound DEF answer, tail
    <2> QED
      BY <1>1, <1>7, <2>1, <2>2, DisconnectDoneSound
  <1> QED
    BY <1>4, <1>9, <1>10, <1>11

\* What is in a sequence after an element was appended.
LEMMA AppendFacts ==
    ASSUME NEW A, NEW p \in Seq(A), NEW e
    PROVE  /\ \A i \in DOMAIN p : i \in DOMAIN Append(p, e) /\ Append(p, e)[i] = p[i]
           /\ \A i \in DOMAIN Append(p, e) :
                 (i \in DOMAIN p /\ Append(p, e)[i] = p[i]) \/ Append(p, e)[i] = e
           /\ \E i \in DOMAIN Append(p, e) : Append(p, e)[i] = e
  <1>1. Len(p) \in Nat /\ DOMAIN p = 1 .. Len(p) /\ DOMAIN Append(p, e) = 1 .. Len(p) + 1
    OBVIOUS
  <1>2. /\ \A i \in 1 .. Len(p) : Append(p, e)[i] = p[i]
        /\ Append(p, e)[Len(p) + 1] = e
    OBVIOUS
  <1>3. Len(p) + 1 \in DOMAIN Append(p, e)
    BY <1>1
  <1>4. \A i \in DOMAIN Append(p, e) : i \in DOMAIN p \/ i = Len(p) + 1
    BY <1>1
  <1>5. \A i \in DOMAIN p : i \in DOMAIN Append(p, e)
    BY <1>1
  <1> QED
    BY <1>1, <1>2, <1>3, <1>4, <1>5

\* A batch that the server handles is executed once and answered.
LEMMA ServeSound ==
    ASSUME Inv, Sound(comet, executed, called), Serve
    PROVE  Sound(comet', executed', called)
  <1> DEFINE c == comet
             p == c.outbox
             bundle == Head(p)
             requests == {m \in bundle.msgs : m.kind = "request"}
             ids == {m.id : m \in {k \in bundle.msgs : k.func}}
             answer == CASE bundle.cid \notin known -> [kind |-> "refused", ids |-> {}]
                         [] bundle.cid \in known /\ bundle.kind = "disconnect"
                                            -> [kind |-> "disconnected", ids |-> {}]
                         [] OTHER -> [kind |-> "acks", ids |-> ids]
             more == Append(c.answers, answer)
             d == comet'
  <1>1. /\ c \in Object /\ p \in Seq(Bundle) /\ p # <<>> /\ c.answers \in Seq(Answer)
        /\ executed \in Counts /\ called \in Counts /\ d \in Object
    BY ServeGood DEF Inv, Good, Object, Serve, ServerTypeOK, Counts
  <1>2. comet' = [comet EXCEPT !.outbox = Tail(p), !.answers = more]
    BY DEF Serve
  <1>3. /\ \A i \in DOMAIN c.answers : i \in DOMAIN more /\ more[i] = c.answers[i]
        /\ \A i \in DOMAIN more :
              \/ i \in DOMAIN c.answers /\ more[i] = c.answers[i]
              \/ more[i] = answer
        /\ \E i \in DOMAIN more : more[i] = answer
    <2> HIDE DEF answer
    <2> QED
      BY <1>1, AppendFacts
  <1>4. \/ answer.kind = "refused" /\ bundle.cid \notin known /\ answer.ids = {}
        \/ answer.kind = "disconnected" /\ bundle.kind = "disconnect" /\ answer.ids = {}
        \/ answer.kind = "acks" /\ answer.ids = ids
    <2> HIDE DEF bundle, ids
    <2> QED
      OBVIOUS
  <1>5. \/ executed' = executed
        \/ executed' = [r \in ReqIds |->
               executed[r] + (IF \E m \in requests : m.id = r THEN 1 ELSE 0)]
    BY DEF Serve, server
  <1>6. /\ 1 \in DOMAIN p /\ p[1] = bundle
        /\ \A i \in DOMAIN Tail(p) : i + 1 \in DOMAIN p /\ i + 1 # 1 /\ Tail(p)[i] = p[i + 1]
        /\ \A i \in DOMAIN p : i = 1 \/ \E j \in DOMAIN Tail(p) : Tail(p)[j] = p[i]
    <2> HIDE DEF p
    <2> QED
      BY <1>1, TailFacts
  <1> DEFINE tail == Tail(p)
  <1> HIDE DEF answer, more, tail
  <1>7. /\ d.outbox = tail /\ d.answers = more /\ d.state = c.state /\ d.batch = c.batch
        /\ d.reqid = c.reqid /\ d.subs = c.subs /\ d.unsubs = c.unsubs /\ d.notify = c.notify
        /\ d.reqs = c.reqs /\ d.waiting = c.waiting /\ d.sent = c.sent
    BY <1>1, <1>2 DEF Object, tail
  <1>8. /\ \A i \in DOMAIN tail : i + 1 \in DOMAIN p /\ i + 1 # 1 /\ tail[i] = p[i + 1]
        /\ \A i \in DOMAIN p : i = 1 \/ \E j \in DOMAIN tail : tail[j] = p[i]
        /\ \A i \in DOMAIN tail : i \in Int
    BY <1>1, <1>6 DEF tail
  <1> HIDE DEF requests, ids, bundle, d
  <1>9. /\ Answerable(c) /\ NoGhost(c) /\ CalledOnce(c, called) /\ PendingOnly(c, executed)
        /\ InOneBundle(c, executed) /\ Flushed(c) /\ Flown(c)
    BY DEF Sound, Orderly
  <1>10. \A r : Queued(d, r) => Queued(c, r)
    BY <1>7, <1>8 DEF Queued
  <1>11. \A r : Resent(d, r) <=> Resent(c, r)
    BY <1>7 DEF Resent
  <1>12. \A m \in requests : IsRequest(m, m.id) /\ m \in p[1].msgs /\ Queued(c, m.id)
    BY <1>6 DEF requests, Queued, IsRequest
  <1>13. /\ \A r \in ReqIds : executed'[r] > 0 => executed[r] > 0 \/ \E m \in requests : m.id = r
         /\ \A r \in ReqIds : (\A m \in requests : m.id # r) => executed'[r] = executed[r]
    <2>1. CASE executed' = executed
      BY <2>1
    <2>2. CASE executed' = [r \in ReqIds |->
                   executed[r] + (IF \E m \in requests : m.id = r THEN 1 ELSE 0)]
      <3>1. \A r \in ReqIds : executed[r] \in Nat
        BY <1>1 DEF Counts
      <3>2. \A r \in ReqIds :
               (\A m \in requests : m.id # r) => executed'[r] = executed[r] + 0
        BY <2>2
      <3>3. \A n \in Nat : n + 0 = n
        OBVIOUS
      <3>4. \A r \in ReqIds : (\A m \in requests : m.id # r) => executed'[r] = executed[r]
        BY <3>1, <3>2, <3>3
      <3> QED
        BY <3>4
    <2> QED
      BY <1>5, <2>1, <2>2
  <1>14. Answerable(d)
    <2>1. \A i \in DOMAIN d.outbox : d.outbox[i].kind = "disconnect" => d.outbox[i].msgs = {}
      BY <1>7, <1>8, <1>9 DEF Answerable
    <2>2. \A i \in DOMAIN d.answers : d.answers[i].kind = "disconnected" => d.answers[i].ids = {}
      BY <1>3, <1>4, <1>7, <1>9 DEF Answerable
    <2>3. \A m \in d.sent : m.func
      BY <1>7, <1>9 DEF Answerable
    <2> QED
      BY <2>1, <2>2, <2>3 DEF Answerable
  <1>15. NoGhost(d) /\ CalledOnce(d, called) /\ Flushed(d)
    BY <1>7, <1>9 DEF NoGhost, CalledOnce, Flushed, Quiet
  <1>16. PendingOnly(d, executed')
    <2>1. \A r \in ReqIds : executed'[r] > 0 \/ Queued(d, r) \/ Resent(d, r) => r < d.reqid
      BY <1>7, <1>9, <1>10, <1>11, <1>12, <1>13 DEF PendingOnly
    <2>2. \A q \in c.reqs : q.id \in ReqIds /\ executed'[q.id] = executed[q.id]
      <3>1. \A q \in c.reqs : q.id \in ReqIds
        BY <1>1 DEF Object, ReqRec
      <3>2. \A q \in c.reqs : \A m \in requests : m.id # q.id
        BY <1>9, <1>12 DEF PendingOnly
      <3> QED
        BY <1>13, <3>1, <3>2
    <2> QED
      BY <1>7, <1>9, <1>10, <1>11, <2>1, <2>2 DEF PendingOnly
  <1>17. InOneBundle(d, executed')
    <2> SUFFICES ASSUME NEW i \in DOMAIN d.outbox, NEW m \in d.outbox[i].msgs, ~m.func
                 PROVE  /\ m.kind = "request" /\ executed'[m.id] = 0 /\ ~Resent(d, m.id)
                        /\ \A q \in d.reqs : q.id # m.id
                        /\ \A j \in DOMAIN d.outbox : \A k \in d.outbox[j].msgs :
                              IsRequest(k, m.id) => i = j
      BY DEF InOneBundle
    <2>1. /\ i \in DOMAIN tail /\ i + 1 \in DOMAIN p /\ i + 1 # 1 /\ m \in p[i + 1].msgs
          /\ p[i + 1] \in Bundle
      BY <1>1, <1>7, <1>8
    <2>2. /\ m.kind = "request" /\ executed[m.id] = 0 /\ ~Resent(c, m.id)
          /\ \A q \in c.reqs : q.id # m.id
          /\ \A j \in DOMAIN p : \A k \in p[j].msgs : IsRequest(k, m.id) => i + 1 = j
      BY <1>9, <2>1 DEF InOneBundle
    <2>3. executed'[m.id] = 0
      <3>1. m.id \in ReqIds
        BY <2>1 DEF Bundle, Message
      <3>2. \A k \in requests : k.id # m.id
        BY <1>6, <1>12, <2>1, <2>2
      <3> QED
        BY <1>13, <2>2, <3>1, <3>2
    <2>4. ASSUME NEW j \in DOMAIN d.outbox, NEW k \in d.outbox[j].msgs, IsRequest(k, m.id)
          PROVE  i = j
      <3>1. j \in DOMAIN tail /\ j + 1 \in DOMAIN p /\ k \in p[j + 1].msgs
        BY <1>7, <1>8
      <3>2. i + 1 = j + 1
        BY <2>2, <2>4, <3>1
      <3>3. i \in Int /\ j \in Int
        BY <1>8, <2>1, <3>1
      <3>4. \A x, y \in Int : x + 1 = y + 1 => x = y
        OBVIOUS
      <3> QED
        BY <3>2, <3>3, <3>4, Zenon
    <2> QED
      BY <1>7, <1>11, <2>2, <2>3, <2>4
  <1>18. ASSUME d.state = "CONNECTED", NEW m \in d.sent PROVE Flying(d, m.id)
    <2>1. Flying(c, m.id)
      BY <1>7, <1>9, <1>18 DEF Flown
    <2>2. CASE \E i \in DOMAIN p : \E k \in p[i].msgs : k.func /\ k.id = m.id
      <3>1. PICK i \in DOMAIN p : \E k \in p[i].msgs : k.func /\ k.id = m.id
        BY <2>2
      <3>2. CASE i = 1
        <4>1. m.id \in ids
          BY <1>6, <3>1, <3>2 DEF ids
        <4>2. bundle.kind # "disconnect"
          BY <1>6, <1>9, <3>1, <3>2 DEF Answerable
        <4>3. answer.kind = "refused" \/ m.id \in answer.ids
          BY <1>4, <4>1, <4>2
        <4> QED
          BY <1>3, <1>7, <4>3 DEF Flying
      <3>3. CASE i # 1
        <4>1. PICK j \in DOMAIN tail : tail[j] = p[i]
          BY <1>8, <3>3
        <4> QED
          BY <1>7, <3>1, <4>1 DEF Flying
      <3> QED
        BY <3>2, <3>3
    <2>3. CASE \E i \in DOMAIN c.answers : c.answers[i].kind = "refused" \/ m.id \in c.answers[i].ids
      BY <1>3, <1>7, <2>3 DEF Flying
    <2> QED
      BY <2>1, <2>2, <2>3 DEF Flying
  <1> QED
    BY <1>14, <1>15, <1>16, <1>17, <1>18 DEF Sound, Orderly, Flown, d

-----------------------------------------------------------------------------
(* The steps again *)

\* The inductive invariant of the requests.
Served == Inv /\ Sound(comet, executed, called)

\* Nothing was asked of a new object.
LEMMA ServedInit == Init => Served
  <1> SUFFICES ASSUME Init PROVE Served
    OBVIOUS
  <1>1. /\ comet.state = "UNCONNECTED" /\ comet.reqs = {} /\ comet.sent = {}
        /\ comet.waiting = {} /\ comet.outbox = <<>> /\ comet.answers = <<>>
        /\ \A n \in Subs : comet.notify[n] = {}
        /\ \A r \in ReqIds : executed[r] = 0 /\ called[r] = 0
    BY DEF Init, NewObject
  <1>2. DOMAIN comet.outbox = {} /\ DOMAIN comet.answers = {}
    BY <1>1
  <1>3. \A r : ~Queued(comet, r) /\ ~Resent(comet, r)
    BY <1>1, <1>2 DEF Queued, Resent
  <1>4. Answerable(comet) /\ NoGhost(comet) /\ CalledOnce(comet, called)
    BY <1>1, <1>2 DEF Answerable, NoGhost, CalledOnce
  <1>5. PendingOnly(comet, executed) /\ InOneBundle(comet, executed)
    BY <1>1, <1>2, <1>3 DEF PendingOnly, InOneBundle
  <1>6. Flushed(comet) /\ Flown(comet)
    BY <1>1 DEF Flushed, Flown
  <1> QED
    BY <1>4, <1>5, <1>6, InvInit DEF Served, Sound, Orderly

\* Whatever is called, no request is lost or sent twice.
LEMMA CallsSound == ASSUME Served, Calls PROVE Sound(comet', executed, called)
  <1>1. /\ Good(comet) /\ comet \in Object /\ executed \in Counts /\ called \in Counts
        /\ Sound(comet, executed, called)
    BY DEF Served, Inv, ServerTypeOK, Good, Counts
  <1>2. ASSUME NEW n \in Subs, SubscribeCall(n) PROVE Sound(comet', executed, called)
    BY <1>1, <1>2, SubscribeSound DEF SubscribeCall, HasReqId
  <1>3. ASSUME NEW n \in Subs, UnsubscribeCall(n) PROVE Sound(comet', executed, called)
    BY <1>1, <1>3, UnsubscribeSound DEF UnsubscribeCall, HasReqId
  <1>4. ASSUME NEW n \in Subs, RemoveCallbackCall(n) PROVE Sound(comet', executed, called)
    BY <1>1, <1>4, RemoveCallbackSound DEF RemoveCallbackCall
  <1>5. ASSUME UserRequestCall PROVE Sound(comet', executed, called)
    BY <1>1, <1>5, UserRequestSound DEF UserRequestCall, HasReqId
  <1>6. ASSUME NEW func \in BOOLEAN, BackgroundRequestCall(func)
        PROVE  Sound(comet', executed, called)
    BY <1>1, <1>6, BackgroundRequestSound DEF BackgroundRequestCall, HasReqId
  <1>7. ASSUME RemoveAllUserRequestsCall PROVE Sound(comet', executed, called)
    BY <1>1, <1>7, RemoveAllUserRequestsSound DEF RemoveAllUserRequestsCall
  <1>8. ASSUME StartBatchCall \/ EndBatchCall PROVE Sound(comet', executed, called)
    BY <1>1, <1>8, BatchSound DEF StartBatchCall, EndBatchCall
  <1>9. ASSUME ConnectCall PROVE Sound(comet', executed, called)
    BY <1>1, <1>9, ServerConnectSound DEF ConnectCall
  <1>10. ASSUME DisconnectCall PROVE Sound(comet', executed, called)
    BY <1>1, <1>10, ServerDisconnectSound DEF DisconnectCall
  <1>11. ASSUME ReconnectCall PROVE Sound(comet', executed, called)
    BY <1>1, <1>11, ServerDisconnectSound, ServerDisconnectGood, ServerConnectSound
    DEF ReconnectCall, ServerReconnect
  <1>12. ASSUME NEW on \in BOOLEAN, SetIdleTimeout(on) PROVE Sound(comet', executed, called)
    <2> DEFINE d == [comet EXCEPT !.idleTimer = on]
    <2>1. d \in Object /\ SameWork(comet, d) /\ d.state = comet.state
      BY <1>1 DEF Object, SameWork
    <2>2. comet' = d
      BY <1>12 DEF SetIdleTimeout
    <2> HIDE DEF d
    <2> QED
      BY <1>1, <2>1, <2>2, SameWorkSound
  <1> QED
    BY <1>2, <1>3, <1>4, <1>5, <1>6, <1>7, <1>8, <1>9, <1>10, <1>11, <1>12 DEF Calls

\* Nor when timers fire and connections fail.
LEMMA EventsSound == ASSUME Served, Events PROVE Sound(comet', executed, called)
  <1>1. /\ Good(comet) /\ comet \in Object /\ executed \in Counts /\ called \in Counts
        /\ Sound(comet, executed, called)
    BY DEF Served, Inv, ServerTypeOK, Good, Counts
  <1>2. ASSUME ReconnectTimer PROVE Sound(comet', executed, called)
    BY <1>1, <1>2, HandleTimerSound DEF ReconnectTimer
  <1>3. ASSUME IdleTimer PROVE Sound(comet', executed, called)
    BY <1>1, <1>3, IdleTimeoutSound DEF IdleTimer
  <1>4. ASSUME NetworkConnectedEvent PROVE Sound(comet', executed, called)
    BY <1>1, <1>4, NetworkConnectedSound DEF NetworkConnectedEvent
  <1>5. ASSUME ChunkedFails PROVE Sound(comet', executed, called)
    <2> DEFINE d == [comet EXCEPT !.chttp = "none"]
    <2>1. d \in Object /\ SameWork(comet, d)
      BY <1>1 DEF Object, Streams, SameWork
    <2>2. comet' = HandleAdvice(d)
      BY <1>5 DEF ChunkedFails
    <2> HIDE DEF d
    <2> QED
      BY <1>1, <2>1, <2>2, SameWorkLoses, HandleAdviceSound
  <1>6. ASSUME RequestsFail PROVE Sound(comet', executed, called)
    BY <1>1, <1>6, CloseRequestsType, CloseRequestsLoses, HandleAdviceSound DEF RequestsFail
  <1>7. ASSUME NEW advice \in Advices, RefuseHandshake(advice)
        PROVE  Sound(comet', executed, called)
    <2>1. Loses(comet, comet)
      BY <1>1, SameWorkLoses DEF SameWork
    <2> QED
      BY <1>1, <1>7, <2>1, RefusedSound DEF RefuseHandshake
  <1>8. ASSUME NEW cid \in Cids, ForgetClient(cid) PROVE Sound(comet', executed, called)
    BY <1>1, <1>8 DEF ForgetClient
  <1> QED
    BY <1>2, <1>3, <1>4, <1>5, <1>6, <1>7, <1>8 DEF Events

\* Nor when the server answers.
LEMMA ProgressSound == ASSUME Served, Progress PROVE Sound(comet', executed', called')
  <1>1. /\ Good(comet) /\ comet \in Object /\ executed \in Counts /\ called \in Counts
        /\ Sound(comet, executed, called) /\ Inv
    BY DEF Served, Inv, ServerTypeOK, Good, Counts
  <1>2. ASSUME AnswerHandshake PROVE Sound(comet', executed', called')
    BY <1>1, <1>2, HandshakeDoneSound DEF AnswerHandshake
  <1>3. ASSUME AnswerConnect PROVE Sound(comet', executed', called')
    <2>1. Loses(comet, comet)
      BY <1>1, SameWorkLoses DEF SameWork
    <2>2. Sound(Refused(comet, "handshake"), executed, called)
      BY <1>1, <2>1, RefusedSound DEF Advices
    <2> QED
      BY <1>1, <1>3, <2>2, ConnectDoneSound DEF AnswerConnect, server
  <1>4. ASSUME Serve PROVE Sound(comet', executed', called')
    <2>1. called' = called
      BY <1>4 DEF Serve
    <2> QED
      BY <1>1, <1>4, <2>1, ServeSound
  <1>5. ASSUME Answered PROVE Sound(comet', executed', called')
    <2>1. executed' = executed /\ called' = called
      BY <1>5 DEF Answered, server
    <2> QED
      BY <1>1, <1>5, <2>1, AnsweredSound
  <1>6. ASSUME NEW id \in ReqIds, ResultArrives(id) PROVE Sound(comet', executed', called')
    BY <1>1, <1>6, RequestAnsweredSound DEF ResultArrives
  <1> QED
    BY <1>2, <1>3, <1>4, <1>5, <1>6 DEF Progress

\* Every step serves the requests as it should.
LEMMA ServedNext == Served /\ [Next]_vars => Served'
  <1>1. ASSUME Served, Calls \/ Events PROVE executed' = executed /\ called' = called
    BY <1>1
    DEF Calls, SubscribeCall, UnsubscribeCall, RemoveCallbackCall, UserRequestCall,
        BackgroundRequestCall, RemoveAllUserRequestsCall, StartBatchCall, EndBatchCall,
        ConnectCall, DisconnectCall, ReconnectCall, SetIdleTimeout, server,
        Events, ReconnectTimer, IdleTimer, NetworkConnectedEvent, ChunkedFails,
        RequestsFail, RefuseHandshake, ForgetClient
  <1>2. ASSUME Served, Next PROVE Sound(comet', executed', called')
    BY <1>1, <1>2, CallsSound, EventsSound, ProgressSound DEF Next
  <1>3. ASSUME Served, UNCHANGED vars PROVE Sound(comet', executed', called')
    BY <1>3 DEF Served, vars, server
  <1>4. ASSUME Served, [Next]_vars PROVE Served'
    <2>1. Sound(comet', executed', called')
      BY <1>2, <1>3, <1>4
    <2>2. Inv'
      BY <1>4, InvNext DEF Served
    <2>3. Sound(comet, executed, called)'
      BY <2>1 DEF Sound, Orderly, Answerable, NoGhost, CalledOnce, PendingOnly, InOneBundle,
                  Flushed, Flown, Quiet, Queued, Resent, IsRequest, Flying
    <2> QED
      BY <2>2, <2>3 DEF Served
  <1> QED
    BY <1>4

\* The invariant of the requests holds in every state.
THEOREM RequestsServed == Spec => []Served
  BY ServedInit, ServedNext, PTL DEF Spec

\* While connected nothing waits to be sent, unless a batch is open, and whatever was sent
\* is on its way or its answer is, through every reconnection (_sendPendingRequests,
\* _connected).
THEOREM NothingIsLost == Spec => []NothingLost
  <1>1. Served => NothingLost
    <2> SUFFICES ASSUME Served PROVE NothingLost
      OBVIOUS
    <2>1. Quiet(comet) => PendingMessages(comet) = {}
      BY DEF Quiet, PendingMessages, UnsubMessages, SubMessages, RequestMessages
    <2>2. NothingHeldBack
      BY <2>1 DEF Served, Sound, Flushed, NothingHeldBack
    <2>3. SentIsInFlight
      BY DEF Served, Sound, Flown, SentIsInFlight, Flying, InFlight
    <2> QED
      BY <2>2, <2>3 DEF NothingLost
  <1> QED
    BY <1>1, RequestsServed, PTL

\* A callback runs at most once, a request nobody waits for is executed at most once, and a
\* callback belongs to a subscription, whatever was resent or withdrawn (_response,
\* _addPendingRequests, unsubscribe).
THEOREM HandledOnceAlways == Spec => []HandledOnce
  <1>1. Served => HandledOnce
    <2> SUFFICES ASSUME Served PROVE HandledOnce
      OBVIOUS
    <2>1. /\ NoGhost(comet) /\ CalledOnce(comet, called) /\ InOneBundle(comet, executed)
          /\ called \in Counts
      BY DEF Served, Sound, Orderly, Inv, ServerTypeOK, Counts
    <2>2. CallbackAtMostOnce
      BY <2>1 DEF CalledOnce, CallbackAtMostOnce, Counts
    <2>3. UnacknowledgedOnce
      BY <2>1 DEF InOneBundle, UnacknowledgedOnce, IsRequest
    <2>4. NoGhostCallback
      BY <2>1 DEF NoGhost, NoGhostCallback
    <2> QED
      BY <2>2, <2>3, <2>4 DEF HandledOnce
  <1> QED
    BY <1>1, RequestsServed, PTL

-----------------------------------------------------------------------------
(* Trying *)

\* The object tries, or nobody wants it to, or it was told not to.
Told(d) == Trying(d) \/ d.netstate # "connecting" \/ d.advice = "none"

SameReach(c, d) ==
    d.timer = c.timer /\ d.chttp = c.chttp /\ d.netstate = c.netstate /\ d.advice = c.advice

\* A step that touches none of it is no end of trying.
LEMMA SameReachTold ==
    ASSUME NEW c, NEW d, SameReach(c, d), Trying(c) PROVE Told(d)
  BY DEF SameReach, Trying, Told

\* Sending what is pending touches none of it (_sendPendingRequests).
LEMMA SendReach ==
    ASSUME NEW c \in Object
    PROVE  SameReach(c, SendIfConnected(c)) /\ SameReach(c, SendPendingRequests(c, c.sent))
  BY DEF SendIfConnected, SendPendingRequests, AddPendingRequests, Fetch, SameReach, Object

\* Telling the server of a disconnection leaves timer, connection and advice (notify_cometDisconnected).
LEMMA NotifyReach ==
    ASSUME NEW c \in Object
    PROVE  /\ NotifyDisconnected(c).timer = c.timer /\ NotifyDisconnected(c).chttp = c.chttp
           /\ NotifyDisconnected(c).advice = c.advice
           /\ c.netstate = "disconnected" => NotifyDisconnected(c).netstate = "disconnected"
           /\ c.idleTriggered => NotifyDisconnected(c).netstate = "disconnected"
  BY DEF NotifyDisconnected, Object

\* An object that becomes UNCONNECTED keeps the advice, and a server that wants no
\* connection or was idle is disconnected.
LEMMA ToUnconnectedReach ==
    ASSUME NEW c \in Object, c.state # "UNCONNECTED"
    PROVE  /\ ToUnconnected(c).advice = c.advice
           /\ c.netstate = "disconnected" \/ c.idleTriggered
                 => ToUnconnected(c).netstate = "disconnected"
  <1> DEFINE d == [c EXCEPT !.timer = FALSE, !.state = "UNCONNECTED", !.chttp = "none"]
             e == CloseRequests(d)
  <1>1. /\ d \in Object /\ d.advice = c.advice /\ d.netstate = c.netstate
        /\ d.idleTriggered = c.idleTriggered
    BY DEF Object, States, Streams
  <1>2. ToUnconnected(c) = NotifyDisconnected(e)
    BY DEF ToUnconnected
  <1> HIDE DEF d
  <1>3. e \in Object /\ e.advice = d.advice /\ SameControl(d, e)
    BY <1>1, CloseRequestsType, CloseRequestsKeeps DEF CloseRequests, Object
  <1> HIDE DEF e
  <1> QED
    BY <1>1, <1>2, <1>3, NotifyReach DEF SameControl

\* The server is not left waiting for an object that does not try.
Wanted(c) == c.netstate = "connecting" => Trying(c)

\* A handshake or a reconnect of an active object is a try.
LEMMA HandshakeTries ==
    ASSUME NEW c \in Object
    PROVE  /\ c.active => Trying(Handshake(c)) /\ Trying(Reconnect(c))
           /\ ~c.active => Handshake(c) = c /\ Reconnect(c) = c
  BY DEF Handshake, Reconnect, Trying, Object

\* So after a handshake or a reconnect the server waits only for an object that tries.
LEMMA HandshakeWanted ==
    ASSUME NEW c, Good(c) PROVE Wanted(Handshake(c)) /\ Wanted(Reconnect(c))
  BY HandshakeTries DEF Good, Consistent, NetState, Wanted

\* After a failure the timer runs, unless the advice was none.
LEMMA HandleAdviceTold ==
    ASSUME NEW c \in Object, c.state # "UNCONNECTED" PROVE Told(HandleAdvice(c))
  <1> DEFINE d == ToUnconnected(c)
  <1>1. d \in Object /\ d.advice = c.advice
    BY ToUnconnectedType, ToUnconnectedReach
  <1> HIDE DEF d
  <1>2. /\ [d EXCEPT !.clientId = NoCid].advice = d.advice
        /\ [d EXCEPT !.timer = TRUE].timer
    BY <1>1 DEF Object
  <1> QED
    BY <1>1, <1>2 DEF HandleAdvice, Told, Trying, d

\* A server that connects waits for an object that tries (SlimServer:connect).
LEMMA ServerConnectWanted ==
    ASSUME NEW c, Good(c), Trying(c) \/ c.netstate = "disconnected"
    PROVE  Wanted(ServerConnect(c))
  <1> DEFINE d == [c EXCEPT !.netstate = "connecting"]
             a == [d EXCEPT !.active = TRUE]
             u == ToUnconnected(a)
  <1>1. CASE c.netstate # "disconnected"
    BY <1>1 DEF ServerConnect, Wanted
  <1>2. CASE c.netstate = "disconnected"
    <2>1. /\ a \in Object /\ a.netstate = "connecting" /\ a.active
          /\ a.state = c.state /\ a.chttp = c.chttp /\ a.idleTriggered = c.idleTriggered
          /\ a.clientId = c.clientId /\ d.state = c.state
      BY DEF Good, Object, NetStates
    <2>2. c.state \in {"UNCONNECTING", "UNCONNECTED"}
      BY <1>2 DEF Good, Consistent, NetState
    <2>3. ServerConnect(c) = Handshake(IF c.state = "UNCONNECTING" THEN u ELSE a)
      BY <1>2, <2>1, <2>2 DEF ServerConnect, Connect
    <2> HIDE DEF a
    <2>4. a.state = "UNCONNECTED" => Good(a)
      BY <1>2, <2>1 DEF Good, Consistent, NetState
    <2>5. Good(u)
      BY <2>1, <2>4, ToUnconnectedGood DEF Good
    <2> HIDE DEF u
    <2> QED
      BY <2>1, <2>2, <2>3, <2>4, <2>5, HandshakeWanted
  <1> QED
    BY <1>1, <1>2

\* A request that is only queued does not change how the object tries.
LEMMA RequestFailsReach ==
    ASSUME NEW c, Good(c), NEW func \in BOOLEAN PROVE SameReach(c, RequestFails(c, func))
  BY DEF RequestFails, SameReach, Good, Object

\* A request makes an UNCONNECTED object try.
LEMMA RequestWanted ==
    ASSUME NEW c, Good(c), c.reqid <= MaxReqId, NEW func \in BOOLEAN,
           c.state # "UNCONNECTING", Wanted(c)
    PROVE  Wanted(Request(c, func))
  <1> DEFINE q == RequestFails(c, func)
             t == IF c.state = "UNCONNECTED" THEN Reconnect(q) ELSE q
  <1>1. Good(q) /\ q.state = c.state /\ SameReach(c, q)
    BY RequestFailsGood, RequestFailsReach DEF SameControl
  <1>2. Request(c, func) = IF t.state # "CONNECTED" THEN NotifyDisconnected(t)
                           ELSE SendIfConnected(t)
    BY DEF Request, RequestFails
  <1> HIDE DEF q
  <1>3. Wanted(q)
    BY <1>1 DEF Wanted, SameReach, Trying
  <1>4. CASE c.state = "UNCONNECTED"
    <2>1. Wanted(t) /\ Good(t)
      BY <1>1, <1>4, HandshakeWanted, ReconnectGood
    <2>2. t.state \in {"UNCONNECTED", "CONNECTING"}
      BY <1>1, <1>4 DEF Reconnect, Handshake, Good, Object
    <2> HIDE DEF t
    <2>3. t.netstate # "connected" /\ t \in Object
      BY <2>1, <2>2 DEF Good, Consistent, NetState
    <2>4. Wanted(NotifyDisconnected(t))
      BY <2>1, <2>3 DEF Wanted, Trying, NotifyDisconnected, Object, NetStates
    <2> QED
      BY <1>2, <2>2, <2>4
  <1>5. CASE c.state = "CONNECTING"
    <2>1. q.chttp # "none" /\ q \in Object
      BY <1>1, <1>5 DEF Good, Consistent
    <2>2. Trying(NotifyDisconnected(q))
      BY <2>1, NotifyReach DEF Trying
    <2>3. Request(c, func) = NotifyDisconnected(q)
      BY <1>1, <1>2, <1>5
    <2> QED
      BY <2>2, <2>3 DEF Wanted
  <1>6. CASE c.state = "CONNECTED"
    <2>1. Request(c, func) = SendIfConnected(q)
      BY <1>1, <1>2, <1>6
    <2>2. SameReach(q, SendIfConnected(q))
      BY <1>1, SendReach DEF Good
    <2> QED
      BY <1>3, <2>1, <2>2 DEF Wanted, SameReach, Trying
  <1>7. c.state \in {"UNCONNECTED", "CONNECTING", "CONNECTED"}
    BY DEF Good, Object, States
  <1> QED
    BY <1>4, <1>5, <1>6, <1>7

\* Nor does the server wait in vain after a request of the user (SlimServer:userRequest).
LEMMA UserRequestWanted ==
    ASSUME NEW c, Good(c), c.reqid <= MaxReqId, Trying(c)
    PROVE  Wanted(UserRequest(c))
  <1> DEFINE up == ServerConnect(c)
             r == Request(up, TRUE)
             d == [r EXCEPT !.userRequests = @ \cup {c.reqid}]
  <1>1. Good(up) /\ up.reqid = c.reqid /\ Wanted(up)
    BY ServerConnectGood, ServerConnectWanted
  <1> HIDE DEF up
  <1>2. CASE up.state = "UNCONNECTING"
    <2>1. UserRequest(c) = RequestFails(up, TRUE)
      BY <1>2 DEF UserRequest, up
    <2> QED
      BY <1>1, <2>1, RequestFailsReach DEF Wanted, SameReach, Trying
  <1>3. CASE up.state # "UNCONNECTING"
    <2>1. r \in Object /\ Wanted(r)
      BY <1>1, <1>3, RequestGood, RequestWanted DEF Good
    <2>2. UserRequest(c) = d
      BY <1>3 DEF UserRequest, up
    <2> HIDE DEF r
    <2>3. SameReach(r, d)
      BY <2>1 DEF Object, SameReach
    <2> QED
      BY <2>1, <2>2, <2>3 DEF Wanted, SameReach, Trying
  <1> QED
    BY <1>2, <1>3

\* A server that disconnects waits for nothing (SlimServer:disconnect).
LEMMA ServerDisconnectReach ==
    ASSUME NEW c, Good(c) PROVE ServerDisconnect(c).netstate = "disconnected"
  <1> DEFINE d == [c EXCEPT !.netstate = "disconnected"]
             i == [d EXCEPT !.active = FALSE]
  <1>1. CASE c.netstate = "disconnected"
    BY <1>1 DEF ServerDisconnect
  <1>2. CASE c.netstate # "disconnected"
    <2>1. /\ i \in Object /\ i.netstate = "disconnected" /\ i.state = c.state
          /\ d.state = c.state
      BY DEF Good, Object, NetStates
    <2>2. ServerDisconnect(c) = CASE c.state \in {"UNCONNECTED", "UNCONNECTING"} -> i
                                  [] c.state = "CONNECTING" -> ToUnconnected(i)
                                  [] c.state = "CONNECTED"  -> SendDisconnect(i)
      BY <1>2, <2>1 DEF ServerDisconnect, Disconnect
    <2> HIDE DEF i
    <2>3. c.state = "CONNECTING" => ToUnconnected(i).netstate = "disconnected"
      BY <2>1, ToUnconnectedReach
    <2>4. SendDisconnect(i).netstate = "disconnected"
      BY <2>1, SendDisconnectControl
    <2>5. c.state \in {"UNCONNECTED", "UNCONNECTING", "CONNECTING", "CONNECTED"}
      BY DEF Good, Object, States
    <2> QED
      BY <2>1, <2>2, <2>3, <2>4, <2>5
  <1> QED
    BY <1>1, <1>2

\* Sending what is pending changes none of it, whatever was noted in the object before.
LEMMA SendReachFrom ==
    ASSUME NEW c \in Object, NEW d, DOMAIN d = DOMAIN c, SameReach(c, d)
    PROVE  SameReach(c, SendIfConnected(d))
  BY DEF SendIfConnected, SendPendingRequests, AddPendingRequests, Fetch, SameReach, Object

\* Subscribing and unsubscribing neither start nor stop a try.
LEMMA SubscribeReach ==
    ASSUME NEW c \in Object, NEW name \in Subs
    PROVE  /\ SameReach(c, Subscribe(c, name)) /\ SameReach(c, Unsubscribe(c, name))
           /\ \A id : SameReach(c, RemoveCallback(c, name, id))
  <1>1. SameReach(c, Subscribe(c, name))
    <2> DEFINE d == [c EXCEPT !.subs = @ \cup {[id |-> c.reqid, name |-> name, pending |-> TRUE]},
                              !.reqid = @ + 1]
    <2>1. DOMAIN d = DOMAIN c /\ SameReach(c, d)
      BY DEF Object, SameReach
    <2>2. Subscribe(c, name) = SendIfConnected(d)
      BY DEF Subscribe
    <2> HIDE DEF d
    <2> QED
      BY SendReachFrom, <2>1, <2>2
  <1>2. SameReach(c, Unsubscribe(c, name))
    <2> DEFINE matching == {s \in c.subs : s.name = name}
               first == {s \in matching : \A t \in matching : s.id <= t.id}
               d == [c EXCEPT !.entries = @ \ {name}, !.notify[name] = {}, !.subs = @ \ first,
                              !.unsubs = @ \cup {[id |-> c.reqid, name |-> name]},
                              !.reqid = @ + 1]
    <2>1. Unsubscribe(c, name) = SendIfConnected(d)
      BY DEF Unsubscribe
    <2> HIDE DEF first
    <2>2. DOMAIN d = DOMAIN c /\ SameReach(c, d)
      BY DEF Object, SameReach
    <2> HIDE DEF d
    <2> QED
      BY SendReachFrom, <2>1, <2>2
  <1>3. \A id : SameReach(c, RemoveCallback(c, name, id))
    BY DEF RemoveCallback, SameReach, Object
  <1> QED
    BY <1>1, <1>2, <1>3

\* Nor does batching, or withdrawing the user's requests.
LEMMA BatchReach ==
    ASSUME NEW c \in Object
    PROVE  /\ SameReach(c, StartBatch(c)) /\ SameReach(c, EndBatch(c))
           /\ SameReach(c, RemoveAllUserRequests(c))
  <1>1. SameReach(c, EndBatch(c))
    <2> DEFINE d == [c EXCEPT !.batch = @ - 1]
    <2>1. DOMAIN d = DOMAIN c /\ SameReach(c, d)
      BY DEF Object, SameReach
    <2>2. EndBatch(c) = SendIfConnected(d)
      BY DEF EndBatch
    <2> HIDE DEF d
    <2> QED
      BY SendReachFrom, <2>1, <2>2
  <1>2. SameReach(c, StartBatch(c)) /\ SameReach(c, RemoveAllUserRequests(c))
    BY DEF StartBatch, RemoveAllUserRequests, RemoveRequests, SameReach, Object
  <1> QED
    BY <1>1, <1>2

\* A call leaves an object that tries trying, unless it disconnects.
LEMMA CallsTold == ASSUME Inv, Trying(comet), Calls PROVE Told(comet')
  <1>1. Good(comet) /\ comet \in Object /\ Wanted(comet)
    BY DEF Inv, Good, Wanted
  <1>2. \A d : Wanted(d) => Told(d)
    BY DEF Wanted, Told
  <1>3. \A d : d.netstate = "disconnected" => Told(d)
    BY DEF Told
  <1>4. ASSUME NEW n \in Subs, SubscribeCall(n) \/ UnsubscribeCall(n) \/ RemoveCallbackCall(n)
        PROVE  Told(comet')
    BY <1>1, <1>4, SubscribeReach, SameReachTold DEF SubscribeCall, UnsubscribeCall, RemoveCallbackCall
  <1>5. ASSUME StartBatchCall \/ EndBatchCall \/ RemoveAllUserRequestsCall PROVE Told(comet')
    BY <1>1, <1>5, BatchReach, SameReachTold DEF StartBatchCall, EndBatchCall, RemoveAllUserRequestsCall
  <1>6. ASSUME UserRequestCall PROVE Told(comet')
    BY <1>1, <1>2, <1>6, UserRequestWanted DEF UserRequestCall, HasReqId
  <1>7. ASSUME NEW func \in BOOLEAN, BackgroundRequestCall(func) PROVE Told(comet')
    <2>1. comet.state = "UNCONNECTING" => SameReach(comet, BackgroundRequest(comet, func))
      BY <1>1, RequestFailsReach DEF BackgroundRequest
    <2>2. comet.state # "UNCONNECTING" => Wanted(BackgroundRequest(comet, func))
      BY <1>1, <1>7, RequestWanted DEF BackgroundRequest, BackgroundRequestCall, HasReqId
    <2> QED
      BY <1>2, <1>7, <2>1, <2>2, SameReachTold DEF BackgroundRequestCall
  <1>8. ASSUME ConnectCall PROVE Told(comet')
    BY <1>1, <1>2, <1>8, ServerConnectWanted DEF ConnectCall
  <1>9. ASSUME DisconnectCall PROVE Told(comet')
    BY <1>1, <1>3, <1>9, ServerDisconnectReach DEF DisconnectCall
  <1>10. ASSUME ReconnectCall PROVE Told(comet')
    <2> DEFINE d == ServerDisconnect(comet)
    <2>1. Good(d) /\ d.netstate = "disconnected"
      BY <1>1, ServerDisconnectGood, ServerDisconnectReach
    <2>2. comet' = ServerConnect(d)
      BY <1>10 DEF ReconnectCall, ServerReconnect
    <2> HIDE DEF d
    <2> QED
      BY <1>2, <2>1, <2>2, ServerConnectWanted
  <1>11. ASSUME NEW on \in BOOLEAN, SetIdleTimeout(on) PROVE Told(comet')
    <2>1. SameReach(comet, [comet EXCEPT !.idleTimer = on])
      BY <1>1 DEF SameReach, Object
    <2> QED
      BY <1>11, <2>1, SameReachTold DEF SetIdleTimeout
  <1> QED
    BY <1>4, <1>5, <1>6, <1>7, <1>8, <1>9, <1>10, <1>11 DEF Calls

\* A refusal leaves the timer running, or an UNCONNECTED object as it was.
LEMMA RefusedTold ==
    ASSUME NEW c \in Object, Trying(c), NEW advice \in Advices PROVE Told(Refused(c, advice))
  <1> DEFINE d == [c EXCEPT !.advice = advice]
  <1>1. d \in Object /\ d.state = c.state /\ d.timer = c.timer /\ d.chttp = c.chttp
    BY DEF Object
  <1>2. Refused(c, advice) = HandleAdvice(d)
    BY DEF Refused
  <1> HIDE DEF d
  <1>3. c.state = "UNCONNECTED" => Trying(HandleAdvice(d))
    BY <1>1 DEF HandleAdvice, Trying
  <1>4. c.state # "UNCONNECTED" => Told(HandleAdvice(d))
    BY <1>1, HandleAdviceTold
  <1> QED
    BY <1>2, <1>3, <1>4 DEF Told

\* A timer or a failure leaves an object that tries trying, or told not to.
LEMMA EventsTold == ASSUME Inv, Trying(comet), Events PROVE Told(comet')
  <1>1. Good(comet) /\ comet \in Object
    BY DEF Inv, Good
  <1>2. ASSUME ReconnectTimer PROVE Told(comet')
    <2> DEFINE d == [comet EXCEPT !.timer = FALSE]
    <2>1. /\ d \in Object /\ SameControl(comet, d) /\ d.chttp = comet.chttp
          /\ d.netstate = comet.netstate /\ d.advice = comet.advice
      BY <1>1 DEF Object, SameControl
    <2>2. comet' = CASE comet.state # "UNCONNECTED" -> d
                     [] comet.state = "UNCONNECTED" /\ comet.advice = "handshake" -> Handshake(d)
                     [] comet.state = "UNCONNECTED" /\ comet.advice = "retry"     -> Reconnect(d)
                     [] OTHER -> d
      BY <1>2 DEF ReconnectTimer, HandleTimer
    <2> HIDE DEF d
    <2>3. Good(d)
      BY <1>1, <2>1, SameControlConsistent DEF Good
    <2>4. Told(Handshake(d)) /\ Told(Reconnect(d))
      BY <2>3, HandshakeWanted DEF Wanted, Told
    <2>5. comet.state # "UNCONNECTED" => Told(d)
      BY <1>1, <2>1 DEF Good, Consistent, NetState, Told, Trying, Object, States
    <2>6. comet.state = "UNCONNECTED" /\ comet.advice = "none" => Told(d)
      BY <2>1 DEF Told
    <2>7. comet.advice \in {"handshake", "retry", "none"}
      BY <1>1 DEF Object, Advices
    <2> QED
      BY <2>2, <2>4, <2>5, <2>6, <2>7
  <1>3. ASSUME IdleTimer PROVE Told(comet')
    <2> DEFINE d == [comet EXCEPT !.idleTimer = FALSE]
               e == [d EXCEPT !.idleTriggered = TRUE]
    <2>1. SameReach(comet, d) /\ e \in Object /\ e.netstate = comet.netstate
      BY <1>1 DEF Object, SameReach
    <2>2. comet' = IF comet.state = "CONNECTED" THEN SendDisconnect(e) ELSE d
      BY <1>3 DEF IdleTimer, IdleTimeout
    <2> HIDE DEF d, e
    <2>3. comet.state = "CONNECTED" => SendDisconnect(e).netstate # "connecting"
      BY <1>1, <2>1, SendDisconnectControl DEF Good, Consistent, NetState
    <2> QED
      BY <2>1, <2>2, <2>3, SameReachTold DEF Told
  <1>4. ASSUME NetworkConnectedEvent PROVE Told(comet')
    <2>1. CASE comet.state \in {"CONNECTING", "CONNECTED"}
      <3> DEFINE d == ToUnconnected(comet)
                 e == [d EXCEPT !.active = TRUE]
      <3>1. d \in Object /\ d.state = "UNCONNECTED"
        BY <1>1, ToUnconnectedGood DEF Good, Consistent, NetState
      <3>2. comet' = Handshake(e)
        BY <1>4, <2>1, <3>1 DEF NetworkConnectedEvent, NetworkConnected, Connect
      <3> HIDE DEF d
      <3>3. e \in Object /\ e.active
        BY <3>1 DEF Object
      <3> HIDE DEF e
      <3> QED
        BY <3>2, <3>3, HandshakeTries DEF Told
    <2>2. CASE comet.state \notin {"CONNECTING", "CONNECTED"}
      BY <1>4, <2>2 DEF NetworkConnectedEvent, NetworkConnected, Told
    <2> QED
      BY <2>1, <2>2
  <1>5. ASSUME ChunkedFails PROVE Told(comet')
    <2> DEFINE d == [comet EXCEPT !.chttp = "none"]
    <2>1. d \in Object /\ d.state = comet.state
      BY <1>1 DEF Object, Streams
    <2>2. comet' = HandleAdvice(d) /\ comet.state # "UNCONNECTED"
      BY <1>1, <1>5 DEF ChunkedFails, Good, Consistent
    <2> HIDE DEF d
    <2> QED
      BY <2>1, <2>2, HandleAdviceTold
  <1>6. ASSUME RequestsFail PROVE Told(comet')
    <2> DEFINE d == CloseRequests(comet)
    <2>1. d \in Object /\ d.state = comet.state
      BY <1>1, CloseRequestsType, CloseRequestsKeeps DEF SameControl
    <2>2. SameReach(comet, d)
      BY <1>1 DEF CloseRequests, SameReach, Object
    <2>3. comet' = HandleAdvice(d)
      BY <1>6 DEF RequestsFail
    <2> HIDE DEF d
    <2>4. comet.state = "UNCONNECTED" => HandleAdvice(d) = d
      BY <2>1 DEF HandleAdvice
    <2> QED
      BY <2>1, <2>2, <2>3, <2>4, HandleAdviceTold, SameReachTold
  <1>7. ASSUME NEW advice \in Advices, RefuseHandshake(advice) PROVE Told(comet')
    BY <1>1, <1>7, RefusedTold DEF RefuseHandshake
  <1>8. ASSUME NEW cid \in Cids, ForgetClient(cid) PROVE Told(comet')
    BY <1>8 DEF ForgetClient, Told
  <1> QED
    BY <1>2, <1>3, <1>4, <1>5, <1>6, <1>7, <1>8 DEF Events

\* An answer that disconnects is one that was asked for.
LEMMA DisconnectDoneTold ==
    ASSUME NEW c, Good(c), Trying(c) PROVE Told(DisconnectDone(c))
  <1> DEFINE d == [c EXCEPT !.clientId = NoCid]
  <1>1. /\ d \in Object /\ d.state = c.state /\ d.netstate = c.netstate
        /\ d.idleTriggered = c.idleTriggered
    BY DEF Good, Object
  <1>2. CASE c.state # "UNCONNECTING"
    BY <1>2 DEF DisconnectDone, Told
  <1>3. CASE c.state = "UNCONNECTING"
    <2>1. DisconnectDone(c) = ToUnconnected(d)
      BY <1>3 DEF DisconnectDone
    <2>2. c.netstate = "disconnected" \/ c.idleTriggered
      BY <1>3 DEF Good, Consistent, NetState, Object, NetStates
    <2> HIDE DEF d
    <2> QED
      BY <1>1, <1>3, <2>1, <2>2, ToUnconnectedReach DEF Told
  <1> QED
    BY <1>2, <1>3

\* An answer of the server leaves an object that tries trying, or told not to.
LEMMA ProgressTold == ASSUME Inv, Trying(comet), Progress PROVE Told(comet')
  <1>1. Good(comet) /\ comet \in Object
    BY DEF Inv, Good
  <1>2. ASSUME AnswerHandshake PROVE Told(comet')
    <2>1. comet'.chttp = "connect"
      BY <1>1, <1>2 DEF AnswerHandshake, HandshakeDone, Object
    <2> QED
      BY <2>1 DEF Told, Trying
  <1>3. ASSUME AnswerConnect PROVE Told(comet')
    <2> DEFINE d == [comet EXCEPT !.advice = "retry", !.chttp = "stream"]
               e == SendPendingRequests(d, d.sent)
    <2>1. d \in Object /\ d.chttp = "stream"
      BY <1>1 DEF Object, Advices, Streams
    <2>2. d.clientId # NoCid
      BY <1>1, <1>3 DEF AnswerConnect, Good, Consistent, Object
    <2>3. ConnectDone(comet) = ToConnected(e)
      BY DEF ConnectDone, Connected
    <2> HIDE DEF d
    <2>4. e \in Object /\ e.chttp = "stream"
      BY <2>1, <2>2, SendPendingRequestsType, SendReach DEF Object, SameReach
    <2> HIDE DEF e
    <2>5. ToConnected(e).chttp = "stream"
      BY <2>4 DEF ToConnected, Object
    <2>6. Told(ConnectDone(comet))
      BY <2>3, <2>5 DEF Told, Trying
    <2>7. Told(Refused(comet, "handshake"))
      BY <1>1, RefusedTold DEF Advices
    <2> QED
      BY <1>3, <2>6, <2>7 DEF AnswerConnect
  <1>4. ASSUME Serve PROVE Told(comet')
    <2>1. \A tail, more : SameReach(comet, [comet EXCEPT !.outbox = tail, !.answers = more])
      BY <1>1 DEF Object, SameReach
    <2>2. \E tail, more : comet' = [comet EXCEPT !.outbox = tail, !.answers = more]
      BY <1>4 DEF Serve
    <2> QED
      BY <2>1, <2>2, SameReachTold
  <1>5. ASSUME Answered PROVE Told(comet')
    <2> DEFINE answer == Head(comet.answers)
               tail == Tail(comet.answers)
               rest == [comet EXCEPT !.answers = tail]
    <2>1. comet.answers \in Seq(Answer) /\ comet.answers # <<>>
      BY <1>1, <1>5 DEF Object, Answered
    <2>2. answer \in Answer /\ tail \in Seq(Answer)
      BY <2>1
    <2>3. comet' = CASE answer.kind = "acks"         -> Acknowledge(rest, answer.ids)
                     [] answer.kind = "refused"      -> Refused(rest, "handshake")
                     [] answer.kind = "disconnected" -> DisconnectDone(rest)
      BY <1>5 DEF Answered
    <2> HIDE DEF answer, tail
    <2>4. rest \in Object /\ SameControl(comet, rest) /\ SameReach(comet, rest)
      BY <1>1, <2>2 DEF Object, SameControl, SameReach
    <2> HIDE DEF rest
    <2>5. Good(rest) /\ Trying(rest)
      BY <1>1, <2>4, SameControlConsistent DEF Good, SameReach, Trying
    <2>6. SameReach(rest, Acknowledge(rest, answer.ids))
      BY <2>4 DEF Acknowledge, SameReach, Object
    <2>7. Told(Acknowledge(rest, answer.ids))
      BY <2>5, <2>6, SameReachTold
    <2>8. Told(Refused(rest, "handshake"))
      BY <2>4, <2>5, RefusedTold DEF Advices
    <2>9. answer.kind \in {"acks", "refused", "disconnected"}
      BY <2>2 DEF Answer
    <2> QED
      BY <2>3, <2>5, <2>7, <2>8, <2>9, DisconnectDoneTold
  <1>6. ASSUME NEW id \in ReqIds, ResultArrives(id) PROVE Told(comet')
    <2>1. SameReach(comet, RequestAnswered(comet, id))
      BY <1>1 DEF RequestAnswered, Acknowledge, SameReach, Object
    <2> QED
      BY <1>6, <2>1, SameReachTold DEF ResultArrives
  <1> QED
    BY <1>2, <1>3, <1>4, <1>5, <1>6 DEF Progress

\* A server that is being connected to stops trying only when its advice says so, whatever
\* is called, fails or is answered (_handleAdvice, _handleTimer, notify_networkConnected).
THEOREM StopsCorrect == Spec => StopsOnlyWhenTold
  <1>1. Inv /\ [Next]_vars =>
          [ Trying(comet) /\ ~Trying(comet') /\ comet'.netstate = "connecting"
                => comet'.advice = "none" ]_vars
    BY CallsTold, EventsTold, ProgressTold DEF Next, Told
  <1> QED
    BY <1>1, Invariant, PTL DEF Spec, StopsOnlyWhenTold

=============================================================================
