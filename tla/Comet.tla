------------------------------- MODULE Comet -------------------------------
(***************************************************************************)
(* A Comet object, its two HTTP connections and the media server (LMS) at   *)
(* their other end.                                                         *)
(*                                                                         *)
(* One action is one thing the event loop runs to completion: a call of the *)
(* object's interface or of the SlimServer that owns it, a timer, an answer *)
(* reaching a sink, or a connection failing.  The server is external: it    *)
(* hands out client ids, executes the requests it receives, remembers       *)
(* subscriptions per client id and may forget a client id.                  *)
(***************************************************************************)
EXTENDS CometClient

CONSTANT MaxFaults  \* bound: disturbances (see Disturb)

ASSUME FaultsAssumption == MaxFaults \in Nat

VARIABLES
    comet,      \* the Comet object (CometClient!Object)
    nextCid,    \* the server: the client id it hands out next
    known,      \* the server: the client ids it has not forgotten
    subscribed, \* the server: subscriptions per client id
    executed,   \* the server: how often it has executed each request
    results,    \* the server: <<client id, request>> answers not yet streamed
    faults,     \* disturbances so far
    called      \* history: how often the callback of each request ran

server == <<nextCid, known, subscribed, executed, results>>
vars   == <<comet, server, faults, called>>

TypeOK ==
    /\ comet \in Object
    /\ nextCid \in 1 .. (MaxCid + 1)
    /\ known \in SUBSET Cids
    /\ subscribed \in [Cids -> SUBSET Subs]
    /\ executed \in [ReqIds -> Nat]
    /\ results \in SUBSET (Cids \X ReqIds)
    /\ faults \in 0 .. MaxFaults
    /\ called \in [ReqIds -> Nat]

Init ==
    /\ comet = NewObject
    /\ nextCid = 1
    /\ known = {}
    /\ subscribed = [c \in Cids |-> {}]
    /\ executed = [r \in ReqIds |-> 0]
    /\ results = {}
    /\ faults = 0
    /\ called = [r \in ReqIds |-> 0]

-----------------------------------------------------------------------------
(* Calls of the interface *)

HasReqId == comet.reqid <= MaxReqId

Subscribed(name) == \E s \in comet.subs : s.name = name

\* The rest of the program subscribes to a name once (Player:onStage, the
\* SlimServer's constructor) and unsubscribes a name it has subscribed to.
SubscribeCall(name) ==
    /\ HasReqId /\ ~Subscribed(name)
    /\ comet' = Subscribe(comet, name)
    /\ UNCHANGED <<server, faults, called>>

UnsubscribeCall(name) ==
    /\ HasReqId /\ Subscribed(name)
    /\ comet' = Unsubscribe(comet, name)
    /\ UNCHANGED <<server, faults, called>>

RemoveCallbackCall(name) ==
    /\ \E id \in comet.notify[name] : comet' = RemoveCallback(comet, name, id)
    /\ UNCHANGED <<server, faults, called>>

UserRequestCall ==
    /\ HasReqId
    /\ comet' = UserRequest(comet)
    /\ UNCHANGED <<server, faults, called>>

BackgroundRequestCall(func) ==
    /\ HasReqId
    /\ comet' = BackgroundRequest(comet, func)
    /\ UNCHANGED <<server, faults, called>>

RemoveAllUserRequestsCall ==
    /\ comet.userRequests # {}
    /\ comet' = RemoveAllUserRequests(comet)
    /\ UNCHANGED <<server, faults, called>>

StartBatchCall ==
    /\ comet.batch < MaxBatch
    /\ comet' = StartBatch(comet)
    /\ UNCHANGED <<server, faults, called>>

EndBatchCall ==
    /\ comet.batch > 0
    /\ comet' = EndBatch(comet)
    /\ UNCHANGED <<server, faults, called>>

ConnectCall ==
    /\ comet.netstate = "disconnected"
    /\ comet' = ServerConnect(comet)
    /\ UNCHANGED <<server, faults, called>>

\* What makes the object start over is bounded by MaxFaults.
Disturb ==
    /\ faults < MaxFaults
    /\ faults' = faults + 1

DisconnectCall ==
    /\ comet.netstate # "disconnected"
    /\ Disturb
    /\ comet' = ServerDisconnect(comet)
    /\ UNCHANGED <<server, called>>

ReconnectCall ==
    /\ Disturb
    /\ comet' = ServerReconnect(comet)
    /\ UNCHANGED <<server, called>>

\* setIdleTimeout() with a positive timeout, and with zero
SetIdleTimeout(on) ==
    /\ comet.idleTimer # on
    /\ comet' = [comet EXCEPT !.idleTimer = on]
    /\ UNCHANGED <<server, faults, called>>

-----------------------------------------------------------------------------
(* Timers and network events *)

ReconnectTimer ==
    /\ comet.timer
    /\ comet' = HandleTimer(comet)
    /\ UNCHANGED <<server, faults, called>>

IdleTimer ==
    /\ comet.idleTimer
    /\ Disturb
    /\ comet' = IdleTimeout(comet)
    /\ UNCHANGED <<server, called>>

NetworkConnectedEvent ==
    /\ Disturb
    /\ comet' = NetworkConnected(comet)
    /\ UNCHANGED <<server, called>>

\* The chunked connection fails: both its sinks call _handleAdvice (the
\* handshake sink only while CONNECTING, where a handshake always is).
ChunkedFails ==
    /\ comet.chttp # "none"
    /\ Disturb
    /\ comet' = HandleAdvice([comet EXCEPT !.chttp = "none"])
    /\ UNCHANGED <<server, called>>

\* The request connection fails with something in flight: SocketHttp:close(err)
\* starts the next queued request, then calls the sinks of the lost ones.
RequestsFail ==
    /\ comet.outbox # <<>> \/ comet.answers # <<>>
    /\ Disturb
    /\ comet' = HandleAdvice(CloseRequests(comet))
    /\ UNCHANGED <<server, called>>

-----------------------------------------------------------------------------
(* The server, and what it answers *)

AnswerHandshake ==
    /\ comet.chttp = "handshake"
    /\ nextCid \in Cids
    /\ nextCid' = nextCid + 1
    /\ known' = known \cup {nextCid}
    /\ comet' = HandshakeDone(comet, nextCid)
    /\ UNCHANGED <<subscribed, executed, results, faults, called>>

\* The server is not ready, or does not want the client.
RefuseHandshake(advice) ==
    /\ comet.chttp = "handshake"
    /\ Disturb
    /\ comet' = Refused(comet, advice)
    /\ UNCHANGED <<server, called>>

\* /meta/connect and /meta/reconnect
AnswerConnect ==
    /\ comet.chttp \in {"connect", "reconnect"}
    /\ comet' = IF comet.clientId \in known
                THEN ConnectDone(comet)
                ELSE Refused(comet, "handshake")
    /\ UNCHANGED <<server, faults, called>>

\* A client id without a streaming connection is dropped after a while.
ForgetClient(cid) ==
    /\ cid \in known
    /\ ~(comet.chttp = "stream" /\ comet.clientId = cid)
    /\ Disturb
    /\ known' = known \ {cid}
    /\ subscribed' = [subscribed EXCEPT ![cid] = {}]
    /\ results' = {r \in results : r[1] # cid}
    /\ UNCHANGED <<comet, nextCid, executed, called>>

\* The last of the (un)subscribe messages for a name and client id decides.
Decisive(msgs, name, cid) ==
    LET about == {m \in msgs : m.name = name /\ m.cid = cid}
    IN  {m \in about : \A k \in about : k.id <= m.id}

SubscribedAfter(msgs) ==
    [cid \in Cids |->
        IF cid \notin known THEN subscribed[cid]
        ELSE {name \in Subs :
                IF Decisive(msgs, name, cid) = {} THEN name \in subscribed[cid]
                ELSE \E m \in Decisive(msgs, name, cid) : m.kind = "subscribe"}]

\* The request at the head of outbox has been sent; the server handles it.
Serve ==
    /\ comet.outbox # <<>>
    /\ LET bundle   == Head(comet.outbox)
           requests == {m \in bundle.msgs : m.kind = "request"}
           acked    == {m.id : m \in {k \in bundle.msgs : k.func}}
           answer   == CASE bundle.cid \notin known     -> [kind |-> "refused", ids |-> {}]
                         [] bundle.cid \in known /\ bundle.kind = "disconnect"
                                            -> [kind |-> "disconnected", ids |-> {}]
                         [] OTHER -> [kind |-> "acks", ids |-> acked]
       IN  /\ comet' = [comet EXCEPT !.outbox = Tail(@), !.answers = Append(@, answer)]
           /\ CASE answer.kind = "refused" -> UNCHANGED server
                [] answer.kind = "disconnected" ->
                       /\ known' = known \ {bundle.cid}
                       /\ subscribed' = [subscribed EXCEPT ![bundle.cid] = {}]
                       /\ results' = {r \in results : r[1] # bundle.cid}
                       /\ UNCHANGED <<nextCid, executed>>
                [] OTHER ->
                       /\ subscribed' = SubscribedAfter(bundle.msgs)
                       /\ executed' = [r \in ReqIds |->
                             executed[r] + (IF \E m \in requests : m.id = r THEN 1 ELSE 0)]
                       /\ results' = results \cup
                             {<<m.cid, m.id>> : m \in {k \in requests : k.func /\ k.cid \in known}}
                       /\ UNCHANGED <<nextCid, known>>
    /\ UNCHANGED <<faults, called>>

\* The answer to a batch or a disconnect reaches the request sink.
Answered ==
    /\ comet.answers # <<>>
    /\ LET answer == Head(comet.answers)
           rest   == [comet EXCEPT !.answers = Tail(@)]
       IN  comet' = CASE answer.kind = "acks"         -> Acknowledge(rest, answer.ids)
                      [] answer.kind = "refused"      -> Refused(rest, "handshake")
                      [] answer.kind = "disconnected" -> DisconnectDone(rest)
    /\ UNCHANGED <<server, faults, called>>

\* The result of a request arrives on the stream.
ResultArrives(id) ==
    /\ comet.chttp = "stream"
    /\ <<comet.clientId, id>> \in results
    /\ results' = results \ {<<comet.clientId, id>>}
    /\ comet' = RequestAnswered(comet, id)
    /\ called' = [called EXCEPT ![id] = @ + (IF id \in comet.waiting THEN 1 ELSE 0)]
    /\ UNCHANGED <<nextCid, known, subscribed, executed, faults>>

-----------------------------------------------------------------------------
Calls ==
    \/ \E n \in Subs : \/ SubscribeCall(n)
                       \/ UnsubscribeCall(n)
                       \/ RemoveCallbackCall(n)
    \/ UserRequestCall
    \/ \E func \in BOOLEAN : BackgroundRequestCall(func)
    \/ RemoveAllUserRequestsCall
    \/ StartBatchCall
    \/ EndBatchCall
    \/ ConnectCall
    \/ DisconnectCall
    \/ ReconnectCall
    \/ \E on \in BOOLEAN : SetIdleTimeout(on)

Events ==
    \/ ReconnectTimer
    \/ IdleTimer
    \/ NetworkConnectedEvent
    \/ ChunkedFails
    \/ RequestsFail
    \/ \E advice \in Advices : RefuseHandshake(advice)
    \/ \E cid \in Cids : ForgetClient(cid)

Progress ==
    \/ AnswerHandshake
    \/ AnswerConnect
    \/ Serve
    \/ Answered
    \/ \E id \in ReqIds : ResultArrives(id)

Next == Calls \/ Events \/ Progress

Spec == Init /\ [][Next]_vars

\* The event loop keeps running: timers fire, and the server answers what it
\* has received.  Nothing forces a caller to call or a connection to fail.
FairSpec ==
    /\ Spec
    /\ WF_vars(ReconnectTimer)
    /\ WF_vars(AnswerHandshake)
    /\ WF_vars(AnswerConnect)
    /\ WF_vars(Serve)
    /\ WF_vars(Answered)

-----------------------------------------------------------------------------
(* Safety *)

\* The SlimServer's netstate and the Comet object's state are kept in step only
\* by notifications.  A server that says connected has a connected object, or
\* one that an idle timeout is closing; one that says disconnected never has an
\* object that connects (SlimServer.lua: connect, disconnect, notify_comet*).
NetStateAgrees ==
    /\ comet.netstate # "disconnected" <=> comet.active
    /\ comet.netstate = "connected" =>
         \/ comet.state = "CONNECTED"
         \/ comet.state = "UNCONNECTING" /\ comet.idleTriggered
    /\ comet.netstate = "connecting" => comet.state \in {"CONNECTING", "UNCONNECTED"}
    /\ comet.netstate = "disconnected" => comet.state \in {"UNCONNECTING", "UNCONNECTED"}
    /\ comet.idleTriggered => comet.state = "UNCONNECTING"

\* While CONNECTED and not batching, nothing waits to be sent: every call and
\* the end of a batch have flushed what was pending (_sendPendingRequests).
NothingHeldBack ==
    comet.state = "CONNECTED" /\ comet.batch = 0 => PendingMessages(comet) = {}

InFlight(id) ==
    \/ \E i \in DOMAIN comet.outbox :
         \E m \in comet.outbox[i].msgs : m.func /\ m.id = id
    \/ \E i \in DOMAIN comet.answers :
         comet.answers[i].kind = "refused" \/ id \in comet.answers[i].ids

\* While CONNECTED, every request without an acknowledgement is on its way to
\* the server or its answer is on its way back: none is forgotten by a
\* reconnection (_connected sends sent_reqs again).
SentIsInFlight ==
    comet.state = "CONNECTED" => \A m \in comet.sent : InFlight(m.id)

\* However often a request is sent again and executed again, its callback runs
\* at most once (_response removes the notify entry of a one-time request).
CallbackAtMostOnce == \A r \in ReqIds : called[r] <= 1

\* A request without a callback is never sent twice, so the server executes it
\* at most once: it is pending, or in one batch not yet served, or gone.
UnacknowledgedOnce ==
    \A i \in DOMAIN comet.outbox : \A m \in comet.outbox[i].msgs : ~m.func =>
        /\ executed[m.id] = 0
        /\ \A j \in DOMAIN comet.outbox : m \in comet.outbox[j].msgs => i = j
        /\ \A r \in comet.reqs : r.id # m.id

\* A callback registered for a subscription belongs to a subscription that is
\* still wanted, whatever was batched, resent or unsubscribed in between.
NoGhostCallback ==
    \A n \in Subs : \A id \in comet.notify[n] :
        \E s \in comet.subs : s.name = n /\ s.id = id

\* No request is forgotten, waiting to be sent or to be acknowledged.
NothingLost == NothingHeldBack /\ SentIsInFlight

\* What is sent, resent and withdrawn in any order is executed and called back for as
\* often as was asked for.
HandledOnce == CallbackAtMostOnce /\ UnacknowledgedOnce /\ NoGhostCallback

Trying(c) == c.timer \/ c.chttp # "none"

\* A server that is being connected to stops trying (no timer, no connection)
\* only when it was told to by the advice 'none' (_handleAdvice).
StopsOnlyWhenTold ==
    [][ Trying(comet) /\ ~Trying(comet') /\ comet'.netstate = "connecting"
            => comet'.advice = "none" ]_vars

-----------------------------------------------------------------------------
(* Liveness *)

\* Once disturbances end, a server that is connecting and trying gets connected,
\* is disconnected by its owner or is told to stay away.
Settles ==
    comet.netstate = "connecting" /\ Trying(comet)
        ~> comet.netstate # "connecting" \/ comet.advice = "none"

Unacknowledged(id) == \E m \in comet.sent : m.id = id

\* A request that was sent does not stay unacknowledged for ever while the
\* connection is up: it is acknowledged, withdrawn, or the connection goes.
Acknowledged ==
    \A id \in ReqIds :
        Unacknowledged(id) /\ comet.state = "CONNECTED"
            ~> ~Unacknowledged(id) \/ comet.state # "CONNECTED"

-----------------------------------------------------------------------------
(* What the code says of itself and does not do *)

\* subscribe() remembers a subscription "to send during connect now, or if we
\* get disconnected" (Comet.lua:387): while CONNECTED with a client id the server
\* knows, a subscription is pending, on its way, or registered at the server.
NoLostSubscription ==
    comet.state = "CONNECTED" /\ comet.clientId \in known =>
        \A s \in comet.subs :
            \/ s.pending
            \/ s.name \in subscribed[comet.clientId]
            \/ Unacknowledged(s.id)
            \/ InFlight(s.id)

=============================================================================
