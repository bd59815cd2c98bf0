---------------------------- MODULE CometClient ----------------------------
(***************************************************************************)
(* The Comet object of jive/net/Comet.lua and the part of its SlimServer    *)
(* that listens to it, as functions from one object state to the next.      *)
(*                                                                         *)
(* Lua runs a handler to completion, and a handler calls other functions of *)
(* the object (and, through jnt:notify, its listener) in the middle of its  *)
(* own work.  So every function of the source is an operator that takes the *)
(* object as a record and returns the object it leaves behind, and nested   *)
(* calls are nested applications.  Comet.tla makes the actions out of them. *)
(*                                                                         *)
(* Fields: state, active (isactive), clientId, advice (advice.reconnect),  *)
(* reqid, batch, subs, unsubs (pending_unsubs), reqs (pending_reqs), sent  *)
(* (sent_reqs), entries and notify (the notify table of the subscriptions: *)
(* entries are the keys that are not nil), waiting (the notify entries of  *)
(* one-time requests), timer (reconnect_timer armed), idleTimer (armed),   *)
(* idleTriggered, netstate and userRequests (of the SlimServer; the latter *)
(* with the ids it holds), chttp (what the chunked connection is doing),   *)
(* outbox and answers (the request connection: the head of outbox is the   *)
(* request being sent, its tail is the queue of the SocketHttp, answers    *)
(* are responses on their way back).                                       *)
(*                                                                         *)
(* Requests are ordered by their reqid, which grows with every call, so a   *)
(* set of messages stands for the list of them in that order.               *)
(***************************************************************************)
EXTENDS Naturals, Sequences, FiniteSets, FiniteSetsExt

CONSTANTS
    Subs,       \* subscription names, e.g. /slim/serverstatus
    NoSub,      \* the name a plain request carries
    MaxReqId,   \* bound: calls that take a reqid
    MaxCid,     \* bound: client ids the server hands out
    MaxBatch    \* bound: nesting of startBatch

ASSUME NoSubAssumption == NoSub \notin Subs
ASSUME BoundsAssumption == MaxReqId \in Nat /\ MaxCid \in Nat /\ MaxBatch \in Nat

ReqIds == 1 .. MaxReqId
NoCid  == 0
Cids   == 1 .. MaxCid

States    == {"UNCONNECTED", "CONNECTING", "CONNECTED", "UNCONNECTING"}
Advices   == {"retry", "handshake", "none"}
NetStates == {"disconnected", "connecting", "connected"}
Streams   == {"none", "handshake", "connect", "reconnect", "stream"}

\* A subscription the object remembers, a pending unsubscribe, a pending request.
SubRec   == [id : ReqIds, name : Subs, pending : BOOLEAN]
UnsubRec == [id : ReqIds, name : Subs]
ReqRec   == [id : ReqIds, func : BOOLEAN]

\* A message of a batch.  cid is the client id written into it, func says
\* whether the server is asked to acknowledge it.
Message == [kind : {"subscribe", "unsubscribe", "request"}, id : ReqIds,
            name : Subs \cup {NoSub}, cid : Cids, func : BOOLEAN]

Bundle == [kind : {"batch", "disconnect"}, cid : Cids, msgs : SUBSET Message]
Answer == [kind : {"acks", "refused", "disconnected"}, ids : SUBSET ReqIds]

Object ==
    [ state : States, active : BOOLEAN, clientId : Cids \cup {NoCid},
      advice : Advices, reqid : 1 .. (MaxReqId + 1), batch : 0 .. MaxBatch,
      subs : SUBSET SubRec, unsubs : SUBSET UnsubRec, reqs : SUBSET ReqRec,
      sent : SUBSET Message, entries : SUBSET Subs,
      notify : [Subs -> SUBSET ReqIds], waiting : SUBSET ReqIds,
      timer : BOOLEAN, idleTimer : BOOLEAN, idleTriggered : BOOLEAN,
      netstate : NetStates, userRequests : SUBSET ReqIds, chttp : Streams,
      outbox : Seq(Bundle), answers : Seq(Answer) ]

\* Comet:__init() after SlimServer has set the endpoint.
NewObject ==
    [ state |-> "UNCONNECTED", active |-> FALSE, clientId |-> NoCid,
      advice |-> "retry", reqid |-> 1, batch |-> 0,
      subs |-> {}, unsubs |-> {}, reqs |-> {}, sent |-> {}, entries |-> {},
      notify |-> [n \in Subs |-> {}], waiting |-> {},
      timer |-> FALSE, idleTimer |-> FALSE, idleTriggered |-> FALSE,
      netstate |-> "disconnected", userRequests |-> {}, chttp |-> "none",
      outbox |-> <<>>, answers |-> <<>> ]

-----------------------------------------------------------------------------
(* The two connections *)

\* Mutant of Fetch: a busy connection drops the request instead of queueing it.
Fetch_DropsWhenBusy(c, bundle) ==
    IF c.outbox = <<>> THEN [c EXCEPT !.outbox = <<bundle>>] ELSE c

\* rhttp:fetch(): queued behind the request being sent, if there is one.
Fetch(c, bundle) == [c EXCEPT !.outbox = Append(@, bundle)]

\* rhttp:close(): the request being sent and the answers awaited are dropped
\* and the next queued request starts at once.
CloseRequests(c) ==
    [c EXCEPT !.outbox = IF @ = <<>> THEN @ ELSE Tail(@), !.answers = <<>>]

-----------------------------------------------------------------------------
(* Connection state *)

\* Mutant of NotifyDisconnected: an idle server leaves its Comet object active.
NotifyDisconnected_LeavesActive(c) ==
    IF c.idleTriggered
    THEN [c EXCEPT !.netstate = "disconnected", !.idleTriggered = FALSE]
    ELSE [c EXCEPT !.netstate = IF @ = "connected" THEN "connecting" ELSE @]

\* SlimServer:notify_cometDisconnected().  After an idle disconnect the server
\* calls comet:disconnect() from within the notification: the object is
\* UNCONNECTED by then, so all that call does is clear isactive.
NotifyDisconnected(c) ==
    IF c.idleTriggered
    THEN [c EXCEPT !.netstate = "disconnected", !.active = FALSE,
                   !.idleTriggered = FALSE]
    ELSE [c EXCEPT !.netstate = IF @ = "connected" THEN "connecting" ELSE @]

\* _state(self, UNCONNECTED)
ToUnconnected(c) ==
    IF c.state = "UNCONNECTED" THEN c
    ELSE NotifyDisconnected(CloseRequests(
           [c EXCEPT !.timer = FALSE, !.state = "UNCONNECTED", !.chttp = "none"]))

\* _state(self, CONNECTED) and SlimServer:notify_cometConnected()
ToConnected(c) ==
    IF c.state = "CONNECTED" THEN c
    ELSE [c EXCEPT !.timer = FALSE, !.state = "CONNECTED", !.netstate = "connected"]

\* _handshake(): forget the client id and everything that depends on it.
Handshake(c) ==
    IF ~c.active THEN c
    ELSE [c EXCEPT !.subs = {[s EXCEPT !.pending = TRUE] : s \in @},
                   !.sent = {m \in @ : \A s \in c.subs : s.id # m.id},
                   !.clientId = NoCid, !.timer = FALSE,
                   !.state = "CONNECTING", !.chttp = "handshake"]

\* _reconnect(): keep the client id if there is one.
Reconnect(c) ==
    CASE ~c.active             -> c
      [] c.active /\ c.clientId = NoCid -> Handshake(c)
      [] OTHER                 -> [c EXCEPT !.timer = FALSE, !.state = "CONNECTING",
                                            !.chttp = "reconnect"]

\* Mutant of HandleAdvice: only 'retry' arms the reconnect timer.
HandleAdvice_TimerForRetryOnly(c) ==
    IF c.state = "UNCONNECTED" THEN c
    ELSE LET closed == ToUnconnected(c)
         IN  IF c.advice = "none"
             THEN [closed EXCEPT !.clientId = NoCid]
             ELSE [closed EXCEPT !.timer = (c.advice = "retry")]

\* _handleAdvice()
HandleAdvice(c) ==
    IF c.state = "UNCONNECTED" THEN c
    ELSE LET closed == ToUnconnected(c)
         IN  IF c.advice = "none"
             THEN [closed EXCEPT !.clientId = NoCid]
             ELSE [closed EXCEPT !.timer = TRUE]

\* Mutant of HandleTimer: the advice 'handshake' is not acted upon.
HandleTimer_IgnoresHandshake(c) ==
    LET fired == [c EXCEPT !.timer = FALSE]
    IN  IF c.state = "UNCONNECTED" /\ c.advice = "retry" THEN Reconnect(fired) ELSE fired

\* _handleTimer(): the one-shot reconnect timer has fired.
HandleTimer(c) ==
    LET fired == [c EXCEPT !.timer = FALSE]
    IN  CASE c.state # "UNCONNECTED"  -> fired
          [] c.state = "UNCONNECTED" /\ c.advice = "handshake" -> Handshake(fired)
          [] c.state = "UNCONNECTED" /\ c.advice = "retry"     -> Reconnect(fired)
          [] OTHER -> fired

-----------------------------------------------------------------------------
(* Sending *)

UnsubMessages(c) ==
    { [kind |-> "unsubscribe", id |-> u.id, name |-> u.name,
       cid |-> c.clientId, func |-> TRUE] : u \in c.unsubs }

SubMessages(c) ==
    { [kind |-> "subscribe", id |-> s.id, name |-> s.name,
       cid |-> c.clientId, func |-> TRUE] : s \in {t \in c.subs : t.pending} }

RequestMessages(c) ==
    { [kind |-> "request", id |-> r.id, name |-> NoSub,
       cid |-> c.clientId, func |-> r.func] : r \in c.reqs }

PendingMessages(c) == UnsubMessages(c) \cup SubMessages(c) \cup RequestMessages(c)

\* _addPendingRequests(): what is pending is remembered as sent, unless nobody
\* waits for it, and the callbacks are registered.
AddPendingRequests(c) ==
    [c EXCEPT !.unsubs = {}, !.reqs = {},
              !.subs = {[s EXCEPT !.pending = FALSE] : s \in @},
              !.sent = @ \cup {m \in PendingMessages(c) : m.func},
              !.entries = @ \cup {m.name : m \in SubMessages(c)},
              !.notify = [n \in Subs |->
                            @[n] \cup {m.id : m \in {k \in SubMessages(c) : k.name = n}}],
              !.waiting = @ \cup {m.id : m \in {k \in RequestMessages(c) : k.func}}]

\* _sendPendingRequests(), with the messages to send again
SendPendingRequests(c, resend) ==
    LET data == resend \cup PendingMessages(c)
        next == AddPendingRequests(c)
    IN  IF data = {} THEN next
        ELSE Fetch(next, [kind |-> "batch", cid |-> c.clientId, msgs |-> data])

\* What subscribe(), unsubscribe(), request() and endBatch() end with.
SendIfConnected(c) ==
    IF c.state # "CONNECTED" \/ c.batch # 0 THEN c ELSE SendPendingRequests(c, {})

\* Mutant of Connected: only what is pending goes out after a reconnection.
Connected_SendsPendingOnly(c) == ToConnected(SendPendingRequests(c, {}))

\* _connected(): everything unacknowledged goes out again with what is pending.
Connected(c) == ToConnected(SendPendingRequests(c, c.sent))

\* _disconnect()
SendDisconnect(c) ==
    Fetch([c EXCEPT !.subs = {[s EXCEPT !.pending = TRUE] : s \in @},
                    !.sent = {}, !.timer = FALSE, !.state = "UNCONNECTING"],
          [kind |-> "disconnect", cid |-> c.clientId, msgs |-> {}])

-----------------------------------------------------------------------------
(* The object's interface *)

Subscribe(c, name) ==
    SendIfConnected(
        [c EXCEPT !.subs = @ \cup {[id |-> c.reqid, name |-> name, pending |-> TRUE]},
                  !.reqid = @ + 1])

\* unsubscribe(subscription): all callbacks go, but only the first entry of subs.
Unsubscribe(c, name) ==
    LET matching == {s \in c.subs : s.name = name}
        first    == {s \in matching : \A t \in matching : s.id <= t.id}
    IN  SendIfConnected(
            [c EXCEPT !.entries = @ \ {name}, !.notify[name] = {},
                      !.subs = @ \ first,
                      !.unsubs = @ \cup {[id |-> c.reqid, name |-> name]},
                      !.reqid = @ + 1])

\* unsubscribe(subscription, func), and removeCallback(subscription, func): the
\* table that held the callback stays, so unsubscribe returns early.
RemoveCallback(c, name, id) == [c EXCEPT !.notify[name] = @ \ {id}]

\* request(), except for the assertion of _reconnect (see RequestFails).
Request(c, func) ==
    LET queued == [c EXCEPT !.reqs = @ \cup {[id |-> c.reqid, func |-> func]},
                            !.reqid = @ + 1]
        tried  == IF c.state = "UNCONNECTED" THEN Reconnect(queued) ELSE queued
    IN  IF tried.state # "CONNECTED" THEN NotifyDisconnected(tried)
        ELSE SendIfConnected(tried)

\* request() while UNCONNECTING: _reconnect asserts that the object is
\* UNCONNECTED, so the call raises an error after it has queued the request.
RequestFails(c, func) ==
    [c EXCEPT !.reqs = @ \cup {[id |-> c.reqid, func |-> func]}, !.reqid = @ + 1]

StartBatch(c) == [c EXCEPT !.batch = @ + 1]

EndBatch(c) == SendIfConnected([c EXCEPT !.batch = @ - 1])

\* connect()
Connect(c) ==
    LET active == [c EXCEPT !.active = TRUE]
    IN  CASE c.state \in {"CONNECTING", "CONNECTED"} -> active
          [] c.state = "UNCONNECTING" -> Handshake(ToUnconnected(active))
          [] c.state = "UNCONNECTED"  -> Handshake(active)

\* disconnect()
Disconnect(c) ==
    LET inactive == [c EXCEPT !.active = FALSE]
    IN  CASE c.state \in {"UNCONNECTED", "UNCONNECTING"} -> inactive
          [] c.state = "CONNECTING" -> ToUnconnected(inactive)
          [] c.state = "CONNECTED"  -> SendDisconnect(inactive)

\* notify_networkConnected()
NetworkConnected(c) ==
    IF c.state \in {"CONNECTING", "CONNECTED"} THEN Connect(ToUnconnected(c)) ELSE c

\* The callback of the idle timer
IdleTimeout(c) ==
    LET fired == [c EXCEPT !.idleTimer = FALSE]
    IN  IF c.state = "CONNECTED"
        THEN SendDisconnect([fired EXCEPT !.idleTriggered = TRUE])
        ELSE fired

\* removeRequest() for the given ids
RemoveRequests(c, ids) ==
    IF c.state = "CONNECTED" THEN c
    ELSE [c EXCEPT !.sent = {m \in @ : m.id \notin ids},
                   !.reqs = {r \in @ : r.id \notin ids}]

-----------------------------------------------------------------------------
(* The SlimServer *)

\* SlimServer:connect() of a server whose address is known (lastSeen # 0)
ServerConnect(c) ==
    IF c.netstate # "disconnected" THEN c
    ELSE Connect([c EXCEPT !.netstate = "connecting"])

\* SlimServer:disconnect()
ServerDisconnect(c) ==
    IF c.netstate = "disconnected" THEN c
    ELSE Disconnect([c EXCEPT !.netstate = "disconnected"])

\* SlimServer:userRequest(): the id is noted once comet:request() has returned.
UserRequest(c) ==
    LET up == ServerConnect(c)
    IN  IF up.state = "UNCONNECTING" THEN RequestFails(up, TRUE)
        ELSE [Request(up, TRUE) EXCEPT !.userRequests = @ \cup {c.reqid}]

\* SlimServer:request()
BackgroundRequest(c, func) ==
    IF c.state = "UNCONNECTING" THEN RequestFails(c, func) ELSE Request(c, func)

\* SlimServer:removeAllUserRequests()
RemoveAllUserRequests(c) ==
    [RemoveRequests(c, c.userRequests) EXCEPT !.userRequests = {}]

\* SlimServer:reconnect()
ServerReconnect(c) == ServerConnect(ServerDisconnect(c))

-----------------------------------------------------------------------------
(* Answers *)

\* The handshake sink, successful: the client id is rewritten in the responses
\* of the requests to send again (an unsubscribe has none), then _connect().
HandshakeDone(c, cid) ==
    [c EXCEPT !.clientId = cid, !.advice = "retry", !.chttp = "connect",
              !.sent = {IF m.kind = "unsubscribe" THEN m ELSE [m EXCEPT !.cid = cid] : m \in @}]

\* An answer that carries advice and reports a failure.
Refused(c, advice) == HandleAdvice([c EXCEPT !.advice = advice])

\* _response() to a successful /meta/connect or /meta/reconnect
ConnectDone(c) == Connected([c EXCEPT !.advice = "retry", !.chttp = "stream"])

\* _response() for events that carry the id of a request
Acknowledge(c, ids) == [c EXCEPT !.sent = {m \in @ : m.id \notin ids}]

\* _response() to /meta/disconnect
DisconnectDone(c) ==
    IF c.state = "UNCONNECTING" THEN ToUnconnected([c EXCEPT !.clientId = NoCid]) ELSE c

\* Mutant of RequestAnswered: the callback of a one-time request stays registered.
RequestAnswered_KeepsCallback(c, id) == Acknowledge(c, {id})

\* _response() to the answer of a one-time request: its callback is called once.
RequestAnswered(c, id) ==
    [Acknowledge(c, {id}) EXCEPT
        !.waiting = @ \ {id},
        !.userRequests = IF id \in c.waiting THEN @ \ {id} ELSE @]

=============================================================================
