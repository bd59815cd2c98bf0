--------------------------------- MODULE Dns ---------------------------------
(***************************************************************************)
(* Names are resolved by a thread of their own (src/jive_dns.c). A task     *)
(* writes a name to a socket pair and waits in dnsQueue (net/DNS.lua); the  *)
(* thread reads it, calls the resolver, which may block, and writes strings *)
(* back; the DNS task reads them and gives the answer to the first task of  *)
(* the queue. Nothing in an answer says what it answers.                    *)
(***************************************************************************)
EXTENDS Integers, Sequences, SequencesExt

CONSTANTS
    Tasks, Hosts,
    Text,           \* strings
    Names,          \* what the resolver may find: [name, alias, ip], each a sequence
                    \* of strings; none is empty
    Nothing,        \* no host, no answer
    MaxRequests     \* bound

Empty == ""     \* ends a list of strings; no error

\* "No recovery" is treated like "Try again", "No data" like "Not found".
Repeated == {"Try again"}
Errors == {"Not found"} \cup Repeated

NamesAssumption ==
    /\ Errors \cup {Empty} \subseteq Text
    /\ \A n \in Names :
        /\ n \in [name : Seq(Text), alias : Seq(Text), ip : Seq(Text)]
        /\ Len(n.name) = 1 /\ Empty \notin Range(n.name) \cup Range(n.alias) \cup Range(n.ip)

VARIABLES
    requests, replies,  \* the socket pair: names, strings
    thread,     \* the thread: the host it has read, the strings it has still to write,
                \* failed_error and whether it is younger than RESOLV_TIMEOUT
    changed,    \* the mtime of resolv.conf is not last_mtime
    dnsQueue,   \* tasks that wait
    reading,    \* what jiveL_dns_read has read, and where in the answer it is
    asked,      \* [Tasks -> the host it waits for]
    got,        \* [Tasks -> its last answer]
    lookups, silent   \* history: [host, answer] of each request, and whether one had none

vars == <<requests, replies, thread, changed, dnsQueue, reading, asked, got, lookups, silent>>
mainVars == <<dnsQueue, reading, asked, got>>

NotReading == [at |-> "nothing", name |-> <<>>, alias |-> <<>>, ip |-> <<>>]
Error(e) == [error |-> e, name |-> <<>>, alias |-> <<>>, ip |-> <<>>]
Found(n) == [error |-> Empty, name |-> n.name, alias |-> n.alias, ip |-> n.ip]

\* An answer as the thread writes it
Strings_NoEnd(n) == <<Empty>> \o n.name \o n.alias \o <<Empty>> \o n.ip
Strings(n) == <<Empty>> \o n.name \o n.alias \o <<Empty>> \o n.ip \o <<Empty>>

-----------------------------------------------------------------------------
(* Tasks, on the main thread *)

\* tohostname, toip: the main thread does nothing else while it reads an answer.
Ask ==
    /\ reading = NotReading /\ Len(lookups) + Len(requests) < MaxRequests
    /\ \E t \in Tasks, h \in Hosts :
        /\ asked[t] = Nothing
        /\ requests' = Append(requests, h)
        /\ dnsQueue' = Append(dnsQueue, t)
        /\ asked' = [asked EXCEPT ![t] = h]
    /\ UNCHANGED <<replies, thread, changed, reading, got, lookups, silent>>

\* The DNS task wakes up the first task that waits.
Wake(answer) ==
    /\ reading' = NotReading
    /\ IF dnsQueue = <<>> THEN UNCHANGED <<dnsQueue, asked, got>>
       ELSE LET t == Head(dnsQueue)
            IN  /\ dnsQueue' = Tail(dnsQueue)
                /\ got' = [got EXCEPT ![t] = [host |-> asked[t], answer |-> answer]]
                /\ asked' = [asked EXCEPT ![t] = Nothing]

\* read_pushstring, once: jiveL_dns_read waits for each string.
Read ==
    /\ replies # <<>> /\ replies' = Tail(replies)
    /\ LET s == Head(replies)
       IN  CASE reading.at = "nothing" ->
                    IF s # Empty THEN Wake(Error(s))
                    ELSE reading' = [reading EXCEPT !.at = "name"] /\ UNCHANGED <<dnsQueue, asked, got>>
             [] reading.at = "name" ->
                    reading' = [reading EXCEPT !.at = "alias", !.name = <<s>>] /\ UNCHANGED <<dnsQueue, asked, got>>
             [] reading.at = "alias" ->
                    /\ reading' = IF s = Empty THEN [reading EXCEPT !.at = "ip"] ELSE [reading EXCEPT !.alias = Append(@, s)]
                    /\ UNCHANGED <<dnsQueue, asked, got>>
             [] reading.at = "ip" ->
                    IF s = Empty THEN Wake(Found(reading))
                    ELSE reading' = [reading EXCEPT !.ip = Append(@, s)] /\ UNCHANGED <<dnsQueue, asked, got>>
    /\ UNCHANGED <<requests, thread, changed, lookups, silent>>

-----------------------------------------------------------------------------
(* The thread *)

Take ==
    /\ thread.host = Nothing /\ thread.out = <<>> /\ requests # <<>>
    /\ requests' = Tail(requests) /\ thread' = [thread EXCEPT !.host = Head(requests)]
    /\ UNCHANGED <<replies, changed, lookups, silent, mainVars>>

Answered(answer, out, failed) ==
    /\ thread' = [host |-> Nothing, out |-> out, failed |-> failed, fresh |-> failed # Empty]
    /\ lookups' = Append(lookups, [host |-> thread.host, answer |-> answer])

\* The last error again, unless it is old or resolv.conf has changed
Repeats == thread.failed # Empty /\ ~changed /\ thread.fresh

Repeat_Silently ==
    /\ thread.host # Nothing /\ Repeats
    /\ thread' = [thread EXCEPT !.host = Nothing]
    /\ lookups' = Append(lookups, [host |-> thread.host, answer |-> Error(thread.failed)])
    /\ UNCHANGED <<requests, replies, changed, silent, mainVars>>

Repeat ==
    /\ thread.host # Nothing /\ Repeats
    /\ thread' = [thread EXCEPT !.host = Nothing, !.out = <<thread.failed>>]
    /\ lookups' = Append(lookups, [host |-> thread.host, answer |-> Error(thread.failed)])
    /\ UNCHANGED <<requests, replies, changed, silent, mainVars>>

\* The resolver answers: resolv.conf is looked at after an error only.
Resolve ==
    /\ thread.host # Nothing /\ ~Repeats
    /\ changed' = IF thread.failed # Empty THEN FALSE ELSE changed
    /\ \/ \E n \in Names : Answered(Found(n), Strings(n), Empty) /\ UNCHANGED silent
       \/ \E e \in Errors : Answered(Error(e), <<e>>, IF e \in Repeated THEN e ELSE Empty) /\ UNCHANGED silent
       \* any other h_errno: nothing is written
       \/ Answered(Nothing, <<>>, Empty) /\ silent' = TRUE
    /\ UNCHANGED <<requests, replies, mainVars>>

\* write_str
Write ==
    /\ thread.out # <<>>
    /\ replies' = Append(replies, Head(thread.out)) /\ thread' = [thread EXCEPT !.out = Tail(@)]
    /\ UNCHANGED <<requests, changed, lookups, silent, mainVars>>

-----------------------------------------------------------------------------

\* RESOLV_TIMEOUT passes
Expire == thread.fresh /\ thread' = [thread EXCEPT !.fresh = FALSE] /\ UNCHANGED <<requests, replies, changed, lookups, silent, mainVars>>

EditResolvConf == ~changed /\ changed' = TRUE /\ UNCHANGED <<requests, replies, thread, lookups, silent, mainVars>>

Init ==
    /\ requests = <<>> /\ replies = <<>> /\ changed = TRUE
    /\ thread = [host |-> Nothing, out |-> <<>>, failed |-> Empty, fresh |-> FALSE]
    /\ dnsQueue = <<>> /\ reading = NotReading
    /\ asked = [t \in Tasks |-> Nothing] /\ got = [t \in Tasks |-> Nothing]
    /\ lookups = <<>> /\ silent = FALSE

Next == Ask \/ Read \/ Take \/ Repeat \/ Resolve \/ Write \/ Expire \/ EditResolvConf

\* The thread runs and resolvers time out; the network thread selects the socket.
Fairness == WF_vars(Read) /\ WF_vars(Take) /\ WF_vars(Repeat) /\ WF_vars(Resolve) /\ WF_vars(Write)

Spec == Init /\ [][Next]_vars /\ Fairness

-----------------------------------------------------------------------------
(* Properties *)

\* The tasks that wait are the requests that are somewhere on the way, in order:
\* nothing else matches answers with tasks.
Pending ==
    LET host == IF thread.host = Nothing THEN <<>> ELSE <<thread.host>>
        asks == [i \in DOMAIN dnsQueue |-> asked[dnsQueue[i]]]
    IN  IsSuffix(host \o requests, asks)

\* "wake up requesting task" (DNS.lua): who is woken up gets the answer to its own request.
WakesRequester ==
    \A t \in Tasks : got[t] # Nothing => \E i \in DOMAIN lookups : lookups[i] = got[t]

\* So it is as long as no lookup ends with an error that the thread does not know, and
\* the answer that is read is then the one that was written, string by string.
AnswersMatch == silent \/ (Pending /\ WakesRequester)

\* Whoever asks is woken up, unless some lookup ends that way.
EveryoneAnswered == \A t \in Tasks : asked[t] # Nothing ~> asked[t] = Nothing \/ silent
=============================================================================
