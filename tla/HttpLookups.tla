---------------------------- MODULE HttpLookups -----------------------------
(***************************************************************************)
(* One SocketHttp (SocketHttp.tla), or tasks that ask for the names of hosts *)
(* as its lookups do (Dns.tla): "moves" says which.                          *)
(***************************************************************************)
EXTENDS SocketHttp

CONSTANTS Askers, Hosts, Text, Names, MaxQuestions    \* see Dns.tla

VARIABLES
    moves, requests, replies, thread, changed, dnsQueue, reading, asked, got, lookups, silent

D == INSTANCE Dns WITH Tasks <- Askers, Nothing <- NoRequest, MaxRequests <- MaxQuestions

ASSUME LookupsAssumption == D!NamesAssumption /\ NoRequest \notin Hosts

\* For a small instance: one host has a name
OneName == {[name |-> <<"n">>, alias |-> <<"m">>, ip |-> <<"1">>]}

dnsVars == <<requests, replies, thread, changed, dnsQueue, reading, asked, got, lookups, silent>>

AllInit == Init /\ D!Init /\ moves \in {"http", "dns"}

AllNext ==
    /\ UNCHANGED moves
    /\ \/ moves = "http" /\ Next /\ UNCHANGED dnsVars
       \/ moves = "dns" /\ D!Next /\ UNCHANGED vars

\* What does not move is never enabled.
AllSpec ==
    AllInit /\ [][AllNext]_<<moves, vars, dnsVars>> /\ HttpFairness /\ D!Fairness

-----------------------------------------------------------------------------
\* An answer of the resolver reaches the task that asked for it; with the type invariant
\* of SocketHttp.
AnswersMatch == TypeOK /\ D!AnswersMatch

\* See Dns.tla.
WakesRequester == D!WakesRequester
EveryoneAnswered == D!EveryoneAnswered
=============================================================================
