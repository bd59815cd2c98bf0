---------------------------- MODULE HttpChannel ----------------------------
(***************************************************************************)
(* What SocketHttp promises to the code that fetches with it.               *)
(*                                                                         *)
(* The requests given to one SocketHttp wait in the order of the calls of   *)
(* fetch() and leave that queue only from its front: the oldest one gets    *)
(* its own response, or a number of the oldest ones are cancelled.  Every   *)
(* request gets at most one outcome.                                        *)
(***************************************************************************)
EXTENDS Naturals, Sequences, FiniteSets, SequencesExt

CONSTANT Requests

VARIABLES
    waiting,    \* the requests without an outcome, oldest first
    outcome     \* what has become of each request

vars == <<waiting, outcome>>

Outcomes == {"none", "answered", "cancelled"}

TypeOK == waiting \in Seq(Requests) /\ outcome \in [Requests -> Outcomes]

Init == waiting = <<>> /\ outcome = [r \in Requests |-> "none"]

New(r) == outcome[r] = "none" /\ r \notin Range(waiting)

CancelAll(rs) ==
    outcome' = [r \in Requests |-> IF r \in rs THEN "cancelled" ELSE outcome[r]]

Fetch(r) ==
    /\ New(r)
    /\ waiting' = Append(waiting, r)
    /\ UNCHANGED outcome

\* The connection cannot even be opened: the fetch cancels all that waits.
FetchFails(r) ==
    /\ New(r)
    /\ waiting' = <<>>
    /\ CancelAll(Range(waiting) \cup {r})

\* The oldest is answered; the code it answers may close the connection, which
\* cancels some of the next ones.
Answer ==
    \E n \in 1 .. Len(waiting) :
        /\ waiting' = SubSeq(waiting, n + 1, Len(waiting))
        /\ outcome' = [r \in Requests |->
                         IF r = Head(waiting) THEN "answered"
                         ELSE IF r \in Range(SubSeq(waiting, 2, n)) THEN "cancelled"
                         ELSE outcome[r]]

Cancel ==
    \E n \in 1 .. Len(waiting) :
        /\ waiting' = SubSeq(waiting, n + 1, Len(waiting))
        /\ CancelAll(Range(SubSeq(waiting, 1, n)))

Next ==
    \/ \E r \in Requests : Fetch(r) \/ FetchFails(r)
    \/ Answer
    \/ Cancel

Spec == Init /\ [][Next]_vars

=============================================================================
