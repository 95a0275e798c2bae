--------------------------- MODULE EventConsumer ---------------------------
(***************************************************************************)
(* What ConsumeEvent and the handlers promise together of an event, with   *)
(* what the handlers do, the channels and the replies' names left out.     *)
(* Events wait in a durable queue and are handled one at a time, in their  *)
(* order.  The handling of an event that can be read ends with exactly one *)
(* answer, that of any other with none, and the event leaves the queue     *)
(* after that and not before: a crash repeats the handling, so a readable  *)
(* event is answered at least once, and more often only after a crash.     *)
(*                                                                         *)
(* RequestReply takes this for granted of the service it talks to, and     *)
(* UserAccounts has the handlers that make it so: both implement it.       *)
(***************************************************************************)
EXTENDS Integers, Sequences

CONSTANT Requests  \* events, named by their correlation IDs

VARIABLES
    sent,       \* the events that have reached the queue
    unreadable, \* those among them whose payload no handler can read
    queue,      \* the events not acknowledged yet
    state,      \* "down", "idle", "handling" or "returned"
    answers     \* the answers each event has got: "success", "failure"

vars == <<sent, unreadable, queue, state, answers>>

Init ==
    /\ sent = {} /\ unreadable = {} /\ queue = << >> /\ state = "down"
    /\ answers = [r \in Requests |-> {}]

Send(r) ==
    /\ r \notin sent
    /\ sent' = sent \cup {r}
    /\ unreadable' \in {unreadable, unreadable \cup {r}}
    /\ queue' = Append(queue, r)
    /\ UNCHANGED <<state, answers>>

Start ==
    /\ state = "down"
    /\ state' = "idle"
    /\ UNCHANGED <<sent, unreadable, queue, answers>>

Take ==
    /\ state = "idle" /\ queue # << >>
    /\ state' = "handling"
    /\ UNCHANGED <<sent, unreadable, queue, answers>>

Answer ==
    /\ state = "handling" /\ Head(queue) \notin unreadable
    /\ \E a \in {"success", "failure"} :
          answers' = [answers EXCEPT ![Head(queue)] = @ \cup {a}]
    /\ state' = "returned"
    /\ UNCHANGED <<sent, unreadable, queue>>

Discard ==
    /\ state = "handling" /\ Head(queue) \in unreadable
    /\ state' = "returned"
    /\ UNCHANGED <<sent, unreadable, queue, answers>>

Acknowledge ==
    /\ state = "returned"
    /\ queue' = Tail(queue)
    /\ state' = "idle"
    /\ UNCHANGED <<sent, unreadable, answers>>

Crash ==
    /\ state # "down"
    /\ state' = "down"
    /\ UNCHANGED <<sent, unreadable, queue, answers>>

Work == Start \/ Take \/ Answer \/ Discard \/ Acknowledge

Next == (\E r \in Requests : Send(r)) \/ Work \/ Crash

\* What may happen, and what must.
Safety == Init /\ [][Next]_vars

Spec == Safety /\ WF_vars(Work)

-----------------------------------------------------------------------------

\* At least once: a readable event that reached the queue is in it or has an answer.
AtLeastOnce ==
    \A r \in sent \ unreadable : (\E i \in 1..Len(queue) : queue[i] = r) \/ answers[r] # {}

\* Nothing is answered that was not sent or cannot be read, and what waits was sent.
OnlySent ==
    /\ \A i \in 1..Len(queue) : queue[i] \in sent
    /\ \A r \in (Requests \ sent) \cup unreadable : answers[r] = {}

\* In order: no event is answered before its turn.
InOrder ==
    \A i \in 2..Len(queue) : answers[queue[i]] = {}

=============================================================================
