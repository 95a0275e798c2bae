---------------------------- MODULE RpcContract -----------------------------
(***************************************************************************)
(* What a gateway request may expect of the round trip through the broker, *)
(* with channels, queues, bindings and crashes left out.  A request ends   *)
(* once, with an answer, a timeout or an error.  An answer is a reply the  *)
(* user service published for a request of the same operation that it had  *)
(* accepted: not necessarily this request, since nothing on the way        *)
(* compares correlation IDs.  A request may end before it is served, and   *)
(* it is served at least once if it was accepted.                          *)
(***************************************************************************)
EXTENDS EventNames

CONSTANTS Requests,   \* requests, named by their correlation IDs
          Operations  \* the operations they ask for

VARIABLES
    op,         \* the operation each request asks for
    accepted,   \* requests the broker has taken for the user service
    published,  \* replies the user service has published
    outcome,    \* "pending", "answered", "timeout" or "error"
    answer      \* the reply an answered request returned, as a set

vars == <<op, accepted, published, outcome, answer>>

Init ==
    /\ op \in [Requests -> Operations]
    /\ accepted = {}
    /\ published = {}
    /\ outcome = [r \in Requests |-> "pending"]
    /\ answer = [r \in Requests |-> {}]

Accept(r) ==
    /\ outcome[r] = "pending"
    /\ accepted' = accepted \cup {r}
    /\ UNCHANGED <<op, published, outcome, answer>>

Serve(r) ==
    /\ r \in accepted
    /\ \E m \in Replies(op[r], r) : published' = published \cup {m}
    /\ UNCHANGED <<op, accepted, outcome, answer>>

Return(r, m) ==
    /\ outcome[r] = "pending"
    /\ m \in published
    /\ \E q \in accepted : op[q] = op[r] /\ m.corr = q
    /\ outcome' = [outcome EXCEPT ![r] = "answered"]
    /\ answer' = [answer EXCEPT ![r] = {m}]
    /\ UNCHANGED <<op, accepted, published>>

GiveUp(r) ==
    /\ outcome[r] = "pending"
    /\ \E o \in {"timeout", "error"} : outcome' = [outcome EXCEPT ![r] = o]
    /\ UNCHANGED <<op, accepted, published, answer>>

End(r) == GiveUp(r) \/ \E m \in published : Return(r, m)

Next == \E r \in Requests : Accept(r) \/ Serve(r) \/ End(r)

Fairness == \A r \in Requests : WF_vars(End(r))

\* What may happen, and what must.
Safety == Init /\ [][Next]_vars

Spec == Safety /\ Fairness

=============================================================================
