---------------------------- MODULE AccountStore ----------------------------
(***************************************************************************)
(* What the user service promises of the accounts, with handlers, roles'   *)
(* documents, files and the queue left out.  An account never disappears   *)
(* and keeps its ID and its role.  Only a request that asks for one makes  *)
(* an account, under an address that is free; an account only moves to an  *)
(* address that is free.  Every request that can be read is answered, and  *)
(* the answer to one that asks for an account tells whether there is one,  *)
(* unless a crash or a write of unknown outcome came in between.  A        *)
(* garbled request does nothing.                                           *)
(***************************************************************************)
CONSTANT Requests  \* requests, named by their correlation IDs

VARIABLES
    accounts, \* [id, email, role]
    asked,    \* what each request asks for: "none", "account", "other" or, if it
              \* cannot be read, "garbled"
    made,     \* IDs of the accounts each request has made
    answers,  \* the answers each request has got: "success", "failure"
    doubted,  \* requests a crash or a write of unknown outcome has met
    excused   \* addresses need not be free any more

vars == <<accounts, asked, made, answers, doubted, excused>>

Init ==
    /\ \A a, b \in accounts : a.email = b.email \/ a.id = b.id => a = b
    /\ asked = [r \in Requests |-> "none"]
    /\ made = [r \in Requests |-> {}] /\ answers = [r \in Requests |-> {}]
    /\ doubted = {} /\ excused = FALSE

Free(email) == excused \/ \A a \in accounts : a.email # email

Ask(r) ==
    /\ asked[r] = "none"
    /\ \E what \in {"account", "other", "garbled"} : asked' = [asked EXCEPT ![r] = what]
    /\ UNCHANGED <<accounts, made, answers, doubted, excused>>

\* Doubts and the excuse come with any step and stay.
Worse == doubted \subseteq doubted' /\ (excused => excused')

Disturb == Worse /\ UNCHANGED <<accounts, asked, made, answers>>

Create(r) ==
    /\ asked[r] = "account"
    /\ \E a \in accounts' :
          /\ Free(a.email) /\ \A b \in accounts : b.id # a.id
          /\ accounts' = accounts \cup {a}
          /\ made' = [made EXCEPT ![r] = @ \cup {a.id}]
    /\ Worse
    /\ UNCHANGED <<asked, answers>>

Move(r) ==
    /\ asked[r] = "other"
    /\ \E a \in accounts, b \in accounts' :
          /\ b.id = a.id /\ b.role = a.role /\ Free(b.email)
          /\ accounts' = (accounts \ {a}) \cup {b}
    /\ Worse
    /\ UNCHANGED <<asked, made, answers>>

\* The answers that are true.
True(r) ==
    CASE asked[r] \in {"none", "garbled"} -> {}
      [] asked[r] = "other"   -> {"success", "failure"}
      [] asked[r] = "account" -> {o \in {"success", "failure"} :
                                     \/ (o = "success") = (made[r] # {})
                                     \/ o = "failure" /\ r \in doubted}

Answer(r) ==
    /\ \E o \in True(r) : answers' = [answers EXCEPT ![r] = @ \cup {o}]
    /\ UNCHANGED <<accounts, asked, made, doubted, excused>>

FirstAnswer(r) == answers[r] = {} /\ Answer(r)

Next == Disturb \/ \E r \in Requests : Ask(r) \/ Create(r) \/ Move(r) \/ Answer(r)

\* What may happen, and what must.
Safety == Init /\ [][Next]_vars

Spec == Safety /\ \A r \in Requests : WF_vars(FirstAnswer(r))

=============================================================================
