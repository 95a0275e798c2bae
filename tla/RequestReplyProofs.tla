------------------------- MODULE RequestReplyProofs -------------------------
(***************************************************************************)
(* Theorems about RequestReply, for any set of requests, any reachable     *)
(* operations and any bound on the crashes.                                *)
(***************************************************************************)
EXTENDS RequestReply, TLAPS

-----------------------------------------------------------------------------
(* The event vocabulary.                                                    *)

\* A reply carries the name of an awaited event only when the operation served
\* is the operation that waits, and then its correlation ID is in its place.
LEMMA AwaitedReply ==
    ASSUME NEW served \in ReachableOperations, NEW waits \in ReachableOperations,
           NEW id \in Requests, NEW m \in Replies(served, id),
           m.type \in Awaited(waits)
    PROVE  served = waits /\ m.corr = id
<1>1. id \notin AwaitedEvents
  BY RequestsAssumption
<1>2. m.type # id
  BY <1>1 DEF AwaitedEvents, ReachableOperations
<1>3. CASE m = SuccessReply(served, id)
  BY <1>3 DEF SuccessReply, SendingToMessage, PublishedSuccess, Awaited, AwaitedSuccess, AwaitedFailure,
              ReachableOperations, OperationNames
<1>4. CASE m = FailureReply(served, id)
  BY <1>2, <1>4 DEF FailureReply, SendingToMessage, PublishedFailure, Awaited, AwaitedSuccess, AwaitedFailure,
                    ReachableOperations, OperationNames
<1> QED BY <1>3, <1>4 DEF Replies

\* What the gateway waits for is part of the vocabulary.
LEMMA AwaitedIsEvent ==
    ASSUME NEW o \in Operations
    PROVE  Awaited(o) \subseteq AwaitedEvents /\ AwaitedSuccess[o] \in AwaitedEvents
BY OperationsAssumption DEF AwaitedEvents, Awaited, ReachableOperations

\* The replies of a request are messages.
LEMMA RepliesAreMessages ==
    ASSUME NEW o \in Operations, NEW r \in Requests
    PROVE  Replies(o, r) \subseteq Messages
BY DEF Messages

\* Every reply answers the request it was made for.
LEMMA ReplyAnswersItsRequest ==
    ASSUME NEW o \in ReachableOperations, NEW r \in Requests, NEW m \in Replies(o, r)
    PROVE  RepliesTo(m, r)
BY DEF Replies, SuccessReply, FailureReply, SendingToMessage, RepliesTo

-----------------------------------------------------------------------------
(* Types.                                                                   *)

\* While the service works on an event, the event is at the head of its queue.
QueueInUse == svc \in {"handling", "returned"} => workQueue # << >>

TypeInv == TypeOK /\ QueueInUse

LEMMA TypeInit == Init => TypeInv
<1> SUFFICES ASSUME Init PROVE TypeInv
  OBVIOUS
<1>1. pc \in [Requests -> Labels]
  BY DEF Init, Labels
<1>2. replies \in [Requests -> Seq(Messages)]
  BY DEF Init
<1>3. crashes \in 0..MaxCrashes
  BY MaxCrashesAssumption DEF Init
<1>4. bound \in [Requests -> SUBSET AwaitedEvents]
  BY DEF Init
<1>5. inbox \in [Requests -> SUBSET Messages] /\ answer \in [Requests -> SUBSET Messages]
  BY DEF Init
<1>6. workQueue \in Seq(Requests) /\ svc = "down"
  BY DEF Init
<1>7. /\ opened \in Nat /\ channel \in 1..opened /\ open \subseteq 1..opened
      /\ ch \in [Requests -> 0..opened]
  BY DEF Init
<1> QED
  BY <1>1, <1>2, <1>3, <1>4, <1>5, <1>6, <1>7 DEF Init, TypeInv, TypeOK, QueueInUse

\* Closing a channel keeps the types of what it touches.
LEMMA CloseTypes ==
    ASSUME TypeOK, NEW r \in Requests, CloseChannel(r)
    PROVE  /\ open' \subseteq 1..opened
           /\ bound' \in [Requests -> SUBSET AwaitedEvents]
           /\ consuming' \subseteq Requests
           /\ replies' \in [Requests -> Seq(Messages)]
<1> USE DEF TypeOK, CloseChannel
<1>1. open' \subseteq 1..opened /\ consuming' \subseteq Requests
  OBVIOUS
<1>2. bound' \in [Requests -> SUBSET AwaitedEvents]
  <2>1. \A q \in Requests :
           (IF q \in consuming /\ ch[q] = ch[r] THEN {} ELSE bound[q]) \in SUBSET AwaitedEvents
    OBVIOUS
  <2> QED BY <2>1
<1>3. replies' \in [Requests -> Seq(Messages)]
  OBVIOUS
<1> QED BY <1>1, <1>2, <1>3

\* A step of a gateway request keeps the types.
LEMMA TypeRequest ==
    ASSUME TypeInv, NEW r \in Requests, RequestStep(r)
    PROVE  TypeInv'
<1> USE DEF TypeInv, TypeOK, QueueInUse, Labels, Goto,
            asks, gatewayVars, connVars, waiterVars, serviceVars, history
<1>1. CASE GetConnection(r)
  BY <1>1 DEF GetConnection
<1>2. CASE LockToReopen(r)
  BY <1>2 DEF LockToReopen
<1>3. CASE Reopen(r)
  BY <1>3 DEF Reopen, OpenChannel
<1>4. CASE Publish(r)
  <2>1. \/ workQueue' = Append(workQueue, r) /\ accepted' = accepted \cup {r}
        \/ workQueue' = workQueue /\ accepted' = accepted
    BY <1>4 DEF Publish
  <2>2. /\ workQueue' \in Seq(Requests) /\ accepted' \subseteq Requests
        /\ svc \in {"handling", "returned"} => workQueue' # << >>
    <3>1. CASE workQueue' = Append(workQueue, r) /\ accepted' = accepted \cup {r}
      BY <3>1
    <3>2. CASE workQueue' = workQueue /\ accepted' = accepted
      BY <3>2
    <3> QED BY <2>1, <3>1, <3>2
  <2>3. pc' \in [Requests -> Labels]
    BY <1>4 DEF Publish
  <2> QED BY <2>1, <2>2, <2>3, <1>4 DEF Publish
<1>5. CASE PublishFails(r)
  BY <1>5 DEF PublishFails
<1>6. CASE GetChannel(r)
  BY <1>6 DEF GetChannel
<1>7. CASE SeeClosed(r)
  BY <1>7 DEF SeeClosed
<1>8. CASE ReplaceChannel(r)
  BY <1>8 DEF ReplaceChannel, OpenChannel
<1>9. CASE DeclareQueue(r)
  BY <1>9 DEF DeclareQueue
<1>10. CASE BindQueue(r)
  <2>1. bound' \in [Requests -> SUBSET AwaitedEvents]
    <3>1. op[r] \in Operations
      OBVIOUS
    <3>2. {AwaitedSuccess[op[r]]} \subseteq AwaitedEvents /\ Awaited(op[r]) \subseteq AwaitedEvents
      BY <3>1, AwaitedIsEvent
    <3>3. \E names \in SUBSET AwaitedEvents : bound' = [bound EXCEPT ![r] = names]
      BY <3>2, <1>10 DEF BindQueue
    <3> QED BY <3>3
  <2>2. pc' \in [Requests -> Labels]
    BY <1>10 DEF BindQueue
  <2> QED BY <2>1, <2>2, <1>10 DEF BindQueue
<1>11. CASE Consume(r)
  BY <1>11 DEF Consume
<1>12. CASE SetupFails(r)
  BY <1>12 DEF SetupFails
<1>13. CASE Deliver(r)
  BY <1>13 DEF Deliver
<1>14. CASE ConsumerEnds(r)
  BY <1>14 DEF ConsumerEnds
<1>15. CASE Answer(r)
  <2>1. inbox' \in [Requests -> SUBSET Messages] /\ answer' \in [Requests -> SUBSET Messages]
    BY <1>15 DEF Answer
  <2> QED BY <2>1, <1>15, CloseTypes DEF Answer
<1>16. CASE Timeout(r)
  BY <1>16, CloseTypes DEF Timeout
<1>17. CASE LeaveConnection(r)
  BY <1>17 DEF LeaveConnection
<1>18. CASE ReturnChannel(r)
  BY <1>18 DEF ReturnChannel
<1> QED
  BY <1>1, <1>2, <1>3, <1>4, <1>5, <1>6, <1>7, <1>8, <1>9, <1>10, <1>11, <1>12, <1>13, <1>14, <1>15, <1>16,
     <1>17, <1>18 DEF RequestStep

\* So does a step of the service, a crash, and standing still.
LEMMA TypeService ==
    ASSUME TypeInv, ServiceStep \/ Crash \/ Quiescent \/ UNCHANGED vars
    PROVE  TypeInv'
<1> USE DEF TypeInv, TypeOK, QueueInUse,
            asks, gatewayVars, connVars, waiterVars, serviceVars, history
<1>1. CASE StartConsumer
  BY <1>1 DEF StartConsumer
<1>2. CASE Take
  BY <1>2 DEF Take
<1>3. CASE Reply
  <2>1. Head(workQueue) \in Requests
    BY <1>3 DEF Reply
  <2>2. Replies(op[Head(workQueue)], Head(workQueue)) \subseteq Messages
    BY <2>1, RepliesAreMessages
  <2> QED BY <1>3, <2>2 DEF Reply
<1>4. CASE Ack
  BY <1>4 DEF Ack
<1>5. CASE Crash
  BY <1>5, MaxCrashesAssumption DEF Crash
<1>6. CASE UNCHANGED vars
  BY <1>6 DEF vars
<1>7. CASE Ignore
  BY <1>7 DEF Ignore
<1> QED
  BY <1>1, <1>2, <1>3, <1>4, <1>5, <1>6, <1>7 DEF ServiceStep, Quiescent

\* Every variable has its type in every reachable state.
THEOREM TypeCorrect == Spec => []TypeOK
<1>1. TypeInv /\ [Next]_vars => TypeInv'
  BY TypeRequest, TypeService DEF Next
<1>2. TypeInv => TypeOK
  BY DEF TypeInv
<1> QED BY TypeInit, <1>1, <1>2, PTL DEF Spec

-----------------------------------------------------------------------------
(* Where a reply comes from.  The invariant follows it back: an answer comes *)
(* out of msgChannel, that out of a reply queue, that only holds published   *)
(* messages of bound names, and every published message answers an accepted  *)
(* request, because the service only works on events of its queue.           *)

Genuine(r, m) == m \in published /\ m.type \in Awaited(op[r])

QueuedIsAccepted   == \A i \in 1..Len(workQueue) : workQueue[i] \in accepted
PublishedHasOrigin == \A m \in published : \E q \in accepted : m \in Replies(op[q], q)
BoundIsAwaited     == \A r \in Requests : bound[r] \subseteq Awaited(op[r])
DeliveredIsGenuine == \A r \in Requests : \A i \in 1..Len(replies[r]) : Genuine(r, replies[r][i])
HeldIsGenuine      == \A r \in Requests : \A m \in inbox[r] \cup answer[r] : Genuine(r, m)

OriginInv ==
    /\ QueuedIsAccepted /\ PublishedHasOrigin
    /\ BoundIsAwaited /\ DeliveredIsGenuine /\ HeldIsGenuine

LEMMA OriginInit == Init => OriginInv
BY DEF Init, OriginInv, QueuedIsAccepted, PublishedHasOrigin, BoundIsAwaited,
       DeliveredIsGenuine, HeldIsGenuine

\* The steps that touch neither the queues nor what they hold.
LEMMA OriginUnchanged ==
    ASSUME OriginInv,
           UNCHANGED <<op, workQueue, accepted, published, bound, replies, inbox, answer>>
    PROVE  OriginInv'
BY DEF OriginInv, QueuedIsAccepted, PublishedHasOrigin, BoundIsAwaited,
       DeliveredIsGenuine, HeldIsGenuine, Genuine

\* A step of a gateway request keeps the origin of every reply.
LEMMA OriginRequest ==
    ASSUME TypeInv, OriginInv, NEW r \in Requests, RequestStep(r)
    PROVE  OriginInv'
<1> USE DEF TypeInv, TypeOK, asks, gatewayVars, connVars, waiterVars, serviceVars, history
<1>1. CASE \/ GetConnection(r) \/ LockToReopen(r) \/ Reopen(r) \/ LeaveConnection(r) \/ PublishFails(r)
           \/ GetChannel(r) \/ SeeClosed(r) \/ ReplaceChannel(r) \/ ReturnChannel(r)
           \/ DeclareQueue(r) \/ Consume(r) \/ SetupFails(r)
  BY <1>1, OriginUnchanged
     DEF GetConnection, LockToReopen, Reopen, LeaveConnection, PublishFails, GetChannel, SeeClosed,
         ReplaceChannel, ReturnChannel, DeclareQueue, Consume, SetupFails
<1>2. CASE Publish(r)
  <2>1. \/ workQueue' = Append(workQueue, r) /\ accepted' = accepted \cup {r}
        \/ workQueue' = workQueue /\ accepted' = accepted
    BY <1>2 DEF Publish
  <2>2. UNCHANGED <<op, published, bound, replies, inbox, answer>>
    BY <1>2 DEF Publish
  <2>3. QueuedIsAccepted'
    <3>1. CASE workQueue' = Append(workQueue, r) /\ accepted' = accepted \cup {r}
      <4>1. \A i \in 1..Len(workQueue') :
               workQueue'[i] = r \/ (i \in 1..Len(workQueue) /\ workQueue'[i] = workQueue[i])
        BY <3>1
      <4> QED BY <3>1, <4>1 DEF OriginInv, QueuedIsAccepted
    <3>2. CASE workQueue' = workQueue /\ accepted' = accepted
      BY <3>2 DEF OriginInv, QueuedIsAccepted
    <3> QED BY <2>1, <3>1, <3>2
  <2>4. PublishedHasOrigin'
    BY <2>1, <2>2 DEF OriginInv, PublishedHasOrigin
  <2> QED
    BY <2>2, <2>3, <2>4
       DEF OriginInv, BoundIsAwaited, DeliveredIsGenuine, HeldIsGenuine, Genuine
<1>3. CASE BindQueue(r)
  <2>1. /\ \/ bound' = [bound EXCEPT ![r] = {AwaitedSuccess[op[r]]}]
           \/ bound' = [bound EXCEPT ![r] = Awaited(op[r])]
        /\ UNCHANGED <<op, workQueue, accepted, published, replies, inbox, answer>>
    BY <1>3 DEF BindQueue
  <2>2. BoundIsAwaited'
    <3>1. {AwaitedSuccess[op[r]]} \subseteq Awaited(op[r])
      BY DEF Awaited
    <3>2. bound'[r] \subseteq Awaited(op[r]) /\ \A q \in Requests \ {r} : bound'[q] = bound[q]
      BY <2>1, <3>1
    <3> QED BY <2>1, <3>2 DEF OriginInv, BoundIsAwaited
  <2> QED
    BY <2>1, <2>2 DEF OriginInv, QueuedIsAccepted, PublishedHasOrigin,
                      DeliveredIsGenuine, HeldIsGenuine, Genuine
<1>4. CASE Deliver(r)
  <2>1. /\ UNCHANGED <<op, workQueue, accepted, published, bound, answer>>
        /\ replies[r] # << >>
        /\ replies' = [replies EXCEPT ![r] = Tail(@)]
        /\ \/ inbox' = [inbox EXCEPT ![r] = {Head(replies[r])}]
           \/ inbox' = [inbox EXCEPT ![r] = {}]
    BY <1>4 DEF Deliver
  <2>2. DeliveredIsGenuine'
    <3>1. \A i \in 1..Len(Tail(replies[r])) : Genuine(r, Tail(replies[r])[i])
      BY <2>1 DEF OriginInv, DeliveredIsGenuine
    <3> QED BY <2>1, <3>1 DEF OriginInv, DeliveredIsGenuine, Genuine
  <2>3. HeldIsGenuine'
    <3>1. Genuine(r, Head(replies[r]))
      BY <2>1 DEF OriginInv, DeliveredIsGenuine
    <3> QED BY <2>1, <3>1 DEF OriginInv, HeldIsGenuine, Genuine
  <2> QED
    BY <2>1, <2>2, <2>3 DEF OriginInv, QueuedIsAccepted, PublishedHasOrigin, BoundIsAwaited
<1>5. CASE ConsumerEnds(r)
  <2>1. /\ UNCHANGED <<op, workQueue, accepted, published, bound, inbox, answer>>
        /\ replies' = [replies EXCEPT ![r] = << >>]
    BY <1>5 DEF ConsumerEnds
  <2>2. DeliveredIsGenuine'
    BY <2>1 DEF OriginInv, DeliveredIsGenuine, Genuine
  <2> QED
    BY <2>1, <2>2 DEF OriginInv, QueuedIsAccepted, PublishedHasOrigin,
                      BoundIsAwaited, HeldIsGenuine, Genuine
<1>6. CASE Answer(r) \/ Timeout(r)
  <2>1. /\ UNCHANGED <<op, workQueue, accepted, published>>
        /\ CloseChannel(r)
        /\ \/ UNCHANGED <<inbox, answer>>
           \/ /\ answer' = [answer EXCEPT ![r] = inbox[r]]
              /\ inbox' = [inbox EXCEPT ![r] = {}]
    BY <1>6 DEF Answer, Timeout
  <2>2. BoundIsAwaited'
    BY <2>1 DEF OriginInv, BoundIsAwaited, CloseChannel
  <2>3. DeliveredIsGenuine'
    BY <2>1 DEF OriginInv, DeliveredIsGenuine, CloseChannel, Genuine
  <2>4. HeldIsGenuine'
    BY <2>1 DEF OriginInv, HeldIsGenuine, Genuine
  <2> QED
    BY <2>1, <2>2, <2>3, <2>4 DEF OriginInv, QueuedIsAccepted, PublishedHasOrigin
<1> QED
  BY <1>1, <1>2, <1>3, <1>4, <1>5, <1>6 DEF RequestStep

\* A reply is published for the accepted event at the head of the queue, and is
\* copied to the queues bound to its name only.
LEMMA OriginReply ==
    ASSUME TypeInv, OriginInv, Reply
    PROVE  OriginInv'
<1> USE DEF TypeInv, TypeOK, asks, gatewayVars, connVars
<1> DEFINE q == Head(workQueue)
<1>1. q \in Requests /\ q \in accepted
  BY DEF Reply, QueueInUse, OriginInv, QueuedIsAccepted
<1>2. PICK m \in Replies(op[q], q) :
         /\ published' = published \cup {m}
         /\ replies' = [p \in Requests |->
                           IF m.type \in bound[p] THEN Append(replies[p], m) ELSE replies[p]]
  BY DEF Reply
<1>3. UNCHANGED <<op, workQueue, accepted, bound, inbox, answer>>
  BY DEF Reply
<1>4. PublishedHasOrigin'
  BY <1>1, <1>2, <1>3 DEF OriginInv, PublishedHasOrigin
<1>5. DeliveredIsGenuine'
  <2> SUFFICES ASSUME NEW p \in Requests, NEW i \in 1..Len(replies'[p])
               PROVE  Genuine(p, replies[p][i])'
    BY DEF DeliveredIsGenuine
  <2>1. CASE m.type \in bound[p]
    <3>1. replies'[p] = Append(replies[p], m) /\ m.type \in Awaited(op[p])
      BY <1>2, <2>1 DEF OriginInv, BoundIsAwaited
    <3>2. replies[p] \in Seq(Messages)
      OBVIOUS
    <3>3. CASE i = Len(replies[p]) + 1
      BY <1>2, <1>3, <3>1, <3>2, <3>3 DEF Genuine
    <3>4. CASE i \in 1..Len(replies[p])
      BY <1>2, <1>3, <3>1, <3>2, <3>4 DEF OriginInv, DeliveredIsGenuine, Genuine
    <3> QED BY <3>1, <3>2, <3>3, <3>4
  <2>2. CASE m.type \notin bound[p]
    BY <1>2, <1>3, <2>2 DEF OriginInv, DeliveredIsGenuine, Genuine
  <2> QED BY <2>1, <2>2
<1>6. HeldIsGenuine'
  BY <1>2, <1>3 DEF OriginInv, HeldIsGenuine, Genuine
<1> QED
  BY <1>3, <1>4, <1>5, <1>6 DEF OriginInv, QueuedIsAccepted, BoundIsAwaited

LEMMA OriginNext == TypeInv /\ OriginInv /\ [Next]_vars => OriginInv'
<1> SUFFICES ASSUME TypeInv, OriginInv, [Next]_vars PROVE OriginInv'
  OBVIOUS
<1> USE DEF asks, gatewayVars, connVars, waiterVars, serviceVars, history
<1>1. CASE StartConsumer \/ Take \/ Ignore \/ Crash \/ UNCHANGED vars
  BY <1>1, OriginUnchanged DEF StartConsumer, Take, Ignore, Crash, vars
<1>2. CASE Ack
  <2>1. QueuedIsAccepted'
    BY <1>2 DEF Ack, TypeInv, TypeOK, QueueInUse, OriginInv, QueuedIsAccepted
  <2> QED
    BY <1>2, <2>1 DEF Ack, OriginInv, PublishedHasOrigin, BoundIsAwaited,
                      DeliveredIsGenuine, HeldIsGenuine, Genuine
<1>3. CASE \E r \in Requests : RequestStep(r)
  BY <1>3, OriginRequest
<1> QED
  BY <1>1, <1>2, <1>3, OriginReply DEF Next, ServiceStep, Quiescent

\* A gateway request that returns an answer returns a reply the user service
\* published for an accepted request of the same operation.
THEOREM AnswersAreOfTheOperation == Spec => []AnswerSameOperation
<1>1. TypeInv /\ [Next]_vars => TypeInv'
  BY TypeRequest, TypeService DEF Next
<1>2. TypeInv /\ OriginInv => AnswerSameOperation
  <2> SUFFICES ASSUME TypeInv, OriginInv, NEW r \in Requests, NEW m \in answer[r]
               PROVE  m \in published /\ \E q \in accepted : m.corr = q /\ op[q] = op[r]
    BY DEF AnswerSameOperation
  <2>1. m \in published /\ m.type \in Awaited(op[r])
    BY DEF OriginInv, HeldIsGenuine, Genuine
  <2>2. PICK q \in accepted : m \in Replies(op[q], q)
    BY <2>1 DEF OriginInv, PublishedHasOrigin
  <2>3. q \in Requests /\ op[q] \in ReachableOperations /\ op[r] \in ReachableOperations
    BY OperationsAssumption DEF TypeInv, TypeOK
  <2>4. op[q] = op[r] /\ m.corr = q
    BY <2>1, <2>2, <2>3, AwaitedReply
  <2> QED BY <2>1, <2>4
<1> QED BY TypeInit, OriginInit, <1>1, <1>2, OriginNext, PTL DEF Spec

-----------------------------------------------------------------------------
(* No accepted event is lost.  The service acknowledges after its handler has *)
(* returned, so the head of the queue may go then: it has a reply, or it could *)
(* not be read.                                                               *)

HeadIsHandled ==
    svc = "returned" => Handled(Head(workQueue)) \/ Head(workQueue) \in unreadable

LossInv == NoEventLost /\ HeadIsHandled

LEMMA LossInit == Init => LossInv
BY DEF Init, LossInv, NoEventLost, HeadIsHandled

\* Once handled, always handled: published replies stay published.
LEMMA HandledStays ==
    ASSUME published \subseteq published', NEW r, Handled(r)
    PROVE  Handled(r)'
BY DEF Handled

LEMMA LossUnchanged ==
    ASSUME LossInv, UNCHANGED <<unreadable, accepted, workQueue, published>>,
           svc' = svc \/ svc' # "returned"
    PROVE  LossInv'
BY DEF LossInv, NoEventLost, HeadIsHandled, Handled

LEMMA LossPublish ==
    ASSUME TypeInv, LossInv, NEW r \in Requests, Publish(r)
    PROVE  LossInv'
<1> USE DEF TypeInv, TypeOK
<1>1. \/ workQueue' = Append(workQueue, r) /\ accepted' = accepted \cup {r}
      \/ workQueue' = workQueue /\ accepted' = accepted
  BY DEF Publish
<1>2. UNCHANGED <<unreadable, svc, published>>
  BY DEF Publish, asks
<1>3. CASE workQueue' = workQueue /\ accepted' = accepted
  BY <1>2, <1>3, LossUnchanged
<1>4. CASE workQueue' = Append(workQueue, r) /\ accepted' = accepted \cup {r}
  <2>1. /\ Len(workQueue') = Len(workQueue) + 1 /\ Len(workQueue) \in Nat
        /\ workQueue'[Len(workQueue) + 1] = r
        /\ \A i \in 1..Len(workQueue) : workQueue'[i] = workQueue[i]
    BY <1>4
  <2>2. NoEventLost'
    <3> SUFFICES ASSUME NEW q \in accepted'
                 PROVE  (\E i \in 1..Len(workQueue') : workQueue'[i] = q) \/ Handled(q)' \/ q \in unreadable'
      BY DEF NoEventLost
    <3>1. CASE q = r
      BY <2>1, <3>1
    <3>2. CASE q # r
      <4>1. (\E i \in 1..Len(workQueue) : workQueue[i] = q) \/ Handled(q) \/ q \in unreadable
        BY <1>4, <3>2 DEF LossInv, NoEventLost
      <4> QED BY <1>2, <2>1, <4>1, HandledStays
    <3> QED BY <3>1, <3>2
  <2>3. HeadIsHandled'
    <3>1. svc = "returned" => Head(workQueue') = Head(workQueue)
      BY <1>4 DEF QueueInUse
    <3> QED BY <1>2, <3>1 DEF LossInv, HeadIsHandled, Handled
  <2> QED BY <2>2, <2>3 DEF LossInv
<1> QED BY <1>1, <1>3, <1>4

LEMMA LossReply ==
    ASSUME TypeInv, LossInv, Reply
    PROVE  LossInv'
<1> USE DEF TypeInv, TypeOK
<1>1. UNCHANGED <<unreadable, workQueue, accepted>>
  BY DEF Reply, gatewayVars, asks
<1>2. Head(workQueue) \in Requests /\ op[Head(workQueue)] \in ReachableOperations
  BY OperationsAssumption DEF Reply, QueueInUse
<1>3. PICK m \in Replies(op[Head(workQueue)], Head(workQueue)) :
         published' = published \cup {m}
  BY DEF Reply
<1>4. Handled(Head(workQueue))'
  BY <1>1, <1>2, <1>3, ReplyAnswersItsRequest DEF Handled
<1>5. NoEventLost'
  BY <1>1, <1>3, HandledStays DEF LossInv, NoEventLost
<1> QED BY <1>1, <1>4, <1>5 DEF LossInv, HeadIsHandled

LEMMA LossAck ==
    ASSUME TypeInv, LossInv, Ack
    PROVE  LossInv'
<1> USE DEF TypeInv, TypeOK
<1>1. /\ workQueue' = Tail(workQueue) /\ workQueue # << >>
      /\ UNCHANGED <<unreadable, accepted, published>> /\ svc' = "idle" /\ svc = "returned"
  BY DEF Ack, QueueInUse, history, gatewayVars, asks
<1>2. NoEventLost'
  <2> SUFFICES ASSUME NEW q \in accepted, ~Handled(q), q \notin unreadable
               PROVE  \E i \in 1..Len(workQueue') : workQueue'[i] = q
    BY <1>1 DEF NoEventLost, Handled
  <2>1. PICK i \in 1..Len(workQueue) : workQueue[i] = q
    BY DEF LossInv, NoEventLost
  <2>2. i # 1
    BY <1>1, <2>1 DEF LossInv, HeadIsHandled
  <2>3. i - 1 \in 1..Len(workQueue') /\ workQueue'[i - 1] = q
    BY <1>1, <2>1, <2>2
  <2> QED BY <2>3
<1> QED BY <1>1, <1>2 DEF LossInv, HeadIsHandled

\* A handler that returns without a reply could not read the event.
LEMMA LossIgnore ==
    ASSUME LossInv, Ignore
    PROVE  LossInv'
BY DEF LossInv, NoEventLost, HeadIsHandled, Handled, Ignore, gatewayVars, asks, history

LEMMA LossNext == TypeInv /\ LossInv /\ [Next]_vars => LossInv'
<1> SUFFICES ASSUME TypeInv, LossInv, [Next]_vars PROVE LossInv'
  OBVIOUS
<1> USE DEF asks, gatewayVars, connVars, waiterVars, serviceVars, history
<1>1. CASE StartConsumer \/ Take \/ Crash \/ UNCHANGED vars
  BY <1>1, LossUnchanged DEF StartConsumer, Take, Crash, vars
<1>2. ASSUME NEW r \in Requests, RequestStep(r) PROVE LossInv'
  <2>1. CASE Publish(r)
    BY <2>1, LossPublish
  <2>2. CASE ~Publish(r)
    BY <1>2, <2>2, LossUnchanged
       DEF RequestStep, GetConnection, LockToReopen, Reopen, LeaveConnection, PublishFails, GetChannel,
           SeeClosed, ReplaceChannel, ReturnChannel, DeclareQueue, BindQueue, Consume, SetupFails,
           Deliver, ConsumerEnds, Answer, Timeout
  <2> QED BY <2>1, <2>2
<1> QED
  BY <1>1, <1>2, LossReply, LossIgnore, LossAck DEF Next, ServiceStep, Quiescent

\* An event that reached the user service's queue is in it until its handler has
\* replied, or has found that it cannot read it, whatever crashes and redeliveries happen in between.
THEOREM EventsAreNotLost == Spec => []NoEventLost
<1>1. TypeInv /\ [Next]_vars => TypeInv'
  BY TypeRequest, TypeService DEF Next
<1>2. LossInv => NoEventLost
  BY DEF LossInv
<1> QED BY TypeInit, LossInit, <1>1, <1>2, LossNext, PTL DEF Spec

-----------------------------------------------------------------------------
(* The shared channel.  Only a request that leaves WaitForEvent closes one,   *)
(* and a queue is deleted with the channel of its consumer; the invariant     *)
(* says what every request's queue looks like on the way to the select.       *)

BeforeBind == {"start", "reopen", "leave", "publish", "getChannel", "open", "return", "declare"}

NotBoundYet    == \A r \in Requests : pc[r] \in BeforeBind \cup {"error"} => bound[r] = {}
NotConsumedYet == \A r \in Requests : pc[r] \in BeforeBind \cup {"bind", "consume"} => r \notin consuming
FullyBound     == \A r \in Requests : pc[r] = "consume" => bound[r] = Awaited(op[r])
EndedIsSilent  == \A r \in Requests : pc[r] \in Ended => r \notin consuming

ChannelInv ==
    /\ NotBoundYet /\ NotConsumedYet /\ FullyBound /\ EndedIsSilent
    /\ DeafOnlyByPeer /\ QueueOutlivesOnlyFailedSetup

LEMMA ChannelInit == Init => ChannelInv
BY DEF Init, ChannelInv, NotBoundYet, NotConsumedYet, FullyBound, EndedIsSilent,
       BeforeBind, Ended, DeafOnlyByPeer, QueueOutlivesOnlyFailedSetup

\* What the steps before the select have in common: they close no channel, and
\* one that opens a channel opens a new one; they touch r alone; and they leave
\* r's queue in one of four conditions.
SetupFrame(r) ==
    /\ op' = op
    /\ pc[r] \in BeforeBind \cup {"bind", "consume"}
    /\ \A q \in Requests \ {r} :
          /\ pc'[q] = pc[q] /\ ch'[q] = ch[q] /\ bound'[q] = bound[q]
          /\ q \in consuming' <=> q \in consuming
    /\ \A c \in 0..opened : c \in open' <=> c \in open

QueueCondition(r) ==
    \/ pc[r] \in BeforeBind \cup {"error"} /\ r \notin consuming /\ bound[r] = {}
    \/ pc[r] = "bind" /\ r \notin consuming
    \/ pc[r] = "consume" /\ r \notin consuming /\ bound[r] = Awaited(op[r])
    \/ pc[r] = "wait" /\ r \in consuming /\ bound[r] = Awaited(op[r]) /\ ch[r] \in open
    \/ pc[r] = "timeout" /\ r \notin consuming /\ ch[r] \notin open

LEMMA ChannelFrame ==
    ASSUME TypeInv, ChannelInv, NEW r \in Requests, SetupFrame(r), QueueCondition(r)'
    PROVE  ChannelInv'
<1> USE DEF TypeInv, TypeOK, ChannelInv, SetupFrame, QueueCondition, BeforeBind, Ended
<1>1. NotBoundYet' /\ NotConsumedYet' /\ FullyBound' /\ EndedIsSilent'
  BY DEF NotBoundYet, NotConsumedYet, FullyBound, EndedIsSilent
<1>2. QueueOutlivesOnlyFailedSetup'
  BY DEF QueueOutlivesOnlyFailedSetup
<1>3. DeafOnlyByPeer'
  <2> SUFFICES ASSUME NEW w \in Requests, pc'[w] = "wait"
               PROVE  \/ ch'[w] \in open' /\ w \in consuming' /\ bound'[w] = Awaited(op'[w])
                      \/ /\ ch'[w] \notin open' /\ bound'[w] = {}
                         /\ \E q \in Requests \ {w} :
                               ch'[q] = ch'[w] /\ pc'[q] \in {"answered", "timeout"}
    BY DEF DeafOnlyByPeer
  <2>1. CASE w = r
    BY <2>1
  <2>2. CASE w # r /\ ch[w] \in open
    BY <2>2 DEF DeafOnlyByPeer
  <2>3. CASE w # r /\ ch[w] \notin open
    <3>1. bound[w] = {}
      BY <2>3 DEF DeafOnlyByPeer
    <3>2. PICK q \in Requests \ {w} : ch[q] = ch[w] /\ pc[q] \in {"answered", "timeout"}
      BY <2>3 DEF DeafOnlyByPeer
    <3>3. q # r
      BY <3>2
    <3> QED BY <2>3, <3>1, <3>2, <3>3
  <2> QED BY <2>1, <2>2, <2>3
<1> QED BY <1>1, <1>2, <1>3

LEMMA ChannelSetup ==
    ASSUME TypeInv, ChannelInv, NEW r \in Requests,
           \/ GetConnection(r) \/ LockToReopen(r) \/ Reopen(r) \/ LeaveConnection(r) \/ Publish(r)
           \/ PublishFails(r) \/ GetChannel(r) \/ SeeClosed(r) \/ ReplaceChannel(r) \/ ReturnChannel(r)
           \/ DeclareQueue(r) \/ BindQueue(r) \/ Consume(r) \/ SetupFails(r)
    PROVE  ChannelInv'
<1> SUFFICES SetupFrame(r) /\ QueueCondition(r)'
  BY ChannelFrame
<1> USE DEF TypeInv, TypeOK, asks, gatewayVars, connVars, waiterVars, serviceVars, history, Goto,
            ChannelInv, NotBoundYet, NotConsumedYet, FullyBound, BeforeBind,
            SetupFrame, QueueCondition
<1>1. CASE GetConnection(r)
  BY <1>1 DEF GetConnection
<1>2. CASE LockToReopen(r)
  BY <1>2 DEF LockToReopen
<1>3. CASE Reopen(r)
  BY <1>3 DEF Reopen, OpenChannel
<1>4. CASE Publish(r)
  BY <1>4 DEF Publish
<1>5. CASE PublishFails(r)
  BY <1>5 DEF PublishFails
<1>6. CASE GetChannel(r)
  BY <1>6 DEF GetChannel
<1>7. CASE SeeClosed(r)
  BY <1>7 DEF SeeClosed
<1>8. CASE ReplaceChannel(r)
  BY <1>8 DEF ReplaceChannel, OpenChannel
<1>9. CASE DeclareQueue(r)
  BY <1>9 DEF DeclareQueue
<1>10. CASE BindQueue(r)
  BY <1>10 DEF BindQueue
<1>11. CASE Consume(r)
  BY <1>11 DEF Consume
<1>12. CASE SetupFails(r)
  BY <1>12 DEF SetupFails
<1>13. CASE LeaveConnection(r)
  BY <1>13 DEF LeaveConnection
<1>14. CASE ReturnChannel(r)
  BY <1>14 DEF ReturnChannel
<1> QED
  BY <1>1, <1>2, <1>3, <1>4, <1>5, <1>6, <1>7, <1>8, <1>9, <1>10, <1>11, <1>12, <1>13, <1>14

\* Leaving the select closes r's channel.  Every request that waits on it loses
\* its queue and goes deaf, and r is the peer that did it.
LEMMA ChannelClose ==
    ASSUME TypeInv, ChannelInv, NEW r \in Requests, Answer(r) \/ Timeout(r)
    PROVE  ChannelInv'
<1> USE DEF TypeInv, TypeOK, ChannelInv, BeforeBind, Ended
<1>1. /\ op' = op /\ ch' = ch /\ pc[r] = "wait" /\ CloseChannel(r)
      /\ pc' = [pc EXCEPT ![r] = pc'[r]] /\ pc'[r] \in {"answered", "timeout"}
  BY DEF asks, Answer, Timeout, Goto
<1>2. bound'[r] = {} /\ r \notin consuming'
  BY <1>1 DEF CloseChannel, DeafOnlyByPeer
<1>3. \A q \in Requests \ {r} :
         /\ pc'[q] = pc[q]
         /\ q \in consuming' <=> q \in consuming
         /\ q \notin consuming => bound'[q] = bound[q]
         /\ ch[q] # ch[r] => bound'[q] = bound[q] /\ (ch'[q] \in open' <=> ch[q] \in open)
         /\ ch[q] = ch[r] /\ q \in consuming => bound'[q] = {}
         /\ ch[q] \notin open => ch'[q] \notin open'
  BY <1>1 DEF CloseChannel
<1>4. NotBoundYet' /\ NotConsumedYet' /\ FullyBound' /\ EndedIsSilent'
  BY <1>1, <1>2, <1>3 DEF NotBoundYet, NotConsumedYet, FullyBound, EndedIsSilent
<1>5. QueueOutlivesOnlyFailedSetup'
  BY <1>1, <1>2, <1>3 DEF QueueOutlivesOnlyFailedSetup, EndedIsSilent
<1>6. DeafOnlyByPeer'
  <2> SUFFICES ASSUME NEW w \in Requests, pc'[w] = "wait"
               PROVE  \/ ch'[w] \in open' /\ w \in consuming' /\ bound'[w] = Awaited(op'[w])
                      \/ /\ ch'[w] \notin open' /\ bound'[w] = {}
                         /\ \E q \in Requests \ {w} :
                               ch'[q] = ch'[w] /\ pc'[q] \in {"answered", "timeout"}
    BY DEF DeafOnlyByPeer
  <2>1. w # r /\ pc[w] = "wait"
    BY <1>1, <1>3
  <2>2. CASE ch[w] = ch[r]
    <3>1. bound'[w] = {}
      BY <1>3, <2>1, <2>2 DEF DeafOnlyByPeer
    <3>2. ch'[w] \notin open'
      BY <1>1, <2>2 DEF CloseChannel
    <3> QED BY <1>1, <2>1, <2>2, <3>1, <3>2
  <2>3. CASE ch[w] # ch[r] /\ ch[w] \in open
    BY <1>1, <1>3, <2>1, <2>3 DEF DeafOnlyByPeer
  <2>4. CASE ch[w] # ch[r] /\ ch[w] \notin open
    <3>1. bound'[w] = {} /\ ch'[w] \notin open'
      BY <1>3, <2>1, <2>4 DEF DeafOnlyByPeer
    <3>2. PICK q \in Requests \ {w} : ch[q] = ch[w] /\ pc[q] \in {"answered", "timeout"}
      BY <2>1, <2>4 DEF DeafOnlyByPeer
    <3>3. q # r
      BY <2>4, <3>2
    <3> QED BY <1>1, <1>3, <3>1, <3>2, <3>3
  <2> QED BY <2>2, <2>3, <2>4
<1> QED BY <1>4, <1>5, <1>6

\* A consumer goroutine ends only on a channel that is closed already.
LEMMA ChannelConsumerEnds ==
    ASSUME TypeInv, ChannelInv, NEW r \in Requests, ConsumerEnds(r)
    PROVE  ChannelInv'
BY DEF TypeInv, TypeOK, ConsumerEnds, ChannelInv, NotBoundYet, NotConsumedYet, FullyBound,
       EndedIsSilent, BeforeBind, Ended, DeafOnlyByPeer, QueueOutlivesOnlyFailedSetup,
       asks, gatewayVars, connVars

LEMMA ChannelUnchanged ==
    ASSUME ChannelInv, UNCHANGED <<op, pc, ch, open, bound, consuming>>
    PROVE  ChannelInv'
BY DEF ChannelInv, NotBoundYet, NotConsumedYet, FullyBound, EndedIsSilent, BeforeBind,
       Ended, DeafOnlyByPeer, QueueOutlivesOnlyFailedSetup

LEMMA ChannelNext == TypeInv /\ ChannelInv /\ [Next]_vars => ChannelInv'
<1> SUFFICES ASSUME TypeInv, ChannelInv, [Next]_vars PROVE ChannelInv'
  OBVIOUS
<1> USE DEF asks, gatewayVars, connVars, waiterVars, serviceVars, history
<1>1. CASE ServiceStep \/ Crash \/ UNCHANGED vars
  BY <1>1, ChannelUnchanged DEF ServiceStep, StartConsumer, Take, Reply, Ignore, Ack, Crash, vars
<1>2. ASSUME NEW r \in Requests, RequestStep(r) PROVE ChannelInv'
  <2>1. CASE Deliver(r)
    BY <2>1, ChannelUnchanged DEF Deliver
  <2> QED
    BY <1>2, <2>1, ChannelSetup, ChannelClose, ChannelConsumerEnds DEF RequestStep
<1> QED BY <1>1, <1>2 DEF Next, Quiescent

\* A waiter goes deaf only because another request that shared its channel left
\* WaitForEvent; until then its queue is bound and consumed.
THEOREM DeafnessComesFromPeers == Spec => []DeafOnlyByPeer
<1>1. TypeInv /\ [Next]_vars => TypeInv'
  BY TypeRequest, TypeService DEF Next
<1>2. ChannelInv => DeafOnlyByPeer
  BY DEF ChannelInv
<1> QED BY TypeInit, ChannelInit, <1>1, <1>2, ChannelNext, PTL DEF Spec

\* The reply queue of a request that has ended is left behind only when its
\* channel was closed between its first binding and its Consume.
THEOREM LeftoverQueues == Spec => []QueueOutlivesOnlyFailedSetup
<1>1. TypeInv /\ [Next]_vars => TypeInv'
  BY TypeRequest, TypeService DEF Next
<1>2. ChannelInv => QueueOutlivesOnlyFailedSetup
  BY DEF ChannelInv
<1> QED BY TypeInit, ChannelInit, <1>1, <1>2, ChannelNext, PTL DEF Spec

-----------------------------------------------------------------------------
(* Refinement.  The pc of a request maps to its outcome; everything between   *)
(* publishing and the select is invisible to the contract.                    *)

\* msgChannel holds at most one message.
SingleMessage == \A r \in Requests : \A m, n \in inbox[r] : m = n

LEMMA SingleNext ==
    /\ Init => SingleMessage
    /\ TypeInv /\ SingleMessage /\ [Next]_vars => SingleMessage'
<1>1. Init => SingleMessage
  BY DEF Init, SingleMessage
<1>2. ASSUME TypeInv, SingleMessage, [Next]_vars PROVE SingleMessage'
  <2> USE DEF TypeInv, TypeOK, asks, gatewayVars, connVars, waiterVars, serviceVars, history
  <2>1. CASE ServiceStep \/ Crash \/ UNCHANGED vars
    BY <1>2, <2>1 DEF SingleMessage, ServiceStep, StartConsumer, Take, Reply, Ignore, Ack, Crash, vars
  <2>2. ASSUME NEW r \in Requests, RequestStep(r) PROVE SingleMessage'
    <3>1. CASE Deliver(r)
      BY <1>2, <3>1 DEF Deliver, SingleMessage
    <3>2. CASE Answer(r)
      BY <1>2, <3>2 DEF Answer, SingleMessage
    <3>3. CASE ~Deliver(r) /\ ~Answer(r)
      BY <1>2, <2>2, <3>3
         DEF SingleMessage, RequestStep, GetConnection, LockToReopen, Reopen, LeaveConnection, Publish,
             PublishFails, GetChannel, SeeClosed, ReplaceChannel, ReturnChannel, DeclareQueue, BindQueue,
             Consume, SetupFails, ConsumerEnds, Timeout
    <3> QED BY <3>1, <3>2, <3>3
  <2> QED BY <1>2, <2>1, <2>2 DEF Next, Quiescent
<1> QED BY <1>1, <1>2

LEMMA ContractInit == Init => Contract!Init
BY DEF Init, Contract!Init, Outcome, Ended

\* A request's outcome moves with its pc, and only when it ends.
LEMMA OutcomeOfGoto ==
    ASSUME TypeInv, NEW r \in Requests, NEW l \in Labels, Goto(r, l), pc[r] \notin Ended
    PROVE  /\ Outcome[r] = "pending"
           /\ l \in Ended => Outcome' = [Outcome EXCEPT ![r] = l]
           /\ l \notin Ended => Outcome' = Outcome
BY DEF TypeInv, TypeOK, Goto, Outcome

LEMMA ContractStutter ==
    ASSUME UNCHANGED <<op, accepted, published, answer>>, Outcome' = Outcome
    PROVE  [Contract!Next]_Contract!vars
BY DEF Contract!vars

LEMMA ContractEnd ==
    ASSUME TypeInv, OriginInv, SingleMessage, AnswerSameOperation', NEW r \in Requests,
           Answer(r) \/ Timeout(r) \/ SetupFails(r) \/ PublishFails(r)
    PROVE  [Contract!Next]_Contract!vars
<1> USE DEF TypeInv, TypeOK, Labels, Ended
<1>1. CASE Timeout(r) \/ SetupFails(r) \/ PublishFails(r)
  <2>1. PICK o \in {"timeout", "error"} : Goto(r, o) /\ pc[r] \notin Ended
    BY <1>1 DEF Timeout, SetupFails, PublishFails
  <2>2. Outcome[r] = "pending" /\ Outcome' = [Outcome EXCEPT ![r] = o]
    BY <2>1, OutcomeOfGoto
  <2>3. UNCHANGED <<op, accepted, published, answer>>
    BY <1>1 DEF asks, Timeout, SetupFails, PublishFails, history, waiterVars
  <2>4. Contract!GiveUp(r)
    BY <2>2, <2>3 DEF Contract!GiveUp
  <2> QED BY <2>4 DEF Contract!Next, Contract!End
<1>2. CASE Answer(r)
  <2>1. PICK m \in inbox[r] : inbox[r] = {m}
    <3>1. PICK m \in inbox[r] : TRUE
      BY <1>2 DEF Answer
    <3>2. \A n \in inbox[r] : n = m
      BY <3>1 DEF SingleMessage
    <3> QED BY <3>1, <3>2
  <2>2. /\ Goto(r, "answered") /\ pc[r] \notin Ended
        /\ answer' = [answer EXCEPT ![r] = {m}]
        /\ UNCHANGED <<op, accepted, published>>
    BY <1>2, <2>1 DEF asks, Answer, history
  <2>3. Outcome[r] = "pending" /\ Outcome' = [Outcome EXCEPT ![r] = "answered"]
    BY <2>2, OutcomeOfGoto
  <2>4. m \in published /\ \E q \in accepted : m.corr = q /\ op[q] = op[r]
    <3>1. m \in answer'[r]
      BY <2>2
    <3> QED BY <2>2, <3>1 DEF AnswerSameOperation
  <2>5. Contract!Return(r, m)
    BY <2>2, <2>3, <2>4 DEF Contract!Return
  <2> QED BY <2>4, <2>5 DEF Contract!Next, Contract!End
<1> QED BY <1>1, <1>2

LEMMA ContractPublish ==
    ASSUME TypeInv, NEW r \in Requests, Publish(r)
    PROVE  [Contract!Next]_Contract!vars
<1>1. Goto(r, "getChannel") /\ pc[r] = "publish" /\ UNCHANGED <<op, published, answer>>
  BY DEF asks, Publish, waiterVars
<1>2. Outcome[r] = "pending" /\ Outcome' = Outcome
  BY <1>1, OutcomeOfGoto DEF Labels, Ended
<1>3. CASE accepted' = accepted \cup {r}
  BY <1>1, <1>2, <1>3 DEF Contract!Next, Contract!Accept
<1>4. CASE accepted' = accepted
  BY <1>1, <1>2, <1>4, ContractStutter
<1> QED BY <1>3, <1>4 DEF Publish

\* The contract speaks of the same replies.
LEMMA SameReplies ==
    ASSUME NEW o, NEW id
    PROVE  Contract!Replies(o, id) = Replies(o, id)
BY DEF Contract!Replies, Contract!SuccessReply, Contract!FailureReply, Contract!SendingToMessage,
       Contract!PublishedSuccess, Contract!PublishedFailure,
       Replies, SuccessReply, FailureReply, SendingToMessage, PublishedSuccess, PublishedFailure

LEMMA ContractReply ==
    ASSUME TypeInv, OriginInv, Reply
    PROVE  [Contract!Next]_Contract!vars
<1>1. Head(workQueue) \in Requests /\ Head(workQueue) \in accepted
  BY DEF TypeInv, TypeOK, QueueInUse, OriginInv, QueuedIsAccepted, Reply
<1>2. /\ \E m \in Replies(op[Head(workQueue)], Head(workQueue)) : published' = published \cup {m}
      /\ UNCHANGED <<op, accepted, answer>> /\ Outcome' = Outcome
  BY DEF Reply, asks, gatewayVars, Outcome
<1> QED BY <1>1, <1>2, SameReplies DEF Contract!Next, Contract!Serve

\* Every other step leaves the contract's state alone.
LEMMA ContractSilent ==
    ASSUME TypeInv, NEW r \in Requests,
           \/ GetConnection(r) \/ LockToReopen(r) \/ Reopen(r) \/ LeaveConnection(r) \/ GetChannel(r)
           \/ SeeClosed(r) \/ ReplaceChannel(r) \/ ReturnChannel(r) \/ DeclareQueue(r) \/ BindQueue(r)
           \/ Consume(r) \/ Deliver(r) \/ ConsumerEnds(r)
    PROVE  [Contract!Next]_Contract!vars
<1> USE DEF asks, gatewayVars, waiterVars, history
<1>1. UNCHANGED <<op, accepted, published, answer>>
  BY DEF GetConnection, LockToReopen, Reopen, LeaveConnection, GetChannel, SeeClosed, ReplaceChannel, ReturnChannel,
         DeclareQueue, BindQueue, Consume, Deliver, ConsumerEnds
<1>2. \/ pc' = pc
      \/ /\ pc[r] \notin Ended
         /\ \E l \in {"reopen", "leave", "publish", "open", "return", "declare", "bind", "consume", "wait"} : Goto(r, l)
  BY DEF GetConnection, LockToReopen, Reopen, LeaveConnection, GetChannel, SeeClosed, ReplaceChannel, ReturnChannel,
         DeclareQueue, BindQueue, Consume, Deliver, ConsumerEnds, Ended
<1>3. Outcome' = Outcome
  BY <1>2, OutcomeOfGoto DEF Outcome, Labels, Ended
<1> QED BY <1>1, <1>3, ContractStutter

LEMMA ContractNext ==
    TypeInv /\ OriginInv /\ SingleMessage /\ AnswerSameOperation' /\ [Next]_vars
        => [Contract!Next]_Contract!vars
<1> SUFFICES ASSUME TypeInv, OriginInv, SingleMessage, AnswerSameOperation', [Next]_vars
             PROVE  [Contract!Next]_Contract!vars
  OBVIOUS
<1>1. ASSUME NEW r \in Requests, RequestStep(r) PROVE [Contract!Next]_Contract!vars
  BY <1>1, ContractEnd, ContractPublish, ContractSilent DEF RequestStep
<1>2. CASE StartConsumer \/ Take \/ Ignore \/ Ack \/ Crash \/ UNCHANGED vars
  <2>1. UNCHANGED <<op, pc, accepted, published, answer>>
    BY <1>2 DEF StartConsumer, Take, Ignore, Ack, Crash, vars, asks, gatewayVars, waiterVars, history
  <2> QED BY <2>1, ContractStutter DEF Outcome
<1> QED
  BY <1>1, <1>2, ContractReply DEF Next, ServiceStep, Quiescent

\* The safety part of the contract holds of the round trip: a request ends once,
\* and an answer is a published reply to an accepted request of its operation.
THEOREM ImplementsContract == Spec => Contract!Safety
<1>1. TypeInv /\ [Next]_vars => TypeInv'
  BY TypeRequest, TypeService DEF Next
<1> QED
  BY TypeInit, OriginInit, SingleNext, ContractInit, <1>1, OriginNext, ContractNext,
     AnswersAreOfTheOperation, PTL DEF Spec, Contract!Safety

-----------------------------------------------------------------------------
(* The service as a consumer of events.                                      *)

\* An event reaches the durable queue at most once: a request publishes once.
PublishesOnce == \A r \in accepted : pc[r] \notin {"start", "reopen", "leave", "publish"}

LEMMA OnceInit == Init => PublishesOnce
BY DEF Init, PublishesOnce

LEMMA OnceNext == TypeInv /\ PublishesOnce /\ [Next]_vars => PublishesOnce'
<1> SUFFICES ASSUME TypeInv, PublishesOnce, [Next]_vars PROVE PublishesOnce'
  OBVIOUS
<1> USE DEF TypeInv, TypeOK, PublishesOnce, asks, gatewayVars, connVars, waiterVars, serviceVars, history
<1>1. CASE ServiceStep \/ Crash \/ UNCHANGED vars
  BY <1>1 DEF ServiceStep, StartConsumer, Take, Reply, Ignore, Ack, Crash, vars
<1>2. ASSUME NEW r \in Requests, RequestStep(r) PROVE PublishesOnce'
  <2>1. CASE Publish(r)
    BY <2>1 DEF Publish, Goto
  <2>2. CASE ~Publish(r)
    <3>1. accepted' = accepted
      BY <1>2, <2>2
         DEF RequestStep, GetConnection, LockToReopen, Reopen, LeaveConnection, PublishFails, GetChannel, SeeClosed,
             ReplaceChannel, ReturnChannel, DeclareQueue, BindQueue, Consume, SetupFails, Deliver, ConsumerEnds,
             Answer, Timeout
    <3>2. \/ pc' = pc
          \/ pc[r] \in {"start", "reopen", "leave", "publish"} /\ \E l \in Labels : Goto(r, l)
          \/ \E l \in Labels \ {"start", "reopen", "leave", "publish"} : Goto(r, l)
      BY <1>2, <2>2
         DEF RequestStep, GetConnection, LockToReopen, Reopen, LeaveConnection, PublishFails, GetChannel, SeeClosed,
             ReplaceChannel, ReturnChannel, DeclareQueue, BindQueue, Consume, SetupFails, Deliver, ConsumerEnds,
             Answer, Timeout, Labels
    <3> QED BY <3>1, <3>2 DEF Goto
  <2> QED BY <2>1, <2>2
<1> QED BY <1>1, <1>2 DEF Next, Quiescent

\* A published reply tells which event it answers, and how.
LEMMA RepliesDiffer ==
    ASSUME TypeOK, NEW a \in {"success", "failure"}, NEW b \in {"success", "failure"},
           NEW q \in Requests, NEW r \in Requests, ReplyThat(a, q) = ReplyThat(b, r)
    PROVE  a = b /\ q = r
<1>1. op[q] \in ReachableOperations /\ op[r] \in ReachableOperations
  BY OperationsAssumption DEF TypeOK
<1>2. \A o \in ReachableOperations :
         /\ PublishedSuccess[o] \in AwaitedEvents
         /\ PublishedFailure[o] \in AwaitedEvents \cup {"GetProfileFailed"}
  BY DEF AwaitedEvents, Awaited, AwaitedSuccess, AwaitedFailure, PublishedSuccess, PublishedFailure,
         ReachableOperations, OperationNames
<1>3. \A o, p \in ReachableOperations : PublishedSuccess[o] # PublishedFailure[p]
  BY DEF PublishedSuccess, PublishedFailure, ReachableOperations, OperationNames
<1>4. \A o \in ReachableOperations :
         /\ PublishedSuccess[o] \notin Requests /\ PublishedFailure[o] \notin Requests
  BY <1>2, RequestsAssumption
<1> DEFINE Type(x, s) == IF x = "success" THEN PublishedSuccess[op[s]]
                         ELSE IF op[s] = "GetProfile" THEN s ELSE PublishedFailure[op[s]]
           Corr(x, s) == IF x = "failure" /\ op[s] = "GetProfile" THEN PublishedFailure[op[s]] ELSE s
<1>5. \A x \in {"success", "failure"}, s \in Requests :
         ReplyThat(x, s).type = Type(x, s) /\ ReplyThat(x, s).corr = Corr(x, s)
  BY DEF ReplyThat, SuccessReply, FailureReply, SendingToMessage
<1>6. Type(a, q) = Type(b, r) /\ Corr(a, q) = Corr(b, r)
  BY <1>5
<1> HIDE DEF Type, Corr
<1>7. CASE a = "failure" /\ op[q] = "GetProfile"
  <2>1. Type(a, q) = q /\ Corr(a, q) \notin Requests
    BY <1>1, <1>4, <1>7 DEF Type, Corr
  <2>2. b = "failure" /\ op[r] = "GetProfile"
    BY <1>6, <2>1 DEF Corr
  <2> QED BY <1>6, <1>7, <2>1, <2>2 DEF Type
<1>8. CASE ~(a = "failure" /\ op[q] = "GetProfile")
  <2>1. Corr(a, q) = q
    BY <1>8 DEF Corr
  <2>2. ~(b = "failure" /\ op[r] = "GetProfile")
    BY <1>1, <1>4, <1>6, <2>1 DEF Corr
  <2>3. q = r
    BY <1>6, <2>1, <2>2 DEF Corr
  <2>4. Type(a, q) = (IF a = "success" THEN PublishedSuccess[op[q]] ELSE PublishedFailure[op[q]])
    BY <1>8 DEF Type
  <2>5. Type(b, r) = (IF b = "success" THEN PublishedSuccess[op[r]] ELSE PublishedFailure[op[r]])
    BY <2>2 DEF Type
  <2> QED BY <1>1, <1>3, <1>6, <2>3, <2>4, <2>5
<1> QED BY <1>7, <1>8

\* The accepted events the service cannot read.
Unreadable == accepted \cap unreadable

LEMMA ConsumerInit == Init => Consumer!Init
BY DEF Init, Consumer!Init, Reported

\* The service's reply is one answer to the event at the head of the queue.
LEMMA ConsumerReply ==
    ASSUME TypeInv, Reply
    PROVE  Consumer!Answer
<1> USE DEF TypeInv, TypeOK
<1> DEFINE h == Head(workQueue)
<1>1. /\ svc = "handling" /\ svc' = "returned" /\ UNCHANGED <<op, unreadable, accepted, workQueue>>
      /\ h \in Requests /\ h \notin unreadable
  BY DEF Reply, QueueInUse, gatewayVars, asks
<1>2. PICK a \in {"success", "failure"} : published' = published \cup {ReplyThat(a, h)}
  BY DEF Reply, Replies, ReplyThat
<1>3. \A r \in Requests, b \in {"success", "failure"} :
         ReplyThat(b, r)' \in published' <=> ReplyThat(b, r) \in published \/ (b = a /\ r = h)
  <2> SUFFICES ASSUME NEW r \in Requests, NEW b \in {"success", "failure"}
               PROVE  ReplyThat(b, r)' \in published' <=> ReplyThat(b, r) \in published \/ (b = a /\ r = h)
    OBVIOUS
  <2>1. ReplyThat(b, r)' = ReplyThat(b, r)
    BY <1>1 DEF ReplyThat
  <2>2. ReplyThat(b, r) = ReplyThat(a, h) => b = a /\ r = h
    BY <1>1, RepliesDiffer
  <2> QED BY <1>2, <2>1, <2>2
<1>4. Reported' = [Reported EXCEPT ![h] = @ \cup {a}]
  <2>1. \A r \in Requests : Reported'[r] = IF r = h THEN Reported[r] \cup {a} ELSE Reported[r]
    BY <1>3 DEF Reported
  <2> QED BY <1>1, <2>1 DEF Reported
<1> QED BY <1>1, <1>4 DEF Consumer!Answer

LEMMA ConsumerNext ==
    TypeInv /\ OriginInv /\ PublishesOnce /\ [Next]_vars => [Consumer!Next]_Consumer!vars
<1> SUFFICES ASSUME TypeInv, OriginInv, PublishesOnce, [Next]_vars
             PROVE  Consumer!Next \/ UNCHANGED Consumer!vars
  BY DEF Consumer!vars
<1> USE DEF asks, gatewayVars, connVars, waiterVars, serviceVars, history
<1>1. ASSUME UNCHANGED <<op, published>> PROVE Reported' = Reported
  BY <1>1 DEF Reported, ReplyThat
<1>2. ASSUME NEW r \in Requests, RequestStep(r)
      PROVE  Consumer!Next \/ UNCHANGED Consumer!vars
  <2>1. UNCHANGED <<op, unreadable, published, svc>>
    BY <1>2
       DEF RequestStep, GetConnection, LockToReopen, Reopen, LeaveConnection, Publish, PublishFails, GetChannel,
           SeeClosed, ReplaceChannel, ReturnChannel, DeclareQueue, BindQueue, Consume, SetupFails, Deliver,
           ConsumerEnds, Answer, Timeout
  <2>2. CASE Publish(r)
    <3>1. r \notin accepted
      BY <2>2 DEF Publish, PublishesOnce
    <3>2. \/ workQueue' = Append(workQueue, r) /\ accepted' = accepted \cup {r}
          \/ workQueue' = workQueue /\ accepted' = accepted
      BY <2>2 DEF Publish
    <3>3. CASE workQueue' = Append(workQueue, r) /\ accepted' = accepted \cup {r}
      <4>1. Unreadable' \in {Unreadable, Unreadable \cup {r}}
        BY <2>1, <3>3 DEF Unreadable
      <4>2. Consumer!Send(r)
        BY <1>1, <2>1, <3>1, <3>3, <4>1 DEF Consumer!Send, Unreadable
      <4> QED BY <4>2 DEF Consumer!Next
    <3>4. CASE workQueue' = workQueue /\ accepted' = accepted
      BY <1>1, <2>1, <3>4 DEF Consumer!vars
    <3> QED BY <3>2, <3>3, <3>4
  <2>3. CASE ~Publish(r)
    <3>1. UNCHANGED <<accepted, workQueue>>
      BY <1>2, <2>3
         DEF RequestStep, GetConnection, LockToReopen, Reopen, LeaveConnection, PublishFails, GetChannel, SeeClosed,
             ReplaceChannel, ReturnChannel, DeclareQueue, BindQueue, Consume, SetupFails, Deliver, ConsumerEnds,
             Answer, Timeout
    <3> QED BY <1>1, <2>1, <3>1 DEF Consumer!vars
  <2> QED BY <2>2, <2>3
<1>3. CASE Reply
  BY <1>3, ConsumerReply DEF Consumer!Next, Consumer!Work
<1>4. CASE StartConsumer \/ Take \/ Ack \/ Crash
  BY <1>1, <1>4
     DEF StartConsumer, Take, Ack, Crash, Consumer!Next, Consumer!Work, Consumer!Start, Consumer!Take,
         Consumer!Acknowledge, Consumer!Crash
<1>6. CASE Ignore
  <2>1. Head(workQueue) \in Requests /\ Head(workQueue) \in accepted
    BY <1>6 DEF Ignore, TypeInv, TypeOK, QueueInUse, OriginInv, QueuedIsAccepted
  <2>2. Consumer!Discard
    BY <1>1, <1>6, <2>1 DEF Ignore, Consumer!Discard
  <2> QED BY <2>2 DEF Consumer!Next, Consumer!Work
<1>5. CASE UNCHANGED vars
  BY <1>1, <1>5 DEF vars, Consumer!vars
<1> QED BY <1>2, <1>3, <1>4, <1>5, <1>6 DEF Next, ServiceStep, Quiescent

\* The service that the requests talk to handles events in their order, answers each
\* handling of a readable one once and acknowledges it then, and repeats it after a crash.
THEOREM ImplementsConsumer == Spec => Consumer!Safety
<1>1. TypeInv /\ [Next]_vars => TypeInv'
  BY TypeRequest, TypeService DEF Next
<1> QED
  BY TypeInit, OriginInit, OnceInit, ConsumerInit, <1>1, OriginNext, OnceNext, ConsumerNext, PTL
     DEF Spec, Consumer!Safety

\* The consequences of that promise are proved once, for all consumers.
Delivery == INSTANCE EventConsumerProofs WITH
                sent <- accepted, unreadable <- accepted \cap unreadable,
                queue <- workQueue, state <- svc, answers <- Reported

\* An accepted event is in the durable queue, has a reply or cannot be read, and the service replies to
\* the events in the order in which the broker took them.
THEOREM RepliesComeInOrder == Spec => [](Consumer!AtLeastOnce /\ Consumer!InOrder)
<1>1. Consumer!Init => Delivery!Init
  BY DEF Consumer!Init, Delivery!Init
<1>2. [Consumer!Next]_Consumer!vars => [Delivery!Next]_Delivery!vars
  BY DEF Consumer!Next, Consumer!vars, Consumer!Send, Consumer!Work, Consumer!Start, Consumer!Take,
         Consumer!Answer, Consumer!Discard, Consumer!Acknowledge, Consumer!Crash,
         Delivery!Next, Delivery!vars, Delivery!Send, Delivery!Work, Delivery!Start, Delivery!Take,
         Delivery!Answer, Delivery!Discard, Delivery!Acknowledge, Delivery!Crash
<1>3. Consumer!Safety => Delivery!Safety
  BY <1>1, <1>2, PTL DEF Consumer!Safety, Delivery!Safety
<1>4. Delivery!Safety => [](Delivery!AtLeastOnce /\ Delivery!OnlySent /\ Delivery!InOrder)
  BY Delivery!DeliveryHolds
<1>5. Delivery!AtLeastOnce /\ Delivery!InOrder => Consumer!AtLeastOnce /\ Consumer!InOrder
  BY DEF Delivery!AtLeastOnce, Delivery!InOrder, Consumer!AtLeastOnce, Consumer!InOrder
<1> QED BY ImplementsConsumer, <1>3, <1>4, <1>5, PTL

=============================================================================
