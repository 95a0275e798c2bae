---------------------------- MODULE RequestReply ----------------------------
(***************************************************************************)
(* Concurrent gateway requests talking to the user service over RabbitMQ.  *)
(*                                                                         *)
(* Every gateway request runs in its own goroutine.  It publishes an event *)
(* (SendingToMessage, PublishEvent) and then calls WaitForEvent, which     *)
(* declares a private queue, binds it to the awaited event names, consumes *)
(* it and selects on the first message, or on the timer.  All goroutines   *)
(* share one RabbitMQConnection, hence one channel pointer; WaitForEvent   *)
(* closes the channel it used when it returns, whoever else is using it.   *)
(*                                                                         *)
(* The user service is one goroutine: it takes an event from its durable   *)
(* queue, handles it, publishes the reply and acknowledges the event.  An  *)
(* event whose payload its handler cannot read is acknowledged without a   *)
(* reply.  The service may crash between any two of these steps and is     *)
(* restarted by docker-compose; RabbitMQ then delivers the unacknowledged  *)
(* event again.                                                            *)
(*                                                                         *)
(* A request is identified with its correlation ID.  The broker connection *)
(* itself stays up here.  Channels are numbered in the order of their storing. *)
(***************************************************************************)
EXTENDS EventNames, Integers, Sequences, FiniteSets

CONSTANTS Requests,    \* gateway requests, named by their correlation IDs
          Operations,  \* the operations they ask for
          MaxCrashes   \* bound on the crashes of the user service

\* Correlation IDs are timestamps with a random tail, never event names.
ASSUME RequestsAssumption ==
    Requests \cap (AwaitedEvents \cup {"GetProfileFailed"}) = {}
ASSUME OperationsAssumption == Operations \subseteq ReachableOperations
ASSUME MaxCrashesAssumption == MaxCrashes \in Nat
\* A gateway has served finitely many requests at any time.
ASSUME FiniteRequestsAssumption == IsFiniteSet(Requests)

VARIABLES
    \* the gateway's handlers
    op,         \* operation each request asks for
    unreadable, \* requests whose payload the user service cannot read
    pc,         \* where its goroutine is
    ch,         \* the channel its current call obtained (0: none yet)
    \* the gateway's RabbitMQConnection
    channel,    \* the shared channel pointer
    open,       \* the channels that are open
    opened,     \* how many channels have been opened so far
    lock,       \* who holds the connection's mutex across a step
    \* the reply queues and their consumers
    bound,      \* event names each request's reply queue is bound to
    consuming,  \* requests whose consumer goroutine ranges over deliveries
    replies,    \* deliveries of each reply queue, on the broker or buffered
    inbox,      \* msgChannel of each request: at most one message
    answer,     \* the reply a request returned, as a set
    \* the user service and its queue
    workBound,  \* the durable queue exists and is bound
    workQueue,  \* requests whose event is in it, unacknowledged ones included
    svc,        \* "down", "idle", "handling" or "returned": the handler has
    crashes,    \* crashes of the user service so far
    \* history
    accepted,   \* requests whose event reached the durable queue
    published   \* replies the user service has published

asks        == <<op, unreadable>>
gatewayVars == <<asks, pc, ch>>
connVars    == <<channel, open, opened, lock>>
waiterVars  == <<bound, consuming, replies, inbox, answer>>
serviceVars == <<workBound, workQueue, svc, crashes>>
history     == <<accepted, published>>
vars == <<gatewayVars, connVars, waiterVars, serviceVars, history>>

Labels == {"start", "reopen", "leave", "publish", "getChannel", "open", "return",
           "declare", "bind", "consume", "wait", "answered", "timeout", "error"}
Ended  == {"answered", "timeout", "error"}

\* The operations whose event has a numeric field.  The payload passes through
\* JSON as a generic value, so the greatest ages a client may send come out as
\* floats that do not fit the handler's int.
CarryingAge == {"Register", "UpdateProfile"}

Init ==
    /\ op \in [Requests -> Operations]
    /\ unreadable \in SUBSET {r \in Requests : op[r] \in CarryingAge}
    /\ pc = [r \in Requests |-> "start"]
    /\ ch = [r \in Requests |-> 0]
    /\ channel = 1 /\ open = {1} /\ opened = 1 /\ lock = {}
    /\ bound = [r \in Requests |-> {}]
    /\ consuming = {}
    /\ replies = [r \in Requests |-> << >>]
    /\ inbox = [r \in Requests |-> {}]
    /\ answer = [r \in Requests |-> {}]
    /\ workBound = FALSE /\ workQueue = << >> /\ svc = "down" /\ crashes = 0
    /\ accepted = {} /\ published = {}

-----------------------------------------------------------------------------
(* PublishEvent: GetConnection under the mutex, then publish on the channel *)
(* it returned.  GetConnection reads the shared pointer when it tests it and *)
(* again when it returns it; the mutex does not keep GetChannel from storing *)
(* another channel in between.                                              *)

Goto(r, label) == pc' = [pc EXCEPT ![r] = label]

\* The shared channel is open.
GetConnection(r) ==
    /\ pc[r] = "start" /\ lock = {} /\ channel \in open
    /\ lock' = {r}
    /\ Goto(r, "leave")
    /\ UNCHANGED <<asks, ch, channel, open, opened, waiterVars, serviceVars, history>>

\* Mutant: the test of the channel is dropped, every publish opens its own.
LockToReopenAlways(r) ==
    /\ pc[r] = "start" /\ lock = {}
    /\ lock' = {r}
    /\ Goto(r, "reopen")
    /\ UNCHANGED <<asks, ch, channel, open, opened, waiterVars, serviceVars, history>>

\* It is closed: r asks the broker for a new one.
LockToReopen(r) ==
    /\ pc[r] = "start" /\ lock = {} /\ channel \notin open
    /\ lock' = {r}
    /\ Goto(r, "reopen")
    /\ UNCHANGED <<asks, ch, channel, open, opened, waiterVars, serviceVars, history>>

\* Mutant: a failed conn.Channel() whose nil result is stored all the same.
OpenChannelUnchecked ==
    /\ channel' = 0
    /\ UNCHANGED <<open, opened>>

\* The broker opens a channel, which is stored in the shared pointer.  Nobody
\* else knows of it before, so the two are one step.
OpenChannel ==
    /\ opened' = opened + 1
    /\ open' = open \cup {opened + 1}
    /\ channel' = opened + 1

Reopen(r) ==
    /\ pc[r] = "reopen"
    /\ OpenChannel
    /\ Goto(r, "leave")
    /\ UNCHANGED <<asks, ch, lock, waiterVars, serviceVars, history>>

\* r unlocks and returns what the pointer holds by now.
LeaveConnection(r) ==
    /\ pc[r] = "leave"
    /\ ch' = [ch EXCEPT ![r] = channel]
    /\ lock' = lock \ {r}
    /\ Goto(r, "publish")
    /\ UNCHANGED <<asks, channel, open, opened, waiterVars, serviceVars, history>>

\* The event is routed to the durable queue, or dropped when that is not bound.
Publish(r) ==
    /\ pc[r] = "publish" /\ ch[r] \in open
    /\ IF workBound /\ RequestEvent[op[r]] \in ConsumedEvents
       THEN /\ workQueue' = Append(workQueue, r)
            /\ accepted' = accepted \cup {r}
       ELSE UNCHANGED <<workQueue, accepted>>
    /\ Goto(r, "getChannel")
    /\ UNCHANGED <<asks, ch, connVars, waiterVars, workBound, svc, crashes, published>>

\* Another request closed the channel meanwhile.  The three attempts all use
\* that channel, so the handler returns the error.
PublishFails(r) ==
    /\ pc[r] = "publish" /\ ch[r] \notin open
    /\ Goto(r, "error")
    /\ UNCHANGED <<asks, ch, connVars, waiterVars, serviceVars, history>>

-----------------------------------------------------------------------------
(* WaitForEvent up to its select.  GetChannel does the same as GetConnection *)
(* without the mutex.                                                       *)

GetChannel(r) ==
    /\ pc[r] = "getChannel" /\ channel \in open
    /\ Goto(r, "return")
    /\ UNCHANGED <<asks, ch, connVars, waiterVars, serviceVars, history>>

\* GetChannel found the channel closed and asks the broker for a new one.
SeeClosed(r) ==
    /\ pc[r] = "getChannel" /\ channel \notin open
    /\ Goto(r, "open")
    /\ UNCHANGED <<asks, ch, connVars, waiterVars, serviceVars, history>>

ReplaceChannel(r) ==
    /\ pc[r] = "open"
    /\ OpenChannel
    /\ Goto(r, "return")
    /\ UNCHANGED <<asks, ch, lock, waiterVars, serviceVars, history>>

\* GetChannel returns what the pointer holds by now: the channel r has opened,
\* or one that another request stored over it.
ReturnChannel(r) ==
    /\ pc[r] = "return"
    /\ ch' = [ch EXCEPT ![r] = channel]
    /\ Goto(r, "declare")
    /\ UNCHANGED <<asks, connVars, waiterVars, serviceVars, history>>

\* An exclusive, auto-delete queue the server names; it receives nothing yet.
DeclareQueue(r) ==
    /\ pc[r] = "declare" /\ ch[r] \in open
    /\ Goto(r, "bind")
    /\ UNCHANGED <<asks, ch, connVars, waiterVars, serviceVars, history>>

\* Mutant: the queue is consumed after its first binding.
BindQueueOnce(r) ==
    /\ pc[r] = "bind" /\ ch[r] \in open
    /\ bound' = [bound EXCEPT ![r] = {AwaitedSuccess[op[r]]}]
    /\ Goto(r, "consume")
    /\ UNCHANGED <<asks, ch, connVars, consuming, replies, inbox, answer, serviceVars, history>>

\* One binding at a time: the success event, then the failure event.
BindQueue(r) ==
    /\ pc[r] = "bind" /\ ch[r] \in open
    /\ IF bound[r] = {}
       THEN /\ bound' = [bound EXCEPT ![r] = {AwaitedSuccess[op[r]]}]
            /\ UNCHANGED pc
       ELSE /\ bound' = [bound EXCEPT ![r] = Awaited(op[r])]
            /\ Goto(r, "consume")
    /\ UNCHANGED <<asks, ch, connVars, consuming, replies, inbox, answer, serviceVars, history>>

Consume(r) ==
    /\ pc[r] = "consume" /\ ch[r] \in open
    /\ consuming' = consuming \cup {r}
    /\ Goto(r, "wait")
    /\ UNCHANGED <<asks, ch, connVars, bound, replies, inbox, answer, serviceVars, history>>

\* The channel is closed under the call: WaitForEvent returns the error, and
\* the gateway reports it as a timeout like any other.  A queue that was never
\* consumed has no last consumer to lose, so it stays until the connection ends.
SetupFails(r) ==
    /\ pc[r] \in {"declare", "bind", "consume"} /\ ch[r] \notin open
    /\ Goto(r, "timeout")
    /\ UNCHANGED <<asks, ch, connVars, waiterVars, serviceVars, history>>

-----------------------------------------------------------------------------
(* The consumer goroutine and the select.                                   *)

\* The goroutine takes the next delivery; the first awaited one is passed on
\* and ends it, whichever request it answers.
Deliver(r) ==
    /\ pc[r] = "wait" /\ r \in consuming
    /\ inbox[r] = {} /\ replies[r] # << >>
    /\ replies' = [replies EXCEPT ![r] = Tail(@)]
    /\ inbox' = [inbox EXCEPT ![r] =
                    IF Head(replies[r]).type \in Awaited(op[r])
                    THEN {Head(replies[r])} ELSE {}]
    /\ UNCHANGED <<gatewayVars, connVars, bound, consuming, answer, serviceVars, history>>

\* The deliveries end with the channel; what the client had buffered is lost.
ConsumerEnds(r) ==
    /\ pc[r] = "wait" /\ r \in consuming /\ ch[r] \notin open
    /\ consuming' = consuming \ {r}
    /\ replies' = [replies EXCEPT ![r] = << >>]
    /\ UNCHANGED <<gatewayVars, connVars, bound, inbox, answer, serviceVars, history>>

\* Mutant: the queue is declared without auto-delete.
CloseChannelKeepingQueues(r) ==
    /\ open' = open \ {ch[r]}
    /\ consuming' = consuming \ {r}
    /\ replies' = [replies EXCEPT ![r] = << >>]
    /\ UNCHANGED bound

\* defer ch.Close(): every queue consumed on the channel loses its only
\* consumer and is deleted.  r itself stops consuming.
CloseChannel(r) ==
    /\ open' = open \ {ch[r]}
    /\ bound' = [q \in Requests |->
                    IF q \in consuming /\ ch[q] = ch[r] THEN {} ELSE bound[q]]
    /\ consuming' = consuming \ {r}
    /\ replies' = [replies EXCEPT ![r] = << >>]

Answer(r) ==
    /\ pc[r] = "wait" /\ inbox[r] # {}
    /\ answer' = [answer EXCEPT ![r] = inbox[r]]
    /\ inbox' = [inbox EXCEPT ![r] = {}]
    /\ CloseChannel(r)
    /\ Goto(r, "answered")
    /\ UNCHANGED <<asks, ch, channel, opened, lock, serviceVars, history>>

\* Mutant: the select sits in a loop that arms the timer again.
TimeoutRearmed(r) ==
    /\ pc[r] = "wait"
    /\ UNCHANGED vars

\* Mutant: the timer is not stopped and answers a second time.
TimeoutLate(r) ==
    /\ pc[r] \in {"wait", "answered"}
    /\ CloseChannel(r)
    /\ Goto(r, "timeout")
    /\ UNCHANGED <<asks, ch, channel, opened, lock, inbox, answer, serviceVars, history>>

\* The timer fires.  Go's select picks any ready case, so a message that is
\* already in msgChannel does not prevent it.
Timeout(r) ==
    /\ pc[r] = "wait"
    /\ CloseChannel(r)
    /\ Goto(r, "timeout")
    /\ UNCHANGED <<asks, ch, channel, opened, lock, inbox, answer, serviceVars, history>>

-----------------------------------------------------------------------------
(* The user service.                                                        *)

\* ConsumeEvent: declare the durable queue, bind it, consume it.
StartConsumer ==
    /\ svc = "down"
    /\ workBound' = TRUE
    /\ svc' = "idle"
    /\ UNCHANGED <<gatewayVars, connVars, waiterVars, workQueue, crashes, history>>

\* The next delivery; it stays in the queue until it is acknowledged.
Take ==
    /\ svc = "idle" /\ workQueue # << >>
    /\ svc' = "handling"
    /\ UNCHANGED <<gatewayVars, connVars, waiterVars, workBound, workQueue, crashes, history>>

\* The handler ends with one reply, copied to every queue bound to its type.
Reply ==
    /\ svc = "handling" /\ Head(workQueue) \notin unreadable
    /\ \E m \in Replies(op[Head(workQueue)], Head(workQueue)) :
          /\ published' = published \cup {m}
          /\ replies' = [q \in Requests |->
                            IF m.type \in bound[q] THEN Append(replies[q], m)
                                                   ELSE replies[q]]
    /\ svc' = "returned"
    /\ UNCHANGED <<gatewayVars, connVars, bound, consuming, inbox, answer,
                   workBound, workQueue, crashes, accepted>>

\* The handler cannot read the payload: it returns without a reply.
Ignore ==
    /\ svc = "handling" /\ Head(workQueue) \in unreadable
    /\ svc' = "returned"
    /\ UNCHANGED <<gatewayVars, connVars, waiterVars, workBound, workQueue, crashes, history>>

\* Mutant: d.Ack before the handler, whose event a crash or an early return loses.
AckFirst ==
    /\ svc \in {"handling", "returned"}
    /\ workQueue' = Tail(workQueue)
    /\ svc' = "idle"
    /\ UNCHANGED <<gatewayVars, connVars, waiterVars, workBound, crashes, history>>

Ack ==
    /\ svc = "returned"
    /\ workQueue' = Tail(workQueue)
    /\ svc' = "idle"
    /\ UNCHANGED <<gatewayVars, connVars, waiterVars, workBound, crashes, history>>

\* The process dies; its unacknowledged event goes back to its place.
Crash ==
    /\ svc # "down" /\ crashes < MaxCrashes
    /\ svc' = "down"
    /\ crashes' = crashes + 1
    /\ UNCHANGED <<gatewayVars, connVars, waiterVars, workBound, workQueue, history>>

-----------------------------------------------------------------------------

RequestStep(r) ==
    \/ GetConnection(r) \/ LockToReopen(r) \/ Reopen(r) \/ LeaveConnection(r)
    \/ Publish(r) \/ PublishFails(r)
    \/ GetChannel(r) \/ SeeClosed(r) \/ ReplaceChannel(r) \/ ReturnChannel(r)
    \/ DeclareQueue(r) \/ BindQueue(r) \/ Consume(r) \/ SetupFails(r)
    \/ Deliver(r) \/ ConsumerEnds(r) \/ Answer(r) \/ Timeout(r)

ServiceStep == StartConsumer \/ Take \/ Reply \/ Ignore \/ Ack

\* Every request has ended and the service waits for more.
Quiescent ==
    /\ \A r \in Requests : pc[r] \in Ended
    /\ svc = "idle" /\ workQueue = << >>
    /\ UNCHANGED vars

Next == (\E r \in Requests : RequestStep(r)) \/ ServiceStep \/ Crash \/ Quiescent

\* Goroutines and timers run; the service runs, and is restarted when it dies.
Fairness == (\A r \in Requests : WF_vars(RequestStep(r))) /\ WF_vars(ServiceStep)

Spec == Init /\ [][Next]_vars /\ Fairness

-----------------------------------------------------------------------------
(* Properties.                                                              *)

Messages == UNION {Replies(o, r) : o \in Operations, r \in Requests}

\* Every variable has its type: the labels, the channels opened so far, queues
\* of replies and at most the one buffered message of msgChannel.
TypeOK ==
    /\ op \in [Requests -> Operations] /\ unreadable \subseteq Requests
    /\ pc \in [Requests -> Labels]
    /\ opened \in Nat /\ channel \in 1..opened /\ open \subseteq 1..opened
    /\ ch \in [Requests -> 0..opened]
    /\ lock \subseteq Requests
    /\ bound \in [Requests -> SUBSET AwaitedEvents]
    /\ consuming \subseteq Requests
    /\ replies \in [Requests -> Seq(Messages)]
    /\ inbox \in [Requests -> SUBSET Messages]
    /\ answer \in [Requests -> SUBSET Messages]
    /\ workBound \in BOOLEAN /\ workQueue \in Seq(Requests)
    /\ svc \in {"down", "idle", "handling", "returned"}
    /\ crashes \in 0..MaxCrashes
    /\ accepted \subseteq Requests /\ published \subseteq Messages

Handled(r) == \E m \in published : RepliesTo(m, r)

\* A reply that reaches a request, through whichever queue, binding and channel,
\* was published by the user service for an accepted request of the same
\* operation: a login never returns what a registration was told.
AnswerSameOperation ==
    \A r \in Requests : \A m \in answer[r] :
        /\ m \in published
        /\ \E q \in accepted : m.corr = q /\ op[q] = op[r]

\* Crashes and redelivery lose no event: one that reached the durable queue is
\* still in it or has been replied to (handler before d.Ack in ConsumeEvent).  An
\* event that leaves without a reply is one the handler could not read.
NoEventLost ==
    \A r \in accepted :
        (\E i \in 1..Len(workQueue) : workQueue[i] = r) \/ Handled(r) \/ r \in unreadable

\* A waiter can only go deaf through the shared channel: as long as its channel
\* is open its queue is bound to both awaited events and consumed, and when it
\* is closed some other request that held it has left WaitForEvent.
DeafOnlyByPeer ==
    \A r \in Requests : pc[r] = "wait" =>
        \/ ch[r] \in open /\ r \in consuming /\ bound[r] = Awaited(op[r])
        \/ /\ ch[r] \notin open /\ bound[r] = {}
           /\ \E q \in Requests \ {r} :
                 ch[q] = ch[r] /\ pc[q] \in {"answered", "timeout"}

\* The reply queue of a request that has ended is gone, except when another
\* request closed the channel between its first binding and its Consume.
QueueOutlivesOnlyFailedSetup ==
    \A r \in Requests : pc[r] \in Ended /\ bound[r] # {} =>
        pc[r] = "timeout" /\ r \notin consuming /\ ch[r] \notin open

\* Open channels that nobody will close: no longer shared, and nobody who defers
\* ch.Close() holds them (a publisher closes nothing).
Orphans ==
    {c \in open : c # channel /\
        \A r \in Requests : ~(ch[r] = c /\ pc[r] \in {"declare", "bind", "consume", "wait"})}

\* Two requests that saw the shared channel closed orphan one when each opens its
\* own and both return the one stored last; GetConnection's mutex does not help,
\* as GetChannel ignores it.  But there are only so many: the request that closed
\* the channel first never opens one, and whoever replaces a closed channel orphans
\* nothing.  N requests leave at most N - 2 channels open for good, whatever their
\* order, and two requests none.
OrphansNeedThree ==
    Orphans # {} => Cardinality(Orphans) + 2 <= Cardinality(Requests)

\* Every request ends, deaf or not, however often the service crashes: the timer
\* of WaitForEvent bounds the wait and nobody keeps the mutex.
EveryRequestEnds == \A r \in Requests : <>(pc[r] \in Ended)

\* Every event that reached the durable queue and can be read is eventually handled
\* and replied to, also across crashes and restarts of the service.
AcceptedIsHandled == \A r \in Requests : r \in accepted \ unreadable ~> Handled(r)

\* The round trip implements the contract: every step of a goroutine, of the
\* broker or of the service is a step of the contract or invisible to it, and
\* every request ends.
Outcome == [r \in Requests |-> IF pc[r] \in Ended THEN pc[r] ELSE "pending"]

Contract == INSTANCE RpcContract WITH outcome <- Outcome

ContractSpec == Contract!Spec

\* The service, as the requests see it, is the consumer EventConsumer describes:
\* it handles accepted events in their order, answers each handling once, before it
\* acknowledges the event, takes it up again after a crash, and leaves none without
\* an answer that it can read.
ReplyThat(a, r) == IF a = "success" THEN SuccessReply(op[r], r) ELSE FailureReply(op[r], r)
Reported == [r \in Requests |-> {a \in {"success", "failure"} : ReplyThat(a, r) \in published}]

Consumer == INSTANCE EventConsumer WITH
                sent <- accepted, unreadable <- accepted \cap unreadable,
                queue <- workQueue, state <- svc, answers <- Reported

ConsumerSpec == Consumer!Spec

-----------------------------------------------------------------------------
(* What the repository says of the round trip and the code does not do.     *)

\* The correlation ID is generated to be unique to the request, and travels
\* with its event and with the reply; the reply returned is the request's own.
AnswerIsOwn ==
    \A r \in Requests : \A m \in answer[r] : RepliesTo(m, r)

=============================================================================
