------------------------------ MODULE RabbitConn ------------------------------
(***************************************************************************)
(* The RabbitMQConnection of one process across broker outages: the boot   *)
(* that dials the broker, the callers of PublishEvent that share the       *)
(* connection under its mutex, the consumer goroutine of ConsumeEvent, and *)
(* the shutdown of the gateway, which closes the connection.               *)
(*                                                                         *)
(* connect() takes the mutex itself.  Boot calls it without holding the    *)
(* mutex, GetConnection calls it while holding it, and a sync.Mutex is not *)
(* reentrant.  A process that exits is started again by docker-compose.    *)
(*                                                                         *)
(* A broken connection is "dead" until the client notices.  Until then     *)
(* IsClosed() is false, a call that waits for the broker's answer hangs,   *)
(* and Publish, which does not wait, returns nil and the event is lost.    *)
(* Publish on a live connection returns nil as well before the event is    *)
(* anywhere: there are no confirms, and an event is not persistent, so an  *)
(* outage can still take it until it has been handled.                     *)
(***************************************************************************)
EXTENDS Integers

CONSTANTS Callers,    \* goroutines that call PublishEvent
          Main,       \* the goroutine that boots the process and stops it
          MaxOutages, \* bound on the outages of the broker and of Redis
          MaxSignals  \* bound on the signals sent to the gateway

ASSUME MainAssumption == Main \notin Callers
ASSUME BoundsAssumption == MaxOutages \in Nat /\ MaxSignals \in Nat

Procs == Callers \cup {Main}

\* connect dials three times before it gives up.
Attempts == 3

VARIABLES
    process,   \* whose connection this is: "gateway" or "user-service"
    broker,    \* "up" or "down"
    outages,   \* outages so far
    signals,   \* SIGINTs and SIGTERMs so far
    conn,      \* rmq.conn: "nil", "open", "dead" (broken, unnoticed) or "closed"
    channel,   \* rmq.channel: "nil", "open" or "closed"
    mu,        \* the goroutine that holds rmq.mu, as a set
    pc,        \* where each goroutine is
    attempt,   \* dials that have failed in the running connect
    consumer,  \* the consumer goroutine: "none", "ranging" or "ended"
    \* history, of the current call of each caller
    flying,    \* its event was sent, PublishEvent returned nil, nobody has handled it yet
    cut,       \* an outage began between the answer to its ExchangeDeclare and the
               \* handling of its event
    lost       \* an outage took its event and PublishEvent returned nil

history == <<flying, cut, lost>>
link == <<process, broker, outages, signals>>
vars == <<link, conn, channel, mu, pc, attempt, consumer, history>>

FirstLabel == IF process = "gateway" THEN "redis" ELSE "connect"

Init ==
    /\ process \in {"gateway", "user-service"}
    /\ broker \in {"up", "down"} /\ outages = 0 /\ signals = 0
    /\ conn = "nil" /\ channel = "nil" /\ mu = {}
    /\ pc = [p \in Procs |-> IF p = Main THEN FirstLabel ELSE "idle"]
    /\ attempt = 0 /\ consumer = "none"
    /\ flying = {} /\ cut = {} /\ lost = {}

Goto(p, label) == pc' = [pc EXCEPT ![p] = label]

Serving  == pc[Main] = "serving"
Alive    == pc[Main] \in {"serving", "draining", "close"}
Consumes == process = "user-service"

-----------------------------------------------------------------------------
(* connect                                                                  *)

\* Mutant: a reentrant mutex, which lets its holder in again.
LockInConnectReentrant(p) ==
    /\ pc[p] = "connect" /\ mu \subseteq {p}
    /\ mu' = {p} /\ attempt' = 0
    /\ Goto(p, "dial")
    /\ UNCHANGED <<link, conn, channel, consumer, history>>

\* rmq.mu.Lock() at the top of connect, whoever called it.
LockInConnect(p) ==
    /\ pc[p] = "connect" /\ mu = {}
    /\ mu' = {p} /\ attempt' = 0
    /\ Goto(p, "dial")
    /\ UNCHANGED <<link, conn, channel, consumer, history>>

Dial(p) ==
    /\ pc[p] = "dial" /\ broker = "up"
    /\ conn' = "open"
    /\ Goto(p, "channel")
    /\ UNCHANGED <<link, channel, mu, attempt, consumer, history>>

\* Mutant: NewRabbitMQConnection drops the error and boot goes on without.
ConnectFailedIgnored(p) == "idle"

\* What the caller of connect does with its error: boot exits the process.
ConnectFailed(p) == IF p = Main THEN "exit" ELSE "idle"

\* Mutant: the loop dials until it gets through.
DialFailsForever(p) ==
    /\ pc[p] = "dial" /\ broker = "down"
    /\ attempt' = attempt + 1
    /\ conn' = "nil"
    /\ UNCHANGED <<link, channel, mu, pc, consumer, history>>

\* A dial that fails is repeated; connect returns an error after the last one.
DialFails(p) ==
    /\ pc[p] = "dial" /\ broker = "down"
    /\ attempt' = attempt + 1
    /\ IF attempt' < Attempts
       THEN UNCHANGED <<pc, mu>>
       ELSE Goto(p, ConnectFailed(p)) /\ mu' = {}
    /\ conn' = "nil"
    /\ UNCHANGED <<link, channel, consumer, history>>

\* The first channel on the new connection, and the deferred Unlock.
FirstChannel(p) ==
    /\ pc[p] = "channel" /\ conn # "dead"
    /\ IF conn = "open"
       THEN channel' = "open" /\ Goto(p, IF p = Main THEN "exchange" ELSE "reopen")
       ELSE Goto(p, ConnectFailed(p)) /\ channel' = "nil"
    /\ mu' = {}
    /\ UNCHANGED <<link, conn, attempt, consumer, history>>

-----------------------------------------------------------------------------
(* The process: boot, consumer, shutdown, exit and restart.                 *)

\* InitRedis pings Redis and ends the gateway if that fails.
InitRedis ==
    /\ pc[Main] = "redis"
    /\ \/ Goto(Main, "connect") /\ UNCHANGED outages
       \/ Goto(Main, "exit") /\ outages < MaxOutages /\ outages' = outages + 1
    /\ UNCHANGED <<process, broker, signals, conn, channel, mu, attempt, consumer, history>>

DeclareExchange ==
    /\ pc[Main] = "exchange" /\ conn # "dead"
    /\ Goto(Main, IF channel = "open" THEN "serving" ELSE "exit")
    /\ UNCHANGED <<link, conn, channel, mu, attempt, consumer, history>>

\* ConsumeEvent, up to its goroutine.
StartConsumer ==
    /\ Serving /\ Consumes /\ consumer = "none" /\ conn = "open"
    /\ channel' = "open"
    /\ consumer' = "ranging"
    /\ UNCHANGED <<link, conn, mu, pc, attempt, history>>

\* GetChannel fails on a closed connection, and ConsumeEvent ends the process.
ConsumerIsFatal ==
    /\ Serving /\ Consumes /\ consumer = "none" /\ conn = "closed"
    /\ Goto(Main, "exit")
    /\ UNCHANGED <<link, conn, channel, mu, attempt, consumer, history>>

\* Mutant: handleShutdown closes the connection before it stops the server.
SignalClosesFirst ==
    /\ Serving /\ ~Consumes /\ signals < MaxSignals
    /\ signals' = signals + 1
    /\ Goto(Main, "close")
    /\ UNCHANGED <<process, broker, outages, conn, channel, mu, attempt, consumer, history>>

\* The gateway is told to stop: Server.Shutdown takes no more requests and waits
\* for those in flight.
Signal ==
    /\ Serving /\ ~Consumes /\ signals < MaxSignals
    /\ signals' = signals + 1
    /\ Goto(Main, "draining")
    /\ UNCHANGED <<process, broker, outages, conn, channel, mu, attempt, consumer, history>>

\* Server.Start returns as soon as Shutdown has closed the listener, and the
\* goroutine that called it takes ErrServerClosed for fatal.
StartReturns ==
    /\ pc[Main] \in {"draining", "close"}
    /\ Goto(Main, "killed")
    /\ UNCHANGED <<link, conn, channel, mu, attempt, consumer, history>>

AllIdle == \A p \in Callers : pc[p] = "idle"

Drained ==
    /\ pc[Main] = "draining" /\ AllIdle
    /\ Goto(Main, "close")
    /\ UNCHANGED <<link, conn, channel, mu, attempt, consumer, history>>

\* After ten seconds Shutdown returns the context's error, which is fatal.
DrainTimesOut ==
    /\ pc[Main] = "draining" /\ ~AllIdle
    /\ Goto(Main, "exit")
    /\ UNCHANGED <<link, conn, channel, mu, attempt, consumer, history>>

\* RMQ.Close, and main returns.
Close ==
    /\ pc[Main] = "close" /\ mu = {}
    /\ conn' = "closed" /\ channel' = "closed"
    /\ Goto(Main, "exit")
    /\ UNCHANGED <<link, mu, attempt, consumer, history>>

\* restart: always.  Nothing survives but the broker.
Restart ==
    /\ pc[Main] \in {"exit", "killed"}
    /\ conn' = "nil" /\ channel' = "nil" /\ mu' = {}
    /\ pc' = [p \in Procs |-> IF p = Main THEN FirstLabel ELSE "idle"]
    /\ attempt' = 0 /\ consumer' = "none"
    /\ flying' = {} /\ cut' = {} /\ lost' = {}
    /\ UNCHANGED link

-----------------------------------------------------------------------------
(* PublishEvent                                                             *)

\* A gateway request publishes whenever it likes; the user service publishes from
\* its one consumer goroutine.
Call(p) ==
    /\ Serving /\ pc[p] = "idle"
    /\ Consumes => consumer # "none" /\ AllIdle
    /\ Goto(p, "lock")
    /\ flying' = flying \ {p} /\ cut' = cut \ {p} /\ lost' = lost \ {p}
    /\ UNCHANGED <<link, conn, channel, mu, attempt, consumer>>

\* rmq.mu.Lock() at the top of GetConnection.
Lock(p) ==
    /\ Alive /\ pc[p] = "lock" /\ mu = {}
    /\ mu' = {p}
    /\ Goto(p, "check")
    /\ UNCHANGED <<link, conn, channel, attempt, consumer, history>>

\* Mutant: one test for both pointers, so a closed channel redials too.
CheckConnectionByChannel(p) ==
    /\ Alive /\ pc[p] = "check"
    /\ Goto(p, IF channel = "open" THEN "reopen" ELSE "connect")
    /\ UNCHANGED <<link, conn, channel, mu, attempt, consumer, history>>

\* A closed connection is dialled again, by connect.
CheckConnection(p) ==
    /\ Alive /\ pc[p] = "check"
    /\ Goto(p, IF conn = "closed" THEN "connect" ELSE "reopen")
    /\ UNCHANGED <<link, conn, channel, mu, attempt, consumer, history>>

\* Mutant: no defer, and the path that opens a new channel forgets the Unlock.
ReopenChannelKeepingLock(p) ==
    /\ Alive /\ pc[p] = "reopen"
    /\ \/ channel = "open" /\ mu' = {} /\ Goto(p, "declare") /\ UNCHANGED channel
       \/ /\ channel # "open" /\ conn = "open"
          /\ channel' = "open" /\ Goto(p, "declare") /\ UNCHANGED mu
       \/ channel # "open" /\ conn = "closed" /\ mu' = {} /\ Goto(p, "idle") /\ UNCHANGED channel
    /\ UNCHANGED <<link, conn, attempt, consumer, history>>

\* Mutant: the exchange exists since boot, so PublishEvent need not declare it.
ReopenChannelAndPublish(p) ==
    /\ Alive /\ pc[p] = "reopen"
    /\ \/ channel = "open" /\ Goto(p, "publish") /\ UNCHANGED channel
       \/ channel # "open" /\ conn = "open" /\ channel' = "open" /\ Goto(p, "publish")
       \/ channel # "open" /\ conn = "closed" /\ Goto(p, "idle") /\ UNCHANGED channel
    /\ mu' = {}
    /\ UNCHANGED <<link, conn, attempt, consumer, history>>

\* A closed channel is replaced, which fails if the connection is gone by now;
\* the mutex is released either way.
ReopenChannel(p) ==
    /\ Alive /\ pc[p] = "reopen"
    /\ \/ channel = "open" /\ Goto(p, "declare") /\ UNCHANGED channel
       \/ channel # "open" /\ conn = "open" /\ channel' = "open" /\ Goto(p, "declare")
       \/ channel # "open" /\ conn = "closed" /\ Goto(p, "idle") /\ UNCHANGED channel
    /\ mu' = {}
    /\ UNCHANGED <<link, conn, attempt, consumer, history>>

\* The channel a call has obtained goes with the connection, and in the gateway
\* any time, when the WaitForEvent of some other request returns.
ChannelGone == conn = "closed" \/ ~Consumes

\* ExchangeDeclare waits for the broker's answer.
DeclareAgain(p) ==
    /\ Alive /\ pc[p] = "declare" /\ conn # "dead"
    /\ \/ conn = "open" /\ Goto(p, "publish")
       \/ ChannelGone /\ Goto(p, "idle")
    /\ UNCHANGED <<link, conn, channel, mu, attempt, consumer, history>>

\* A request goes on to wait for the reply, a handler of the service is done.
AfterPublish == IF Consumes THEN "idle" ELSE "await"

\* Publish waits for nobody.  On a closed channel all three attempts fail.
Publish(p) ==
    /\ Alive /\ pc[p] = "publish"
    /\ \/ /\ conn = "open" /\ Goto(p, AfterPublish)
          /\ flying' = flying \cup {p} /\ UNCHANGED lost
       \/ /\ conn = "dead" /\ Goto(p, AfterPublish)
          /\ lost' = lost \cup {p} /\ UNCHANGED flying
       \/ ChannelGone /\ Goto(p, "idle") /\ UNCHANGED <<flying, lost>>
    /\ UNCHANGED <<link, conn, channel, mu, attempt, consumer, cut>>

-----------------------------------------------------------------------------
(* WaitForEvent, as far as it touches the connection: without the mutex.    *)

\* GetChannel, the declaration and the bindings of the reply queue.
Await(p) ==
    /\ Alive /\ pc[p] = "await" /\ conn # "dead"
    /\ \/ conn = "open" /\ channel' = "open" /\ Goto(p, "wait")
       \/ ChannelGone /\ Goto(p, "idle") /\ UNCHANGED channel
    /\ UNCHANGED <<link, conn, mu, attempt, consumer, history>>

\* A reply or the timer; the deferred ch.Close() may hit the shared channel.
Return(p) ==
    /\ Alive /\ pc[p] = "wait" /\ conn # "dead"
    /\ channel' \in {channel, "closed"}
    /\ Goto(p, "idle")
    /\ UNCHANGED <<link, conn, mu, attempt, consumer, history>>

-----------------------------------------------------------------------------
(* The environment.                                                         *)

\* The other process takes the event of p and acknowledges it.
Handled(p) ==
    /\ p \in flying /\ broker = "up"
    /\ flying' = flying \ {p}
    /\ UNCHANGED <<link, conn, channel, mu, pc, attempt, consumer, cut, lost>>

\* Calls whose ExchangeDeclare is answered and whose event nobody has handled.
Exposed == flying \cup {p \in Callers : pc[p] = "publish"}

\* The broker goes away, or the network does.  Any event that is still on its way
\* or in a queue may go with it: all of them are transient.
Outage ==
    /\ broker = "up" /\ outages < MaxOutages
    /\ broker' = "down" /\ outages' = outages + 1
    /\ conn' = IF conn = "open" THEN "dead" ELSE conn
    /\ cut' = cut \cup Exposed
    /\ \E gone \in SUBSET flying : flying' = flying \ gone /\ lost' = lost \cup gone
    /\ UNCHANGED <<process, signals, channel, mu, pc, attempt, consumer>>

BrokerReturns ==
    /\ broker = "down"
    /\ broker' = "up"
    /\ UNCHANGED <<process, outages, signals, conn, channel, mu, pc, attempt, consumer, history>>

\* A read error or a missed heartbeat: the connection and all its channels close,
\* and the consumer's range over its deliveries ends.
Notice ==
    /\ conn = "dead"
    /\ conn' = "closed"
    /\ channel' = IF channel = "open" THEN "closed" ELSE channel
    /\ consumer' = IF consumer = "ranging" THEN "ended" ELSE consumer
    /\ UNCHANGED <<link, mu, pc, attempt, history>>

-----------------------------------------------------------------------------

ConnectStep(p) == LockInConnect(p) \/ Dial(p) \/ DialFails(p) \/ FirstChannel(p)

CallStep(p) ==
    \/ Lock(p) \/ CheckConnection(p) \/ ReopenChannel(p) \/ DeclareAgain(p) \/ Publish(p)
    \/ Await(p) \/ Return(p)

ProcessStep ==
    \/ InitRedis \/ DeclareExchange \/ StartConsumer \/ ConsumerIsFatal
    \/ StartReturns \/ Drained \/ DrainTimesOut \/ Close \/ Restart

Environment ==
    \/ Signal \/ Outage \/ BrokerReturns \/ Notice
    \/ \E p \in Callers : Handled(p)

Next ==
    \/ \E p \in Procs : ConnectStep(p)
    \/ \E p \in Callers : Call(p) \/ CallStep(p)
    \/ ProcessStep \/ Environment

\* Goroutines run, and a goroutine waiting for a mutex that is released again and
\* again gets it (sync.Mutex hands itself over after a millisecond).  The
\* container is restarted, the broker comes back and heartbeats are missed.
\* Nobody has to call.
Fairness ==
    /\ \A p \in Procs : SF_vars(ConnectStep(p))
    /\ \A p \in Callers : SF_vars(CallStep(p))
    /\ WF_vars(ProcessStep) /\ WF_vars(BrokerReturns) /\ WF_vars(Notice)

Spec == Init /\ [][Next]_vars /\ Fairness

-----------------------------------------------------------------------------
(* Properties.                                                              *)

\* The variables are well typed; in particular connect stops dialling after
\* Attempts failures.
TypeOK ==
    /\ process \in {"gateway", "user-service"}
    /\ broker \in {"up", "down"} /\ outages \in 0..MaxOutages /\ signals \in 0..MaxSignals
    /\ conn \in {"nil", "open", "dead", "closed"} /\ channel \in {"nil", "open", "closed"}
    /\ mu \subseteq Procs
    /\ pc \in [Procs -> {"redis", "connect", "dial", "channel", "exchange", "serving",
                         "draining", "close", "exit", "killed",
                         "idle", "lock", "check", "reopen", "declare", "publish",
                         "await", "wait"}]
    /\ attempt \in 0..Attempts
    /\ consumer \in {"none", "ranging", "ended"}
    /\ flying \subseteq Callers /\ cut \subseteq Callers /\ lost \subseteq Callers

Critical == {"dial", "channel", "check", "reopen"}

\* connect and GetConnection test and replace conn and channel under the mutex,
\* from the first test to the return, also where connect runs inside
\* GetConnection: a Lock in connect that let the holder in again would release
\* the mutex of GetConnection with its own deferred Unlock.
CriticalSections == \A p \in Procs : pc[p] \in Critical => mu = {p}

\* A caller only redials, and so blocks on the mutex it holds, when the
\* connection is gone; a channel closed by a peer never does that to it.
OnlyLossBlocks ==
    \A p \in Callers : pc[p] = "connect" => conn = "closed" /\ mu = {p}

\* An outage takes an event behind PublishEvent's success only if it began after
\* the broker had answered the ExchangeDeclare of that very call, and before the
\* event was handled: a connection that was broken earlier is noticed by that
\* round trip, and never carries an event into the void.
LostOnlySinceDeclare == lost \subseteq cut

\* RMQ.Close never closes the connection under a request, and never waits for
\* the mutex behind a request that waits for itself: handleShutdown gets there
\* only when every request has returned, however they were blocked before.
CloseAfterDrain == pc[Main] = "close" => AllIdle /\ mu = {}

\* A caller that waits for itself stays so until the process is started again: it
\* keeps the mutex, so that no other caller gets past Lock, and nobody but the
\* boot dials again.  One loss ends publishing for the rest of the process's life.
BlockedForGood ==
    [][\A p \in Callers : pc[p] = "connect" =>
          Restart \/ (pc'[p] = "connect" /\ mu' = {p} /\ conn' = "closed")]_vars

\* A call to PublishEvent returns, however often peers close the channel, unless
\* the connection is lost.
CallsReturn == \A p \in Callers : pc[p] = "lock" ~> (pc[p] = "idle" \/ conn = "closed")

\* A process that exits at boot because the broker or Redis is away, or that is
\* told to stop, is restarted until it gets through, and from some time on it
\* serves: no signal leaves it half stopped.
EventuallyServes == <>[]Serving

-----------------------------------------------------------------------------
(* What the repository says of the connection and the code does not do.     *)

\* "Check if the connection or channel is closed ... Reconnecting to RabbitMQ":
\* a caller that finds the connection closed does not wait for itself.
NobodyWaitsForItself == \A p \in Callers : ~(pc[p] = "connect" /\ mu = {p})

\* "ConsumeEvent listens for specific event types": also after the connection
\* was lost and the broker is back.
ListensAgain == consumer = "ended" ~> consumer = "ranging"

\* "handleShutdown function to gracefully shutdown server": requests in flight
\* may finish, up to the ten seconds of the context; the process does not end
\* under them before.
GracefulShutdown == pc[Main] = "killed" => AllIdle

=============================================================================
