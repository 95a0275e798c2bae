--------------------------- MODULE RabbitConnProofs ---------------------------
(***************************************************************************)
(* The mutex of the connection, for any number of callers, outages and     *)
(* signals: the type invariant, the critical sections, that a caller blocks*)
(* on the mutex it holds only when the connection is lost, and then stays   *)
(* there for good, which outage can take an event behind a success, and    *)
(* that Close comes after the last request.                                *)
(*                                                                         *)
(* The properties are inductive together with five facts: boot and the     *)
(* callers keep to their own labels (a caller that redials never gets past *)
(* the Lock in connect), a dial has attempts left, a process that has      *)
(* dialled once has a connection, the mutex is held by someone who is in a *)
(* critical section or blocked, and a caller that is about to publish on a *)
(* dead connection has got its answer from the broker before it broke.     *)
(***************************************************************************)
EXTENDS RabbitConn, TLAPS

BootLabels == {"redis", "connect", "dial", "channel", "exchange", "serving",
               "draining", "close", "exit", "killed"}
CallLabels == {"idle", "lock", "check", "reopen", "declare", "publish", "await", "wait",
               "connect"}

\* Boot and callers are where their code is, and a caller's connect is stuck.
Places ==
    /\ pc[Main] \in BootLabels
    /\ \A p \in Callers : pc[p] \in CallLabels

\* connect dials at most Attempts times.
AttemptsLeft == pc[Main] = "dial" => attempt < Attempts

\* After its first dial the process has a connection, open or not.
Dialled == pc[Main] \in {"channel", "exchange", "serving", "draining", "close"} => conn # "nil"

\* Who holds the mutex is in a critical section or blocks on it.
Holder == \A p \in mu : pc[p] \in Critical \cup {"connect"}

\* A caller at Publish on a dead connection was there when it broke, and so had an
\* answer on it.
BrokeUnderCall ==
    \A p \in Callers : pc[p] = "publish" /\ conn = "dead" => p \in cut

MutexInv ==
    /\ TypeOK /\ Places /\ AttemptsLeft /\ Dialled /\ Holder
    /\ CriticalSections /\ OnlyLossBlocks
    /\ BrokeUnderCall /\ LostOnlySinceDeclare /\ CloseAfterDrain

-----------------------------------------------------------------------------

LEMMA MutexInit == Init => MutexInv
<1> SUFFICES ASSUME Init PROVE MutexInv
  OBVIOUS
<1>1. /\ pc[Main] \in {"redis", "connect"}
      /\ \A p \in Callers : p \in Procs /\ pc[p] = "idle"
  BY MainAssumption DEF Init, Procs, FirstLabel
<1>2. TypeOK
  BY BoundsAssumption DEF Init, TypeOK, Attempts, FirstLabel
<1>3. Places /\ AttemptsLeft /\ Dialled /\ Holder
  BY <1>1 DEF Places, BootLabels, CallLabels, AttemptsLeft, Dialled, Holder, Init
<1>4. CriticalSections /\ OnlyLossBlocks
  BY <1>1 DEF CriticalSections, Critical, OnlyLossBlocks, Procs
<1>5. BrokeUnderCall /\ LostOnlySinceDeclare /\ CloseAfterDrain
  BY <1>1 DEF BrokeUnderCall, LostOnlySinceDeclare, CloseAfterDrain, Init
<1> QED BY <1>2, <1>3, <1>4, <1>5 DEF MutexInv

\* A caller that is at connect holds the mutex already, so only boot gets through.
LEMMA OnlyBootConnects ==
    ASSUME MutexInv, NEW p \in Procs, ConnectStep(p)
    PROVE  p = Main
<1>1. pc[p] \in {"connect", "dial", "channel"} /\ (pc[p] = "connect" => mu = {})
  BY DEF ConnectStep, LockInConnect, Dial, DialFails, FirstChannel
<1>2. CASE p \in Callers
  BY <1>1, <1>2 DEF MutexInv, Places, CallLabels, OnlyLossBlocks
<1> QED BY <1>2 DEF Procs

\* The steps of boot between the dial and the exit.
LEMMA BootStep ==
    ASSUME MutexInv, NEW p \in Procs, ConnectStep(p)
    PROVE  MutexInv'
<1>1. p = Main /\ Main \in Procs
  BY OnlyBootConnects DEF Procs
<1> USE <1>1, MainAssumption
    DEF MutexInv, TypeOK, Procs, Places, BootLabels, CallLabels, AttemptsLeft, Attempts,
        Dialled, Holder, CriticalSections, Critical, OnlyLossBlocks, BrokeUnderCall,
        LostOnlySinceDeclare, CloseAfterDrain, AllIdle, Goto, ConnectFailed, link, history
<1>2. CASE LockInConnect(p)
  BY <1>2 DEF LockInConnect
<1>3. CASE Dial(p)
  BY <1>3 DEF Dial
<1>4. CASE DialFails(p)
  <2>1. attempt \in 0..2
    BY <1>4 DEF DialFails
  <2>2. CASE attempt' < Attempts /\ UNCHANGED <<pc, mu>>
    BY <1>4, <2>1, <2>2 DEF DialFails
  <2>3. CASE Goto(p, ConnectFailed(p)) /\ mu' = {}
    BY <1>4, <2>1, <2>3 DEF DialFails
  <2> QED BY <1>4, <2>2, <2>3 DEF DialFails
<1>5. CASE FirstChannel(p)
  BY <1>5 DEF FirstChannel
<1> QED BY <1>2, <1>3, <1>4, <1>5 DEF ConnectStep

\* The steps of PublishEvent and WaitForEvent.
LEMMA CallerStep ==
    ASSUME MutexInv, NEW p \in Callers, Call(p) \/ CallStep(p)
    PROVE  MutexInv'
<1>1. p # Main /\ p \in Procs /\ Main \in Procs
  BY MainAssumption DEF Procs
<1> USE <1>1, MainAssumption
    DEF MutexInv, TypeOK, Procs, Places, BootLabels, CallLabels, AttemptsLeft, Attempts,
        Dialled, Holder, CriticalSections, Critical, OnlyLossBlocks, BrokeUnderCall,
        LostOnlySinceDeclare, CloseAfterDrain, AllIdle, Goto, Serving, Alive, link, history
<1>2. CASE Call(p)
  BY <1>2 DEF Call
<1>3. CASE Lock(p)
  BY <1>3 DEF Lock
<1>4. CASE CheckConnection(p)
  <2>1. mu = {p}
    BY <1>4 DEF CheckConnection
  <2> QED BY <1>4, <2>1 DEF CheckConnection
<1>5. CASE ReopenChannel(p)
  BY <1>5 DEF ReopenChannel
<1>6. CASE DeclareAgain(p)
  BY <1>6 DEF DeclareAgain
<1>7. CASE Publish(p)
  BY <1>7 DEF Publish, AfterPublish
<1>8. CASE Await(p)
  BY <1>8 DEF Await
<1>9. CASE Return(p)
  BY <1>9 DEF Return
<1> QED BY <1>2, <1>3, <1>4, <1>5, <1>6, <1>7, <1>8, <1>9 DEF CallStep

\* The rest of the process.
LEMMA MainStep ==
    ASSUME MutexInv, ProcessStep
    PROVE  MutexInv'
<1>1. Main \in Procs
  BY DEF Procs
<1> USE <1>1, MainAssumption, BoundsAssumption
    DEF MutexInv, TypeOK, Procs, Places, BootLabels, CallLabels, AttemptsLeft, Attempts,
        Dialled, Holder, CriticalSections, Critical, OnlyLossBlocks, BrokeUnderCall,
        LostOnlySinceDeclare, CloseAfterDrain, AllIdle, Goto, Serving, link, history
<1>2. CASE InitRedis
  BY <1>2 DEF InitRedis
<1>3. CASE DeclareExchange
  BY <1>3 DEF DeclareExchange
<1>4. CASE StartConsumer
  BY <1>4 DEF StartConsumer
<1>5. CASE ConsumerIsFatal
  BY <1>5 DEF ConsumerIsFatal
<1>6. CASE StartReturns
  BY <1>6 DEF StartReturns
<1>7. CASE Drained
  BY <1>7 DEF Drained
<1>8. CASE DrainTimesOut
  BY <1>8 DEF DrainTimesOut
<1>9. CASE Close
  BY <1>9 DEF Close
<1>10. CASE Restart
  BY <1>10 DEF Restart, FirstLabel
<1> QED BY <1>2, <1>3, <1>4, <1>5, <1>6, <1>7, <1>8, <1>9, <1>10 DEF ProcessStep

\* Signals, the broker and the network.
LEMMA EnvironmentStep ==
    ASSUME MutexInv, Environment
    PROVE  MutexInv'
<1>1. Main \in Procs
  BY DEF Procs
<1> USE <1>1, MainAssumption, BoundsAssumption
    DEF MutexInv, TypeOK, Procs, Places, BootLabels, CallLabels, AttemptsLeft, Attempts,
        Dialled, Holder, CriticalSections, Critical, OnlyLossBlocks, BrokeUnderCall,
        LostOnlySinceDeclare, CloseAfterDrain, AllIdle, Goto, Serving, link, history
<1>2. CASE Signal
  BY <1>2 DEF Signal
<1>3. CASE Outage
  BY <1>3 DEF Outage, Exposed
<1>4. CASE BrokerReturns
  BY <1>4 DEF BrokerReturns
<1>5. CASE Notice
  BY <1>5 DEF Notice
<1>6. ASSUME NEW p \in Callers, Handled(p) PROVE MutexInv'
  BY <1>6 DEF Handled
<1> QED BY <1>2, <1>3, <1>4, <1>5, <1>6 DEF Environment

LEMMA MutexNext == MutexInv /\ [Next]_vars => MutexInv'
<1> SUFFICES ASSUME MutexInv, [Next]_vars PROVE MutexInv'
  OBVIOUS
<1>1. CASE UNCHANGED vars
  BY <1>1 DEF vars, link, history, MutexInv, TypeOK, Places, AttemptsLeft, Dialled, Holder,
              CriticalSections, OnlyLossBlocks, BrokeUnderCall, LostOnlySinceDeclare,
              CloseAfterDrain, AllIdle
<1>2. CASE \E p \in Procs : ConnectStep(p)
  BY <1>2, BootStep
<1>3. CASE \E p \in Callers : Call(p) \/ CallStep(p)
  BY <1>3, CallerStep
<1>4. CASE ProcessStep
  BY <1>4, MainStep
<1>5. CASE Environment
  BY <1>5, EnvironmentStep
<1> QED BY <1>1, <1>2, <1>3, <1>4, <1>5 DEF Next

LEMMA MutexAlways == Spec => []MutexInv
BY MutexInit, MutexNext, PTL DEF Spec

\* Every reachable state is well typed, and no boot dials more than Attempts times.
THEOREM ConnectionTypes == Spec => []TypeOK
<1>1. MutexInv => TypeOK
  BY DEF MutexInv
<1> QED BY <1>1, MutexAlways, PTL

\* Between Lock and Unlock of connect and GetConnection nobody else is.
THEOREM MutualExclusion == Spec => []CriticalSections
<1>1. MutexInv => CriticalSections
  BY DEF MutexInv
<1> QED BY <1>1, MutexAlways, PTL

\* A caller blocks on the mutex it holds only when the connection is lost.
THEOREM BlockedByLoss == Spec => []OnlyLossBlocks
<1>1. MutexInv => OnlyLossBlocks
  BY DEF MutexInv
<1> QED BY <1>1, MutexAlways, PTL

\* An outage that began before the broker answered the ExchangeDeclare of a call, or
\* after its event was handled, takes no event behind that call's success.
THEOREM EarlierOutagesAreNoticed == Spec => []LostOnlySinceDeclare
<1>1. MutexInv => LostOnlySinceDeclare
  BY DEF MutexInv
<1> QED BY <1>1, MutexAlways, PTL

\* When handleShutdown closes the connection no request is left and the mutex is free.
THEOREM ConnectionClosedLast == Spec => []CloseAfterDrain
<1>1. MutexInv => CloseAfterDrain
  BY DEF MutexInv
<1> QED BY <1>1, MutexAlways, PTL

\* A caller that blocks on its own mutex blocks everybody until the restart: no step
\* of anyone else moves it, frees the mutex or brings the connection back.
THEOREM LossIsForGood == Spec => BlockedForGood
<1>1. ASSUME MutexInv, [Next]_vars, NEW p \in Callers, pc[p] = "connect"
      PROVE  Restart \/ (pc'[p] = "connect" /\ mu' = {p} /\ conn' = "closed")
  <2>1. /\ conn = "closed" /\ mu = {p} /\ p # Main /\ p \in Procs /\ Main \in Procs
        /\ \A q \in Procs : pc[q] \in Critical => q = p
        /\ pc = [q \in Procs |-> pc[q]]
    BY <1>1, MainAssumption DEF MutexInv, OnlyLossBlocks, CriticalSections, Procs, TypeOK
  <2>2. \A q \in Procs : pc[q] \notin Critical
    BY <1>1, <2>1 DEF Critical
  <2> USE <2>1 DEF link, history, Goto
  <2>3. CASE UNCHANGED vars
    BY <1>1, <2>3 DEF vars
  <2>4. ASSUME NEW q \in Procs, ConnectStep(q) PROVE FALSE
    BY <2>2, <2>4 DEF ConnectStep, LockInConnect, Dial, DialFails, FirstChannel, Critical
  <2>5. ASSUME NEW q \in Callers, Call(q) \/ CallStep(q)
        PROVE  pc'[p] = "connect" /\ mu' = {p} /\ conn' = "closed"
    <3>1. q \in Procs /\ q # p
      BY <1>1, <2>5
         DEF Procs, Call, CallStep, Lock, CheckConnection, ReopenChannel, DeclareAgain, Publish,
             Await, Return
    <3>2. pc'[p] = pc[p]
      BY <2>5, <3>1
         DEF Call, CallStep, Lock, CheckConnection, ReopenChannel, DeclareAgain, Publish,
             Await, Return
    <3>3. UNCHANGED <<conn, mu>>
      BY <2>2, <2>5, <3>1
         DEF Call, CallStep, Lock, CheckConnection, ReopenChannel, DeclareAgain, Publish,
             Await, Return, Critical
    <3> QED BY <1>1, <3>2, <3>3
  <2>6. CASE ProcessStep
    BY <1>1, <2>6, MainAssumption
       DEF ProcessStep, InitRedis, DeclareExchange, StartConsumer, ConsumerIsFatal, StartReturns,
           Drained, DrainTimesOut, Close
  <2>7. CASE Environment
    BY <1>1, <2>7, MainAssumption DEF Environment, Signal, Outage, BrokerReturns, Notice, Handled
  <2> QED BY <1>1, <2>3, <2>4, <2>5, <2>6, <2>7 DEF Next
<1>2. MutexInv /\ [Next]_vars =>
         [\A p \in Callers : pc[p] = "connect" =>
             Restart \/ (pc'[p] = "connect" /\ mu' = {p} /\ conn' = "closed")]_vars
  BY <1>1
<1> QED BY <1>2, MutexAlways, PTL DEF Spec, BlockedForGood

=============================================================================
