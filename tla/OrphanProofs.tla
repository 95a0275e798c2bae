---------------------------- MODULE OrphanProofs ----------------------------
(***************************************************************************)
(* How many channels the gateway can leave open for good, for any finite   *)
(* number of requests.  Each orphan is charged to a request that has been  *)
(* through GetChannel.  Two requests are never charged: one that waited on *)
(* the channel of the boot, and one held in reserve, which is replaced by  *)
(* whoever next replaces a closed channel.                                 *)
(***************************************************************************)
EXTENDS RequestReplyProofs, FiniteSetTheorems

Holding == {"declare", "bind", "consume", "wait"}

\* Requests that have got the channel of the boot from GetChannel.
UsesFirst(r) == ch[r] = 1 /\ pc[r] \in Holding \cup {"answered", "timeout"}

\* Requests that have been through GetChannel, and without the channel of the boot.
Settled ==
    {r \in Requests : ~UsesFirst(r) /\
        pc[r] \in Holding \cup {"return", "answered", "timeout"}}

\* Nobody opens a channel before the one of the boot is closed, and it is only
\* closed by a request that ends WaitForEvent on it.
FirstChannel ==
    /\ 1 \in open => opened = 1 /\ \A r \in Requests : pc[r] \notin {"reopen", "open"}
    /\ 1 \notin open => \E a \in Requests : UsesFirst(a)
    /\ opened > 1 => channel > 1

\* One request at a time is inside GetConnection.
Mutex ==
    /\ \A r \in Requests : pc[r] \in {"reopen", "leave"} <=> r \in lock
    /\ \A r, s \in lock : r = s

\* f charges every orphan to a request of its own, and z is in reserve.  z is not
\* about to open a channel over an open one; and if a request is about to do that
\* from GetConnection, which found the channel closed, then somebody has replaced
\* that closed channel since, so z has been through GetChannel and can be charged.
Charged(f, z) ==
    /\ f \in Injection(Orphans, Settled)
    /\ z \in Requests /\ ~UsesFirst(z)
    /\ \A c \in Orphans : f[c] # z
    /\ pc[z] = "open" => channel \notin open
    /\ channel \in open /\ (\E q \in Requests : pc[q] = "reopen") => z \in Settled

ChargeInv == channel > 1 => \E f, z : Charged(f, z)

OrphanInv == FirstChannel /\ Mutex /\ ChargeInv

LEMMA OrphanInit == Init => OrphanInv
<1> SUFFICES ASSUME Init PROVE OrphanInv
  OBVIOUS
<1>1. FirstChannel /\ Mutex
  BY DEF Init, FirstChannel, Mutex
<1>2. ChargeInv
  BY DEF Init, ChargeInv
<1> QED BY <1>1, <1>2 DEF OrphanInv

\* There are no orphans as long as nobody has replaced the first channel.
LEMMA NoOrphansYet ==
    ASSUME TypeInv, FirstChannel, channel = 1
    PROVE  Orphans = {} /\ opened = 1
<1> USE DEF TypeInv, TypeOK
<1>1. opened = 1
  BY DEF FirstChannel
<1>2. \A c \in open : c = 1
  BY <1>1
<1> QED BY <1>1, <1>2 DEF Orphans

-----------------------------------------------------------------------------
(* The steps that open no channel.                                          *)

\* What every step of r does that opens no channel.
Moves(r) ==
    /\ UNCHANGED <<channel, opened>>
    /\ \E l \in Labels : pc' = [pc EXCEPT ![r] = l]
    /\ pc[r] \notin {"reopen", "open", "answered", "timeout"}
    /\ pc'[r] \in {"reopen", "open"} => channel \notin open
    /\ \/ /\ ch' = ch /\ pc[r] \notin {"leave", "return"}
          /\ pc[r] \in Holding <=> pc'[r] \in Holding \cup {"answered", "timeout"}
       \/ /\ ch' = [ch EXCEPT ![r] = channel]
          /\ \/ pc[r] = "leave" /\ pc'[r] = "publish"
             \/ pc[r] = "return" /\ pc'[r] = "declare"
    /\ \/ open' = open /\ (pc[r] \in Holding => pc'[r] \in Holding \/ ch[r] \notin open)
       \/ open' = open \ {ch[r]} /\ pc[r] = "wait"
    /\ \/ pc[r] = "start" /\ pc'[r] \in {"reopen", "leave"} /\ lock = {} /\ lock' = {r}
       \/ pc[r] = "leave" /\ lock' = lock \ {r}
       \/ pc[r] \notin {"start", "leave"} /\ pc'[r] \notin {"reopen", "leave"} /\ lock' = lock

LEMMA StepsMove ==
    ASSUME TypeInv, NEW r \in Requests,
           \/ GetConnection(r) \/ LockToReopen(r) \/ LeaveConnection(r) \/ Publish(r) \/ PublishFails(r)
           \/ GetChannel(r) \/ SeeClosed(r) \/ ReturnChannel(r) \/ DeclareQueue(r) \/ BindQueue(r)
           \/ Consume(r) \/ SetupFails(r) \/ Answer(r) \/ Timeout(r)
    PROVE  Moves(r)
<1> USE DEF TypeInv, TypeOK, Moves, Holding, Labels, Goto, connVars
<1>1. CASE GetConnection(r)
  BY <1>1 DEF GetConnection
<1>2. CASE LockToReopen(r)
  BY <1>2 DEF LockToReopen
<1>3. CASE LeaveConnection(r)
  BY <1>3 DEF LeaveConnection
<1>4. CASE Publish(r)
  BY <1>4 DEF Publish
<1>5. CASE PublishFails(r)
  BY <1>5 DEF PublishFails
<1>6. CASE GetChannel(r)
  BY <1>6 DEF GetChannel
<1>7. CASE SeeClosed(r)
  BY <1>7 DEF SeeClosed
<1>8. CASE ReturnChannel(r)
  BY <1>8 DEF ReturnChannel
<1>9. CASE DeclareQueue(r)
  BY <1>9 DEF DeclareQueue
<1>10. CASE BindQueue(r)
  BY <1>10 DEF BindQueue
<1>11. CASE Consume(r)
  BY <1>11 DEF Consume
<1>12. CASE SetupFails(r)
  BY <1>12 DEF SetupFails
<1>13. CASE Answer(r)
  BY <1>13 DEF Answer, CloseChannel
<1>14. CASE Timeout(r)
  BY <1>14 DEF Timeout, CloseChannel
<1> QED
  BY <1>1, <1>2, <1>3, <1>4, <1>5, <1>6, <1>7, <1>8, <1>9, <1>10, <1>11, <1>12, <1>13, <1>14

\* Such a step orphans no channel; who has been through GetChannel stays beyond it,
\* and once the first channel has been replaced nobody gets it any more.
LEMMA MovesKeep ==
    ASSUME TypeInv, OrphanInv, NEW r \in Requests, Moves(r)
    PROVE  /\ Orphans' \subseteq Orphans
           /\ channel > 1 => Settled \subseteq Settled'
           /\ channel > 1 => \A z \in Requests : UsesFirst(z)' => UsesFirst(z)
<1> USE DEF TypeInv, TypeOK, Moves, Holding
<1>1. Orphans' \subseteq Orphans
  BY DEF Orphans
<1>2. \A z \in Requests : channel > 1 /\ UsesFirst(z)' => UsesFirst(z)
  BY DEF UsesFirst
<1>3. channel > 1 => Settled \subseteq Settled'
  <2> SUFFICES ASSUME channel > 1, NEW z \in Settled PROVE z \in Settled'
    OBVIOUS
  <2>1. z \in Requests /\ ~UsesFirst(z) /\ pc[z] \in Holding \cup {"return", "answered", "timeout"}
    BY DEF Settled
  <2>2. pc'[z] \in Holding \cup {"return", "answered", "timeout"}
    BY <2>1
  <2> QED BY <1>2, <2>1, <2>2 DEF Settled
<1> QED BY <1>1, <1>2, <1>3

LEMMA OrphanMoves ==
    ASSUME TypeInv, OrphanInv, NEW r \in Requests, Moves(r)
    PROVE  OrphanInv'
<1> USE DEF TypeInv, TypeOK, OrphanInv
<1>1. FirstChannel'
  <2>1. opened' = opened /\ channel' = channel /\ open' \subseteq open
    BY DEF Moves
  <2>2. opened > 1 => channel > 1
    BY DEF FirstChannel
  <2>3. 1 \in open' => opened = 1 /\ \A q \in Requests : pc'[q] \notin {"reopen", "open"}
    <3> SUFFICES ASSUME 1 \in open'
                 PROVE  opened = 1 /\ \A q \in Requests : pc'[q] \notin {"reopen", "open"}
      OBVIOUS
    <3>1. opened = 1 /\ channel \in open /\ \A q \in Requests : pc[q] \notin {"reopen", "open"}
      BY <2>1 DEF FirstChannel
    <3> QED BY <3>1 DEF Moves
  <2>4. 1 \notin open' => \E a \in Requests : UsesFirst(a)'
    <3>1. CASE 1 \notin open
      <4>1. PICK a \in Requests : UsesFirst(a)
        BY <3>1 DEF FirstChannel
      <4>2. UsesFirst(a)'
        BY <4>1 DEF UsesFirst, Moves, Holding
      <4> QED BY <4>2
    <3>2. CASE 1 \in open /\ 1 \notin open'
      <4>1. ch[r] = 1 /\ pc[r] = "wait"
        BY <3>2 DEF Moves
      <4>2. UsesFirst(r)'
        BY <4>1 DEF UsesFirst, Moves, Holding
      <4> QED BY <4>2
    <3> QED BY <3>1, <3>2
  <2> QED BY <2>1, <2>2, <2>3, <2>4 DEF FirstChannel
<1>2. Mutex'
  BY DEF Moves, Mutex
<1>3. ChargeInv'
  <2> SUFFICES ASSUME channel > 1 PROVE \E f, z : Charged(f, z)'
    BY DEF ChargeInv, Moves
  <2>1. PICK f, z : Charged(f, z)
    BY DEF ChargeInv
  <2>2. Orphans' \subseteq Orphans /\ Settled \subseteq Settled' /\ (UsesFirst(z)' => UsesFirst(z))
    BY <2>1, MovesKeep DEF Charged
  <2>3. PICK g : g = [c \in Orphans' |-> f[c]]
    OBVIOUS
  <2>4. f \in [Orphans -> Settled] /\ \A c, d \in Orphans : f[c] = f[d] => c = d
    BY <2>1 DEF Charged, Injection, IsInjective
  <2>5. g \in Injection(Orphans', Settled')
    BY <2>2, <2>3, <2>4 DEF Injection, IsInjective
  <2>6. z \in Requests /\ ~UsesFirst(z)' /\ \A c \in Orphans' : g[c] # z
    BY <2>1, <2>2, <2>3 DEF Charged
  <2>7. pc'[z] = "open" => channel' \notin open'
    BY <2>1 DEF Charged, Moves
  <2>8. channel' \in open' /\ (\E q \in Requests : pc'[q] = "reopen") => z \in Settled'
    BY <2>1, <2>2 DEF Charged, Moves
  <2>9. Charged(g, z)'
    BY <2>5, <2>6, <2>7, <2>8 DEF Charged
  <2> QED BY <2>9
<1> QED BY <1>1, <1>2, <1>3

LEMMA OrphanUnchanged ==
    ASSUME OrphanInv, UNCHANGED <<pc, ch, channel, open, opened, lock>>
    PROVE  OrphanInv'
<1>1. Orphans' = Orphans /\ Settled' = Settled
  BY DEF Orphans, Settled, UsesFirst
<1>2. FirstChannel' /\ Mutex'
  BY DEF OrphanInv, FirstChannel, Mutex, UsesFirst
<1>3. ChargeInv'
  <2> SUFFICES ASSUME channel > 1 PROVE \E f, z : Charged(f, z)'
    BY DEF ChargeInv
  <2>1. PICK f, z : Charged(f, z)
    BY DEF OrphanInv, ChargeInv
  <2>2. Charged(f, z)'
    BY <1>1, <2>1 DEF Charged, UsesFirst
  <2> QED BY <2>2
<1> QED BY <1>2, <1>3 DEF OrphanInv

-----------------------------------------------------------------------------
(* The two steps that open one.                                             *)

\* What they share: the new channel is shared, so nobody is orphaned but, maybe,
\* the channel it replaces.
Opens(r, l) ==
    /\ OpenChannel /\ pc' = [pc EXCEPT ![r] = l] /\ UNCHANGED <<ch, lock>>
    /\ opened \in Nat /\ opened >= 1 /\ 1 \notin open

LEMMA OpenerOpens ==
    ASSUME TypeInv, OrphanInv, NEW r \in Requests
    PROVE  /\ Reopen(r) => Opens(r, "leave") /\ pc[r] = "reopen"
           /\ ReplaceChannel(r) => Opens(r, "return") /\ pc[r] = "open"
BY DEF TypeInv, TypeOK, OrphanInv, FirstChannel, Reopen, ReplaceChannel, Opens, Goto

LEMMA OpensKeep ==
    ASSUME TypeInv, OrphanInv, NEW r \in Requests, NEW l \in {"leave", "return"}, Opens(r, l),
           pc[r] \in {"reopen", "open"}, pc[r] = "reopen" <=> l = "leave"
    PROVE  /\ FirstChannel' /\ Mutex'
           /\ Orphans' \subseteq Orphans \cup ({channel} \cap open)
           /\ channel > 1 => channel \notin Orphans
           /\ \A z \in Requests : UsesFirst(z)' <=> UsesFirst(z)
           /\ ~UsesFirst(r)' /\ r \notin Settled
           /\ Settled' = IF l = "return" THEN Settled \cup {r} ELSE Settled
<1> USE DEF TypeInv, TypeOK, OrphanInv, Opens, OpenChannel, Holding
<1>1. \A z \in Requests : UsesFirst(z)' <=> UsesFirst(z)
  BY DEF UsesFirst
<1>2. ~UsesFirst(r) /\ r \notin Settled
  BY DEF UsesFirst, Settled
<1>3. Settled' = IF l = "return" THEN Settled \cup {r} ELSE Settled
  BY <1>1, <1>2 DEF Settled
<1>4. Orphans' \subseteq Orphans \cup ({channel} \cap open)
  BY DEF Orphans
<1>5. channel \notin Orphans
  BY DEF Orphans
<1>6. FirstChannel'
  <2>1. opened' > 1 /\ channel' > 1 /\ 1 \notin open'
    OBVIOUS
  <2>2. PICK a \in Requests : UsesFirst(a)
    BY DEF FirstChannel
  <2> QED BY <1>1, <2>1, <2>2 DEF FirstChannel
<1>7. Mutex'
  BY DEF Mutex
<1> QED BY <1>1, <1>2, <1>3, <1>4, <1>5, <1>6, <1>7

\* A channel stored over a closed one orphans nothing, and its opener goes into
\* reserve.
LEMMA OrphanOverClosed ==
    ASSUME TypeInv, OrphanInv, NEW r \in Requests, Reopen(r) \/ ReplaceChannel(r),
           channel \notin open
    PROVE  ChargeInv'
<1>1. PICK l \in {"leave", "return"} :
         Opens(r, l) /\ pc[r] \in {"reopen", "open"} /\ (pc[r] = "reopen" <=> l = "leave")
  BY OpenerOpens
<1>2. /\ Orphans' \subseteq Orphans /\ ~UsesFirst(r)' /\ r \notin Settled
      /\ Settled' = IF l = "return" THEN Settled \cup {r} ELSE Settled
  BY <1>1, OpensKeep
<1>3. PICK f : /\ f \in [Orphans -> Settled] /\ \A c, d \in Orphans : f[c] = f[d] => c = d
  <2>1. CASE channel > 1
    <3>1. PICK f, z : Charged(f, z)
      BY <2>1 DEF OrphanInv, ChargeInv
    <3> QED BY <3>1 DEF Charged, Injection, IsInjective
  <2>2. CASE channel = 1
    <3>1. Orphans = {}
      BY <2>2, NoOrphansYet DEF OrphanInv
    <3>2. [c \in {} |-> c] \in [Orphans -> Settled]
      BY <3>1
    <3> QED BY <3>1, <3>2
  <2>3. channel > 1 \/ channel = 1
    BY DEF TypeInv, TypeOK
  <2> QED BY <2>1, <2>2, <2>3
<1>4. PICK g : g = [c \in Orphans' |-> f[c]]
  OBVIOUS
<1>5. g \in Injection(Orphans', Settled')
  BY <1>2, <1>3, <1>4 DEF Injection, IsInjective
<1>6. \A c \in Orphans' : g[c] # r
  BY <1>2, <1>3, <1>4
<1>7. pc'[r] # "open" /\ ((\E q \in Requests : pc'[q] = "reopen") => r \in Settled')
  <2>1. CASE l = "return"
    BY <1>1, <1>2, <2>1 DEF Opens, TypeInv, TypeOK
  <2>2. CASE l = "leave"
    <3>1. \A q \in Requests : pc[q] = "reopen" => q = r
      BY <1>1, <2>2 DEF OrphanInv, Mutex
    <3> QED BY <1>1, <2>2, <3>1 DEF Opens, TypeInv, TypeOK
  <2> QED BY <2>1, <2>2
<1>8. Charged(g, r)'
  BY <1>2, <1>5, <1>6, <1>7 DEF Charged
<1> QED BY <1>8 DEF ChargeInv

\* GetChannel stores over an open channel: if that is orphaned, it is charged to r,
\* which was not charged before, as it had not been through GetChannel.
LEMMA OrphanReplace ==
    ASSUME TypeInv, OrphanInv, NEW r \in Requests, ReplaceChannel(r), channel \in open
    PROVE  ChargeInv'
<1>1. Opens(r, "return") /\ pc[r] = "open"
  BY OpenerOpens
<1>2. /\ Orphans' \subseteq Orphans \cup {channel} /\ channel \notin Orphans
      /\ r \notin Settled /\ Settled' = Settled \cup {r}
      /\ \A z \in Requests : UsesFirst(z)' <=> UsesFirst(z)
  <2>1. channel > 1
    BY <1>1 DEF Opens, TypeInv, TypeOK
  <2> QED BY <1>1, <2>1, OpensKeep
<1>3. PICK f, z : Charged(f, z)
  BY <1>1 DEF Opens, OrphanInv, ChargeInv, TypeInv, TypeOK
<1>4. f \in [Orphans -> Settled] /\ \A c, d \in Orphans : f[c] = f[d] => c = d
  BY <1>3 DEF Charged, Injection, IsInjective
<1>5. PICK g : g = [c \in Orphans' |-> IF c = channel THEN r ELSE f[c]]
  OBVIOUS
<1>6. g \in Injection(Orphans', Settled')
  BY <1>2, <1>4, <1>5 DEF Injection, IsInjective
<1>7. z \in Requests /\ z # r /\ ~UsesFirst(z)' /\ pc'[z] # "open"
  BY <1>1, <1>2, <1>3 DEF Charged, Opens, TypeInv, TypeOK
<1>8. \A c \in Orphans' : g[c] # z
  BY <1>2, <1>3, <1>5, <1>7 DEF Charged
<1>9. (\E q \in Requests : pc'[q] = "reopen") => z \in Settled'
  BY <1>1, <1>2, <1>3 DEF Charged, Opens, TypeInv, TypeOK
<1>10. Charged(g, z)'
  BY <1>6, <1>7, <1>8, <1>9 DEF Charged
<1> QED BY <1>10 DEF ChargeInv

\* GetConnection stores over an open channel, which it had found closed: the request
\* in reserve can be charged if that is orphaned, and r takes its place.
LEMMA OrphanReopen ==
    ASSUME TypeInv, OrphanInv, NEW r \in Requests, Reopen(r), channel \in open
    PROVE  ChargeInv'
<1>1. Opens(r, "leave") /\ pc[r] = "reopen"
  BY OpenerOpens
<1>2. /\ Orphans' \subseteq Orphans \cup {channel} /\ channel \notin Orphans
      /\ r \notin Settled /\ Settled' = Settled /\ ~UsesFirst(r)'
  <2>1. channel > 1
    BY <1>1 DEF Opens, TypeInv, TypeOK
  <2> QED BY <1>1, <2>1, OpensKeep
<1>3. PICK f, z : Charged(f, z)
  BY <1>1 DEF Opens, OrphanInv, ChargeInv, TypeInv, TypeOK
<1>4. f \in [Orphans -> Settled] /\ \A c, d \in Orphans : f[c] = f[d] => c = d
  BY <1>3 DEF Charged, Injection, IsInjective
<1>5. z \in Settled /\ \A c \in Orphans : f[c] # z
  BY <1>1, <1>3 DEF Charged
<1>6. PICK g : g = [c \in Orphans' |-> IF c = channel THEN z ELSE f[c]]
  OBVIOUS
<1>7. g \in Injection(Orphans', Settled')
  BY <1>2, <1>4, <1>5, <1>6 DEF Injection, IsInjective
<1>8. \A c \in Orphans' : g[c] # r
  BY <1>2, <1>4, <1>5, <1>6
<1>9. pc'[r] = "leave" /\ \A q \in Requests : pc'[q] # "reopen"
  <2>1. \A q \in Requests : pc[q] = "reopen" => q = r
    BY <1>1 DEF OrphanInv, Mutex
  <2> QED BY <1>1, <2>1 DEF Opens, TypeInv, TypeOK
<1>10. Charged(g, r)'
  BY <1>2, <1>7, <1>8, <1>9 DEF Charged
<1> QED BY <1>10 DEF ChargeInv

LEMMA OrphanOpens ==
    ASSUME TypeInv, OrphanInv, NEW r \in Requests, Reopen(r) \/ ReplaceChannel(r)
    PROVE  OrphanInv'
<1>1. PICK l \in {"leave", "return"} :
         Opens(r, l) /\ pc[r] \in {"reopen", "open"} /\ (pc[r] = "reopen" <=> l = "leave")
  BY OpenerOpens
<1>2. FirstChannel' /\ Mutex'
  BY <1>1, OpensKeep
<1>3. ChargeInv'
  BY OrphanOverClosed, OrphanReplace, OrphanReopen
<1> QED BY <1>2, <1>3 DEF OrphanInv

LEMMA OrphanNext == TypeInv /\ OrphanInv /\ [Next]_vars => OrphanInv'
<1> SUFFICES ASSUME TypeInv, OrphanInv, [Next]_vars PROVE OrphanInv'
  OBVIOUS
<1>1. CASE ServiceStep \/ Crash \/ UNCHANGED vars
  BY <1>1, OrphanUnchanged
     DEF ServiceStep, StartConsumer, Take, Reply, Ignore, Ack, Crash, vars, gatewayVars, connVars
<1>2. ASSUME NEW r \in Requests, RequestStep(r) PROVE OrphanInv'
  <2>1. CASE Deliver(r) \/ ConsumerEnds(r)
    BY <2>1, OrphanUnchanged DEF Deliver, ConsumerEnds, gatewayVars, connVars
  <2>2. CASE Reopen(r) \/ ReplaceChannel(r)
    BY <2>2, OrphanOpens
  <2>3. CASE ~(Deliver(r) \/ ConsumerEnds(r) \/ Reopen(r) \/ ReplaceChannel(r))
    BY <1>2, <2>3, StepsMove, OrphanMoves DEF RequestStep
  <2> QED BY <2>1, <2>2, <2>3
<1> QED BY <1>1, <1>2 DEF Next, Quiescent

-----------------------------------------------------------------------------
(* Counting.                                                                *)

\* The charged requests differ, and two requests are not charged.
LEMMA OrphansAreFew == TypeInv /\ OrphanInv => OrphansNeedThree
<1> SUFFICES ASSUME TypeInv, OrphanInv, Orphans # {}
             PROVE  Cardinality(Orphans) + 2 <= Cardinality(Requests)
  BY DEF OrphansNeedThree
<1> USE DEF TypeInv, TypeOK, OrphanInv
<1>1. channel > 1 /\ opened > 1
  <2>1. channel # 1
    BY NoOrphansYet
  <2> QED BY <2>1
<1>2. PICK f, z : Charged(f, z)
  BY <1>1 DEF ChargeInv
<1>3. f \in [Orphans -> Settled] /\ \A c, d \in Orphans : f[c] = f[d] => c = d
  BY <1>2 DEF Charged, Injection, IsInjective
<1>4. PICK a \in Requests : UsesFirst(a)
  BY <1>1 DEF FirstChannel
<1>5. a \notin Settled /\ z \in Requests /\ a # z /\ \A c \in Orphans : f[c] # z
  BY <1>2, <1>4 DEF Charged, Settled
<1> DEFINE Others == (Requests \ {a}) \ {z}
<1>6. f \in Injection(Orphans, Others)
  BY <1>3, <1>5 DEF Injection, IsInjective, Settled
<1>7. /\ IsFiniteSet(Requests \ {a}) /\ Cardinality(Requests \ {a}) = Cardinality(Requests) - 1
      /\ IsFiniteSet(Others) /\ Cardinality(Others) = Cardinality(Requests) - 2
  <2>1. IsFiniteSet(Requests \ {a}) /\ Cardinality(Requests \ {a}) = Cardinality(Requests) - 1
    BY <1>4, FiniteRequestsAssumption, FS_RemoveElement
  <2>2. z \in Requests \ {a} /\ IsFiniteSet(Others) /\ Cardinality(Others) = Cardinality(Requests \ {a}) - 1
    BY <1>5, <2>1, FS_RemoveElement
  <2>3. Cardinality(Requests) \in Nat
    BY FiniteRequestsAssumption, FS_CardinalityType
  <2> QED BY <2>1, <2>2, <2>3
<1>8. IsFiniteSet(Orphans) /\ Cardinality(Orphans) <= Cardinality(Others)
  BY <1>6, <1>7, FS_Injection
<1>9. Cardinality(Orphans) \in Nat /\ Cardinality(Requests) \in Nat
  BY <1>8, FiniteRequestsAssumption, FS_CardinalityType
<1> HIDE DEF Others
<1> QED BY <1>7, <1>8, <1>9

\* However the requests interleave, N of them leave at most N - 2 channels open
\* for good.
THEOREM ChannelsLeftOpen == Spec => []OrphansNeedThree
<1>1. TypeInv /\ [Next]_vars => TypeInv'
  BY TypeRequest, TypeService DEF Next
<1> QED
  BY TypeInit, OrphanInit, <1>1, OrphanNext, OrphansAreFew, PTL DEF Spec

=============================================================================
