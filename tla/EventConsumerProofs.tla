------------------------- MODULE EventConsumerProofs -------------------------
(***************************************************************************)
(* What follows from the promise of EventConsumer, for any set of events:  *)
(* at least once and in order.  Whatever implements EventConsumer has it   *)
(* by instantiation.                                                       *)
(***************************************************************************)
EXTENDS EventConsumer, TLAPS

Kinds == {"success", "failure"}

TypeOK ==
    /\ sent \subseteq Requests /\ unreadable \subseteq sent
    /\ queue \in Seq(Requests)
    /\ state \in {"down", "idle", "handling", "returned"}
    /\ answers \in [Requests -> SUBSET Kinds]

\* The event at work is the head of the queue, and answered once its handler has
\* returned, if it could be read.
AtHead ==
    /\ state \in {"handling", "returned"} => queue # << >>
    /\ state = "returned" => answers[Head(queue)] # {} \/ Head(queue) \in unreadable

\* An event waits once.
Distinct == \A i, j \in 1..Len(queue) : queue[i] = queue[j] => i = j

ConsumerInv == TypeOK /\ AtHead /\ Distinct /\ OnlySent /\ AtLeastOnce /\ InOrder

LEMMA ConsumerInit == Init => ConsumerInv
<1> SUFFICES ASSUME Init PROVE ConsumerInv
  OBVIOUS
<1>1. TypeOK /\ AtHead
  BY DEF Init, TypeOK, AtHead
<1>2. Len(queue) = 0
  BY DEF Init
<1> QED
  BY <1>1, <1>2 DEF Init, ConsumerInv, Distinct, OnlySent, AtLeastOnce, InOrder

LEMMA SendKeeps ==
    ASSUME ConsumerInv, NEW r \in Requests, Send(r)
    PROVE  ConsumerInv'
<1> USE DEF ConsumerInv, TypeOK
<1>1. /\ r \notin sent /\ sent' = sent \cup {r} /\ queue' = Append(queue, r)
      /\ unreadable' \in {unreadable, unreadable \cup {r}}
      /\ UNCHANGED <<state, answers>>
  BY DEF Send
<1>2. /\ queue' \in Seq(Requests) /\ Len(queue) \in Nat /\ Len(queue') = Len(queue) + 1
      /\ queue'[Len(queue) + 1] = r
      /\ \A i \in 1..Len(queue) : queue'[i] = queue[i] /\ queue[i] # r
  BY <1>1 DEF OnlySent
<1>3. AtHead'
  <2>1. queue # << >> => queue' # << >> /\ Head(queue') = Head(queue)
    BY <1>1
  <2> QED BY <1>1, <2>1 DEF AtHead
<1>4. Distinct'
  BY <1>2 DEF Distinct
<1>5. OnlySent' /\ AtLeastOnce'
  BY <1>1, <1>2 DEF OnlySent, AtLeastOnce
<1>6. InOrder'
  BY <1>1, <1>2 DEF InOrder, OnlySent
<1> QED BY <1>1, <1>2, <1>3, <1>4, <1>5, <1>6

LEMMA AnswerKeeps ==
    ASSUME ConsumerInv, Answer
    PROVE  ConsumerInv'
<1> USE DEF ConsumerInv, TypeOK
<1>1. PICK a \in Kinds : answers' = [answers EXCEPT ![Head(queue)] = @ \cup {a}]
  BY DEF Answer, Kinds
<1>2. /\ state = "handling" /\ state' = "returned" /\ UNCHANGED <<sent, unreadable, queue>>
      /\ Head(queue) \notin unreadable
      /\ queue # << >> /\ Head(queue) = queue[1] /\ 1 \in 1..Len(queue) /\ Head(queue) \in Requests
  BY DEF Answer, AtHead
<1>3. /\ answers' \in [Requests -> SUBSET Kinds] /\ answers'[queue[1]] # {}
      /\ \A r \in Requests : answers[r] \subseteq answers'[r]
      /\ \A r \in Requests \ {queue[1]} : answers'[r] = answers[r]
  BY <1>1, <1>2
<1>4. AtHead' /\ Distinct'
  BY <1>2, <1>3 DEF AtHead, Distinct
<1>5. OnlySent'
  BY <1>2, <1>3 DEF OnlySent
<1>6. AtLeastOnce'
  BY <1>2, <1>3 DEF AtLeastOnce
<1>7. InOrder'
  <2> SUFFICES ASSUME NEW i \in 2..Len(queue) PROVE answers'[queue[i]] = {}
    BY <1>2 DEF InOrder
  <2>1. i \in 1..Len(queue) /\ i # 1
    OBVIOUS
  <2>2. queue[i] # queue[1] /\ queue[i] \in Requests
    BY <1>2, <2>1 DEF Distinct
  <2> QED BY <1>3, <2>2 DEF InOrder
<1> QED BY <1>2, <1>3, <1>4, <1>5, <1>6, <1>7

LEMMA AcknowledgeKeeps ==
    ASSUME ConsumerInv, Acknowledge
    PROVE  ConsumerInv'
<1> USE DEF ConsumerInv, TypeOK
<1>1. /\ state = "returned" /\ state' = "idle" /\ queue' = Tail(queue)
      /\ UNCHANGED <<sent, unreadable, answers>> /\ queue # << >>
      /\ answers[queue[1]] # {} \/ queue[1] \in unreadable
  BY DEF Acknowledge, AtHead
<1>2. /\ queue' \in Seq(Requests) /\ Len(queue) \in Nat /\ Len(queue') = Len(queue) - 1
      /\ \A i \in 1..Len(queue') : queue'[i] = queue[i + 1] /\ i + 1 \in 2..Len(queue)
  BY <1>1
<1>3. AtHead'
  BY <1>1 DEF AtHead
<1>4. Distinct'
  BY <1>2 DEF Distinct
<1>5. OnlySent'
  BY <1>1, <1>2 DEF OnlySent
<1>6. AtLeastOnce'
  <2> SUFFICES ASSUME NEW r \in sent \ unreadable, answers[r] = {}
               PROVE  \E i \in 1..Len(queue') : queue'[i] = r
    BY <1>1 DEF AtLeastOnce
  <2>1. PICK i \in 1..Len(queue) : queue[i] = r
    BY DEF AtLeastOnce
  <2>2. i # 1
    BY <1>1, <2>1
  <2>3. i - 1 \in 1..Len(queue') /\ (i - 1) + 1 = i
    BY <1>2, <2>1, <2>2
  <2> QED BY <1>2, <2>1, <2>3
<1>7. InOrder'
  BY <1>1, <1>2 DEF InOrder
<1> QED BY <1>1, <1>2, <1>3, <1>4, <1>5, <1>6, <1>7

LEMMA ConsumerNext == ConsumerInv /\ [Next]_vars => ConsumerInv'
<1> SUFFICES ASSUME ConsumerInv, [Next]_vars PROVE ConsumerInv'
  OBVIOUS
<1>1. CASE Start \/ Take \/ Discard \/ Crash \/ UNCHANGED vars
  <2>1. UNCHANGED <<sent, unreadable, queue, answers>>
    BY <1>1 DEF Start, Take, Discard, Crash, vars
  <2>2. /\ state' \in {"down", "idle", "handling", "returned"}
        /\ state' = "handling" => queue # << >>
        /\ state' = "returned" => state = "returned" \/ (Head(queue) \in unreadable /\ queue # << >>)
    BY <1>1 DEF Start, Take, Discard, Crash, vars, ConsumerInv, TypeOK, AtHead
  <2>3. AtHead'
    BY <2>1, <2>2 DEF ConsumerInv, AtHead
  <2> QED
    BY <2>1, <2>2, <2>3 DEF ConsumerInv, TypeOK, Distinct, OnlySent, AtLeastOnce, InOrder
<1> QED
  BY <1>1, SendKeeps, AnswerKeeps, AcknowledgeKeeps DEF Next, Work

\* Readable events are answered at least once, in the order they were sent, and nothing else
\* is answered.
THEOREM DeliveryHolds == Safety => [](AtLeastOnce /\ OnlySent /\ InOrder)
<1>1. ConsumerInv => AtLeastOnce /\ OnlySent /\ InOrder
  BY DEF ConsumerInv
<1> QED BY ConsumerInit, ConsumerNext, <1>1, PTL DEF Safety

=============================================================================
