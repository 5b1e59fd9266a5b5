-------------------------- MODULE EventQueueProofs --------------------------
(***************************************************************************)
(* Proofs about EventQueue: for any number of consumers, any batch size    *)
(* and any bounds, it is a FIFO channel, and while events wait the         *)
(* consumers never all sleep through it.                                   *)
(***************************************************************************)
EXTENDS EventQueue, SequenceTheorems, TLAPS

\* A consumer between its look at the queue and its sleep holds the mutex, so
\* what it saw is still so.
HolderIsChecking ==
  /\ \A c \in Consumers : pc[c] = "checked" <=> holder = c
  /\ holder # NoThread => queue = <<>>

IInv == TypeOK /\ HolderIsChecking /\ FifoOrder /\ NeverAllAsleepWithWork

-----------------------------------------------------------------------------

LEMMA Associative ==
  ASSUME NEW p \in Seq(Events), NEW q \in Seq(Events), NEW r \in Seq(Events)
  PROVE  (p \o q) \o r = p \o (q \o r)
<1>1. p \o q \in Seq(Events) /\ q \o r \in Seq(Events)
  OBVIOUS
<1>2. (p \o q) \o r \in Seq(Events) /\ p \o (q \o r) \in Seq(Events)
  BY <1>1
<1>3. Len((p \o q) \o r) = Len(p \o (q \o r))
  BY <1>1
<1>4. \A i \in 1..Len((p \o q) \o r) : ((p \o q) \o r)[i] = (p \o (q \o r))[i]
  BY <1>1
<1>. QED BY ONLY <1>2, <1>3, <1>4, SeqEqual, Zenon

\* Moving the first n elements of q to the end of p: nothing is lost, and p
\* grows along p \o q.
LEMMA TakeFront ==
  ASSUME NEW p \in Seq(Events), NEW q \in Seq(Events), NEW n \in 1..Len(q)
  PROVE  /\ SubSeq(q, 1, n) \in Seq(Events)
         /\ SubSeq(q, n + 1, Len(q)) \in Seq(Events)
         /\ (p \o SubSeq(q, 1, n)) \o SubSeq(q, n + 1, Len(q)) = p \o q
         /\ p \o SubSeq(q, 1, n) = SubSeq(p \o q, 1, Len(p) + n)
<1> DEFINE a == SubSeq(q, 1, n)
           b == SubSeq(q, n + 1, Len(q))
<1>1. /\ a \in Seq(Events) /\ Len(a) = n
      /\ \A i \in 1..n : a[i] = q[i]
  BY LenProperties, ElementOfSeq, SubSeqProperties
<1>2. b \in Seq(Events)
  <2>1. \A i \in (n + 1)..Len(q) : q[i] \in Events
    BY LenProperties, ElementOfSeq
  <2>. QED BY <2>1, LenProperties, SubSeqProperties
<1>3. a \o b = q
  BY LenProperties, ConcatAdjacentSubSeq, SubSeqFull
<1>. HIDE DEF a, b
<1>4. (p \o a) \o b = p \o q
  <2>1. (p \o a) \o b = p \o (a \o b)
    <3>1. a \in Seq(Events) /\ b \in Seq(Events)
      BY <1>1, <1>2
    <3>. QED BY <3>1, Associative, Zenon
  <2>. QED BY <2>1, <1>3
<1>5. /\ p \o a \in Seq(Events)
      /\ Len(p \o a) = Len(p) + n
      /\ Len(p) + n \in Nat
  <2>1. a \in Seq(Events) /\ Len(a) = n /\ n \in Nat
    BY <1>1, LenProperties
  <2>2. p \o a \in Seq(Events) /\ Len(p \o a) = Len(p) + Len(a)
    BY <2>1, ConcatProperties, Zenon
  <2>3. Len(p) \in Nat
    BY LenProperties
  <2>. QED BY <2>1, <2>2, <2>3
<1>6. p \o a = SubSeq(p \o a, 1, Len(p) + n)
  BY <1>5, SubSeqFull
<1>7. SubSeq((p \o a) \o b, 1, Len(p) + n) = SubSeq(p \o a, 1, Len(p) + n)
  BY <1>2, <1>5, LenProperties, SubSeqOfConcat1
<1>8. p \o a = SubSeq(p \o q, 1, Len(p) + n)
  BY <1>4, <1>6, <1>7
<1>. QED BY <1>1, <1>2, <1>4, <1>8 DEF a, b

\* What is taken is the front of the queue, at least one event of it.
LEMMA LeastOfQueue ==
  ASSUME EventQueueAssumption, TypeOK, queue # <<>>,
         NEW size \in BatchSizes
  PROVE  /\ Least(size, Len(queue)) \in 1..Len(queue)
         /\ Least(size, Len(queue)) <= size /\ size \in Nat
  BY EmptySeq DEF EventQueueAssumption, TypeOK, Least

-----------------------------------------------------------------------------

LEMMA InitIInv == Init => IInv
<1> SUFFICES ASSUME Init PROVE IInv
  OBVIOUS
<1> USE EventQueueAssumption DEF Init, EventQueueAssumption
<1>1. <<>> \in Seq(Events) /\ <<>> \o <<>> = <<>>
  BY EmptySeq, ConcatEmptySeq
<1>2. TypeOK
  BY <1>1 DEF TypeOK
<1>3. HolderIsChecking /\ NeverAllAsleepWithWork
  BY DEF HolderIsChecking, NeverAllAsleepWithWork
<1>4. got \o queue = sent
  BY <1>1
<1>5. FifoOrder
  BY <1>4 DEF FifoOrder
<1>. QED BY <1>2, <1>3, <1>5 DEF IInv

\* A push, whichever way it notifies, leaves a consumer awake if one slept.
LEMMA EnqueueIInv ==
  ASSUME IInv, NEW s \in Seq(Events), Enqueue(s), NotifyOne \/ NotifyAll,
         UNCHANGED <<stopped, holder, stopping, calls, got>>
  PROVE  IInv'
<1> USE DEF IInv, Enqueue
<1>1. /\ TypeOK'
      /\ \A c \in Consumers : pc'[c] = "checked" <=> pc[c] = "checked"
  BY ConcatProperties DEF TypeOK, NotifyOne, NotifyAll, Asleep
<1>2. HolderIsChecking'
  BY <1>1 DEF HolderIsChecking
<1>3. FifoOrder'
  <2>1. (got \o queue) \o s = got \o (queue \o s)
    BY Associative, Zenon DEF TypeOK
  <2>. QED BY <2>1 DEF FifoOrder
<1>4. NeverAllAsleepWithWork'
  <2>1. Asleep # {} => \E c \in Consumers : pc'[c] = "woken"
    BY DEF TypeOK, NotifyOne, NotifyAll, Asleep
  <2>2. Asleep = {} => Asleep' = {}
    BY DEF TypeOK, NotifyOne, NotifyAll, Asleep
  <2>. QED BY <2>1, <2>2 DEF NeverAllAsleepWithWork
<1>. QED BY <1>1, <1>2, <1>3, <1>4

LEMMA TakeIInv ==
  ASSUME IInv, NEW c \in Consumers, NEW size \in BatchSizes, Take(c, size)
  PROVE  IInv'
<1> DEFINE n == Least(size, Len(queue))
<1>1. n \in 1..Len(queue)
  BY EventQueueAssumption, LeastOfQueue DEF Take, IInv
<1>2. /\ queue' \in Seq(Events) /\ got' \in Seq(Events)
      /\ got' \o queue' = got \o queue
  <2>. HIDE DEF n
  <2>1. got' = got \o SubSeq(queue, 1, n) /\ queue' = SubSeq(queue, n + 1, Len(queue))
    BY DEF Take, n
  <2>2. queue \in Seq(Events) /\ got \in Seq(Events)
    BY DEF IInv, TypeOK
  <2>3. /\ SubSeq(queue, 1, n) \in Seq(Events)
        /\ SubSeq(queue, n + 1, Len(queue)) \in Seq(Events)
        /\ (got \o SubSeq(queue, 1, n)) \o SubSeq(queue, n + 1, Len(queue))
             = got \o queue
    BY <1>1, <2>2, TakeFront, Zenon
  <2>. QED BY <2>1, <2>2, <2>3, ConcatProperties
<1>3. TypeOK'
  BY <1>2 DEF IInv, TypeOK, Take
<1>4. HolderIsChecking'
  BY DEF IInv, TypeOK, HolderIsChecking, Take, Looks, EventQueueAssumption
<1>5. FifoOrder'
  BY <1>2 DEF IInv, FifoOrder, Take
<1>6. NeverAllAsleepWithWork'
  BY DEF IInv, TypeOK, NeverAllAsleepWithWork, Take
<1>. QED BY <1>3, <1>4, <1>5, <1>6 DEF IInv

\* The steps of consumers and of stop() that leave the queue alone.
LEMMA WaitIInv ==
  ASSUME IInv, NEW c \in Consumers,
         TakeNothing(c) \/ GiveUp(c) \/ Check(c) \/ Block(c) \/ SpuriousWake(c)
           \/ Timeout(c)
  PROVE  IInv'
<1> USE EventQueueAssumption DEF IInv, TypeOK, EventQueueAssumption, Looks
<1>1. TypeOK'
  BY DEF TakeNothing, GiveUp, Check, Block, SpuriousWake, Timeout
<1>2. HolderIsChecking'
  BY DEF HolderIsChecking, TakeNothing, GiveUp, Check, Block, SpuriousWake,
         Timeout, Ready
<1>3. FifoOrder'
  BY DEF FifoOrder, TakeNothing, GiveUp, Check, Block, SpuriousWake, Timeout
<1>4. NeverAllAsleepWithWork'
  BY DEF NeverAllAsleepWithWork, HolderIsChecking, Asleep, TakeNothing, GiveUp,
         Check, Block, SpuriousWake, Timeout, Ready
<1>. QED BY <1>1, <1>2, <1>3, <1>4

LEMMA StopIInv ==
  ASSUME IInv, StopStore \/ StopNotify
  PROVE  IInv'
<1> USE DEF IInv, TypeOK
<1>1. TypeOK'
  <2>1. CASE StopStore
    BY <2>1 DEF StopStore
  <2>2. CASE StopNotify
    BY <2>2 DEF StopNotify, NotifyAll
  <2>. QED BY <2>1, <2>2
<1>2. HolderIsChecking' /\ FifoOrder'
  BY DEF HolderIsChecking, FifoOrder, StopStore, StopNotify, NotifyAll
<1>3. NeverAllAsleepWithWork'
  BY DEF NeverAllAsleepWithWork, Asleep, StopStore, StopNotify, NotifyAll
<1>. QED BY <1>1, <1>2, <1>3

LEMMA NextIInv == IInv /\ [Next]_vars => IInv'
<1> SUFFICES ASSUME IInv, [Next]_vars PROVE IInv'
  OBVIOUS
<1>1. ASSUME NEW e \in Events, Push(e) PROVE IInv'
  <2>1. <<e>> \in Seq(Events)
    OBVIOUS
  <2>. QED BY <1>1, <2>1, EnqueueIInv DEF Push
<1>2. ASSUME NEW e1 \in Events, NEW e2 \in Events, PushBatch(e1, e2) PROVE IInv'
  <2>1. <<e1, e2>> \in Seq(Events)
    OBVIOUS
  <2>. QED BY <1>2, <2>1, EnqueueIInv DEF PushBatch
<1>3. ASSUME NEW c \in Consumers, Consume(c) \/ SpuriousWake(c) \/ Timeout(c)
      PROVE  IInv'
  BY <1>3, TakeIInv, WaitIInv DEF Consume
<1>4. CASE StopStore \/ StopNotify
  BY <1>4, StopIInv
<1>5. CASE UNCHANGED vars
  BY <1>5 DEF IInv, TypeOK, HolderIsChecking, FifoOrder, NeverAllAsleepWithWork,
              Asleep, vars
<1>. QED BY <1>1, <1>2, <1>3, <1>4, <1>5 DEF Next

THEOREM Invariance == Spec => []IInv
  BY InitIInv, NextIInv, PTL DEF Spec

\* Every state has its type.
THEOREM TypeCorrect == Spec => []TypeOK
  BY Invariance, PTL DEF IInv

\* push, pop, pushBatch, popBatch and tryPopBatch together lose, duplicate and
\* reorder nothing.
THEOREM QueueIsFifo == Spec => []FifoOrder
  BY Invariance, PTL DEF IInv

\* The waits of the consumers and the notifications of push and pushBatch never
\* leave a waiting event to sleepers only.
THEOREM NoMissedPush == Spec => []NeverAllAsleepWithWork
  BY Invariance, PTL DEF IInv

-----------------------------------------------------------------------------

\* A push sends one or two events; nothing is delivered by it.
LEMMA EnqueueSends ==
  ASSUME NEW s \in [1..1 -> Events] \union [1..2 -> Events], sent' = sent \o s,
         UNCHANGED got
  PROVE  Channel!Send
<1>1. s \in UNION {[1..n -> Events] : n \in 1..2}
  OBVIOUS
<1>. QED BY <1>1 DEF Channel!Send

\* A take delivers the next events: those at the front of what is queued.
LEMMA TakeDelivers ==
  ASSUME IInv, NEW c \in Consumers, NEW size \in BatchSizes, Take(c, size)
  PROVE  Channel!Deliver
<1> DEFINE n == Least(size, Len(queue))
<1>1. n \in 1..Len(queue) /\ n <= size /\ size \in Nat
  BY EventQueueAssumption, LeastOfQueue DEF Take, IInv
<1>2. got' = got \o SubSeq(queue, 1, n) /\ UNCHANGED sent
  BY DEF Take
<1>. HIDE DEF n
<1>3. queue \in Seq(Events) /\ got \in Seq(Events) /\ got \o queue = sent
  BY DEF IInv, TypeOK, FifoOrder
<1>4. got' = SubSeq(sent, 1, Len(got) + n)
  BY <1>1, <1>2, <1>3, TakeFront
<1>5. /\ Len(got) + n \in (Len(got) + 1)..Len(sent)
      /\ Len(got) + n <= Len(got) + size
  BY <1>1, <1>3, ConcatProperties, LenProperties, EventQueueAssumption
  DEF EventQueueAssumption
<1>. QED BY <1>2, <1>4, <1>5 DEF Channel!Deliver

\* The queue with its threads implements the channel: what its two histories
\* do is what sending and delivering in order allows.
THEOREM ImplementsChannel == Spec => ImplementsFifo
<1>1. Init => Channel!Init
  BY DEF Init, Channel!Init
<1>2. IInv /\ [Next]_vars => [Channel!Next]_<<sent, got>>
  <2> SUFFICES ASSUME IInv, [Next]_vars, ~UNCHANGED <<sent, got>>
               PROVE  Channel!Next
    OBVIOUS
  <2>1. ASSUME NEW e \in Events, Push(e) PROVE Channel!Next
    <3>1. <<e>> \in [1..1 -> Events]
      OBVIOUS
    <3>. QED BY <2>1, <3>1, EnqueueSends DEF Push, Enqueue, Channel!Next
  <2>2. ASSUME NEW e1 \in Events, NEW e2 \in Events, PushBatch(e1, e2)
        PROVE  Channel!Next
    <3>1. <<e1, e2>> \in [1..2 -> Events]
      OBVIOUS
    <3>. QED BY <2>2, <3>1, EnqueueSends DEF PushBatch, Enqueue, Channel!Next
  <2>3. ASSUME NEW c \in Consumers, Consume(c) \/ SpuriousWake(c) \/ Timeout(c)
        PROVE  Channel!Next
    BY <2>3, TakeDelivers
    DEF Consume, TakeNothing, GiveUp, Check, Block, SpuriousWake, Timeout,
        Channel!Next
  <2>4. CASE StopStore \/ StopNotify
    BY <2>4 DEF StopStore, StopNotify
  <2>5. CASE UNCHANGED vars
    BY <2>5 DEF vars
  <2>. QED BY <2>1, <2>2, <2>3, <2>4, <2>5 DEF Next
<1>. QED BY <1>1, <1>2, Invariance, PTL DEF Spec, ImplementsFifo, Channel!Spec
=============================================================================
