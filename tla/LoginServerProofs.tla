-------------------------- MODULE LoginServerProofs --------------------------
(***************************************************************************)
(* Proofs about the pool, and about the server composed with it and with   *)
(* the event queue, for any number of workers, I/O threads and requests.   *)
(***************************************************************************)
EXTENDS LoginServer, SequenceTheorems, FiniteSetTheorems, TLAPS

\* The parts of the pool's state agree with each other.
PoolAgrees ==
  /\ stop <=> closing # "open"
  /\ \A w \in Workers :
       /\ at[w] # "run" => running[w] = NoTask
       /\ at[w] = "gone" => stop /\ tasks = <<>>
  /\ closing = "joined" => \A w \in Workers : at[w] = "gone"

NoTaskLost == started \o tasks = enqueued

PoolInv == PoolTypeOK /\ PoolAgrees /\ NoTaskLost /\ TasksAreClaimed

-----------------------------------------------------------------------------
(***************************************************************************)
(* The pool.                                                               *)
(***************************************************************************)

LEMMA TaskSequences ==
  ASSUME NEW p \in Seq(Tasks), NEW q \in Seq(Tasks), NEW t \in Tasks
  PROVE  /\ p \o Append(q, t) = Append(p \o q, t)
         /\ q # <<>> => /\ Append(p, Head(q)) \o Tail(q) = p \o q
                        /\ Head(q) \in Tasks /\ Tail(q) \in Seq(Tasks)
<1>1. p \o Append(q, t) = Append(p \o q, t)
  BY AppendProperties, ConcatProperties, SeqEqual
<1>2. ASSUME q # <<>>
      PROVE  /\ Append(p, Head(q)) \o Tail(q) = p \o q
             /\ Head(q) \in Tasks /\ Tail(q) \in Seq(Tasks)
  <2>1. Head(q) \in Tasks /\ Tail(q) \in Seq(Tasks)
    BY <1>2, HeadTailProperties
  <2>2. Append(p, Head(q)) \o Tail(q) \in Seq(Tasks) /\ p \o q \in Seq(Tasks)
    BY <2>1
  <2>3. Len(Append(p, Head(q)) \o Tail(q)) = Len(p \o q)
    BY <1>2, <2>1
  <2>4. \A i \in 1..Len(p \o q) : (Append(p, Head(q)) \o Tail(q))[i] = (p \o q)[i]
    BY <1>2, <2>1
  <2>5. Append(p, Head(q)) \o Tail(q) = p \o q
    BY ONLY <2>2, <2>3, <2>4, SeqEqual, Zenon
  <2>. QED BY <2>1, <2>5
<1>. QED BY <1>1, <1>2

LEMMA LookersCount ==
  /\ IsFiniteSet(Lookers)
  /\ Cardinality(Lookers) \in Nat
<1>1. Lookers \subseteq Workers
  BY DEF Lookers
<1>2. IsFiniteSet(Lookers)
  BY <1>1, ThreadPoolAssumption, FS_Subset DEF ThreadPoolAssumption
<1>. QED BY <1>2, FS_CardinalityType

\* A worker that looks again is one more.
LEMMA OneMoreLooks ==
  ASSUME PoolTypeOK, NEW w \in Workers, at[w] # "look",
         at' = [at EXCEPT ![w] = "look"]
  PROVE  Cardinality(Lookers') = Cardinality(Lookers) + 1
<1>1. Lookers' = Lookers \union {w} /\ w \notin Lookers
  BY DEF PoolTypeOK, Lookers
<1>. QED BY <1>1, LookersCount, FS_AddElement

\* One that stops looking is one fewer.
LEMMA OneLooksNoMore ==
  ASSUME PoolTypeOK, NEW w \in Workers, NEW place, place # "look",
         at[w] = "look", at' = [at EXCEPT ![w] = place]
  PROVE  Cardinality(Lookers') = Cardinality(Lookers) - 1
<1>1. Lookers' = Lookers \ {w} /\ w \in Lookers
  BY DEF PoolTypeOK, Lookers
<1>. QED BY <1>1, LookersCount, FS_RemoveElement

LEMMA InitPoolInv == PoolInit => PoolInv
<1> SUFFICES ASSUME PoolInit PROVE PoolInv
  OBVIOUS
<1> USE DEF PoolInit
<1>1. PoolTypeOK
  BY EmptySeq DEF PoolTypeOK
<1>2. PoolAgrees
  BY DEF PoolAgrees
<1>3. NoTaskLost
  <2>1. <<>> \in Seq(Tasks)
    BY EmptySeq
  <2>. QED BY <2>1, ConcatEmptySeq DEF NoTaskLost
<1>4. TasksAreClaimed
  BY DEF TasksAreClaimed, Sleepers
<1>. QED BY <1>1, <1>2, <1>3, <1>4 DEF PoolInv

LEMMA EnqueueTaskInv ==
  ASSUME PoolInv, NEW t \in Tasks, EnqueueTask(t)
  PROVE  PoolInv'
<1> USE DEF PoolInv, EnqueueTask
<1>1. PoolTypeOK'
  BY AppendProperties DEF PoolTypeOK
<1>2. PoolAgrees'
  BY DEF PoolAgrees
<1>3. NoTaskLost'
  BY TaskSequences DEF NoTaskLost, PoolTypeOK
<1>4. TasksAreClaimed'
  <2>1. Sleepers' = Sleepers /\ Lookers' = Lookers
    BY DEF Sleepers, Lookers
  <2>2. Len(tasks') = Len(tasks) + 1 /\ Len(tasks) \in Nat
    BY AppendProperties, LenProperties DEF PoolTypeOK
  <2>. QED BY <2>1, <2>2, LookersCount DEF TasksAreClaimed, PoolTypeOK
<1>. QED BY <1>1, <1>2, <1>3, <1>4

LEMMA NotifyOneInv ==
  ASSUME PoolInv, NotifyOne
  PROVE  PoolInv'
<1> USE DEF PoolInv, NotifyOne
<1>1. PoolTypeOK'
  BY DEF PoolTypeOK
<1>2. PoolAgrees'
  BY DEF PoolAgrees, Sleepers, PoolTypeOK
<1>3. NoTaskLost'
  BY DEF NoTaskLost
<1>4. TasksAreClaimed'
  <2>1. CASE Sleepers = {}
    BY <2>1 DEF TasksAreClaimed, Sleepers
  <2>2. CASE Sleepers # {}
    <3>1. PICK w \in Sleepers : at' = [at EXCEPT ![w] = "look"]
      BY <2>2
    <3>2. Cardinality(Lookers') = Cardinality(Lookers) + 1
      BY <3>1, OneMoreLooks DEF Sleepers
    <3>3. Len(tasks) <= owed + Cardinality(Lookers)
      BY <2>2 DEF TasksAreClaimed
    <3>4. Len(tasks) \in Nat
      BY LenProperties DEF PoolTypeOK
    <3>. QED BY <3>2, <3>3, <3>4, LookersCount DEF TasksAreClaimed, PoolTypeOK
  <2>. QED BY <2>1, <2>2
<1>. QED BY <1>1, <1>2, <1>3, <1>4

LEMMA TakeInv ==
  ASSUME PoolInv, NEW w \in Workers, Take(w)
  PROVE  PoolInv'
<1> USE DEF PoolInv, Take
<1>1. PoolTypeOK'
  BY HeadTailProperties, AppendProperties DEF PoolTypeOK
<1>2. PoolAgrees'
  BY DEF PoolAgrees, PoolTypeOK
<1>3. NoTaskLost'
  BY TaskSequences, HeadTailProperties DEF NoTaskLost, PoolTypeOK
<1>4. TasksAreClaimed'
  <2>1. Sleepers' = Sleepers
    BY DEF Sleepers, PoolTypeOK
  <2>2. Cardinality(Lookers') = Cardinality(Lookers) - 1
    BY OneLooksNoMore
  <2>3. Len(tasks') = Len(tasks) - 1 /\ Len(tasks) \in Nat
    BY HeadTailProperties, LenProperties DEF PoolTypeOK
  <2>. QED BY <2>1, <2>2, <2>3, LookersCount DEF TasksAreClaimed, PoolTypeOK
<1>. QED BY <1>1, <1>2, <1>3, <1>4

\* A worker moves between the places where it does not take a task.
LEMMA WorkerInv ==
  ASSUME PoolInv, NEW w \in Workers,
         Sleep(w) \/ Exit(w) \/ Finish(w) \/ WakeForNothing(w)
  PROVE  PoolInv'
<1> USE DEF PoolInv
<1>1. PoolTypeOK'
  BY DEF PoolTypeOK, Sleep, Exit, Finish, WakeForNothing
<1>2. PoolAgrees'
  BY DEF PoolAgrees, PoolTypeOK, Sleep, Exit, Finish, WakeForNothing
<1>3. NoTaskLost'
  BY DEF NoTaskLost, Sleep, Exit, Finish, WakeForNothing
<1>4. TasksAreClaimed'
  <2>1. CASE Sleep(w) \/ Exit(w)
    <3>1. Len(tasks') = 0
      BY <2>1 DEF Sleep, Exit
    <3>2. Cardinality(Lookers') = Cardinality(Lookers) - 1
      BY <2>1, OneLooksNoMore DEF Sleep, Exit
    <3>3. w \in Lookers /\ IsFiniteSet(Lookers)
      BY <2>1, LookersCount DEF Lookers, Sleep, Exit
    <3>4. Cardinality(Lookers) # 0
      BY <3>3, FS_EmptySet
    <3>. QED BY <2>1, <3>1, <3>2, <3>4, LookersCount
             DEF TasksAreClaimed, PoolTypeOK, Sleep, Exit
  <2>2. CASE Finish(w) \/ WakeForNothing(w)
    <3>1. Cardinality(Lookers') = Cardinality(Lookers) + 1
      BY <2>2, OneMoreLooks DEF Finish, WakeForNothing
    <3>2. Sleepers' \subseteq Sleepers
      BY <2>2 DEF Sleepers, PoolTypeOK, Finish, WakeForNothing
    <3>3. Len(tasks) \in Nat
      BY LenProperties DEF PoolTypeOK
    <3>. QED BY <2>2, <3>1, <3>2, <3>3, LookersCount
             DEF TasksAreClaimed, PoolTypeOK, Finish, WakeForNothing
  <2>. QED BY <2>1, <2>2
<1>. QED BY <1>1, <1>2, <1>3, <1>4

LEMMA CloseInv ==
  ASSUME PoolInv, Close
  PROVE  PoolInv'
<1> USE DEF PoolInv, Close
<1>1. PoolTypeOK'
  BY DEF PoolTypeOK, SetStop, NotifyEveryone, JoinWorkers
<1>2. PoolAgrees'
  BY DEF PoolAgrees, PoolTypeOK, SetStop, NotifyEveryone, JoinWorkers
<1>3. NoTaskLost'
  BY DEF NoTaskLost, SetStop, NotifyEveryone, JoinWorkers
<1>4. TasksAreClaimed'
  BY DEF TasksAreClaimed, Sleepers, Lookers, PoolTypeOK, SetStop,
         NotifyEveryone, JoinWorkers
<1>. QED BY <1>1, <1>2, <1>3, <1>4

LEMMA PoolStepInv == PoolInv /\ [PoolNext]_poolVars => PoolInv'
<1> SUFFICES ASSUME PoolInv, [PoolNext]_poolVars PROVE PoolInv'
  OBVIOUS
<1>1. CASE UNCHANGED poolVars
  BY <1>1 DEF poolVars, PoolInv, PoolTypeOK, PoolAgrees, NoTaskLost,
              TasksAreClaimed, Sleepers, Lookers
<1>2. CASE PoolNext
  BY <1>2, EnqueueTaskInv, NotifyOneInv, TakeInv, WorkerInv, CloseInv
  DEF PoolNext, Work
<1>. QED BY <1>1, <1>2

THEOREM PoolInvariance == PoolSpec => []PoolInv
  BY InitPoolInv, PoolStepInv, PTL DEF PoolSpec

\* Every state of the pool has its type.
THEOREM PoolTypeCorrect == PoolSpec => []PoolTypeOK
  BY PoolInvariance, PTL DEF PoolInv

\* enqueueTask's notify_one after the mutex and the workers' waits leave no task
\* unclaimed while a worker sleeps.
THEOREM NoTaskWaitsForNothing == PoolSpec => []TasksAreClaimed
  BY PoolInvariance, PTL DEF PoolInv

\* ~ThreadPool returns with every accepted task run.
THEOREM PoolDrains == PoolSpec => []DestructorDrains
<1>1. PoolInv => DestructorDrains
  <2> SUFFICES ASSUME PoolInv, closing = "joined"
               PROVE  started = enqueued /\ \A w \in Workers : running[w] = NoTask
    BY DEF DestructorDrains
  <2> USE DEF PoolInv
  <2>1. \A w \in Workers : at[w] = "gone"
    BY DEF PoolAgrees
  <2>2. tasks = <<>>
    BY <2>1, ThreadPoolAssumption DEF PoolAgrees, ThreadPoolAssumption
  <2>3. started = enqueued
    BY <2>2, ConcatEmptySeq DEF NoTaskLost, PoolTypeOK
  <2>. QED BY <2>1, <2>3 DEF PoolAgrees
<1>. QED BY <1>1, PoolInvariance, PTL

\* ~ThreadPool sets stop under the mutex and then notifies: no worker sleeps
\* through it, and the joins wait only for handlers that run.
THEOREM NobodySleepsThroughClose == PoolSpec => []CloseWakesEveryone
<1>1. PoolInit => CloseWakesEveryone
  BY DEF PoolInit, CloseWakesEveryone
<1>2. PoolInv /\ CloseWakesEveryone /\ [PoolNext]_poolVars => CloseWakesEveryone'
  BY DEF PoolInv, PoolAgrees, PoolTypeOK, CloseWakesEveryone, Sleepers, PoolNext, poolVars,
     EnqueueTask, NotifyOne, Work, Take, Sleep, Exit, Finish, WakeForNothing, Close, SetStop,
     NotifyEveryone, JoinWorkers
<1>. QED BY <1>1, <1>2, PoolInvariance, PTL DEF PoolSpec

\* A worker's take is the delivery of the next task.
LEMMA TakeDeliversNext ==
  ASSUME PoolInv, NEW w \in Workers, Take(w)
  PROVE  Line!Deliver
<1> DEFINE n == Len(started) + 1
<1>1. /\ started \in Seq(Tasks) /\ tasks \in Seq(Tasks) /\ tasks # <<>>
      /\ started \o tasks = enqueued
      /\ started' = Append(started, Head(tasks)) /\ UNCHANGED enqueued
  BY DEF PoolInv, PoolTypeOK, NoTaskLost, Take
<1>2. n \in (Len(started) + 1)..Len(enqueued) /\ n <= Len(started) + 1
  BY <1>1
<1>3. started' = SubSeq(enqueued, 1, n)
  BY <1>1
<1>. QED BY <1>1, <1>2, <1>3 DEF Line!Deliver

LEMMA PoolStepIsLineStep ==
  PoolInv /\ [PoolNext]_poolVars => [Line!Next]_<<enqueued, started>>
<1> SUFFICES ASSUME PoolInv, [PoolNext]_poolVars, ~UNCHANGED <<enqueued, started>>
             PROVE  Line!Next
  OBVIOUS
<1>1. ASSUME NEW t \in Tasks, EnqueueTask(t) PROVE Line!Next
  <2>1. <<t>> \in UNION {[1..n -> Tasks] : n \in 1..2}
    <3>1. <<t>> \in [1..1 -> Tasks]
      OBVIOUS
    <3>. QED BY <3>1
  <2>2. enqueued' = enqueued \o <<t>>
    BY <1>1 DEF EnqueueTask, PoolInv, PoolTypeOK
  <2>. QED BY <1>1, <2>1, <2>2 DEF EnqueueTask, Line!Next, Line!Send
<1>2. ASSUME NEW w \in Workers, Work(w) \/ WakeForNothing(w) PROVE Line!Next
  BY <1>2, TakeDeliversNext
  DEF Work, Sleep, Exit, Finish, WakeForNothing, Line!Next
<1>3. CASE NotifyOne \/ Close
  BY <1>3 DEF NotifyOne, Close, SetStop, NotifyEveryone, JoinWorkers
<1>4. CASE UNCHANGED poolVars
  BY <1>4 DEF poolVars
<1>. QED BY <1>1, <1>2, <1>3, <1>4 DEF PoolNext

\* The pool implements the channel: tasks start in the order of enqueueTask.
THEOREM PoolImplementsFifo == PoolSpec => PoolIsFifo
<1>1. PoolInit => Line!Init
  BY DEF PoolInit, Line!Init
<1>. QED BY <1>1, PoolStepIsLineStep, PoolInvariance, PTL
         DEF PoolSpec, PoolIsFifo, Line!Spec

-----------------------------------------------------------------------------
(***************************************************************************)
(* The server.                                                             *)
(***************************************************************************)

\* Where main's program does what.
LEMMA Places ==
  /\ Len(Script) = 24
  /\ \A i \in 1..24 :
       /\ Script[i] = "startIO" <=> i = 1
       /\ Script[i] = "startLoop" <=> i = 2
       /\ Script[i] = "serve" <=> i = 3
       /\ Script[i] = "running_" <=> i \in {4, 12}
       /\ Script[i] = "store" <=> i \in {5, 7, 13}
       /\ Script[i] = "notify" <=> i \in {6, 8, 14}
       /\ Script[i] = "stopIO" <=> i = 9
       /\ Script[i] = "joinIO" <=> i = 10
       /\ Script[i] = "drain" <=> i = 11
       /\ Script[i] = "joinLoop" <=> i = 15
       /\ Script[i] = "eventHandler_" <=> i = 16
       /\ Script[i] = "closePool" <=> i = 17
       /\ Script[i] = "wakePool" <=> i = 18
       /\ Script[i] = "joinPool" <=> i = 19
       /\ Script[i] = "pool" <=> i = 20
       /\ Script[i] = "characterManager" <=> i = 21
       /\ Script[i] = "networkManager" <=> i = 22
       /\ Script[i] = "eventQueue" <=> i = 23
       /\ Script[i] = "clientData" <=> i = 24
  BY DEF Script, StopServer, DestroyServer, StopLoop, StopQueue

LEMMA Passed ==
  ASSUME line \in 1..25
  PROVE  /\ Past("joinIO") <=> line > 10
         /\ Past("drain") <=> line > 11
         /\ Destroyed("eventHandler_") <=> line > 16
         /\ Destroyed("pool") <=> line > 20
         /\ Destroyed("characterManager") <=> line > 21
         /\ Destroyed("networkManager") <=> line > 22
  BY Places DEF Past, Destroyed

\* The loop holds events exactly while it gives them to the pool.
LoopAgrees ==
  /\ loop = "dispatch" => batch # <<>>
  /\ loop \notin {"dispatch", "notify"} => batch = <<>>

\* What is over when main has come as far as it has.
MainAgrees ==
  /\ line <= 2 => loop = "none"
  /\ line > 10 => io = {}
  /\ line > 11 => queue = <<>>
  /\ line > 15 => loop = "gone"
  /\ closing = "open" <=> line <= 17
  /\ closing = "stopped" <=> line = 18
  /\ closing = "joining" <=> line = 19

\* Until main drains the queue, what was pushed is in the pool, or in the
\* loop's batch, or in the queue.
NoRequestLost == line <= 10 => (enqueued \o batch) \o queue = sent

ServerInv ==
  /\ TypeOK /\ PoolInv
  /\ LoopAgrees /\ MainAgrees /\ NoRequestLost

-----------------------------------------------------------------------------

LEMMA InitServerInv == Init => ServerInv
<1> SUFFICES ASSUME Init PROVE ServerInv
  OBVIOUS
<1> USE DEF Init
<1>1. PoolInv
  BY InitPoolInv
<1>2. <<>> \in Seq(Tasks)
  BY EmptySeq
<1>3. Queue!TypeOK
  BY <1>2 DEF Queue!TypeOK, Queue!Init
<1>4. TypeOK
  <2>1. line \in 1..(Len(Script) + 1)
    BY Places
  <2>2. PoolTypeOK
    BY <1>1 DEF PoolInv
  <2>. QED BY <1>2, <1>3, <2>1, <2>2, Zenon DEF TypeOK
<1>5. LoopAgrees
  BY DEF LoopAgrees
<1>6. MainAgrees
  BY DEF MainAgrees, PoolInit
<1>7. NoRequestLost
  BY <1>2, ConcatEmptySeq DEF NoRequestLost, PoolInit, Queue!Init
<1>. QED BY <1>1, <1>4, <1>5, <1>6, <1>7 DEF ServerInv

\* No thread of the server does anything to the pool that is not an operation
\* of the pool.
LEMMA StepIsPoolStep ==
  ASSUME ServerInv, [Next]_vars
  PROVE  [PoolNext]_poolVars
<1>1. CASE LoopStep
  <2>1. CASE Dispatch
    <3>1. Head(batch) \in Tasks
      BY <2>1, HeadTailProperties DEF ServerInv, TypeOK, LoopAgrees, Dispatch
    <3>. QED BY <2>1, <3>1 DEF Dispatch, PoolNext
  <2>2. CASE NotifyWorker
    BY <2>2 DEF NotifyWorker, PoolNext
  <2>3. CASE TestRunning \/ WaitForEvents \/ TakeBatch \/ TakeNone \/ CleanUp
    BY <2>3 DEF TestRunning, WaitForEvents, TakeBatch, TakeNone, CleanUp
  <2>. QED BY <1>1, <2>1, <2>2, <2>3 DEF LoopStep
<1>2. CASE MainStep
  <2>1. CASE DestroyPool
    BY <2>1 DEF DestroyPool, PoolNext, Close
  <2>2. CASE StartIO \/ StartLoop \/ Serve \/ ClearRunning \/ StopTheQueue
               \/ StopIO \/ JoinIO
    BY <2>2 DEF StartIO, StartLoop, Serve, ClearRunning, StopTheQueue, StopIO,
                JoinIO
  <2>3. CASE DrainSome \/ DrainEnds \/ JoinLoop \/ Destroy
    BY <2>3 DEF DrainSome, DrainEnds, JoinLoop, Destroy
  <2>. QED BY <1>2, <2>1, <2>2, <2>3 DEF MainStep
<1>3. ASSUME NEW w \in Workers, WorkerStep(w) \/ WorkerWakesForNothing(w)
      PROVE  PoolNext
  BY <1>3 DEF WorkerStep, WorkerWakesForNothing, PoolNext
<1>4. ASSUME NEW e \in Tasks, PushEvent(e) PROVE UNCHANGED poolVars
  BY <1>4 DEF PushEvent
<1>5. ASSUME NEW i \in IoThreads, LeaveRun(i) PROVE UNCHANGED poolVars
  BY <1>5 DEF LeaveRun
<1>6. CASE TimePasses \/ LoopWakesForNothing \/ Signal
  BY <1>6 DEF TimePasses, LoopWakesForNothing, Signal
<1>7. CASE UNCHANGED vars
  BY <1>7 DEF vars
<1>. QED BY <1>1, <1>2, <1>3, <1>4, <1>5, <1>6, <1>7 DEF Next

LEMMA Split ==
  ASSUME NEW q \in Seq(Tasks), NEW n \in 1..Len(q)
  PROVE  /\ SubSeq(q, 1, n) \in Seq(Tasks) /\ SubSeq(q, 1, n) # <<>>
         /\ SubSeq(q, n + 1, Len(q)) \in Seq(Tasks)
         /\ SubSeq(q, 1, n) \o SubSeq(q, n + 1, Len(q)) = q
<1>1. /\ SubSeq(q, 1, n) \in Seq(Tasks) /\ Len(SubSeq(q, 1, n)) = n
  BY LenProperties, ElementOfSeq, SubSeqProperties
<1>2. SubSeq(q, n + 1, Len(q)) \in Seq(Tasks)
  <2>1. \A i \in (n + 1)..Len(q) : q[i] \in Tasks
    BY LenProperties, ElementOfSeq
  <2>. QED BY <2>1, LenProperties, SubSeqProperties
<1>3. SubSeq(q, 1, n) \o SubSeq(q, n + 1, Len(q)) = q
  BY LenProperties, ConcatAdjacentSubSeq, SubSeqFull
<1>4. SubSeq(q, 1, n) # <<>>
  BY <1>1
<1>. QED BY <1>1, <1>2, <1>3, <1>4

LEMMA AssociativeTasks ==
  ASSUME NEW p \in Seq(Tasks), NEW q \in Seq(Tasks), NEW r \in Seq(Tasks)
  PROVE  (p \o q) \o r = p \o (q \o r)
<1>1. p \o q \in Seq(Tasks) /\ q \o r \in Seq(Tasks)
  OBVIOUS
<1>2. (p \o q) \o r \in Seq(Tasks) /\ p \o (q \o r) \in Seq(Tasks)
  BY <1>1
<1>3. Len((p \o q) \o r) = Len(p \o (q \o r))
  BY <1>1
<1>4. \A i \in 1..Len((p \o q) \o r) : ((p \o q) \o r)[i] = (p \o (q \o r))[i]
  BY <1>1
<1>. QED BY ONLY <1>2, <1>3, <1>4, SeqEqual, Zenon

LEMMA TakenFromQueue ==
  ASSUME Queue!TypeOK, queue # <<>>, NEW size \in Nat \ {0}
  PROVE  Queue!Least(size, Len(queue)) \in 1..Len(queue)
  BY EmptySeq DEF Queue!TypeOK, Queue!Least

\* The operations of the queue, whoever of the two calls them.
LEMMA QueueStepType ==
  ASSUME Queue!TypeOK,
         \/ \E e \in Tasks : Queue!Push(e)
         \/ \E c \in {Loop, Main} :
              \/ Queue!Check(c) \/ Queue!Block(c) \/ Queue!GiveUp(c)
              \/ Queue!TakeNothing(c) \/ Queue!Timeout(c) \/ Queue!SpuriousWake(c)
              \/ \E size \in Nat \ {0} : Queue!Take(c, size)
         \/ Queue!StopStore \/ Queue!StopNotify
         \/ UNCHANGED queueVars
  PROVE  Queue!TypeOK'
<1>1. ASSUME NEW e \in Tasks, Queue!Push(e) PROVE Queue!TypeOK'
  <2>1. queue' \in Seq(Tasks) /\ sent' \in Seq(Tasks)
    BY <1>1, ConcatProperties DEF Queue!TypeOK, Queue!Push, Queue!Enqueue
  <2>2. qpc' \in [{Loop, Main} ->
                    {"idle", "checked", "asleep", "woken", "late", "gone"}]
    BY <1>1 DEF Queue!TypeOK, Queue!Push, Queue!NotifyOne, Queue!Asleep
  <2>. QED BY <1>1, <2>1, <2>2 DEF Queue!TypeOK, Queue!Push, Queue!Enqueue
<1>2. ASSUME NEW c \in {Loop, Main},
             \/ Queue!Check(c) \/ Queue!Block(c) \/ Queue!GiveUp(c)
             \/ Queue!TakeNothing(c) \/ Queue!Timeout(c) \/ Queue!SpuriousWake(c)
      PROVE  Queue!TypeOK'
  BY <1>2 DEF Queue!TypeOK, Queue!Check, Queue!Block, Queue!GiveUp,
              Queue!TakeNothing, Queue!Timeout, Queue!SpuriousWake
<1>3. ASSUME NEW c \in {Loop, Main}, NEW size \in Nat \ {0}, Queue!Take(c, size)
      PROVE  Queue!TypeOK'
  <2> DEFINE n == Queue!Least(size, Len(queue))
  <2>1. n \in 1..Len(queue)
    BY <1>3, TakenFromQueue DEF Queue!Take
  <2>2. queue' = SubSeq(queue, n + 1, Len(queue)) /\ got' = got \o SubSeq(queue, 1, n)
    BY <1>3 DEF Queue!Take
  <2>. HIDE DEF n
  <2>3. queue' \in Seq(Tasks) /\ got' \in Seq(Tasks)
    BY <2>1, <2>2, Split, ConcatProperties DEF Queue!TypeOK
  <2>. QED BY <1>3, <2>3 DEF Queue!TypeOK, Queue!Take
<1>4. CASE Queue!StopStore \/ Queue!StopNotify
  <2>1. CASE Queue!StopStore
    BY <2>1 DEF Queue!TypeOK, Queue!StopStore
  <2>2. CASE Queue!StopNotify
    BY <2>2 DEF Queue!TypeOK, Queue!StopNotify, Queue!NotifyAll
  <2>. QED BY <1>4, <2>1, <2>2
<1>5. CASE UNCHANGED queueVars
  BY <1>5 DEF queueVars, Queue!TypeOK
<1>. QED BY <1>1, <1>2, <1>3, <1>4, <1>5

\* The threads that serve I/O.
LEMMA IoServerInv ==
  ASSUME ServerInv, PoolInv',
         \/ \E e \in Tasks : PushEvent(e)
         \/ \E i \in IoThreads : LeaveRun(i)
  PROVE  ServerInv'
<1> USE DEF ServerInv
<1>1. ASSUME NEW e \in Tasks, PushEvent(e) PROVE ServerInv'
  <2> USE <1>1 DEF PushEvent
  <2>1. Queue!TypeOK'
    BY QueueStepType DEF TypeOK
  <2>2. TypeOK'
    BY <2>1 DEF TypeOK, PoolInv, loopVars, mainVars, ioVars
  <2>3. LoopAgrees'
    BY DEF LoopAgrees, loopVars
  <2>5. MainAgrees'
    <3>1. line \in 1..25
      BY Places DEF TypeOK
    <3>. QED BY <3>1 DEF MainAgrees, loopVars, mainVars, ioVars, poolVars
  <2>4. NoRequestLost'
    <3>1. queue' = queue \o <<e>> /\ sent' = sent \o <<e>>
      BY DEF Queue!Push, Queue!Enqueue
    <3>2. enqueued \o batch \in Seq(Tasks) /\ queue \in Seq(Tasks)
      BY DEF TypeOK, PoolTypeOK, Queue!TypeOK
    <3>3. <<e>> \in Seq(Tasks)
      OBVIOUS
    <3>4. ((enqueued \o batch) \o queue) \o <<e>> = (enqueued \o batch) \o (queue \o <<e>>)
      BY <3>2, <3>3, AssociativeTasks, Zenon
    <3>. QED BY <3>1, <3>4 DEF NoRequestLost, poolVars, loopVars, mainVars
  <2>. QED BY <2>2, <2>3, <2>4, <2>5
<1>2. ASSUME NEW i \in IoThreads, LeaveRun(i) PROVE ServerInv'
  <2> USE <1>2 DEF LeaveRun
  <2>1. Queue!TypeOK'
    BY QueueStepType DEF TypeOK
  <2>2. TypeOK'
    BY <2>1 DEF TypeOK, PoolInv, loopVars, mainVars
  <2>3. LoopAgrees' /\ MainAgrees' /\ NoRequestLost'
    BY DEF LoopAgrees, MainAgrees, NoRequestLost, loopVars, mainVars, poolVars,
           queueVars
  <2>. QED BY <2>2, <2>3
<1>. QED BY <1>1, <1>2

\* Steps that only concern the pool, and the signal.
LEMMA WorkerServerInv ==
  ASSUME ServerInv, PoolInv', UNCHANGED <<queueVars, loopVars, line, ioVars>>,
         signalled' \in BOOLEAN, UNCHANGED <<closing, enqueued>>
  PROVE  ServerInv'
<1> USE DEF ServerInv
<1>1. Queue!TypeOK'
  BY QueueStepType DEF TypeOK
<1>2. TypeOK'
  BY <1>1 DEF TypeOK, PoolInv, loopVars, ioVars
<1>3. LoopAgrees' /\ MainAgrees' /\ NoRequestLost'
  BY DEF LoopAgrees, MainAgrees, NoRequestLost, loopVars, ioVars, queueVars
<1>. QED BY <1>2, <1>3

\* The event loop, and what wakes it.
LEMMA LoopServerInv ==
  ASSUME ServerInv, PoolInv', LoopStep \/ TimePasses \/ LoopWakesForNothing
  PROVE  ServerInv'
<1> USE DEF ServerInv
<1>1. line \in 1..25
  BY Places DEF TypeOK
<1>2. /\ Queue!TypeOK /\ PoolTypeOK /\ PoolTypeOK'
      /\ batch \in Seq(Tasks) /\ queue \in Seq(Tasks) /\ enqueued \in Seq(Tasks)
  BY DEF TypeOK, PoolInv, Queue!TypeOK, PoolTypeOK
<1>3. CASE TestRunning \/ CleanUp
  <2> USE <1>3 DEF TestRunning, CleanUp
  <2>1. Queue!TypeOK'
    BY <1>2, QueueStepType
  <2>2. TypeOK'
    BY <1>2, <2>1 DEF TypeOK, ioVars, mainVars
  <2>3. LoopAgrees' /\ NoRequestLost'
    BY DEF LoopAgrees, NoRequestLost, poolVars, queueVars, mainVars
  <2>4. MainAgrees'
    BY <1>1 DEF MainAgrees, poolVars, queueVars, ioVars, mainVars
  <2>. QED BY <2>2, <2>3, <2>4
<1>4. CASE WaitForEvents \/ TimePasses \/ LoopWakesForNothing
  <2> USE <1>4 DEF WaitForEvents, TimePasses, LoopWakesForNothing
  <2>1. Queue!TypeOK'
    BY <1>2, QueueStepType
  <2>2. TypeOK'
    BY <1>2, <2>1 DEF TypeOK, loopVars, ioVars, mainVars
  <2>3. UNCHANGED <<queue, sent>>
    BY DEF Queue!Check, Queue!Block, Queue!Timeout, Queue!SpuriousWake
  <2>4. LoopAgrees' /\ NoRequestLost' /\ MainAgrees'
    BY <2>3 DEF LoopAgrees, NoRequestLost, MainAgrees, poolVars, loopVars,
                ioVars, mainVars
  <2>. QED BY <2>2, <2>4
<1>5. CASE TakeNone
  <2> USE <1>5 DEF TakeNone
  <2>1. Queue!TypeOK'
    BY <1>2, QueueStepType
  <2>2. TypeOK'
    BY <1>2, <2>1 DEF TypeOK, ioVars, mainVars
  <2>3. UNCHANGED <<queue, sent>>
    BY DEF Queue!GiveUp, Queue!TakeNothing
  <2>4. LoopAgrees' /\ NoRequestLost'
    BY <2>3 DEF LoopAgrees, NoRequestLost, poolVars, mainVars
  <2>5. MainAgrees'
    BY <1>1, <2>3 DEF MainAgrees, poolVars, ioVars, mainVars
  <2>. QED BY <2>2, <2>4, <2>5
<1>6. CASE TakeBatch
  <2> USE <1>6 DEF TakeBatch
  <2> DEFINE n == Queue!Least(BatchSize, Len(queue))
  <2>1. queue # <<>> /\ UNCHANGED sent
    BY DEF Queue!Take
  <2>2. n \in 1..Len(queue)
    BY <1>2, <2>1, TakenFromQueue, LoginServerAssumption DEF LoginServerAssumption
  <2>3. batch' = SubSeq(queue, 1, n) /\ queue' = SubSeq(queue, n + 1, Len(queue))
    BY DEF Queue!Take
  <2>4. Queue!TypeOK'
    <3>1. BatchSize \in Nat \ {0}
      BY LoginServerAssumption DEF LoginServerAssumption
    <3>. QED BY <1>2, <3>1, QueueStepType
  <2>. HIDE DEF n
  <2>5. batch' \in Seq(Tasks) /\ batch' # <<>> /\ queue' \in Seq(Tasks)
        /\ batch' \o queue' = queue
    BY <1>2, <2>2, <2>3, Split
  <2>6. TypeOK'
    BY <1>2, <2>4, <2>5 DEF TypeOK, ioVars, mainVars
  <2>7. LoopAgrees'
    BY <2>5 DEF LoopAgrees
  <2>8. NoRequestLost'
    <3>1. batch = <<>> /\ enqueued \o batch = enqueued
      BY <1>2, ConcatEmptySeq DEF LoopAgrees
    <3>2. (enqueued \o batch') \o queue' = enqueued \o (batch' \o queue')
      BY <1>2, <2>5, AssociativeTasks, Zenon
    <3>. QED BY <2>1, <2>5, <3>1, <3>2 DEF NoRequestLost, poolVars, mainVars
  <2>9. MainAgrees'
    BY <1>1, <2>1 DEF MainAgrees, poolVars, ioVars, mainVars
  <2>. QED BY <2>6, <2>7, <2>8, <2>9
<1>7. CASE Dispatch
  <2> USE <1>7 DEF Dispatch
  <2>1. batch # <<>> /\ batch' = Tail(batch) /\ enqueued' = Append(enqueued, Head(batch))
        /\ UNCHANGED closing
    BY DEF LoopAgrees, EnqueueTask
  <2>2. batch' \in Seq(Tasks) /\ enqueued' \o batch' = enqueued \o batch
    BY <1>2, <2>1, TaskSequences, HeadTailProperties
  <2>3. Queue!TypeOK'
    BY <1>2, QueueStepType
  <2>4. TypeOK'
    BY <1>2, <2>2, <2>3 DEF TypeOK, ioVars, mainVars
  <2>5. LoopAgrees'
    BY DEF LoopAgrees
  <2>6. NoRequestLost'
    BY <2>2 DEF NoRequestLost, queueVars, mainVars
  <2>7. MainAgrees'
    BY <1>1, <2>1 DEF MainAgrees, queueVars, ioVars, mainVars
  <2>. QED BY <2>4, <2>5, <2>6, <2>7
<1>8. CASE NotifyWorker
  <2> USE <1>8 DEF NotifyWorker
  <2>1. Queue!TypeOK'
    BY <1>2, QueueStepType
  <2>2. TypeOK'
    BY <1>2, <2>1 DEF TypeOK, ioVars, mainVars
  <2>3. UNCHANGED <<enqueued, closing>>
    BY DEF NotifyOne
  <2>4. LoopAgrees' /\ NoRequestLost'
    BY <2>3 DEF LoopAgrees, NoRequestLost, queueVars, mainVars
  <2>5. MainAgrees'
    BY <1>1, <2>3 DEF MainAgrees, queueVars, ioVars, mainVars
  <2>. QED BY <2>2, <2>4, <2>5
<1>. QED BY <1>3, <1>4, <1>5, <1>6, <1>7, <1>8 DEF LoopStep

\* An operation of main, at its place.
LEMMA Executed ==
  ASSUME TypeOK, NEW op, Execute(op)
  PROVE  /\ line \in 1..24 /\ line' = line + 1 /\ line' \in 1..(Len(Script) + 1)
         /\ Script[line] = op /\ UNCHANGED signalled
<1>1. Len(Script) = 24
  BY Places
<1>2. line \in 1..25
  BY <1>1 DEF TypeOK
<1>. QED BY <1>1, <1>2 DEF Execute, At

\* main, but for the drain.
LEMMA MainServerInv ==
  ASSUME ServerInv, PoolInv', MainStep, ~DrainSome, ~DrainEnds
  PROVE  ServerInv'
<1> USE DEF ServerInv
<1>1. PICK op : Execute(op)
  BY DEF MainStep, StartIO, StartLoop, Serve, ClearRunning, StopTheQueue, StopIO,
         JoinIO, JoinLoop, DestroyPool, Destroy
<1>2. line' = line + 1 /\ line \in 1..24 /\ line' \in 1..(Len(Script) + 1)
      /\ UNCHANGED signalled
  BY <1>1, Executed
<1>3. /\ UNCHANGED <<queue, sent, batch>>
      /\ Queue!TypeOK' /\ loopRuns' \in BOOLEAN /\ ioStopped' \in BOOLEAN
  <2>1. CASE StopTheQueue
    <3>1. Queue!TypeOK'
      BY <2>1, QueueStepType DEF StopTheQueue, TypeOK
    <3>. QED BY <2>1, <3>1
         DEF StopTheQueue, Queue!StopStore, Queue!StopNotify, TypeOK, loopVars, ioVars
  <2>2. CASE UNCHANGED queueVars
    <3>1. Queue!TypeOK'
      BY <2>2, QueueStepType DEF TypeOK
    <3>. QED BY <2>2, <3>1
         DEF MainStep, StartIO, StartLoop, Serve, ClearRunning, StopTheQueue,
             StopIO, JoinIO, JoinLoop, DestroyPool, Destroy, TypeOK, loopVars,
             ioVars, queueVars
  <2>. QED BY <2>1, <2>2
       DEF MainStep, StartIO, StartLoop, Serve, ClearRunning, StopIO, JoinIO,
           JoinLoop, DestroyPool, Destroy
<1>4. /\ loop' = loop \/ (line = 2 /\ loop' = "test")
      /\ io' = io \/ (line = 1 /\ io' = IoThreads)
      /\ line = 10 => io = {}
      /\ line = 15 => loop = "gone"
  <2>1. ASSUME NEW o, Execute(o)
        PROVE  /\ o = "startLoop" <=> line = 2
               /\ o = "startIO" <=> line = 1
               /\ o = "joinIO" <=> line = 10
               /\ o = "joinLoop" <=> line = 15
    BY <2>1, Executed, Places
  <2>2. CASE StartIO \/ JoinIO
    BY <2>1, <2>2 DEF StartIO, JoinIO, loopVars, ioVars
  <2>3. CASE StartLoop \/ JoinLoop
    BY <2>1, <2>3 DEF StartLoop, JoinLoop, loopVars, ioVars
  <2>4. CASE Serve \/ ClearRunning \/ StopIO
    BY <2>1, <2>4 DEF Serve, ClearRunning, StopIO, loopVars, ioVars
  <2>5. CASE StopTheQueue \/ DestroyPool \/ Destroy
    BY <2>1, <2>5 DEF StopTheQueue, DestroyPool, Destroy, loopVars, ioVars
  <2>. QED BY <2>2, <2>3, <2>4, <2>5 DEF MainStep
<1>5. /\ line = 17 => closing' = "stopped"
      /\ line = 18 => closing' = "joining"
      /\ line = 19 => closing' = "joined"
      /\ line \notin {17, 18, 19} => UNCHANGED closing
      /\ UNCHANGED enqueued
      /\ line # 11
  <2>1. ASSUME NEW o, Execute(o)
        PROVE  /\ o = "closePool" <=> line = 17
               /\ o = "wakePool" <=> line = 18
               /\ o = "joinPool" <=> line = 19
               /\ o = "drain" <=> line = 11
    BY <2>1, Executed, Places
  <2>2. CASE DestroyPool
    BY <2>1, <2>2, <1>1 DEF DestroyPool, SetStop, NotifyEveryone, JoinWorkers
  <2>3. CASE ~DestroyPool
    BY <2>1, <2>3
       DEF MainStep, StartIO, StartLoop, Serve, ClearRunning, StopTheQueue,
           StopIO, JoinIO, JoinLoop, Destroy, poolVars
  <2>. QED BY <2>2, <2>3
<1>6. TypeOK'
  <2>1. loop' \in {"none", "test", "pop", "dispatch", "notify", "clean", "gone"}
    BY <1>4 DEF TypeOK
  <2>2. io' \subseteq IoThreads
    BY <1>4 DEF TypeOK
  <2>. QED BY <1>2, <1>3, <2>1, <2>2 DEF TypeOK, PoolInv
<1>7. LoopAgrees'
  BY <1>3, <1>4 DEF LoopAgrees, MainAgrees
<1>8. MainAgrees'
  BY <1>2, <1>3, <1>4, <1>5 DEF MainAgrees
<1>9. NoRequestLost'
  BY <1>2, <1>3, <1>5 DEF NoRequestLost
<1>. QED BY <1>6, <1>7, <1>8, <1>9

LEMMA DrainServerInv ==
  ASSUME ServerInv, PoolInv', DrainSome \/ DrainEnds
  PROVE  ServerInv'
<1> USE DEF ServerInv
<1>1. CASE DrainSome
  <2> USE <1>1 DEF DrainSome
  <2>1. line = 11
    <3>1. Len(Script) = 24
      BY Places
    <3>2. line \in 1..24 /\ Script[line] = "drain"
      BY <3>1 DEF TypeOK, At
    <3>. QED BY <3>2, Places
  <2>2. Queue!TypeOK'
    BY QueueStepType DEF TypeOK, DrainSize
  <2>3. TypeOK'
    BY <2>2 DEF TypeOK, PoolInv, loopVars, mainVars, ioVars
  <2>4. LoopAgrees' /\ MainAgrees' /\ NoRequestLost'
    BY <2>1 DEF LoopAgrees, MainAgrees, NoRequestLost, poolVars, loopVars,
                mainVars, ioVars
  <2>. QED BY <2>3, <2>4
<1>2. CASE DrainEnds
  <2> USE <1>2 DEF DrainEnds
  <2>1. line = 11 /\ line' = 12 /\ line' \in 1..(Len(Script) + 1)
        /\ UNCHANGED signalled
    BY Executed, Places
  <2>2. queue = <<>> /\ UNCHANGED queue
    BY DEF Queue!TakeNothing
  <2>3. Queue!TypeOK'
    BY QueueStepType DEF TypeOK
  <2>4. TypeOK'
    BY <2>1, <2>3 DEF TypeOK, PoolInv, loopVars, ioVars
  <2>5. LoopAgrees' /\ MainAgrees' /\ NoRequestLost'
    BY <2>1, <2>2 DEF LoopAgrees, MainAgrees, NoRequestLost, poolVars, loopVars,
                      ioVars
  <2>. QED BY <2>4, <2>5
<1>. QED BY <1>1, <1>2

LEMMA NextServerInv == ServerInv /\ [Next]_vars => ServerInv'
<1> SUFFICES ASSUME ServerInv, [Next]_vars PROVE ServerInv'
  OBVIOUS
<1>1. PoolInv'
  BY StepIsPoolStep, PoolStepInv DEF ServerInv
<1>2. CASE (\E e \in Tasks : PushEvent(e)) \/ (\E i \in IoThreads : LeaveRun(i))
  BY <1>1, <1>2, IoServerInv
<1>3. CASE LoopStep \/ TimePasses \/ LoopWakesForNothing
  BY <1>1, <1>3, LoopServerInv
<1>4. CASE MainStep
  BY <1>1, <1>4, MainServerInv, DrainServerInv
<1>5. ASSUME NEW w \in Workers, WorkerStep(w) \/ WorkerWakesForNothing(w)
      PROVE  ServerInv'
  <2>1. UNCHANGED <<queueVars, loopVars, mainVars, ioVars, closing, enqueued>>
    BY <1>5 DEF WorkerStep, WorkerWakesForNothing, Work, Take, Sleep, Exit,
                Finish, WakeForNothing
  <2>. QED BY <1>1, <2>1, WorkerServerInv DEF mainVars, ServerInv, TypeOK
<1>6. CASE Signal \/ UNCHANGED vars
  BY <1>1, <1>6, WorkerServerInv
  DEF Signal, vars, poolVars, mainVars, ServerInv, TypeOK
<1>. QED BY <1>2, <1>3, <1>4, <1>5, <1>6 DEF Next

THEOREM ServerInvariance == Spec => []ServerInv
  BY InitServerInv, NextServerInv, PTL DEF Spec

\* Every state of the server has its type.
THEOREM TypeCorrect == Spec => []TypeOK
  BY ServerInvariance, PTL DEF ServerInv

\* The server uses its pool as the pool is meant to be used: what is proved of
\* the pool by itself holds of it in the server.
THEOREM ServerImplementsPool == Spec => PoolSpec
<1>1. Init => PoolInit
  BY DEF Init
<1>2. ServerInv /\ [Next]_vars => [PoolNext]_poolVars
  BY StepIsPoolStep
<1>. QED BY <1>1, <1>2, ServerInvariance, PTL DEF Spec, PoolSpec

\* So in the server too no task waits for nothing, no worker sleeps through the
\* end of the pool, and the pool ends with every request run.
THEOREM ServerPoolKeepsItsPromises ==
  Spec => [](TasksAreClaimed /\ CloseWakesEveryone /\ DestructorDrains) /\ PoolIsFifo
BY ServerImplementsPool, NoTaskWaitsForNothing, NobodySleepsThroughClose, PoolDrains,
   PoolImplementsFifo, PTL

\* Nor does any thread do anything to the queue that is not an operation of the
\* queue.
LEMMA StepIsQueueStep ==
  ASSUME [Next]_vars
  PROVE  [Queue!Next]_queueVars
<1>1. ASSUME NEW e \in Tasks, PushEvent(e) PROVE Queue!Next
  BY <1>1 DEF PushEvent, Queue!Next
<1>2. CASE LoopStep \/ TimePasses \/ LoopWakesForNothing
  BY <1>2
  DEF LoopStep, TestRunning, WaitForEvents, TakeBatch, TakeNone, Dispatch, NotifyWorker,
      CleanUp, TimePasses, LoopWakesForNothing, Queue!Next, Queue!Consume
<1>3. CASE MainStep
  BY <1>3
  DEF MainStep, StartIO, StartLoop, Serve, ClearRunning, StopTheQueue, StopIO, JoinIO,
      DrainSome, DrainEnds, JoinLoop, DestroyPool, Destroy, Queue!Next, Queue!Consume
<1>4. CASE \/ \E i \in IoThreads : LeaveRun(i)
           \/ \E w \in Workers : WorkerStep(w) \/ WorkerWakesForNothing(w)
           \/ Signal \/ UNCHANGED vars
  BY <1>4 DEF LeaveRun, WorkerStep, WorkerWakesForNothing, Signal, vars
<1>. QED BY <1>1, <1>2, <1>3, <1>4 DEF Next

\* The server uses its queue as the queue is meant to be used, with the loop
\* and the drain of main as its consumers.
THEOREM ServerImplementsQueue == Spec => Queue!Spec
<1>1. Init => Queue!Init
  BY DEF Init
<1>2. [Next]_vars => [Queue!Next]_(Queue!vars)
  BY StepIsQueueStep DEF queueVars, Queue!vars
<1>. QED BY <1>1, <1>2, PTL DEF Spec, Queue!Spec

\* What is proved of EventQueue by itself, of the queue of the server.
Alone == INSTANCE EventQueueProofs WITH
  Consumers <- {Loop, Main}, Timed <- {Loop}, Events <- Tasks,
  BatchSizes <- {BatchSize, DrainSize}, MaxStops <- 3, pc <- qpc

LEMMA AloneAssumption == Alone!EventQueueAssumption
  BY LoginServerAssumption DEF LoginServerAssumption, DrainSize, Alone!EventQueueAssumption

LEMMA ServerQueueAlone == Spec => Alone!Spec
<1>1. Queue!Init => Alone!Init
  BY DEF Queue!Init, Alone!Init
<1>2. [Queue!Next]_(Queue!vars) => [Alone!Next]_(Alone!vars)
  BY DEF
      Queue!Next, Alone!Next, Queue!Push, Alone!Push, Queue!PushBatch, Alone!PushBatch,
      Queue!Enqueue, Alone!Enqueue, Queue!NotifyOne, Alone!NotifyOne, Queue!NotifyAll,
      Alone!NotifyAll, Queue!Asleep, Alone!Asleep, Queue!Consume, Alone!Consume,
      Queue!Take, Alone!Take, Queue!Least, Alone!Least, Queue!Looks, Alone!Looks,
      Queue!Ready, Alone!Ready, Queue!TakeNothing, Alone!TakeNothing, Queue!GiveUp,
      Alone!GiveUp, Queue!Check, Alone!Check, Queue!Block, Alone!Block, Queue!SpuriousWake,
      Alone!SpuriousWake, Queue!Timeout, Alone!Timeout, Queue!StopStore, Alone!StopStore,
      Queue!StopNotify, Alone!StopNotify, Queue!vars, Alone!vars
<1>. QED BY <1>1, <1>2, ServerImplementsQueue, PTL DEF Queue!Spec, Alone!Spec

\* So the queue between the I/O threads and the loop is a FIFO channel in the
\* server too, main's drain included.
THEOREM ServerQueueIsFifo == Spec => Queue!ImplementsFifo
<1>1. Alone!Spec => Alone!ImplementsFifo
  BY AloneAssumption, Alone!ImplementsChannel
<1>2. Alone!ImplementsFifo => Queue!ImplementsFifo
  BY PTL
  DEF Alone!ImplementsFifo, Queue!ImplementsFifo, Alone!Channel!Spec, Queue!Channel!Spec,
      Alone!Channel!Init, Queue!Channel!Init, Alone!Channel!Next, Queue!Channel!Next,
      Alone!Channel!Send, Queue!Channel!Send, Alone!Channel!Deliver, Queue!Channel!Deliver
<1>. QED BY <1>1, <1>2, ServerQueueAlone, PTL

\* main never waits for events, so that a push wakes the loop if it sleeps.
LoopListens == qpc[Main] \in {"idle", "gone"} /\ LoopHearsOfRequests

LEMMA ListeningStep ==
  ASSUME LoopListens, Alone!IInv, ServerInv, [Next]_vars
  PROVE  LoopListens'
<1> USE DEF LoopListens, LoopHearsOfRequests
<1>1. /\ Loop # Main
      /\ qpc \in [{Loop, Main} -> {"idle", "checked", "asleep", "woken", "late", "gone"}]
      /\ qpc[Loop] = "checked" => queue = <<>>
  BY LoginServerAssumption
  DEF LoginServerAssumption, Alone!IInv, Alone!TypeOK, Alone!HolderIsChecking
<1>2. ASSUME NEW e \in Tasks, PushEvent(e) PROVE LoopListens'
  <2>1. qpc[Loop] = "asleep" => qpc' = [qpc EXCEPT ![Loop] = "woken"]
    BY <1>1, <1>2 DEF PushEvent, Queue!Push, Queue!NotifyOne, Queue!Asleep
  <2>2. qpc[Loop] # "asleep" => qpc' = qpc
    BY <1>1, <1>2 DEF PushEvent, Queue!Push, Queue!NotifyOne, Queue!Asleep
  <2>. QED BY <1>1, <2>1, <2>2
<1>3. CASE WaitForEvents
  BY <1>1, <1>3 DEF WaitForEvents, Queue!Check, Queue!Block
<1>4. CASE TakeBatch \/ TakeNone \/ TimePasses \/ LoopWakesForNothing
  BY <1>1, <1>4 DEF TakeBatch, TakeNone, TimePasses, LoopWakesForNothing,
     Queue!Take, Queue!GiveUp, Queue!TakeNothing, Queue!Timeout, Queue!SpuriousWake
<1>5. CASE StopTheQueue
  BY <1>1, <1>5 DEF StopTheQueue, Queue!StopStore, Queue!StopNotify, Queue!NotifyAll
<1>6. CASE DrainSome
  <2>1. qpc' = [qpc EXCEPT ![Main] = "idle"] /\ queue # <<>>
    BY <1>6 DEF DrainSome, Queue!Take
  <2>. QED BY <1>1, <2>1
<1>7. CASE DrainEnds
  BY <1>1, <1>7 DEF DrainEnds, Queue!TakeNothing
<1>8. CASE UNCHANGED queueVars
  BY <1>8 DEF queueVars
<1>9. \/ \E e \in Tasks : PushEvent(e)
      \/ WaitForEvents \/ TakeBatch \/ TakeNone \/ TimePasses \/ LoopWakesForNothing
      \/ StopTheQueue \/ DrainSome \/ DrainEnds
      \/ UNCHANGED queueVars
  BY DEF Next, LoopStep, TestRunning, Dispatch, NotifyWorker, CleanUp, MainStep, StartIO,
     StartLoop, Serve, ClearRunning, StopIO, JoinIO, JoinLoop, DestroyPool, Destroy, LeaveRun,
     WorkerStep, WorkerWakesForNothing, Signal, vars
<1>. QED BY <1>2, <1>3, <1>4, <1>5, <1>6, <1>7, <1>8, <1>9

\* The loop is never asleep next to a request: neither a batch cut short, nor its
\* timeout, nor stop() and the drain of main cost it a notification.
THEOREM LoopIsWoken == Spec => []LoopHearsOfRequests
<1>1. Init => LoopListens
  BY DEF Init, Queue!Init, LoopListens, LoopHearsOfRequests
<1>2. Spec => []Alone!IInv
  BY AloneAssumption, Alone!Invariance, ServerQueueAlone, PTL
<1>3. LoopListens => LoopHearsOfRequests
  BY DEF LoopListens
<1>. QED BY <1>1, <1>2, <1>3, ListeningStep, ServerInvariance, PTL DEF Spec

\* From the I/O threads to the workers no request is lost or overtaken, however
\* the loop cuts the queue into batches.
THEOREM RequestsInOrder == Spec => []RequestsStartInOrder
<1>1. ServerInv => RequestsStartInOrder
  <2> SUFFICES ASSUME ServerInv, ~Past("joinIO")
               PROVE  started \o tasks \o batch \o queue = sent
    BY DEF RequestsStartInOrder
  <2> USE DEF ServerInv
  <2>1. Len(Script) = 24
    BY Places
  <2>2. line \in 1..25
    BY <2>1 DEF TypeOK
  <2>3. line <= 10
    BY <2>2, Passed
  <2>. QED BY <2>3 DEF NoRequestLost, PoolInv, NoTaskLost
<1>. QED BY <1>1, ServerInvariance, PTL

\* What main has come to says what has ended.
LEMMA WhatHasEnded ==
  ASSUME ServerInv
  PROVE  /\ stop => loop = "gone" /\ batch = <<>>
         /\ Past("drain") => queue = <<>>
         /\ Destroyed("pool") \/ Destroyed("characterManager")
              \/ Destroyed("networkManager") =>
              /\ loop = "gone" /\ batch = <<>> /\ tasks = <<>>
              /\ \A w \in Workers : at[w] = "gone" /\ running[w] = NoTask
         /\ Destroyed("networkManager") => io = {} /\ queue = <<>>
<1> USE DEF ServerInv
<1>1. Len(Script) = 24
  BY Places
<1>2. line \in 1..25
  BY <1>1 DEF TypeOK
<1>3. line > 15 => loop = "gone" /\ batch = <<>>
  BY <1>2 DEF MainAgrees, LoopAgrees
<1>4. stop => line > 17
  BY <1>2 DEF PoolInv, PoolAgrees, MainAgrees
<1>5. ASSUME line > 20
      PROVE  tasks = <<>> /\ \A w \in Workers : at[w] = "gone" /\ running[w] = NoTask
  <2>1. closing = "joined"
    BY <1>2, <1>5 DEF MainAgrees, PoolInv, PoolTypeOK
  <2>. QED BY <2>1, ThreadPoolAssumption DEF PoolInv, PoolAgrees, ThreadPoolAssumption
<1>6. line > 11 => io = {} /\ queue = <<>>
  BY <1>2 DEF MainAgrees
<1>7. stop => loop = "gone" /\ batch = <<>>
  BY <1>2, <1>3, <1>4
<1>8. Past("drain") => queue = <<>>
  BY <1>2, <1>6, Passed
<1>9. ASSUME Destroyed("pool") \/ Destroyed("characterManager")
               \/ Destroyed("networkManager")
      PROVE  line > 20 /\ line > 15
  BY <1>2, <1>9, Passed
<1>10. Destroyed("networkManager") => io = {} /\ queue = <<>>
  BY <1>2, <1>6, Passed
<1>. QED BY <1>3, <1>5, <1>7, <1>8, <1>9, <1>10

\* ~LoginServer joins the loop before the pool is closed, ~ThreadPool joins the
\* workers before the services of main go, and stopIO the I/O threads.
THEOREM ServicesOutlive == Spec => []ServicesOutliveTheirUsers
<1>1. ServerInv => ServicesOutliveTheirUsers
  BY WhatHasEnded DEF ServicesOutliveTheirUsers
<1>. QED BY <1>1, ServerInvariance, PTL

\* main drains the queue after it has joined the I/O threads: it stays empty.
THEOREM QueueStaysDrained == Spec => []DrainedForGood
<1>1. ServerInv => DrainedForGood
  BY WhatHasEnded DEF DrainedForGood
<1>. QED BY <1>1, ServerInvariance, PTL

\* No event, and no socket in one, is left when NetworkManager is destroyed.
THEOREM SocketsDie == Spec => []SocketsDieFirst
<1>1. ServerInv => SocketsDieFirst
  BY WhatHasEnded DEF SocketsDieFirst
<1>. QED BY <1>1, ServerInvariance, PTL
=============================================================================
