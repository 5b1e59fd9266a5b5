----------------------------- MODULE LoginServer -----------------------------
(***************************************************************************)
(* The threads of the server and how they are started and stopped: main,   *)
(* the I/O threads that push events, the event loop that takes them in     *)
(* batches and gives them to the pool, and the workers of the pool.        *)
(*                                                                         *)
(* The module composes two others.  It extends ThreadPool, whose tasks are *)
(* the events (processBatch wraps each in a lambda), and instantiates      *)
(* EventQueue, whose consumers are the event loop and, at the end, main.   *)
(* Their actions occur in those of the threads below.                      *)
(*                                                                         *)
(* What a handler does is the subject of Sessions, Accounts and            *)
(* Characters, what I/O threads do that of Network; here the events only   *)
(* pass, and a handler is something that runs for a while.                 *)
(***************************************************************************)
EXTENDS ThreadPool

CONSTANTS
  IoThreads,    \* the threads that run io_context_
  Loop, Main,   \* the event loop's thread, and the main thread
  BatchSize,    \* BATCH_SIZE
  MaxEvents,    \* bound: events pushed in a behaviour
  NoThread

VARIABLES
  queue, stopped, holder, qpc, stopping, calls, sent, got,  \* of EventQueue
  signalled,  \* ~running of main.cpp: a signal has come
  line,       \* how far main is in Script
  loopRuns,   \* LoginServer::running_
  loop,       \* where the event loop is
  batch,      \* eventsBatch: what it has taken and not enqueued yet
  ioStopped,  \* io_context_ was stopped
  io          \* the I/O threads in io_context_.run()

\* What drain asks popBatch for.
DrainSize == 1024

Queue == INSTANCE EventQueue WITH
  Consumers <- {Loop, Main}, Timed <- {Loop}, Events <- Tasks,
  BatchSizes <- {BatchSize, DrainSize}, MaxStops <- 3, pc <- qpc

queueVars == <<queue, stopped, holder, qpc, stopping, calls, sent, got>>
loopVars  == <<loopRuns, loop, batch>>
mainVars  == <<signalled, line>>
ioVars    == <<ioStopped, io>>
vars == <<poolVars, queueVars, loopVars, mainVars, ioVars>>

ASSUME LoginServerAssumption ==
  /\ Loop # Main
  /\ NoThread \notin {Loop, Main}
  /\ BatchSize \in Nat \ {0}

-----------------------------------------------------------------------------
(***************************************************************************)
(* What main executes, as a sequence of operations.  The name of an object *)
(* stands for its destruction.                                             *)
(***************************************************************************)

\* LoginServer::stop, and EventQueue::stop, which it calls.
StopQueue == <<"store", "notify">>
StopLoop == <<"running_">> \o StopQueue

\* Mutant of StopServer: stopIO does not join.
NoJoinIO == StopLoop \o StopQueue \o <<"stopIO", "drain">>

\* The end of main().
StopServer == StopLoop \o StopQueue \o <<"stopIO", "joinIO", "drain">>

\* Mutant of DestroyServer: ~LoginServer does not join.
NoJoinLoop == StopLoop \o <<"eventHandler_", "closePool", "wakePool", "joinPool">>

\* ~LoginServer, and then its members, the last declared first: the handler,
\* and after it the pool, whose destructor stops, notifies and joins.
DestroyServer ==
  StopLoop \o <<"joinLoop", "eventHandler_", "closePool", "wakePool", "joinPool">>

\* The local variables of main, the last declared first.
Script ==
  <<"startIO", "startLoop", "serve">> \o StopServer \o DestroyServer
    \o <<"pool", "characterManager", "networkManager", "eventQueue", "clientData">>

Past(op) == \E i \in 1..(line - 1) : Script[i] = op

Destroyed(object) == Past(object)

At(op) ==
  /\ line <= Len(Script)
  /\ Script[line] = op

-----------------------------------------------------------------------------

TypeOK ==
  /\ PoolTypeOK
  /\ Queue!TypeOK
  /\ signalled \in BOOLEAN
  /\ line \in 1..(Len(Script) + 1)
  /\ loopRuns \in BOOLEAN
  /\ loop \in {"none", "test", "pop", "dispatch", "notify", "clean", "gone"}
  /\ batch \in Seq(Tasks)
  /\ ioStopped \in BOOLEAN
  /\ io \subseteq IoThreads

Init ==
  /\ PoolInit
  /\ Queue!Init
  /\ signalled = FALSE
  /\ line = 1
  /\ loopRuns = TRUE
  /\ loop = "none"
  /\ batch = <<>>
  /\ ioStopped = FALSE
  /\ io = {}

-----------------------------------------------------------------------------
(***************************************************************************)
(* The I/O threads.                                                        *)
(***************************************************************************)

\* A read handler has a request: processMessage pushes an event.
PushEvent(e) ==
  /\ io # {}
  /\ Queue!Push(e)
  /\ UNCHANGED <<poolVars, loopVars, mainVars, ioVars>>

\* run() returns once the context was stopped and the thread's handler ended.
LeaveRun(i) ==
  /\ ioStopped
  /\ i \in io
  /\ io' = io \ {i}
  /\ UNCHANGED <<poolVars, queueVars, loopVars, mainVars, ioStopped>>

-----------------------------------------------------------------------------
(***************************************************************************)
(* The event loop.                                                         *)
(***************************************************************************)

TestRunning ==
  /\ loop = "test"
  /\ loop' = IF loopRuns THEN "pop" ELSE "gone"
  /\ UNCHANGED <<poolVars, queueVars, loopRuns, batch, mainVars, ioVars>>

\* tryPopBatch goes to sleep, ...
WaitForEvents ==
  /\ loop = "pop"
  /\ Queue!Check(Loop) \/ Queue!Block(Loop)
  /\ UNCHANGED <<poolVars, loopVars, mainVars, ioVars>>

\* ... returns true, ...
TakeBatch ==
  /\ loop = "pop"
  /\ Queue!Take(Loop, BatchSize)
  /\ batch' = SubSeq(queue, 1, Queue!Least(BatchSize, Len(queue)))
  /\ loop' = "dispatch"
  /\ UNCHANGED <<poolVars, loopRuns, mainVars, ioVars>>

\* ... or false.
TakeNone ==
  /\ loop = "pop"
  /\ Queue!GiveUp(Loop) \/ Queue!TakeNothing(Loop)
  /\ loop' = "clean"
  /\ UNCHANGED <<poolVars, loopRuns, batch, mainVars, ioVars>>

TimePasses ==
  /\ loop = "pop"
  /\ Queue!Timeout(Loop)
  /\ UNCHANGED <<poolVars, loopVars, mainVars, ioVars>>

LoopWakesForNothing ==
  /\ loop = "pop"
  /\ Queue!SpuriousWake(Loop)
  /\ UNCHANGED <<poolVars, loopVars, mainVars, ioVars>>

\* Mutant of Dispatch: the batch is enqueued from its end.
DispatchBackwards ==
  /\ loop = "dispatch"
  /\ EnqueueTask(batch[Len(batch)])
  /\ batch' = SubSeq(batch, 1, Len(batch) - 1)
  /\ loop' = "notify"
  /\ UNCHANGED <<queueVars, loopRuns, mainVars, ioVars>>

\* processBatch: one event after the other, each under the pool's mutex.
Dispatch ==
  /\ loop = "dispatch"
  /\ EnqueueTask(Head(batch))
  /\ batch' = Tail(batch)
  /\ loop' = "notify"
  /\ UNCHANGED <<queueVars, loopRuns, mainVars, ioVars>>

NotifyWorker ==
  /\ loop = "notify"
  /\ NotifyOne
  /\ loop' = IF batch = <<>> THEN "test" ELSE "dispatch"
  /\ UNCHANGED <<queueVars, loopRuns, batch, mainVars, ioVars>>

\* The clean-up of rows, the sweep of sessions and the collection of write
\* queues, with the services of main; each catches its exceptions.
CleanUp ==
  /\ loop = "clean"
  /\ loop' = "test"
  /\ UNCHANGED <<poolVars, queueVars, loopRuns, batch, mainVars, ioVars>>

LoopStep ==
  \/ TestRunning \/ WaitForEvents \/ TakeBatch \/ TakeNone
  \/ Dispatch \/ NotifyWorker \/ CleanUp

-----------------------------------------------------------------------------
(***************************************************************************)
(* The workers.                                                            *)
(***************************************************************************)

WorkerStep(w) ==
  /\ Work(w)
  /\ UNCHANGED <<queueVars, loopVars, mainVars, ioVars>>

WorkerWakesForNothing(w) ==
  /\ WakeForNothing(w)
  /\ UNCHANGED <<queueVars, loopVars, mainVars, ioVars>>

-----------------------------------------------------------------------------
(***************************************************************************)
(* The main thread.                                                        *)
(***************************************************************************)

Signal ==
  /\ ~signalled
  /\ signalled' = TRUE
  /\ UNCHANGED <<poolVars, queueVars, loopVars, line, ioVars>>

Execute(op) ==
  /\ At(op)
  /\ line' = line + 1
  /\ UNCHANGED signalled

StartIO ==
  /\ Execute("startIO")
  /\ io' = IoThreads
  /\ UNCHANGED <<poolVars, queueVars, loopVars, ioStopped>>

StartLoop ==
  /\ Execute("startLoop")
  /\ loop' = "test"
  /\ UNCHANGED <<poolVars, queueVars, loopRuns, batch, ioVars>>

\* main looks at its flag once a second.
Serve ==
  /\ Execute("serve")
  /\ signalled
  /\ UNCHANGED <<poolVars, queueVars, loopVars, ioVars>>

ClearRunning ==
  /\ Execute("running_")
  /\ loopRuns' = FALSE
  /\ UNCHANGED <<poolVars, queueVars, loop, batch, ioVars>>

StopTheQueue ==
  /\ \/ Execute("store") /\ Queue!StopStore
     \/ Execute("notify") /\ Queue!StopNotify
  /\ UNCHANGED <<poolVars, loopVars, ioVars>>

StopIO ==
  /\ Execute("stopIO")
  /\ ioStopped' = TRUE
  /\ UNCHANGED <<poolVars, queueVars, loopVars, io>>

JoinIO ==
  /\ Execute("joinIO")
  /\ io = {}
  /\ UNCHANGED <<poolVars, queueVars, loopVars, ioVars>>

\* drain: popBatch until it returns false.
DrainSome ==
  /\ At("drain")
  /\ Queue!Take(Main, DrainSize)
  /\ UNCHANGED <<poolVars, loopVars, mainVars, ioVars>>

DrainEnds ==
  /\ Execute("drain")
  /\ Queue!TakeNothing(Main)
  /\ UNCHANGED <<poolVars, loopVars, ioVars>>

JoinLoop ==
  /\ Execute("joinLoop")
  /\ loop = "gone"
  /\ UNCHANGED <<poolVars, queueVars, loopVars, ioVars>>

DestroyPool ==
  /\ \/ Execute("closePool") /\ SetStop
     \/ Execute("wakePool") /\ NotifyEveryone
     \/ Execute("joinPool") /\ JoinWorkers
  /\ UNCHANGED <<queueVars, loopVars, ioVars>>

Destroy ==
  /\ \E o \in {"eventHandler_", "pool", "characterManager", "networkManager",
               "eventQueue", "clientData"} : Execute(o)
  /\ UNCHANGED <<poolVars, queueVars, loopVars, ioVars>>

MainStep ==
  \/ StartIO \/ StartLoop \/ Serve \/ ClearRunning \/ StopTheQueue \/ StopIO
  \/ JoinIO \/ DrainSome \/ DrainEnds \/ JoinLoop \/ DestroyPool \/ Destroy

-----------------------------------------------------------------------------

Next ==
  \/ \E e \in Tasks : PushEvent(e)
  \/ \E i \in IoThreads : LeaveRun(i)
  \/ LoopStep \/ TimePasses \/ LoopWakesForNothing
  \/ \E w \in Workers : WorkerStep(w) \/ WorkerWakesForNothing(w)
  \/ MainStep
  \/ Signal

Spec == Init /\ [][Next]_vars

\* Threads that can run do, handlers end, and a timed wait ends when its time
\* is over.  Nothing is assumed of clients, signals and spurious wake-ups.
FairSpec ==
  /\ Spec
  /\ WF_vars(MainStep)
  /\ WF_vars(LoopStep) /\ WF_vars(TimePasses)
  /\ \A w \in Workers : WF_vars(WorkerStep(w))
  /\ \A i \in IoThreads : WF_vars(LeaveRun(i))

-----------------------------------------------------------------------------
(***************************************************************************)
(* Properties.                                                             *)
(***************************************************************************)

\* Requests are given to the workers in the order in which they were pushed,
\* through the queue, the loop's batches and the pool, and none is lost on the
\* way, until main drains the queue.
RequestsStartInOrder ==
  ~Past("joinIO") => started \o tasks \o batch \o queue = sent

\* The event loop never sleeps while a request waits in the queue: a push comes
\* before its look at the queue or wakes it, whatever its timeout, stop() and
\* the drain of main do meanwhile.
LoopHearsOfRequests == queue # <<>> => qpc[Loop] # "asleep"

\* A service is destroyed only when nobody is left to use it: the loop, which
\* cleans up with them, the handlers on the workers, and the I/O threads.  Nor
\* is the pool closed while the loop could still give it an event (stop() does
\* not join; ~LoginServer does, and then ~ThreadPool).
ServicesOutliveTheirUsers ==
  /\ stop => loop = "gone"
  /\ (\E o \in {"pool", "characterManager", "networkManager"} : Destroyed(o)) =>
       /\ loop = "gone"
       /\ \A w \in Workers : at[w] = "gone"
  /\ Destroyed("networkManager") => io = {}

\* Once main has drained the queue no event gets into it ("stopIO() first so no
\* handler can push new events", main.cpp).
DrainedForGood == Past("drain") => queue = <<>>

\* Events own client sockets, which must not outlive the io_context of
\* NetworkManager: when that is destroyed there is no event left anywhere.
SocketsDieFirst ==
  Destroyed("networkManager") =>
    /\ queue = <<>> /\ batch = <<>> /\ tasks = <<>>
    /\ \A w \in Workers : running[w] = NoTask

\* After a signal main comes to its end, although it may find every other
\* thread asleep, busy, or about to sleep through the notification of stop().
ShutdownEnds == signalled ~> line > Len(Script)

\* "Destructors then run on empties" (main.cpp): when the members of the
\* LoginServer are destroyed, no handler is running and none is to come.
HandlersEndBeforeTheirObject ==
  Destroyed("eventHandler_") =>
    tasks = <<>> /\ \A w \in Workers : running[w] = NoTask
=============================================================================
