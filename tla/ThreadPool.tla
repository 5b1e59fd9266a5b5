----------------------------- MODULE ThreadPool -----------------------------
(***************************************************************************)
(* The pool of worker threads that runs the event handlers: a std::queue   *)
(* of tasks under a mutex, a condition variable the workers sleep on, and  *)
(* a destructor that lets them finish what is queued and joins them.       *)
(*                                                                         *)
(* A critical section of queueMutex is one action.  The flag stop is set   *)
(* inside one, so that, unlike in EventQueue, nothing comes between a      *)
(* worker's look at the predicate and its sleep; both notifications come   *)
(* after the mutex was left and are actions of their own.                  *)
(***************************************************************************)
EXTENDS Naturals, Sequences, FiniteSets

CONSTANTS Workers, Tasks, NoTask

ASSUME ThreadPoolAssumption ==
  /\ IsFiniteSet(Workers) /\ Workers # {}
  /\ NoTask \notin Tasks

VARIABLES
  tasks,      \* the tasks waiting
  stop,       \* stop
  owed,       \* callers of enqueueTask that have not notified yet
  closing,    \* where the destructor is
  at,         \* where a worker is
  running,    \* the task a worker runs
  enqueued,   \* all tasks accepted, and all started, in order (history)
  started

poolVars == <<tasks, stop, owed, closing, at, running, enqueued, started>>

PoolTypeOK ==
  /\ tasks \in Seq(Tasks)
  /\ stop \in BOOLEAN
  /\ owed \in Nat
  /\ closing \in {"open", "stopped", "joining", "joined"}
  /\ at \in [Workers -> {"look", "asleep", "run", "gone"}]
  /\ running \in [Workers -> Tasks \union {NoTask}]
  /\ enqueued \in Seq(Tasks)
  /\ started \in Seq(Tasks)

PoolInit ==
  /\ tasks = <<>>
  /\ stop = FALSE
  /\ owed = 0
  /\ closing = "open"
  /\ at = [w \in Workers |-> "look"]
  /\ running = [w \in Workers |-> NoTask]
  /\ enqueued = <<>>
  /\ started = <<>>

-----------------------------------------------------------------------------

Sleepers == {w \in Workers : at[w] = "asleep"}
Lookers  == {w \in Workers : at[w] = "look"}

\* enqueueTask; on a pool that is stopped it throws and changes nothing.
EnqueueTask(t) ==
  /\ ~stop
  /\ tasks' = Append(tasks, t)
  /\ enqueued' = Append(enqueued, t)
  /\ owed' = owed + 1
  /\ UNCHANGED <<stop, closing, at, running, started>>

\* Mutant of NotifyOne: it is called only by one who finds the queue empty.
NotifyNone ==
  /\ owed > 0
  /\ owed' = owed - 1
  /\ UNCHANGED <<tasks, stop, closing, at, running, enqueued, started>>

NotifyOne ==
  /\ owed > 0
  /\ owed' = owed - 1
  /\ IF Sleepers = {} THEN UNCHANGED at
     ELSE \E w \in Sleepers : at' = [at EXCEPT ![w] = "look"]
  /\ UNCHANGED <<tasks, stop, closing, running, enqueued, started>>

\* Mutant of Take: the task is copied out of the queue and stays.
TakeCopy(w) ==
  /\ at[w] = "look"
  /\ tasks # <<>>
  /\ running' = [running EXCEPT ![w] = Head(tasks)]
  /\ started' = Append(started, Head(tasks))
  /\ tasks' = IF Len(tasks) > 1 THEN Tail(tasks) ELSE tasks
  /\ at' = [at EXCEPT ![w] = "run"]
  /\ UNCHANGED <<stop, owed, closing, enqueued>>

\* A worker looks at the predicate: a task to run, ...
Take(w) ==
  /\ at[w] = "look"
  /\ tasks # <<>>
  /\ running' = [running EXCEPT ![w] = Head(tasks)]
  /\ started' = Append(started, Head(tasks))
  /\ tasks' = Tail(tasks)
  /\ at' = [at EXCEPT ![w] = "run"]
  /\ UNCHANGED <<stop, owed, closing, enqueued>>

\* ... nothing to do, ...
Sleep(w) ==
  /\ at[w] = "look"
  /\ tasks = <<>> /\ ~stop
  /\ at' = [at EXCEPT ![w] = "asleep"]
  /\ UNCHANGED <<tasks, stop, owed, closing, running, enqueued, started>>

\* Mutant of Exit: a stopped worker leaves though tasks are queued.
ExitAtOnce(w) ==
  /\ at[w] = "look"
  /\ stop
  /\ at' = [at EXCEPT ![w] = "gone"]
  /\ UNCHANGED <<tasks, stop, owed, closing, running, enqueued, started>>

\* ... or the end, once the pool is stopped and every task was taken.
Exit(w) ==
  /\ at[w] = "look"
  /\ tasks = <<>> /\ stop
  /\ at' = [at EXCEPT ![w] = "gone"]
  /\ UNCHANGED <<tasks, stop, owed, closing, running, enqueued, started>>

\* The task returns or throws; either way the worker looks for another.
Finish(w) ==
  /\ at[w] = "run"
  /\ at' = [at EXCEPT ![w] = "look"]
  /\ running' = [running EXCEPT ![w] = NoTask]
  /\ UNCHANGED <<tasks, stop, owed, closing, enqueued, started>>

\* A condition variable may wake a thread for no reason.
WakeForNothing(w) ==
  /\ at[w] = "asleep"
  /\ at' = [at EXCEPT ![w] = "look"]
  /\ UNCHANGED <<tasks, stop, owed, closing, running, enqueued, started>>

-----------------------------------------------------------------------------
(***************************************************************************)
(* The destructor, which nobody calls while enqueueTask is running.        *)
(***************************************************************************)

SetStop ==
  /\ closing = "open" /\ owed = 0
  /\ closing' = "stopped"
  /\ stop' = TRUE
  /\ UNCHANGED <<tasks, owed, at, running, enqueued, started>>

\* Mutant of NotifyEveryone: one worker is notified.
NotifyOneOnly ==
  /\ closing = "stopped"
  /\ closing' = "joining"
  /\ IF Sleepers = {} THEN UNCHANGED at
     ELSE \E w \in Sleepers : at' = [at EXCEPT ![w] = "look"]
  /\ UNCHANGED <<tasks, stop, owed, running, enqueued, started>>

NotifyEveryone ==
  /\ closing = "stopped"
  /\ closing' = "joining"
  /\ at' = [w \in Workers |-> IF at[w] = "asleep" THEN "look" ELSE at[w]]
  /\ UNCHANGED <<tasks, stop, owed, running, enqueued, started>>

JoinWorkers ==
  /\ closing = "joining"
  /\ \A w \in Workers : at[w] = "gone"
  /\ closing' = "joined"
  /\ UNCHANGED <<tasks, stop, owed, at, running, enqueued, started>>

-----------------------------------------------------------------------------

Work(w) == Take(w) \/ Sleep(w) \/ Exit(w) \/ Finish(w)

Close == SetStop \/ NotifyEveryone \/ JoinWorkers

PoolNext ==
  \/ \E t \in Tasks : EnqueueTask(t)
  \/ NotifyOne
  \/ \E w \in Workers : Work(w) \/ WakeForNothing(w)
  \/ Close

PoolSpec == PoolInit /\ [][PoolNext]_poolVars

-----------------------------------------------------------------------------
(***************************************************************************)
(* Properties.                                                             *)
(***************************************************************************)

\* While a task waits and a worker sleeps, at least as many notifications or
\* awake workers are on their way to the queue as it has tasks: no task waits
\* for a running handler to end while a worker has nothing to do.
TasksAreClaimed ==
  Sleepers # {} => Len(tasks) <= owed + Cardinality(Lookers)

\* "join here: all tasks must have run" (test_threadpool.cpp): the destructor
\* returns with every accepted task started and ended, though it may begin
\* with tasks queued, workers asleep, and workers busy.
DestructorDrains ==
  closing = "joined" =>
    started = enqueued /\ \A w \in Workers : running[w] = NoTask

\* Unlike EventQueue::stop, the destructor sets its flag under the mutex: once
\* it has notified, no worker sleeps on, and the joins need no timeout.
CloseWakesEveryone == closing \in {"joining", "joined"} => Sleepers = {}

\* The pool implements a FIFO channel: tasks start in the order in which they
\* were accepted, each once.
Line == INSTANCE Fifo WITH
  Events <- Tasks, BatchSizes <- {1}, sent <- enqueued, got <- started
PoolIsFifo == Line!Spec
=============================================================================
