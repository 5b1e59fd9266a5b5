----------------------------- MODULE EventQueue -----------------------------
(***************************************************************************)
(* The queue between the network threads, which push events, and the event *)
(* loop, which takes them in batches: a std::queue under a mutex, with a   *)
(* condition variable for the consumers and a flag that stop() sets.       *)
(*                                                                         *)
(* A critical section is one action, but for the one place where the code  *)
(* holds the mutex across a point another thread can act at: between a     *)
(* waiting consumer's look at the predicate and its falling asleep, stop() *)
(* can run, because stop() does not take the mutex.                        *)
(***************************************************************************)
EXTENDS Naturals, Sequences

CONSTANTS
  Consumers,    \* threads that take events
  Timed,        \* those that call tryPopBatch; the others pop or popBatch
  Events,       \* what an event can be
  BatchSizes,   \* how many events a caller asks for: pop for one
  MaxEvents,    \* bound: events pushed in a behaviour
  MaxStops,     \* bound: calls of stop()
  NoThread

ASSUME EventQueueAssumption ==
  /\ Timed \subseteq Consumers
  /\ BatchSizes \subseteq Nat \ {0}
  /\ NoThread \notin Consumers

VARIABLES
  queue,      \* the events waiting
  stopped,    \* stopped_
  holder,     \* the consumer that holds mtx between two actions
  pc,         \* where a consumer is
  stopping,   \* stop() has stored the flag and has not notified yet
  calls,      \* calls of stop() so far
  sent, got   \* all events pushed, and all events taken (history)

vars == <<queue, stopped, holder, pc, stopping, calls, sent, got>>

TypeOK ==
  /\ queue \in Seq(Events)
  /\ stopped \in BOOLEAN
  /\ holder \in Consumers \union {NoThread}
  /\ pc \in [Consumers -> {"idle", "checked", "asleep", "woken", "late", "gone"}]
  /\ stopping \in BOOLEAN
  /\ calls \in Nat
  /\ sent \in Seq(Events)
  /\ got \in Seq(Events)

Init ==
  /\ queue = <<>>
  /\ stopped = FALSE
  /\ holder = NoThread
  /\ pc = [c \in Consumers |-> "idle"]
  /\ stopping = FALSE
  /\ calls = 0
  /\ sent = <<>>
  /\ got = <<>>

-----------------------------------------------------------------------------

Asleep == {c \in Consumers : pc[c] = "asleep"}

Least(m, n) == IF m <= n THEN m ELSE n

\* Mutant of NotifyOne: nobody is notified.
NotifyNobody == UNCHANGED pc

\* notify_one wakes one sleeper, if there is one; notify_all wakes them all.
NotifyOne ==
  IF Asleep = {} THEN UNCHANGED pc
  ELSE \E c \in Asleep : pc' = [pc EXCEPT ![c] = "woken"]

NotifyAll ==
  pc' = [c \in Consumers |-> IF pc[c] = "asleep" THEN "woken" ELSE pc[c]]

Enqueue(s) ==
  /\ holder = NoThread
  /\ Len(sent) + Len(s) <= MaxEvents
  /\ queue' = queue \o s
  /\ sent' = sent \o s

\* push notifies inside its critical section, and so does pushBatch.
Push(e) ==
  /\ Enqueue(<<e>>)
  /\ NotifyOne
  /\ UNCHANGED <<stopped, holder, stopping, calls, got>>

PushBatch(e1, e2) ==
  /\ Enqueue(<<e1, e2>>)
  /\ NotifyAll
  /\ UNCHANGED <<stopped, holder, stopping, calls, got>>

-----------------------------------------------------------------------------
(***************************************************************************)
(* A consumer.  It looks at the predicate of the wait when it has entered, *)
(* when it was woken, and when its timeout has passed.                     *)
(***************************************************************************)

Ready == queue # <<>> \/ stopped

Looks(c) == holder = NoThread /\ pc[c] \in {"idle", "woken", "late"}

\* Mutants of Take: the last event of the batch stays in the queue, or is taken
\* from it and not returned.
TakeTwice(c, size) ==
  LET n == Least(size, Len(queue)) IN
  /\ Looks(c)
  /\ queue # <<>>
  /\ got' = got \o SubSeq(queue, 1, n)
  /\ queue' = SubSeq(queue, n, Len(queue))
  /\ pc' = [pc EXCEPT ![c] = "idle"]
  /\ UNCHANGED <<stopped, holder, stopping, calls, sent>>

TakeTooMany(c, size) ==
  LET n == Least(size, Len(queue)) IN
  /\ Looks(c)
  /\ queue # <<>>
  /\ got' = got \o SubSeq(queue, 1, n - 1)
  /\ queue' = SubSeq(queue, n + 1, Len(queue))
  /\ pc' = [pc EXCEPT ![c] = "idle"]
  /\ UNCHANGED <<stopped, holder, stopping, calls, sent>>

\* There are events: pop takes one from the front, the others up to a batch.
Take(c, size) ==
  LET n == Least(size, Len(queue)) IN
  /\ Looks(c)
  /\ queue # <<>>
  /\ got' = got \o SubSeq(queue, 1, n)
  /\ queue' = SubSeq(queue, n + 1, Len(queue))
  /\ pc' = [pc EXCEPT ![c] = "idle"]
  /\ UNCHANGED <<stopped, holder, stopping, calls, sent>>

\* There are none and the queue is stopped: false, and the thread can exit.
TakeNothing(c) ==
  /\ Looks(c)
  /\ queue = <<>> /\ stopped
  /\ pc' = [pc EXCEPT ![c] = "gone"]
  /\ UNCHANGED <<queue, stopped, holder, stopping, calls, sent, got>>

\* There is nothing to wake up for.  A consumer whose time is over returns
\* false; any other one is going to sleep, and still holds the mutex.
GiveUp(c) ==
  /\ Looks(c) /\ pc[c] = "late"
  /\ ~Ready
  /\ pc' = [pc EXCEPT ![c] = "idle"]
  /\ UNCHANGED <<queue, stopped, holder, stopping, calls, sent, got>>

Check(c) ==
  /\ Looks(c) /\ pc[c] # "late"
  /\ ~Ready
  /\ holder' = c
  /\ pc' = [pc EXCEPT ![c] = "checked"]
  /\ UNCHANGED <<queue, stopped, stopping, calls, sent, got>>

\* The wait: the mutex is released and the thread sleeps, in one step.
Block(c) ==
  /\ pc[c] = "checked"
  /\ holder' = NoThread
  /\ pc' = [pc EXCEPT ![c] = "asleep"]
  /\ UNCHANGED <<queue, stopped, stopping, calls, sent, got>>

\* A condition variable may wake a thread for no reason.
SpuriousWake(c) ==
  /\ pc[c] = "asleep"
  /\ pc' = [pc EXCEPT ![c] = "woken"]
  /\ UNCHANGED <<queue, stopped, holder, stopping, calls, sent, got>>

\* The timeout of tryPopBatch passes.
Timeout(c) ==
  /\ c \in Timed
  /\ pc[c] = "asleep"
  /\ pc' = [pc EXCEPT ![c] = "late"]
  /\ UNCHANGED <<queue, stopped, holder, stopping, calls, sent, got>>

-----------------------------------------------------------------------------
(***************************************************************************)
(* stop(): a store and a notify_all, neither of them under the mutex.      *)
(***************************************************************************)

StopStore ==
  /\ ~stopping
  /\ calls < MaxStops
  /\ stopped' = TRUE
  /\ stopping' = TRUE
  /\ calls' = calls + 1
  /\ UNCHANGED <<queue, holder, pc, sent, got>>

StopNotify ==
  /\ stopping
  /\ stopping' = FALSE
  /\ NotifyAll
  /\ UNCHANGED <<queue, stopped, holder, calls, sent, got>>

-----------------------------------------------------------------------------

Consume(c) ==
  \/ \E size \in BatchSizes : Take(c, size)
  \/ TakeNothing(c) \/ GiveUp(c) \/ Check(c) \/ Block(c)

Next ==
  \/ \E e \in Events : Push(e)
  \/ \E e1, e2 \in Events : PushBatch(e1, e2)
  \/ \E c \in Consumers : Consume(c) \/ SpuriousWake(c) \/ Timeout(c)
  \/ StopStore
  \/ StopNotify

Spec == Init /\ [][Next]_vars

\* A consumer that can run does.  Its timeout is a minute away, and a wake-up
\* for no reason cannot be counted on: neither is assumed.
FairSpec == Spec /\ WF_vars(StopNotify) /\ \A c \in Consumers : WF_vars(Consume(c))

-----------------------------------------------------------------------------
(***************************************************************************)
(* Properties.                                                             *)
(***************************************************************************)

\* No event is lost, duplicated or overtaken, whoever takes it and however
\* large the batches are (push, pushBatch, popBatch, tryPopBatch).
FifoOrder == got \o queue = sent

\* While events wait and some consumer sleeps, another is about to look: no
\* push is missed between a consumer's look at the queue and its sleep, and a
\* notify_one consumed by one thread leaves no other push without any.
NeverAllAsleepWithWork ==
  queue # <<>> /\ Asleep # {} =>
    \E c \in Consumers : pc[c] \in {"idle", "woken", "late"}

\* The queue implements a FIFO channel.
Channel == INSTANCE Fifo WITH
  Events <- Events, BatchSizes <- BatchSizes, sent <- sent, got <- got
ImplementsFifo == Channel!Spec

\* Unless the queue is stopped, every event that was pushed is taken, though
\* nobody's timeout ever comes (push's notify_one, tryPopBatch).
EventuallyTaken ==
  \A n \in 1..MaxEvents : Len(sent) >= n ~> (Len(got) >= n \/ stopped)

\* "Signal all blocked pop/popBatch/tryPopBatch callers to return false"
\* (EventQueue.hpp): once a call of stop() has returned, nobody sleeps on.
StopWakesEveryone == stopped /\ ~stopping => Asleep = {}
=============================================================================
