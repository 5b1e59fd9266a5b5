---------------------------- MODULE DatabasePool ----------------------------
(***************************************************************************)
(* The pool of database connections.  A thread that calls acquire() waits  *)
(* for a free slot, takes the oldest one, and checks or reopens its        *)
(* connection before it gets it, all under the pool's mutex: while one     *)
(* thread talks to PostgreSQL here, no other can take or give back a slot. *)
(* The destructor of its Guard gives the slot back, and notifies after it  *)
(* has left the critical section.                                          *)
(*                                                                         *)
(* The wait of the condition variable is one step with the look at the     *)
(* predicate that precedes it: a slot only appears under the mutex, and a  *)
(* notification in between finds the pool empty, so nothing is missed.     *)
(***************************************************************************)
EXTENDS Integers, Sequences, FiniteSets

CONSTANTS
  Threads,      \* the workers, and the event loop's thread
  PoolSize,     \* the size asked for
  NoThread

ASSUME DatabasePoolAssumption ==
  /\ IsFiniteSet(Threads)
  /\ PoolSize \in Int
  /\ NoThread \notin Threads

\* The size is clamped; a slot is an index, and -1 is that of an empty Guard.
Size   == IF PoolSize < 1 THEN 1 ELSE IF PoolSize > 20 THEN 20 ELSE PoolSize
Slots  == 0..(Size - 1)
NoSlot == -1

VARIABLES
  available,  \* the free slots, oldest first
  conn,       \* whether a slot's connection still works
  holder,     \* the thread that holds mutex_ while it probes
  pc,         \* where a thread is
  slotOf      \* the slot of its Guard, or the one it is probing

vars == <<available, conn, holder, pc, slotOf>>

Looking   == {"enter", "woken", "late"}
Acquiring == Looking \union {"asleep", "probing"}

TypeOK ==
  /\ available \in Seq(Slots)
  /\ conn \in [Slots -> {"live", "dead"}]
  /\ holder \in Threads \union {NoThread}
  /\ pc \in [Threads -> Acquiring \union {"idle", "holding", "notify"}]
  /\ slotOf \in [Threads -> Slots \union {NoSlot}]

\* The pool is built with all connections open, and all slots free.
Init ==
  /\ available = [i \in 1..Size |-> i - 1]
  /\ conn = [s \in Slots |-> "live"]
  /\ holder = NoThread
  /\ pc = [t \in Threads |-> "idle"]
  /\ slotOf = [t \in Threads |-> NoSlot]

-----------------------------------------------------------------------------

Asleep == {t \in Threads : pc[t] = "asleep"}

\* Thread t goes to a place, and notify_one wakes one of those that sleep.
MoveAndNotify(t, where) ==
  LET moved == [pc EXCEPT ![t] = where] IN
  IF Asleep = {} THEN pc' = moved
  ELSE \E s \in Asleep : pc' = [moved EXCEPT ![s] = "woken"]

-----------------------------------------------------------------------------
(***************************************************************************)
(* acquire().                                                              *)
(***************************************************************************)

Call(t) ==
  /\ pc[t] = "idle"
  /\ pc' = [pc EXCEPT ![t] = "enter"]
  /\ UNCHANGED <<available, conn, holder, slotOf>>

\* Mutant of Take: the slot is not popped.
TakeWithoutPop(t) ==
  /\ holder = NoThread /\ pc[t] \in Looking
  /\ available # <<>>
  /\ slotOf' = [slotOf EXCEPT ![t] = Head(available)]
  /\ holder' = t
  /\ pc' = [pc EXCEPT ![t] = "probing"]
  /\ UNCHANGED <<available, conn>>

\* The wait is over, in time or not, and there is a slot: it is taken, and its
\* connection is probed under the mutex.
Take(t) ==
  /\ holder = NoThread /\ pc[t] \in Looking
  /\ available # <<>>
  /\ slotOf' = [slotOf EXCEPT ![t] = Head(available)]
  /\ available' = Tail(available)
  /\ holder' = t
  /\ pc' = [pc EXCEPT ![t] = "probing"]
  /\ UNCHANGED conn

\* There is none: the thread waits until its timeout ...
Wait(t) ==
  /\ holder = NoThread /\ pc[t] \in {"enter", "woken"}
  /\ available = <<>>
  /\ pc' = [pc EXCEPT ![t] = "asleep"]
  /\ UNCHANGED <<available, conn, holder, slotOf>>

SpuriousWake(t) ==
  /\ pc[t] = "asleep"
  /\ pc' = [pc EXCEPT ![t] = "woken"]
  /\ UNCHANGED <<available, conn, holder, slotOf>>

\* Its timeout may end whenever it sleeps: time is not modelled.
TimeOut(t) ==
  /\ pc[t] = "asleep"
  /\ pc' = [pc EXCEPT ![t] = "late"]
  /\ UNCHANGED <<available, conn, holder, slotOf>>

\* Mutant of GiveUp: the end of the wait is taken for an empty pool.
GiveUpAtOnce(t) ==
  /\ holder = NoThread /\ pc[t] = "late"
  /\ pc' = [pc EXCEPT ![t] = "idle"]
  /\ UNCHANGED <<available, conn, holder, slotOf>>

\* ... and then throws.
GiveUp(t) ==
  /\ holder = NoThread /\ pc[t] = "late"
  /\ available = <<>>
  /\ pc' = [pc EXCEPT ![t] = "idle"]
  /\ UNCHANGED <<available, conn, holder, slotOf>>

\* SELECT 1 succeeds: the caller gets its Guard.
ProbeSucceeds(t) ==
  /\ holder = t
  /\ conn[slotOf[t]] = "live"
  /\ holder' = NoThread
  /\ pc' = [pc EXCEPT ![t] = "holding"]
  /\ UNCHANGED <<available, conn, slotOf>>

\* It fails, and openSlot replaces the connection ...
Reopen(t) ==
  /\ holder = t
  /\ conn[slotOf[t]] = "dead"
  /\ conn' = [conn EXCEPT ![slotOf[t]] = "live"]
  /\ holder' = NoThread
  /\ pc' = [pc EXCEPT ![t] = "holding"]
  /\ UNCHANGED <<available, slotOf>>

\* Mutants of ReopenFails: the slot is not pushed back, or nobody is notified.
ReopenFailsAndLeaks(t) ==
  /\ holder = t
  /\ conn[slotOf[t]] = "dead"
  /\ slotOf' = [slotOf EXCEPT ![t] = NoSlot]
  /\ holder' = NoThread
  /\ MoveAndNotify(t, "idle")
  /\ UNCHANGED <<available, conn>>

ReopenFailsSilently(t) ==
  /\ holder = t
  /\ conn[slotOf[t]] = "dead"
  /\ available' = Append(available, slotOf[t])
  /\ slotOf' = [slotOf EXCEPT ![t] = NoSlot]
  /\ holder' = NoThread
  /\ pc' = [pc EXCEPT ![t] = "idle"]
  /\ UNCHANGED conn

\* ... or cannot: the slot goes back, for another waiter to try, and the
\* caller gets an exception.
ReopenFails(t) ==
  /\ holder = t
  /\ conn[slotOf[t]] = "dead"
  /\ available' = Append(available, slotOf[t])
  /\ slotOf' = [slotOf EXCEPT ![t] = NoSlot]
  /\ holder' = NoThread
  /\ MoveAndNotify(t, "idle")
  /\ UNCHANGED conn

-----------------------------------------------------------------------------
(***************************************************************************)
(* release(), by the destructor of the Guard.                              *)
(***************************************************************************)

Release(t) ==
  /\ pc[t] = "holding" /\ holder = NoThread
  /\ available' = Append(available, slotOf[t])
  /\ slotOf' = [slotOf EXCEPT ![t] = NoSlot]
  /\ pc' = [pc EXCEPT ![t] = "notify"]
  /\ UNCHANGED <<conn, holder>>

Notify(t) ==
  /\ pc[t] = "notify"
  /\ MoveAndNotify(t, "idle")
  /\ UNCHANGED <<available, conn, holder, slotOf>>

-----------------------------------------------------------------------------
(***************************************************************************)
(* The environment: connections break, in use or not.                      *)
(***************************************************************************)

Drop(s) ==
  /\ conn[s] = "live"
  /\ conn' = [conn EXCEPT ![s] = "dead"]
  /\ UNCHANGED <<available, holder, pc, slotOf>>

-----------------------------------------------------------------------------

Progress(t) ==
  \/ Take(t) \/ Wait(t) \/ GiveUp(t)
  \/ ProbeSucceeds(t) \/ Reopen(t) \/ ReopenFails(t)
  \/ Notify(t)

Next ==
  \/ \E t \in Threads :
       Progress(t) \/ Call(t) \/ Release(t) \/ SpuriousWake(t) \/ TimeOut(t)
  \/ \E s \in Slots : Drop(s)

Spec == Init /\ [][Next]_vars

\* A thread that can run does.  Neither the timeout nor the end of a query is
\* assumed, nor anything about the order in which threads get the mutex.
FairSpec == Spec /\ \A t \in Threads : WF_vars(Progress(t))

-----------------------------------------------------------------------------
(***************************************************************************)
(* Properties.                                                             *)
(***************************************************************************)

\* No connection is ever given to two threads, and none is lost: at any time a
\* slot is free, once, or belongs to one thread, whether acquire() succeeds,
\* times out or fails to reconnect.
SlotsAreExclusive ==
  /\ \A i, j \in DOMAIN available : available[i] = available[j] => i = j
  /\ \A i \in DOMAIN available, t \in Threads : available[i] # slotOf[t]
  /\ \A t1, t2 \in Threads : slotOf[t1] = slotOf[t2] /\ t1 # t2 =>
                               slotOf[t1] = NoSlot

NoSlotIsLost ==
  \A s \in Slots : \/ \E i \in DOMAIN available : available[i] = s
                   \/ \E t \in Threads : slotOf[t] = s

\* While threads sleep, every free slot has a thread on its way to it, or a
\* notification that will wake one: none of them sleeps until its timeout next
\* to a free slot (the notify_one of release() and of a failed reconnect).
Coming == {t \in Threads : pc[t] \in {"woken", "late", "notify"}}

FreeSlotsAreClaimed ==
  Asleep # {} => Len(available) <= Cardinality(Coming)

\* The pool deals out its connections as Leases says: a slot is a thread's from
\* the end of acquire() until the destructor of the Guard, and what happens in
\* between (the wait, the probe under the mutex, the notifications) is not seen.
\* In particular a timeout that ends next to a free slot does not throw.
heldSlots == [t \in Threads |-> IF pc[t] = "holding" THEN slotOf[t] ELSE NoSlot]
askers    == {t \in Threads : pc[t] \in Acquiring}

Deal == INSTANCE Leases WITH held <- heldSlots, asking <- askers
ImplementsLeases == Deal!Spec

\* The pool never keeps a free slot from a sleeping thread for good, though
\* nobody's timeout comes: someone takes it.
FreeSlotsAreTaken == available # <<>> ~> available = <<>> \/ Asleep = {}

=============================================================================
