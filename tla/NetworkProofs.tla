---------------------------- MODULE NetworkProofs ----------------------------
(***************************************************************************)
(* Proofs about Network, for any number of sockets and of queues and any   *)
(* limits: order, slots and writers of connections, and that each is a     *)
(* Conversation.                                                           *)
(***************************************************************************)
EXTENDS Network, SequenceTheorems, FiniteSetTheorems, WellFoundedInduction, TLAPS

\* A set of numbers has a smallest one.
LEMMA Smallest ==
  ASSUME NEW S \in SUBSET Nat, S # {}
  PROVE  \E k \in S : \A j \in S : k <= j
<1> DEFINE R == {ss \in Nat \X Nat : ss[1] < ss[2]}
<1>1. IsWellFoundedOn(R, Nat)
  BY NatLessThanWellFounded DEF OpToRel
<1>2. ASSUME NEW x \in Nat, NEW y \in Nat, <<y, x>> \notin R PROVE x <= y
  BY <1>2
<1>. HIDE DEF R
<1>3. PICK x \in S : \A y \in S : ~ (<<y, x>> \in R)
  BY <1>1, WFMin
<1>. QED BY <1>2, <1>3

\* There is a number of frames to hand over, all of them complete requests: the
\* first place where extractV2Messages has a reason to stop.
LEMMA FramesExist ==
  ASSUME NEW u \in Seq(Messages)
  PROVE  /\ Complete(u) \in 0..MaxPerRead
         /\ 2 * Complete(u) <= Len(u)
         /\ \A i \in 1..Complete(u) : u[2 * i - 1] \in Requests
<1> USE NetworkAssumption DEF NetworkAssumption
<1> DEFINE Stops(k) == \/ k = MaxPerRead
                       \/ Len(u) < 2 * (k + 1)
                       \/ u[2 * k + 1] = TooLong
           S == {k \in 0..MaxPerRead : Stops(k)}
<1>1. MaxPerRead \in S /\ S \in SUBSET Nat
  OBVIOUS
<1>2. PICK k \in S : \A j \in S : k <= j
  <2>1. S # {}
    BY <1>1
  <2>. HIDE DEF S
  <2>. QED BY <1>1, <2>1, Smallest
<1>3. \A j \in 0..(k - 1) : 2 * (j + 1) <= Len(u) /\ u[2 * j + 1] # TooLong
  <2> TAKE j \in 0..(k - 1)
  <2>1. j \in 0..MaxPerRead /\ j \notin S
    BY <1>2
  <2>. QED BY <2>1, LenProperties
<1>4. 2 * k <= Len(u)
  <2>1. CASE k = 0
    BY <2>1, LenProperties
  <2>2. CASE k > 0
    <3>1. k - 1 \in 0..(k - 1) /\ 2 * ((k - 1) + 1) = 2 * k
      BY <2>2, <1>2
    <3>. QED BY <1>3, <3>1
  <2>. QED BY <2>1, <2>2, <1>2
<1>5. \A i \in 1..k : u[2 * i - 1] # TooLong
  <2> TAKE i \in 1..k
  <2>1. i - 1 \in 0..(k - 1) /\ 2 * (i - 1) + 1 = 2 * i - 1
    BY <1>2
  <2>. QED BY <1>3, <2>1
<1>6. /\ Complete(u) \in 0..MaxPerRead
      /\ 2 * Complete(u) <= Len(u)
      /\ \A i \in 1..Complete(u) : u[2 * i - 1] # TooLong
  <2>1. k \in 0..MaxPerRead /\ Stops(k)
    BY <1>2
  <2>. QED BY <1>4, <1>5, <2>1 DEF Complete
<1>7. ASSUME NEW i \in 1..Complete(u) PROVE u[2 * i - 1] \in Requests
  <2>1. 2 * i - 1 \in 1..Len(u) /\ u[2 * i - 1] # TooLong
    BY <1>6, LenProperties
  <2>. QED BY <2>1, ElementOfSeq DEF Messages
<1>. QED BY <1>6, <1>7

-----------------------------------------------------------------------------
(***************************************************************************)
(* Types.  What comes in and what goes out are typed separately, since few *)
(* actions concern both.                                                   *)
(***************************************************************************)

InType ==
  /\ up \in BOOLEAN
  /\ phase \in [Sockets -> Phases]
  /\ again \in [Sockets -> BOOLEAN]
  /\ open \in [Sockets -> BOOLEAN]
  /\ active \subseteq Sockets
  /\ stream \in [Sockets -> Seq(Messages)]
  /\ asked \in [Sockets -> 0..MaxFrames]
  /\ buffer \in [Sockets -> Seq(Messages)]
  /\ handed \in [Sockets -> Seq(Requests)]
  /\ jobs \in [Sockets -> SUBSET Requests]

OutType ==
  /\ queue \in [Sockets -> Queues \union {NoQueue}]
  /\ owner \in [Queues -> Sockets \union {NoSocket}]
  /\ tasks \in [Queues -> Seq(Messages)]
  /\ pending \in [Queues -> Seq(Messages)]
  /\ writing \in [Queues -> BOOLEAN]
  /\ op \in [Queues -> Seq(Messages)]
  /\ posted \in [Sockets -> Seq(Messages)]
  /\ wire \in [Sockets -> Seq(Messages)]

LEMMA TypeSplit == TypeOK <=> InType /\ OutType
  BY DEF TypeOK, InType, OutType

LEMMA SendType ==
  ASSUME OutType, NEW s \in Sockets, NEW m \in Messages, Send(s, m)
  PROVE  OutType'
<1>1. PICK q \in Queues :
        /\ FindQueue(s, q)
        /\ tasks' = [tasks EXCEPT ![q] = Append(@, m)]
        /\ posted' = [posted EXCEPT ![s] = Append(@, m)]
        /\ UNCHANGED <<op, wire>>
  BY DEF Send
<1>2. tasks' \in [Queues -> Seq(Messages)] /\ posted' \in [Sockets -> Seq(Messages)]
  BY <1>1, AppendProperties DEF OutType
<1>3. /\ queue' \in [Sockets -> Queues \union {NoQueue}]
      /\ owner' \in [Queues -> Sockets \union {NoSocket}]
      /\ pending' \in [Queues -> Seq(Messages)]
      /\ writing' \in [Queues -> BOOLEAN]
  <2>1. CASE UNCHANGED <<queue, owner, pending, writing>>
    BY <2>1 DEF OutType
  <2>2. CASE ~UNCHANGED <<queue, owner, pending, writing>>
    <3>1. /\ queue' = [queue EXCEPT ![s] = q]
          /\ owner' = [owner EXCEPT ![q] = s]
          /\ pending' = [pending EXCEPT ![q] = <<>>]
          /\ writing' = [writing EXCEPT ![q] = FALSE]
      BY <1>1, <2>2, Zenon DEF FindQueue
    <3>2. pending' \in [Queues -> Seq(Messages)]
      BY <3>1, EmptySeq DEF OutType
    <3>. QED BY <3>1, <3>2 DEF OutType
  <2>. QED BY <2>1, <2>2
<1>. QED BY <1>1, <1>2, <1>3 DEF OutType

LEMMA DoNextWriteType ==
  ASSUME OutType, NEW q \in Queues, NEW p \in Seq(Messages), DoNextWrite(q, p)
  PROVE  /\ pending' \in [Queues -> Seq(Messages)]
         /\ writing' \in [Queues -> BOOLEAN]
         /\ op' \in [Queues -> Seq(Messages)]
<1> DEFINE start == p # <<>> /\ open[owner[q]]
<1>1. start \in BOOLEAN
  OBVIOUS
<1>2. (IF start THEN Tail(p) ELSE <<>>) \in Seq(Messages)
      /\ (IF start THEN <<Head(p)>> ELSE <<>>) \in Seq(Messages)
  BY HeadTailProperties, EmptySeq
<1>3. /\ pending' = [pending EXCEPT ![q] = IF start THEN Tail(p) ELSE <<>>]
      /\ writing' = [writing EXCEPT ![q] = start]
      /\ op' = [op EXCEPT ![q] = IF start THEN <<Head(p)>> ELSE <<>>]
  BY DEF DoNextWrite
<1>. HIDE DEF start
<1>. QED BY <1>1, <1>2, <1>3 DEF OutType

LEMMA WriteType ==
  ASSUME OutType, NEW q \in Queues, RunTask(q) \/ WriteDone(q) \/ WriteFails(q),
         \A r \in Queues : op[r] # <<>> => owner[r] \in Sockets
  PROVE  OutType'
<1>1. CASE RunTask(q)
  <2> DEFINE p == Append(pending[q], Head(tasks[q]))
  <2>1. p \in Seq(Messages) /\ tasks' \in [Queues -> Seq(Messages)]
    BY <1>1, HeadTailProperties, AppendProperties DEF RunTask, OutType
  <2>2. CASE writing[q]
    <3>1. pending' = [pending EXCEPT ![q] = p] /\ UNCHANGED <<writing, op>>
      BY <1>1, <2>2 DEF RunTask
    <3>2. pending' \in [Queues -> Seq(Messages)]
      BY <2>1, <3>1 DEF OutType
    <3>. QED BY <1>1, <2>1, <3>1, <3>2 DEF RunTask, OutType
  <2>3. CASE ~writing[q]
    <3>1. DoNextWrite(q, p)
      BY <1>1, <2>3 DEF RunTask
    <3>. QED BY <1>1, <2>1, <3>1, DoNextWriteType DEF RunTask, OutType
  <2>. QED BY <2>2, <2>3
<1>2. CASE WriteDone(q)
  <2>1. owner[q] \in Sockets
    BY <1>2 DEF WriteDone
  <2>2. wire' \in [Sockets -> Seq(Messages)]
    BY <1>2, <2>1, ConcatProperties DEF WriteDone, OutType
  <2>3. pending[q] \in Seq(Messages)
    BY DEF OutType
  <2>. QED BY <1>2, <2>2, <2>3, DoNextWriteType DEF WriteDone, OutType
<1>3. CASE WriteFails(q)
  BY <1>3, EmptySeq DEF WriteFails, OutType
<1>. QED BY <1>1, <1>2, <1>3

-----------------------------------------------------------------------------
(***************************************************************************)
(* Replies.                                                                *)
(***************************************************************************)

\* The queue that is busy for a socket is the one the socket is entered with;
\* a write is under way whenever a reply waits behind one.
Writers ==
  \A q \in Queues :
    /\ Busy(q) => owner[q] \in Sockets /\ queue[owner[q]] = q
    /\ Len(op[q]) <= 1
    /\ writing[q] <=> op[q] # <<>>
    /\ pending[q] # <<>> => writing[q]

\* A connection that was sent something keeps its queue while it lives.
QueueStays ==
  \A s \in Sockets :
    Alive(s) /\ posted[s] # <<>> => queue[s] \in Queues /\ owner[queue[s]] = s

Begins(w, all) == \E rest \in Seq(Messages) : all = w \o rest

Delivered(s) == Begins(wire[s], posted[s])

\* What was posted for a socket is written, or under way, or in its queue; what
\* a closed socket loses is the end of it.
Conserved(q, s) ==
  /\ Begins(wire[s] \o op[q], posted[s])
  /\ open[s] => posted[s] = ((wire[s] \o op[q]) \o pending[q]) \o tasks[q]

Replies ==
  /\ Writers
  /\ QueueStays
  /\ \A s \in Sockets : Delivered(s)
  /\ \A q \in Queues, s \in Sockets : owner[q] = s /\ queue[s] = q => Conserved(q, s)

LEMMA AppendMessage ==
  ASSUME NEW p \in Seq(Messages), NEW q \in Seq(Messages), NEW m \in Messages
  PROVE  /\ p \o Append(q, m) = Append(p \o q, m)
         /\ Append(q, m) \in Seq(Messages)
  BY AppendProperties, ConcatProperties, SeqEqual

LEMMA MoveMessage ==
  ASSUME NEW p \in Seq(Messages), NEW q \in Seq(Messages), q # <<>>
  PROVE  /\ Append(p, Head(q)) \o Tail(q) = p \o q
         /\ Head(q) \in Messages /\ Tail(q) \in Seq(Messages)
<1>1. Head(q) \in Messages /\ Tail(q) \in Seq(Messages)
  BY HeadTailProperties
<1>2. Append(p, Head(q)) \o Tail(q) \in Seq(Messages) /\ p \o q \in Seq(Messages)
  BY <1>1
<1>3. Len(Append(p, Head(q)) \o Tail(q)) = Len(p \o q)
  BY <1>1
<1>4. \A i \in 1..Len(p \o q) : (Append(p, Head(q)) \o Tail(q))[i] = (p \o q)[i]
  BY <1>1
<1>5. Append(p, Head(q)) \o Tail(q) = p \o q
  BY ONLY <1>2, <1>3, <1>4, SeqEqual, Zenon
<1>. QED BY <1>1, <1>5

\* Steps that send nothing and revive no socket.
LEMMA QuietReplies ==
  ASSUME Replies, NoSend, \A s \in Sockets : Alive(s)' => Alive(s),
         \A s \in Sockets : open'[s] => open[s]
  PROVE  Replies'
<1> USE DEF Replies, NoSend, queueVars
<1>1. Writers'
  BY DEF Writers, Busy
<1>2. QueueStays'
  BY DEF QueueStays
<1>3. \A s \in Sockets : Delivered(s)'
  BY DEF Delivered
<1>4. \A q \in Queues, s \in Sockets : Conserved(q, s) => Conserved(q, s)'
  BY DEF Conserved
<1>. QED BY <1>1, <1>2, <1>3, <1>4

\* Entries are erased from writeQueues_ only if their socket is gone.
LEMMA DropReplies ==
  ASSUME Replies,
         \A s \in Sockets :
           queue'[s] = queue[s] \/ (~OwnedBy(queue[s], s) /\ queue'[s] = NoQueue),
         UNCHANGED <<open, jobs, queueVars, posted, wire>>,
         \A s \in Sockets : phase'[s] # "none" <=> phase[s] # "none"
  PROVE  Replies'
<1> USE DEF Replies, queueVars
<1>1. \A s \in Sockets : Alive(s)' <=> Alive(s)
  BY DEF Alive, Busy
<1>2. Writers'
  <2>1. \A q \in Queues : Busy(q) => OwnedBy(queue[owner[q]], owner[q])
    BY DEF Writers, OwnedBy, Alive
  <2>. QED BY <2>1 DEF Writers, Busy
<1>3. QueueStays'
  BY <1>1 DEF QueueStays, OwnedBy
<1>4. \A s \in Sockets : Delivered(s)'
  BY DEF Delivered
<1>5. \A q \in Queues, s \in Sockets : Conserved(q, s) => Conserved(q, s)'
  BY DEF Conserved
<1>6. \A q \in Queues, s \in Sockets : queue'[s] = q => queue[s] = q
  BY NetworkAssumption DEF NetworkAssumption
<1>. QED BY <1>2, <1>3, <1>4, <1>5, <1>6

\* A reply is sent to a live socket: the queue it was entered with is found, or
\* it was never sent anything and gets an unused one.
LEMMA SendReplies ==
  ASSUME OutType, Replies, NEW s \in Sockets, NEW m \in Messages,
         Send(s, m), Alive(s), UNCHANGED open,
         \A t \in Sockets : phase'[t] # "none" \/ jobs'[t] # {} => Alive(t)
  PROVE  Replies'
<1> USE DEF Replies
<1>1. PICK q \in Queues :
        /\ FindQueue(s, q)
        /\ tasks' = [tasks EXCEPT ![q] = Append(@, m)]
        /\ posted' = [posted EXCEPT ![s] = Append(@, m)]
        /\ UNCHANGED <<op, wire>>
  BY DEF Send
<1>2. /\ tasks'[q] = Append(tasks[q], m) /\ tasks'[q] # <<>>
      /\ \A r \in Queues \ {q} : tasks'[r] = tasks[r]
      /\ posted'[s] = Append(posted[s], m)
      /\ \A t \in Sockets \ {s} : posted'[t] = posted[t]
  <2>1. /\ tasks'[q] = Append(tasks[q], m) /\ tasks[q] \in Seq(Messages)
        /\ \A r \in Queues \ {q} : tasks'[r] = tasks[r]
    BY <1>1, Zenon DEF OutType
  <2>2. /\ posted'[s] = Append(posted[s], m)
        /\ \A t \in Sockets \ {s} : posted'[t] = posted[t]
    BY <1>1, Zenon DEF OutType
  <2>3. Append(tasks[q], m) # <<>>
    BY <2>1
  <2>. QED BY <2>1, <2>2, <2>3
<1>3. \A t \in Sockets : Delivered(t)'
  <2> TAKE t \in Sockets
  <2>1. PICK rest \in Seq(Messages) : posted[t] = wire[t] \o rest
    BY DEF Delivered, Begins
  <2>2. CASE t = s
    <3>1. posted'[t] = wire[t] \o Append(rest, m) /\ Append(rest, m) \in Seq(Messages)
      <4>1. wire[t] \in Seq(Messages)
        BY DEF OutType
      <4>2. /\ wire[t] \o Append(rest, m) = Append(wire[t] \o rest, m)
            /\ Append(rest, m) \in Seq(Messages)
        BY <4>1, AppendMessage, Zenon
      <4>. HIDE DEF Replies
      <4>. QED BY <1>2, <2>1, <2>2, <4>2
    <3>. QED BY <1>1, <3>1 DEF Delivered, Begins
  <2>3. CASE t # s
    BY <1>1, <1>2, <2>1, <2>3 DEF Delivered
  <2>. QED BY <2>2, <2>3
<1>4. CASE queue[s] # NoQueue /\ OwnedBy(queue[s], s)
  <2>1. q = queue[s] /\ owner[q] = s /\ UNCHANGED <<queue, owner, pending, writing>>
    BY <1>1, <1>4 DEF FindQueue, OwnedBy
  <2>2. Writers'
    BY <1>1, <1>2, <2>1 DEF Writers, Busy
  <2>3. QueueStays'
    <3>1. \A t \in Sockets \ {s} : Alive(t)' => Alive(t)
      BY <1>1, <1>2, <2>1 DEF Alive, Busy
    <3>. QED BY <1>2, <2>1, <3>1 DEF QueueStays
  <2>4. ASSUME NEW r \in Queues, NEW t \in Sockets, owner'[r] = t, queue'[t] = r
        PROVE  Conserved(r, t)'
    <3>1. Conserved(r, t)
      BY <2>1, <2>4
    <3>2. CASE t = s
      <4>1. r = q
        BY <2>1, <2>4, <3>2
      <4>2. PICK rest \in Seq(Messages) : posted[s] = (wire[s] \o op[q]) \o rest
        BY <3>1, <3>2, <4>1 DEF Conserved, Begins
      <4>3. /\ posted'[s] = (wire[s] \o op[q]) \o Append(rest, m)
            /\ Append(rest, m) \in Seq(Messages)
        <5>1. wire[s] \o op[q] \in Seq(Messages)
          BY ConcatProperties DEF OutType
        <5>2. /\ (wire[s] \o op[q]) \o Append(rest, m) = Append((wire[s] \o op[q]) \o rest, m)
              /\ Append(rest, m) \in Seq(Messages)
          BY <5>1, AppendMessage, Zenon
        <5>. QED BY <1>2, <4>2, <5>2
      <4>4. open[s] => posted'[s] = ((wire[s] \o op[q]) \o pending[q]) \o tasks'[q]
        <5>1. ((wire[s] \o op[q]) \o pending[q]) \in Seq(Messages)
              /\ tasks[q] \in Seq(Messages)
          BY ConcatProperties DEF OutType
        <5>2. open[s] => posted[s] = ((wire[s] \o op[q]) \o pending[q]) \o tasks[q]
          BY <3>1, <3>2, <4>1 DEF Conserved
        <5> DEFINE X == (wire[s] \o op[q]) \o pending[q]
        <5>3. X \o Append(tasks[q], m) = Append(X \o tasks[q], m)
          BY <5>1, AppendMessage, Zenon
        <5>. HIDE DEF X
        <5>4. open[s] => posted[s] = X \o tasks[q]
          BY <5>2 DEF X
        <5>5. open[s] => posted'[s] = X \o tasks'[q]
          BY <1>2, <5>3, <5>4
        <5>. QED BY <5>5 DEF X
      <4>. QED BY <1>1, <2>1, <3>2, <4>1, <4>3, <4>4 DEF Conserved, Begins
    <3>3. CASE t # s
      <4>1. r # q
        BY <2>1, <2>4, <3>3
      <4>. QED BY <1>1, <1>2, <2>1, <3>1, <3>3, <4>1 DEF Conserved
    <3>. QED BY <3>2, <3>3
  <2>. QED BY <1>3, <2>2, <2>3, <2>4
<1>5. CASE ~(queue[s] # NoQueue /\ OwnedBy(queue[s], s))
  <2>1. /\ Unused(q)
        /\ queue' = [queue EXCEPT ![s] = q]
        /\ owner' = [owner EXCEPT ![q] = s]
        /\ pending' = [pending EXCEPT ![q] = <<>>]
        /\ writing' = [writing EXCEPT ![q] = FALSE]
    BY <1>1, <1>5, Zenon DEF FindQueue
  <2>2. /\ tasks[q] = <<>> /\ op[q] = <<>> /\ \A t \in Sockets : queue[t] # q
        /\ queue'[s] = q /\ \A t \in Sockets \ {s} : queue'[t] = queue[t]
        /\ owner'[q] = s /\ \A r \in Queues \ {q} : owner'[r] = owner[r]
        /\ pending'[q] = <<>> /\ \A r \in Queues \ {q} : pending'[r] = pending[r]
        /\ writing'[q] = FALSE /\ \A r \in Queues \ {q} : writing'[r] = writing[r]
    BY <2>1 DEF Unused, Busy, OutType
  <2>3. posted[s] = <<>>
    BY <1>5, NetworkAssumption DEF QueueStays, OwnedBy, NetworkAssumption
  <2>4. wire[s] = <<>>
    <3>1. PICK rest \in Seq(Messages) : <<>> = wire[s] \o rest
      BY <2>3 DEF Delivered, Begins
    <3>2. wire[s] \in Seq(Messages) /\ Len(wire[s] \o rest) = Len(wire[s]) + Len(rest)
      BY ConcatProperties DEF OutType
    <3>3. Len(wire[s] \o rest) = 0
      BY <3>1, EmptySeq, Zenon
    <3>4. Len(wire[s]) = 0
      BY <3>2, <3>3, LenProperties
    <3>. QED BY <3>2, <3>4, EmptySeq
  <2>5. \A r \in Queues : Busy(r) => owner[r] # s
    BY <1>5, NetworkAssumption DEF Writers, OwnedBy, NetworkAssumption
  <2>6. Writers'
    <3> SUFFICES ASSUME NEW r \in Queues
                 PROVE  /\ Busy(r)' => owner'[r] \in Sockets /\ queue'[owner'[r]] = r
                        /\ Len(op'[r]) <= 1
                        /\ writing'[r] <=> op'[r] # <<>>
                        /\ pending'[r] # <<>> => writing'[r]
      BY DEF Writers
    <3>1. CASE r = q
      BY <1>1, <2>2, <3>1 DEF Writers
    <3>2. CASE r # q
      BY <1>1, <1>2, <2>2, <2>5, <3>2 DEF Writers, Busy
    <3>. QED BY <3>1, <3>2
  <2>7. QueueStays'
    <3>1. \A t \in Sockets \ {s} : Alive(t)' => Alive(t)
      BY <1>1, <1>2, <2>2 DEF Alive, Busy
    <3>. QED BY <1>2, <2>2, <3>1 DEF QueueStays
  <2>8. ASSUME NEW r \in Queues, NEW t \in Sockets, owner'[r] = t, queue'[t] = r
        PROVE  Conserved(r, t)'
    <3>1. CASE t = s
      <4>1. r = q
        BY <2>2, <2>8, <3>1
      <4>2. posted'[s] = <<m>> /\ tasks'[q] = <<m>> /\ <<m>> \in Seq(Messages)
        BY <1>2, <2>2, <2>3
      <4>3. <<>> \o <<>> = <<>> /\ <<>> \o <<m>> = <<m>> /\ <<>> \in Seq(Messages)
        BY EmptySeq, ConcatEmptySeq
      <4>4. posted'[s] = (wire'[s] \o op'[q]) \o <<m>>
        BY <1>1, <2>2, <2>4, <4>2, <4>3
      <4>5. posted'[s] = ((wire'[s] \o op'[q]) \o pending'[q]) \o tasks'[q]
        BY <1>1, <2>2, <2>4, <4>2, <4>3
      <4>. QED BY <3>1, <4>1, <4>2, <4>4, <4>5 DEF Conserved, Begins
    <3>2. CASE t # s
      <4>1. queue[t] = r /\ r # q /\ owner[r] = t
        BY <2>2, <2>8, <3>2
      <4>2. Conserved(r, t)
        BY <4>1
      <4>3. /\ posted'[t] = posted[t] /\ wire'[t] = wire[t] /\ open'[t] = open[t]
            /\ op'[r] = op[r] /\ pending'[r] = pending[r] /\ tasks'[r] = tasks[r]
        BY <1>1, <1>2, <2>2, <3>2, <4>1
      <4>. QED BY <4>2, <4>3 DEF Conserved
    <3>. QED BY <3>1, <3>2
  <2>. QED BY <1>3, <2>6, <2>7, <2>8
<1>. QED BY <1>4, <1>5

LEMMA AssociativeMessages ==
  ASSUME NEW p \in Seq(Messages), NEW q \in Seq(Messages), NEW r \in Seq(Messages)
  PROVE  (p \o q) \o r = p \o (q \o r)
<1>1. p \o q \in Seq(Messages) /\ q \o r \in Seq(Messages)
  OBVIOUS
<1>2. (p \o q) \o r \in Seq(Messages) /\ p \o (q \o r) \in Seq(Messages)
  BY <1>1
<1>3. Len((p \o q) \o r) = Len(p \o (q \o r))
  BY <1>1
<1>4. \A i \in 1..Len((p \o q) \o r) : ((p \o q) \o r)[i] = (p \o (q \o r))[i]
  BY <1>1
<1>. QED BY ONLY <1>2, <1>3, <1>4, SeqEqual, Zenon

\* doNextWrite only touches its own queue.
LEMMA DoNextWriteEffect ==
  ASSUME OutType, NEW q \in Queues, NEW p \in Seq(Messages), DoNextWrite(q, p)
  PROVE  /\ IF p # <<>> /\ open[owner[q]]
            THEN op'[q] = <<Head(p)>> /\ pending'[q] = Tail(p) /\ writing'[q] = TRUE
            ELSE op'[q] = <<>> /\ pending'[q] = <<>> /\ writing'[q] = FALSE
         /\ Len(op'[q]) <= 1
         /\ writing'[q] <=> op'[q] # <<>>
         /\ pending'[q] # <<>> => writing'[q]
         /\ \A r \in Queues \ {q} : /\ op'[r] = op[r] /\ writing'[r] = writing[r]
                                    /\ pending'[r] = pending[r]
<1>1. CASE p # <<>> /\ open[owner[q]]
  <2>1. /\ pending' = [pending EXCEPT ![q] = Tail(p)]
        /\ writing' = [writing EXCEPT ![q] = TRUE]
        /\ op' = [op EXCEPT ![q] = <<Head(p)>>]
    BY <1>1 DEF DoNextWrite
  <2>2. op'[q] = <<Head(p)>> /\ pending'[q] = Tail(p) /\ writing'[q] = TRUE
    BY <2>1 DEF OutType
  <2>3. \A r \in Queues \ {q} : /\ op'[r] = op[r] /\ writing'[r] = writing[r]
                                /\ pending'[r] = pending[r]
    BY <2>1 DEF OutType
  <2>4. Len(op'[q]) <= 1 /\ op'[q] # <<>>
    BY <2>2
  <2>. QED BY <1>1, <2>2, <2>3, <2>4
<1>2. CASE ~(p # <<>> /\ open[owner[q]])
  <2>1. /\ pending' = [pending EXCEPT ![q] = <<>>]
        /\ writing' = [writing EXCEPT ![q] = FALSE]
        /\ op' = [op EXCEPT ![q] = <<>>]
    BY <1>2 DEF DoNextWrite
  <2>2. op'[q] = <<>> /\ pending'[q] = <<>> /\ writing'[q] = FALSE
    BY <2>1 DEF OutType
  <2>3. \A r \in Queues \ {q} : /\ op'[r] = op[r] /\ writing'[r] = writing[r]
                                /\ pending'[r] = pending[r]
    BY <2>1 DEF OutType
  <2>4. Len(op'[q]) <= 1
    BY <2>2
  <2>. QED BY <1>2, <2>2, <2>3, <2>4
<1>. QED BY <1>1, <1>2

LEMMA BeginsFurther ==
  ASSUME NEW w \in Seq(Messages), NEW x \in Seq(Messages), NEW y \in Seq(Messages),
         NEW all, all = (w \o x) \o y
  PROVE  Begins(w, all)
<1>1. x \o y \in Seq(Messages)
  BY ConcatProperties
<1>2. (w \o x) \o y = w \o (x \o y)
  BY AssociativeMessages, Zenon
<1>. QED BY <1>1, <1>2 DEF Begins

\* Of all, w is written; p waits and t is on its way to the strand unless the
\* socket is closed.
Waits(w, p, t, all, socketOpen) ==
  Begins(w, all) /\ (socketOpen => all = (w \o p) \o t)

\* doNextWrite goes on at the right place.
LEMMA DoNextWriteReplies ==
  ASSUME OutType, NEW q \in Queues, NEW p \in Seq(Messages), DoNextWrite(q, p),
         NEW w \in Seq(Messages), NEW t \in Seq(Messages), NEW all,
         Waits(w, p, t, all, open[owner[q]])
  PROVE  Waits(w \o op'[q], pending'[q], t, all, open[owner[q]])
<1> USE DEF Waits
<1>1. CASE p # <<>> /\ open[owner[q]]
  <2>1. op'[q] = <<Head(p)>> /\ pending'[q] = Tail(p)
    BY <1>1, DoNextWriteEffect
  <2>2. Head(p) \in Messages /\ Tail(p) \in Seq(Messages)
        /\ Append(w, Head(p)) \o Tail(p) = w \o p
    BY <1>1, MoveMessage
  <2>3. w \o <<Head(p)>> = Append(w, Head(p)) /\ w \o <<Head(p)>> \in Seq(Messages)
    BY <2>2
  <2>4. all = ((w \o <<Head(p)>>) \o Tail(p)) \o t
    BY <1>1, <2>2, <2>3
  <2>5. Begins(w \o <<Head(p)>>, all)
    BY <2>2, <2>3, <2>4, BeginsFurther
  <2>. QED BY <2>1, <2>4, <2>5
<1>2. CASE ~(p # <<>> /\ open[owner[q]])
  <2>1. op'[q] = <<>> /\ pending'[q] = <<>>
    BY <1>2, DoNextWriteEffect
  <2>2. w \o <<>> = w
    BY ConcatEmptySeq
  <2>. QED BY <1>2, <2>1, <2>2
<1>. QED BY <1>1, <1>2

\* The steps of a strand, whose socket is the one it is entered for.
LEMMA StrandReplies ==
  ASSUME OutType, open \in [Sockets -> BOOLEAN], Replies, NEW q \in Queues,
         RunTask(q) \/ WriteDone(q) \/ WriteFails(q)
  PROVE  Replies'
<1> USE DEF Replies
<1>0. PICK s \in Sockets : owner[q] = s /\ queue[s] = q
  <2>1. Busy(q)
    BY DEF RunTask, WriteDone, WriteFails, Busy
  <2>. QED BY <2>1 DEF Writers
<1>1. /\ owner[q] = s /\ queue[s] = q /\ Conserved(q, s) /\ Delivered(s)
      /\ UNCHANGED <<queue, owner>>
  BY <1>0 DEF RunTask, WriteDone, WriteFails
\* It is enough to look at the queue itself.
<1>2. SUFFICES
        /\ \A r \in Queues \ {q} :
             /\ op'[r] = op[r] /\ writing'[r] = writing[r]
             /\ pending'[r] = pending[r] /\ tasks'[r] = tasks[r]
        /\ \A t \in Sockets \ {s} : wire'[t] = wire[t] /\ open'[t] = open[t]
        /\ Len(op'[q]) <= 1
        /\ writing'[q] <=> op'[q] # <<>>
        /\ pending'[q] # <<>> => writing'[q]
        /\ Conserved(q, s)' /\ Delivered(s)'
  <2>1. UNCHANGED <<posted, phase, jobs>>
    BY DEF RunTask, WriteDone, WriteFails
  <2>2. Busy(q)
    BY DEF RunTask, WriteDone, WriteFails, Busy
  <2>3. \A t \in Sockets : Alive(t)' => Alive(t)
    BY <1>1, <1>2, <2>1, <2>2 DEF Alive, Busy
  <2>4. Writers'
    BY <1>1, <1>2 DEF Writers, Busy
  <2>5. QueueStays'
    BY <1>1, <2>1, <2>3 DEF QueueStays
  <2>6. \A t \in Sockets : Delivered(t)'
    <3> TAKE t \in Sockets
    <3>1. CASE t = s
      BY <1>2, <3>1
    <3>2. CASE t # s
      <4>1. wire'[t] = wire[t] /\ posted'[t] = posted[t] /\ Delivered(t)
        BY <1>2, <2>1, <3>2
      <4>. QED BY <4>1, Zenon DEF Delivered
    <3>. QED BY <3>1, <3>2
  <2>7. ASSUME NEW r \in Queues, NEW t \in Sockets, owner'[r] = t, queue'[t] = r
        PROVE  Conserved(r, t)'
    <3>1. CASE r = q
      BY <1>1, <1>2, <2>7, <3>1
    <3>2. CASE r # q
      <4>1. t # s /\ Conserved(r, t)
        BY <1>1, <2>7, <3>2
      <4>2. /\ posted'[t] = posted[t] /\ wire'[t] = wire[t] /\ open'[t] = open[t]
            /\ op'[r] = op[r] /\ pending'[r] = pending[r] /\ tasks'[r] = tasks[r]
        BY <1>2, <2>1, <3>2, <4>1
      <4>. QED BY <4>1, <4>2 DEF Conserved
    <3>. QED BY <3>1, <3>2
  <2>. QED BY <2>4, <2>5, <2>6, <2>7
<1>3. /\ wire[s] \in Seq(Messages) /\ op[q] \in Seq(Messages)
      /\ pending[q] \in Seq(Messages) /\ tasks[q] \in Seq(Messages)
      /\ wire[s] \o op[q] \in Seq(Messages)
  BY <1>1, ConcatProperties DEF OutType
<1>4. CASE RunTask(q)
  <2> DEFINE p == Append(pending[q], Head(tasks[q]))
  <2>1. /\ tasks[q] # <<>> /\ tasks'[q] = Tail(tasks[q])
        /\ \A r \in Queues \ {q} : tasks'[r] = tasks[r]
        /\ UNCHANGED <<wire, open, posted>>
    BY <1>4 DEF RunTask, OutType
  <2>2. /\ Head(tasks[q]) \in Messages /\ Tail(tasks[q]) \in Seq(Messages)
        /\ p \in Seq(Messages)
    BY <1>3, <2>1, HeadTailProperties, AppendProperties
  <2>3. ASSUME NEW x \in Seq(Messages)
        PROVE  (x \o p) \o Tail(tasks[q]) = (x \o pending[q]) \o tasks[q]
    <3>1. x \o p = Append(x \o pending[q], Head(tasks[q]))
      BY <1>3, <2>2, AppendMessage
    <3>2. x \o pending[q] \in Seq(Messages)
      BY <1>3, ConcatProperties
    <3>3. Append(x \o pending[q], Head(tasks[q])) \o Tail(tasks[q])
            = (x \o pending[q]) \o tasks[q]
      BY <1>3, <2>1, <3>2, MoveMessage
    <3>. QED BY <3>1, <3>3
  <2>4. Delivered(s)'
    BY <1>1, <2>1 DEF Delivered
  <2>5. CASE writing[q]
    <3>1. pending' = [pending EXCEPT ![q] = p] /\ UNCHANGED <<writing, op>>
      BY <1>4, <2>5 DEF RunTask
    <3>2. pending'[q] = p /\ \A r \in Queues \ {q} : pending'[r] = pending[r]
      BY <3>1 DEF OutType
    <3>3. Conserved(q, s)'
      <4>1. ((wire[s] \o op[q]) \o p) \o Tail(tasks[q])
              = ((wire[s] \o op[q]) \o pending[q]) \o tasks[q]
        BY <1>3, <2>3
      <4>. HIDE DEF p
      <4>. QED BY <1>1, <2>1, <3>1, <3>2, <4>1 DEF Conserved
    <3>. QED BY <2>1, <2>4, <2>5, <3>1, <3>2, <3>3 DEF Writers
  <2>6. CASE ~writing[q]
    <3>1. op[q] = <<>> /\ DoNextWrite(q, p)
      BY <1>4, <2>6 DEF RunTask, Writers
    <3>2. wire[s] \o op[q] = wire[s]
      BY <1>3, <3>1, ConcatEmptySeq
    <3>3. Begins(wire[s], posted[s])
      BY <1>1 DEF Delivered
    <3>4. open[owner[q]] => posted[s] = (wire[s] \o p) \o Tail(tasks[q])
      <4>1. (wire[s] \o p) \o Tail(tasks[q]) = (wire[s] \o pending[q]) \o tasks[q]
        BY <1>3, <2>3
      <4>. HIDE DEF p
      <4>. QED BY <1>1, <3>2, <4>1 DEF Conserved
    <3>. HIDE DEF p
    <3>5. /\ Begins(wire[s] \o op'[q], posted[s])
          /\ open[owner[q]] =>
               posted[s] = ((wire[s] \o op'[q]) \o pending'[q]) \o Tail(tasks[q])
      <4>1. Waits(wire[s], p, Tail(tasks[q]), posted[s], open[owner[q]])
        BY <3>3, <3>4 DEF Waits
      <4>2. Waits(wire[s] \o op'[q], pending'[q], Tail(tasks[q]), posted[s], open[owner[q]])
        BY <1>3, <2>2, <3>1, <4>1, DoNextWriteReplies, Zenon
      <4>. QED BY <4>2 DEF Waits
    <3>6. Conserved(q, s)'
      BY <1>1, <2>1, <3>5 DEF Conserved
    <3>. QED BY <2>1, <2>2, <2>4, <3>1, <3>6, DoNextWriteEffect
  <2>. QED BY <2>5, <2>6
<1>5. CASE WriteDone(q)
  <2>1. /\ wire'[s] = wire[s] \o op[q] /\ UNCHANGED <<tasks, open, posted>>
        /\ \A t \in Sockets \ {s} : wire'[t] = wire[t]
        /\ DoNextWrite(q, pending[q])
    BY <1>1, <1>5 DEF WriteDone, OutType
  <2>2. Begins(wire[s] \o op[q], posted[s])
    BY <1>1 DEF Conserved
  <2>3. open[owner[q]] => posted[s] = ((wire[s] \o op[q]) \o pending[q]) \o tasks[q]
    BY <1>1 DEF Conserved
  <2>4. /\ Begins((wire[s] \o op[q]) \o op'[q], posted[s])
        /\ open[owner[q]] =>
             posted[s] = (((wire[s] \o op[q]) \o op'[q]) \o pending'[q]) \o tasks[q]
    <3>1. Waits(wire[s] \o op[q], pending[q], tasks[q], posted[s], open[owner[q]])
      BY <2>2, <2>3 DEF Waits
    <3>2. Waits((wire[s] \o op[q]) \o op'[q], pending'[q], tasks[q], posted[s],
                open[owner[q]])
      BY <1>3, <2>1, <3>1, DoNextWriteReplies, Zenon
    <3>. QED BY <3>2 DEF Waits
  <2>5. Conserved(q, s)'
    BY <1>1, <2>1, <2>4 DEF Conserved
  <2>6. Delivered(s)'
    BY <1>1, <2>1, <2>2 DEF Delivered
  <2>. QED BY <1>3, <2>1, <2>5, <2>6, DoNextWriteEffect
<1>6. CASE WriteFails(q)
  <2>1. /\ op'[q] = <<>> /\ writing'[q] = FALSE /\ pending'[q] = <<>>
        /\ \A r \in Queues \ {q} : /\ op'[r] = op[r] /\ writing'[r] = writing[r]
                                   /\ pending'[r] = pending[r]
        /\ UNCHANGED <<tasks, posted, wire>>
    BY <1>6 DEF WriteFails, OutType
  <2>2. open' = [open EXCEPT ![s] = FALSE]
    BY <1>1, <1>6 DEF WriteFails
  <2>3. \A t \in Sockets \ {s} : open'[t] = open[t]
    BY <2>2
  <2>4. Delivered(s)'
    BY <1>1, <2>1 DEF Delivered
  <2>5. Conserved(q, s)'
    <3>1. wire[s] \o <<>> = wire[s]
      BY <1>3, ConcatEmptySeq
    <3>2. ~open'[s]
      BY <2>2
    <3>3. Begins(wire'[s] \o op'[q], posted'[s])
      BY <1>1, <2>1, <3>1 DEF Delivered
    <3>. QED BY <3>2, <3>3 DEF Conserved
  <2>6. Len(op'[q]) <= 1 /\ op'[q] = <<>>
    BY <2>1
  <2>. QED BY <2>1, <2>3, <2>4, <2>5, <2>6
<1>. QED BY <1>4, <1>5, <1>6

\* A new connection at the address of one that is gone: no queue is busy for
\* the address, and the entry of writeQueues_ that may be left is not its own.
LEMMA AcceptReplies ==
  ASSUME OutType, open \in [Sockets -> BOOLEAN], phase \in [Sockets -> Phases],
         Replies, NEW s \in Sockets, Accept(s)
  PROVE  Replies'
<1> USE DEF Replies
<1>1. /\ UNCHANGED <<jobs, queue, tasks, pending, writing, op>>
      /\ posted'[s] = <<>> /\ wire'[s] = <<>>
      /\ \A t \in Sockets \ {s} : /\ posted'[t] = posted[t] /\ wire'[t] = wire[t]
                                  /\ phase'[t] = phase[t] /\ open'[t] = open[t]
      /\ \A q \in Queues : owner'[q] = IF owner[q] = s THEN NoSocket ELSE owner[q]
  BY DEF Accept, OutType
<1>2. \A q \in Queues : Busy(q)' <=> Busy(q)
  BY <1>1 DEF Busy
<1>3. \A q \in Queues : Busy(q) => owner[q] # s /\ owner'[q] = owner[q]
  BY <1>1 DEF Accept, Alive
<1>4. s # NoSocket
  BY NetworkAssumption DEF NetworkAssumption
<1>5. Writers'
  <2>1. \A q \in Queues : Busy(q)' => owner'[q] \in Sockets /\ queue'[owner'[q]] = q
    BY <1>1, <1>2, <1>3 DEF Writers
  <2>2. UNCHANGED <<op, writing, pending>>
    BY <1>1
  <2>. QED BY <2>1, <2>2 DEF Writers
<1>6. QueueStays'
  <2>1. \A t \in Sockets \ {s} : Alive(t)' => Alive(t)
    <3> TAKE t \in Sockets \ {s}
    <3>1. t # NoSocket
      BY NetworkAssumption DEF NetworkAssumption
    <3>2. \A q \in Queues : owner'[q] = t => owner[q] = t
      BY <1>1, <3>1
    <3>3. UNCHANGED jobs /\ phase'[t] = phase[t]
      BY <1>1
    <3>. QED BY <1>2, <3>2, <3>3 DEF Alive
  <2>. QED BY <1>1, <2>1 DEF QueueStays
<1>7. \A t \in Sockets : Delivered(t)'
  <2>1. Begins(<<>>, <<>>)
    BY EmptySeq, ConcatEmptySeq DEF Begins
  <2>2. Delivered(s)'
    BY <1>1, <2>1 DEF Delivered
  <2>3. \A t \in Sockets \ {s} : Delivered(t)'
    BY <1>1 DEF Delivered
  <2>. QED BY <2>2, <2>3
<1>8. ASSUME NEW q \in Queues, NEW t \in Sockets, owner'[q] = t, queue'[t] = q
      PROVE  Conserved(q, t)'
  <2>1. t # s /\ owner[q] = t /\ queue[t] = q
    BY <1>1, <1>4, <1>8, NetworkAssumption DEF NetworkAssumption
  <2>2. Conserved(q, t)
    BY <2>1
  <2>3. UNCHANGED <<op, pending, tasks>>
    BY <1>1
  <2>4. posted'[t] = posted[t] /\ wire'[t] = wire[t] /\ open'[t] = open[t]
    BY <1>1, <2>1
  <2>. QED BY <2>2, <2>3, <2>4 DEF Conserved
<1>. QED BY <1>5, <1>6, <1>7, <1>8

\* A process that has just started holds nothing.
Fresh ==
  /\ phase = [s \in Sockets |-> "none"]
  /\ again = [s \in Sockets |-> FALSE]
  /\ open = [s \in Sockets |-> FALSE]
  /\ active = {}
  /\ stream = [s \in Sockets |-> <<>>]
  /\ asked = [s \in Sockets |-> 0]
  /\ buffer = [s \in Sockets |-> <<>>]
  /\ handed = [s \in Sockets |-> <<>>]
  /\ jobs = [s \in Sockets |-> {}]
  /\ queue = [s \in Sockets |-> NoQueue]
  /\ owner = [q \in Queues |-> NoSocket]
  /\ tasks = [q \in Queues |-> <<>>]
  /\ pending = [q \in Queues |-> <<>>]
  /\ writing = [q \in Queues |-> FALSE]
  /\ op = [q \in Queues |-> <<>>]
  /\ posted = [s \in Sockets |-> <<>>]
  /\ wire = [s \in Sockets |-> <<>>]

LEMMA FreshReplies == Fresh => Replies
<1> SUFFICES ASSUME Fresh PROVE Replies
  OBVIOUS
<1>1. Writers
  BY DEF Fresh, Writers, Busy
<1>2. QueueStays
  BY DEF Fresh, QueueStays
<1>3. \A s \in Sockets : Delivered(s)
  BY EmptySeq, ConcatEmptySeq DEF Fresh, Delivered, Begins
<1>4. \A q \in Queues, s \in Sockets : owner[q] = s => FALSE
  BY NetworkAssumption DEF Fresh, NetworkAssumption
<1>. QED BY <1>1, <1>2, <1>3, <1>4 DEF Replies

LEMMA FreshOut == Fresh => OutType
  BY EmptySeq DEF Fresh, OutType

LEMMA FreshSlots == Fresh => SlotsMatchReaders
  BY DEF Fresh, SlotsMatchReaders

LEMMA FreshIn == Fresh /\ up \in BOOLEAN => InType
<1>1. 0 \in 0..MaxFrames
  BY NetworkAssumption DEF NetworkAssumption
<1>. QED BY <1>1, EmptySeq DEF Fresh, InType, Phases

LEMMA InitFresh == Init => Fresh
  BY DEF Init, Fresh

LEMMA ThrowsFresh == AcceptThrows => Fresh'
  BY DEF AcceptThrows, Fresh

\* The steps of one socket.
LEMMA SocketReplies ==
  ASSUME InType, OutType, Replies, NEW s \in Sockets,
         \/ Accept(s) \/ ClientSends(s) \/ Reader(s)
         \/ \E i \in Requests : Answer(s, i) \/ Discard(s, i)
  PROVE  Replies'
<1>1. CASE Accept(s)
  BY <1>1, AcceptReplies DEF InType
<1>2. CASE ClientSends(s)
  <2>1. NoSend /\ UNCHANGED <<phase, jobs, open>>
    BY <1>2 DEF ClientSends
  <2>. QED BY <2>1, QuietReplies DEF Alive, Busy, NoSend, queueVars
<1>3. ASSUME NEW n \in 1..Chunk, Read(s, n) PROVE Replies'
  <2> DEFINE units == buffer[s] \o SubSeq(stream[s], 1, n)
  <2>1. phase[s] = "reading" /\ Alive(s)
    BY <1>3 DEF Read, Alive
  <2>2. CASE ReadTooMuch(s, units)
    <3>1. NoSend /\ UNCHANGED <<phase, jobs>> /\ open' = [open EXCEPT ![s] = FALSE]
      BY <2>2 DEF ReadTooMuch
    <3>2. \A t \in Sockets : open'[t] => open[t]
      BY <3>1 DEF InType
    <3>. QED BY <3>1, <3>2, QuietReplies DEF Alive, Busy, NoSend, queueVars
  <2>3. CASE HandOver(s, units) /\ NoSend /\ UNCHANGED <<phase, again, open>>
    <3>1. \A t \in Sockets \ {s} : jobs'[t] = jobs[t]
      BY <2>3 DEF HandOver, InType
    <3>2. \A t \in Sockets : Alive(t)' => Alive(t)
      BY <2>1, <2>3, <3>1 DEF Alive, Busy, NoSend, queueVars
    <3>. QED BY <2>3, <3>2, QuietReplies
  <2>4. CASE /\ HandOver(s, units) /\ Send(s, TooLong) /\ UNCHANGED open
             /\ phase' = [phase EXCEPT ![s] = "forget"]
    <3>1. \A t \in Sockets \ {s} : jobs'[t] = jobs[t] /\ phase'[t] = phase[t]
      BY <2>4 DEF HandOver, InType
    <3>2. \A t \in Sockets : phase'[t] # "none" \/ jobs'[t] # {} => Alive(t)
      BY <2>1, <3>1 DEF Alive
    <3>3. TooLong \in Messages
      BY DEF Messages
    <3>. QED BY <2>1, <2>4, <3>2, <3>3, SendReplies
  <2>. QED BY <1>3, <2>2, <2>3, <2>4 DEF Read
<1>4. CASE ReadFails(s) \/ Forget(s) \/ CloseSocket(s)
  <2>1. NoSend /\ UNCHANGED jobs /\ phase[s] # "none"
    BY <1>4 DEF ReadFails, Forget, CloseSocket
  <2>2. \A t \in Sockets \ {s} : phase'[t] = phase[t]
    BY <1>4 DEF ReadFails, Forget, CloseSocket, InType
  <2>3. \A t \in Sockets : open'[t] => open[t]
    BY <1>4 DEF ReadFails, Forget, CloseSocket, InType
  <2>4. \A t \in Sockets : Alive(t)' => Alive(t)
    BY <2>1, <2>2 DEF Alive, Busy, NoSend, queueVars
  <2>. QED BY <2>1, <2>3, <2>4, QuietReplies
<1>5. CASE DropQueue(s)
  <2>1. /\ UNCHANGED <<open, jobs, queueVars, posted, wire>>
        /\ phase[s] # "none" /\ phase' = [phase EXCEPT ![s] = "close"]
    BY <1>5 DEF DropQueue
  <2>2. \A t \in Sockets :
          queue'[t] = queue[t] \/ (~OwnedBy(queue[t], t) /\ queue'[t] = NoQueue)
    BY <1>5 DEF DropQueue, OutType
  <2>3. \A t \in Sockets : phase'[t] # "none" <=> phase[t] # "none"
    BY <2>1 DEF InType
  <2>. QED BY <2>1, <2>2, <2>3, DropReplies
<1>6. ASSUME NEW i \in Requests, Answer(s, i) PROVE Replies'
  <2>1. /\ Send(s, i) /\ UNCHANGED <<open, phase>> /\ Alive(s) /\ i \in Messages
    BY <1>6 DEF Answer, Alive, Messages
  <2>2. \A t \in Sockets : phase'[t] # "none" \/ jobs'[t] # {} => Alive(t)
    BY <1>6, <2>1 DEF Answer, Alive, InType
  <2>. QED BY <2>1, <2>2, SendReplies
<1>7. ASSUME NEW i \in Requests, Discard(s, i) PROVE Replies'
  <2>1. NoSend /\ UNCHANGED <<open, phase>> /\ Alive(s)
    BY <1>7 DEF Discard, Alive
  <2>2. \A t \in Sockets \ {s} : jobs'[t] = jobs[t]
    BY <1>7 DEF Discard, InType
  <2>3. \A t \in Sockets : Alive(t)' => Alive(t)
    BY <2>1, <2>2 DEF Alive, Busy, NoSend, queueVars
  <2>. QED BY <2>1, <2>3, QuietReplies
<1>. QED BY <1>1, <1>2, <1>3, <1>4, <1>5, <1>6, <1>7 DEF Reader

LEMMA ReplyStep ==
  ASSUME InType, OutType, Replies, [Next]_vars
  PROVE  Replies'
<1>1. CASE UNCHANGED vars \/ Restart
  <2>1. NoSend /\ UNCHANGED <<open, phase, jobs>>
    BY <1>1 DEF vars, Restart, NoSend
  <2>. QED BY <2>1, QuietReplies DEF Alive, Busy, NoSend, queueVars
<1>2. ASSUME NEW s \in Sockets,
             \/ Accept(s) \/ ClientSends(s) \/ Reader(s)
             \/ \E i \in Requests : Answer(s, i) \/ Discard(s, i)
      PROVE  Replies'
  BY <1>2, SocketReplies
<1>3. ASSUME NEW q \in Queues, RunTask(q) \/ WriteDone(q) \/ WriteFails(q)
      PROVE  Replies'
  BY <1>3, StrandReplies DEF InType
<1>4. CASE Collect
  <2>1. /\ UNCHANGED <<open, jobs, queueVars, posted, wire, phase>>
        /\ \A t \in Sockets :
             queue'[t] = queue[t] \/ (~OwnedBy(queue[t], t) /\ queue'[t] = NoQueue)
    BY <1>4 DEF Collect
  <2>. QED BY <2>1, DropReplies
<1>5. CASE AcceptThrows
  <2>1. Fresh' => Replies'
    BY FreshReplies, PTL
  <2>. QED BY <1>5, <2>1, ThrowsFresh
<1>. QED BY <1>1, <1>2, <1>3, <1>4, <1>5 DEF Next

-----------------------------------------------------------------------------
(***************************************************************************)
(* Type correctness, and the slots of activeSockets_.                      *)
(***************************************************************************)

LEMMA OutTypeStep ==
  ASSUME InType, OutType, Replies, [Next]_vars
  PROVE  OutType'
<1>1. NoSend => OutType'
  BY DEF NoSend, queueVars, OutType
<1>2. ASSUME NEW s \in Sockets,
             \/ ClientSends(s) \/ ReadFails(s) \/ Forget(s) \/ CloseSocket(s)
             \/ \E i \in Requests : Discard(s, i)
      PROVE  NoSend
  BY <1>2 DEF ClientSends, ReadFails, Forget, CloseSocket, Discard
<1>3. ASSUME NEW s \in Sockets, NEW n \in 1..Chunk, Read(s, n) PROVE OutType'
  <2>1. NoSend \/ Send(s, TooLong)
    BY <1>3 DEF Read, ReadTooMuch
  <2>2. TooLong \in Messages
    BY DEF Messages
  <2>. QED BY <1>1, <2>1, <2>2, SendType
<1>4. ASSUME NEW s \in Sockets, Accept(s) PROVE OutType'
  <2>1. /\ posted' = [posted EXCEPT ![s] = <<>>] /\ wire' = [wire EXCEPT ![s] = <<>>]
        /\ owner' = [q \in Queues |-> IF owner[q] = s THEN NoSocket ELSE owner[q]]
        /\ UNCHANGED <<queue, tasks, pending, writing, op>>
    BY <1>4 DEF Accept
  <2>2. owner' \in [Queues -> Sockets \union {NoSocket}]
    BY <2>1 DEF OutType
  <2>3. /\ posted' \in [Sockets -> Seq(Messages)] /\ wire' \in [Sockets -> Seq(Messages)]
    BY <2>1, EmptySeq DEF OutType
  <2>. QED BY <2>1, <2>2, <2>3 DEF OutType
<1>5. ASSUME NEW s \in Sockets, DropQueue(s) PROVE OutType'
  BY <1>5 DEF DropQueue, queueVars, OutType
<1>6. ASSUME NEW s \in Sockets, NEW i \in Requests, Answer(s, i) PROVE OutType'
  BY <1>6, SendType DEF Answer, Messages
<1>7. ASSUME NEW q \in Queues, RunTask(q) \/ WriteDone(q) \/ WriteFails(q)
      PROVE  OutType'
  <2>1. \A r \in Queues : op[r] # <<>> => owner[r] \in Sockets
    BY DEF Replies, Writers, Busy
  <2>. QED BY <1>7, <2>1, WriteType
<1>8. CASE Collect
  <2>1. queue' \in [Sockets -> Queues \union {NoQueue}]
    BY <1>8 DEF Collect, OutType
  <2>. QED BY <1>8, <2>1 DEF Collect, queueVars, OutType
<1>9. CASE AcceptThrows
  <2>1. Fresh' => OutType'
    BY FreshOut, PTL
  <2>. QED BY <1>9, <2>1, ThrowsFresh
<1>10. CASE UNCHANGED vars \/ Restart
  BY <1>1, <1>10 DEF vars, Restart, NoSend
<1>. QED BY <1>1, <1>2, <1>3, <1>4, <1>5, <1>6, <1>7, <1>8, <1>9, <1>10
            DEF Next, Reader

LEMMA SlotsStep ==
  ASSUME InType, SlotsMatchReaders, [Next]_vars
  PROVE  SlotsMatchReaders'
<1> USE DEF SlotsMatchReaders
<1>1. CASE UNCHANGED <<phase, open, active>>
  BY <1>1
<1>2. ASSUME NEW s \in Sockets, Accept(s) PROVE SlotsMatchReaders'
  BY <1>2 DEF Accept, InType
<1>3. ASSUME NEW s \in Sockets, NEW n \in 1..Chunk, Read(s, n)
      PROVE  SlotsMatchReaders'
  BY <1>3 DEF Read, ReadTooMuch, InType
<1>4. ASSUME NEW s \in Sockets,
             ReadFails(s) \/ Forget(s) \/ DropQueue(s) \/ CloseSocket(s)
      PROVE  SlotsMatchReaders'
  BY <1>4 DEF ReadFails, Forget, DropQueue, CloseSocket, InType
<1>5. ASSUME NEW s \in Sockets,
             ClientSends(s) \/ \E i \in Requests : Answer(s, i) \/ Discard(s, i)
      PROVE  UNCHANGED <<phase, open, active>>
  BY <1>5 DEF ClientSends, Answer, Discard
<1>6. ASSUME NEW q \in Queues, RunTask(q) \/ WriteDone(q)
      PROVE  UNCHANGED <<phase, open, active>>
  BY <1>6 DEF RunTask, WriteDone
<1>7. ASSUME NEW q \in Queues, WriteFails(q) PROVE SlotsMatchReaders'
  BY <1>7 DEF WriteFails, InType
<1>8. Collect \/ Restart \/ UNCHANGED vars => UNCHANGED <<phase, open, active>>
  BY DEF Collect, Restart, vars
<1>9. CASE AcceptThrows
  <2>1. Fresh' => SlotsMatchReaders'
    BY FreshSlots, PTL
  <2>. QED BY <1>9, <2>1, ThrowsFresh
<1>. QED BY <1>1, <1>2, <1>3, <1>4, <1>5, <1>6, <1>7, <1>8, <1>9 DEF Next, Reader

\* What extractV2Messages hands over are requests, and what it keeps is a part
\* of what it was given.
LEMMA HandOverType ==
  ASSUME InType, NEW s \in Sockets, NEW units \in Seq(Messages), HandOver(s, units)
  PROVE  /\ handed' \in [Sockets -> Seq(Requests)]
         /\ jobs' \in [Sockets -> SUBSET Requests]
         /\ buffer' \in [Sockets -> Seq(Messages)]
<1>1. /\ Complete(units) \in Nat
      /\ \A i \in 1..Complete(units) : units[2 * i - 1] \in Requests
  BY FramesExist, NetworkAssumption DEF NetworkAssumption
<1>2. Frames(units) \in Seq(Requests)
  BY <1>1 DEF Frames
<1>3. \A i \in 1..Complete(units) : Frames(units)[i] \in Requests
  BY <1>1 DEF Frames
<1>4. Rest(units) \in Seq(Messages)
  <2>1. 2 * Complete(units) + 1 \in 1..(Len(units) + 1) /\ Len(units) \in Nat
    BY <1>1, FramesExist, LenProperties
  <2>. QED BY <2>1, SubSeqProperties DEF Rest
<1>5. (IF Oversize(units) THEN <<>> ELSE Rest(units)) \in Seq(Messages)
  BY <1>4, EmptySeq
<1>6. buffer' \in [Sockets -> Seq(Messages)]
  BY <1>5, Zenon DEF HandOver, InType
<1>7. jobs' \in [Sockets -> SUBSET Requests]
  <2>1. {Frames(units)[i] : i \in 1..Complete(units)} \in SUBSET Requests
    BY <1>3
  <2> DEFINE new == {Frames(units)[i] : i \in 1..Complete(units)}
  <2>2. jobs' = [jobs EXCEPT ![s] = @ \union new]
    BY DEF HandOver
  <2>. HIDE DEF new
  <2>. QED BY <2>1, <2>2 DEF InType, new
<1>8. handed' \in [Sockets -> Seq(Requests)]
  <2>1. handed[s] \o Frames(units) \in Seq(Requests)
    BY <1>2, ConcatProperties DEF InType
  <2>. QED BY <2>1, Zenon DEF HandOver, InType
<1>. QED BY <1>6, <1>7, <1>8

LEMMA ReadType ==
  ASSUME InType, NEW s \in Sockets, NEW n \in 1..Chunk, Read(s, n)
  PROVE  InType'
<1> DEFINE units == buffer[s] \o SubSeq(stream[s], 1, n)
<1>1. stream[s] \in Seq(Messages) /\ buffer[s] \in Seq(Messages)
      /\ n \in 1..Len(stream[s]) /\ Len(stream[s]) \in Nat
  BY LenProperties DEF Read, InType
<1>2. units \in Seq(Messages)
  BY <1>1, SubSeqProperties, ConcatProperties
<1>3. stream' \in [Sockets -> Seq(Messages)]
  <2>1. SubSeq(stream[s], n + 1, Len(stream[s])) \in Seq(Messages)
    BY <1>1, SubSeqProperties
  <2>. QED BY <2>1, Zenon DEF Read, InType
<1>. HIDE DEF units
<1>4. CASE ReadTooMuch(s, units)
  <2>1. buffer' \in [Sockets -> Seq(Messages)]
    BY <1>4, EmptySeq DEF ReadTooMuch, InType
  <2>. QED BY <1>3, <1>4, <2>1 DEF Read, ReadTooMuch, InType
<1>5. CASE HandOver(s, units) /\ UNCHANGED <<phase, again, open>>
  BY <1>2, <1>3, <1>5, HandOverType DEF Read, InType
<1>6. CASE /\ HandOver(s, units) /\ UNCHANGED open
           /\ phase' = [phase EXCEPT ![s] = "forget"]
           /\ again' = [again EXCEPT ![s] = TRUE]
  BY <1>2, <1>3, <1>6, HandOverType DEF Read, InType, Phases
<1>. QED BY <1>4, <1>5, <1>6 DEF Read, units

LEMMA InTypeStep ==
  ASSUME InType, OutType, Replies, [Next]_vars
  PROVE  InType'
<1>1. UNCHANGED <<up, phase, again, open, active, inVars, jobs>> => InType'
  BY DEF inVars, InType
<1>2. ASSUME NEW q \in Queues, RunTask(q) \/ WriteDone(q)
      PROVE  UNCHANGED <<up, phase, again, open, active, inVars, jobs>>
  BY <1>2 DEF RunTask, WriteDone
<1>3. ASSUME NEW q \in Queues, WriteFails(q) PROVE InType'
  BY <1>3 DEF WriteFails, inVars, InType
<1>4. ASSUME NEW s \in Sockets, Accept(s) PROVE InType'
  BY <1>4, EmptySeq, NetworkAssumption DEF Accept, InType, Phases, NetworkAssumption
<1>5. ASSUME NEW s \in Sockets, ClientSends(s) PROVE InType'
  <2>1. asked' \in [Sockets -> 0..MaxFrames]
    BY <1>5, NetworkAssumption DEF ClientSends, InType, NetworkAssumption
  <2>2. \A m \in Messages : <<m, m>> \in Seq(Messages) /\ <<m>> \in Seq(Messages)
    OBVIOUS
  <2>3. asked[s] + 1 \in Messages /\ TooLong \in Messages
    BY <1>5, NetworkAssumption
    DEF ClientSends, InType, NetworkAssumption, Messages, Requests
  <2>4. \A u \in {<<asked[s] + 1, asked[s] + 1>>, <<TooLong>>} : u \in Seq(Messages)
    BY <2>2, <2>3
  <2>5. PICK u \in Seq(Messages) : stream' = [stream EXCEPT ![s] = @ \o u]
    BY <1>5, <2>4, Zenon DEF ClientSends
  <2>6. stream' \in [Sockets -> Seq(Messages)]
    BY <2>5, ConcatProperties DEF InType
  <2>. QED BY <1>5, <2>1, <2>6 DEF ClientSends, InType
<1>6. ASSUME NEW s \in Sockets, ReadFails(s) \/ Forget(s) PROVE InType'
  <2>1. CASE ReadFails(s)
    BY <2>1 DEF ReadFails, inVars, InType, Phases
  <2>2. CASE Forget(s)
    <3>1. buffer' \in [Sockets -> Seq(Messages)]
      BY <2>2, EmptySeq DEF Forget, InType
    <3>2. phase' \in [Sockets -> Phases]
      BY <2>2 DEF Forget, InType, Phases
    <3>. QED BY <2>2, <3>1, <3>2 DEF Forget, InType
  <2>. QED BY <1>6, <2>1, <2>2
<1>7. ASSUME NEW s \in Sockets, DropQueue(s) PROVE InType'
  BY <1>7 DEF DropQueue, inVars, InType, Phases
<1>8. ASSUME NEW s \in Sockets, CloseSocket(s) PROVE InType'
  BY <1>8, EmptySeq DEF CloseSocket, InType, Phases
<1>9. ASSUME NEW s \in Sockets, \E i \in Requests : Answer(s, i) \/ Discard(s, i)
      PROVE  InType'
  BY <1>9 DEF Answer, Discard, inVars, InType
<1>10. CASE AcceptThrows
  <2>1. Fresh' /\ (up \in BOOLEAN)' => InType'
    BY FreshIn, PTL
  <2>2. up' \in BOOLEAN
    BY <1>10 DEF AcceptThrows
  <2>. QED BY <1>10, <2>1, <2>2, ThrowsFresh
<1>11. CASE Restart
  BY <1>11 DEF Restart, inVars, InType
<1>12. Collect \/ UNCHANGED vars =>
         UNCHANGED <<up, phase, again, open, active, inVars, jobs>>
  BY DEF Collect, vars
<1>. QED BY <1>1, <1>2, <1>3, <1>4, <1>5, <1>6, <1>7, <1>8, <1>9, <1>10, <1>11, <1>12,
            ReadType DEF Next, Reader

-----------------------------------------------------------------------------
(***************************************************************************)
(* Framing: requests are handed over in the order they were sent.          *)
(***************************************************************************)

\* The bytes b that are not handed over hold the requests from h + 1 on, two
\* units each, up to the last one asked or to the first over-long prefix.
OnTrack(b, h, a) ==
  \E k \in Nat :
    /\ 2 * k <= Len(b)
    /\ \A i \in 1..k : b[2 * i - 1] = h + i /\ b[2 * i] = h + i
    /\ \/ Len(b) = 2 * k /\ a = h + k
       \/ Len(b) > 2 * k /\ b[2 * k + 1] = TooLong

Framing ==
  \A s \in Sockets :
    /\ \A i \in DOMAIN handed[s] : handed[s][i] = i
    /\ phase[s] = "reading" /\ open[s] =>
         OnTrack(buffer[s] \o stream[s], Len(handed[s]), asked[s])
    /\ phase[s] \in {"drop", "close", "none"} => buffer[s] = <<>>

LEMMA ConcatParts ==
  ASSUME NEW p \in Seq(Messages), NEW q \in Seq(Messages)
  PROVE  /\ Len(p \o q) = Len(p) + Len(q)
         /\ Len(p) \in Nat /\ Len(q) \in Nat
         /\ \A j \in 1..Len(p) : (p \o q)[j] = p[j]
         /\ \A j \in 1..Len(q) : (p \o q)[Len(p) + j] = q[j]
  BY ConcatProperties, LenProperties

LEMMA SendOnTrack ==
  ASSUME NEW b \in Seq(Messages), NEW h \in Nat, NEW a \in Nat, OnTrack(b, h, a),
         NEW u \in {<<a + 1, a + 1>>, <<TooLong>>}
  PROVE  OnTrack(b \o u, h, a + 1)
<1>1. PICK k \in Nat :
        /\ 2 * k <= Len(b)
        /\ \A i \in 1..k : b[2 * i - 1] = h + i /\ b[2 * i] = h + i
        /\ \/ Len(b) = 2 * k /\ a = h + k
           \/ Len(b) > 2 * k /\ b[2 * k + 1] = TooLong
  BY DEF OnTrack
<1> DEFINE d == b \o u
<1>2. /\ Len(b) \in Nat /\ Len(d) = Len(b) + Len(u)
      /\ \A j \in 1..Len(b) : d[j] = b[j]
      /\ \A j \in 1..Len(u) : d[Len(b) + j] = u[j]
  <2>1. /\ \A j \in 1..Len(u) : (b \o u)[Len(b) + j] = u[j]
        /\ Len(b \o u) = Len(b) + Len(u)
    <3>1. CASE u = <<a + 1, a + 1>>
      BY <3>1
    <3>2. CASE u = <<TooLong>>
      BY <3>2
    <3>. QED BY <3>1, <3>2
  <2>2. \A j \in 1..Len(b) : (b \o u)[j] = b[j]
    <3>1. CASE u = <<a + 1, a + 1>>
      BY <3>1
    <3>2. CASE u = <<TooLong>>
      BY <3>2
    <3>. QED BY <3>1, <3>2
  <2>. QED BY <2>1, <2>2, LenProperties
<1>. SUFFICES OnTrack(d, h, a + 1)
  OBVIOUS
<1>. HIDE DEF d
<1>3. \A i \in 1..k : d[2 * i - 1] = h + i /\ d[2 * i] = h + i
  <2> TAKE i \in 1..k
  <2>1. 2 * i - 1 \in 1..Len(b) /\ 2 * i \in 1..Len(b)
    BY <1>1, <1>2
  <2>. QED BY <1>1, <1>2, <2>1
<1>4. CASE Len(b) > 2 * k /\ b[2 * k + 1] = TooLong
  <2>1. 2 * k + 1 \in 1..Len(b) /\ Len(u) \in Nat
    BY <1>2, <1>4
  <2>2. d[2 * k + 1] = TooLong /\ Len(d) > 2 * k /\ 2 * k <= Len(d)
    BY <1>2, <1>4, <2>1
  <2>. QED BY <1>3, <2>2 DEF OnTrack
<1>5. CASE Len(b) = 2 * k /\ a = h + k /\ u = <<a + 1, a + 1>>
  <2>1. Len(d) = 2 * (k + 1) /\ a + 1 = h + (k + 1) /\ k + 1 \in Nat
    BY <1>2, <1>5
  <2>2. d[2 * (k + 1) - 1] = h + (k + 1) /\ d[2 * (k + 1)] = h + (k + 1)
    <3>1. Len(u) = 2 /\ u[1] = a + 1 /\ u[2] = a + 1
      BY <1>5
    <3>2. 2 * (k + 1) - 1 = Len(b) + 1 /\ 2 * (k + 1) = Len(b) + 2
      BY <1>5
    <3>. QED BY <1>2, <2>1, <3>1, <3>2
  <2>3. \A i \in 1..(k + 1) : d[2 * i - 1] = h + i /\ d[2 * i] = h + i
    <3> TAKE i \in 1..(k + 1)
    <3>1. CASE i = k + 1
      BY <2>2, <3>1
    <3>2. CASE i # k + 1
      <4>1. i \in 1..k
        BY <3>2
      <4>. QED BY <1>3, <4>1
    <3>. QED BY <3>1, <3>2
  <2>4. 2 * (k + 1) <= Len(d)
    BY <2>1
  <2>. QED BY <2>1, <2>3, <2>4 DEF OnTrack
<1>6. CASE Len(b) = 2 * k /\ a = h + k /\ u = <<TooLong>>
  <2>1. Len(u) = 1 /\ u[1] = TooLong
    BY <1>6
  <2>2. d[2 * k + 1] = TooLong /\ Len(d) > 2 * k /\ 2 * k <= Len(d)
    BY <1>2, <1>6, <2>1
  <2>. QED BY <1>3, <2>2 DEF OnTrack
<1>. QED BY <1>1, <1>4, <1>5, <1>6

\* The frames found among the bytes that were read are the next ones, and the
\* rest of the bytes goes on after them.
LEMMA ReadOnTrack ==
  ASSUME NEW u \in Seq(Messages), NEW rest \in Seq(Messages), NEW h \in Nat, NEW a \in Nat,
         OnTrack(u \o rest, h, a)
  PROVE  /\ \A i \in 1..Complete(u) : u[2 * i - 1] = h + i
         /\ OnTrack(Rest(u) \o rest, h + Complete(u), a)
<1> DEFINE b == u \o rest
           c == Complete(u)
           r == Rest(u) \o rest
<1>1. PICK k \in Nat :
        /\ 2 * k <= Len(b)
        /\ \A i \in 1..k : b[2 * i - 1] = h + i /\ b[2 * i] = h + i
        /\ \/ Len(b) = 2 * k /\ a = h + k
           \/ Len(b) > 2 * k /\ b[2 * k + 1] = TooLong
  BY DEF OnTrack
<1>2. /\ c \in Nat /\ 2 * c <= Len(u)
      /\ \A i \in 1..c : u[2 * i - 1] \in Requests
  BY FramesExist, NetworkAssumption DEF NetworkAssumption
<1>3. /\ Len(u) \in Nat /\ Len(rest) \in Nat /\ Len(b) = Len(u) + Len(rest)
      /\ \A j \in 1..Len(u) : b[j] = u[j]
      /\ \A j \in 1..Len(rest) : b[Len(u) + j] = rest[j]
  BY ConcatParts
<1>4. c <= k
  <2>1. CASE c > k
    <3>1. 2 * (k + 1) - 1 = 2 * k + 1 /\ 2 * k + 1 \in 1..Len(u) /\ k + 1 \in 1..c
      BY <1>2, <1>3, <2>1
    <3>2. u[2 * k + 1] \in Requests /\ b[2 * k + 1] = u[2 * k + 1]
      <4> HIDE DEF b, c
      <4>. QED BY <1>2, <1>3, <3>1
    <3>3. b[2 * k + 1] = TooLong
      BY <1>1, <1>2, <1>3, <2>1
    <3>. QED BY <3>2, <3>3 DEF Requests, TooLong
  <2>. QED BY <1>2, <2>1
<1>5. \A i \in 1..c : u[2 * i - 1] = h + i
  <2> TAKE i \in 1..c
  <2>1. i \in 1..k /\ 2 * i - 1 \in 1..Len(u)
    BY <1>2, <1>3, <1>4
  <2>2. b[2 * i - 1] = h + i /\ b[2 * i - 1] = u[2 * i - 1]
    <3> HIDE DEF b, c
    <3>. QED BY <1>1, <1>3, <2>1
  <2>. QED BY <2>2
<1>6. /\ Len(r) = Len(b) - 2 * c
      /\ \A j \in 1..Len(r) : r[j] = b[j + 2 * c]
  <2> DEFINE d == Rest(u)
  <2>1. /\ d \in Seq(Messages) /\ Len(d) = Len(u) - 2 * c
        /\ \A j \in 1..Len(d) : d[j] = u[j + 2 * c]
    <3> HIDE DEF c
    <3>1. 2 * c + 1 \in 1..(Len(u) + 1)
      BY <1>2, <1>3
    <3>2. d = SubSeq(u, 2 * c + 1, Len(u))
      BY DEF Rest, c
    <3>3. \A j \in (2 * c + 1)..Len(u) : u[j] \in Messages
      BY <1>2, <1>3, ElementOfSeq
    <3>. HIDE DEF d
    <3>4. /\ d \in Seq(Messages)
          /\ Len(d) = IF 2 * c + 1 <= Len(u) THEN Len(u) - (2 * c + 1) + 1 ELSE 0
          /\ \A j \in 1..(Len(u) - (2 * c + 1) + 1) : d[j] = u[(2 * c + 1) + j - 1]
      BY <1>3, <3>1, <3>2, <3>3, SubSeqProperties
    <3>5. c \in Nat /\ Len(u) \in Nat /\ 2 * c <= Len(u)
      BY <1>2, <1>3
    <3>6. Len(u) - (2 * c + 1) + 1 = Len(u) - 2 * c
      BY <3>5
    <3>7. Len(d) = Len(u) - 2 * c
      <4>1. CASE 2 * c + 1 <= Len(u)
        BY <3>4, <3>6, <4>1
      <4>2. CASE ~(2 * c + 1 <= Len(u))
        <5>1. Len(d) = 0
          BY <3>4, <4>2
        <5>. QED BY <3>5, <4>2, <5>1
      <4>. QED BY <4>1, <4>2
    <3>8. ASSUME NEW j \in 1..Len(d) PROVE d[j] = u[j + 2 * c]
      <4>1. (2 * c + 1) + j - 1 = j + 2 * c
        BY <3>5, <3>7
      <4>2. j \in 1..(Len(u) - (2 * c + 1) + 1)
        BY <3>6, <3>7
      <4>3. d[j] = u[(2 * c + 1) + j - 1]
        BY <3>4, <4>2
      <4>. QED BY <4>1, <4>3
    <3>. QED BY <3>4, <3>7, <3>8
  <2>2. /\ Len(r) = Len(d) + Len(rest)
        /\ \A j \in 1..Len(d) : r[j] = d[j]
        /\ \A j \in 1..Len(rest) : r[Len(d) + j] = rest[j]
    <3> HIDE DEF d
    <3>1. r = d \o rest
      BY DEF d
    <3>2. /\ Len(d \o rest) = Len(d) + Len(rest) /\ Len(d) \in Nat
          /\ \A j \in 1..Len(d) : (d \o rest)[j] = d[j]
          /\ \A j \in 1..Len(rest) : (d \o rest)[Len(d) + j] = rest[j]
      BY <2>1, ConcatParts
    <3>. HIDE DEF r
    <3>. QED BY <3>1, <3>2
  <2>. HIDE DEF b, c, d, r
  <2>3. Len(d) \in Nat
    BY <2>1, LenProperties
  <2>4. ASSUME NEW j \in 1..Len(r) PROVE r[j] = b[j + 2 * c]
    <3>1. CASE j \in 1..Len(d)
      <4>1. j + 2 * c \in 1..Len(u)
        BY <1>2, <1>3, <2>1, <3>1
      <4>. QED BY <1>3, <2>1, <2>2, <3>1, <4>1
    <3>2. CASE j \notin 1..Len(d)
      <4>1. /\ j - Len(d) \in 1..Len(rest) /\ Len(d) + (j - Len(d)) = j
            /\ Len(u) + (j - Len(d)) = j + 2 * c
        BY <1>2, <1>3, <2>1, <2>2, <2>3, <3>2
      <4>2. r[Len(d) + (j - Len(d))] = rest[j - Len(d)]
            /\ b[Len(u) + (j - Len(d))] = rest[j - Len(d)]
        BY <1>3, <2>2, <4>1
      <4>. QED BY <4>1, <4>2
    <3>. QED BY <3>1, <3>2
  <2>. QED BY <1>2, <1>3, <2>1, <2>2, <2>4
<1>. HIDE DEF b, c, r
<1>7. k - c \in Nat /\ 2 * (k - c) <= Len(r)
  BY <1>1, <1>2, <1>3, <1>4, <1>6
<1>8. \A i \in 1..(k - c) : r[2 * i - 1] = (h + c) + i /\ r[2 * i] = (h + c) + i
  <2> TAKE i \in 1..(k - c)
  <2>1. /\ i + c \in 1..k /\ h + (i + c) = (h + c) + i
        /\ 2 * i - 1 \in 1..Len(r) /\ 2 * i \in 1..Len(r)
        /\ (2 * i - 1) + 2 * c = 2 * (i + c) - 1 /\ 2 * i + 2 * c = 2 * (i + c)
    BY <1>1, <1>2, <1>3, <1>4, <1>6
  <2>2. b[2 * (i + c) - 1] = h + (i + c) /\ b[2 * (i + c)] = h + (i + c)
    BY <1>1, <2>1
  <2>3. r[2 * i - 1] = b[2 * (i + c) - 1] /\ r[2 * i] = b[2 * (i + c)]
    BY <1>6, <2>1
  <2>. QED BY <2>1, <2>2, <2>3
<1>9. \/ Len(r) = 2 * (k - c) /\ a = (h + c) + (k - c)
      \/ Len(r) > 2 * (k - c) /\ r[2 * (k - c) + 1] = TooLong
  <2>1. CASE Len(b) = 2 * k /\ a = h + k
    BY <1>1, <1>2, <1>3, <1>6, <2>1
  <2>2. CASE Len(b) > 2 * k /\ b[2 * k + 1] = TooLong
    <3>1. /\ 2 * (k - c) + 1 \in 1..Len(r)
          /\ (2 * (k - c) + 1) + 2 * c = 2 * k + 1
      BY <1>1, <1>2, <1>3, <1>4, <1>6, <2>2
    <3>2. r[2 * (k - c) + 1] = b[2 * k + 1]
      BY <1>6, <3>1
    <3>. QED BY <1>2, <1>3, <1>6, <2>2, <3>1, <3>2
  <2>. QED BY <1>1, <2>1, <2>2
<1>10. OnTrack(r, h + c, a)
  BY <1>7, <1>8, <1>9 DEF OnTrack
<1>. QED BY <1>5, <1>10 DEF c, r

LEMMA ReadFraming ==
  ASSUME InType, Framing, NEW s \in Sockets, NEW n \in 1..Chunk, Read(s, n)
  PROVE  Framing'
<1> DEFINE got == SubSeq(stream[s], 1, n)
           left == SubSeq(stream[s], n + 1, Len(stream[s]))
           units == buffer[s] \o got
<1>1. /\ stream[s] \in Seq(Messages) /\ buffer[s] \in Seq(Messages)
      /\ n \in 1..Len(stream[s]) /\ Len(stream[s]) \in Nat
      /\ phase[s] = "reading" /\ open[s]
  BY LenProperties DEF Read, InType
<1>2. got \in Seq(Messages) /\ left \in Seq(Messages) /\ units \in Seq(Messages)
  BY <1>1, SubSeqProperties, ConcatProperties
<1>3. buffer[s] \o stream[s] = units \o left
  <2>1. got \o left = stream[s]
    <3>1. got \o left \in Seq(Messages) /\ Len(got \o left) = Len(stream[s])
      <4>1. Len(got) = n /\ Len(left) = Len(stream[s]) - n
        BY <1>1
      <4>2. Len(got \o left) = Len(got) + Len(left) /\ got \o left \in Seq(Messages)
        <5> HIDE DEF got, left
        <5>. QED BY <1>2, ConcatParts, ConcatProperties
      <4>. HIDE DEF got, left
      <4>. QED BY <1>1, <4>1, <4>2
    <3>2. \A i \in 1..Len(stream[s]) : (got \o left)[i] = stream[s][i]
      BY <1>1, <1>2
    <3>. QED BY <1>1, <3>1, <3>2, SeqEqual
  <2>. HIDE DEF got, left
  <2>2. (buffer[s] \o got) \o left = buffer[s] \o (got \o left)
    BY <1>1, <1>2, AssociativeMessages, Zenon
  <2>. QED BY <2>1, <2>2
<1>4. /\ stream'[s] = left
      /\ \A t \in Sockets \ {s} : stream'[t] = stream[t]
      /\ UNCHANGED asked
  BY DEF Read, InType
<1>5. OnTrack(units \o left, Len(handed[s]), asked[s])
  BY <1>1, <1>3 DEF Framing
<1>. HIDE DEF got, left, units
\* The other sockets are not concerned.
<1>6. SUFFICES
        /\ \A t \in Sockets \ {s} : /\ handed'[t] = handed[t] /\ phase'[t] = phase[t]
                                    /\ open'[t] = open[t] /\ buffer'[t] = buffer[t]
        /\ \A i \in DOMAIN handed'[s] : handed'[s][i] = i
        /\ phase'[s] = "reading" /\ open'[s] =>
             OnTrack(buffer'[s] \o stream'[s], Len(handed'[s]), asked'[s])
        /\ phase'[s] \in {"reading", "forget"}
  <2> SUFFICES ASSUME NEW t \in Sockets
               PROVE  /\ \A i \in DOMAIN handed'[t] : handed'[t][i] = i
                      /\ phase'[t] = "reading" /\ open'[t] =>
                           OnTrack(buffer'[t] \o stream'[t], Len(handed'[t]), asked'[t])
                      /\ phase'[t] \in {"drop", "close", "none"} => buffer'[t] = <<>>
    BY DEF Framing
  <2>1. CASE t = s
    BY <1>6, <2>1
  <2>2. CASE t # s
    <3>1. /\ handed'[t] = handed[t] /\ phase'[t] = phase[t] /\ open'[t] = open[t]
          /\ buffer'[t] = buffer[t] /\ stream'[t] = stream[t] /\ asked'[t] = asked[t]
      BY <1>4, <1>6, <2>2
    <3>. QED BY <3>1 DEF Framing
  <2>. QED BY <2>1, <2>2
<1>7. CASE ReadTooMuch(s, units)
  <2>1. /\ UNCHANGED <<handed, phase>> /\ ~open'[s]
        /\ \A t \in Sockets \ {s} : open'[t] = open[t] /\ buffer'[t] = buffer[t]
    BY <1>7 DEF ReadTooMuch, InType
  <2>. QED BY <1>1, <2>1 DEF Framing
<1>8. ASSUME HandOver(s, units)
      PROVE  /\ \A t \in Sockets \ {s} : handed'[t] = handed[t] /\ buffer'[t] = buffer[t]
             /\ \A i \in DOMAIN handed'[s] : handed'[s][i] = i
             /\ Len(handed'[s]) = Len(handed[s]) + Complete(units)
             /\ ~Oversize(units) => buffer'[s] = Rest(units)
  <2>1. /\ \A t \in Sockets \ {s} : handed'[t] = handed[t] /\ buffer'[t] = buffer[t]
        /\ handed'[s] = handed[s] \o Frames(units)
        /\ ~Oversize(units) => buffer'[s] = Rest(units)
    BY <1>8 DEF HandOver, InType
  <2> DEFINE h == Len(handed[s])
  <2>2. h \in Nat /\ Complete(units) \in Nat
        /\ \A i \in 1..Complete(units) : units[2 * i - 1] \in Requests
    BY <1>2, FramesExist, LenProperties, NetworkAssumption DEF NetworkAssumption, InType
  <2>3. \A i \in 1..Complete(units) : units[2 * i - 1] = h + i
    BY <1>2, <1>5, <2>2, ReadOnTrack, 0 \in Nat DEF InType
  <2> DEFINE f == Frames(units)
  <2>4. /\ f \in Seq(Requests) /\ Len(f) = Complete(units)
        /\ \A i \in 1..Len(f) : f[i] = h + i
    BY <2>2, <2>3 DEF Frames
  <2>5. handed[s] \in Seq(Requests)
    BY DEF InType
  <2>6. /\ Len(handed[s] \o f) = h + Len(f) /\ DOMAIN (handed[s] \o f) = 1..(h + Len(f))
        /\ \A i \in 1..h : (handed[s] \o f)[i] = handed[s][i]
        /\ \A i \in (h + 1)..(h + Len(f)) : (handed[s] \o f)[i] = f[i - h]
    <3>. HIDE DEF f
    <3>. QED BY <2>4, <2>5, ConcatProperties, LenProperties
  <2>7. \A i \in 1..h : handed[s][i] = i
    BY <2>5, LenProperties DEF Framing
  <2>8. \A i \in 1..(h + Len(f)) : (handed[s] \o f)[i] = i
    <3>. HIDE DEF f, h
    <3> TAKE i \in 1..(h + Len(f))
    <3>1. CASE i \in 1..h
      BY <2>6, <2>7, <3>1
    <3>2. CASE i \notin 1..h
      <4>1. i \in (h + 1)..(h + Len(f)) /\ i - h \in 1..Len(f) /\ h + (i - h) = i
        BY <2>2, <2>4, <3>2
      <4>. QED BY <2>4, <2>6, <4>1
    <3>. QED BY <3>1, <3>2
  <2>. QED BY <2>1, <2>4, <2>6, <2>8
<1>9. CASE HandOver(s, units) /\ ~Oversize(units) /\ UNCHANGED <<phase, open>>
  <2>1. OnTrack(Rest(units) \o left, Len(handed[s]) + Complete(units), asked[s])
    <3>1. Len(handed[s]) \in Nat /\ asked[s] \in Nat
      BY LenProperties, NetworkAssumption DEF InType, NetworkAssumption
    <3>. QED BY <1>2, <1>5, <3>1, ReadOnTrack
  <2>. QED BY <1>1, <1>4, <1>8, <1>9, <2>1
<1>10. CASE /\ HandOver(s, units) /\ UNCHANGED open
            /\ phase' = [phase EXCEPT ![s] = "forget"]
  <2>1. phase'[s] = "forget" /\ \A t \in Sockets \ {s} : phase'[t] = phase[t]
    BY <1>10 DEF InType
  <2>. QED BY <1>8, <1>10, <2>1
<1>. QED BY <1>7, <1>9, <1>10 DEF Read, units, got

LEMMA FreshFraming == Fresh => Framing
  BY DEF Fresh, Framing

LEMMA FramingStep ==
  ASSUME InType, Framing, [Next]_vars
  PROVE  Framing'
<1>1. ASSUME UNCHANGED inVars, \A t \in Sockets : open'[t] => open[t],
             \A t \in Sockets :
               \/ phase'[t] = phase[t]
               \/ phase[t] = "reading" /\ phase'[t] = "forget"
               \/ phase[t] = "drop" /\ phase'[t] = "close"
      PROVE  Framing'
  BY <1>1 DEF Framing, inVars
<1>2. ASSUME NEW q \in Queues, RunTask(q) \/ WriteDone(q) \/ WriteFails(q)
      PROVE  Framing'
  <2>1. UNCHANGED <<phase, inVars>>
    BY <1>2 DEF RunTask, WriteDone, WriteFails
  <2>2. \A t \in Sockets : open'[t] => open[t]
    BY <1>2 DEF RunTask, WriteDone, WriteFails, InType
  <2>. QED BY <1>1, <2>1, <2>2
<1>3. ASSUME NEW s \in Sockets, ReadFails(s) \/ DropQueue(s) PROVE Framing'
  <2>1. UNCHANGED <<open, inVars>>
    BY <1>3 DEF ReadFails, DropQueue
  <2>2. \A t \in Sockets : \/ phase'[t] = phase[t]
                           \/ phase[t] = "reading" /\ phase'[t] = "forget"
                           \/ phase[t] = "drop" /\ phase'[t] = "close"
    BY <1>3 DEF ReadFails, DropQueue, InType
  <2>. QED BY <1>1, <2>1, <2>2
<1>4. ASSUME NEW s \in Sockets, \E i \in Requests : Answer(s, i) \/ Discard(s, i)
      PROVE  Framing'
  BY <1>1, <1>4 DEF Answer, Discard
<1>5. Collect \/ Restart \/ UNCHANGED vars => Framing'
  BY <1>1 DEF Collect, Restart, vars
<1>6. CASE AcceptThrows
  <2>1. Fresh' => Framing'
    BY FreshFraming, PTL
  <2>. QED BY <1>6, <2>1, ThrowsFresh
\* The other actions concern one socket.
<1>7. ASSUME NEW s \in Sockets,
             \A t \in Sockets \ {s} :
               /\ handed'[t] = handed[t] /\ buffer'[t] = buffer[t]
               /\ stream'[t] = stream[t] /\ asked'[t] = asked[t]
               /\ phase'[t] = phase[t] /\ open'[t] = open[t],
             \A i \in DOMAIN handed'[s] : handed'[s][i] = i,
             phase'[s] = "reading" /\ open'[s] =>
               OnTrack(buffer'[s] \o stream'[s], Len(handed'[s]), asked'[s]),
             phase'[s] \in {"drop", "close", "none"} => buffer'[s] = <<>>
      PROVE  Framing'
  <2> SUFFICES ASSUME NEW t \in Sockets
               PROVE  /\ \A i \in DOMAIN handed'[t] : handed'[t][i] = i
                      /\ phase'[t] = "reading" /\ open'[t] =>
                           OnTrack(buffer'[t] \o stream'[t], Len(handed'[t]), asked'[t])
                      /\ phase'[t] \in {"drop", "close", "none"} => buffer'[t] = <<>>
    BY DEF Framing
  <2>1. CASE t = s
    BY <1>7, <2>1
  <2>2. CASE t # s
    BY <1>7, <2>2 DEF Framing
  <2>. QED BY <2>1, <2>2
<1>8. ASSUME NEW s \in Sockets, Accept(s) PROVE Framing'
  <2>1. /\ handed'[s] = <<>> /\ stream'[s] = <<>> /\ asked'[s] = 0
        /\ phase'[s] = "reading" /\ buffer'[s] = buffer[s] /\ phase[s] = "none"
        /\ \A t \in Sockets \ {s} :
             /\ handed'[t] = handed[t] /\ buffer'[t] = buffer[t]
             /\ stream'[t] = stream[t] /\ asked'[t] = asked[t]
             /\ phase'[t] = phase[t] /\ open'[t] = open[t]
    BY <1>8 DEF Accept, Alive, InType
  <2>2. buffer[s] = <<>>
    BY <2>1 DEF Framing
  <2>3. OnTrack(<<>>, 0, 0)
    <3>1. 0 \in Nat /\ 2 * 0 <= 0 /\ 1..0 = {} /\ 0 = 2 * 0 /\ 0 = 0 + 0
      OBVIOUS
    <3>2. Len(<<>>) = 0
      OBVIOUS
    <3>. QED BY <3>1, <3>2 DEF OnTrack
  <2>4. <<>> \o <<>> = <<>> /\ Len(<<>>) = 0 /\ DOMAIN <<>> = {}
    OBVIOUS
  <2>5. OnTrack(buffer'[s] \o stream'[s], Len(handed'[s]), asked'[s])
    BY <2>1, <2>2, <2>3, <2>4
  <2>6. \A i \in DOMAIN handed'[s] : handed'[s][i] = i
    BY <2>1, <2>4
  <2>. QED BY <1>7, <2>1, <2>5, <2>6
<1>9. ASSUME NEW s \in Sockets, ClientSends(s) PROVE Framing'
  <2>1. /\ UNCHANGED <<phase, open, buffer, handed>> /\ asked'[s] = asked[s] + 1
        /\ phase[s] = "reading" /\ open[s]
        /\ \A t \in Sockets \ {s} : asked'[t] = asked[t]
    BY <1>9 DEF ClientSends, InType
  <2>2. PICK u \in {<<asked[s] + 1, asked[s] + 1>>, <<TooLong>>} :
          stream' = [stream EXCEPT ![s] = @ \o u]
    BY <1>9 DEF ClientSends
  <2>3. stream'[s] = stream[s] \o u /\ \A t \in Sockets \ {s} : stream'[t] = stream[t]
    BY <2>2 DEF InType
  <2>4. u \in Seq(Messages)
    <3>1. asked[s] + 1 \in Messages /\ TooLong \in Messages
      BY <1>9, NetworkAssumption
      DEF ClientSends, InType, NetworkAssumption, Messages, Requests
    <3>2. \A m \in Messages : <<m, m>> \in Seq(Messages) /\ <<m>> \in Seq(Messages)
      OBVIOUS
    <3>. QED BY <3>1, <3>2
  <2>5. buffer[s] \in Seq(Messages) /\ stream[s] \in Seq(Messages)
        /\ buffer[s] \o stream[s] \in Seq(Messages)
    BY ConcatProperties DEF InType
  <2>6. Len(handed[s]) \in Nat /\ asked[s] \in Nat
    BY LenProperties, NetworkAssumption DEF InType, NetworkAssumption
  <2>7. OnTrack((buffer[s] \o stream[s]) \o u, Len(handed[s]), asked[s] + 1)
    BY <2>1, <2>5, <2>6, SendOnTrack DEF Framing
  <2>8. (buffer[s] \o stream[s]) \o u = buffer'[s] \o stream'[s]
    <3>1. (buffer[s] \o stream[s]) \o u = buffer[s] \o (stream[s] \o u)
      BY <2>4, <2>5, AssociativeMessages, Zenon
    <3>. QED BY <2>1, <2>3, <3>1
  <2>9. OnTrack(buffer'[s] \o stream'[s], Len(handed'[s]), asked'[s])
    BY <2>1, <2>7, <2>8
  <2>10. \A i \in DOMAIN handed'[s] : handed'[s][i] = i
    BY <2>1 DEF Framing
  <2>. QED BY <1>7, <2>1, <2>3, <2>9, <2>10
<1>10. ASSUME NEW s \in Sockets, Forget(s) PROVE Framing'
  <2>1. /\ UNCHANGED <<handed, stream, asked, open>>
        /\ phase'[s] = "drop" /\ buffer'[s] = <<>>
        /\ \A t \in Sockets \ {s} : buffer'[t] = buffer[t] /\ phase'[t] = phase[t]
    BY <1>10 DEF Forget, InType
  <2>2. \A i \in DOMAIN handed'[s] : handed'[s][i] = i
    BY <2>1 DEF Framing
  <2>. QED BY <1>7, <2>1, <2>2
<1>11. ASSUME NEW s \in Sockets, CloseSocket(s) PROVE Framing'
  <2>1. /\ UNCHANGED <<handed, buffer, asked>> /\ ~open'[s] /\ buffer[s] = <<>>
        /\ \A t \in Sockets \ {s} : /\ stream'[t] = stream[t] /\ phase'[t] = phase[t]
                                    /\ open'[t] = open[t]
    BY <1>11 DEF CloseSocket, InType, Framing
  <2>2. \A i \in DOMAIN handed'[s] : handed'[s][i] = i
    BY <2>1 DEF Framing
  <2>. QED BY <1>7, <2>1, <2>2
<1>. QED BY <1>2, <1>3, <1>4, <1>5, <1>6, <1>8, <1>9, <1>10, <1>11, ReadFraming
         DEF Next, Reader

-----------------------------------------------------------------------------
(***************************************************************************)
(* The theorems.                                                           *)
(***************************************************************************)

IInv == InType /\ OutType /\ SlotsMatchReaders /\ Replies /\ Framing

\* The inductive invariant holds of every behaviour of the connections.
THEOREM Invariance == Spec => []IInv
<1>1. Init => IInv
  <2>1. Init => up \in BOOLEAN
    BY DEF Init
  <2>. QED BY <2>1, InitFresh, FreshIn, FreshOut, FreshSlots, FreshReplies, FreshFraming
        DEF IInv
<1>2. IInv /\ [Next]_vars => IInv'
  BY InTypeStep, OutTypeStep, SlotsStep, ReplyStep, FramingStep DEF IInv
<1>. QED BY <1>1, <1>2, PTL DEF Spec

\* Every variable of the connections keeps its type: in particular, what
\* extractV2Messages hands over is always a request, never an over-long prefix.
THEOREM TypeCorrect == Spec => []TypeOK
<1>1. IInv => TypeOK
  BY TypeSplit DEF IInv
<1>. QED BY <1>1, Invariance, PTL

\* However the stream of a connection is cut into reads, its requests reach
\* processMessage in order, none twice and none left out.
THEOREM InSequence == Spec => []FramesInOrder
<1>1. IInv => FramesInOrder
  BY DEF IInv, Framing, FramesInOrder
<1>. QED BY <1>1, Invariance, PTL

\* activeSockets_ never leaks a slot of a reaped socket, and never misses a
\* connection that is read.
THEOREM Slots == Spec => []SlotsMatchReaders
<1>1. IInv => SlotsMatchReaders
  BY DEF IInv
<1>. QED BY <1>1, Invariance, PTL

\* No socket ever has two async_write under way, although queues are replaced
\* and erased under the senders.
THEOREM OneWriter == Spec => []OneWriterPerSocket
<1>1. IInv => OneWriterPerSocket
  BY DEF IInv, Replies, Writers, Busy, OneWriterPerSocket
<1>. QED BY <1>1, Invariance, PTL

\* A reply in pending always has a write handler to come that looks there.
THEOREM NothingStuck == Spec => []NoReplyIsStuck
<1>1. IInv => NoReplyIsStuck
  BY DEF IInv, Replies, Writers, NoReplyIsStuck
<1>. QED BY <1>1, Invariance, PTL

\* What was written to a connection is always a front part of what was posted
\* for it, in the same order.
THEOREM InOrder == Spec => []RepliesInOrder
<1>1. IInv => RepliesInOrder
  <2> SUFFICES ASSUME IInv, NEW s \in Sockets
               PROVE  /\ Len(wire[s]) <= Len(posted[s])
                      /\ wire[s] = SubSeq(posted[s], 1, Len(wire[s]))
    BY DEF RepliesInOrder
  <2>1. PICK rest \in Seq(Messages) : posted[s] = wire[s] \o rest
    BY DEF IInv, Replies, Delivered, Begins
  <2>2. wire[s] \in Seq(Messages) /\ posted[s] \in Seq(Messages)
    BY DEF IInv, OutType
  <2>3. Len(posted[s]) = Len(wire[s]) + Len(rest) /\ Len(wire[s]) \in Nat /\ Len(rest) \in Nat
    BY <2>1, <2>2, ConcatProperties, LenProperties
  <2>4. SubSeq(posted[s], 1, Len(wire[s])) = wire[s]
    <3>1. SubSeq(posted[s], 1, Len(wire[s])) \in Seq(Messages)
          /\ Len(SubSeq(posted[s], 1, Len(wire[s]))) = Len(wire[s])
          /\ \A i \in 1..Len(wire[s]) : SubSeq(posted[s], 1, Len(wire[s]))[i] = posted[s][i]
      BY <2>2, <2>3, SubSeqProperties
    <3>2. \A i \in 1..Len(wire[s]) : posted[s][i] = wire[s][i]
      BY <2>1, <2>2, ConcatProperties
    <3>. QED BY <2>2, <3>1, <3>2, SeqEqual
  <2>. QED BY <2>3, <2>4
<1>. QED BY <1>1, Invariance, PTL

-----------------------------------------------------------------------------
(***************************************************************************)
(* Every connection is a Conversation.                                     *)
(***************************************************************************)

\* Sequences that are put together, that have one element, or that count.
LEMMA ConcatElements ==
  ASSUME NEW S, NEW p \in Seq(S), NEW q \in Seq(S)
  PROVE  /\ p \o q \in Seq(S)
         /\ Len(p) \in Nat /\ Len(q) \in Nat /\ Len(p \o q) = Len(p) + Len(q)
         /\ DOMAIN (p \o q) = 1..(Len(p) + Len(q))
         /\ \A i \in 1..Len(q) : (p \o q)[Len(p) + i] = q[i]
  OBVIOUS

LEMMA SingleMessage ==
  ASSUME NEW q \in Seq(Messages), q # <<>>, Len(q) <= 1
  PROVE  /\ Len(q) = 1 /\ q[1] \in Messages
         /\ \A p \in Seq(Messages) : p \o q = Append(p, q[1])
<1>1. PICK n \in Nat : n = Len(q)
  BY LenProperties
<1>2. n # 0
  BY <1>1, EmptySeq
<1>3. n = 1
  BY ONLY <1>1, <1>2, Len(q) <= 1
<1>4. q[1] \in Messages
  BY <1>1, <1>3, ElementOfSeq
<1>5. ASSUME NEW p \in Seq(Messages) PROVE p \o q = Append(p, q[1])
  <2>1. /\ p \o q \in Seq(Messages) /\ Len(p \o q) = Len(p) + Len(q) /\ Len(p) \in Nat
        /\ \A i \in 1..Len(p) : (p \o q)[i] = p[i]
        /\ \A i \in 1..Len(q) : (p \o q)[Len(p) + i] = q[i]
    BY ConcatParts, ConcatProperties
  <2>2. /\ Append(p, q[1]) \in Seq(Messages)
        /\ Len(Append(p, q[1])) = Len(p) + 1
        /\ Append(p, q[1])[Len(p) + 1] = q[1]
        /\ \A i \in 1..Len(p) : Append(p, q[1])[i] = p[i]
    BY <1>4, AppendProperties
  <2> DEFINE x == p \o q
             y == Append(p, q[1])
  <2>3. \A i \in 1..Len(x) : x[i] = y[i]
    <3>1. \A i \in 1..Len(x) : i \in 1..Len(p) \/ i = Len(p) + 1
      BY <1>1, <1>3, <2>1
    <3>2. x[Len(p) + 1] = q[1]
      BY <1>1, <1>3, <2>1
    <3>. HIDE DEF x, y
    <3>. QED BY <2>1, <2>2, <3>1, <3>2 DEF x, y
  <2>4. Len(x) = Len(y)
    BY <1>1, <1>3, <2>1, <2>2
  <2>. QED BY ONLY <2>1, <2>2, <2>3, <2>4, SeqEqual, Zenon
<1>. QED BY <1>1, <1>3, <1>4, <1>5

LEMMA CountingSet ==
  ASSUME NEW h \in Nat, NEW c \in Nat, NEW f, \A i \in 1..c : f[i] = h + i
  PROVE  {f[i] : i \in 1..c} = (h + 1)..(h + c)
<1>1. ASSUME NEW m \in (h + 1)..(h + c) PROVE m \in {f[i] : i \in 1..c}
  <2>1. m - h \in 1..c /\ h + (m - h) = m
    OBVIOUS
  <2>2. f[m - h] = m
    BY <2>1
  <2>. QED BY <2>1, <2>2
<1>2. \A i \in 1..c : f[i] \in (h + 1)..(h + c)
  OBVIOUS
<1>. QED BY <1>1, <1>2

\* The read loop takes requests h + 1 to h + Complete(units).
LEMMA HandOverTakes ==
  ASSUME InType, Framing, Framing', NEW s \in Sockets, NEW units \in Seq(Messages),
         HandOver(s, units)
  PROVE  /\ takenOf' = [takenOf EXCEPT ![s] = @ + Complete(units)]
         /\ jobs' = [jobs EXCEPT ![s] =
              @ \union (takenOf[s] + 1)..(takenOf[s] + Complete(units))]
<1> DEFINE c == Complete(units)
           h == Len(handed[s])
<1>1. /\ c \in Nat
      /\ \A i \in 1..c : units[2 * i - 1] \in Requests
  BY FramesExist, NetworkAssumption DEF NetworkAssumption
<1>2. /\ Frames(units) \in Seq(Requests)
      /\ Len(Frames(units)) = c
  BY <1>1 DEF Frames
<1>3. /\ handed[s] \in Seq(Requests) /\ h \in Nat
      /\ handed'[s] = handed[s] \o Frames(units)
      /\ \A t \in Sockets \ {s} : handed'[t] = handed[t]
  <2>1. handed' = [handed EXCEPT ![s] = @ \o Frames(units)]
    BY DEF HandOver
  <2>. QED BY <2>1, LenProperties DEF InType
<1>. HIDE DEF c
<1>4. /\ Len(handed'[s]) = h + c
      /\ \A i \in 1..c : handed'[s][h + i] = Frames(units)[i]
      /\ DOMAIN handed'[s] = 1..(h + c)
  <2> DEFINE f == Frames(units)
  <2>1. f \in Seq(Requests) /\ Len(f) = c /\ handed'[s] = handed[s] \o f
    BY <1>2, <1>3
  <2> DEFINE before == handed[s]
  <2>2. before \in Seq(Requests)
    BY <1>3
  <2>. HIDE DEF f, before
  <2>3. /\ Len(before \o f) = Len(before) + Len(f)
        /\ DOMAIN (before \o f) = 1..(Len(before) + Len(f))
        /\ \A i \in 1..Len(f) : (before \o f)[Len(before) + i] = f[i]
    BY ONLY <2>1, <2>2, ConcatElements
  <2>. QED BY <2>1, <2>3 DEF f, before
<1>5. \A i \in 1..c : Frames(units)[i] = h + i
  <2>1. \A i \in DOMAIN handed'[s] : handed'[s][i] = i
    BY DEF Framing
  <2>2. \A i \in 1..c : h + i \in 1..(h + c)
    BY <1>1, <1>3
  <2>. QED BY <1>4, <2>1, <2>2
<1>6. {Frames(units)[i] : i \in 1..c} = (h + 1)..(h + c)
  <2> DEFINE f == Frames(units)
  <2>1. h \in Nat /\ c \in Nat /\ \A i \in 1..c : f[i] = h + i
    BY <1>1, <1>3, <1>5
  <2>. HIDE DEF f, h
  <2>2. {f[i] : i \in 1..c} = (h + 1)..(h + c)
    BY ONLY <2>1, CountingSet
  <2>. QED BY <2>2 DEF f, h
<1>7. takenOf' = [takenOf EXCEPT ![s] = @ + c]
  <2>1. \A t \in Sockets : takenOf'[t] = [takenOf EXCEPT ![s] = @ + c][t]
    BY <1>3, <1>4 DEF takenOf
  <2>. QED BY <2>1 DEF takenOf
<1>8. jobs' = [jobs EXCEPT ![s] = @ \union (h + 1)..(h + c)]
  BY <1>6 DEF HandOver, c
<1>. QED BY <1>7, <1>8 DEF takenOf, c

LEMMA SendPosts ==
  ASSUME NEW s \in Sockets, NEW m, Send(s, m)
  PROVE  posted' = [posted EXCEPT ![s] = Append(@, m)] /\ wire' = wire
  BY DEF Send

LEMMA ReadTalk ==
  ASSUME InType, Framing, Framing', NEW s \in Sockets, NEW n \in 1..Chunk, Read(s, n)
  PROVE  [Talk!Next]_Talk!vars
<1> DEFINE units == buffer[s] \o SubSeq(stream[s], 1, n)
<1>1. units \in Seq(Messages)
  <2>1. stream[s] \in Seq(Messages) /\ buffer[s] \in Seq(Messages)
        /\ n \in 1..Len(stream[s]) /\ Len(stream[s]) \in Nat
    BY LenProperties DEF Read, InType
  <2>. QED BY <2>1, SubSeqProperties, ConcatProperties
<1>2. \/ ReadTooMuch(s, units)
      \/ HandOver(s, units) /\ (NoSend \/ Send(s, TooLong))
  BY DEF Read
<1>. HIDE DEF units
<1>3. CASE ReadTooMuch(s, units)
  BY <1>3 DEF ReadTooMuch, NoSend, Talk!vars, takenOf
<1>4. CASE HandOver(s, units) /\ (NoSend \/ Send(s, TooLong))
  <2>1. /\ takenOf' = [takenOf EXCEPT ![s] = @ + Complete(units)]
        /\ jobs' = [jobs EXCEPT ![s] =
             @ \union (takenOf[s] + 1)..(takenOf[s] + Complete(units))]
    BY <1>1, <1>4, HandOverTakes
  <2>2. /\ posted' = [posted EXCEPT ![s] = Append(@, TooLong)] \/ UNCHANGED posted
        /\ UNCHANGED wire
    BY <1>4, SendPosts DEF NoSend
  <2>3. Talk!Take(s, Complete(units))
    BY <2>1, <2>2 DEF Talk!Take
  <2>4. Complete(units) \in 0..MaxPerRead
    BY <1>1, FramesExist
  <2>. QED BY <2>3, <2>4 DEF Talk!Next
<1>. QED BY <1>2, <1>3, <1>4

LEMMA AcceptTalk ==
  ASSUME InType, NEW s \in Sockets, Accept(s)
  PROVE  Talk!Connect(s)
<1>1. jobs[s] = {} /\ UNCHANGED jobs
  BY DEF Accept, Alive
<1>2. takenOf' = [takenOf EXCEPT ![s] = 0]
  <2>1. handed' = [handed EXCEPT ![s] = <<>>] /\ handed \in [Sockets -> Seq(Requests)]
    BY DEF Accept, InType
  <2>2. \A t \in Sockets : takenOf'[t] = [takenOf EXCEPT ![s] = 0][t]
    BY <2>1, EmptySeq DEF takenOf
  <2>. QED BY <2>2 DEF takenOf
<1>3. posted' = [posted EXCEPT ![s] = <<>>] /\ wire' = [wire EXCEPT ![s] = <<>>]
  BY DEF Accept
<1>. QED BY <1>1, <1>2, <1>3 DEF Talk!Connect

\* The reply whose write is done is the next one of its connection.
LEMMA WriteTalk ==
  ASSUME OutType, Replies, NEW q \in Queues, WriteDone(q)
  PROVE  owner[q] \in Sockets /\ Talk!Deliver(owner[q])
<1> DEFINE s == owner[q]
<1>1. /\ op[q] # <<>> /\ s \in Sockets /\ queue[s] = q /\ Len(op[q]) <= 1
      /\ op[q] \in Seq(Messages) /\ wire[s] \in Seq(Messages)
      /\ wire' = [wire EXCEPT ![s] = @ \o op[q]]
  <2>1. op[q] # <<>> /\ wire' = [wire EXCEPT ![s] = @ \o op[q]]
    BY DEF WriteDone
  <2>2. s \in Sockets /\ queue[s] = q /\ Len(op[q]) <= 1
    BY <2>1 DEF Replies, Writers, Busy
  <2>. QED BY <2>1, <2>2 DEF OutType
<1>. HIDE DEF s
<1>2. /\ Len(op[q]) = 1 /\ op[q][1] \in Messages
      /\ wire[s] \o op[q] = Append(wire[s], op[q][1])
  BY <1>1, SingleMessage
<1>3. PICK rest \in Seq(Messages) : posted[s] = (wire[s] \o op[q]) \o rest
  <2>1. Conserved(q, s)
    BY <1>1 DEF Replies, s
  <2>. QED BY <2>1 DEF Conserved, Begins
<1>4. /\ Len(posted[s]) = (Len(wire[s]) + 1) + Len(rest)
      /\ Len(wire[s]) \in Nat /\ Len(rest) \in Nat
      /\ posted[s][Len(wire[s]) + 1] = op[q][1]
  <2> DEFINE w == Append(wire[s], op[q][1])
  <2>1. /\ w \in Seq(Messages) /\ Len(w) = Len(wire[s]) + 1 /\ Len(wire[s]) \in Nat
        /\ w[Len(wire[s]) + 1] = op[q][1]
    BY <1>1, <1>2, AppendProperties, LenProperties
  <2>2. posted[s] = w \o rest
    BY <1>2, <1>3
  <2>. HIDE DEF w
  <2>3. Len(wire[s]) + 1 \in 1..Len(w)
    BY <2>1
  <2>4. /\ Len(w \o rest) = Len(w) + Len(rest) /\ Len(rest) \in Nat
        /\ (w \o rest)[Len(wire[s]) + 1] = w[Len(wire[s]) + 1]
    BY <2>1, <2>3, ConcatParts
  <2>. QED BY <2>1, <2>2, <2>4
<1>6. wire' = [wire EXCEPT ![s] = Append(@, posted[s][Len(wire[s]) + 1])]
  BY <1>1, <1>2, <1>4
<1>7. Len(wire[s]) < Len(posted[s])
  BY <1>4
<1>8. UNCHANGED <<takenOf, jobs, posted>>
  BY DEF WriteDone, inVars, takenOf
<1>. QED BY <1>1, <1>6, <1>7, <1>8 DEF Talk!Deliver, s

\* Steps nobody at the other end of a connection can see.
LEMMA HiddenTalk ==
  ASSUME \/ \E s \in Sockets : ClientSends(s) \/ ReadFails(s) \/ Forget(s)
                                 \/ DropQueue(s) \/ CloseSocket(s)
         \/ \E q \in Queues : RunTask(q) \/ WriteFails(q)
         \/ Collect \/ Restart \/ UNCHANGED vars
  PROVE  UNCHANGED Talk!vars
<1>1. UNCHANGED <<handed, jobs, posted, wire>>
  BY DEF ClientSends, ReadFails, Forget, DropQueue, CloseSocket, RunTask, WriteFails,
         Collect, Restart, NoSend, inVars, vars
<1>. QED BY <1>1 DEF Talk!vars, takenOf

LEMMA TalkStep ==
  ASSUME IInv, IInv', [Next]_vars
  PROVE  [Talk!Next]_Talk!vars
<1>0. InType /\ OutType /\ Replies /\ Framing /\ Framing'
  BY DEF IInv
<1>1. ASSUME NEW s \in Sockets, Accept(s) PROVE Talk!Next
  BY <1>0, <1>1, AcceptTalk DEF Talk!Next
<1>2. ASSUME NEW s \in Sockets, NEW n \in 1..Chunk, Read(s, n)
      PROVE  [Talk!Next]_Talk!vars
  BY <1>0, <1>2, ReadTalk
<1>3. ASSUME NEW s \in Sockets, NEW i \in Requests, Answer(s, i) \/ Discard(s, i)
      PROVE  Talk!Next
  <2>1. i \in jobs[s] /\ takenOf' = takenOf
    BY <1>3 DEF Answer, Discard, inVars, takenOf
  <2>2. CASE Answer(s, i)
    <3>1. posted' = [posted EXCEPT ![s] = Append(@, i)] /\ wire' = wire
      BY <2>2, SendPosts DEF Answer
    <3>2. Talk!Answer(s, i)
      BY <2>1, <2>2, <3>1 DEF Answer, Talk!Answer
    <3>. QED BY <2>1, <3>2 DEF Talk!Next
  <2>3. CASE Discard(s, i)
    <3>1. Talk!Discard(s, i)
      BY <2>1, <2>3 DEF Discard, NoSend, Talk!Discard
    <3>. QED BY <2>1, <3>1 DEF Talk!Next
  <2>. QED BY <1>3, <2>2, <2>3
<1>4. ASSUME NEW q \in Queues, WriteDone(q) PROVE Talk!Next
  BY <1>0, <1>4, WriteTalk DEF Talk!Next
<1>5. CASE AcceptThrows
  <2>1. Talk!Fresh'
    BY <1>5, EmptySeq DEF AcceptThrows, Talk!Fresh, takenOf
  <2>. QED BY <2>1 DEF Talk!Next, Talk!Crash
<1>6. CASE \/ \E s \in Sockets : ClientSends(s) \/ ReadFails(s) \/ Forget(s)
                                  \/ DropQueue(s) \/ CloseSocket(s)
           \/ \E q \in Queues : RunTask(q) \/ WriteFails(q)
           \/ Collect \/ Restart \/ UNCHANGED vars
  BY <1>6, HiddenTalk
<1>. QED BY <1>1, <1>2, <1>3, <1>4, <1>5, <1>6 DEF Next, Reader

\* The network layer implements Conversation.
THEOREM NetworkImplementsConversation == Spec => ImplementsConversation
<1>1. Init => Talk!Init
  BY EmptySeq DEF Init, Talk!Init, Talk!Fresh, takenOf
<1>2. IInv /\ IInv' /\ [Next]_vars => [Talk!Next]_Talk!vars
  BY TalkStep
<1>. QED BY <1>1, <1>2, Invariance, PTL DEF Spec, ImplementsConversation, Talk!Spec

\* What AnsweredOnce needs to be inductive: only requests that were taken are
\* worked on.
Worked ==
  /\ \A s \in Sockets : jobs[s] \subseteq 1..takenOf[s]
  /\ Talk!AnsweredOnce

TalkTyped ==
  /\ takenOf \in [Sockets -> Nat]
  /\ jobs \in [Sockets -> SUBSET Nat]
  /\ posted \in [Sockets -> Seq(Messages)]

LEMMA TalkTypes == IInv => TalkTyped
<1> SUFFICES ASSUME IInv PROVE TalkTyped
  OBVIOUS
<1>1. handed \in [Sockets -> Seq(Requests)] /\ jobs \in [Sockets -> SUBSET Requests]
      /\ posted \in [Sockets -> Seq(Messages)]
  BY DEF IInv, InType, OutType
<1>2. takenOf \in [Sockets -> Nat]
  BY <1>1, LenProperties DEF takenOf
<1>3. Requests \subseteq Nat
  BY NetworkAssumption DEF Requests, NetworkAssumption
<1>. QED BY <1>1, <1>2, <1>3 DEF TalkTyped

\* What holds of the replies p of a connection with t requests, those in w
\* still worked on.
Fits(p, t, w) ==
  \A i, j \in DOMAIN p :
    p[i] # TooLong => p[i] \in (1..t) \ w /\ (p[j] = p[i] => j = i)

LEMMA AnsweredFits ==
  Talk!AnsweredOnce <=> \A s \in Sockets : Fits(posted[s], takenOf[s], jobs[s])
  BY DEF Talk!AnsweredOnce, Fits

LEMMA WorkedStep ==
  ASSUME TalkTyped, Worked, [Talk!Next]_Talk!vars
  PROVE  Worked'
<1>1. \A s \in Sockets : /\ jobs[s] \subseteq 1..takenOf[s]
                         /\ Fits(posted[s], takenOf[s], jobs[s])
                         /\ takenOf[s] \in Nat /\ posted[s] \in Seq(Messages)
  BY AnsweredFits DEF Worked, TalkTyped
<1>. SUFFICES \A s \in Sockets : /\ jobs'[s] \subseteq 1..takenOf'[s]
                                 /\ Fits(posted'[s], takenOf'[s], jobs'[s])
  BY DEF Worked, Talk!AnsweredOnce, Fits
\* It is enough to look at the connection that moves.
<1>2. ASSUME NEW s \in Sockets,
             jobs'[s] \subseteq 1..takenOf'[s],
             Fits(posted'[s], takenOf'[s], jobs'[s]),
             \A r \in Sockets \ {s} : /\ jobs'[r] = jobs[r] /\ takenOf'[r] = takenOf[r]
                                      /\ posted'[r] = posted[r]
      PROVE  \A r \in Sockets : /\ jobs'[r] \subseteq 1..takenOf'[r]
                                /\ Fits(posted'[r], takenOf'[r], jobs'[r])
  BY <1>1, <1>2
<1>3. ASSUME NEW s \in Sockets, Talk!Connect(s)
      PROVE  \A r \in Sockets : /\ jobs'[r] \subseteq 1..takenOf'[r]
                                /\ Fits(posted'[r], takenOf'[r], jobs'[r])
  <2>1. /\ jobs'[s] = {} /\ posted'[s] = <<>>
        /\ \A r \in Sockets \ {s} : /\ jobs'[r] = jobs[r] /\ takenOf'[r] = takenOf[r]
                                    /\ posted'[r] = posted[r]
    BY <1>3 DEF Talk!Connect, TalkTyped
  <2>2. Fits(posted'[s], takenOf'[s], jobs'[s])
    BY <2>1 DEF Fits
  <2>. QED BY <1>2, <2>1, <2>2
<1>4. ASSUME NEW s \in Sockets, NEW n \in 0..MaxPerRead, Talk!Take(s, n)
      PROVE  \A r \in Sockets : /\ jobs'[r] \subseteq 1..takenOf'[r]
                                /\ Fits(posted'[r], takenOf'[r], jobs'[r])
  <2>0. n \in Nat
    BY NetworkAssumption DEF NetworkAssumption
  <2>1. /\ takenOf'[s] = takenOf[s] + n
        /\ jobs'[s] = jobs[s] \union (takenOf[s] + 1)..(takenOf[s] + n)
        /\ posted'[s] = posted[s] \/ posted'[s] = Append(posted[s], TooLong)
        /\ \A r \in Sockets \ {s} : /\ jobs'[r] = jobs[r] /\ takenOf'[r] = takenOf[r]
                                    /\ posted'[r] = posted[r]
    BY <1>4 DEF Talk!Take, TalkTyped
  <2>2. jobs'[s] \subseteq 1..takenOf'[s]
    BY <1>1, <2>0, <2>1
  <2>3. Fits(posted[s], takenOf'[s], jobs'[s])
    BY <1>1, <2>0, <2>1 DEF Fits
  <2>4. Fits(Append(posted[s], TooLong), takenOf'[s], jobs'[s])
    <3>1. /\ DOMAIN Append(posted[s], TooLong) = 1..(Len(posted[s]) + 1)
          /\ DOMAIN posted[s] = 1..Len(posted[s]) /\ Len(posted[s]) \in Nat
          /\ Append(posted[s], TooLong)[Len(posted[s]) + 1] = TooLong
          /\ \A i \in 1..Len(posted[s]) : Append(posted[s], TooLong)[i] = posted[s][i]
      BY <1>1
    <3>. QED BY <2>3, <3>1 DEF Fits
  <2>. QED BY <1>2, <2>1, <2>2, <2>3, <2>4
<1>5. ASSUME NEW s \in Sockets, NEW i \in jobs[s], Talk!Answer(s, i)
      PROVE  \A r \in Sockets : /\ jobs'[r] \subseteq 1..takenOf'[r]
                                /\ Fits(posted'[r], takenOf'[r], jobs'[r])
  <2>1. /\ takenOf'[s] = takenOf[s]
        /\ jobs'[s] = jobs[s] \ {i}
        /\ posted'[s] = Append(posted[s], i)
        /\ \A r \in Sockets \ {s} : /\ jobs'[r] = jobs[r] /\ takenOf'[r] = takenOf[r]
                                    /\ posted'[r] = posted[r]
    BY <1>5 DEF Talk!Answer, TalkTyped
  <2>2. /\ DOMAIN Append(posted[s], i) = 1..(Len(posted[s]) + 1)
        /\ DOMAIN posted[s] = 1..Len(posted[s]) /\ Len(posted[s]) \in Nat
        /\ Append(posted[s], i)[Len(posted[s]) + 1] = i
        /\ \A k \in 1..Len(posted[s]) : Append(posted[s], i)[k] = posted[s][k]
    BY <1>1
  <2>3. \A k \in 1..Len(posted[s]) : posted[s][k] # i
    <3>1. i \in jobs[s] /\ i \in 1..takenOf[s] /\ i # TooLong
      BY <1>1 DEF TooLong
    <3>. QED BY <1>1, <2>2, <3>1 DEF Fits
  <2>4. Fits(posted'[s], takenOf'[s], jobs'[s])
    <3> SUFFICES ASSUME NEW k \in 1..(Len(posted[s]) + 1), NEW l \in 1..(Len(posted[s]) + 1),
                        Append(posted[s], i)[k] # TooLong
                 PROVE  /\ Append(posted[s], i)[k] \in (1..takenOf[s]) \ (jobs[s] \ {i})
                        /\ Append(posted[s], i)[l] = Append(posted[s], i)[k] => l = k
      BY <2>1, <2>2 DEF Fits
    <3>1. i \in 1..takenOf[s]
      BY <1>1
    <3>2. \A m \in 1..(Len(posted[s]) + 1) : m \in 1..Len(posted[s]) \/ m = Len(posted[s]) + 1
      BY <2>2
    <3>. QED BY <1>1, <2>2, <2>3, <3>1, <3>2 DEF Fits
  <2>5. jobs'[s] \subseteq 1..takenOf'[s]
    BY <1>1, <2>1
  <2>. QED BY <1>2, <2>1, <2>4, <2>5
<1>6. ASSUME NEW s \in Sockets, NEW i \in jobs[s], Talk!Discard(s, i)
      PROVE  \A r \in Sockets : /\ jobs'[r] \subseteq 1..takenOf'[r]
                                /\ Fits(posted'[r], takenOf'[r], jobs'[r])
  <2>1. /\ UNCHANGED <<takenOf, posted>> /\ jobs'[s] = jobs[s] \ {i}
        /\ \A r \in Sockets \ {s} : jobs'[r] = jobs[r]
    BY <1>6 DEF Talk!Discard, TalkTyped
  <2>2. Fits(posted'[s], takenOf'[s], jobs'[s])
    BY <1>1, <2>1 DEF Fits
  <2>. QED BY <1>1, <1>2, <2>1, <2>2
<1>7. CASE (\E s \in Sockets : Talk!Deliver(s)) \/ UNCHANGED Talk!vars
  <2>1. UNCHANGED <<takenOf, jobs, posted>>
    BY <1>7 DEF Talk!Deliver, Talk!vars
  <2>. QED BY <1>1, <2>1
<1>8. CASE Talk!Crash
  <2>1. \A s \in Sockets : jobs'[s] = {} /\ posted'[s] = <<>>
    BY <1>8 DEF Talk!Crash, Talk!Fresh
  <2>. QED BY <2>1 DEF Fits
<1>. QED BY <1>3, <1>4, <1>5, <1>6, <1>7, <1>8 DEF Talk!Next

\* However reads, workers, strands and reconnections interleave, every reply
\* but a refusal answers a request of the connection it is posted for, which no
\* handler works on any more, and no request is answered twice.
THEOREM RequestsAnsweredOnce == Spec => []Talk!AnsweredOnce
<1>1. Init => Worked
  BY DEF Init, Worked, Talk!AnsweredOnce
<1>2. IInv /\ IInv' /\ [Next]_vars /\ Worked => Worked'
  BY TalkStep, TalkTypes, WorkedStep
<1>3. Worked => Talk!AnsweredOnce
  BY DEF Worked
<1>. QED BY <1>1, <1>2, <1>3, Invariance, PTL DEF Spec
=============================================================================
