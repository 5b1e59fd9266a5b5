------------------------------- MODULE Network -------------------------------
(***************************************************************************)
(* The client connections of NetworkManager: the accept handler, the read  *)
(* loop of every socket, the framing of requests, reapSocket, and the      *)
(* write queues that send replies.  The handlers run on several I/O        *)
(* threads, the replies come from the workers, and the event loop collects *)
(* the queues, so that everything below interleaves with everything else.  *)
(*                                                                         *)
(* Three maps are keyed by the address of a socket.  A socket here IS an   *)
(* address: when nothing refers to the object any more, Accept puts a new  *)
(* connection at the same address, which is how the map entries could      *)
(* outlive the socket they are about.                                      *)
(*                                                                         *)
(* The bytes of a request frame are two units, so that a read can split    *)
(* it; a unit is the number of its frame.  TooLong is the length prefix of *)
(* a frame above kMaxFrameBytes.                                           *)
(***************************************************************************)
EXTENDS Naturals, Sequences, FiniteSets

CONSTANTS
  Sockets,          \* the addresses sockets are allocated at
  Queues,           \* the SocketWriteQueue objects
  MaxClients,       \* server_max_clients
  MaxPerRead,       \* MAX_MESSAGES_PER_READ
  Chunk,            \* kReadChunkBytes, in units
  Cap,              \* kMaxAccumulatedBytesV2, in units
  MaxFrames,        \* bound: requests a client sends over a connection
  NoQueue, NoSocket

TooLong == 0
Requests == 1..MaxFrames
Messages == Requests \union {TooLong}

ASSUME NetworkAssumption ==
  /\ MaxClients \in Nat \ {0}
  /\ MaxPerRead \in Nat \ {0}
  /\ Chunk \in Nat \ {0}
  /\ Cap \in Nat
  /\ MaxFrames \in Nat
  /\ NoQueue \notin Queues
  /\ NoSocket \notin Sockets

VARIABLES
  up,       \* the process runs
  phase,    \* where the chain of read handlers of a socket is
  again,    \* reapSocket was called for an over-long frame: a read follows
  open,     \* socket->is_open()
  active,   \* activeSockets_
  stream,   \* units the client has sent and the server has not read
  asked,    \* the number of requests the client has sent (history)
  buffer,   \* socketBuffers_
  handed,   \* the requests given to processMessage, in order (history)
  jobs,     \* requests some handler is still busy with, holding the socket
  queue,    \* writeQueues_
  owner,    \* SocketWriteQueue::owner, NoSocket when it has expired
  tasks,    \* lambdas posted to the strand: the replies they carry
  pending,  \* SocketWriteQueue::pending
  writing,  \* SocketWriteQueue::writing
  op,       \* the replies whose async_write is under way
  posted,   \* replies posted for the connection, in order (history)
  wire      \* replies written to it, in order (history)

inVars    == <<stream, asked, buffer, handed>>
queueVars == <<owner, tasks, pending, writing, op>>
vars == <<up, phase, again, open, active, inVars, jobs, queue, queueVars,
          posted, wire>>

Phases == {"none", "reading", "forget", "drop", "close"}

TypeOK ==
  /\ up \in BOOLEAN
  /\ phase \in [Sockets -> Phases]
  /\ again \in [Sockets -> BOOLEAN]
  /\ open \in [Sockets -> BOOLEAN]
  /\ active \subseteq Sockets
  /\ stream \in [Sockets -> Seq(Messages)]
  /\ asked \in [Sockets -> 0..MaxFrames]
  /\ buffer \in [Sockets -> Seq(Messages)]
  /\ handed \in [Sockets -> Seq(Requests)]
  /\ jobs \in [Sockets -> SUBSET Requests]
  /\ queue \in [Sockets -> Queues \union {NoQueue}]
  /\ owner \in [Queues -> Sockets \union {NoSocket}]
  /\ tasks \in [Queues -> Seq(Messages)]
  /\ pending \in [Queues -> Seq(Messages)]
  /\ writing \in [Queues -> BOOLEAN]
  /\ op \in [Queues -> Seq(Messages)]
  /\ posted \in [Sockets -> Seq(Messages)]
  /\ wire \in [Sockets -> Seq(Messages)]

Init ==
  /\ up = TRUE
  /\ phase = [s \in Sockets |-> "none"]
  /\ again = [s \in Sockets |-> FALSE]
  /\ open = [s \in Sockets |-> FALSE]
  /\ active = {}
  /\ stream = [s \in Sockets |-> <<>>]
  /\ asked = [s \in Sockets |-> 0]
  /\ buffer = [s \in Sockets |-> <<>>]
  /\ handed = [s \in Sockets |-> <<>>]
  /\ jobs = [s \in Sockets |-> {}]
  /\ queue = [s \in Sockets |-> NoQueue]
  /\ owner = [q \in Queues |-> NoSocket]
  /\ tasks = [q \in Queues |-> <<>>]
  /\ pending = [q \in Queues |-> <<>>]
  /\ writing = [q \in Queues |-> FALSE]
  /\ op = [q \in Queues |-> <<>>]
  /\ posted = [s \in Sockets |-> <<>>]
  /\ wire = [s \in Sockets |-> <<>>]

-----------------------------------------------------------------------------
(***************************************************************************)
(* Helpers.                                                                *)
(***************************************************************************)

\* Strand lambdas and write handlers hold their queue and its socket.
Busy(q) == tasks[q] # <<>> \/ op[q] # <<>>

\* Somebody holds a shared_ptr to the socket.
Alive(s) ==
  \/ phase[s] # "none"
  \/ jobs[s] # {}
  \/ \E q \in Queues : owner[q] = s /\ Busy(q)

\* queue->owner.lock() returns the socket.
OwnedBy(q, s) == owner[q] = s /\ Alive(s)

\* Queue objects nothing refers to: a new one can be allocated there.
Unused(q) == ~Busy(q) /\ \A s \in Sockets : queue[s] # q

\* How many frames extractV2Messages hands over before it stops.
Complete(units) ==
  CHOOSE k \in 0..MaxPerRead :
    /\ 2 * k <= Len(units)
    /\ \A i \in 1..k : units[2 * i - 1] # TooLong
    /\ \/ k = MaxPerRead
       \/ Len(units) < 2 * (k + 1)
       \/ units[2 * k + 1] = TooLong

\* ... and whether it stops at an over-long frame.
Oversize(units) ==
  LET k == Complete(units) IN
  k < MaxPerRead /\ Len(units) > 2 * k /\ units[2 * k + 1] = TooLong

Frames(units) == [i \in 1..Complete(units) |-> units[2 * i - 1]]

Rest(units) == SubSeq(units, 2 * Complete(units) + 1, Len(units))

-----------------------------------------------------------------------------
(***************************************************************************)
(* Sending a reply: sendResponse and enqueueWrite, on any thread.          *)
(***************************************************************************)

\* getOrCreateWriteQueue: the socket's own queue, or a new one in its place.
FindQueue(s, q) ==
  IF queue[s] # NoQueue /\ OwnedBy(queue[s], s)
  THEN q = queue[s] /\ UNCHANGED <<queue, owner, pending, writing>>
  ELSE /\ Unused(q)
       /\ queue' = [queue EXCEPT ![s] = q]
       /\ owner' = [owner EXCEPT ![q] = s]
       /\ pending' = [pending EXCEPT ![q] = <<>>]
       /\ writing' = [writing EXCEPT ![q] = FALSE]

\* Look-up and post are one step: the sender holds the socket, and the entry
\* of a socket somebody holds is never changed (FindQueue, DropQueue, Collect).
Send(s, m) ==
  \E q \in Queues :
    /\ FindQueue(s, q)
    /\ tasks' = [tasks EXCEPT ![q] = Append(@, m)]
    /\ posted' = [posted EXCEPT ![s] = Append(@, m)]
    /\ UNCHANGED <<op, wire>>

NoSend == UNCHANGED <<queue, queueVars, posted, wire>>

\* Mutant of Answer: the handler does not return after its reply.
AnswerAndGoOn(s, i) ==
  /\ i \in jobs[s]
  /\ Send(s, i)
  /\ UNCHANGED <<up, phase, again, open, active, inVars, jobs>>

\* A handler answers a request, or ends without a reply.
Answer(s, i) ==
  /\ i \in jobs[s]
  /\ jobs' = [jobs EXCEPT ![s] = @ \ {i}]
  /\ Send(s, i)
  /\ UNCHANGED <<up, phase, again, open, active, inVars>>

Discard(s, i) ==
  /\ i \in jobs[s]
  /\ jobs' = [jobs EXCEPT ![s] = @ \ {i}]
  /\ NoSend
  /\ UNCHANGED <<up, phase, again, open, active, inVars>>

-----------------------------------------------------------------------------
(***************************************************************************)
(* The strand of a queue.                                                  *)
(***************************************************************************)

\* doNextWrite, when the replies p are waiting.
DoNextWrite(q, p) ==
  LET start == p # <<>> /\ open[owner[q]] IN
  /\ pending' = [pending EXCEPT ![q] = IF start THEN Tail(p) ELSE <<>>]
  /\ writing' = [writing EXCEPT ![q] = start]
  /\ op' = [op EXCEPT ![q] = IF start THEN <<Head(p)>> ELSE <<>>]

\* The lambda enqueueWrite has posted.
RunTask(q) ==
  /\ tasks[q] # <<>>
  /\ tasks' = [tasks EXCEPT ![q] = Tail(@)]
  /\ LET p == Append(pending[q], Head(tasks[q])) IN
     IF writing[q]
     THEN pending' = [pending EXCEPT ![q] = p] /\ UNCHANGED <<writing, op>>
     ELSE DoNextWrite(q, p)
  /\ UNCHANGED <<up, phase, again, open, active, inVars, jobs, queue, owner,
                 posted, wire>>

\* The handler of async_write.
WriteDone(q) ==
  /\ op[q] # <<>>
  /\ wire' = [wire EXCEPT ![owner[q]] = @ \o op[q]]
  /\ DoNextWrite(q, pending[q])
  /\ UNCHANGED <<up, phase, again, open, active, inVars, jobs, queue, owner,
                 tasks, posted>>

\* Mutant of WriteFails: it leaves the socket open.
WriteFailsQuietly(q) ==
  /\ op[q] # <<>>
  /\ op' = [op EXCEPT ![q] = <<>>]
  /\ writing' = [writing EXCEPT ![q] = FALSE]
  /\ pending' = [pending EXCEPT ![q] = <<>>]
  /\ UNCHANGED <<up, phase, again, open, active, inVars, jobs, queue, owner,
                 tasks, posted, wire>>

\* Mutant of WriteFails: what waits is kept.
WriteFailsKeeping(q) ==
  /\ op[q] # <<>>
  /\ op' = [op EXCEPT ![q] = <<>>]
  /\ writing' = [writing EXCEPT ![q] = FALSE]
  /\ open' = [open EXCEPT ![owner[q]] = FALSE]
  /\ UNCHANGED <<up, phase, again, active, inVars, jobs, queue, owner, tasks,
                 pending, posted, wire>>

WriteFails(q) ==
  /\ op[q] # <<>>
  /\ op' = [op EXCEPT ![q] = <<>>]
  /\ writing' = [writing EXCEPT ![q] = FALSE]
  /\ pending' = [pending EXCEPT ![q] = <<>>]
  /\ open' = [open EXCEPT ![owner[q]] = FALSE]
  /\ UNCHANGED <<up, phase, again, active, inVars, jobs, queue, owner, tasks,
                 posted, wire>>

\* gcWriteQueues, called by the event loop in its timeout branch.
Collect ==
  /\ queue' = [s \in Sockets |->
                 IF queue[s] # NoQueue /\ ~OwnedBy(queue[s], s)
                 THEN NoQueue ELSE queue[s]]
  /\ UNCHANGED <<up, phase, again, open, active, inVars, jobs, queueVars,
                 posted, wire>>

-----------------------------------------------------------------------------
(***************************************************************************)
(* Accepting, reading and reaping.                                         *)
(***************************************************************************)

\* The accept handler, for a connection below the limit; it closes any other.
\* The map entries of an earlier socket at this address are not touched.
Accept(s) ==
  /\ ~Alive(s)
  /\ Cardinality(active) < MaxClients
  /\ phase' = [phase EXCEPT ![s] = "reading"]
  /\ open' = [open EXCEPT ![s] = TRUE]
  /\ active' = active \union {s}
  /\ stream' = [stream EXCEPT ![s] = <<>>]
  /\ asked' = [asked EXCEPT ![s] = 0]
  /\ handed' = [handed EXCEPT ![s] = <<>>]
  /\ posted' = [posted EXCEPT ![s] = <<>>]
  /\ wire' = [wire EXCEPT ![s] = <<>>]
  /\ owner' = [q \in Queues |-> IF owner[q] = s THEN NoSocket ELSE owner[q]]
  /\ UNCHANGED <<up, again, buffer, jobs, queue, tasks, pending, writing, op>>

\* The client has reset the connection before the handler runs: its
\* remote_endpoint() throws, no thread of the io_context catches, and the
\* process ends with all it kept.
AcceptThrows ==
  /\ up' = FALSE
  /\ phase' = [s \in Sockets |-> "none"]
  /\ again' = [s \in Sockets |-> FALSE]
  /\ open' = [s \in Sockets |-> FALSE]
  /\ active' = {}
  /\ stream' = [s \in Sockets |-> <<>>]
  /\ asked' = [s \in Sockets |-> 0]
  /\ buffer' = [s \in Sockets |-> <<>>]
  /\ handed' = [s \in Sockets |-> <<>>]
  /\ jobs' = [s \in Sockets |-> {}]
  /\ queue' = [s \in Sockets |-> NoQueue]
  /\ owner' = [q \in Queues |-> NoSocket]
  /\ tasks' = [q \in Queues |-> <<>>]
  /\ pending' = [q \in Queues |-> <<>>]
  /\ writing' = [q \in Queues |-> FALSE]
  /\ op' = [q \in Queues |-> <<>>]
  /\ posted' = [s \in Sockets |-> <<>>]
  /\ wire' = [s \in Sockets |-> <<>>]

\* A client sends a request, or the prefix of an over-long one.
ClientSends(s) ==
  /\ open[s] /\ phase[s] = "reading"
  /\ asked[s] < MaxFrames
  /\ asked' = [asked EXCEPT ![s] = @ + 1]
  /\ \E units \in {<<asked[s] + 1, asked[s] + 1>>, <<TooLong>>} :
       stream' = [stream EXCEPT ![s] = @ \o units]
  /\ UNCHANGED <<up, phase, again, open, active, buffer, handed, jobs>>
  /\ NoSend

\* Mutant of ReadTooMuch: the handler returns and starts no other read.
ReadTooMuchAndStop(s, units) ==
  /\ Len(units) > Cap
  /\ buffer' = [buffer EXCEPT ![s] = <<>>]
  /\ open' = [open EXCEPT ![s] = FALSE]
  /\ phase' = [phase EXCEPT ![s] = "none"]
  /\ UNCHANGED <<again, handed, jobs>>
  /\ NoSend

\* handleClientData finds the accumulated bytes above the cap: it closes the
\* socket, and leaves the reaping to the read that fails next.
ReadTooMuch(s, units) ==
  /\ Len(units) > Cap
  /\ buffer' = [buffer EXCEPT ![s] = <<>>]
  /\ open' = [open EXCEPT ![s] = FALSE]
  /\ UNCHANGED <<phase, again, handed, jobs>>
  /\ NoSend

\* extractV2Messages gives complete frames to processMessage, and keeps the
\* rest of the bytes: also those of complete frames beyond MaxPerRead.
HandOver(s, units) ==
  /\ handed' = [handed EXCEPT ![s] = @ \o Frames(units)]
  /\ jobs' = [jobs EXCEPT ![s] = @ \union {Frames(units)[i] : i \in 1..Complete(units)}]
  /\ buffer' = [buffer EXCEPT ![s] = IF Oversize(units) THEN <<>> ELSE Rest(units)]

\* The read handler, after a read of n units.
Read(s, n) ==
  LET units == buffer[s] \o SubSeq(stream[s], 1, n) IN
  /\ phase[s] = "reading" /\ open[s]
  /\ n \in 1..Len(stream[s]) /\ n <= Chunk
  /\ stream' = [stream EXCEPT ![s] = SubSeq(@, n + 1, Len(@))]
  /\ \/ ReadTooMuch(s, units)
     \/ /\ Len(units) <= Cap /\ ~Oversize(units)
        /\ HandOver(s, units)
        /\ NoSend
        /\ UNCHANGED <<phase, again, open>>
     \/ /\ Len(units) <= Cap /\ Oversize(units)
        /\ HandOver(s, units)
        /\ Send(s, TooLong)
        /\ phase' = [phase EXCEPT ![s] = "forget"]
        /\ again' = [again EXCEPT ![s] = TRUE]
        /\ UNCHANGED open
  /\ UNCHANGED <<up, active, asked>>

\* The read ends with an error, end of file, or because the socket is closed.
ReadFails(s) ==
  /\ phase[s] = "reading"
  /\ phase' = [phase EXCEPT ![s] = "forget"]
  /\ UNCHANGED <<up, again, open, active, inVars, jobs>>
  /\ NoSend

\* Mutant of Forget: the bytes stay in socketBuffers_.
ForgetSlotOnly(s) ==
  /\ phase[s] = "forget"
  /\ phase' = [phase EXCEPT ![s] = "drop"]
  /\ active' = active \ {s}
  /\ UNCHANGED <<up, again, open, inVars, jobs>>
  /\ NoSend

\* reapSocket: the bytes and the slot first, ...
Forget(s) ==
  /\ phase[s] = "forget"
  /\ phase' = [phase EXCEPT ![s] = "drop"]
  /\ buffer' = [buffer EXCEPT ![s] = <<>>]
  /\ active' = active \ {s}
  /\ UNCHANGED <<up, again, open, stream, asked, handed, jobs>>
  /\ NoSend

\* Mutant of DropQueue: the entry goes, whoever owns it.
DropAnyQueue(s) ==
  /\ phase[s] = "drop"
  /\ phase' = [phase EXCEPT ![s] = "close"]
  /\ queue' = [queue EXCEPT ![s] = NoQueue]
  /\ UNCHANGED <<up, again, open, active, inVars, jobs, queueVars, posted, wire>>

\* ... then removeWriteQueue, which spares the queue of a live socket, ...
DropQueue(s) ==
  /\ phase[s] = "drop"
  /\ phase' = [phase EXCEPT ![s] = "close"]
  /\ queue' = IF queue[s] # NoQueue /\ ~OwnedBy(queue[s], s)
              THEN [queue EXCEPT ![s] = NoQueue] ELSE queue
  /\ UNCHANGED <<up, again, open, active, inVars, jobs, queueVars, posted, wire>>

\* ... then close(). The over-long frame's handler starts the next read, which
\* fails; after a failed read, the socket is done with.
CloseSocket(s) ==
  /\ phase[s] = "close"
  /\ open' = [open EXCEPT ![s] = FALSE]
  /\ phase' = [phase EXCEPT ![s] = IF again[s] THEN "reading" ELSE "none"]
  /\ again' = [again EXCEPT ![s] = FALSE]
  /\ stream' = [stream EXCEPT ![s] = <<>>]
  /\ UNCHANGED <<up, active, asked, buffer, handed, jobs>>
  /\ NoSend

\* The container starts the server again.
Restart ==
  /\ up' = TRUE
  /\ UNCHANGED <<phase, again, open, active, inVars, jobs, queue, queueVars,
                 posted, wire>>

-----------------------------------------------------------------------------

Reader(s) ==
  \/ \E n \in 1..Chunk : Read(s, n)
  \/ ReadFails(s) \/ Forget(s) \/ DropQueue(s) \/ CloseSocket(s)

Next ==
  \/ up /\ \E s \in Sockets :
             \/ Accept(s) \/ ClientSends(s) \/ Reader(s)
             \/ \E i \in Requests : Answer(s, i) \/ Discard(s, i)
  \/ up /\ \E q \in Queues : RunTask(q) \/ WriteDone(q) \/ WriteFails(q)
  \/ up /\ (Collect \/ AcceptThrows)
  \/ ~up /\ Restart

Spec == Init /\ [][Next]_vars

-----------------------------------------------------------------------------
(***************************************************************************)
(* Properties.                                                             *)
(***************************************************************************)

\* Requests reach processMessage in the order in which the client has sent
\* them, none twice and none left out, however the stream is cut into reads,
\* and no byte of an earlier connection at the same address gets among them.
FramesInOrder ==
  \A s \in Sockets : \A i \in DOMAIN handed[s] : handed[s][i] = i

\* No two async_write run on one socket at a time, although workers, I/O
\* threads and the event loop look queues up, replace and erase them.
OneWriterPerSocket ==
  \A q, r \in Queues :
    Len(op[q]) <= 1 /\ (q # r /\ op[q] # <<>> /\ op[r] # <<>> => owner[q] # owner[r])

\* What a client receives is a front part of what was posted for its
\* connection: replies are lost only with the connection, never in between.
RepliesInOrder ==
  \A s \in Sockets :
    Len(wire[s]) <= Len(posted[s]) /\ wire[s] = SubSeq(posted[s], 1, Len(wire[s]))

\* A reply waits in pending only behind a write whose handler will look there.
NoReplyIsStuck == \A q \in Queues : pending[q] # <<>> => op[q] # <<>>

\* activeSockets_ counts every connection that is open and read, and holds no
\* slot for a socket that has no read handler left to give it back.
SlotsMatchReaders ==
  \A s \in Sockets :
    /\ s \in active => phase[s] \in {"reading", "forget"}
    /\ phase[s] = "reading" /\ open[s] => s \in active

\* Every connection is a Conversation: reads, queues, strands, reaping and the
\* collection of queues only show as requests taken in order and replies sent
\* in order, each request answered at most once and on its own connection.
takenOf == [s \in Sockets |-> Len(handed[s])]

Talk == INSTANCE Conversation WITH taken <- takenOf, Refusal <- TooLong
ImplementsConversation == Talk!Spec

\* The accept handler goes on accepting connections even if there is an error.
AcceptSurvives == up

=============================================================================
