----------------------------- MODULE Conversation -----------------------------
(***************************************************************************)
(* What a client may expect of its connection: the server takes its        *)
(* requests one after the other, answers each at most once, refuses what   *)
(* is not a request, and sends what it has said in the order it said it.   *)
(* An address is given to a new connection only when no request of the old *)
(* one is worked on, and the new one hears nothing of the old.             *)
(***************************************************************************)
EXTENDS Naturals, Sequences

CONSTANTS
  Sockets,
  MaxPerRead,   \* requests taken at a time
  Refusal       \* the reply to what is not a request

VARIABLES
  taken,        \* the number of requests taken
  jobs,         \* those that are worked on
  posted,       \* the replies, in order
  wire          \* those that were sent, in order

vars == <<taken, jobs, posted, wire>>

Fresh ==
  /\ taken = [s \in Sockets |-> 0]
  /\ jobs = [s \in Sockets |-> {}]
  /\ posted = [s \in Sockets |-> <<>>]
  /\ wire = [s \in Sockets |-> <<>>]

Init == Fresh

Connect(s) ==
  /\ jobs[s] = {}
  /\ taken' = [taken EXCEPT ![s] = 0]
  /\ posted' = [posted EXCEPT ![s] = <<>>]
  /\ wire' = [wire EXCEPT ![s] = <<>>]
  /\ UNCHANGED jobs

\* The next n requests, and perhaps something that is none.
Take(s, n) ==
  /\ taken' = [taken EXCEPT ![s] = @ + n]
  /\ jobs' = [jobs EXCEPT ![s] = @ \union (taken[s] + 1)..(taken[s] + n)]
  /\ posted' = [posted EXCEPT ![s] = Append(@, Refusal)] \/ UNCHANGED posted
  /\ UNCHANGED wire

Answer(s, i) ==
  /\ i \in jobs[s]
  /\ jobs' = [jobs EXCEPT ![s] = @ \ {i}]
  /\ posted' = [posted EXCEPT ![s] = Append(@, i)]
  /\ UNCHANGED <<taken, wire>>

Discard(s, i) ==
  /\ i \in jobs[s]
  /\ jobs' = [jobs EXCEPT ![s] = @ \ {i}]
  /\ UNCHANGED <<taken, posted, wire>>

Deliver(s) ==
  /\ Len(wire[s]) < Len(posted[s])
  /\ wire' = [wire EXCEPT ![s] = Append(@, posted[s][Len(wire[s]) + 1])]
  /\ UNCHANGED <<taken, jobs, posted>>

\* The server stops, and all connections with it.
Crash == Fresh'

Next ==
  \/ \E s \in Sockets :
       \/ Connect(s) \/ Deliver(s)
       \/ \E n \in 0..MaxPerRead : Take(s, n)
       \/ \E i \in jobs[s] : Answer(s, i) \/ Discard(s, i)
  \/ Crash

Spec == Init /\ [][Next]_vars

-----------------------------------------------------------------------------

\* A reply is a refusal, or answers a request of this connection that nobody
\* works on any more; and no request is answered twice.
AnsweredOnce ==
  \A s \in Sockets : \A i, j \in DOMAIN posted[s] :
    posted[s][i] # Refusal =>
      /\ posted[s][i] \in (1..taken[s]) \ jobs[s]
      /\ posted[s][j] = posted[s][i] => j = i
=============================================================================
