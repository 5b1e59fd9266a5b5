-------------------------------- MODULE Leases --------------------------------
(***************************************************************************)
(* What a pool of connections promises: an acquire ends with a connection  *)
(* that nobody else has and that works, or it fails, and then for a        *)
(* reason: none was free, or one that was free had broken.                 *)
(***************************************************************************)
CONSTANTS Threads, Slots, NoSlot

VARIABLES
  conn,       \* whether a slot's connection works
  asking,     \* the threads inside acquire()
  held        \* the slot a thread has

vars == <<conn, asking, held>>

Init ==
  /\ conn = [s \in Slots |-> "live"]
  /\ asking = {}
  /\ held = [t \in Threads |-> NoSlot]

Free == {s \in Slots : \A t \in Threads : held[t] # s}

Ask(t) ==
  /\ t \notin asking /\ held[t] = NoSlot
  /\ asking' = asking \union {t}
  /\ UNCHANGED <<conn, held>>

\* The connection may have been reopened for this caller.
Grant(t, s) ==
  /\ t \in asking /\ s \in Free
  /\ held' = [held EXCEPT ![t] = s]
  /\ conn' = [conn EXCEPT ![s] = "live"]
  /\ asking' = asking \ {t}

Refuse(t) ==
  /\ t \in asking
  /\ Free = {} \/ \E s \in Free : conn[s] = "dead"
  /\ asking' = asking \ {t}
  /\ UNCHANGED <<conn, held>>

Return(t) ==
  /\ held[t] # NoSlot
  /\ held' = [held EXCEPT ![t] = NoSlot]
  /\ UNCHANGED <<conn, asking>>

Break(s) ==
  /\ conn' = [conn EXCEPT ![s] = "dead"]
  /\ UNCHANGED <<asking, held>>

Next ==
  \/ \E t \in Threads :
       Ask(t) \/ Refuse(t) \/ Return(t) \/ \E s \in Slots : Grant(t, s)
  \/ \E s \in Slots : Break(s)

Spec == Init /\ [][Next]_vars

-----------------------------------------------------------------------------

\* No thread hands its connection to another: a slot changes hands only
\* through a state in which it is free.  And nobody is sent away while all the
\* free connections, if there are any, work.
Dealt ==
  /\ \A t, u \in Threads :
       t # u /\ held[t] # NoSlot => held'[u] # held[t]
  /\ \A t \in asking \ asking' :
       held'[t] = NoSlot => Free = {} \/ \E s \in Free : conn[s] = "dead"
DealtFairly == [][Dealt]_vars
=============================================================================
