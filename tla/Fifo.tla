-------------------------------- MODULE Fifo --------------------------------
(***************************************************************************)
(* What the event queue and the pool's queue of tasks promise: events are  *)
(* delivered in the order they were sent, each once, and a batch is taken  *)
(* from the front.                                                         *)
(***************************************************************************)
EXTENDS Naturals, Sequences

CONSTANTS Events, BatchSizes

VARIABLES sent, got     \* all events sent, and all events delivered, so far

Init == sent = <<>> /\ got = <<>>

\* One or more events are sent.
Send ==
  /\ \E s \in UNION {[1..n -> Events] : n \in 1..2} : sent' = sent \o s
  /\ UNCHANGED got

\* The next events are delivered, at most as many as a batch may have.
Deliver ==
  /\ \E size \in BatchSizes, n \in (Len(got) + 1)..Len(sent) :
       /\ n <= Len(got) + size
       /\ got' = SubSeq(sent, 1, n)
  /\ UNCHANGED sent

Next == Send \/ Deliver

Spec == Init /\ [][Next]_<<sent, got>>
=============================================================================
