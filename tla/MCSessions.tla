----------------------------- MODULE MCSessions -----------------------------
(***************************************************************************)
(* An instance of Sessions that starts after an earlier life of the server *)
(* with two ids of the sequence drawn: either the account Old exists, with *)
(* a row that is still active, or its registration was rolled back after   *)
(* it had drawn a hash, and New is still to register.                      *)
(***************************************************************************)
EXTENDS Sessions

CONSTANTS Old, New, OldToken, OldWorker

Earlier(existing, drawn, state) ==
  /\ accounts = existing
  /\ ids = drawn
  /\ status = [t \in Tokens |-> IF t = OldToken THEN state ELSE "unused"]
  /\ owner = [t \in Tokens |-> IF t = OldToken THEN Old ELSE NoUser]
  /\ by = [t \in Tokens |-> IF t = OldToken THEN OldWorker ELSE NoWorker]
  /\ mem = [u \in Users |-> NoToken]
  /\ age = [u \in Users |-> 0]
  /\ pc = [w \in Workers |-> "idle"]
  /\ user = [w \in Workers |-> NoUser]
  /\ tok = [w \in Workers |-> NoToken]
  /\ snap = [w \in Workers |-> {}]
  /\ pend = [w \in Workers |-> {}]
  /\ solo = [w \in Workers |-> FALSE]
  /\ granted = [u \in Users |-> {}]
  /\ loop = "wait"

LaterInit ==
  \/ Earlier({Old}, {Old, New}, "active")
  \/ Earlier({}, {Old}, "drawn")

LaterSpec ==
  /\ LaterInit /\ [][Next]_vars
  /\ \A w \in Workers : WF_vars(Progress(w)) /\ SF_vars(FinishRevoke(w))
=============================================================================
