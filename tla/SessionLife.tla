----------------------------- MODULE SessionLife -----------------------------
(***************************************************************************)
(* What the server promises about session hashes.  A hash becomes ready    *)
(* when its row is committed; it is live while the server honours it, which*)
(* happens once; and when it is over it is over.  A user has at most one   *)
(* live hash, and learns of no hash that is still to be live.              *)
(***************************************************************************)
CONSTANTS Users, Tokens, NoUser

VARIABLES
  life,     \* where in its life a hash is
  user,     \* whose it is
  known     \* the hashes a user was sent

vars == <<life, user, known>>

\* The hashes of earlier lives of the server are over.
Init ==
  /\ life \in [Tokens -> {"new", "over"}]
  /\ user \in [Tokens -> Users \union {NoUser}]
  /\ known = [u \in Users |-> {}]

\* A row is committed, by a login that may fail all the same.
Issue(t, u) ==
  /\ life[t] = "new"
  /\ \E next \in {"ready", "over"} : life' = [life EXCEPT ![t] = next]
  /\ user' = [user EXCEPT ![t] = u]
  /\ UNCHANGED known

\* The hash replaces the one its user had.
Start(t) ==
  /\ life[t] = "ready"
  /\ life' = [x \in Tokens |->
       IF x = t THEN "live"
       ELSE IF life[x] = "live" /\ user[x] = user[t] THEN "over"
       ELSE life[x]]
  /\ UNCHANGED <<user, known>>

\* Hashes end: by a disconnect, by the sweep, with the process.
End(S) ==
  /\ \A t \in S : life[t] \in {"ready", "live"}
  /\ life' = [t \in Tokens |-> IF t \in S THEN "over" ELSE life[t]]
  /\ UNCHANGED <<user, known>>

\* A reply carries a hash, which may have ended meanwhile.
Tell(u, t) ==
  /\ life[t] \in {"live", "over"} /\ user[t] = u
  /\ known' = [known EXCEPT ![u] = @ \union {t}]
  /\ UNCHANGED <<life, user>>

Next ==
  \/ \E t \in Tokens, u \in Users : Issue(t, u) \/ Tell(u, t)
  \/ \E t \in Tokens : Start(t)
  \/ \E S \in SUBSET Tokens : End(S)

Spec == Init /\ [][Next]_vars

-----------------------------------------------------------------------------

\* A user has at most one live hash.
OneLiveHash ==
  \A t1, t2 \in Tokens :
    life[t1] = "live" /\ life[t2] = "live" /\ user[t1] = user[t2] => t1 = t2

\* A user knows only hashes of his, and none that is still to be live.
KnownHashesAreHis ==
  \A u \in Users : \A t \in known[u] : user[t] = u /\ life[t] \in {"live", "over"}

\* A hash that is over is never honoured again.
StaysOver == \A t \in Tokens : life[t] = "over" => life'[t] = "over"
OverForGood == [][StaysOver]_vars
=============================================================================
