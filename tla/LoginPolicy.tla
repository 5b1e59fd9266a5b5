----------------------------- MODULE LoginPolicy -----------------------------
(***************************************************************************)
(* What the server promises about logins, one step for each decision.  A   *)
(* guess is admitted to an account that is open and not locked; it then is *)
(* charged, if the password was wrong, or clears what was charged.  Only a *)
(* guess that was charged is called wrong, and only one that cleared the   *)
(* account is let in, unless a ban is in force.                            *)
(***************************************************************************)
EXTENDS Naturals

CONSTANTS
  Workers, Users, Logins,
  Limit,      \* the count that locks an account
  Largest,    \* the largest count
  NoUser, NoLogin

VARIABLES
  name,       \* the login of an account
  count,      \* wrong passwords since the last right one
  lock,       \* a lock, if there was one since, and whether it is in force
  active,     \* the account is open
  banned,     \* a ban is in force
  stage,      \* what a worker has decided on the guess it serves
  whose       \* ... and the account that is guessed at

vars == <<name, count, lock, active, banned, stage, whose>>

Init ==
  /\ name \in [Users -> Logins \union {NoLogin}]
  /\ count = [u \in Users |-> 0]
  /\ lock = [u \in Users |-> "none"]
  /\ active = [u \in Users |-> TRUE]
  /\ banned = [u \in Users |-> FALSE]
  /\ stage = [w \in Workers |-> "none"]
  /\ whose = [w \in Workers |-> NoUser]

\* A worker decides, or fails to make its decision known.
Decide(w, what) ==
  \/ stage' = [stage EXCEPT ![w] = what] /\ UNCHANGED whose
  \/ stage' = [stage EXCEPT ![w] = "none"] /\ whose' = [whose EXCEPT ![w] = NoUser]

\* An account is made, for a client that is let in at once.
Register(w, u, l) ==
  /\ stage[w] = "none" /\ name[u] = NoLogin
  /\ name' = [name EXCEPT ![u] = l]
  /\ \/ /\ stage' = [stage EXCEPT ![w] = "welcome"]
        /\ whose' = [whose EXCEPT ![w] = u]
     \/ UNCHANGED <<stage, whose>>
  /\ UNCHANGED <<count, lock, active, banned>>

Admit(w, u) ==
  /\ stage[w] = "none"
  /\ name[u] # NoLogin /\ active[u] /\ lock[u] # "live"
  /\ stage' = [stage EXCEPT ![w] = "admitted"]
  /\ whose' = [whose EXCEPT ![w] = u]
  /\ UNCHANGED <<name, count, lock, active, banned>>

\* Other accounts with the same login may be charged too.
Charge(w, charged) ==
  /\ stage[w] = "admitted" /\ whose[w] \in charged
  /\ \A u \in charged : name[u] = name[whose[w]] /\ count[u] < Largest
  /\ count' = [u \in Users |-> IF u \in charged THEN count[u] + 1 ELSE count[u]]
  /\ lock' = [u \in Users |->
       IF u \in charged /\ count[u] + 1 >= Limit THEN "live" ELSE lock[u]]
  /\ Decide(w, "failed")
  /\ UNCHANGED <<name, active, banned>>

Clear(w) ==
  /\ stage[w] = "admitted"
  /\ count' = [count EXCEPT ![whose[w]] = 0]
  /\ lock' = [lock EXCEPT ![whose[w]] = "none"]
  /\ Decide(w, "passed")
  /\ UNCHANGED <<name, active, banned>>

Judge(w) ==
  /\ stage[w] = "passed"
  /\ stage' = [stage EXCEPT ![w] = IF banned[whose[w]] THEN "banned" ELSE "welcome"]
  /\ UNCHANGED <<name, count, lock, active, banned, whose>>

\* A worker has answered, or gives up.
Leave(w) ==
  /\ stage' = [stage EXCEPT ![w] = "none"]
  /\ whose' = [whose EXCEPT ![w] = NoUser]
  /\ UNCHANGED <<name, count, lock, active, banned>>

Expire(u) ==
  /\ lock[u] = "live"
  /\ lock' = [lock EXCEPT ![u] = "expired"]
  /\ UNCHANGED <<name, count, active, banned, stage, whose>>

Moderate(u) ==
  /\ \/ active' = [active EXCEPT ![u] = ~@] /\ UNCHANGED banned
     \/ banned' = [banned EXCEPT ![u] = ~@] /\ UNCHANGED active
  /\ UNCHANGED <<name, count, lock, stage, whose>>

Next ==
  \/ \E w \in Workers, u \in Users :
       Admit(w, u) \/ \E l \in Logins : Register(w, u, l)
  \/ \E w \in Workers, charged \in SUBSET Users : Charge(w, charged)
  \/ \E w \in Workers : Clear(w) \/ Judge(w) \/ Leave(w)
  \/ \E u \in Users : Expire(u) \/ Moderate(u)

Spec == Init /\ [][Next]_vars

-----------------------------------------------------------------------------

\* A password is called wrong only in the step that charges the account, and
\* called right only in the step that clears it.
WordsMatchDeeds ==
  \A w \in Workers :
    /\ stage[w] # "failed" /\ stage'[w] = "failed" =>
         count'[whose[w]] = count[whose[w]] + 1
    /\ stage[w] # "passed" /\ stage'[w] = "passed" =>
         count'[whose[w]] = 0 /\ lock'[whose[w]] = "none"
NoGuessIsFree == [][WordsMatchDeeds]_vars

\* An account that exists keeps its login.
NamesStay == \A u \in Users : name[u] # NoLogin => name'[u] = name[u]
NamesAreKept == [][NamesStay]_vars
=============================================================================
