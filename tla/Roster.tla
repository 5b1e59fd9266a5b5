-------------------------------- MODULE Roster --------------------------------
(***************************************************************************)
(* What the server promises about characters: requests that ask, look and  *)
(* then create or delete in one step.  A creation has seen room for one    *)
(* more and its name free, each at some moment before; a deletion finds    *)
(* the character alive and in the account that asks.                       *)
(***************************************************************************)
EXTENDS Naturals, FiniteSets

CONSTANTS Workers, Users, Ids, Names, MaxChars, NoUser, NoName, NoId

VARIABLES
  life,       \* of a character
  owner,      \* its account
  name,       \* its name
  doing,      \* how far a worker is with its request
  user,       \* the account that asks
  wanted,     \* the name it asks for
  char,       \* the character it wants deleted
  told        \* successful deletions reported of a character

vars == <<life, owner, name, doing, user, wanted, char, told>>

Init ==
  /\ life = [c \in Ids |-> "none"]
  /\ owner = [c \in Ids |-> NoUser]
  /\ name = [c \in Ids |-> NoName]
  /\ doing = [w \in Workers |-> "nothing"]
  /\ user = [w \in Workers |-> NoUser]
  /\ wanted = [w \in Workers |-> NoName]
  /\ char = [w \in Workers |-> NoId]
  /\ told = [c \in Ids |-> 0]

Living(u) == {c \in Ids : life[c] = "alive" /\ owner[c] = u}

\* A request ends.
Over(w) ==
  /\ doing' = [doing EXCEPT ![w] = "nothing"]
  /\ user' = [user EXCEPT ![w] = NoUser]
  /\ wanted' = [wanted EXCEPT ![w] = NoName]
  /\ char' = [char EXCEPT ![w] = NoId]

AskCreate(w, u, n) ==
  /\ doing[w] = "nothing"
  /\ doing' = [doing EXCEPT ![w] = "counting"]
  /\ user' = [user EXCEPT ![w] = u]
  /\ wanted' = [wanted EXCEPT ![w] = n]
  /\ UNCHANGED <<life, owner, name, char, told>>

AskDelete(w, u, c) ==
  /\ doing[w] = "nothing"
  /\ doing' = [doing EXCEPT ![w] = "deleting"]
  /\ user' = [user EXCEPT ![w] = u]
  /\ char' = [char EXCEPT ![w] = c]
  /\ UNCHANGED <<life, owner, name, wanted, told>>

SeeRoom(w) ==
  /\ doing[w] = "counting" /\ Cardinality(Living(user[w])) < MaxChars
  /\ doing' = [doing EXCEPT ![w] = "naming"]
  /\ UNCHANGED <<life, owner, name, user, wanted, char, told>>

SeeNameFree(w) ==
  /\ doing[w] = "naming"
  /\ \A c \in Ids : life[c] = "alive" => name[c] # wanted[w]
  /\ doing' = [doing EXCEPT ![w] = "creating"]
  /\ UNCHANGED <<life, owner, name, user, wanted, char, told>>

Create(w, c) ==
  /\ doing[w] = "creating" /\ life[c] = "none"
  /\ life' = [life EXCEPT ![c] = "alive"]
  /\ owner' = [owner EXCEPT ![c] = user[w]]
  /\ name' = [name EXCEPT ![c] = wanted[w]]
  /\ Over(w)
  /\ UNCHANGED told

\* Whether success is reported is another matter.
Delete(w) ==
  /\ doing[w] = "deleting" /\ char[w] \in Living(user[w])
  /\ life' = [life EXCEPT ![char[w]] = "deleted"]
  /\ owner' = [owner EXCEPT ![char[w]] = NoUser]
  /\ name' = [name EXCEPT ![char[w]] = NoName]
  /\ told' = [told EXCEPT ![char[w]] = @ + 1] \/ UNCHANGED told
  /\ Over(w)

GiveUp(w) == Over(w) /\ UNCHANGED <<life, owner, name, told>>

Next ==
  \E w \in Workers :
    \/ \E u \in Users, n \in Names : AskCreate(w, u, n)
    \/ \E u \in Users, c \in Ids : AskDelete(w, u, c)
    \/ SeeRoom(w) \/ SeeNameFree(w) \/ Delete(w) \/ GiveUp(w)
    \/ \E c \in Ids : Create(w, c)

Spec == Init /\ [][Next]_vars

-----------------------------------------------------------------------------

\* A character disappears only when a request of its own account deletes it,
\* and it does not come back; as long as it lives it keeps account and name.
Guarded ==
  \A c \in Ids :
    /\ life[c] = "alive" /\ life'[c] # "alive" =>
         /\ life'[c] = "deleted"
         /\ \E w \in Workers :
              doing[w] = "deleting" /\ char[w] = c /\ user[w] = owner[c]
    /\ life[c] = "alive" /\ life'[c] = "alive" =>
         owner'[c] = owner[c] /\ name'[c] = name[c]
    /\ life[c] = "deleted" => life'[c] = "deleted"
OnlyOwnersDelete == [][Guarded]_vars
=============================================================================
