----------------------------- MODULE Characters -----------------------------
(***************************************************************************)
(* Creating and deleting characters: CharacterManager and its handlers, on *)
(* the table characters.  Several workers do this at once, each in its own *)
(* transaction at READ COMMITTED: a statement sees what is committed when  *)
(* it starts, and nothing but the primary key of the table is unique.      *)
(*                                                                         *)
(* A request enters when validateSession has let it through (module        *)
(* Sessions).  A name stands for all its spellings: the query that looks   *)
(* for it compares lower(name).                                            *)
(***************************************************************************)
EXTENDS Naturals, FiniteSets

CONSTANTS
  Workers,          \* the threads of the pool
  Users,            \* accounts, characters.owner_id
  Ids,              \* bound: the characters.id there can be
  Names,            \* well-formed names
  MaxChars,         \* MAX_CHARS_PER_ACCOUNT
  NoUser, NoName, NoId, NoWorker

ASSUME CharactersAssumption ==
  /\ IsFiniteSet(Workers) /\ Workers # {}
  /\ IsFiniteSet(Ids)
  /\ MaxChars \in Nat \ {0}
  /\ NoUser \notin Users
  /\ NoName \notin Names
  /\ NoId \notin Ids
  /\ NoWorker \notin Workers

VARIABLES
  state,      \* of an id: no row, a row not committed yet, alive, deleted
  of,         \* characters.owner_id
  name,       \* characters.name
  slot,       \* characters.account_slot
  by,         \* the worker that inserted the row (history)
  pc,         \* where a worker is
  user,       \* the account of its request
  wanted,     \* the name a create request asks for
  char,       \* the row it has inserted, or was asked to delete
  deletions   \* successful deletions of a character reported (history)

rows == <<of, name, slot, by>>
vars == <<state, rows, pc, user, wanted, char, deletions>>

Creating == {"count", "name", "insert", "commit"}
Deleting == {"delete", "lock", "deleted"}

TypeOK ==
  /\ state \in [Ids -> {"none", "new", "alive", "deleted"}]
  /\ of \in [Ids -> Users \union {NoUser}]
  /\ name \in [Ids -> Names \union {NoName}]
  /\ slot \in [Ids -> Nat]
  /\ by \in [Ids -> Workers \union {NoWorker}]
  /\ pc \in [Workers -> {"idle"} \union Creating \union Deleting]
  /\ user \in [Workers -> Users \union {NoUser}]
  /\ wanted \in [Workers -> Names \union {NoName}]
  /\ char \in [Workers -> Ids \union {NoId}]
  /\ deletions \in [Ids -> Nat]

Init ==
  /\ state = [c \in Ids |-> "none"]
  /\ of = [c \in Ids |-> NoUser]
  /\ name = [c \in Ids |-> NoName]
  /\ slot = [c \in Ids |-> 0]
  /\ by = [c \in Ids |-> NoWorker]
  /\ pc = [w \in Workers |-> "idle"]
  /\ user = [w \in Workers |-> NoUser]
  /\ wanted = [w \in Workers |-> NoName]
  /\ char = [w \in Workers |-> NoId]
  /\ deletions = [c \in Ids |-> 0]

-----------------------------------------------------------------------------

\* The rows of an account every transaction sees.
Living(u) == {c \in Ids : state[c] = "alive" /\ of[c] = u}

Goto(w, where) == pc' = [pc EXCEPT ![w] = where]

\* The row is gone: it was rolled back, or carries deleted_at, and no query
\* reads such a row.
Erase(c, to) ==
  /\ state' = [state EXCEPT ![c] = to]
  /\ of' = [of EXCEPT ![c] = NoUser]
  /\ name' = [name EXCEPT ![c] = NoName]
  /\ slot' = [slot EXCEPT ![c] = 0]
  /\ by' = [by EXCEPT ![c] = NoWorker]

\* The transaction is over and the answer is sent.
Done(w) ==
  /\ Goto(w, "idle")
  /\ user' = [user EXCEPT ![w] = NoUser]
  /\ wanted' = [wanted EXCEPT ![w] = NoName]
  /\ char' = [char EXCEPT ![w] = NoId]

-----------------------------------------------------------------------------
(***************************************************************************)
(* createCharacter.                                                        *)
(***************************************************************************)

BeginCreate(w, u, n) ==
  /\ pc[w] = "idle"
  /\ Goto(w, "count")
  /\ user' = [user EXCEPT ![w] = u]
  /\ wanted' = [wanted EXCEPT ![w] = n]
  /\ UNCHANGED <<state, rows, char, deletions>>

\* Mutant of CountSlots: one character too many passes.
CountOneMore(w) ==
  /\ pc[w] = "count"
  /\ IF Cardinality(Living(user[w])) > MaxChars
     THEN Done(w)
     ELSE Goto(w, "name") /\ UNCHANGED <<user, wanted, char>>
  /\ UNCHANGED <<state, rows, deletions>>

\* get_character_slot_count: ERR_SLOT_FULL, or on.
CountSlots(w) ==
  /\ pc[w] = "count"
  /\ IF Cardinality(Living(user[w])) >= MaxChars
     THEN Done(w)
     ELSE Goto(w, "name") /\ UNCHANGED <<user, wanted, char>>
  /\ UNCHANGED <<state, rows, deletions>>

\* check_character_name_exists: ERR_NAME_TAKEN, or on.
CheckName(w) ==
  /\ pc[w] = "name"
  /\ IF \E c \in Ids : state[c] = "alive" /\ name[c] = wanted[w]
     THEN Done(w)
     ELSE Goto(w, "insert") /\ UNCHANGED <<user, wanted, char>>
  /\ UNCHANGED <<state, rows, deletions>>

\* Mutant of NextSlot: it counts the characters.
NextSlotByCount(u, k) == k = Cardinality(Living(u)) + 1

\* COALESCE(MAX(account_slot) + 1, 1) over the living characters.
NextSlot(u, k) ==
  IF Living(u) = {} THEN k = 1
  ELSE \E c \in Living(u) : /\ \A d \in Living(u) : slot[d] <= slot[c]
                            /\ k = slot[c] + 1

\* Mutant of Insert: the statement commits by itself, without a transaction.
InsertAtOnce(w, c, k) ==
  /\ pc[w] = "insert"
  /\ state[c] = "none"
  /\ NextSlot(user[w], k)
  /\ state' = [state EXCEPT ![c] = "alive"]
  /\ of' = [of EXCEPT ![c] = user[w]]
  /\ name' = [name EXCEPT ![c] = wanted[w]]
  /\ slot' = [slot EXCEPT ![c] = k]
  /\ by' = [by EXCEPT ![c] = w]
  /\ char' = [char EXCEPT ![w] = c]
  /\ Goto(w, "commit")
  /\ UNCHANGED <<user, wanted, deletions>>

\* create_character draws an id and resolves the slot; the rows of the other
\* tables that follow belong to the new character alone.  An id whose insert
\* was rolled back may be drawn again here: nobody has seen it.
Insert(w, c, k) ==
  /\ pc[w] = "insert"
  /\ state[c] = "none"
  /\ NextSlot(user[w], k)
  /\ state' = [state EXCEPT ![c] = "new"]
  /\ of' = [of EXCEPT ![c] = user[w]]
  /\ name' = [name EXCEPT ![c] = wanted[w]]
  /\ slot' = [slot EXCEPT ![c] = k]
  /\ by' = [by EXCEPT ![c] = w]
  /\ char' = [char EXCEPT ![w] = c]
  /\ Goto(w, "commit")
  /\ UNCHANGED <<user, wanted, deletions>>

\* The commit, whether commit() then returns or throws: the row is there, and
\* only the answer differs.
CommitCreate(w) ==
  /\ pc[w] = "commit"
  /\ state' = [state EXCEPT ![char[w]] = "alive"]
  /\ Done(w)
  /\ UNCHANGED <<rows, deletions>>

-----------------------------------------------------------------------------
(***************************************************************************)
(* deleteCharacter: one UPDATE, which waits for the row's lock.            *)
(***************************************************************************)

\* The client names any id, of another account as well.
BeginDelete(w, u, c) ==
  /\ pc[w] = "idle"
  /\ Goto(w, "delete")
  /\ user' = [user EXCEPT ![w] = u]
  /\ char' = [char EXCEPT ![w] = c]
  /\ UNCHANGED <<state, rows, wanted, deletions>>

\* The rows the UPDATE finds when it starts.
FindRow(w) ==
  /\ pc[w] = "delete"
  /\ IF char[w] \in Living(user[w])
     THEN Goto(w, "lock") /\ UNCHANGED <<user, wanted, char>>
     ELSE Done(w)
  /\ UNCHANGED <<state, rows, deletions>>

\* No transaction holds the lock of a row.
Unlocked(c) == \A v \in Workers : ~(pc[v] = "deleted" /\ char[v] = c)

\* Mutant of LockRow: deleted_at IS NULL is not part of the UPDATE.
LockRowBlindly(w) ==
  /\ pc[w] = "lock"
  /\ Unlocked(char[w])
  /\ Goto(w, "deleted")
  /\ UNCHANGED <<state, rows, user, wanted, char, deletions>>

\* It has the lock and looks at the row again.
LockRow(w) ==
  /\ pc[w] = "lock"
  /\ Unlocked(char[w])
  /\ IF char[w] \in Living(user[w])
     THEN Goto(w, "deleted") /\ UNCHANGED <<user, wanted, char>>
     ELSE Done(w)
  /\ UNCHANGED <<state, rows, deletions>>

\* The commit, then the report of success; when commit() throws after the
\* server has committed, the client is told ERR_CHARACTER_NOT_FOUND.
CommitDelete(w) ==
  /\ pc[w] = "deleted"
  /\ Erase(char[w], "deleted")
  /\ \/ deletions' = [deletions EXCEPT ![char[w]] = @ + 1]
     \/ UNCHANGED deletions
  /\ Done(w)

-----------------------------------------------------------------------------

\* The pool has no connection to give, a statement fails, or the connection
\* breaks before the commit: the server rolls back, the lock is free again.
RollBack(w) ==
  /\ pc[w] # "idle"
  /\ IF pc[w] = "commit" THEN Erase(char[w], "none") ELSE UNCHANGED <<state, rows>>
  /\ Done(w)
  /\ UNCHANGED deletions

Next ==
  \E w \in Workers :
    \/ \E u \in Users, n \in Names : BeginCreate(w, u, n)
    \/ CountSlots(w) \/ CheckName(w) \/ CommitCreate(w)
    \/ \E c \in Ids, k \in 1..(Cardinality(Ids) + 1) : Insert(w, c, k)
    \/ \E u \in Users, c \in Ids : BeginDelete(w, u, c)
    \/ FindRow(w) \/ LockRow(w) \/ CommitDelete(w) \/ RollBack(w)

Spec == Init /\ [][Next]_vars

-----------------------------------------------------------------------------
(***************************************************************************)
(* Properties.                                                             *)
(***************************************************************************)

\* The limit on characters is checked before the insert and nothing guards it
\* afterwards: transactions of one account that overlap may exceed it, by less
\* than there are workers and never by more, whatever is deleted in between.
OvershootIsBounded ==
  \A u \in Users : Cardinality(Living(u)) < MaxChars + Cardinality(Workers)

\* Two living characters share a name, or the place among the characters of
\* their account, only when transactions of different workers overlapped: one
\* worker's creations, one after the other, never collide, whatever was
\* deleted between them.
DoublesFromDistinctWorkers ==
  \A c, d \in Ids :
    /\ state[c] = "alive" /\ state[d] = "alive" /\ c # d
    /\ name[c] = name[d] \/ (of[c] = of[d] /\ slot[c] = slot[d])
    => by[c] # by[d]

\* Of all requests to delete a character, also simultaneous ones, at most one
\* is told that it succeeded, and then the character is gone for good.
DeletedOnce ==
  \A c \in Ids :
    /\ deletions[c] <= 1
    /\ deletions[c] = 1 => state[c] = "deleted"

\* A row that is not committed is nobody's character yet.
LifeOf(c)  == IF state[c] = "new" THEN "none" ELSE state[c]
OwnerOf(c) == IF state[c] = "new" THEN NoUser ELSE of[c]
NameOf(c)  == IF state[c] = "new" THEN NoName ELSE name[c]

DoingOf(w) ==
  CASE pc[w] = "idle"  -> "nothing"
    [] pc[w] = "count" -> "counting"
    [] pc[w] = "name"  -> "naming"
    [] pc[w] \in {"insert", "commit"} -> "creating"
    [] OTHER -> "deleting"

CharOf(w) == IF pc[w] \in Deleting THEN char[w] ELSE NoId

OneStep == INSTANCE Roster WITH
  life  <- [c \in Ids |-> LifeOf(c)],
  owner <- [c \in Ids |-> OwnerOf(c)],
  name  <- [c \in Ids |-> NameOf(c)],
  doing <- [w \in Workers |-> DoingOf(w)],
  char  <- [w \in Workers |-> CharOf(w)],
  told  <- deletions

\* Rows that are inserted and not committed, transactions that are rolled back,
\* and deletions that wait for a lock and look again amount to requests that
\* create or delete in one step: a character is deleted at the request of its
\* own account only, while it lives, and what a transaction gives up was never
\* there.
ImplementsRoster == OneStep!Spec
=============================================================================
