------------------------------ MODULE Sessions ------------------------------
(***************************************************************************)
(* The life of a session in the login server: the rows of the table        *)
(* user_sessions, the in-memory map of ClientData, and the worker threads  *)
(* that log users in, list characters for them and disconnect them.        *)
(*                                                                         *)
(* Every action is one critical section of ClientData's mutex or one SQL   *)
(* statement, because this is what the worker threads interleave at.       *)
(* PostgreSQL runs the transactions at READ COMMITTED: an UPDATE sees the  *)
(* rows committed when the statement starts, waits for the row locks of    *)
(* the transactions that already changed them, and then looks again.       *)
(*                                                                         *)
(* The checks that come before a session is created (password, ban, login  *)
(* name) are the subject of module Accounts; here a request that passes    *)
(* them enters at BeginLogin or BeginRegister.                             *)
(***************************************************************************)
EXTENDS Naturals, FiniteSets

CONSTANTS
  Workers,          \* the threads of the pool that run the event handlers
  Users,            \* user ids: those in the table, and those still to come
  InitialUsers,     \* the accounts that exist when the server starts
  Tokens,           \* the session hashes random_generator() can draw
  Ttl,              \* 2 * session_cleanup_ms, in clock ticks
  NoUser, NoToken, NoWorker

ASSUME SessionsAssumption ==
  /\ InitialUsers \subseteq Users
  /\ Ttl \in Nat
  /\ NoUser \notin Users
  /\ NoToken \notin Tokens
  /\ NoWorker \notin Workers

VARIABLES
  accounts,   \* users.id of the committed rows
  ids,        \* users.id drawn from the sequence, committed or not
  status,     \* of a token: not drawn yet, drawn, or the state of its row
  owner,      \* user_sessions.user_id of a token's row
  by,         \* the worker that drew the token (history)
  mem,        \* clientDataMap_[u].hash, NoToken when there is no entry
  age,        \* ticks since clientDataMap_[u].lastSeenMs
  pc,         \* where a worker is in its handler
  user,       \* the user its request is about
  tok,        \* the token it has drawn, was given, or has read
  snap,       \* rows its UPDATE has found, while it waits for their locks
  pend,       \* rows its open transaction has revoked (and holds locked)
  solo,       \* its login has overlapped no other of the same user (history)
  granted,    \* tokens the server has sent to the clients of a user
  loop        \* where the event loop is in its timeout branch

rowVars    == <<accounts, ids, status, owner, by>>
memVars    == <<mem, age>>
txnVars    == <<snap, pend>>
vars == <<accounts, ids, status, owner, by, mem, age, pc, user, tok, snap,
          pend, solo, granted, loop>>

RowStates == {"active", "revoked", "expired", "deleted"}
InTxn     == {"begun", "revoke", "commit", "regbegun", "regrevoke", "regcommit"}
InLogin   == InTxn \union {"store", "reply", "regstore", "regreply"}
PcStates  == InLogin \union {"idle", "touch", "get", "list", "remove"}

TypeOK ==
  /\ accounts \subseteq Users
  /\ ids \subseteq Users
  /\ status \in [Tokens -> RowStates \union {"unused", "drawn"}]
  /\ owner \in [Tokens -> Users \union {NoUser}]
  /\ by \in [Tokens -> Workers \union {NoWorker}]
  /\ mem \in [Users -> Tokens \union {NoToken}]
  /\ age \in [Users -> 0..(Ttl + 1)]
  /\ pc \in [Workers -> PcStates]
  /\ user \in [Workers -> Users \union {NoUser}]
  /\ tok \in [Workers -> Tokens \union {NoToken}]
  /\ snap \in [Workers -> SUBSET Tokens]
  /\ pend \in [Workers -> SUBSET Tokens]
  /\ solo \in [Workers -> BOOLEAN]
  /\ granted \in [Users -> SUBSET Tokens]
  /\ loop \in {"wait", "sweep"}

Init ==
  /\ accounts = InitialUsers
  /\ ids = InitialUsers
  /\ status = [t \in Tokens |-> "unused"]
  /\ owner = [t \in Tokens |-> NoUser]
  /\ by = [t \in Tokens |-> NoWorker]
  /\ mem = [u \in Users |-> NoToken]
  /\ age = [u \in Users |-> 0]
  /\ pc = [w \in Workers |-> "idle"]
  /\ user = [w \in Workers |-> NoUser]
  /\ tok = [w \in Workers |-> NoToken]
  /\ snap = [w \in Workers |-> {}]
  /\ pend = [w \in Workers |-> {}]
  /\ solo = [w \in Workers |-> FALSE]
  /\ granted = [u \in Users |-> {}]
  /\ loop = "wait"

-----------------------------------------------------------------------------
(***************************************************************************)
(* Helpers.                                                                *)
(***************************************************************************)

ActiveRows(u) == {t \in Tokens : status[t] = "active" /\ owner[t] = u}

LoggingIn(u) == {w \in Workers : pc[w] \in InLogin /\ user[w] = u}

Goto(w, where) == pc' = [pc EXCEPT ![w] = where]

\* A worker that is done forgets its request.
Done(w) ==
  /\ Goto(w, "idle")
  /\ user' = [user EXCEPT ![w] = NoUser]
  /\ tok' = [tok EXCEPT ![w] = NoToken]
  /\ solo' = [solo EXCEPT ![w] = FALSE]

-----------------------------------------------------------------------------
(***************************************************************************)
(* Logging in, and registering, which logs in at the end.                  *)
(***************************************************************************)

\* Both draw a hash and open the transaction that will hold the session.
\* The login of a user makes every login of that user it overlaps not solo.
Draw(w, u, t, where) ==
  /\ pc[w] = "idle"
  /\ status[t] = "unused"
  /\ status' = [status EXCEPT ![t] = "drawn"]
  /\ owner' = [owner EXCEPT ![t] = u]
  /\ by' = [by EXCEPT ![t] = w]
  /\ Goto(w, where)
  /\ user' = [user EXCEPT ![w] = u]
  /\ tok' = [tok EXCEPT ![w] = t]
  /\ solo' = [v \in Workers |->
                IF v = w THEN LoggingIn(u) = {}
                ELSE solo[v] /\ v \notin LoggingIn(u)]
  /\ UNCHANGED <<accounts, memVars, txnVars, granted, loop>>

BeginLogin(w, u, t) ==
  /\ u \in accounts
  /\ Draw(w, u, t, "begun")
  /\ UNCHANGED ids

\* register_user takes the next id of the sequence: no id is drawn twice.
BeginRegister(w, u, t) ==
  /\ u \notin ids
  /\ ids' = ids \union {u}
  /\ Draw(w, u, t, "regbegun")

\* Mutant of StartRevoke: the UPDATE filters by the new hash, not by the user.
RevokeByHash(w) ==
  /\ pc[w] \in {"begun", "regbegun"}
  /\ snap' = [snap EXCEPT ![w] = ActiveRows(user[w]) \intersect {tok[w]}]
  /\ Goto(w, IF pc[w] = "begun" THEN "revoke" ELSE "regrevoke")
  /\ UNCHANGED <<rowVars, memVars, pend, user, tok, solo, granted, loop>>

\* The UPDATE of revoke_user_sessions starts: this is the set of rows it sees.
StartRevoke(w) ==
  /\ pc[w] \in {"begun", "regbegun"}
  /\ snap' = [snap EXCEPT ![w] = ActiveRows(user[w])]
  /\ Goto(w, IF pc[w] = "begun" THEN "revoke" ELSE "regrevoke")
  /\ UNCHANGED <<rowVars, memVars, pend, user, tok, solo, granted, loop>>

\* ... it holds their locks, has looked at them again, and has revoked those
\* no other transaction revoked while it was waiting.
FinishRevoke(w) ==
  LET found == {t \in snap[w] : status[t] = "active"} IN
  /\ pc[w] \in {"revoke", "regrevoke"}
  /\ \A v \in Workers \ {w} : pend[v] \intersect found = {}
  /\ pend' = [pend EXCEPT ![w] = found]
  /\ snap' = [snap EXCEPT ![w] = {}]
  /\ Goto(w, IF pc[w] = "revoke" THEN "commit" ELSE "regcommit")
  /\ UNCHANGED <<rowVars, memVars, user, tok, solo, granted, loop>>

\* What becomes visible when the transaction commits: the rows it revoked, the
\* expired rows cleanup_expired_sessions deleted, and the new row.
RowAfterCommit(w, t) ==
  IF t \in pend[w] THEN "revoked"
  ELSE IF t = tok[w] THEN "active"
  ELSE IF status[t] = "expired" THEN "deleted"
  ELSE status[t]

CommitRows(w) ==
  /\ pc[w] \in {"commit", "regcommit"}
  /\ status' = [t \in Tokens |-> RowAfterCommit(w, t)]
  /\ accounts' = accounts \union {user[w]}
  /\ pend' = [pend EXCEPT ![w] = {}]
  /\ UNCHANGED <<ids, owner, by, memVars, snap, granted, loop>>

Commit(w) ==
  /\ CommitRows(w)
  /\ Goto(w, IF pc[w] = "commit" THEN "store" ELSE "regstore")
  /\ UNCHANGED <<user, tok, solo>>

\* The connection breaks after the server has committed and before commit()
\* returns: the handler sees an exception and answers ERR_DB.
CommitInDoubt(w) ==
  /\ CommitRows(w)
  /\ Done(w)

\* Mutants of RollBack: the handler goes on after the exception, or the
\* connection returns to the pool with its transaction open.
RollBackGoesOn(w) ==
  /\ pc[w] \in InTxn
  /\ Goto(w, "store")
  /\ pend' = [pend EXCEPT ![w] = {}]
  /\ snap' = [snap EXCEPT ![w] = {}]
  /\ UNCHANGED <<rowVars, memVars, user, tok, solo, granted, loop>>

RollBackKeepsLocks(w) ==
  /\ pc[w] \in InTxn
  /\ Done(w)
  /\ snap' = [snap EXCEPT ![w] = {}]
  /\ UNCHANGED <<rowVars, memVars, pend, granted, loop>>

\* A statement fails, or the commit does: the transaction is rolled back.
RollBack(w) ==
  /\ pc[w] \in InTxn
  /\ Done(w)
  /\ pend' = [pend EXCEPT ![w] = {}]
  /\ snap' = [snap EXCEPT ![w] = {}]
  /\ UNCHANGED <<rowVars, memVars, granted, loop>>

\* Mutant of Store: emplace, which keeps the entry that is there.
StoreIfAbsent(w) ==
  /\ pc[w] \in {"store", "regstore"}
  /\ mem' = [mem EXCEPT ![user[w]] = IF @ = NoToken THEN tok[w] ELSE @]
  /\ age' = [age EXCEPT ![user[w]] = 0]
  /\ Goto(w, IF pc[w] = "store" THEN "reply" ELSE "regreply")
  /\ UNCHANGED <<rowVars, txnVars, user, tok, solo, granted, loop>>

\* storeClientData overwrites whatever entry the user had.
Store(w) ==
  /\ pc[w] \in {"store", "regstore"}
  /\ mem' = [mem EXCEPT ![user[w]] = tok[w]]
  /\ age' = [age EXCEPT ![user[w]] = 0]
  /\ Goto(w, IF pc[w] = "store" THEN "reply" ELSE "regreply")
  /\ UNCHANGED <<rowVars, txnVars, user, tok, solo, granted, loop>>

\* The reply to a login carries the hash getClientData finds in the map, which
\* need not be the one this login stored, or ERR_INTERNAL if there is none.
ReplyLogin(w) ==
  /\ pc[w] = "reply"
  /\ granted' = [granted EXCEPT ![user[w]] = @ \union ({mem[user[w]]} \ {NoToken})]
  /\ Done(w)
  /\ UNCHANGED <<rowVars, memVars, txnVars, loop>>

\* The reply to a registration carries the hash registerAccount returned.
ReplyRegister(w) ==
  /\ pc[w] = "regreply"
  /\ granted' = [granted EXCEPT ![user[w]] = @ \union {tok[w]}]
  /\ Done(w)
  /\ UNCHANGED <<rowVars, memVars, txnVars, loop>>

-----------------------------------------------------------------------------
(***************************************************************************)
(* Requests that present a hash the server has given out.  One that        *)
(* validateSession refuses changes nothing, and neither do createCharacter *)
(* and deleteCharacter, which validate and then work on other tables.      *)
(***************************************************************************)

\* Mutant of Validate: an entry is enough, whatever its hash is.
ValidateBlindly(w, u, t, where) ==
  /\ pc[w] = "idle"
  /\ t \in granted[u]
  /\ mem[u] # NoToken
  /\ Goto(w, where)
  /\ user' = [user EXCEPT ![w] = u]
  /\ tok' = [tok EXCEPT ![w] = t]
  /\ UNCHANGED <<rowVars, memVars, txnVars, solo, granted, loop>>

\* validateSession(u, t), one critical section, for a handler that goes on.
Validate(w, u, t, where) ==
  /\ pc[w] = "idle"
  /\ t \in granted[u]
  /\ mem[u] = t
  /\ Goto(w, where)
  /\ user' = [user EXCEPT ![w] = u]
  /\ tok' = [tok EXCEPT ![w] = t]
  /\ UNCHANGED <<rowVars, memVars, txnVars, solo, granted, loop>>

BeginList(w, u, t)       == Validate(w, u, t, "touch")
BeginDisconnect(w, u, t) == Validate(w, u, t, "remove")

\* Mutant of Touch: it writes the whole entry back, with the hash validated.
TouchWritesBack(w) ==
  /\ pc[w] = "touch"
  /\ mem' = [mem EXCEPT ![user[w]] = tok[w]]
  /\ age' = [age EXCEPT ![user[w]] = 0]
  /\ Goto(w, "get")
  /\ UNCHANGED <<rowVars, txnVars, user, tok, solo, granted, loop>>

\* touchSession refreshes the entry of the user id, whatever its hash is now.
Touch(w) ==
  /\ pc[w] = "touch"
  /\ age' = [age EXCEPT ![user[w]] = IF mem[user[w]] = NoToken THEN @ ELSE 0]
  /\ Goto(w, "get")
  /\ UNCHANGED <<rowVars, mem, txnVars, user, tok, solo, granted, loop>>

\* getClientData: no entry any more is answered ERR_SESSION_INVALID.
Get(w) ==
  /\ pc[w] = "get"
  /\ IF mem[user[w]] = NoToken
     THEN Done(w)
     ELSE /\ tok' = [tok EXCEPT ![w] = mem[user[w]]]
          /\ Goto(w, "list")
          /\ UNCHANGED <<user, solo>>
  /\ UNCHANGED <<rowVars, memVars, txnVars, granted, loop>>

\* The list is sent with the hash Get has read; when the pool has no
\* connection to give, the exception ends the handler and nothing is sent.
List(w) ==
  /\ pc[w] = "list"
  /\ \/ granted' = [granted EXCEPT ![user[w]] = @ \union {tok[w]}]
     \/ UNCHANGED granted
  /\ Done(w)
  /\ UNCHANGED <<rowVars, memVars, txnVars, loop>>

\* removeClientData erases the entry of the user id, whatever its hash is now.
\* The broadcast that follows goes to the sockets of the entries of the map.
\* Neither authenticate nor registerAccount stores a socket: nobody gets it.
Remove(w) ==
  /\ pc[w] = "remove"
  /\ mem' = [mem EXCEPT ![user[w]] = NoToken]
  /\ Done(w)
  /\ UNCHANGED <<rowVars, age, txnVars, granted, loop>>

-----------------------------------------------------------------------------
(***************************************************************************)
(* The event loop, which cleans up when no event came for an interval.     *)
(***************************************************************************)

\* cleanup_expired_sessions; a failure is logged and the sweep goes on.
CleanupRows ==
  /\ loop = "wait"
  /\ loop' = "sweep"
  /\ \/ status' = [t \in Tokens |->
                     IF status[t] = "expired" THEN "deleted" ELSE status[t]]
     \/ UNCHANGED status
  /\ UNCHANGED <<accounts, ids, owner, by, memVars, txnVars, pc, user, tok,
                 solo, granted>>

Idle(u) == mem[u] # NoToken /\ age[u] > Ttl

SweepSessions ==
  /\ loop = "sweep"
  /\ loop' = "wait"
  /\ mem' = [u \in Users |-> IF Idle(u) THEN NoToken ELSE mem[u]]
  /\ UNCHANGED <<rowVars, age, txnVars, pc, user, tok, solo, granted>>

-----------------------------------------------------------------------------
(***************************************************************************)
(* The environment: time passes, and the server is restarted.              *)
(***************************************************************************)

\* A clock tick; an age beyond Ttl + 1 tells sweepExpiredSessions nothing new.
Tick ==
  /\ age' = [u \in Users |-> IF mem[u] # NoToken /\ age[u] <= Ttl
                             THEN age[u] + 1 ELSE age[u]]
  /\ UNCHANGED <<rowVars, mem, txnVars, pc, user, tok, solo, granted, loop>>

\* A row reaches expires_at, 30 days after it was made.  A transaction keeps
\* the now() of its start, so the rows it works on do not expire under it.
Expire(t) ==
  /\ status[t] = "active"
  /\ \A w \in Workers : t \notin snap[w] \union pend[w]
  /\ status' = [status EXCEPT ![t] = "expired"]
  /\ UNCHANGED <<accounts, ids, owner, by, memVars, txnVars, pc, user, tok,
                 solo, granted, loop>>

\* The process dies and comes back: its map is empty, the transactions it had
\* open are rolled back, and the rows that were committed are still there.
Restart ==
  /\ mem' = [u \in Users |-> NoToken]
  /\ age' = [u \in Users |-> 0]
  /\ pc' = [w \in Workers |-> "idle"]
  /\ user' = [w \in Workers |-> NoUser]
  /\ tok' = [w \in Workers |-> NoToken]
  /\ snap' = [w \in Workers |-> {}]
  /\ pend' = [w \in Workers |-> {}]
  /\ solo' = [w \in Workers |-> FALSE]
  /\ loop' = "wait"
  /\ UNCHANGED <<rowVars, granted>>

-----------------------------------------------------------------------------

\* What a worker does once it has a request, if nothing fails.
Progress(w) ==
  \/ StartRevoke(w) \/ FinishRevoke(w) \/ Commit(w) \/ Store(w)
  \/ ReplyLogin(w) \/ ReplyRegister(w)
  \/ Touch(w) \/ Get(w) \/ List(w) \/ Remove(w)

Step(w) == Progress(w) \/ CommitInDoubt(w) \/ RollBack(w)

Begin(w, u, t) ==
  \/ BeginLogin(w, u, t) \/ BeginRegister(w, u, t)
  \/ BeginList(w, u, t) \/ BeginDisconnect(w, u, t)

Next ==
  \/ \E w \in Workers : Step(w)
  \/ \E w \in Workers, u \in Users, t \in Tokens : Begin(w, u, t)
  \/ CleanupRows
  \/ SweepSessions
  \/ Tick
  \/ \E t \in Tokens : Expire(t)
  \/ Restart

Spec == Init /\ [][Next]_vars

\* The pool's threads run what they have picked up.  PostgreSQL queues those
\* that wait for a row's lock, hence strong fairness for the UPDATE.  Nothing
\* is assumed about failures, requests, the clock or restarts.
FairSpec ==
  /\ Spec
  /\ \A w \in Workers : WF_vars(Progress(w)) /\ SF_vars(FinishRevoke(w))

-----------------------------------------------------------------------------
(***************************************************************************)
(* Properties.                                                             *)
(***************************************************************************)

\* Every active row of a user was inserted by another worker thread.  Each
\* login revokes all rows it can see, so the rows a user can hold active at a
\* time are at most the logins that ran at the same time: one per worker.
\* (revoke_user_sessions in Authenticator.cpp and AccountManager.cpp.)
ActiveRowsFromDistinctWorkers ==
  \A t1, t2 \in Tokens :
    /\ status[t1] = "active" /\ status[t2] = "active"
    /\ owner[t1] = owner[t2] /\ t1 # t2
    => by[t1] # by[t2]

\* A hash the server honours in memory, or has sent to a client, belongs to
\* that user and was committed to user_sessions first: a rolled back login
\* leaves nothing behind (storeClientData comes after commit).
HonouredSessionsWereCommitted ==
  \A u \in Users, t \in Tokens :
    mem[u] = t \/ t \in granted[u] => owner[t] = u /\ status[t] \in RowStates

\* A login that overlaps no other login of its user leaves that user exactly
\* one session when it answers: its row is the only one not revoked, and the
\* map holds its hash, or nothing if the entry has been removed meanwhile.
SoloLoginIsSoleSession ==
  \A w \in Workers :
    pc[w] = "reply" /\ solo[w] =>
      /\ ActiveRows(user[w]) \subseteq {tok[w]}
      /\ mem[user[w]] \in {tok[w], NoToken}

\* A disconnect that evicts another session than the one it presented evicts
\* one that a login stored meanwhile, on another worker: a client that waits
\* for its answers loses no session but the one it ends ("must not evict
\* someone else's live session", handleDisconnectClientEvent).
EvictionsOfOthersHaveOverlapped ==
  \A w \in Workers :
    pc[w] = "remove" /\ mem[user[w]] \notin {tok[w], NoToken} =>
      by[mem[user[w]]] # w

\* Every request a worker has picked up comes to an end: no login waits for
\* ever for rows that other logins have locked.
RequestsEnd == \A w \in Workers : pc[w] # "idle" ~> pc[w] = "idle"

\* The hashes of logins that have committed and not yet stored them.
AboutToStore == {tok[w] : w \in {v \in Workers : pc[v] \in {"store", "regstore"}}}

LifeOf(t) ==
  IF status[t] \notin RowStates THEN "new"
  ELSE IF mem[owner[t]] = t THEN "live"
  ELSE IF t \in AboutToStore THEN "ready"
  ELSE "over"

UserOf(t) == IF status[t] \in RowStates THEN owner[t] ELSE NoUser

HashLife == INSTANCE SessionLife WITH
  life <- [t \in Tokens |-> LifeOf(t)],
  user <- [t \in Tokens |-> UserOf(t)],
  known <- granted

\* A hash is honoured for one stretch of time, which begins with the login
\* that drew it, after its row was committed; whatever ends it (a later login,
\* a disconnect, the sweep, a restart), nothing brings it back: neither a
\* request that had validated it (validateSession, then touchSession) nor a
\* login that is late with its storeClientData.
ImplementsSessionLife == HashLife!Spec
=============================================================================
