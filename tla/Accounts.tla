------------------------------ MODULE Accounts ------------------------------
(***************************************************************************)
(* What a login does before it gets a session, and what a registration     *)
(* does to the table users: the count of wrong passwords, the lock it      *)
(* engages, bans, and the uniqueness of login names.                       *)
(*                                                                         *)
(* Every action is one SQL statement, or one commit, of a worker thread.   *)
(* PostgreSQL runs the transactions at READ COMMITTED: a statement sees    *)
(* what was committed when it starts; an UPDATE waits for the transactions *)
(* that hold the rows it is to change, and then changes their latest       *)
(* version.  No index of users makes logins unique.                        *)
(*                                                                         *)
(* A login that succeeds here goes on in module Sessions (BeginLogin), and *)
(* so does a registration (BeginRegister), with a row of user_sessions.    *)
(***************************************************************************)
EXTENDS Naturals, FiniteSets

CONSTANTS
  Workers,        \* the threads of the pool that run the event handlers
  Users,          \* user ids: those in the table, and those still to come
  InitialUsers,   \* the accounts that exist when the server starts
  Names,          \* login names, in lower case
  Spellings,      \* ... and the ways to spell one
  CounterMax,     \* the largest smallint
  NoUser, NoWorker, NoLogin

Logins    == Names \X Spellings
Lower(l)  == l[1]
LockLimit == 5

ASSUME AccountsAssumption ==
  /\ IsFiniteSet(Workers) /\ Workers # {}
  /\ InitialUsers \subseteq Users
  /\ CounterMax \in Nat
  /\ NoUser \notin Users
  /\ NoWorker \notin Workers
  /\ NoLogin \notin Logins

VARIABLES
  name,       \* users.login, NoLogin for an id that has no row
  attempts,   \* users.failed_login_attempts
  lock,       \* users.locked_until: NULL, in the future, or past
  active,     \* users.is_active
  banned,     \* there is a ban in force in user_bans
  pc,         \* where a worker is in its handler
  login,      \* the login its request names
  found,      \* the user id its SELECT or INSERT returned
  base,       \* the counters its UPDATE has read
  held,       \* the rows its transaction has changed, and holds locked
  answer,     \* what it is going to reply
  refused,    \* why its SELECT found no row (history)
  failures,   \* wrong passwords committed since the last reset (history)
  over,       \* ... and those since the lock engaged (history)
  madeBy      \* the worker that inserted a row (history)

userRows == <<name, attempts, lock, active, banned>>
request  == <<login, found, refused>>
txn      == <<base, held>>
history  == <<failures, over, madeBy>>
vars == <<name, attempts, lock, active, banned, pc, login, found, base, held,
          answer, refused, failures, over, madeBy>>

PcStates == {"idle", "search", "probe", "verify", "increment", "incremented",
             "reset", "wasreset", "ban", "check", "insert", "inserted", "reply"}
Answers  == {"none", "OK", "INVALID_CREDENTIALS", "ERR_ACCOUNT_LOCKED",
             "ERR_ACCOUNT_BANNED", "ERR_DB", "ERR_LOGIN_TAKEN",
             "ERR_REGISTER_FAILED", "ERR_INTERNAL"}

TypeOK ==
  /\ name \in [Users -> Logins \union {NoLogin}]
  /\ attempts \in [Users -> 0..CounterMax]
  /\ lock \in [Users -> {"none", "live", "expired"}]
  /\ active \in [Users -> BOOLEAN]
  /\ banned \in [Users -> BOOLEAN]
  /\ pc \in [Workers -> PcStates]
  /\ login \in [Workers -> Logins \union {NoLogin}]
  /\ found \in [Workers -> Users \union {NoUser}]
  /\ base \in [Workers -> [Users -> 0..CounterMax]]
  /\ held \in [Workers -> SUBSET Users]
  /\ answer \in [Workers -> Answers]
  /\ refused \in [Workers -> {"no", "unknown", "locked", "inactive"}]
  /\ failures \in [Users -> Nat]
  /\ over \in [Users -> Nat]
  /\ madeBy \in [Users -> Workers \union {NoWorker}]

Rows(l) == {u \in Users : name[u] = l}

Unique(u) == name[u] # NoLogin /\ Rows(name[u]) = {u}

Init ==
  /\ name \in [Users -> Logins \union {NoLogin}]
  /\ \A u \in Users : name[u] # NoLogin <=> u \in InitialUsers
  /\ \A u, v \in InitialUsers : Lower(name[u]) = Lower(name[v]) => u = v
  /\ attempts = [u \in Users |-> 0]
  /\ lock = [u \in Users |-> "none"]
  /\ active = [u \in Users |-> TRUE]
  /\ banned = [u \in Users |-> FALSE]
  /\ pc = [w \in Workers |-> "idle"]
  /\ login = [w \in Workers |-> NoLogin]
  /\ found = [w \in Workers |-> NoUser]
  /\ base = [w \in Workers |-> [u \in Users |-> 0]]
  /\ held = [w \in Workers |-> {}]
  /\ answer = [w \in Workers |-> "none"]
  /\ refused = [w \in Workers |-> "no"]
  /\ failures = [u \in Users |-> 0]
  /\ over = [u \in Users |-> 0]
  /\ madeBy = [u \in Users |-> NoWorker]

-----------------------------------------------------------------------------

Goto(w, where) == pc' = [pc EXCEPT ![w] = where]

Reply(w, what) ==
  /\ Goto(w, "reply")
  /\ answer' = [answer EXCEPT ![w] = what]

\* A transaction that changed rows keeps them locked; this one has ended.
EndTxn(w) ==
  /\ base' = [base EXCEPT ![w] = [u \in Users |-> 0]]
  /\ held' = [held EXCEPT ![w] = {}]

\* The request and what was found for it are forgotten with the reply.
Replied(w) ==
  /\ pc[w] = "reply"
  /\ Goto(w, "idle")
  /\ answer' = [answer EXCEPT ![w] = "none"]
  /\ login' = [login EXCEPT ![w] = NoLogin]
  /\ found' = [found EXCEPT ![w] = NoUser]
  /\ refused' = [refused EXCEPT ![w] = "no"]
  /\ UNCHANGED <<userRows, txn, history>>

Begin(w, l, where) ==
  /\ pc[w] = "idle"
  /\ Goto(w, where)
  /\ login' = [login EXCEPT ![w] = l]
  /\ UNCHANGED <<userRows, found, refused, txn, answer, history>>

-----------------------------------------------------------------------------
(***************************************************************************)
(* Authenticator::authenticate, up to the session.                         *)
(***************************************************************************)

\* Mutant of Visible: the query does not look at locked_until.
VisibleIfActive(u) == active[u]

\* search_user sees no locked and no inactive account.
Visible(u) == active[u] /\ lock[u] # "live"

Search(w) ==
  LET rows == Rows(login[w]) IN
  /\ pc[w] = "search"
  /\ \/ \E u \in rows :
          /\ Visible(u)
          /\ found' = [found EXCEPT ![w] = u]
          /\ Goto(w, "verify")
          /\ UNCHANGED refused
     \/ /\ \A u \in rows : ~Visible(u)
        /\ refused' = [refused EXCEPT ![w] =
             IF rows = {} THEN "unknown"
             ELSE IF \E u \in rows : lock[u] = "live" THEN "locked" ELSE "inactive"]
        /\ Goto(w, "probe")
        /\ UNCHANGED found
  /\ UNCHANGED <<userRows, login, txn, answer, history>>

\* The probe that would tell a locked account opens a second transaction on a
\* connection whose first one is still open: libpqxx throws a usage_error, the
\* handler catches it and keeps the status it has set before.
Probe(w) ==
  /\ pc[w] = "probe"
  /\ Reply(w, "INVALID_CREDENTIALS")
  /\ UNCHANGED <<userRows, request, txn, history>>

\* The password is the one of the row that was found, or it is not.
Verify(w) ==
  /\ pc[w] = "verify"
  /\ \E where \in {"increment", "reset"} : Goto(w, where)
  /\ UNCHANGED <<userRows, request, txn, answer, history>>

\* An UPDATE gets the rows it is to change when no other transaction holds one
\* of them, and computes the new counters from their latest version.
Update(w, rows, where) ==
  /\ \A v \in Workers \ {w} : held[v] \intersect rows = {}
  /\ held' = [held EXCEPT ![w] = rows]
  /\ base' = [base EXCEPT ![w] = attempts]
  /\ Goto(w, where)
  /\ UNCHANGED <<userRows, request, answer, history>>

\* Mutant of Increment: the counter is read without waiting for the row, and
\* written later.
IncrementStale(w) ==
  /\ pc[w] = "increment"
  /\ \A u \in Rows(login[w]) : attempts[u] < CounterMax
  /\ held' = [held EXCEPT ![w] = Rows(login[w])]
  /\ base' = [base EXCEPT ![w] = attempts]
  /\ Goto(w, "incremented")
  /\ UNCHANGED <<userRows, request, answer, history>>

\* increment_failed_logins changes all rows of the login.  The counter is a
\* smallint: at its limit the statement fails, and only RollBack is possible.
Increment(w) ==
  /\ pc[w] = "increment"
  /\ \A u \in Rows(login[w]) : attempts[u] < CounterMax
  /\ Update(w, Rows(login[w]), "incremented")

CommitIncrement(w) ==
  /\ pc[w] = "incremented"
  /\ attempts' = [u \in Users |->
       IF u \in held[w] THEN base[w][u] + 1 ELSE attempts[u]]
  /\ lock' = [u \in Users |->
       IF u \in held[w] /\ base[w][u] + 1 >= LockLimit THEN "live" ELSE lock[u]]
  /\ failures' = [u \in Users |->
       IF u \in held[w] THEN failures[u] + 1 ELSE failures[u]]
  /\ over' = [u \in Users |->
       IF u \notin held[w] THEN over[u]
       ELSE IF lock[u] = "live" THEN over[u] + 1 ELSE 0]
  /\ EndTxn(w)
  /\ \E what \in {"INVALID_CREDENTIALS", "ERR_DB"} : Reply(w, what)
  /\ UNCHANGED <<name, active, banned, request, madeBy>>

\* reset_failed_logins changes the row that was found, by its id.
Reset(w) ==
  /\ pc[w] = "reset"
  /\ Update(w, {found[w]}, "wasreset")

\* Mutant of CommitReset: locked_until is not cleared.
CommitResetCounter(w) ==
  /\ pc[w] = "wasreset"
  /\ attempts' = [attempts EXCEPT ![found[w]] = 0]
  /\ failures' = [failures EXCEPT ![found[w]] = 0]
  /\ over' = [over EXCEPT ![found[w]] = 0]
  /\ EndTxn(w)
  /\ Goto(w, "ban")
  /\ UNCHANGED <<name, lock, active, banned, request, answer, madeBy>>

CommitReset(w) ==
  /\ pc[w] = "wasreset"
  /\ attempts' = [attempts EXCEPT ![found[w]] = 0]
  /\ lock' = [lock EXCEPT ![found[w]] = "none"]
  /\ failures' = [failures EXCEPT ![found[w]] = 0]
  /\ over' = [over EXCEPT ![found[w]] = 0]
  /\ EndTxn(w)
  /\ \/ Goto(w, "ban") /\ UNCHANGED answer
     \/ Reply(w, "ERR_DB")
  /\ UNCHANGED <<name, active, banned, request, madeBy>>

\* check_active_ban, in a transaction of its own, once the password was right.
CheckBan(w) ==
  /\ pc[w] = "ban"
  /\ Reply(w, IF banned[found[w]] THEN "ERR_ACCOUNT_BANNED" ELSE "OK")
  /\ UNCHANGED <<userRows, request, txn, history>>

-----------------------------------------------------------------------------
(***************************************************************************)
(* AccountManager::registerAccount, but for the session.                   *)
(***************************************************************************)

\* Mutant of CheckLogin: the query compares the logins as they are spelt.
CheckExactLogin(w) ==
  /\ pc[w] = "check"
  /\ IF Rows(login[w]) # {}
     THEN Reply(w, "ERR_LOGIN_TAKEN")
     ELSE Goto(w, "insert") /\ UNCHANGED answer
  /\ UNCHANGED <<userRows, request, txn, history>>

\* check_login_available, in a transaction of its own.
CheckLogin(w) ==
  /\ pc[w] = "check"
  /\ IF \E u \in Users : name[u] # NoLogin /\ Lower(name[u]) = Lower(login[w])
     THEN Reply(w, "ERR_LOGIN_TAKEN")
     ELSE Goto(w, "insert") /\ UNCHANGED answer
  /\ UNCHANGED <<userRows, request, txn, history>>

\* register_user takes an id no row and no open transaction has; nothing makes
\* it wait or fail ...
Insert(w, u) ==
  /\ pc[w] = "insert"
  /\ name[u] = NoLogin /\ \A v \in Workers : found[v] # u
  /\ found' = [found EXCEPT ![w] = u]
  /\ Goto(w, "inserted")
  /\ UNCHANGED <<userRows, login, refused, txn, answer, history>>

\* ... and nobody sees the row before the commit.
CommitInsert(w) ==
  /\ pc[w] = "inserted"
  /\ name' = [name EXCEPT ![found[w]] = login[w]]
  /\ madeBy' = [madeBy EXCEPT ![found[w]] = w]
  /\ \E what \in {"OK", "ERR_REGISTER_FAILED"} : Reply(w, what)
  /\ UNCHANGED <<attempts, lock, active, banned, request, txn, failures, over>>

-----------------------------------------------------------------------------
(***************************************************************************)
(* Failures, the clock, and the game masters.                              *)
(***************************************************************************)

\* A statement or a commit fails and the transaction is rolled back, or the
\* pool has no connection to give in the first place: the handler says so.
InLogin == {"search", "probe", "verify", "increment", "incremented", "reset",
            "wasreset", "ban"}
InRegister == {"check", "insert", "inserted"}

\* Mutant of RollBack: the catch of a login leaves the status that was set last.
RollBackKeepsStatus(w) ==
  /\ \/ pc[w] \in InLogin /\ Reply(w, "INVALID_CREDENTIALS")
     \/ pc[w] \in InRegister /\ Reply(w, "ERR_REGISTER_FAILED")
     \/ pc[w] = "check" /\ Reply(w, "ERR_INTERNAL")
  /\ EndTxn(w)
  /\ UNCHANGED <<userRows, request, history>>

RollBack(w) ==
  /\ \/ pc[w] \in InLogin /\ Reply(w, "ERR_DB")
     \/ pc[w] \in InRegister /\ Reply(w, "ERR_REGISTER_FAILED")
     \/ pc[w] = "check" /\ Reply(w, "ERR_INTERNAL")
  /\ EndTxn(w)
  /\ UNCHANGED <<userRows, request, history>>

\* locked_until passes.
Expire(u) ==
  /\ lock[u] = "live"
  /\ lock' = [lock EXCEPT ![u] = "expired"]
  /\ UNCHANGED <<name, attempts, active, banned, pc, request, txn, answer, history>>

\* An account is closed or opened, or a ban is made or lifted, in the database.
Moderate(u) ==
  /\ name[u] # NoLogin
  /\ \/ active' = [active EXCEPT ![u] = ~@] /\ UNCHANGED banned
     \/ banned' = [banned EXCEPT ![u] = ~@] /\ UNCHANGED active
  /\ UNCHANGED <<name, attempts, lock, pc, request, txn, answer, history>>

-----------------------------------------------------------------------------

Step(w) ==
  \/ Search(w) \/ Probe(w) \/ Verify(w) \/ Increment(w) \/ CommitIncrement(w)
  \/ Reset(w) \/ CommitReset(w) \/ CheckBan(w)
  \/ CheckLogin(w) \/ (\E u \in Users : Insert(w, u)) \/ CommitInsert(w)
  \/ RollBack(w) \/ Replied(w)

Next ==
  \/ \E w \in Workers : Step(w)
  \/ \E w \in Workers, l \in Logins : Begin(w, l, "search") \/ Begin(w, l, "check")
  \/ \E u \in Users : Expire(u) \/ Moderate(u)

Spec == Init /\ [][Next]_vars

-----------------------------------------------------------------------------
(***************************************************************************)
(* Properties.                                                             *)
(***************************************************************************)

\* Every wrong password that was committed since the last login is counted,
\* however many workers count at the same time: a burst loses no failure, as
\* the comment on increment_failed_logins in Authenticator.cpp fears it may.
EveryFailureIsCounted ==
  \A u \in Users : attempts[u] = failures[u]

\* The lock and the counter agree: an account has a locked_until exactly when
\* the limit is reached, so no reset forgets one of them.
LockFollowsCounter ==
  \A u \in Users : attempts[u] >= LockLimit <=> lock[u] # "none"

\* A lock that has engaged lets pass only the guesses that were under way: at
\* most one for each other worker, as long as no other account has the login.
BurstIsBounded ==
  \A u \in Users : Unique(u) => over[u] < Cardinality(Workers)

\* Accounts whose logins differ at most in case were inserted by different
\* workers: a name can be taken twice only by registrations that overlap.
SameLoginFromDistinctWorkers ==
  \A u, v \in Users :
    /\ name[u] # NoLogin /\ name[v] # NoLogin
    /\ Lower(name[u]) = Lower(name[v]) /\ u # v
    => madeBy[u] # madeBy[v]

\* ERR_ACCOUNT_LOCKED: "too many failed logins, account temporarily locked"
\* (login-server-api.md).  A login refused for that reason is told so.
LockedIsReported ==
  \A w \in Workers :
    pc[w] = "reply" /\ refused[w] = "locked" /\ answer[w] # "ERR_DB" =>
      answer[w] = "ERR_ACCOUNT_LOCKED"

\* What a worker has decided on the guess it serves: a commit decides it, and
\* a failure of any kind leaves it undecided.
StageOf(w) ==
  CASE pc[w] \in {"verify", "increment", "incremented", "reset", "wasreset"} -> "admitted"
    [] pc[w] = "ban" -> "passed"
    [] pc[w] = "reply" /\ answer[w] = "OK" -> "welcome"
    [] pc[w] = "reply" /\ answer[w] = "ERR_ACCOUNT_BANNED" -> "banned"
    [] pc[w] = "reply" /\ answer[w] = "INVALID_CREDENTIALS" /\ found[w] # NoUser -> "failed"
    [] OTHER -> "none"

TargetOf(w) == IF StageOf(w) = "none" THEN NoUser ELSE found[w]

Policy == INSTANCE LoginPolicy WITH
  Limit <- LockLimit, Largest <- CounterMax,
  count <- attempts,
  stage <- [w \in Workers |-> StageOf(w)],
  whose <- [w \in Workers |-> TargetOf(w)]

\* A login is refused, charged or let in as if its reading, verifying, waiting
\* and writing were one step each, on rows that nobody else changes: an answer
\* that calls a password wrong, or right, follows a commit that counted it, or
\* reset the counter and the lock.
ImplementsLoginPolicy == Policy!Spec
=============================================================================
