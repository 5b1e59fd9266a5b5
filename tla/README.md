# A verification model of the login server

This directory models the login server of the MMORPG prototype in TLA+, checks
the models with TLC on small instances, and proves what matters most about
them with TLAPS for any number of threads, users, sessions and connections.

    tlc -workers 2 -config MCSessions.cfg MCSessions       # check a run
    tlapm SessionsProofs.tla                               # check proofs

All paths below are those of the repository.

## The system

The server accepts TCP connections, decodes length-prefixed JSON requests, and
answers them from a PostgreSQL database.

| Part | State it keeps | Operations | Runs on |
|---|---|---|---|
| `NetworkManager` (`src/network`) | acceptor, `activeSockets_`, `socketBuffers_`, `writeQueues_` | accept, read, frame, parse, gate the client version, queue and write replies, reap, collect queues | one I/O thread per core |
| `EventQueue` (`src/events`) | a FIFO of events, `stopped_` | push, pushBatch, pop, popBatch, tryPopBatch, stop, drain | pushed by I/O threads, popped by the event loop |
| `LoginServer` (`src/login_server`) | `running_`, the thread pool, the event loop's thread | the event loop: dispatch a batch or, when no event came for an interval, clean up; stop | its own thread |
| `ThreadPool` (`src/utils`) | a FIFO of tasks, `stop` | enqueueTask, the workers' loop, the joining destructor | one worker per core |
| `EventHandler` (`src/events`) | none | one handler for each kind of event | the workers |
| `Authenticator`, `AccountManager` (`src/services`) | rows of `users`, `user_bans`, `user_sessions` | authenticate, registerAccount | the workers |
| `CharacterManager` (`src/services`) | rows of `characters` and their dependents | list, create, delete | the workers |
| `ClientData` (`src/data`) | the map of the sessions that are honoured | store, get, validate, touch, remove, sweep | the workers and the event loop, under a mutex |
| `DatabasePool` (`src/utils`) | five connections, the free slots | acquire, release, reconnect, createWithRetry | the workers and the event loop |
| `VersionStats` (`include/utils`) | how often each client version came | record, snapshot | the I/O threads and the event loop |
| `main` | the objects above | construct, start, poll for a signal, stop | the main thread |

A request goes: I/O thread, `EventQueue`, event loop, `ThreadPool`, a handler
on a worker (which takes a connection of the pool, works in the database and on
`ClientData`), the write queue of its socket, an I/O thread.

What makes it hard:

* Handlers of one client run at the same time on several workers; a request and
  the disconnect that follows it may overtake each other.
* Session state is double: rows in PostgreSQL, hashes in `ClientData`. Each is
  consistent by itself, and nothing orders a change of one with a change of the
  other.
* Transactions run at READ COMMITTED, and the tables have few unique indexes:
  every check that is a query of its own can be overtaken before its insert.
* Two condition variables (`EventQueue`, `DatabasePool`) are notified outside
  of the critical section that changed the predicate.
* Sockets are identified by address in three maps, and addresses come back.
* Any statement may fail, and a commit may fail after it took effect. After a
  restart of the process the rows are there and the map is empty.

## What makes each part correct

| Part | Must hold |
|---|---|
| Sessions | A hash is honoured, or sent to a client, only if its row was committed. More than one active row of a user comes only from logins that overlapped. After a login that overlapped no other, its session is the user's only one, in the table and in the map. A disconnect evicts a session other than its own only if the two overlapped. Every request ends. |
| Accounts | Each wrong password that was committed is counted. The lock is set exactly when the counter says so. Once it has engaged, fewer guesses than there are workers still get through. |
| EventQueue | It is a FIFO: nothing lost, duplicated, reordered. Consumers do not all sleep next to an event. |
| DatabasePool | A connection has one owner, none is lost, and no thread sleeps next to a free one for good. |
| Network | Requests are handed over in order, without bytes of another connection. A socket has one write at a time, and its client receives a front part of the replies. A slot of the client limit is held by a socket with a reader, and given back with it. |
| Characters | Limit, names and places are violated only by overlapping transactions, the limit by a bounded number. One deletion of a character succeeds. |
| ThreadPool | Tasks start in the order they came, each once. No task waits next to a worker that sleeps for good. Its destructor returns when every task has ended. |
| Event loop, shutdown | Requests start in the order they were pushed, through queue, batches and pool. Services outlive the threads that use them, nothing enters the queue after the drain, no client socket outlives its `io_context`. After a signal `main` ends. |
| Version gate | It lets in exactly the versions of the configured range, and says which side of it the others are on. Clients cannot make the map of versions grow without limit. |

## The modules

| Module | Models | Grain of an action |
|---|---|---|
| `Sessions` | session rows and map, handlers for login, registration, list, disconnect; clean-up and sweep of the event loop; restart | one SQL statement, or one critical section of `ClientData` |
| `Accounts` | `authenticate` and `registerAccount` on `users` | one SQL statement |
| `EventQueue` | the queue with its mutex and condition variable | one critical section; look and sleep are separate where `stop()` can come between |
| `DatabasePool` | `acquire`, `release`, `Guard` | what is done under the mutex up to the probe, the probe, the notification |
| `Network` | accept, read, framing, reaping and write queues of all connections | one handler, or one critical section of it |
| `Characters` | creation and deletion of characters | one SQL statement |
| `ThreadPool` | `enqueueTask`, the workers, the joining destructor | one critical section; a notification is a step of its own |
| `LoginServer` | `main` from start to last destructor, I/O threads, event loop, workers | one call, or one critical section of it |
| `VersionGate` | `checkClientVersion`: `parseVersion`, `compareVersions`, `VersionStats` | one attempt |

What these promise to each other and to a client is said by abstract
specifications, in which a decision that takes the code several statements or
critical sections is one step:

| Abstraction | Promises | Implemented by |
|---|---|---|
| `SessionLife` | a hash becomes ready with the commit of its row, is honoured in one period of its life, replaces the one its user had, and is over for good when it ended; a user is sent no hash that is still to be honoured | `Sessions` |
| `LoginPolicy` | a guess is admitted to an open account that is not locked, then charged or cleared, and answered accordingly | `Accounts` |
| `Roster` | a request has seen room and a free name, each at some moment, and creates its character in one step; a deletion finds its character alive and in the account that asks | `Characters` |
| `Fifo` | what is sent is delivered in order, once, in batches of the sizes asked for | `EventQueue`, `ThreadPool` |
| `Leases` | `acquire()` ends with a working connection that nobody has, or throws because none was free or a free one had broken | `DatabasePool` |
| `Conversation` | requests of a connection are taken in order, each is answered at most once, and replies are sent in the order they were made; an address that is used again hears nothing of the earlier connection | `Network` |

`MCx` instantiates `x` for TLC, `xProofs` proves theorems about it;
`LoginServerProofs` does so for `ThreadPool` too. `MCSessions` starts in a state
left by an earlier life of the server: either an account with an active row, or
one whose registration was rolled back after it had drawn a hash.

Each refinement is a property of a run and a theorem. The mappings read the
abstract state off the places of the threads and the rows: a hash whose login
failed after its commit is over, a worker past `recordFailedLogin`'s commit has failed its
guess, a row counts as a character once it is committed, a slot is held
from the return of `acquire()` until `release()`, and the requests
taken of a connection are those handed over. `AnsweredOnce`, `OverForGood`,
`OneLiveHash` with `KnownHashesAreHis`, `NoGuessIsFree`, `NamesAreKept`, `OnlyOwnersDelete` and
`DealtFairly` are consequences of the abstractions; they are proved of the detailed
modules through the mappings.

`LoginServer` composes `ThreadPool` and `EventQueue`: it extends the first, whose
tasks are its events, and instantiates the second, whose consumers are the event
loop and, at the end, `main`. Its own actions say which thread calls which
operation and when, so that the server implements both as specified alone
(`ServerImplementsPool`, `ServerImplementsQueue`) and inherits what was proved
of them.

The other modules are joined by what they leave open: `Sessions` lets a login in
whenever `Accounts` could, a request of `Characters` enters when `Sessions` has
validated its hash, and a job of `Network` is an event of `LoginServer`, whose
handlers take as long as those of the other modules.

State and code correspond as follows; the comment on each variable names the
member or column it stands for.

* **Sessions.** `status`, `owner` are the rows of `user_sessions`, `mem` and
  `age` the map of `ClientData`. A worker's `pc` is the place in its handler.
  A login is `BeginLogin` (the checks passed, a hash is drawn), `StartRevoke`
  (the UPDATE takes its snapshot), `FinishRevoke` (it has the row locks),
  `Commit`/`CommitInDoubt`/`RollBack`, `Store`, `ReplyLogin`. A DELETE of the
  clean-up that waits for a locked row is folded into its commit. A deadlock
  that PostgreSQL resolves is a `RollBack`.
* **Accounts.** `attempts`, `lock`, `active`, `banned` are columns. `base` and
  `held` are what an UPDATE in an open transaction has read and locked.
  Accounts are moderated from outside (`Moderate`).
* **EventQueue.** `pc` tells a consumer that has looked at the predicate from
  one that sleeps. `SpuriousWake` and `Timeout` are always possible, and no
  property relies on them.
* **DatabasePool.** `holder` has the mutex during the probe and the reconnect.
  Time is not modelled: a wait may end whenever its thread sleeps.
* **Network.** A socket is its address. A request is two units of the stream,
  so that a read may cut it; a message is its number. The look-up of a write
  queue and the post to its strand are one step: the sender holds the socket,
  so nobody changes its entry in between. A `close()` between the end of a
  read and its handler commutes with the read. `processMessage`, the event
  queue and the workers are the set `jobs`, answered in any order or not at
  all (a handler whose `acquire()` throws sends nothing).
* **Characters.** Rows that are deleted or rolled back are erased, since no
  query reads them. The inserts into other tables belong to the new row and
  are folded into `Insert`.
* **ThreadPool.** `stop` is set inside a critical section, so that, unlike in
  `EventQueue`, nothing comes between a worker's look at the predicate and its
  sleep. `owed` counts the callers that have enqueued and not notified yet.
* **LoginServer.** `main` executes `Script`, the sequence of its calls and of
  the destructions that the order of declarations implies (`LoginServer.hpp:44-52`,
  the locals of `main.cpp`); `line` is its place. What the event loop does between
  events is `CleanUp`; a handler is a task that runs for a while.
* **VersionGate.** A claim is the key it is counted under and, for each segment
  between dots, what `std::stoi` makes of it, or `Junk` where it throws. `stoi`
  ignores text after a number, and `parseVersion` a fourth segment, so that
  "1.2.3x.4" is 1.2.3. Where a subtraction of two `int`s overflows, `Minus`
  allows the wrapped difference and one with the right sign.

## The runs

| Run | Instance | Shows |
|---|---|---|
| `MCSessions` | 2 workers, 2 users, one of whom registers, 3 hashes, idle at the first tick | safety of sessions, implements `SessionLife`, every request ends |
| `MCAccounts` | 2 workers, 2 ids, 1 name in 2 spellings, counter to 7 | counter, lock, burst, names, implements `LoginPolicy` |
| `MCAccountsLocked` | 2 workers, 1 account | *violated*: a locked account is answered `ERR_ACCOUNT_LOCKED` |
| `MCEventQueue` | 2 consumers, one timed, 4 events | FIFO, no missed push, implements `Fifo`, events are taken |
| `MCEventQueueStop` | as above | *violated*: `stop()` wakes all blocked callers |
| `MCDatabasePool` | 4 threads, 2 slots | exclusive, never lost, claimed, taken, implements `Leases` |
| `MCNetwork` | 2 addresses, 3 queue objects, 2 requests per connection, limit 1 | order, single writer, replies, slots, implements `Conversation` |
| `MCNetworkAccept` | as above | *violated*: the accept handler goes on after an error |
| `MCCharacters` | 2 workers, 2 accounts, 4 ids, 2 names, limit 2 | limit, doubles, deletions, implements `Roster` |
| `MCLoginServer` | 2 workers, 1 I/O thread, 3 events of 2 kinds, batches of 2 | order of requests, lifetimes, the loop is woken, pool implements `Fifo`, shutdown ends |
| `MCLoginServerHandler` | as above | *violated*: "Destructors then run on empties" (`main.cpp:78`) |
| `MCVersionGate` | `int` of 3 bits, 2 keys before overflow, 4 attempts | the range, the size of the map |

Why the bounds are enough. The hazards are overlaps of two requests, one of
them often followed by a third that sees the result: two workers and three
hashes (four ids) give that. `CounterMax` is 7 so that the lock engages at 5,
is overrun, and the counter reaches its limit; `OneTarget` keeps guesses and
bans to one account at a time, because no statement touches two accounts unless
they share a name. Four threads on two slots give two owners and two sleepers.
In `Network`, `Cap` and `Chunk` are small, so that two requests overflow the
buffer and a read may hold one frame and a part of the next; there is one queue
object more than sockets, so that one can be replaced while its old strand
runs; `MaxFrames` 2 suffices for a reply behind another. In `LoginServer` three events
are a full batch and one more behind it, with two workers busy and a task
waiting; the second kind of event tells orders apart. I/O threads do the same
thing, and one of them may push at any time until it has left, which is all the
others could do. In `VersionGate` the numbers include both ends of the `int` and
its middle, and four attempts fill a map of two keys, claim `_other` and one key
more. Sets of threads, ids
and names are symmetric wherever symmetry is declared, and no liveness property
is checked under symmetry.

Fairness. A thread that can take a step takes one (weak fairness of the
progress of a worker, consumer or acquirer): threads are not stopped. A login
that waits for row locks gets them eventually although others come and go
(strong fairness of `FinishRevoke`): PostgreSQL queues lock waiters. In `LoginServer`, `main`, the event loop, each
worker, and an I/O thread whose context was stopped proceed (weak fairness), a
handler ends, and the timed wait of the loop ends when `session_cleanup_ms` are
over (weak fairness of `TimePasses`): since the loop may sleep through `stop()`,
the shutdown does depend on it. Nothing is assumed of other timeouts, spurious
wake-ups, failures, clients, signals, or the clean-up of the event loop, which
steady traffic may put off for ever (`LoginServer.cpp:96` runs it only when no
event came).

Three runs allow deadlock: `MCEventQueue`, where events and `stop()` calls are
used up, `MCLoginServer`, where the process comes to its end, and
`MCVersionGate`, where the attempts are.

What disagrees with the code. Each violated run is a finding in
`PROJECT.json`, with the sentence it contradicts: `ERR_ACCOUNT_LOCKED` is never
answered, as the probe for it opens a second transaction in the first; a
consumer may sleep through `stop()`; a connection that is reset before its
accept handler runs ends the process; `eventHandler_` is destroyed before the
pool whose tasks call it. Conversely, `EveryFailureIsCounted` holds: the write
skew that a comment in `Authenticator.cpp:58-60` fears cannot occur, because an
UPDATE that waited for a row reads it again.

Other disagreements have no run of their own, because an invariant says how far
they go:

* Overlapping logins keep two active rows, although `changelog.md:345` has
  (in Russian) "only one active session per user": `ActiveRowsFromDistinctWorkers`.
* A disconnect that has validated its hash may evict a session stored since,
  although `EventHandler.cpp:413` excludes it: `EvictionsOfOthersHaveOverlapped`.
* Overlapping registrations may take one login, and overlapping creations one
  character name or a character too many: `SameLoginFromDistinctWorkers`,
  `DoublesFromDistinctWorkers`, `OvershootIsBounded`.
* `VersionStats.hpp` promises at most `kMaxDistinct` keys; with the overflow
  bucket the map can hold one more: `KeysAreBounded`.
* `LoginServer.hpp:30` has `stop()` join the worker; it joins nothing
  (`LoginServer.cpp:178-185`), the destructor does, in time for the services:
  `ServicesOutliveTheirUsers`.

And some are out of the models' sight: a caller of `acquire()` may wait longer
than its timeout; a character name of one letter is accepted, although the
comment at `CharacterManager.cpp:125` asks for two; a database failure during a
deletion is answered `ERR_CHARACTER_NOT_FOUND`; a version with a negative number
may overflow an `int` in `compareVersions`, and be let in or not as the build
happens to compute.

## What is proved

For every number of workers, users, hashes, threads, slots, events and names
(`IsFiniteSet` where something is counted):

* `SessionsProofs`: types, `ActiveRowsFromDistinctWorkers`,
  `HonouredSessionsWereCommitted`. The inductive invariant adds what the place
  of a worker says about its hash: drawn by it and not yet a row
  (`DrawnTokens`), or committed (`CommittedTokens`); that the rows an open
  transaction revokes are rows of its user (`PendingRows`); and that every
  older row of the same worker is among those it revokes (`OwnRowsSeen`),
  which makes the new row the worker's only active one. On top of it a second
  invariant, `Overlaps`, proves `SoloLoginIsSoleSession` and
  `EvictionsOfOthersHaveOverlapped`: the active rows of the user of a login that
  overlapped no other are those it is about to revoke, or its own (`SoloRows`),
  and once it has stored its hash no other is in the map (`SoloMap`). A third,
  `Hashes`, proves `ImplementsSessionLife`: a hash that is about to be stored is
  known to nobody else (`FreshHashes`), and whatever hash a worker works with has
  a row unless the worker's own transaction is to insert it (`HashesAtHand`). From
  the abstraction follow `OneLiveHash` with `KnownHashesAreHis`, and
  `OverForGood`. The first and the third also bound the damage of overlapping
  logins: no user has more active rows than there are workers
  (`ActiveRowsAreBounded`).
* `AccountsProofs`: types, `EveryFailureIsCounted`, `LockFollowsCounter`,
  `BurstIsBounded`, `SameLoginFromDistinctWorkers`. What an open transaction
  has read of a row it locks is still the row. The burst is bounded by a
  count: guesses over the lock and workers past the look at it are together
  fewer than the workers. `ImplementsLoginPolicy` needs that a worker that has
  incremented a row has it locked (`Places`), so that the commit charges what
  the guess was about; from the policy follow `NoGuessIsFree` and `NamesAreKept`.
  A login is borne by no more accounts than there are workers
  (`NamesakesAreBounded`), because an account that existed before, made by no
  worker, keeps its login from being inserted again (`OldNamesAreTaken`).
* `EventQueueProofs`: types, `FifoOrder`, `NeverAllAsleepWithWork`, and the
  refinement `ImplementsFifo`, step by step under the mapping of queue and
  history to the channel.
* `DatabasePoolProofs`: types, `SlotsAreExclusive`, `NoSlotIsLost`,
  `FreeSlotsAreClaimed`. `Owners` ties the mutex and the slot of a thread to
  its place; `FreeSlotsAreClaimed` counts the threads on their way to a slot
  against the free slots. The refinement `ImplementsLeases`, and from it
  `DealtFairly`: a connection changes hands only through the free list, and
  nobody is sent away while every free connection works, not even a caller
  whose timeout ends next to one.
* `CharactersProofs`: types, `OvershootIsBounded`, `DoublesFromDistinctWorkers`,
  `DeletedOnce`. None is inductive: the limit needs `Room` (characters of an
  account and workers past its count are together fewer than limit and workers),
  the doubles need what the worker's own rows look like once it has checked
  the name (`OwnNamesDiffer`) and resolved the place (`OwnSlotsPrecede`), and
  the deletion needs that a locked row is alive and has one deleter. The
  refinement `ImplementsRoster` adds what rows are like before their insert and
  whose row a deleter has (`RowsKnown`); from the roster follows
  `OnlyOwnersDelete`. No name and no place of an account is shared by more
  characters than there are workers (`DoublesAreBounded`).
* `NetworkProofs`: types, `FramesInOrder`, `OneWriterPerSocket`,
  `RepliesInOrder`, `NoReplyIsStuck`, `SlotsMatchReaders`. The invariant says
  that the write queue of a live socket is the object its strand's tasks run on
  (`Writers`, `QueueStays`), that what was posted for a socket is, in order,
  written, under way, in its queue or in a task (`Delivered`, `Conserved`), and
  that buffer and stream together continue the requests handed over (`OnTrack`).
  With it `ImplementsConversation` is proved action by action; where a read hands
  over a set of requests, a lemma counts what it adds. `AnsweredOnce` is not inductive
  in the abstraction either: jobs must be requests that were taken (`Worked`).
* `LoginServerProofs`: for `ThreadPool`, types, `TasksAreClaimed`,
  `DestructorDrains`, the refinement `PoolIsFifo`, and that no worker sleeps
  through the destructor (`CloseWakesEveryone`, proved only). For the server,
  types, and that it implements the pool and the queue as specified alone, which
  gives it their properties (`ServerPoolKeepsItsPromises`, `ServerQueueIsFifo`:
  the latter takes the theorems of `EventQueueProofs` over by instantiation,
  with `main`'s drain as the second consumer). From that and an invariant
  that ties the places of the threads to the line of `main` (what is joined
  has ended, what is not yet stopped may run) follow `RequestsStartInOrder`,
  `ServicesOutliveTheirUsers`, `DrainedForGood` (proved only) and
  `SocketsDieFirst`. `LoopHearsOfRequests` is the queue's `NeverAllAsleepWithWork`,
  once `main` is known not to be waiting in the queue while the loop runs
  (`LoopListens`).
* `VersionGateProofs`: types, `KeysAreBounded`, and `GateIsTheRange` for every
  width of `int`: between two versions without negative numbers no subtraction
  overflows.

The assumptions are those of the constants, named `...Assumption` in each
module and evaluated in the runs.

Every safety property of the passing runs is proved, and so is every refinement.
Type correctness is only proved: the proofs need it for all values of the
constants, and a run of it would add nothing. Only model-checked are:

* liveness (`RequestsEnd`, `EventuallyTaken`, `FreeSlotsAreTaken`,
  `ShutdownEnds`), because TLAPS does not reason about ENABLED;
* the four violated properties, of which a run shows a counterexample.

## Not modelled

* Passwords, hashing and the validation of names and e-mail addresses: pure
  functions of their input.
* JSON, timestamps, logging and the texts of responses.
* What only reads tables no handler writes: the preview of equipment and the
  creation options; and the ping, which reads nothing.
* What nobody calls: `selectCharacter`, `updateClientData`,
  `EventQueue::empty`, `VersionStats::clear`.
* What runs once, before there is a second thread: `createWithRetry`, the
  configuration, a start that fails. Also the statistics of `DatabasePool`, and
  `VersionStats::snapshot`, which are only logged.
* Time as a quantity. The pool's mutex is held during a probe, so that a caller
  of `acquire()` may wait longer than its timeout.
* The broadcast of a disconnect, which reaches nobody because no socket is
  stored in the map.
* That a request is answered when the database fails outside a handler's own
  catch (`EventHandler.cpp:234`): it is not, and nothing promises it.
* Vendored libraries, schema scripts and deployment. PostgreSQL, libpqxx, asio
  and the standard library appear as far as `src/` relies on them. (The vendored
  headers are nearly all lines of the repository; of its own sources, the files
  with state are modelled.)

## Plan

Modelled first was what every request depends on: sessions and accounts, then
the queue and the pool of connections, the network, characters, and last the
threads that carry requests and their shutdown. What could follow:

1. The safety half of the liveness properties as theorems: that the measure by
   which a shutdown, or a request, comes to its end decreases in each step of
   the thread that is responsible, so that only fairness is left to TLC.
2. Composition of `Accounts` and `Sessions` over `LoginPolicy` and `SessionLife`:
   a hash is issued only for a guess that was welcome.
3. Composition of `Network` and `LoginServer` over `Conversation` and `Fifo`: the
   jobs of a connection are the events in queue, batch and pool.
4. Liveness of `Network`: a connection that ends is reaped, under fairness of
   its read handlers.
5. `createWithRetry` with the start of the server, and what `main` does when it
   throws.
