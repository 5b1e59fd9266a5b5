--------------------------- MODULE SessionsProofs ---------------------------
(***************************************************************************)
(* Proofs about Sessions: for any number of workers, users and hashes, a   *)
(* user never has two active rows inserted by the same worker, and no hash *)
(* is honoured or handed out whose row was not committed.  Together they   *)
(* carry the refinement of SessionLife.                                    *)
(***************************************************************************)
EXTENDS Sessions, FiniteSetTheorems, TLAPS

\* The transaction of a worker owns a hash it has drawn itself.
DrawnTokens ==
  \A w \in Workers :
    pc[w] \in InTxn =>
      /\ user[w] \in Users /\ tok[w] \in Tokens
      /\ status[tok[w]] = "drawn"
      /\ owner[tok[w]] = user[w] /\ by[tok[w]] = w

\* After the commit, and in a listing, the hash at hand has a committed row.
CommittedTokens ==
  \A w \in Workers :
    pc[w] \in {"store", "reply", "regstore", "regreply", "list"} =>
      /\ user[w] \in Users /\ tok[w] \in Tokens
      /\ status[tok[w]] \in RowStates
      /\ owner[tok[w]] = user[w]

\* A transaction only ever has committed rows to revoke.
PendingRows ==
  \A w \in Workers : \A t \in pend[w] : status[t] \in RowStates

\* No row the worker inserted earlier escapes the UPDATE of its transaction:
\* only the worker itself could make another one, and it is busy here.
OwnRowsSeen ==
  \A w \in Workers, t \in Tokens :
    status[t] = "active" /\ by[t] = w /\ owner[t] = user[w] =>
      /\ pc[w] \in {"revoke", "regrevoke"} => t \in snap[w]
      /\ pc[w] \in {"commit", "regcommit"} => t \in pend[w]

\* A busy worker has a user.
BusyWorkers == \A w \in Workers : pc[w] # "idle" => user[w] \in Users

IInv ==
  /\ TypeOK
  /\ BusyWorkers
  /\ DrawnTokens
  /\ CommittedTokens
  /\ PendingRows
  /\ OwnRowsSeen
  /\ ActiveRowsFromDistinctWorkers
  /\ HonouredSessionsWereCommitted

-----------------------------------------------------------------------------

LEMMA InitIInv == Init => IInv
  BY SessionsAssumption
  DEF Init, IInv, TypeOK, BusyWorkers, DrawnTokens, CommittedTokens, PendingRows, OwnRowsSeen,
      ActiveRowsFromDistinctWorkers, HonouredSessionsWereCommitted, PcStates,
      InLogin, InTxn, RowStates

LEMMA DrawIInv ==
  ASSUME IInv, NEW w \in Workers, NEW u \in Users, NEW t \in Tokens,
         NEW where \in {"begun", "regbegun"},
         ids' \subseteq Users, Draw(w, u, t, where)
  PROVE  IInv'
<1> USE DEF RowStates, InTxn, IInv, Draw, Goto, memVars, txnVars
<1>1. TypeOK'
  BY SessionsAssumption DEF TypeOK, PcStates, InLogin
<1>2. BusyWorkers' /\ DrawnTokens'
  BY DEF TypeOK, BusyWorkers, DrawnTokens
<1>3. CommittedTokens'
  BY DEF TypeOK, CommittedTokens
<1>4. PendingRows'
  BY DEF TypeOK, PendingRows
<1>5. OwnRowsSeen'
  BY DEF TypeOK, OwnRowsSeen
<1>6. ActiveRowsFromDistinctWorkers'
  BY DEF TypeOK, ActiveRowsFromDistinctWorkers
<1>7. HonouredSessionsWereCommitted'
  BY DEF TypeOK, HonouredSessionsWereCommitted
<1>. QED BY <1>1, <1>2, <1>3, <1>4, <1>5, <1>6, <1>7

\* The two statements of the transaction before its commit.
LEMMA RevokeIInv ==
  ASSUME IInv, NEW w \in Workers, StartRevoke(w) \/ FinishRevoke(w)
  PROVE  IInv'
<1> USE DEF RowStates, InTxn, IInv, Goto, rowVars, memVars
<1>1. CASE StartRevoke(w)
  <2> USE <1>1 DEF StartRevoke, ActiveRows
  <2>1. TypeOK'
    BY DEF TypeOK, PcStates, InLogin
  <2>2. BusyWorkers' /\ DrawnTokens' /\ CommittedTokens' /\ PendingRows'
    BY DEF TypeOK, BusyWorkers, DrawnTokens, CommittedTokens, PendingRows
  <2>3. OwnRowsSeen'
    BY DEF TypeOK, OwnRowsSeen
  <2>4. ActiveRowsFromDistinctWorkers' /\ HonouredSessionsWereCommitted'
    BY DEF ActiveRowsFromDistinctWorkers, HonouredSessionsWereCommitted
  <2>. QED BY <2>1, <2>2, <2>3, <2>4
<1>2. CASE FinishRevoke(w)
  <2> USE <1>2 DEF FinishRevoke
  <2>1. TypeOK'
    BY DEF TypeOK, PcStates, InLogin
  <2>2. BusyWorkers' /\ DrawnTokens' /\ CommittedTokens' /\ PendingRows'
    BY DEF TypeOK, BusyWorkers, DrawnTokens, CommittedTokens, PendingRows
  <2>3. OwnRowsSeen'
    BY DEF TypeOK, OwnRowsSeen
  <2>4. ActiveRowsFromDistinctWorkers' /\ HonouredSessionsWereCommitted'
    BY DEF ActiveRowsFromDistinctWorkers, HonouredSessionsWereCommitted
  <2>. QED BY <2>1, <2>2, <2>3, <2>4
<1>. QED BY <1>1, <1>2

\* The commit, whatever the handler does next: the rows of the user that the
\* worker inserted before are among those it revokes, so its new row is the
\* only active one it has inserted.
LEMMA CommitIInv ==
  ASSUME IInv, NEW w \in Workers, Commit(w) \/ CommitInDoubt(w)
  PROVE  IInv'
<1> USE DEF RowStates, InTxn, IInv, CommitRows, RowAfterCommit, Goto, Done, memVars
<1>1. /\ CommitRows(w)
      /\ pc' \in {[pc EXCEPT ![w] = "store"], [pc EXCEPT ![w] = "regstore"],
                  [pc EXCEPT ![w] = "idle"]}
      /\ pc'[w] # "idle" => user' = user /\ tok' = tok
      /\ \A v \in Workers \ {w} : user'[v] = user[v] /\ tok'[v] = tok[v]
  BY DEF Commit, CommitInDoubt, TypeOK
<1>2. /\ user[w] \in Users /\ tok[w] \in Tokens
      /\ status[tok[w]] = "drawn" /\ owner[tok[w]] = user[w] /\ by[tok[w]] = w
  BY <1>1 DEF DrawnTokens
<1>3. \A t \in Tokens : status'[t] = RowAfterCommit(w, t)
  BY <1>1
<1>4. TypeOK' /\ BusyWorkers'
  <2>1. status' \in [Tokens -> RowStates \union {"unused", "drawn"}]
    BY <1>1, <1>3 DEF TypeOK
  <2>2. CASE Commit(w)
    BY <1>1, <1>2, <2>1, <2>2 DEF Commit, TypeOK, BusyWorkers, PcStates, InLogin
  <2>3. CASE CommitInDoubt(w)
    BY <1>1, <1>2, <2>1, <2>3 DEF CommitInDoubt, TypeOK, BusyWorkers, PcStates, InLogin
  <2>. QED BY <2>2, <2>3
<1>5. DrawnTokens'
  <2>1. \A v \in Workers \ {w} : pc[v] \in InTxn => tok[v] # tok[w] /\ tok[v] \notin pend[w]
    BY <1>2 DEF DrawnTokens, PendingRows
  <2>. QED
    BY <1>1, <1>3, <2>1 DEF DrawnTokens, TypeOK
<1>6. CommittedTokens'
  BY <1>1, <1>2, <1>3 DEF CommittedTokens, TypeOK
<1>7. PendingRows'
  BY <1>1, <1>2, <1>3 DEF PendingRows, TypeOK
<1>8. \A t \in Tokens : status'[t] = "active" =>
         t = tok[w] \/ (status[t] = "active" /\ t \notin pend[w])
  BY <1>3
<1>9. OwnRowsSeen'
  <2>1. \A v \in Workers, t \in Tokens :
          v # w /\ status'[t] = "active" /\ by[t] = v => status[t] = "active"
    BY <1>2, <1>8
  <2>2. pc'[w] \in {"store", "regstore", "idle"} /\ \A v \in Workers \ {w} : pc'[v] = pc[v]
    BY <1>1 DEF TypeOK
  <2>3. UNCHANGED <<owner, by, snap>> /\ \A v \in Workers \ {w} : pend'[v] = pend[v]
    BY <1>1 DEF TypeOK
  <2>. QED
    BY <1>1, <2>1, <2>2, <2>3 DEF OwnRowsSeen
<1>10. ActiveRowsFromDistinctWorkers'
  <2>1. \A t \in Tokens : status'[t] = "active" /\ t # tok[w] /\ owner[t] = user[w] => by[t] # w
    BY <1>1, <1>8 DEF OwnRowsSeen
  <2>. QED
    BY <1>1, <1>2, <1>8, <2>1 DEF ActiveRowsFromDistinctWorkers
<1>11. HonouredSessionsWereCommitted'
  BY <1>1, <1>2, <1>3 DEF HonouredSessionsWereCommitted
<1>. QED BY <1>4, <1>5, <1>6, <1>7, <1>9, <1>10, <1>11

\* The other steps of a worker change no row.
LEMMA WorkerIInv ==
  ASSUME IInv, NEW w \in Workers,
         \/ RollBack(w) \/ Store(w) \/ ReplyLogin(w) \/ ReplyRegister(w)
         \/ Touch(w) \/ Get(w) \/ List(w) \/ Remove(w)
  PROVE  IInv'
<1> USE DEF RowStates, InTxn, IInv, Goto, Done, rowVars, memVars, txnVars
<1>1. CASE RollBack(w)
  BY <1>1 DEF RollBack, TypeOK, BusyWorkers, DrawnTokens, CommittedTokens, PendingRows, OwnRowsSeen,
     ActiveRowsFromDistinctWorkers, HonouredSessionsWereCommitted, PcStates
<1>2. CASE Store(w)
  <2> USE <1>2 DEF Store
  <2>1. TypeOK'
    BY SessionsAssumption DEF TypeOK, BusyWorkers, PcStates, InLogin
  <2>2. BusyWorkers' /\ DrawnTokens' /\ PendingRows' /\ OwnRowsSeen'
    BY DEF TypeOK, BusyWorkers, DrawnTokens, PendingRows, OwnRowsSeen
  <2>3. CommittedTokens'
    BY SessionsAssumption DEF TypeOK, BusyWorkers, CommittedTokens, HonouredSessionsWereCommitted
  <2>4. ActiveRowsFromDistinctWorkers'
    BY DEF ActiveRowsFromDistinctWorkers
  <2>5. HonouredSessionsWereCommitted'
    BY SessionsAssumption DEF TypeOK, BusyWorkers, CommittedTokens, HonouredSessionsWereCommitted
  <2>. QED BY <2>1, <2>2, <2>3, <2>4, <2>5
<1>3. CASE ReplyLogin(w)
  BY <1>3 DEF ReplyLogin, TypeOK, BusyWorkers, DrawnTokens, CommittedTokens, PendingRows, OwnRowsSeen,
     ActiveRowsFromDistinctWorkers, HonouredSessionsWereCommitted, PcStates
<1>4. CASE ReplyRegister(w)
  BY <1>4 DEF ReplyRegister, TypeOK, BusyWorkers, DrawnTokens, CommittedTokens, PendingRows, OwnRowsSeen,
     ActiveRowsFromDistinctWorkers, HonouredSessionsWereCommitted, PcStates
<1>5. CASE Touch(w)
  <2> USE <1>5 DEF Touch
  <2>1. TypeOK'
    BY SessionsAssumption DEF TypeOK, BusyWorkers, PcStates, InLogin
  <2>2. BusyWorkers' /\ DrawnTokens' /\ PendingRows' /\ OwnRowsSeen'
    BY DEF TypeOK, BusyWorkers, DrawnTokens, PendingRows, OwnRowsSeen
  <2>3. CommittedTokens'
    BY SessionsAssumption DEF TypeOK, BusyWorkers, CommittedTokens, HonouredSessionsWereCommitted
  <2>4. ActiveRowsFromDistinctWorkers'
    BY DEF ActiveRowsFromDistinctWorkers
  <2>5. HonouredSessionsWereCommitted'
    BY SessionsAssumption DEF TypeOK, BusyWorkers, CommittedTokens, HonouredSessionsWereCommitted
  <2>. QED BY <2>1, <2>2, <2>3, <2>4, <2>5
<1>6. CASE Get(w)
  <2> USE <1>6 DEF Get
  <2>1. TypeOK'
    <3>1. CASE mem[user[w]] = NoToken
      <4>1. /\ pc' = [pc EXCEPT ![w] = "idle"]
            /\ user' = [user EXCEPT ![w] = NoUser]
            /\ tok' = [tok EXCEPT ![w] = NoToken]
            /\ solo' = [solo EXCEPT ![w] = FALSE]
        BY <3>1
      <4>2. /\ pc' \in [Workers -> PcStates]
            /\ user' \in [Workers -> Users \union {NoUser}]
            /\ tok' \in [Workers -> Tokens \union {NoToken}]
            /\ solo' \in [Workers -> BOOLEAN]
        BY <4>1 DEF TypeOK, PcStates
      <4>. QED BY <4>2 DEF TypeOK
    <3>2. CASE mem[user[w]] # NoToken
      <4>1. user[w] \in Users
        BY SessionsAssumption DEF TypeOK, BusyWorkers
      <4>2. mem[user[w]] \in Tokens
        BY <3>2, <4>1 DEF TypeOK
      <4>. QED BY <3>2, <4>2 DEF TypeOK, PcStates
    <3>. QED BY <3>1, <3>2
  <2>2. BusyWorkers' /\ DrawnTokens' /\ PendingRows' /\ OwnRowsSeen'
    <3>1. CASE mem[user[w]] = NoToken
      BY <3>1 DEF TypeOK, BusyWorkers, DrawnTokens, PendingRows, OwnRowsSeen
    <3>2. CASE mem[user[w]] # NoToken
      BY <3>2 DEF TypeOK, BusyWorkers, DrawnTokens, PendingRows, OwnRowsSeen
    <3>. QED BY <3>1, <3>2
  <2>3. CommittedTokens'
    BY SessionsAssumption DEF TypeOK, BusyWorkers, CommittedTokens, HonouredSessionsWereCommitted
  <2>4. ActiveRowsFromDistinctWorkers'
    BY DEF ActiveRowsFromDistinctWorkers
  <2>5. HonouredSessionsWereCommitted'
    BY SessionsAssumption DEF TypeOK, BusyWorkers, CommittedTokens, HonouredSessionsWereCommitted
  <2>. QED BY <2>1, <2>2, <2>3, <2>4, <2>5
<1>7. CASE List(w)
  <2> USE <1>7 DEF List
  <2>1. /\ user[w] \in Users /\ tok[w] \in Tokens
        /\ status[tok[w]] \in RowStates /\ owner[tok[w]] = user[w]
    BY DEF CommittedTokens
  <2>2. TypeOK'
    BY <2>1 DEF TypeOK, PcStates
  <2>3. BusyWorkers' /\ DrawnTokens'
    BY DEF TypeOK, BusyWorkers, DrawnTokens
  <2>4. PendingRows' /\ OwnRowsSeen'
    BY DEF TypeOK, PendingRows, OwnRowsSeen
  <2>5. CommittedTokens'
    BY <2>1 DEF TypeOK, BusyWorkers, CommittedTokens
  <2>6. ActiveRowsFromDistinctWorkers'
    BY DEF ActiveRowsFromDistinctWorkers
  <2>7. HonouredSessionsWereCommitted'
    BY <2>1 DEF TypeOK, CommittedTokens, HonouredSessionsWereCommitted
  <2>. QED BY <2>2, <2>3, <2>4, <2>5, <2>6, <2>7
<1>8. CASE Remove(w)
  <2> USE <1>8 DEF Remove
  <2>1. TypeOK'
    BY SessionsAssumption DEF TypeOK, BusyWorkers, PcStates, InLogin
  <2>2. BusyWorkers' /\ DrawnTokens' /\ PendingRows' /\ OwnRowsSeen'
    BY DEF TypeOK, BusyWorkers, DrawnTokens, PendingRows, OwnRowsSeen
  <2>3. CommittedTokens'
    BY SessionsAssumption DEF TypeOK, BusyWorkers, CommittedTokens, HonouredSessionsWereCommitted
  <2>4. ActiveRowsFromDistinctWorkers'
    BY DEF ActiveRowsFromDistinctWorkers
  <2>5. HonouredSessionsWereCommitted'
    BY SessionsAssumption DEF TypeOK, BusyWorkers, CommittedTokens, HonouredSessionsWereCommitted
  <2>. QED BY <2>1, <2>2, <2>3, <2>4, <2>5
<1>. QED BY <1>1, <1>2, <1>3, <1>4, <1>5, <1>6, <1>7, <1>8

\* The event loop, the clock and a restart.
LEMMA OtherIInv ==
  ASSUME IInv, CleanupRows \/ SweepSessions \/ Tick \/ (\E t \in Tokens : Expire(t))
               \/ Restart \/ UNCHANGED vars
  PROVE  IInv'
<1> USE DEF RowStates, InTxn, IInv, rowVars, memVars, txnVars
<1>1. CASE CleanupRows
  BY <1>1 DEF CleanupRows, TypeOK, BusyWorkers, DrawnTokens, CommittedTokens, PendingRows,
     OwnRowsSeen, ActiveRowsFromDistinctWorkers, HonouredSessionsWereCommitted
<1>2. CASE SweepSessions
  BY <1>2, SessionsAssumption
  DEF SweepSessions, TypeOK, BusyWorkers, DrawnTokens, CommittedTokens, PendingRows,
      OwnRowsSeen, ActiveRowsFromDistinctWorkers, HonouredSessionsWereCommitted
<1>3. CASE Tick
  BY <1>3, SessionsAssumption
  DEF Tick, TypeOK, BusyWorkers, DrawnTokens, CommittedTokens, PendingRows,
      OwnRowsSeen, ActiveRowsFromDistinctWorkers, HonouredSessionsWereCommitted
<1>4. CASE \E t \in Tokens : Expire(t)
  BY <1>4 DEF Expire, TypeOK, BusyWorkers, DrawnTokens, CommittedTokens, PendingRows,
     OwnRowsSeen, ActiveRowsFromDistinctWorkers, HonouredSessionsWereCommitted
<1>5. CASE Restart
  BY <1>5, SessionsAssumption
  DEF Restart, TypeOK, BusyWorkers, DrawnTokens, CommittedTokens, PendingRows, PcStates,
      OwnRowsSeen, ActiveRowsFromDistinctWorkers, HonouredSessionsWereCommitted
<1>6. CASE UNCHANGED vars
  BY <1>6 DEF vars, TypeOK, BusyWorkers, DrawnTokens, CommittedTokens, PendingRows,
     OwnRowsSeen, ActiveRowsFromDistinctWorkers, HonouredSessionsWereCommitted
<1>. QED BY <1>1, <1>2, <1>3, <1>4, <1>5, <1>6

LEMMA BeginIInv ==
  ASSUME IInv, NEW w \in Workers, NEW u \in Users, NEW t \in Tokens, Begin(w, u, t)
  PROVE  IInv'
<1>1. CASE BeginLogin(w, u, t)
  BY <1>1, DrawIInv DEF BeginLogin, IInv, TypeOK
<1>2. CASE BeginRegister(w, u, t)
  BY <1>2, DrawIInv DEF BeginRegister, IInv, TypeOK
<1>3. ASSUME NEW where \in {"touch", "remove"}, Validate(w, u, t, where)
      PROVE  IInv'
  BY <1>3 DEF Validate, Goto, rowVars, memVars, txnVars, InTxn, RowStates, PcStates, IInv,
     TypeOK, BusyWorkers, DrawnTokens, CommittedTokens, PendingRows, OwnRowsSeen,
     ActiveRowsFromDistinctWorkers, HonouredSessionsWereCommitted
<1>. QED BY <1>1, <1>2, <1>3 DEF Begin, BeginList, BeginDisconnect

LEMMA NextIInv == IInv /\ [Next]_vars => IInv'
<1> SUFFICES ASSUME IInv, [Next]_vars PROVE IInv'
  OBVIOUS
<1>1. CASE \E w \in Workers : Step(w)
  BY <1>1, RevokeIInv, CommitIInv, WorkerIInv DEF Step, Progress
<1>2. CASE \E w \in Workers, u \in Users, t \in Tokens : Begin(w, u, t)
  BY <1>2, BeginIInv
<1>. QED BY <1>1, <1>2, OtherIInv DEF Next

-----------------------------------------------------------------------------

THEOREM Invariance == Spec => []IInv
BY InitIInv, NextIInv, PTL DEF Spec

\* The state of the server keeps its types, for every choice of the constants.
THEOREM TypeCorrect == Spec => []TypeOK
BY Invariance, PTL DEF IInv

\* A user's active rows were all inserted by different workers, so there are
\* never more of them than the pool has threads.
THEOREM OneActiveRowPerWorker == Spec => []ActiveRowsFromDistinctWorkers
BY Invariance, PTL DEF IInv

\* Whatever fails, and whenever the server restarts, a hash that is honoured
\* or was handed out has a committed row, of the same user.
THEOREM NoSessionWithoutARow == Spec => []HonouredSessionsWereCommitted
BY Invariance, PTL DEF IInv
-----------------------------------------------------------------------------
(***************************************************************************)
(* What overlaps what: a login that overlaps no other ends with the only   *)
(* session of its user, and a disconnect evicts another session than its   *)
(* own only if a login on another worker has stored it meanwhile.          *)
(***************************************************************************)

\* A login about to store its hash has drawn it itself.
OwnHashes ==
  \A w \in Workers : pc[w] \in {"store", "regstore"} => by[tok[w]] = w

\* No other login of the user is under way.
SoloAlone ==
  \A w, v \in Workers :
    solo[w] /\ pc[w] \in InLogin /\ v # w /\ pc[v] \in InLogin => user[v] # user[w]

\* The active rows of the user are those it is about to revoke, or its own.
SoloRows ==
  \A w \in Workers, t \in Tokens :
    solo[w] /\ status[t] = "active" /\ owner[t] = user[w] =>
      /\ pc[w] \in {"revoke", "regrevoke"} => t \in snap[w]
      /\ pc[w] \in {"commit", "regcommit"} => t \in pend[w]
      /\ pc[w] \in {"store", "regstore", "reply", "regreply"} => t = tok[w]

SoloMap ==
  \A w \in Workers :
    solo[w] /\ pc[w] \in {"reply", "regreply"} => mem[user[w]] \in {tok[w], NoToken}

Overlaps ==
  /\ OwnHashes
  /\ EvictionsOfOthersHaveOverlapped
  /\ SoloAlone
  /\ SoloRows
  /\ SoloMap

LEMMA InitOverlaps == Init => Overlaps
  BY SessionsAssumption
  DEF Init, Overlaps, OwnHashes, EvictionsOfOthersHaveOverlapped, SoloAlone, SoloRows, SoloMap,
      InLogin, InTxn

LEMMA DrawOverlaps ==
  ASSUME IInv, Overlaps, NEW w \in Workers, NEW u \in Users, NEW t \in Tokens,
         NEW where \in {"begun", "regbegun"}, Draw(w, u, t, where)
  PROVE  Overlaps'
<1> USE DEF IInv, Overlaps, Draw, Goto, memVars, txnVars
<1>1. OwnHashes'
  BY DEF TypeOK, OwnHashes, CommittedTokens, RowStates
<1>2. EvictionsOfOthersHaveOverlapped'
  BY DEF TypeOK, EvictionsOfOthersHaveOverlapped, BusyWorkers, HonouredSessionsWereCommitted,
         RowStates
<1>3. SoloAlone'
  BY DEF TypeOK, SoloAlone, LoggingIn, InLogin, InTxn
<1>4. SoloRows'
  BY DEF TypeOK, SoloRows, RowStates
<1>5. SoloMap'
  BY DEF TypeOK, SoloMap
<1>. QED BY <1>1, <1>2, <1>3, <1>4, <1>5

LEMMA TransactionOverlaps ==
  ASSUME IInv, Overlaps, NEW w \in Workers, StartRevoke(w) \/ FinishRevoke(w) \/ RollBack(w)
  PROVE  Overlaps'
<1> USE DEF IInv, Overlaps, Goto, Done, rowVars, memVars
<1>1. CASE StartRevoke(w)
  BY <1>1 DEF StartRevoke, ActiveRows, TypeOK, OwnHashes, EvictionsOfOthersHaveOverlapped,
     SoloAlone, SoloRows, SoloMap, InLogin, InTxn
<1>2. CASE FinishRevoke(w)
  BY <1>2 DEF FinishRevoke, TypeOK, OwnHashes, EvictionsOfOthersHaveOverlapped,
     SoloAlone, SoloRows, SoloMap, InLogin, InTxn
<1>3. CASE RollBack(w)
  BY <1>3 DEF RollBack, TypeOK, OwnHashes, EvictionsOfOthersHaveOverlapped,
     SoloAlone, SoloRows, SoloMap, InLogin, InTxn
<1>. QED BY <1>1, <1>2, <1>3

\* A commit makes one row active, which belongs to the user of its login: no
\* other login that is solo has that user.
LEMMA CommitOverlaps ==
  ASSUME IInv, Overlaps, NEW w \in Workers, Commit(w) \/ CommitInDoubt(w)
  PROVE  Overlaps'
<1> USE DEF IInv, Overlaps, CommitRows, RowAfterCommit, Goto, Done, memVars
<1>1. /\ pc[w] \in {"commit", "regcommit"}
      /\ pc'[w] \in {"store", "regstore", "idle"}
      /\ pc'[w] # "idle" => user'[w] = user[w] /\ tok'[w] = tok[w]
      /\ \A v \in Workers \ {w} :
           pc'[v] = pc[v] /\ user'[v] = user[v] /\ tok'[v] = tok[v]
           /\ solo'[v] = solo[v] /\ pend'[v] = pend[v]
      /\ pc'[w] # "idle" => solo'[w] = solo[w]
      /\ UNCHANGED <<owner, by, mem, snap>>
  BY DEF Commit, CommitInDoubt, TypeOK
<1>2. /\ user[w] \in Users /\ tok[w] \in Tokens
      /\ status[tok[w]] = "drawn" /\ owner[tok[w]] = user[w] /\ by[tok[w]] = w
  BY <1>1 DEF DrawnTokens, InTxn
<1>3. \A t \in Tokens : status'[t] = "active" =>
         t = tok[w] \/ (status[t] = "active" /\ t \notin pend[w])
  BY DEF Commit, CommitInDoubt, TypeOK
<1>4. OwnHashes'
  BY <1>1, <1>2 DEF OwnHashes
<1>5. EvictionsOfOthersHaveOverlapped'
  BY <1>1 DEF EvictionsOfOthersHaveOverlapped
<1>6. SoloAlone'
  BY <1>1 DEF SoloAlone, InLogin, InTxn
<1>7. SoloRows'
  <2> SUFFICES ASSUME NEW v \in Workers, NEW t \in Tokens,
                      solo'[v], status'[t] = "active", owner[t] = user'[v]
               PROVE  /\ pc'[v] \in {"revoke", "regrevoke"} => t \in snap[v]
                      /\ pc'[v] \in {"commit", "regcommit"} => t \in pend'[v]
                      /\ pc'[v] \in {"store", "regstore", "reply", "regreply"} => t = tok'[v]
    BY <1>1 DEF SoloRows
  <2>1. CASE v = w
    BY <1>1, <1>3, <2>1 DEF SoloRows
  <2>2. CASE v # w /\ t = tok[w]
    BY <1>1, <1>2, <2>2 DEF SoloAlone, InLogin, InTxn
  <2>3. CASE v # w /\ t # tok[w]
    BY <1>1, <1>3, <2>3 DEF SoloRows
  <2>. QED BY <2>1, <2>2, <2>3
<1>8. SoloMap'
  BY <1>1 DEF SoloMap
<1>. QED BY <1>4, <1>5, <1>6, <1>7, <1>8

LEMMA StoreOverlaps ==
  ASSUME IInv, Overlaps, NEW w \in Workers, Store(w)
  PROVE  Overlaps'
<1> USE DEF IInv, Overlaps, Store, Goto, rowVars, txnVars
<1>1. user[w] \in Users /\ tok[w] \in Tokens
  BY DEF CommittedTokens
<1>2. OwnHashes' /\ SoloAlone' /\ SoloRows'
  BY DEF TypeOK, OwnHashes, SoloAlone, SoloRows, InLogin, InTxn
<1>3. EvictionsOfOthersHaveOverlapped'
  BY <1>1 DEF TypeOK, OwnHashes, EvictionsOfOthersHaveOverlapped, BusyWorkers
<1>4. SoloMap'
  BY <1>1 DEF TypeOK, SoloAlone, SoloMap, CommittedTokens, InLogin, InTxn
<1>. QED BY <1>2, <1>3, <1>4

LEMMA HandlerOverlaps ==
  ASSUME IInv, Overlaps, NEW w \in Workers,
         ReplyLogin(w) \/ ReplyRegister(w) \/ Touch(w) \/ Get(w) \/ List(w)
  PROVE  Overlaps'
<1>1. /\ UNCHANGED <<status, owner, by, mem, snap, pend>>
      /\ pc[w] \notin {"remove", "store", "regstore"}
      /\ pc' \in [Workers -> PcStates] /\ pc'[w] \in {"idle", "get", "list"}
      /\ \A v \in Workers \ {w} :
           pc'[v] = pc[v] /\ user'[v] = user[v] /\ tok'[v] = tok[v] /\ solo'[v] = solo[v]
  BY DEF IInv, TypeOK, ReplyLogin, ReplyRegister, Touch, Get, List, Goto, Done,
         rowVars, memVars, txnVars, PcStates, InLogin, InTxn
<1>. QED
  BY <1>1 DEF Overlaps, OwnHashes, EvictionsOfOthersHaveOverlapped, SoloAlone, SoloRows, SoloMap,
     InLogin, InTxn

LEMMA RemoveOverlaps ==
  ASSUME IInv, Overlaps, NEW w \in Workers, Remove(w)
  PROVE  Overlaps'
<1>1. user[w] \in Users
  BY DEF IInv, BusyWorkers, Remove
<1>2. \A u \in Users : mem'[u] \in {mem[u], NoToken}
  BY <1>1 DEF Remove, IInv, TypeOK
<1>3. /\ UNCHANGED <<status, owner, by, snap, pend>> /\ pc'[w] = "idle"
      /\ \A v \in Workers \ {w} :
           pc'[v] = pc[v] /\ user'[v] = user[v] /\ tok'[v] = tok[v] /\ solo'[v] = solo[v]
  BY DEF Remove, Done, Goto, IInv, TypeOK, rowVars, txnVars
<1>4. \A v \in Workers : pc[v] # "idle" => user[v] \in Users
  BY DEF IInv, BusyWorkers
<1>. QED
  BY <1>2, <1>3, <1>4 DEF Overlaps, OwnHashes, EvictionsOfOthersHaveOverlapped, SoloAlone, SoloRows,
     SoloMap, InLogin, InTxn

LEMMA ValidateOverlaps ==
  ASSUME IInv, Overlaps, NEW w \in Workers, NEW u \in Users, NEW t \in Tokens,
         NEW where \in {"touch", "remove"}, Validate(w, u, t, where)
  PROVE  Overlaps'
  BY DEF IInv, TypeOK, Validate, Goto, rowVars, memVars, txnVars, Overlaps, OwnHashes,
     EvictionsOfOthersHaveOverlapped, SoloAlone, SoloRows, SoloMap, InLogin, InTxn

LEMMA OtherOverlaps ==
  ASSUME IInv, Overlaps,
         CleanupRows \/ SweepSessions \/ Tick \/ (\E t \in Tokens : Expire(t))
         \/ Restart \/ UNCHANGED vars
  PROVE  Overlaps'
<1> USE DEF IInv, Overlaps, rowVars, memVars, txnVars, OwnHashes,
     EvictionsOfOthersHaveOverlapped, SoloAlone, SoloRows, SoloMap
<1>1. CASE CleanupRows
  BY <1>1 DEF CleanupRows, TypeOK
<1>2. CASE SweepSessions
  <2>1. \A u \in Users : mem'[u] \in {mem[u], NoToken}
    BY <1>2 DEF SweepSessions, TypeOK
  <2>. QED BY <1>2, <2>1 DEF SweepSessions, BusyWorkers
<1>3. CASE Tick
  BY <1>3 DEF Tick
<1>4. CASE \E t \in Tokens : Expire(t)
  BY <1>4 DEF Expire, TypeOK
<1>5. CASE Restart
  BY <1>5 DEF Restart, InLogin, InTxn
<1>6. CASE UNCHANGED vars
  BY <1>6 DEF vars
<1>. QED BY <1>1, <1>2, <1>3, <1>4, <1>5, <1>6

LEMMA NextOverlaps == IInv /\ Overlaps /\ [Next]_vars => Overlaps'
<1> SUFFICES ASSUME IInv, Overlaps, [Next]_vars PROVE Overlaps'
  OBVIOUS
<1>1. CASE \E w \in Workers : Step(w)
  BY <1>1, TransactionOverlaps, CommitOverlaps, StoreOverlaps, HandlerOverlaps, RemoveOverlaps
  DEF Step, Progress
<1>2. CASE \E w \in Workers, u \in Users, t \in Tokens : Begin(w, u, t)
  BY <1>2, DrawOverlaps, ValidateOverlaps
  DEF Begin, BeginLogin, BeginRegister, BeginList, BeginDisconnect
<1>. QED BY <1>1, <1>2, OtherOverlaps DEF Next

THEOREM OverlapInvariance == Spec => []Overlaps
BY Invariance, InitOverlaps, NextOverlaps, PTL DEF Spec

\* A login that overlapped no other login of its user answers when its row is
\* the only active one and the map holds its hash or nothing.
THEOREM SoloLogin == Spec => []SoloLoginIsSoleSession
<1>1. IInv /\ Overlaps => SoloLoginIsSoleSession
  BY DEF Overlaps, SoloRows, SoloMap, SoloLoginIsSoleSession, ActiveRows
<1>. QED BY <1>1, Invariance, OverlapInvariance, PTL

\* Whatever session a disconnect is about to evict is the one it presented, or
\* one that was stored by a login of another worker.
THEOREM StaleEviction == Spec => []EvictionsOfOthersHaveOverlapped
BY OverlapInvariance, PTL DEF Overlaps

-----------------------------------------------------------------------------
(***************************************************************************)
(* The life of a hash: a login stores the hash it has drawn, nobody else   *)
(* has it before, and so it is honoured for one stretch of time.           *)
(***************************************************************************)

\* Rows have users, and workers that inserted them.
OwnedRows ==
  \A t \in Tokens :
    status[t] \in RowStates => owner[t] \in Users /\ by[t] \in Workers

\* A hash in the hands of a worker is one it has drawn, or has a row.
HashesAtHand ==
  \A w \in Workers :
    tok[w] \in Tokens => pc[w] \in InTxn \/ status[tok[w]] \in RowStates

\* Before a login stores its hash, nobody else has it.
FreshHashes ==
  \A w \in Workers :
    pc[w] \in {"store", "regstore"} =>
      /\ \A v \in Workers \ {w} : tok[v] # tok[w]
      /\ \A u \in Users : mem[u] # tok[w] /\ tok[w] \notin granted[u]

Hashes ==
  /\ OwnedRows
  /\ HashesAtHand
  /\ FreshHashes

LEMMA InitHashes == Init => Hashes
  BY SessionsAssumption
  DEF Init, Hashes, OwnedRows, HashesAtHand, FreshHashes, RowStates

LEMMA DrawHashes ==
  ASSUME IInv, Hashes, NEW w \in Workers, NEW u \in Users, NEW t \in Tokens,
         NEW where \in {"begun", "regbegun"}, Draw(w, u, t, where)
  PROVE  Hashes'
<1> USE DEF IInv, Hashes, Draw, Goto, memVars, txnVars
<1>1. OwnedRows'
  BY DEF TypeOK, OwnedRows, RowStates
<1>2. HashesAtHand'
  BY DEF TypeOK, HashesAtHand, RowStates, InTxn
<1>3. FreshHashes'
  BY DEF TypeOK, FreshHashes, CommittedTokens, RowStates
<1>. QED BY <1>1, <1>2, <1>3

LEMMA CommitHashes ==
  ASSUME IInv, Hashes, NEW w \in Workers, Commit(w) \/ CommitInDoubt(w)
  PROVE  Hashes'
<1> USE DEF IInv, Hashes
<1>1. /\ pc[w] \in InTxn
      /\ pc'[w] \in {"store", "regstore", "idle"}
      /\ pc'[w] # "idle" => tok'[w] = tok[w]
      /\ pc'[w] = "idle" => tok'[w] = NoToken
      /\ \A v \in Workers \ {w} : pc'[v] = pc[v] /\ tok'[v] = tok[v]
      /\ UNCHANGED <<owner, by, mem, granted>>
  BY DEF Commit, CommitInDoubt, CommitRows, Goto, Done, TypeOK, InTxn, memVars
<1>2. /\ user[w] \in Users /\ tok[w] \in Tokens
      /\ status[tok[w]] = "drawn" /\ owner[tok[w]] = user[w] /\ by[tok[w]] = w
  BY <1>1 DEF DrawnTokens
<1>3. \A t \in Tokens :
        status'[t] \in RowStates <=> t = tok[w] \/ status[t] \in RowStates
  BY <1>1, <1>2 DEF Commit, CommitInDoubt, CommitRows, RowAfterCommit, PendingRows, RowStates
<1>4. OwnedRows'
  BY <1>1, <1>2, <1>3 DEF OwnedRows
<1>5. HashesAtHand'
  BY SessionsAssumption, <1>1, <1>2, <1>3 DEF HashesAtHand
<1>6. FreshHashes'
  <2>1. \A v \in Workers \ {w} : tok[v] # tok[w]
    BY <1>2 DEF HashesAtHand, DrawnTokens, RowStates
  <2>2. \A u \in Users : mem[u] # tok[w] /\ tok[w] \notin granted[u]
    BY <1>2 DEF HonouredSessionsWereCommitted, RowStates
  <2>3. NoToken # tok[w]
    BY <1>2, SessionsAssumption
  <2>4. CASE pc'[w] = "idle"
    <3> SUFFICES ASSUME NEW v \in Workers, pc'[v] \in {"store", "regstore"}
                 PROVE  /\ \A x \in Workers \ {v} : tok'[x] # tok'[v]
                        /\ \A u \in Users : mem'[u] # tok'[v] /\ tok'[v] \notin granted'[u]
      BY DEF FreshHashes
    <3>1. v # w /\ pc[v] \in {"store", "regstore"} /\ tok'[v] = tok[v] /\ tok[v] # NoToken
      BY <1>1, <2>4, SessionsAssumption DEF CommittedTokens
    <3>. QED BY <1>1, <2>4, <3>1 DEF FreshHashes
  <2>5. CASE pc'[w] # "idle"
    BY <1>1, <2>1, <2>2, <2>5 DEF FreshHashes
  <2>. QED BY <2>4, <2>5
<1>. QED BY <1>4, <1>5, <1>6

\* The steps of a worker that change no row.
LEMMA WorkerHashes ==
  ASSUME IInv, Hashes, NEW w \in Workers,
         \/ StartRevoke(w) \/ FinishRevoke(w) \/ RollBack(w) \/ Store(w)
         \/ ReplyLogin(w) \/ ReplyRegister(w)
         \/ Touch(w) \/ Get(w) \/ List(w) \/ Remove(w)
  PROVE  Hashes'
<1> USE DEF IInv, Hashes
<1>1. /\ UNCHANGED <<status, owner, by>>
      /\ pc'[w] \notin {"store", "regstore"}
      /\ \A v \in Workers \ {w} : pc'[v] = pc[v] /\ tok'[v] = tok[v]
  BY DEF StartRevoke, FinishRevoke, RollBack, Store, ReplyLogin, ReplyRegister,
         Touch, Get, List, Remove, Goto, Done, TypeOK, rowVars
<1>2. \/ tok'[w] = NoToken
      \/ tok'[w] = tok[w] /\ (pc[w] \in InTxn => pc'[w] \in InTxn \/ pc[w] \in {"store", "regstore"})
      \/ \E u \in Users : mem[u] # NoToken /\ tok'[w] = mem[u]
  BY DEF StartRevoke, FinishRevoke, RollBack, Store, ReplyLogin, ReplyRegister,
         Touch, Get, List, Remove, Goto, Done, TypeOK, BusyWorkers, InTxn
<1>3. \A u \in Users :
        /\ mem'[u] \in {mem[u], NoToken} \/ (pc[w] \in {"store", "regstore"} /\ mem'[u] = tok[w])
        /\ granted'[u] \subseteq granted[u] \union {mem[u], tok[w]}
  BY DEF StartRevoke, FinishRevoke, RollBack, Store, ReplyLogin, ReplyRegister,
         Touch, Get, List, Remove, TypeOK, BusyWorkers, memVars
<1>4. OwnedRows'
  BY <1>1 DEF OwnedRows
<1>5. HashesAtHand'
  BY SessionsAssumption, <1>1, <1>2
  DEF HashesAtHand, HonouredSessionsWereCommitted, InTxn
<1>6. FreshHashes'
  <2> SUFFICES ASSUME NEW v \in Workers, pc'[v] \in {"store", "regstore"}
               PROVE  /\ \A x \in Workers \ {v} : tok'[x] # tok'[v]
                      /\ \A u \in Users : mem'[u] # tok'[v] /\ tok'[v] \notin granted'[u]
    BY DEF FreshHashes
  <2>1. /\ v # w /\ pc[v] \in {"store", "regstore"} /\ tok'[v] = tok[v]
        /\ tok[v] # NoToken
    BY <1>1, SessionsAssumption DEF CommittedTokens
  <2>2. tok[w] # tok[v] /\ \A u \in Users : mem[u] # tok[v] /\ tok[v] \notin granted[u]
    BY <2>1 DEF FreshHashes
  <2>3. tok'[w] # tok[v]
    BY <1>2, <2>1, <2>2
  <2>4. \A x \in Workers \ {v} : tok'[x] # tok[v]
    BY <1>1, <2>1, <2>3 DEF FreshHashes
  <2>. QED BY <1>3, <2>1, <2>2, <2>4
<1>. QED BY <1>4, <1>5, <1>6

LEMMA ValidateHashes ==
  ASSUME IInv, Hashes, NEW w \in Workers, NEW u \in Users, NEW t \in Tokens,
         NEW where \in {"touch", "remove"}, Validate(w, u, t, where)
  PROVE  Hashes'
<1> USE DEF IInv, Hashes, Validate, Goto, rowVars, memVars, txnVars
<1>1. OwnedRows' /\ HashesAtHand'
  BY DEF TypeOK, OwnedRows, HashesAtHand, HonouredSessionsWereCommitted
<1>2. FreshHashes'
  BY DEF TypeOK, FreshHashes
<1>. QED BY <1>1, <1>2

LEMMA OtherHashes ==
  ASSUME IInv, Hashes,
         CleanupRows \/ SweepSessions \/ Tick \/ (\E t \in Tokens : Expire(t))
         \/ Restart \/ UNCHANGED vars
  PROVE  Hashes'
<1> USE DEF IInv, Hashes
<1>1. CASE Restart
  BY <1>1, SessionsAssumption
  DEF Restart, OwnedRows, HashesAtHand, FreshHashes, rowVars
<1>2. CASE ~Restart
  <2>1. /\ \A t \in Tokens : status'[t] \in RowStates <=> status[t] \in RowStates
        /\ UNCHANGED <<owner, by, pc, tok, granted>>
    BY <1>2 DEF CleanupRows, SweepSessions, Tick, Expire, vars, rowVars, TypeOK, RowStates
  <2>2. \A u \in Users : mem'[u] \in {mem[u], NoToken}
    BY <1>2 DEF CleanupRows, SweepSessions, Tick, Expire, vars, memVars, TypeOK
  <2>3. OwnedRows' /\ HashesAtHand'
    BY <2>1 DEF OwnedRows, HashesAtHand
  <2>4. FreshHashes'
    BY <2>1, <2>2, SessionsAssumption DEF FreshHashes, CommittedTokens
  <2>. QED BY <2>3, <2>4
<1>. QED BY <1>1, <1>2

LEMMA NextHashes == IInv /\ Hashes /\ [Next]_vars => Hashes'
<1> SUFFICES ASSUME IInv, Hashes, [Next]_vars PROVE Hashes'
  OBVIOUS
<1>1. CASE \E w \in Workers : Step(w)
  BY <1>1, CommitHashes, WorkerHashes DEF Step, Progress
<1>2. CASE \E w \in Workers, u \in Users, t \in Tokens : Begin(w, u, t)
  BY <1>2, DrawHashes, ValidateHashes
  DEF Begin, BeginLogin, BeginRegister, BeginList, BeginDisconnect
<1>. QED BY <1>1, <1>2, OtherHashes DEF Next

THEOREM HashInvariance == Spec => []Hashes
BY Invariance, InitHashes, NextHashes, PTL DEF Spec

\* A hash keeps its place in life when map, rows and logins about to store it
\* are what they were.
LEMMA LifeStays ==
  ASSUME NEW t \in Tokens,
         status'[t] \in RowStates <=> status[t] \in RowStates,
         owner'[t] = owner[t],
         mem'[owner[t]] = t <=> mem[owner[t]] = t,
         t \in AboutToStore' <=> t \in AboutToStore
  PROVE  LifeOf(t)' = LifeOf(t)
  BY DEF LifeOf

\* A commit issues the hash of its login.
LEMMA CommitIssues ==
  ASSUME IInv, Hashes, NEW w \in Workers, Commit(w) \/ CommitInDoubt(w),
         NEW t \in Tokens, NEW u \in Users, t = tok[w], u = user[w]
  PROVE  HashLife!Issue(t, u)
<1> USE DEF IInv, Hashes
<1>1. /\ pc[w] \in InTxn /\ pc[w] \notin {"store", "regstore"}
      /\ pc'[w] \in {"store", "regstore", "idle"}
      /\ pc'[w] # "idle" => tok'[w] = tok[w]
      /\ \A v \in Workers \ {w} : pc'[v] = pc[v] /\ tok'[v] = tok[v]
      /\ UNCHANGED <<owner, by, mem, granted>>
  BY DEF Commit, CommitInDoubt, CommitRows, Goto, Done, TypeOK, InTxn, memVars
<1>2. status[t] = "drawn" /\ owner[t] = u /\ by[t] = w
  BY <1>1 DEF DrawnTokens
<1>3. \A x \in Tokens : status'[x] \in RowStates <=> x = t \/ status[x] \in RowStates
  BY <1>2 DEF Commit, CommitInDoubt, CommitRows, RowAfterCommit, PendingRows, RowStates
<1>4. LifeOf(t) = "new"
  BY <1>2 DEF LifeOf, RowStates
<1>5. LifeOf(t)' \in {"ready", "over"}
  <2>1. mem[u] # t
    BY <1>2 DEF HonouredSessionsWereCommitted, RowStates
  <2>. QED BY <1>1, <1>2, <1>3, <2>1 DEF LifeOf
<1>6. \A x \in Tokens \ {t} : LifeOf(x)' = LifeOf(x)
  <2> TAKE x \in Tokens \ {t}
  <2>1. x \in AboutToStore' <=> x \in AboutToStore
    BY <1>1 DEF AboutToStore
  <2>. QED BY <1>1, <1>3, <2>1, LifeStays
<1>. QED
  BY <1>1, <1>2, <1>3, <1>4, <1>5, <1>6 DEF HashLife!Issue, UserOf

\* The hash stored takes the place of the one its user had.
LEMMA StoreStarts ==
  ASSUME IInv, Hashes, NEW w \in Workers, Store(w)
  PROVE  HashLife!Start(tok[w])
<1> USE DEF IInv, Hashes
<1>1. /\ pc[w] \in {"store", "regstore"} /\ pc'[w] \in {"reply", "regreply"}
      /\ user[w] \in Users /\ tok[w] \in Tokens
      /\ status[tok[w]] \in RowStates /\ owner[tok[w]] = user[w]
      /\ UNCHANGED <<status, owner, tok, granted>>
      /\ \A v \in Workers \ {w} : pc'[v] = pc[v]
      /\ mem' = [mem EXCEPT ![user[w]] = tok[w]]
  BY DEF Store, CommittedTokens, Goto, TypeOK, rowVars
<1>2. mem[user[w]] # tok[w] /\ tok[w] \in AboutToStore
  BY <1>1 DEF FreshHashes, AboutToStore
<1>3. LifeOf(tok[w]) = "ready"
  BY <1>1, <1>2 DEF LifeOf
<1>4. LifeOf(tok[w])' = "live"
  BY <1>1 DEF LifeOf, TypeOK
<1>5. \A t \in Tokens \ {tok[w]} :
        LifeOf(t)' = IF LifeOf(t) = "live" /\ status[t] \in RowStates /\ owner[t] = user[w]
                     THEN "over" ELSE LifeOf(t)
  <2> TAKE t \in Tokens \ {tok[w]}
  <2>1. t \in AboutToStore' <=> t \in AboutToStore
    BY <1>1 DEF AboutToStore
  <2>2. CASE status[t] \notin RowStates
    BY <1>1, <2>2 DEF LifeOf
  <2>3. CASE status[t] \in RowStates /\ owner[t] # user[w]
    <3>1. mem'[owner[t]] = mem[owner[t]]
      BY <1>1, <2>3 DEF TypeOK, OwnedRows
    <3>. QED BY <1>1, <2>1, <2>3, <3>1, LifeStays
  <2>4. CASE status[t] \in RowStates /\ owner[t] = user[w]
    <3>1. mem'[owner[t]] = tok[w]
      BY <1>1, <2>4 DEF TypeOK
    <3>2. CASE LifeOf(t) = "live"
      <4>1. t \notin AboutToStore
        <5>1. mem[owner[t]] = t /\ owner[t] \in Users
          BY <2>4, <3>2 DEF LifeOf, OwnedRows
        <5>. QED BY <5>1 DEF AboutToStore, FreshHashes
      <4>. QED BY <1>1, <2>1, <2>4, <3>1, <3>2, <4>1 DEF LifeOf
    <3>3. CASE LifeOf(t) # "live"
      BY <1>1, <2>1, <2>4, <3>1, <3>3 DEF LifeOf
    <3>. QED BY <3>2, <3>3
  <2>. QED BY <2>2, <2>3, <2>4
<1>6. \A t \in Tokens : LifeOf(t) = "live" => status[t] \in RowStates
  BY DEF LifeOf
<1>7. NoUser # user[w]
  BY <1>1, SessionsAssumption
<1>. QED
  BY <1>1, <1>3, <1>4, <1>5, <1>6, <1>7 DEF HashLife!Start, UserOf

\* A reply carries a hash that has been live.
LEMMA ReplyTells ==
  ASSUME IInv, Hashes, NEW u \in Users, NEW t \in Tokens,
         owner[t] = u, status[t] \in RowStates, t \notin AboutToStore,
         \A x \in Tokens : LifeOf(x)' = LifeOf(x), UNCHANGED <<status, owner>>,
         granted' = [granted EXCEPT ![u] = @ \union {t}]
  PROVE  HashLife!Tell(u, t)
<1>1. LifeOf(t) \in {"live", "over"}
  BY DEF LifeOf
<1>. QED BY <1>1 DEF HashLife!Tell, UserOf

LEMMA HandlerTells ==
  ASSUME IInv, Hashes, NEW w \in Workers,
         \/ StartRevoke(w) \/ FinishRevoke(w) \/ RollBack(w)
         \/ ReplyLogin(w) \/ ReplyRegister(w) \/ Touch(w) \/ Get(w) \/ List(w)
  PROVE  HashLife!Next \/ UNCHANGED HashLife!vars
<1> USE DEF IInv, Hashes
<1>1. /\ UNCHANGED <<status, owner, mem>>
      /\ pc[w] \notin {"store", "regstore"} /\ pc'[w] \notin {"store", "regstore"}
      /\ \A v \in Workers \ {w} : pc'[v] = pc[v] /\ tok'[v] = tok[v]
  BY DEF StartRevoke, FinishRevoke, RollBack, ReplyLogin, ReplyRegister,
         Touch, Get, List, Goto, Done, TypeOK, rowVars, memVars, InTxn
<1>2. \A t \in Tokens : LifeOf(t)' = LifeOf(t)
  <2> TAKE t \in Tokens
  <2>1. t \in AboutToStore' <=> t \in AboutToStore
    BY <1>1 DEF AboutToStore
  <2>. QED BY <1>1, <2>1, LifeStays
<1>3. CASE UNCHANGED granted
  BY <1>1, <1>2, <1>3 DEF HashLife!vars, UserOf
<1>4. CASE ~UNCHANGED granted
  <2>1. \E t \in Tokens :
          /\ user[w] \in Users /\ owner[t] = user[w] /\ status[t] \in RowStates
          /\ t \notin AboutToStore
          /\ granted' = [granted EXCEPT ![user[w]] = @ \union {t}]
    <3>1. CASE ReplyLogin(w)
      <4>1. user[w] \in Users /\ mem[user[w]] \in Tokens \union {NoToken}
        BY <3>1 DEF ReplyLogin, CommittedTokens, TypeOK
      <4>2. CASE mem[user[w]] = NoToken
        <5>1. granted' = [granted EXCEPT ![user[w]] = @ \union {}]
          BY <3>1, <4>2 DEF ReplyLogin
        <5>2. granted' = granted
          BY <4>1, <5>1 DEF TypeOK
        <5>. QED BY <1>4, <5>2
      <4>3. CASE mem[user[w]] # NoToken
        <5>1. /\ owner[mem[user[w]]] = user[w] /\ status[mem[user[w]]] \in RowStates
              /\ mem[user[w]] \in Tokens
          BY <4>1, <4>3 DEF HonouredSessionsWereCommitted
        <5>2. mem[user[w]] \notin AboutToStore
          BY <4>1 DEF AboutToStore, FreshHashes
        <5>3. granted' = [granted EXCEPT ![user[w]] = @ \union {mem[user[w]]}]
          BY <3>1, <4>3 DEF ReplyLogin
        <5>. QED BY <4>1, <5>1, <5>2, <5>3
      <4>. QED BY <4>2, <4>3
    <3>2. CASE ReplyRegister(w) \/ List(w)
      <4>1. /\ user[w] \in Users /\ tok[w] \in Tokens
            /\ status[tok[w]] \in RowStates /\ owner[tok[w]] = user[w]
        BY <3>2 DEF ReplyRegister, List, CommittedTokens
      <4>2. tok[w] \notin AboutToStore
        BY <1>1 DEF AboutToStore, FreshHashes
      <4>3. granted' = [granted EXCEPT ![user[w]] = @ \union {tok[w]}]
        BY <1>4, <3>2 DEF ReplyRegister, List
      <4>. QED BY <4>1, <4>2, <4>3
    <3>. QED BY <1>4, <3>1, <3>2 DEF StartRevoke, FinishRevoke, RollBack, Touch, Get
  <2>. QED BY <1>1, <1>2, <2>1, ReplyTells DEF HashLife!Next
<1>. QED BY <1>3, <1>4

\* What takes hashes out of the map, or the process with its logins, ends them.
LEMMA EvictionEnds ==
  ASSUME IInv, Hashes,
         UNCHANGED <<granted, owner>>,
         \A t \in Tokens : status'[t] \in RowStates <=> status[t] \in RowStates,
         \A u \in Users : mem'[u] \in {mem[u], NoToken},
         AboutToStore' \subseteq AboutToStore
  PROVE  HashLife!Next
<1> DEFINE S == {t \in Tokens : LifeOf(t)' # LifeOf(t)}
<1>1. \A t \in Tokens :
        \/ LifeOf(t)' = LifeOf(t)
        \/ LifeOf(t) \in {"ready", "live"} /\ LifeOf(t)' = "over"
  <2> TAKE t \in Tokens
  <2>1. CASE status[t] \notin RowStates
    BY <2>1 DEF LifeOf
  <2>2. CASE status[t] \in RowStates
    <3>1. owner[t] \in Users
      BY <2>2 DEF Hashes, OwnedRows
    <3>2. mem[owner[t]] = t => t \notin AboutToStore
      BY <3>1 DEF AboutToStore, Hashes, FreshHashes
    <3>3. mem'[owner[t]] = t => mem[owner[t]] = t
      BY <3>1, SessionsAssumption
    <3>. QED BY <2>2, <3>1, <3>2, <3>3 DEF LifeOf
  <2>. QED BY <2>1, <2>2
<1>2. HashLife!End(S)
  BY <1>1 DEF HashLife!End, UserOf
<1>. QED BY <1>2 DEF HashLife!Next

LEMMA OtherEnds ==
  ASSUME IInv, Hashes,
         CleanupRows \/ SweepSessions \/ Tick \/ (\E t \in Tokens : Expire(t))
         \/ Restart \/ UNCHANGED vars \/ (\E w \in Workers : Remove(w))
  PROVE  HashLife!Next
<1>1. UNCHANGED <<granted, owner>>
  BY DEF CleanupRows, SweepSessions, Tick, Expire, Restart, Remove, vars, rowVars
<1>2. \A t \in Tokens : status'[t] \in RowStates <=> status[t] \in RowStates
  BY DEF CleanupRows, SweepSessions, Tick, Expire, Restart, Remove, vars, rowVars, RowStates,
         IInv, TypeOK
<1>3. \A u \in Users : mem'[u] \in {mem[u], NoToken}
  BY DEF CleanupRows, SweepSessions, Tick, Expire, Restart, Remove, vars, memVars, IInv, TypeOK,
         BusyWorkers
<1>4. AboutToStore' \subseteq AboutToStore
  <2>1. \A v \in Workers :
          pc'[v] \in {"store", "regstore"} => pc[v] = pc'[v] /\ tok'[v] = tok[v]
    BY DEF CleanupRows, SweepSessions, Tick, Expire, Restart, Remove, Done, Goto, vars, IInv, TypeOK
  <2>. QED BY <2>1 DEF AboutToStore
<1>. QED BY <1>1, <1>2, <1>3, <1>4, EvictionEnds

\* A request that begins has no hash yet, or one that is live.
LEMMA BeginStutters ==
  ASSUME IInv, Hashes, NEW w \in Workers, NEW u \in Users, NEW t \in Tokens, Begin(w, u, t)
  PROVE  UNCHANGED HashLife!vars
<1>1. /\ UNCHANGED <<mem, granted>>
      /\ \A x \in Tokens : status'[x] \in RowStates <=> status[x] \in RowStates
      /\ \A x \in Tokens : status[x] \in RowStates => owner'[x] = owner[x]
      /\ pc[w] = "idle" /\ pc'[w] \notin {"store", "regstore"}
      /\ \A v \in Workers \ {w} : pc'[v] = pc[v] /\ tok'[v] = tok[v]
  BY DEF Begin, BeginLogin, BeginRegister, BeginList, BeginDisconnect, Draw, Validate, Goto,
         IInv, TypeOK, RowStates, rowVars, memVars
<1>2. \A x \in Tokens : LifeOf(x)' = LifeOf(x)
  <2> TAKE x \in Tokens
  <2>1. x \in AboutToStore' <=> x \in AboutToStore
    BY <1>1 DEF AboutToStore
  <2>. QED BY <1>1, <2>1 DEF LifeOf
<1>. QED BY <1>1, <1>2 DEF HashLife!vars, UserOf

\* Every behaviour of Sessions gives its hashes the life SessionLife promises:
\* none is honoured before its row is committed, nor again after its session
\* has ended, however requests, the sweep and restarts interleave.
THEOREM SessionsImplementLife == Spec => ImplementsSessionLife
<1>1. Init => HashLife!Init
  BY SessionsAssumption DEF Init, HashLife!Init, LifeOf, UserOf, RowStates
<1>2. IInv /\ Hashes /\ [Next]_vars => [HashLife!Next]_(HashLife!vars)
  <2> SUFFICES ASSUME IInv, Hashes, [Next]_vars
               PROVE  HashLife!Next \/ UNCHANGED HashLife!vars
    OBVIOUS
  <2>1. CASE \E w \in Workers : Step(w)
    <3>1. PICK w \in Workers : Step(w)
      BY <2>1
    <3>2. CASE Commit(w) \/ CommitInDoubt(w)
      <4>1. tok[w] \in Tokens /\ user[w] \in Users
        BY <3>2 DEF IInv, DrawnTokens, Commit, CommitInDoubt, CommitRows, InTxn
      <4>. QED BY <3>2, <4>1, CommitIssues DEF HashLife!Next
    <3>3. CASE Store(w)
      <4>1. tok[w] \in Tokens
        BY <3>3 DEF IInv, CommittedTokens, Store
      <4>. QED BY <3>3, <4>1, StoreStarts DEF HashLife!Next
    <3>. QED BY <3>1, <3>2, <3>3, HandlerTells, OtherEnds DEF Step, Progress
  <2>2. CASE \E w \in Workers, u \in Users, t \in Tokens : Begin(w, u, t)
    BY <2>2, BeginStutters
  <2>. QED BY <2>1, <2>2, OtherEnds DEF Next
<1>. QED
  BY <1>1, <1>2, Invariance, HashInvariance, PTL DEF Spec, ImplementsSessionLife, HashLife!Spec

\* What SessionLife promises, proved of it, holds of Sessions.
LEMMA LifeInvariance ==
  HashLife!Spec => [](HashLife!OneLiveHash /\ HashLife!KnownHashesAreHis)
<1> DEFINE One == \A x, y \in Tokens :
                    LifeOf(x) = "live" /\ LifeOf(y) = "live" /\ UserOf(x) = UserOf(y) => x = y
           Known == \A u \in Users : \A x \in granted[u] :
                      UserOf(x) = u /\ LifeOf(x) \in {"live", "over"}
           Inv == granted \in [Users -> SUBSET Tokens] /\ One /\ Known
<1>1. HashLife!Init => Inv
  BY DEF HashLife!Init
<1>2. Inv /\ [HashLife!Next]_(HashLife!vars) => Inv'
  <2> SUFFICES ASSUME Inv, [HashLife!Next]_(HashLife!vars) PROVE Inv'
    OBVIOUS
  <2>1. ASSUME NEW t \in Tokens, NEW u \in Users, HashLife!Issue(t, u)
        PROVE  Inv'
    <3>1. /\ LifeOf(t) = "new" /\ LifeOf(t)' \in {"ready", "over"}
          /\ \A x \in Tokens \ {t} : LifeOf(x)' = LifeOf(x) /\ UserOf(x)' = UserOf(x)
          /\ UNCHANGED granted
      BY <2>1 DEF HashLife!Issue
    <3>. QED BY <3>1
  <2>2. ASSUME NEW t \in Tokens, HashLife!Start(t)
        PROVE  Inv'
    <3>1. /\ \A x \in Tokens : UserOf(x)' = UserOf(x)
          /\ \A x \in Tokens :
               LifeOf(x)' = IF x = t THEN "live"
                            ELSE IF LifeOf(x) = "live" /\ UserOf(x) = UserOf(t) THEN "over"
                            ELSE LifeOf(x)
          /\ LifeOf(t) = "ready" /\ UNCHANGED granted
      BY <2>2 DEF HashLife!Start
    <3>. QED BY <3>1
  <2>3. ASSUME NEW S \in SUBSET Tokens, HashLife!End(S)
        PROVE  Inv'
    <3>1. /\ \A x \in Tokens : UserOf(x)' = UserOf(x)
          /\ \A x \in Tokens : LifeOf(x)' = IF x \in S THEN "over" ELSE LifeOf(x)
          /\ UNCHANGED granted
      BY <2>3 DEF HashLife!End
    <3>. QED BY <3>1
  <2>4. ASSUME NEW t \in Tokens, NEW u \in Users, HashLife!Tell(u, t)
        PROVE  Inv'
    BY <2>4 DEF HashLife!Tell
  <2>5. CASE UNCHANGED HashLife!vars
    BY <2>5 DEF HashLife!vars
  <2>. QED BY <2>1, <2>2, <2>3, <2>4, <2>5 DEF HashLife!Next
<1>3. Inv => HashLife!OneLiveHash /\ HashLife!KnownHashesAreHis
  BY DEF HashLife!OneLiveHash, HashLife!KnownHashesAreHis
<1>. QED BY <1>1, <1>2, <1>3, PTL DEF HashLife!Spec

LEMMA LifeOverForGood == HashLife!Spec => HashLife!OverForGood
<1>1. [HashLife!Next]_(HashLife!vars) => [HashLife!StaysOver]_(HashLife!vars)
  <2> SUFFICES ASSUME HashLife!Next, NEW t \in Tokens, LifeOf(t) = "over"
               PROVE  LifeOf(t)' = "over"
    BY DEF HashLife!StaysOver
  <2>1. ASSUME NEW x \in Tokens, NEW u \in Users, HashLife!Issue(x, u) \/ HashLife!Tell(u, x)
        PROVE  LifeOf(t)' = "over"
    BY <2>1 DEF HashLife!Issue, HashLife!Tell
  <2>2. ASSUME NEW x \in Tokens, HashLife!Start(x)
        PROVE  LifeOf(t)' = "over"
    BY <2>2 DEF HashLife!Start
  <2>3. ASSUME NEW S \in SUBSET Tokens, HashLife!End(S)
        PROVE  LifeOf(t)' = "over"
    BY <2>3 DEF HashLife!End
  <2>. QED BY <2>1, <2>2, <2>3 DEF HashLife!Next
<1>. QED BY <1>1, PTL DEF HashLife!Spec, HashLife!OverForGood

\* However requests, the sweep and restarts interleave: a user has one session
\* that is honoured at most, and was sent no hash that had not been.
THEOREM OneLiveSession == Spec => [](HashLife!OneLiveHash /\ HashLife!KnownHashesAreHis)
BY SessionsImplementLife, LifeInvariance, PTL DEF ImplementsSessionLife

\* A session that was replaced, ended or swept, or that a restart has lost, is
\* never honoured again, whoever still presents its hash.
THEOREM SessionsEndForGood == Spec => HashLife!OverForGood
BY SessionsImplementLife, LifeOverForGood, PTL DEF ImplementsSessionLife

\* However logins overlap, a user has no more active rows than the pool has
\* threads: with one thread, the one active session that is asked for.
THEOREM ActiveRowsAreBounded ==
  Spec => [](IsFiniteSet(Workers) =>
               \A u \in Users : Cardinality(ActiveRows(u)) <= Cardinality(Workers))
<1>1. IInv /\ Hashes =>
        (IsFiniteSet(Workers) =>
           \A u \in Users : Cardinality(ActiveRows(u)) <= Cardinality(Workers))
  <2> SUFFICES ASSUME IInv, Hashes, IsFiniteSet(Workers), NEW u \in Users
               PROVE  Cardinality(ActiveRows(u)) <= Cardinality(Workers)
    OBVIOUS
  <2> DEFINE inserter == [t \in ActiveRows(u) |-> by[t]]
  <2>1. inserter \in Injection(ActiveRows(u), Workers)
    <3>1. \A t \in ActiveRows(u) : by[t] \in Workers
      BY DEF ActiveRows, Hashes, OwnedRows, RowStates
    <3>2. \A t1, t2 \in ActiveRows(u) : by[t1] = by[t2] => t1 = t2
      BY DEF ActiveRows, IInv, ActiveRowsFromDistinctWorkers
    <3>. QED BY <3>1, <3>2 DEF Injection, IsInjective
  <2>. QED BY <2>1, FS_Injection
<1>. QED BY <1>1, Invariance, HashInvariance, PTL
=============================================================================
