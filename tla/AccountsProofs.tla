--------------------------- MODULE AccountsProofs ---------------------------
(***************************************************************************)
(* Proofs about Accounts: for any number of workers and accounts, no wrong *)
(* password goes uncounted, the lock follows the counter, a lock that has  *)
(* engaged is overrun by fewer guesses than there are workers, and a login *)
(* is taken twice only by different workers; and that each decision on a   *)
(* login is one step of LoginPolicy.                                       *)
(***************************************************************************)
EXTENDS Accounts, FiniteSetTheorems, TLAPS

\* A worker knows the login it works for, and the row it has found bears it;
\* the row it has inserted is seen by nobody yet, and is its own.
Found == {"verify", "increment", "incremented", "reset", "wasreset", "ban"}

Requests ==
  \A w \in Workers :
    /\ pc[w] # "idle" => login[w] \in Logins
    /\ pc[w] \in Found => found[w] \in Users /\ name[found[w]] = login[w]
    /\ pc[w] = "inserted" =>
         /\ found[w] \in Users /\ name[found[w]] = NoLogin
         /\ \A v \in Workers : pc[v] = "inserted" /\ found[v] = found[w] => v = w

\* What a transaction has read of a row it holds is still the row's value.
HeldRows ==
  \A w \in Workers :
    /\ pc[w] = "incremented" =>
         held[w] \subseteq Rows(login[w]) /\ \A u \in held[w] : base[w][u] < CounterMax
    /\ pc[w] = "wasreset" => held[w] = {found[w]}
    /\ pc[w] \notin {"incremented", "wasreset"} => held[w] = {}
    /\ \A u \in held[w] : base[w][u] = attempts[u]
    /\ \A v \in Workers : v # w => held[v] \intersect held[w] = {}

\* An id without a row has nothing counted against it.
BlankRows ==
  \A u \in Users : name[u] = NoLogin =>
    attempts[u] = 0 /\ lock[u] = "none" /\ over[u] = 0

\* The guesses at u that have passed the query and not been counted yet.
Guessing(u) ==
  {w \in Workers : pc[w] \in {"verify", "increment", "incremented"} /\ found[w] = u}

\* Once the lock has engaged, each guess that is counted was one of those.
GuessesRunOut ==
  \A u \in Users : Unique(u) /\ lock[u] = "live" =>
    over[u] + Cardinality(Guessing(u)) < Cardinality(Workers)

\* A registration that has seen the name free finds it taken by others only.
OthersTakeNames ==
  \A w \in Workers, u \in Users :
    /\ pc[w] \in {"insert", "inserted"}
    /\ name[u] # NoLogin /\ Lower(name[u]) = Lower(login[w])
    => madeBy[u] # w

IInv ==
  /\ TypeOK
  /\ Requests
  /\ HeldRows
  /\ BlankRows
  /\ EveryFailureIsCounted
  /\ LockFollowsCounter
  /\ BurstIsBounded
  /\ GuessesRunOut
  /\ OthersTakeNames
  /\ SameLoginFromDistinctWorkers

-----------------------------------------------------------------------------

LEMMA GuessingIsFinite ==
  ASSUME AccountsAssumption, NEW u \in Users
  PROVE  /\ IsFiniteSet(Guessing(u))
         /\ Cardinality(Guessing(u)) \in Nat
         /\ Cardinality(Workers) \in Nat \ {0}
<1>1. Guessing(u) \in SUBSET Workers /\ IsFiniteSet(Workers) /\ Workers # {}
  BY DEF Guessing, AccountsAssumption
<1>2. IsFiniteSet(Guessing(u))
  BY <1>1, FS_Subset
<1>. QED BY <1>1, <1>2, FS_CardinalityType, FS_EmptySet

\* Guesses that leave, for whatever reason, leave room under the bound.
LEMMA FewerGuesses ==
  ASSUME AccountsAssumption, NEW u \in Users, Guessing(u)' \subseteq Guessing(u)
  PROVE  /\ Cardinality(Guessing(u)') \in Nat
         /\ Cardinality(Guessing(u)') <= Cardinality(Guessing(u))
<1>1. IsFiniteSet(Guessing(u)) /\ Guessing(u)' \in SUBSET Guessing(u)
  BY GuessingIsFinite
<1>2. IsFiniteSet(Guessing(u)') /\ Cardinality(Guessing(u)') <= Cardinality(Guessing(u))
  BY <1>1, FS_Subset
<1>. QED BY <1>2, FS_CardinalityType

LEMMA InitIInv == Init => IInv
<1> SUFFICES ASSUME Init PROVE IInv
  OBVIOUS
<1> USE AccountsAssumption DEF Init, AccountsAssumption
<1>1. TypeOK
  BY DEF TypeOK, PcStates, Answers
<1>2. Requests /\ HeldRows /\ BlankRows /\ OthersTakeNames
  BY DEF Requests, HeldRows, BlankRows, OthersTakeNames, Found
<1>3. EveryFailureIsCounted /\ LockFollowsCounter /\ SameLoginFromDistinctWorkers
  BY DEF EveryFailureIsCounted, LockFollowsCounter, SameLoginFromDistinctWorkers,
         LockLimit
<1>4. BurstIsBounded
  <2>1. ASSUME NEW u \in Users PROVE Cardinality(Workers) \in Nat \ {0}
    BY GuessingIsFinite
  <2>. QED BY <2>1 DEF BurstIsBounded
<1>5. GuessesRunOut
  BY DEF GuessesRunOut
<1>. QED BY <1>1, <1>2, <1>3, <1>4, <1>5 DEF IInv

-----------------------------------------------------------------------------
(***************************************************************************)
(* Steps that change no row, but for what the game masters decide.  What   *)
(* is left to show of them is about the workers.                           *)
(***************************************************************************)

LEMMA SameRowsIInv ==
  ASSUME IInv, TypeOK', Requests', HeldRows', OthersTakeNames',
         UNCHANGED <<name, attempts, lock, failures, over, madeBy>>,
         \A u \in Users : lock[u] = "live" => Guessing(u)' \subseteq Guessing(u)
  PROVE  IInv'
<1>1. /\ BlankRows' /\ EveryFailureIsCounted' /\ LockFollowsCounter'
      /\ SameLoginFromDistinctWorkers'
  BY DEF IInv, BlankRows, EveryFailureIsCounted, LockFollowsCounter,
         SameLoginFromDistinctWorkers
<1>2. BurstIsBounded'
  BY DEF IInv, BurstIsBounded, Unique, Rows
<1>3. GuessesRunOut'
  <2> SUFFICES ASSUME NEW u \in Users, Unique(u)', lock'[u] = "live"
               PROVE  over'[u] + Cardinality(Guessing(u)') < Cardinality(Workers)
    BY DEF GuessesRunOut
  <2>1. Unique(u) /\ lock[u] = "live" /\ over'[u] = over[u] /\ over[u] \in Nat
    BY DEF Unique, Rows, IInv, TypeOK
  <2>2. over[u] + Cardinality(Guessing(u)) < Cardinality(Workers)
    BY <2>1 DEF IInv, GuessesRunOut
  <2>3. /\ Cardinality(Guessing(u)') \in Nat
        /\ Cardinality(Guessing(u)') <= Cardinality(Guessing(u))
    BY <2>1, AccountsAssumption, FewerGuesses
  <2>4. Cardinality(Guessing(u)) \in Nat /\ Cardinality(Workers) \in Nat
    BY AccountsAssumption, GuessingIsFinite
  <2>. QED BY <2>1, <2>2, <2>3, <2>4
<1>. QED BY <1>1, <1>2, <1>3 DEF IInv

\* Requests that begin and end, and steps that only look.
LEMMA LookingIInv ==
  ASSUME IInv, NEW w \in Workers, NEW l \in Logins,
         \/ Begin(w, l, "search") \/ Begin(w, l, "check") \/ Replied(w)
         \/ Search(w) \/ Probe(w) \/ Verify(w) \/ CheckBan(w) \/ CheckLogin(w)
  PROVE  IInv'
<1> USE DEF IInv, Goto, Reply, userRows, request, txn, history
<1>1. /\ \E where \in PcStates \ {"inserted", "incremented", "wasreset"} :
           pc' = [pc EXCEPT ![w] = where]
      /\ UNCHANGED <<name, attempts, lock, active, banned, base, held, failures,
                     over, madeBy>>
      /\ pc[w] \notin {"inserted", "incremented", "wasreset"}
  BY DEF Begin, Replied, Search, Probe, Verify, CheckBan, CheckLogin, PcStates
<1>2. /\ \/ login' = login
         \/ login' = [login EXCEPT ![w] = l]
         \/ login' = [login EXCEPT ![w] = NoLogin] /\ pc'[w] = "idle"
      /\ \/ found' = found
         \/ found' = [found EXCEPT ![w] = NoUser]
         \/ \E u \in Rows(login[w]) : found' = [found EXCEPT ![w] = u]
      /\ \E a \in Answers : answer' = [answer EXCEPT ![w] = a] \/ answer' = answer
      /\ \E r \in {"no", "unknown", "locked", "inactive"} :
            refused' = [refused EXCEPT ![w] = r] \/ refused' = refused
  BY DEF TypeOK, Begin, Replied, Search, Probe, Verify, CheckBan, CheckLogin, Answers
<1>3. TypeOK'
  <2>1. pc' \in [Workers -> PcStates]
    BY <1>1 DEF TypeOK
  <2>2. login' \in [Workers -> Logins \union {NoLogin}]
    BY <1>2 DEF TypeOK
  <2>4. found' \in [Workers -> Users \union {NoUser}]
    <3>1. ASSUME NEW u \in Users \union {NoUser}, found' = [found EXCEPT ![w] = u]
          PROVE  found' \in [Workers -> Users \union {NoUser}]
      BY <3>1 DEF TypeOK
    <3>. QED BY <1>2, <3>1 DEF TypeOK, Rows
  <2>3. /\ answer' \in [Workers -> Answers]
        /\ refused' \in [Workers -> {"no", "unknown", "locked", "inactive"}]
    BY DEF TypeOK, Answers, Begin, Replied, Search, Probe, Verify, CheckBan, CheckLogin
  <2>. QED BY <1>1, <2>1, <2>2, <2>3, <2>4 DEF TypeOK
<1>4. Requests'
  <2>1. CASE Begin(w, l, "search") \/ Begin(w, l, "check")
    BY <2>1 DEF TypeOK, Begin, Requests, Found
  <2>2. CASE Replied(w)
    BY <2>2 DEF TypeOK, Replied, Requests, Found
  <2>3. CASE Search(w)
    BY <2>3 DEF TypeOK, Search, Requests, Found, Rows
  <2>4. CASE Probe(w) \/ Verify(w) \/ CheckBan(w) \/ CheckLogin(w)
    BY <2>4 DEF TypeOK, Probe, Verify, CheckBan, CheckLogin, Requests, Found
  <2>. QED BY <2>1, <2>2, <2>3, <2>4
<1>5. HeldRows'
  <2>1. \A v \in Workers : pc'[v] \in {"incremented", "wasreset"} =>
          v # w /\ pc'[v] = pc[v] /\ login'[v] = login[v] /\ found'[v] = found[v]
    BY <1>1, <1>2 DEF TypeOK
  <2>2. \A v \in Workers : pc'[v] \notin {"incremented", "wasreset"} => held'[v] = {}
    BY <1>1 DEF TypeOK, HeldRows
  <2>. QED BY <1>1, <2>1, <2>2 DEF HeldRows, Rows
<1>6. OthersTakeNames'
  <2>1. CASE CheckLogin(w)
    BY <2>1 DEF TypeOK, CheckLogin, OthersTakeNames
  <2>2. CASE ~CheckLogin(w)
    <3>1. pc'[w] \notin {"insert", "inserted"}
      BY <2>2 DEF TypeOK, Begin, Replied, Search, Probe, Verify, CheckBan
    <3>2. \A v \in Workers \ {w} : pc'[v] = pc[v] /\ login'[v] = login[v]
      BY <1>1, <1>2 DEF TypeOK
    <3>. QED BY <1>1, <3>1, <3>2 DEF OthersTakeNames
  <2>. QED BY <2>1, <2>2
<1>7. \A u \in Users : lock[u] = "live" => Guessing(u)' \subseteq Guessing(u)
  <2>1. CASE Search(w)
    BY <2>1 DEF TypeOK, Search, Guessing, Visible
  <2>2. CASE ~Search(w)
    <3>1. pc'[w] \in {"verify", "increment", "incremented"} =>
            pc[w] = "verify" /\ found' = found
      BY <2>2 DEF TypeOK, Begin, Replied, Probe, Verify, CheckBan, CheckLogin
    <3>2. \A v \in Workers \ {w} : pc'[v] = pc[v] /\ found'[v] = found[v]
      BY <1>1, <1>2 DEF TypeOK
    <3>. QED BY <3>1, <3>2 DEF Guessing
  <2>. QED BY <2>1, <2>2
<1>. QED BY <1>1, <1>3, <1>4, <1>5, <1>6, <1>7, SameRowsIInv

\* An UPDATE that gets its rows.
LEMMA UpdateIInv ==
  ASSUME IInv, NEW w \in Workers, Increment(w) \/ Reset(w)
  PROVE  IInv'
<1> USE DEF IInv, Goto, userRows, request, history, Update
<1>1. TypeOK'
  <2>1. Rows(login[w]) \in SUBSET Users /\ (pc[w] = "reset" => found[w] \in Users)
    BY DEF Requests, Found, Rows
  <2>2. CASE Increment(w)
    BY <2>1, <2>2 DEF TypeOK, PcStates, Increment
  <2>3. CASE Reset(w)
    BY <2>1, <2>3 DEF TypeOK, PcStates, Reset
  <2>. QED BY <2>2, <2>3
<1>2. Requests'
  BY DEF TypeOK, Requests, Found, Increment, Reset
<1>3. HeldRows'
  <2>1. CASE Increment(w)
    <3>1. /\ pc'[w] = "incremented" /\ held'[w] = Rows(login[w])
          /\ base'[w] = attempts /\ attempts' = attempts
          /\ \A u \in held'[w] : attempts[u] < CounterMax
          /\ \A v \in Workers \ {w} :
               /\ held'[v] \intersect held'[w] = {}
               /\ pc'[v] = pc[v] /\ held'[v] = held[v] /\ base'[v] = base[v]
      BY <2>1 DEF TypeOK, Increment
    <3>2. \A l \in Logins : Rows(l)' = Rows(l)
      BY <2>1 DEF Increment, Rows
    <3>. QED BY <2>1, <3>1, <3>2 DEF HeldRows, Increment, Rows
  <2>2. CASE Reset(w)
    <3>1. /\ pc'[w] = "wasreset" /\ held'[w] = {found[w]}
          /\ base'[w] = attempts /\ attempts' = attempts
          /\ \A v \in Workers \ {w} :
               /\ held'[v] \intersect held'[w] = {}
               /\ pc'[v] = pc[v] /\ held'[v] = held[v] /\ base'[v] = base[v]
      BY <2>2 DEF TypeOK, Reset
    <3>. QED BY <2>2, <3>1 DEF HeldRows, Reset, Rows
  <2>. QED BY <2>1, <2>2
<1>4. OthersTakeNames'
  BY DEF TypeOK, OthersTakeNames, Increment, Reset
<1>5. \A u \in Users : Guessing(u)' \subseteq Guessing(u)
  BY DEF TypeOK, Guessing, Increment, Reset
<1>. QED BY <1>1, <1>2, <1>3, <1>4, <1>5, SameRowsIInv DEF Increment, Reset

\* An INSERT nobody sees yet.
LEMMA InsertIInv ==
  ASSUME IInv, NEW w \in Workers, NEW u \in Users, Insert(w, u)
  PROVE  IInv'
<1> USE DEF IInv, Goto, userRows, txn, history, Insert
<1>1. TypeOK'
  BY DEF TypeOK, PcStates
<1>2. Requests'
  BY DEF TypeOK, Requests, Found
<1>3. HeldRows'
  BY DEF TypeOK, HeldRows, Rows
<1>4. OthersTakeNames'
  BY DEF TypeOK, OthersTakeNames
<1>5. \A v \in Users : Guessing(v)' \subseteq Guessing(v)
  BY DEF TypeOK, Guessing
<1>. QED BY <1>1, <1>2, <1>3, <1>4, <1>5, SameRowsIInv

\* A transaction that is rolled back, and what the game masters decide.
LEMMA RollBackIInv ==
  ASSUME IInv, NEW w \in Workers, RollBack(w)
  PROVE  IInv'
<1> USE DEF IInv, Goto, Reply, EndTxn, userRows, request, history, RollBack,
        InLogin, InRegister
<1>1. TypeOK'
  <2>1. [u \in Users |-> 0] \in [Users -> 0..CounterMax]
    BY AccountsAssumption DEF AccountsAssumption
  <2>. QED BY <2>1 DEF TypeOK, PcStates, Answers
<1>2. Requests'
  BY DEF TypeOK, Requests, Found
<1>3. HeldRows'
  BY DEF TypeOK, HeldRows, Rows
<1>4. OthersTakeNames'
  BY DEF TypeOK, OthersTakeNames
<1>5. \A v \in Users : Guessing(v)' \subseteq Guessing(v)
  BY DEF TypeOK, Guessing
<1>. QED BY <1>1, <1>2, <1>3, <1>4, <1>5, SameRowsIInv

LEMMA ModerateIInv ==
  ASSUME IInv, NEW u \in Users, Moderate(u)
  PROVE  IInv'
<1> USE DEF IInv, request, txn, history, Moderate
<1>1. TypeOK'
  BY DEF TypeOK
<1>2. Requests' /\ HeldRows' /\ OthersTakeNames'
  BY DEF Requests, HeldRows, OthersTakeNames, Rows
<1>3. \A v \in Users : Guessing(v)' \subseteq Guessing(v)
  BY DEF Guessing
<1>. QED BY <1>1, <1>2, <1>3, SameRowsIInv

-----------------------------------------------------------------------------
(***************************************************************************)
(* The commits.                                                            *)
(***************************************************************************)

\* A commit that counts a failure.  A row that bears its login uniquely is the
\* one the worker has found: the worker was guessing at it, and is no more.
LEMMA CommitIncrementIInv ==
  ASSUME IInv, NEW w \in Workers, CommitIncrement(w)
  PROVE  IInv'
<1> USE DEF IInv, Goto, Reply, EndTxn, request, CommitIncrement
<1>0. /\ LockLimit = 5 /\ CounterMax \in Nat
      /\ held[w] \subseteq Rows(login[w])
      /\ \A u \in held[w] : base[w][u] = attempts[u] /\ attempts[u] < CounterMax
  BY AccountsAssumption DEF LockLimit, AccountsAssumption, HeldRows, TypeOK
<1>1. TypeOK'
  <2>1. /\ [u \in Users |-> 0] \in [Users -> 0..CounterMax]
        /\ attempts' \in [Users -> 0..CounterMax]
    BY <1>0 DEF TypeOK
  <2>2. /\ lock' \in [Users -> {"none", "live", "expired"}]
        /\ failures' \in [Users -> Nat]
        /\ over' \in [Users -> Nat]
    BY <1>0 DEF TypeOK
  <2>3. pc' \in [Workers -> PcStates] /\ answer' \in [Workers -> Answers]
    BY DEF TypeOK, PcStates, Answers
  <2>. QED BY <2>1, <2>2, <2>3 DEF TypeOK
<1>2. Requests'
  BY DEF TypeOK, Requests, Found
<1>3. HeldRows'
  <2>1. \A v \in Workers \ {w} :
          /\ pc'[v] = pc[v] /\ held'[v] = held[v] /\ base'[v] = base[v]
          /\ \A u \in held[v] : u \notin held[w] /\ u \in Users
    BY DEF TypeOK, HeldRows
  <2>2. \A v \in Workers \ {w} : \A u \in held[v] : attempts'[u] = attempts[u]
    BY <2>1 DEF TypeOK
  <2>3. held'[w] = {} /\ pc'[w] = "reply"
    BY DEF TypeOK
  <2>. QED BY <2>1, <2>2, <2>3 DEF HeldRows, Rows
<1>4. BlankRows'
  <2>1. \A u \in Users : name[u] = NoLogin => u \notin held[w]
    BY <1>0, AccountsAssumption DEF AccountsAssumption, Rows, Requests
  <2>. QED BY <2>1 DEF TypeOK, BlankRows
<1>5. EveryFailureIsCounted'
  BY <1>0 DEF TypeOK, EveryFailureIsCounted
<1>6. LockFollowsCounter'
  BY <1>0 DEF TypeOK, LockFollowsCounter
<1>7. BurstIsBounded' /\ GuessesRunOut'
  <2> SUFFICES ASSUME NEW u \in Users, Unique(u)
               PROVE  /\ over'[u] < Cardinality(Workers)
                      /\ lock'[u] = "live" =>
                           over'[u] + Cardinality(Guessing(u)') < Cardinality(Workers)
    BY DEF BurstIsBounded, GuessesRunOut, Unique, Rows
  <2>1. /\ IsFiniteSet(Guessing(u)) /\ Cardinality(Guessing(u)) \in Nat
        /\ Cardinality(Workers) \in Nat \ {0}
        /\ over[u] \in Nat /\ over[u] < Cardinality(Workers)
        /\ lock[u] = "live" => over[u] + Cardinality(Guessing(u)) < Cardinality(Workers)
    BY GuessingIsFinite, AccountsAssumption DEF BurstIsBounded, GuessesRunOut, TypeOK
  <2>2. Guessing(u)' = Guessing(u) \ {w}
    BY DEF TypeOK, Guessing
  <2>3. CASE u \notin held[w]
    <3>1. over'[u] = over[u] /\ lock'[u] = lock[u]
      BY <2>3
    <3>2. /\ Cardinality(Guessing(u)') \in Nat
          /\ Cardinality(Guessing(u)') <= Cardinality(Guessing(u))
      BY <2>2, FewerGuesses, AccountsAssumption
    <3>. QED BY <2>1, <3>1, <3>2
  <2>4. CASE u \in held[w]
    <3>1. w \in Guessing(u)
      <4>1. /\ name[found[w]] = login[w] /\ found[w] \in Users
            /\ name[u] = login[w]
        BY <2>4, <1>0 DEF Requests, Found, Rows
      <4>2. found[w] = u
        BY <4>1 DEF Unique, Rows
      <4>. QED BY <4>2 DEF Guessing
    <3>2. Cardinality(Guessing(u)') = Cardinality(Guessing(u)) - 1
      <4>1. Cardinality(Guessing(u) \ {w}) = Cardinality(Guessing(u)) - 1
        BY <2>1, <3>1, FS_RemoveElement, ZenonT(30)
      <4>. QED BY <2>2, <4>1, Zenon
    <3>3. CASE lock[u] = "live"
      <4>1. over'[u] = over[u] + 1
        BY <2>4, <3>3
      <4>2. Cardinality(Guessing(u)) # 0
        BY <2>1, <3>1, FS_EmptySet
      <4>. QED BY <2>1, <3>2, <3>3, <4>1, <4>2
    <3>4. CASE lock[u] # "live"
      <4>1. over'[u] = 0
        BY <2>4, <3>4
      <4>2. Cardinality(Guessing(u)) <= Cardinality(Workers)
        BY FS_Subset, AccountsAssumption DEF Guessing, AccountsAssumption
      <4>. QED BY <2>1, <3>2, <4>1, <4>2
    <3>. QED BY <3>3, <3>4
  <2>. QED BY <2>3, <2>4
<1>8. OthersTakeNames' /\ SameLoginFromDistinctWorkers'
  BY DEF TypeOK, OthersTakeNames, SameLoginFromDistinctWorkers
<1>. QED BY <1>1, <1>2, <1>3, <1>4, <1>5, <1>6, <1>7, <1>8

\* A commit that clears the counter and the lock of the row that was found.
LEMMA CommitResetIInv ==
  ASSUME IInv, NEW w \in Workers, CommitReset(w)
  PROVE  IInv'
<1> USE DEF IInv, Goto, Reply, EndTxn, request, CommitReset
<1>0. /\ LockLimit = 5 /\ CounterMax \in Nat
      /\ found[w] \in Users /\ held[w] = {found[w]}
      /\ name[found[w]] = login[w] /\ login[w] \in Logins
  BY AccountsAssumption DEF LockLimit, AccountsAssumption, HeldRows, Requests, Found
<1>1. TypeOK'
  <2>1. /\ [u \in Users |-> 0] \in [Users -> 0..CounterMax]
        /\ attempts' \in [Users -> 0..CounterMax]
    BY <1>0 DEF TypeOK
  <2>2. /\ lock' \in [Users -> {"none", "live", "expired"}]
        /\ failures' \in [Users -> Nat]
        /\ over' \in [Users -> Nat]
    BY <1>0 DEF TypeOK
  <2>3. pc' \in [Workers -> PcStates] /\ answer' \in [Workers -> Answers]
    BY DEF TypeOK, PcStates, Answers
  <2>. QED BY <2>1, <2>2, <2>3 DEF TypeOK
<1>2. Requests'
  BY DEF TypeOK, Requests, Found
<1>3. HeldRows'
  <2>1. \A v \in Workers \ {w} :
          /\ pc'[v] = pc[v] /\ held'[v] = held[v] /\ base'[v] = base[v]
          /\ \A u \in held[v] : u # found[w] /\ u \in Users
    BY <1>0 DEF TypeOK, HeldRows
  <2>2. \A v \in Workers \ {w} : \A u \in held[v] : attempts'[u] = attempts[u]
    BY <2>1 DEF TypeOK
  <2>3. held'[w] = {} /\ pc'[w] \in {"reply", "ban"}
    BY DEF TypeOK
  <2>. QED BY <2>1, <2>2, <2>3 DEF HeldRows, Rows
<1>4. BlankRows' /\ EveryFailureIsCounted' /\ LockFollowsCounter'
  BY <1>0 DEF TypeOK, BlankRows, EveryFailureIsCounted, LockFollowsCounter
<1>5. BurstIsBounded' /\ GuessesRunOut'
  <2> SUFFICES ASSUME NEW u \in Users, Unique(u)
               PROVE  /\ over'[u] < Cardinality(Workers)
                      /\ lock'[u] = "live" =>
                           over'[u] + Cardinality(Guessing(u)') < Cardinality(Workers)
    BY DEF BurstIsBounded, GuessesRunOut, Unique, Rows
  <2>1. /\ Cardinality(Guessing(u)) \in Nat
        /\ Cardinality(Workers) \in Nat \ {0}
        /\ over[u] \in Nat /\ over[u] < Cardinality(Workers)
        /\ lock[u] = "live" => over[u] + Cardinality(Guessing(u)) < Cardinality(Workers)
    BY GuessingIsFinite, AccountsAssumption DEF BurstIsBounded, GuessesRunOut, TypeOK
  <2>2. /\ Cardinality(Guessing(u)') \in Nat
        /\ Cardinality(Guessing(u)') <= Cardinality(Guessing(u))
    <3>1. Guessing(u)' \subseteq Guessing(u)
      BY DEF TypeOK, Guessing
    <3>. QED BY <3>1, FewerGuesses, AccountsAssumption
  <2>3. CASE u = found[w]
    <3>1. over'[u] = 0 /\ lock'[u] = "none"
      BY <2>3 DEF TypeOK
    <3>. QED BY <2>1, <3>1
  <2>4. CASE u # found[w]
    <3>1. over'[u] = over[u] /\ lock'[u] = lock[u]
      BY <2>4 DEF TypeOK
    <3>. QED BY <2>1, <2>2, <3>1
  <2>. QED BY <2>3, <2>4
<1>6. OthersTakeNames' /\ SameLoginFromDistinctWorkers'
  BY DEF TypeOK, OthersTakeNames, SameLoginFromDistinctWorkers
<1>. QED BY <1>1, <1>2, <1>3, <1>4, <1>5, <1>6

\* locked_until passes.
LEMMA ExpireIInv ==
  ASSUME IInv, NEW u \in Users, Expire(u)
  PROVE  IInv'
<1> USE DEF IInv, request, txn, history, Expire
<1>1. TypeOK'
  BY DEF TypeOK
<1>2. /\ Requests' /\ HeldRows' /\ OthersTakeNames' /\ EveryFailureIsCounted'
      /\ SameLoginFromDistinctWorkers'
  BY DEF Requests, HeldRows, OthersTakeNames, EveryFailureIsCounted,
         SameLoginFromDistinctWorkers, Rows
<1>3. BlankRows' /\ LockFollowsCounter'
  BY DEF TypeOK, BlankRows, LockFollowsCounter
<1>4. BurstIsBounded'
  BY DEF BurstIsBounded, Unique, Rows
<1>5. GuessesRunOut'
  <2>1. \A v \in Users : lock'[v] = "live" => lock[v] = "live"
    BY DEF TypeOK
  <2>2. \A v \in Users : Guessing(v)' = Guessing(v) /\ Unique(v)' = Unique(v)
    BY DEF Guessing, Unique, Rows
  <2>. QED BY <2>1, <2>2 DEF GuessesRunOut
<1>. QED BY <1>1, <1>2, <1>3, <1>4, <1>5

\* A registration that becomes visible: the row is new, its name was taken by
\* others only since this worker has looked.
LEMMA CommitInsertIInv ==
  ASSUME IInv, NEW w \in Workers, CommitInsert(w)
  PROVE  IInv'
<1> DEFINE f == found[w]
<1> USE DEF IInv, Goto, Reply, request, txn, CommitInsert
<1>0. /\ f \in Users /\ name[f] = NoLogin /\ login[w] \in Logins
      /\ NoLogin \notin Logins
      /\ name' = [name EXCEPT ![f] = login[w]]
      /\ madeBy' = [madeBy EXCEPT ![f] = w]
      /\ pc[w] = "inserted" /\ pc' = [pc EXCEPT ![w] = "reply"]
      /\ UNCHANGED <<attempts, lock, active, banned, login, found, refused, base,
                     held, failures, over>>
      /\ \E what \in Answers : answer' = [answer EXCEPT ![w] = what]
  BY AccountsAssumption DEF AccountsAssumption, Requests, Answers
<1>00. f' = f
  BY <1>0
<1> HIDE DEF f
<1>1. TypeOK'
  <2>1. /\ name' \in [Users -> Logins \union {NoLogin}]
        /\ madeBy' \in [Users -> Workers \union {NoWorker}]
    <3>1. login[w] \in Logins \union {NoLogin} /\ w \in Workers \union {NoWorker}
      BY <1>0
    <3>2. /\ name \in [Users -> Logins \union {NoLogin}]
          /\ madeBy \in [Users -> Workers \union {NoWorker}]
      BY DEF TypeOK
    <3>3. name' = [name EXCEPT ![f] = login[w]] /\ madeBy' = [madeBy EXCEPT ![f] = w]
      BY <1>0
    <3>4. name' \in [Users -> Logins \union {NoLogin}]
      BY <3>1, <3>2, <3>3
    <3>5. madeBy' \in [Users -> Workers \union {NoWorker}]
      BY <3>1, <3>2, <3>3
    <3>. QED BY <3>4, <3>5
  <2>2. pc' \in [Workers -> PcStates] /\ answer' \in [Workers -> Answers]
    BY <1>0 DEF TypeOK, PcStates
  <2>. QED BY <1>0, <2>1, <2>2 DEF TypeOK
<1>2. Requests'
  <2>1. \A v \in Workers \ {w} :
          /\ pc'[v] = pc[v] /\ login'[v] = login[v] /\ found'[v] = found[v]
          /\ pc[v] = "inserted" => found[v] # f
    BY <1>0 DEF TypeOK, Requests, f
  <2>. QED BY <1>0, <2>1 DEF TypeOK, Requests, Found
<1>3. HeldRows'
  <2>1. ASSUME NEW v \in Workers, pc[v] = "incremented"
        PROVE  held[v] \subseteq Rows(login[v])'
    <3>1. held[v] \subseteq Rows(login[v]) /\ login[v] # NoLogin
      BY <1>0, <2>1 DEF HeldRows, Requests
    <3>. QED BY <1>0, <3>1 DEF TypeOK, Rows
  <2>. QED BY <1>0, <2>1 DEF TypeOK, HeldRows
<1>4. BlankRows' /\ EveryFailureIsCounted' /\ LockFollowsCounter'
  BY <1>0 DEF TypeOK, BlankRows, EveryFailureIsCounted, LockFollowsCounter
<1>5. BurstIsBounded' /\ GuessesRunOut'
  <2> SUFFICES ASSUME NEW u \in Users, Unique(u)'
               PROVE  /\ over[u] < Cardinality(Workers)
                      /\ lock[u] = "live" =>
                           over[u] + Cardinality(Guessing(u)') < Cardinality(Workers)
    BY <1>0 DEF BurstIsBounded, GuessesRunOut
  <2>1. Cardinality(Workers) \in Nat \ {0}
    BY GuessingIsFinite, AccountsAssumption
  <2>2. CASE u = f
    BY <1>0, <2>1, <2>2 DEF BlankRows
  <2>3. CASE u # f
    <3>1. Unique(u)
      BY <1>0, <2>3 DEF TypeOK, Unique, Rows
    <3>2. Guessing(u)' = Guessing(u)
      BY <1>0 DEF TypeOK, Guessing
    <3>. QED BY <3>1, <3>2 DEF BurstIsBounded, GuessesRunOut
  <2>. QED BY <2>2, <2>3
<1>6. OthersTakeNames'
  BY <1>0 DEF TypeOK, OthersTakeNames
<1>7. SameLoginFromDistinctWorkers'
  <2>1. \A v \in Users : name[v] # NoLogin /\ Lower(name[v]) = Lower(login[w])
          => madeBy[v] # w
    BY <1>0 DEF OthersTakeNames
  <2>. QED BY <1>0, <2>1 DEF TypeOK, SameLoginFromDistinctWorkers
<1>. QED BY <1>1, <1>2, <1>3, <1>4, <1>5, <1>6, <1>7

-----------------------------------------------------------------------------

LEMMA NextIInv == IInv /\ [Next]_vars => IInv'
<1> SUFFICES ASSUME IInv, [Next]_vars PROVE IInv'
  OBVIOUS
<1>1. ASSUME NEW w \in Workers, Step(w) PROVE IInv'
  <2>1. Logins # {} \/ pc[w] = "idle"
    BY DEF IInv, Requests
  <2>2. CASE Search(w) \/ Probe(w) \/ Verify(w) \/ CheckBan(w) \/ CheckLogin(w)
             \/ Replied(w)
    <3>1. PICK l \in Logins : TRUE
      BY <2>1, <2>2 DEF Search, Probe, Verify, CheckBan, CheckLogin, Replied
    <3>. QED BY <2>2, LookingIInv
  <2>3. CASE Increment(w) \/ Reset(w)
    BY <2>3, UpdateIInv
  <2>4. CASE CommitIncrement(w)
    BY <2>4, CommitIncrementIInv
  <2>5. CASE CommitReset(w)
    BY <2>5, CommitResetIInv
  <2>6. CASE \E u \in Users : Insert(w, u)
    BY <2>6, InsertIInv
  <2>7. CASE CommitInsert(w)
    BY <2>7, CommitInsertIInv
  <2>8. CASE RollBack(w)
    BY <2>8, RollBackIInv
  <2>. QED BY <1>1, <2>2, <2>3, <2>4, <2>5, <2>6, <2>7, <2>8 DEF Step
<1>2. ASSUME NEW w \in Workers, NEW l \in Logins,
             Begin(w, l, "search") \/ Begin(w, l, "check")
      PROVE  IInv'
  BY <1>2, LookingIInv
<1>3. ASSUME NEW u \in Users, Expire(u) PROVE IInv'
  BY <1>3, ExpireIInv
<1>4. ASSUME NEW u \in Users, Moderate(u) PROVE IInv'
  BY <1>4, ModerateIInv
<1>5. CASE UNCHANGED vars
  <2>1. /\ TypeOK' /\ Requests' /\ HeldRows' /\ OthersTakeNames'
        /\ \A u \in Users : Guessing(u)' = Guessing(u)
    BY <1>5 DEF vars, IInv, TypeOK, Requests, HeldRows, OthersTakeNames, Rows, Guessing
  <2>. QED BY <1>5, <2>1, SameRowsIInv DEF vars
<1>. QED BY <1>1, <1>2, <1>3, <1>4, <1>5 DEF Next

THEOREM Invariance == Spec => []IInv
BY InitIInv, NextIInv, PTL DEF Spec

\* The variables of Accounts keep their types; the counter stays a smallint.
THEOREM TypeCorrect == Spec => []TypeOK
<1>1. IInv => TypeOK
  BY DEF IInv
<1>. QED BY <1>1, Invariance, PTL

\* increment_failed_logins loses no wrong password, whatever the interleaving.
THEOREM NoFailureIsLost == Spec => []EveryFailureIsCounted
<1>1. IInv => EveryFailureIsCounted
  BY DEF IInv
<1>. QED BY <1>1, Invariance, PTL

\* increment_failed_logins and reset_failed_logins keep failed_login_attempts
\* and locked_until together.
THEOREM LockIsTheCounters == Spec => []LockFollowsCounter
<1>1. IInv => LockFollowsCounter
  BY DEF IInv
<1>. QED BY <1>1, Invariance, PTL

\* After the lock engages, fewer wrong passwords are committed against the
\* account than the pool has threads.
THEOREM LockStopsGuesses == Spec => []BurstIsBounded
<1>1. IInv => BurstIsBounded
  BY DEF IInv
<1>. QED BY <1>1, Invariance, PTL

\* registerAccount's check keeps a worker from taking a name twice.
THEOREM NamesTakenTwiceByDistinctWorkers == Spec => []SameLoginFromDistinctWorkers
<1>1. IInv => SameLoginFromDistinctWorkers
  BY DEF IInv
<1>. QED BY <1>1, Invariance, PTL

-----------------------------------------------------------------------------
(***************************************************************************)
(* Accounts implements LoginPolicy.                                        *)
(***************************************************************************)

\* A guess that is being counted is counted for the account it was made at; a
\* request that has found no row yet names none.
Places ==
  \A w \in Workers :
    /\ pc[w] = "incremented" => found[w] \in held[w]
    /\ pc[w] \in {"idle", "search", "probe", "check", "insert"} => found[w] = NoUser

LEMMA InitPlaces == Init => Places
BY AccountsAssumption DEF Init, Places, AccountsAssumption

LEMMA NextPlaces == IInv /\ Places /\ [Next]_vars => Places'
<1> SUFFICES ASSUME IInv, Places, [Next]_vars PROVE Places'
  OBVIOUS
<1> USE DEF Places, Goto, Reply, userRows, request, txn, history
<1>0. TypeOK
  BY DEF IInv
<1>1. ASSUME NEW w \in Workers, Step(w) PROVE Places'
  <2>1. CASE Search(w) \/ Probe(w) \/ Verify(w) \/ CheckBan(w) \/ CheckLogin(w)
    BY <1>0, <2>1 DEF TypeOK, Search, Probe, Verify, CheckBan, CheckLogin
  <2>2. CASE Increment(w)
    <3>1. found[w] \in Rows(login[w])
      BY <2>2 DEF IInv, Requests, Found, Rows, Increment
    <3>. QED BY <1>0, <2>2, <3>1 DEF TypeOK, Increment, Update
  <2>3. CASE Reset(w)
    BY <1>0, <2>3 DEF TypeOK, Reset, Update
  <2>4. CASE CommitIncrement(w) \/ CommitReset(w) \/ CommitInsert(w) \/ RollBack(w)
    BY <1>0, <2>4 DEF TypeOK, CommitIncrement, CommitReset, CommitInsert, RollBack, EndTxn
  <2>5. CASE \E u \in Users : Insert(w, u)
    BY <1>0, <2>5 DEF TypeOK, Insert
  <2>6. CASE Replied(w)
    BY <1>0, <2>6 DEF TypeOK, Replied
  <2>. QED BY <1>1, <2>1, <2>2, <2>3, <2>4, <2>5, <2>6 DEF Step
<1>2. ASSUME NEW w \in Workers, NEW l \in Logins,
             Begin(w, l, "search") \/ Begin(w, l, "check")
      PROVE  Places'
  BY <1>0, <1>2 DEF TypeOK, Begin
<1>3. ASSUME NEW u \in Users, Expire(u) \/ Moderate(u) PROVE Places'
  BY <1>3 DEF Expire, Moderate
<1>4. CASE UNCHANGED vars
  BY <1>4 DEF vars
<1>. QED BY <1>1, <1>2, <1>3, <1>4 DEF Next

THEOREM PlacesInvariance == Spec => [](IInv /\ Places)
BY InitIInv, InitPlaces, NextIInv, NextPlaces, PTL DEF Spec

-----------------------------------------------------------------------------

stages  == [w \in Workers |-> StageOf(w)]
targets == [w \in Workers |-> TargetOf(w)]

\* A step of one worker changes what is decided on its own guess only.
LEMMA OneDecides ==
  ASSUME NEW w \in Workers,
         \A v \in Workers \ {w} :
           pc'[v] = pc[v] /\ answer'[v] = answer[v] /\ found'[v] = found[v]
  PROVE  /\ stages' = [stages EXCEPT ![w] = StageOf(w)']
         /\ targets' = [targets EXCEPT ![w] = TargetOf(w)']
<1>1. \A v \in Workers \ {w} : StageOf(v)' = StageOf(v) /\ TargetOf(v)' = TargetOf(v)
  BY DEF StageOf, TargetOf
<1>. QED BY <1>1 DEF stages, targets

\* A step that decides nothing.
LEMMA Undecided ==
  ASSUME NEW w \in Workers,
         \A v \in Workers \ {w} :
           pc'[v] = pc[v] /\ answer'[v] = answer[v] /\ found'[v] = found[v],
         StageOf(w)' = StageOf(w), TargetOf(w)' = TargetOf(w)
  PROVE  stages' = stages /\ targets' = targets
BY OneDecides DEF stages, targets

LEMMA PolicyInit == Init => Policy!Init
<1> SUFFICES ASSUME Init PROVE Policy!Init
  OBVIOUS
<1>1. \A w \in Workers : StageOf(w) = "none" /\ TargetOf(w) = NoUser
  BY DEF Init, StageOf, TargetOf
<1>. QED BY <1>1 DEF Init, Policy!Init

\* Where a worker only looks, waits, or answers, the policy at most admits a
\* guess, judges it, or forgets it.
LEMMA LookingStep ==
  ASSUME IInv, Places, NEW w \in Workers, NEW l \in Logins,
         \/ Begin(w, l, "search") \/ Begin(w, l, "check") \/ Replied(w)
         \/ Search(w) \/ Probe(w) \/ Verify(w) \/ CheckBan(w) \/ CheckLogin(w)
         \/ Increment(w) \/ Reset(w) \/ (\E u \in Users : Insert(w, u))
  PROVE  [Policy!Next]_Policy!vars
<1> USE DEF IInv, Goto, Reply, Update, userRows, request, txn, history
<1>0. /\ TypeOK /\ NoUser \notin Users
      /\ \A v \in Workers \ {w} :
           pc'[v] = pc[v] /\ answer'[v] = answer[v] /\ found'[v] = found[v]
      /\ UNCHANGED <<name, attempts, lock, active, banned>>
  BY AccountsAssumption
     DEF TypeOK, AccountsAssumption, Begin, Replied, Search, Probe, Verify, CheckBan,
         CheckLogin, Increment, Reset, Insert
<1>1. ASSUME StageOf(w)' = StageOf(w), TargetOf(w)' = TargetOf(w)
      PROVE  UNCHANGED Policy!vars
  BY <1>0, <1>1, Undecided DEF Policy!vars, stages, targets
<1>2. ASSUME StageOf(w)' = "none" PROVE Policy!Next
  <2>1. TargetOf(w)' = NoUser
    BY <1>2 DEF TargetOf
  <2>2. Policy!Leave(w)
    BY <1>0, <1>2, <2>1, OneDecides DEF Policy!Leave, stages, targets
  <2>. QED BY <2>2 DEF Policy!Next
<1>3. CASE \/ Begin(w, l, "search") \/ Begin(w, l, "check") \/ Replied(w)
           \/ CheckLogin(w) \/ (\E u \in Users : Insert(w, u))
  <2>1. StageOf(w)' = "none"
    BY <1>0, <1>3 DEF TypeOK, StageOf, Begin, Replied, CheckLogin, Insert
  <2>. QED BY <1>2, <2>1
<1>4. CASE Probe(w)
  <2>1. StageOf(w)' = "none"
    BY <1>0, <1>4 DEF TypeOK, StageOf, Probe, Places
  <2>. QED BY <1>2, <2>1
<1>5. CASE Verify(w) \/ Increment(w) \/ Reset(w)
  <2>1. StageOf(w)' = StageOf(w) /\ TargetOf(w)' = TargetOf(w)
    BY <1>0, <1>5 DEF TypeOK, StageOf, TargetOf, Verify, Increment, Reset
  <2>. QED BY <1>1, <2>1
<1>6. CASE Search(w)
  <2>1. StageOf(w) = "none"
    BY <1>6 DEF StageOf, Search
  <2>2. CASE pc'[w] = "probe"
    <3>1. StageOf(w)' = "none"
      BY <2>2 DEF StageOf
    <3>. QED BY <1>2, <3>1
  <2>3. CASE pc'[w] # "probe"
    <3>1. PICK u \in Rows(login[w]) :
            /\ Visible(u)
            /\ found' = [found EXCEPT ![w] = u]
            /\ pc' = [pc EXCEPT ![w] = "verify"]
      BY <1>0, <1>6, <2>3 DEF TypeOK, Search
    <3>2. u \in Users /\ name[u] # NoLogin
      BY <1>6, AccountsAssumption DEF Search, Requests, Rows, AccountsAssumption
    <3>3. StageOf(w)' = "admitted" /\ TargetOf(w)' = u
      BY <1>0, <3>1 DEF TypeOK, StageOf, TargetOf
    <3>4. Policy!Admit(w, u)
      BY <1>0, <2>1, <3>1, <3>2, <3>3, OneDecides
         DEF Policy!Admit, Visible, stages, targets
    <3>. QED BY <3>2, <3>4 DEF Policy!Next
  <2>. QED BY <2>2, <2>3
<1>7. CASE CheckBan(w)
  <2>1. /\ StageOf(w) = "passed" /\ TargetOf(w) = found[w] /\ found' = found
        /\ StageOf(w)' = IF banned[found[w]] THEN "banned" ELSE "welcome"
    BY <1>0, <1>7 DEF TypeOK, StageOf, TargetOf, CheckBan
  <2>2. TargetOf(w)' = found[w]
    BY <2>1 DEF TargetOf
  <2>3. Policy!Judge(w)
    BY <1>0, <2>1, <2>2, OneDecides DEF Policy!Judge, stages, targets
  <2>. QED BY <2>3 DEF Policy!Next
<1>. QED BY <1>3, <1>4, <1>5, <1>6, <1>7

\* A commit that counts a failure charges the rows it has held all along.
LEMMA ChargeStep ==
  ASSUME IInv, Places, NEW w \in Workers, CommitIncrement(w)
  PROVE  Policy!Next
<1> USE DEF IInv, Goto, Reply, EndTxn, request, CommitIncrement
<1>0. /\ TypeOK /\ NoUser \notin Users
      /\ \A v \in Workers \ {w} :
           pc'[v] = pc[v] /\ answer'[v] = answer[v] /\ found'[v] = found[v]
  BY AccountsAssumption DEF TypeOK, AccountsAssumption
<1>1. /\ held[w] \in SUBSET Users /\ found[w] \in held[w]
      /\ \A u \in held[w] : /\ base[w][u] = attempts[u] /\ attempts[u] < CounterMax
                            /\ name[u] = name[found[w]]
  BY <1>0 DEF TypeOK, HeldRows, Places, Requests, Found, Rows
<1>2. StageOf(w) = "admitted" /\ TargetOf(w) = found[w] /\ found' = found
  BY DEF StageOf, TargetOf
<1>3. \/ StageOf(w)' = "failed" /\ TargetOf(w)' = found[w]
      \/ StageOf(w)' = "none" /\ TargetOf(w)' = NoUser
  BY <1>0, <1>1 DEF TypeOK, StageOf, TargetOf
<1>4. stages[w] = "admitted" /\ targets[w] = found[w]
  BY <1>2 DEF stages, targets
<1>5. \/ stages' = [stages EXCEPT ![w] = "failed"] /\ targets' = targets
      \/ /\ stages' = [stages EXCEPT ![w] = "none"]
         /\ targets' = [targets EXCEPT ![w] = NoUser]
  <2>1. /\ stages' = [stages EXCEPT ![w] = StageOf(w)']
        /\ targets' = [targets EXCEPT ![w] = TargetOf(w)']
    BY <1>0, OneDecides
  <2>2. [targets EXCEPT ![w] = found[w]] = targets
    BY <1>4 DEF targets
  <2>. QED BY <1>3, <2>1, <2>2
<1>6. /\ attempts' = [u \in Users |->
           IF u \in held[w] THEN attempts[u] + 1 ELSE attempts[u]]
      /\ lock' = [u \in Users |->
           IF u \in held[w] /\ attempts[u] + 1 >= LockLimit THEN "live" ELSE lock[u]]
  BY <1>1
<1>7. Policy!Charge(w, held[w])
  BY <1>1, <1>4, <1>5, <1>6 DEF Policy!Charge, Policy!Decide, stages, targets
<1>. QED BY <1>1, <1>7 DEF Policy!Next

\* A commit that resets clears the row that was found.
LEMMA ClearStep ==
  ASSUME IInv, Places, NEW w \in Workers, CommitReset(w)
  PROVE  Policy!Next
<1> USE DEF IInv, Goto, Reply, EndTxn, request, CommitReset
<1>0. /\ TypeOK
      /\ \A v \in Workers \ {w} :
           pc'[v] = pc[v] /\ answer'[v] = answer[v] /\ found'[v] = found[v]
  BY DEF TypeOK
<1>1. StageOf(w) = "admitted" /\ TargetOf(w) = found[w] /\ found' = found
  BY DEF StageOf, TargetOf
<1>2. \/ StageOf(w)' = "passed" /\ TargetOf(w)' = found[w]
      \/ StageOf(w)' = "none" /\ TargetOf(w)' = NoUser
  BY <1>0 DEF TypeOK, StageOf, TargetOf
<1>3. stages[w] = "admitted" /\ targets[w] = found[w]
  BY <1>1 DEF stages, targets
<1>4. \/ stages' = [stages EXCEPT ![w] = "passed"] /\ targets' = targets
      \/ /\ stages' = [stages EXCEPT ![w] = "none"]
         /\ targets' = [targets EXCEPT ![w] = NoUser]
  <2>1. /\ stages' = [stages EXCEPT ![w] = StageOf(w)']
        /\ targets' = [targets EXCEPT ![w] = TargetOf(w)']
    BY <1>0, OneDecides
  <2>2. [targets EXCEPT ![w] = found[w]] = targets
    BY <1>3 DEF targets
  <2>. QED BY <1>2, <2>1, <2>2
<1>5. Policy!Clear(w)
  BY <1>3, <1>4 DEF Policy!Clear, Policy!Decide, stages, targets
<1>. QED BY <1>5 DEF Policy!Next

LEMMA RegisterStep ==
  ASSUME IInv, NEW w \in Workers, CommitInsert(w)
  PROVE  Policy!Next
<1> USE DEF IInv, Goto, Reply, request, txn, CommitInsert
<1>0. /\ TypeOK
      /\ \A v \in Workers \ {w} :
           pc'[v] = pc[v] /\ answer'[v] = answer[v] /\ found'[v] = found[v]
      /\ found[w] \in Users /\ name[found[w]] = NoLogin /\ login[w] \in Logins
  BY DEF TypeOK, Requests
<1>1. StageOf(w) = "none" /\ TargetOf(w) = NoUser /\ found' = found
  BY DEF StageOf, TargetOf
<1>2. \/ StageOf(w)' = "welcome" /\ TargetOf(w)' = found[w]
      \/ StageOf(w)' = "none" /\ TargetOf(w)' = NoUser
  BY <1>0 DEF TypeOK, StageOf, TargetOf
<1>3. stages[w] = "none" /\ targets[w] = NoUser
  BY <1>1 DEF stages, targets
<1>4. \/ /\ stages' = [stages EXCEPT ![w] = "welcome"]
         /\ targets' = [targets EXCEPT ![w] = found[w]]
      \/ stages' = stages /\ targets' = targets
  BY <1>0, <1>1, <1>2, OneDecides, Undecided
<1>5. Policy!Register(w, found[w], login[w])
  BY <1>0, <1>3, <1>4 DEF Policy!Register, stages, targets
<1>. QED BY <1>0, <1>5 DEF Policy!Next

\* A guess whose transaction is rolled back is left undecided.
LEMMA RollBackStep ==
  ASSUME IInv, NEW w \in Workers, RollBack(w)
  PROVE  Policy!Next
<1> USE DEF IInv, Goto, Reply, EndTxn, userRows, request, history, RollBack
<1>0. /\ TypeOK
      /\ \A v \in Workers \ {w} :
           pc'[v] = pc[v] /\ answer'[v] = answer[v] /\ found'[v] = found[v]
  BY DEF TypeOK
<1>1. StageOf(w)' = "none" /\ TargetOf(w)' = NoUser
  BY <1>0 DEF TypeOK, StageOf, TargetOf
<1>2. Policy!Leave(w)
  BY <1>0, <1>1, OneDecides DEF Policy!Leave, stages, targets
<1>. QED BY <1>2 DEF Policy!Next

LEMMA OutsideStep ==
  ASSUME NEW u \in Users, Expire(u) \/ Moderate(u)
  PROVE  Policy!Next
<1>1. UNCHANGED <<pc, answer, found>>
  BY DEF Expire, Moderate, request
<1>2. stages' = stages /\ targets' = targets
  BY <1>1 DEF stages, targets, StageOf, TargetOf
<1>3. Policy!Expire(u) \/ Policy!Moderate(u)
  BY <1>2 DEF Expire, Moderate, Policy!Expire, Policy!Moderate, stages, targets
<1>. QED BY <1>3 DEF Policy!Next

LEMMA PolicyStep == IInv /\ Places /\ [Next]_vars => [Policy!Next]_Policy!vars
<1> SUFFICES ASSUME IInv, Places, [Next]_vars PROVE [Policy!Next]_Policy!vars
  OBVIOUS
<1>1. ASSUME NEW w \in Workers, Step(w) PROVE [Policy!Next]_Policy!vars
  <2>1. CASE CommitIncrement(w) \/ CommitReset(w) \/ CommitInsert(w) \/ RollBack(w)
    BY <2>1, ChargeStep, ClearStep, RegisterStep, RollBackStep
  <2>2. CASE ~(CommitIncrement(w) \/ CommitReset(w) \/ CommitInsert(w) \/ RollBack(w))
    <3>1. pc[w] # "idle"
      BY <1>1, <2>2 DEF Step, Search, Probe, Verify, CheckBan, CheckLogin, Increment,
         Reset, Insert, Replied
    <3>2. login[w] \in Logins
      BY <3>1 DEF IInv, Requests
    <3>. QED BY <1>1, <2>2, <3>2, LookingStep DEF Step
  <2>. QED BY <2>1, <2>2
<1>2. ASSUME NEW w \in Workers, NEW l \in Logins,
             Begin(w, l, "search") \/ Begin(w, l, "check")
      PROVE  [Policy!Next]_Policy!vars
  BY <1>2, LookingStep
<1>3. ASSUME NEW u \in Users, Expire(u) \/ Moderate(u) PROVE Policy!Next
  BY <1>3, OutsideStep
<1>4. CASE UNCHANGED vars
  BY <1>4 DEF vars, Policy!vars, StageOf, TargetOf
<1>. QED BY <1>1, <1>2, <1>3, <1>4 DEF Next

\* Every behaviour of the statements and commits of Authenticator and
\* AccountManager is one of the policy, in which each decision is one step.
THEOREM AccountsImplementPolicy == Spec => ImplementsLoginPolicy
BY PolicyInit, PolicyStep, PlacesInvariance, PTL
   DEF Spec, ImplementsLoginPolicy, Policy!Spec

-----------------------------------------------------------------------------
(***************************************************************************)
(* What the policy says, and what follows for the server.                  *)
(***************************************************************************)

\* The policy's variables, as the server has them.
PolicyTyped ==
  /\ attempts \in [Users -> Nat]
  /\ lock \in [Users -> {"none", "live", "expired"}]
  /\ \A w \in Workers : StageOf(w) \in {"admitted", "passed"} => TargetOf(w) \in Users

LEMMA PolicyTypes == IInv => PolicyTyped
<1> SUFFICES ASSUME IInv PROVE PolicyTyped
  OBVIOUS
<1>1. attempts \in [Users -> Nat] /\ lock \in [Users -> {"none", "live", "expired"}]
  BY AccountsAssumption DEF IInv, TypeOK, AccountsAssumption
<1>2. ASSUME NEW w \in Workers, StageOf(w) \in {"admitted", "passed"}
      PROVE  TargetOf(w) \in Users
  <2>1. pc[w] \in Found
    BY <1>2 DEF StageOf, Found
  <2>. QED BY <1>2, <2>1 DEF TargetOf, IInv, Requests
<1>. QED BY <1>1, <1>2 DEF PolicyTyped

LEMMA WordsStep == PolicyTyped /\ [Policy!Next]_Policy!vars => Policy!WordsMatchDeeds
<1> SUFFICES ASSUME PolicyTyped, [Policy!Next]_Policy!vars, NEW w \in Workers
             PROVE  /\ stages[w] # "failed" /\ stages'[w] = "failed" =>
                         attempts'[targets[w]] = attempts[targets[w]] + 1
                    /\ stages[w] # "passed" /\ stages'[w] = "passed" =>
                         attempts'[targets[w]] = 0 /\ lock'[targets[w]] = "none"
  BY DEF Policy!WordsMatchDeeds, stages, targets
<1> USE DEF PolicyTyped
<1>1. ASSUME NEW v \in Workers, NEW charged \in SUBSET Users, Policy!Charge(v, charged)
      PROVE  /\ stages'[w] = "failed" /\ stages[w] # "failed" =>
                  attempts'[targets[w]] = attempts[targets[w]] + 1
             /\ stages'[w] = "passed" => stages[w] = "passed"
  <2>1. \/ stages' = [stages EXCEPT ![v] = "failed"]
        \/ stages' = [stages EXCEPT ![v] = "none"]
    BY <1>1 DEF Policy!Charge, Policy!Decide, stages
  <2>2. targets[v] \in charged
    BY <1>1 DEF Policy!Charge, targets
  <2>3. attempts' = [u \in Users |-> IF u \in charged THEN attempts[u] + 1 ELSE attempts[u]]
    BY <1>1 DEF Policy!Charge
  <2>. QED BY <2>1, <2>2, <2>3 DEF stages
<1>2. ASSUME NEW v \in Workers, Policy!Clear(v)
      PROVE  /\ stages'[w] = "passed" /\ stages[w] # "passed" =>
                  attempts'[targets[w]] = 0 /\ lock'[targets[w]] = "none"
             /\ stages'[w] = "failed" => stages[w] = "failed"
  <2>1. \/ stages' = [stages EXCEPT ![v] = "passed"]
        \/ stages' = [stages EXCEPT ![v] = "none"]
    BY <1>2 DEF Policy!Clear, Policy!Decide, stages
  <2>2. stages[v] = "admitted" /\ targets[v] \in Users
    BY <1>2 DEF Policy!Clear, stages, targets
  <2>3. /\ attempts' = [attempts EXCEPT ![targets[v]] = 0]
        /\ lock' = [lock EXCEPT ![targets[v]] = "none"]
    BY <1>2 DEF Policy!Clear, targets
  <2>. QED BY <2>1, <2>2, <2>3 DEF stages
<1>3. ASSUME NEW v \in Workers,
             NEW a \in {"admitted", "welcome", "banned", "none"},
             stages' = [stages EXCEPT ![v] = a]
      PROVE  stages'[w] \in {"failed", "passed"} => stages'[w] = stages[w]
  BY <1>3 DEF stages
<1>4. ASSUME NEW u \in Users, Policy!Expire(u) \/ Policy!Moderate(u)
      PROVE  stages' = stages
  BY <1>4 DEF Policy!Expire, Policy!Moderate, stages
<1>5. CASE UNCHANGED Policy!vars
  BY <1>5 DEF Policy!vars, stages
<1>6. ASSUME NEW v \in Workers, NEW u \in Users,
             Policy!Admit(v, u) \/ \E l \in Logins : Policy!Register(v, u, l)
      PROVE  stages'[w] \in {"failed", "passed"} => stages'[w] = stages[w]
  BY <1>3, <1>6 DEF Policy!Admit, Policy!Register, stages
<1>7. ASSUME NEW v \in Workers, Policy!Judge(v) \/ Policy!Leave(v)
      PROVE  stages'[w] \in {"failed", "passed"} => stages'[w] = stages[w]
  BY <1>3, <1>7 DEF Policy!Judge, Policy!Leave, stages
<1>. QED BY <1>1, <1>2, <1>4, <1>5, <1>6, <1>7 DEF Policy!Next

\* A wrong password is called wrong only once it was charged to the account;
\* a right one opens the door only once counter and lock are reset.
THEOREM WordsFollowDeeds == Spec => Policy!NoGuessIsFree
<1>1. IInv /\ Places /\ [Next]_vars => [Policy!WordsMatchDeeds]_Policy!vars
  BY PolicyTypes, PolicyStep, WordsStep
<1>. QED BY <1>1, PlacesInvariance, PTL DEF Spec, Policy!NoGuessIsFree

LEMMA NamesStep ==
  TypeOK /\ [Policy!Next]_Policy!vars => Policy!NamesStay
<1> SUFFICES ASSUME TypeOK, [Policy!Next]_Policy!vars PROVE Policy!NamesStay
  OBVIOUS
<1>1. ASSUME NEW w \in Workers, NEW u \in Users, NEW l \in Logins, Policy!Register(w, u, l)
      PROVE  Policy!NamesStay
  BY <1>1 DEF Policy!Register, Policy!NamesStay, TypeOK
<1>2. CASE name' = name
  BY <1>2 DEF Policy!NamesStay
<1>3. ASSUME NEW w \in Workers, NEW u \in Users, Policy!Admit(w, u) PROVE name' = name
  BY <1>3 DEF Policy!Admit
<1>4. ASSUME NEW w \in Workers, NEW charged \in SUBSET Users, Policy!Charge(w, charged)
      PROVE  name' = name
  BY <1>4 DEF Policy!Charge
<1>5. ASSUME NEW w \in Workers, Policy!Clear(w) \/ Policy!Judge(w) \/ Policy!Leave(w)
      PROVE  name' = name
  BY <1>5 DEF Policy!Clear, Policy!Judge, Policy!Leave
<1>6. ASSUME NEW u \in Users, Policy!Expire(u) \/ Policy!Moderate(u) PROVE name' = name
  BY <1>6 DEF Policy!Expire, Policy!Moderate
<1>7. CASE UNCHANGED Policy!vars
  BY <1>2, <1>7 DEF Policy!vars
<1>. QED BY <1>1, <1>2, <1>3, <1>4, <1>5, <1>6, <1>7 DEF Policy!Next

\* No login of an account that exists is overwritten, by a registration that
\* was overtaken or any other statement.
THEOREM AccountsKeepTheirNames == Spec => Policy!NamesAreKept
<1>1. IInv /\ Places /\ [Next]_vars => [Policy!NamesStay]_Policy!vars
  BY PolicyStep, NamesStep DEF IInv
<1>. QED BY <1>1, PlacesInvariance, PTL DEF Spec, Policy!NamesAreKept

-----------------------------------------------------------------------------
(***************************************************************************)
(* How many accounts may share a name.                                     *)
(***************************************************************************)

\* The name of an account that no worker has made is never taken again.
OldNamesAreTaken ==
  \A u \in Users : name[u] # NoLogin /\ madeBy[u] = NoWorker =>
    /\ \A v \in Users : name[v] # NoLogin /\ Lower(name[v]) = Lower(name[u]) => v = u
    /\ \A w \in Workers : pc[w] \in {"insert", "inserted"} =>
         Lower(login[w]) # Lower(name[u])

LEMMA InitOldNames == Init => OldNamesAreTaken
BY DEF Init, OldNamesAreTaken

LEMMA NextOldNames == IInv /\ OldNamesAreTaken /\ [Next]_vars => OldNamesAreTaken'
<1> SUFFICES ASSUME IInv, OldNamesAreTaken, [Next]_vars PROVE OldNamesAreTaken'
  OBVIOUS
<1> USE DEF Goto, Reply, userRows, request, txn, history
<1>0. TypeOK
  BY DEF IInv
<1>1. ASSUME UNCHANGED <<name, madeBy>>,
             \A w \in Workers : pc'[w] \in {"insert", "inserted"} =>
               pc[w] \in {"insert", "inserted"} /\ login'[w] = login[w]
      PROVE  OldNamesAreTaken'
  BY <1>1 DEF OldNamesAreTaken
<1>2. ASSUME NEW w \in Workers, Step(w) PROVE OldNamesAreTaken'
  <2>1. CASE Search(w) \/ Probe(w) \/ Verify(w) \/ CheckBan(w) \/ Replied(w)
    BY <1>0, <1>1, <2>1 DEF TypeOK, Search, Probe, Verify, CheckBan, Replied
  <2>2. CASE Increment(w) \/ Reset(w)
    BY <1>0, <1>1, <2>2 DEF TypeOK, Increment, Reset, Update
  <2>3. CASE CommitIncrement(w) \/ CommitReset(w) \/ RollBack(w)
    BY <1>0, <1>1, <2>3 DEF TypeOK, CommitIncrement, CommitReset, RollBack, EndTxn
  <2>4. CASE \E u \in Users : Insert(w, u)
    BY <1>0, <1>1, <2>4 DEF TypeOK, Insert
  <2>5. CASE CheckLogin(w)
    <3>1. UNCHANGED <<name, madeBy, login>>
      BY <2>5 DEF CheckLogin
    <3>2. pc'[w] \in {"insert", "inserted"} =>
            \A u \in Users : name[u] # NoLogin => Lower(name[u]) # Lower(login[w])
      BY <1>0, <2>5 DEF TypeOK, CheckLogin
    <3>3. \A v \in Workers \ {w} : pc'[v] = pc[v]
      BY <1>0, <2>5 DEF TypeOK, CheckLogin
    <3>. QED BY <3>1, <3>2, <3>3 DEF OldNamesAreTaken
  <2>6. CASE CommitInsert(w)
    <3>1. /\ found[w] \in Users /\ name[found[w]] = NoLogin /\ w # NoWorker
          /\ name' = [name EXCEPT ![found[w]] = login[w]]
          /\ madeBy' = [madeBy EXCEPT ![found[w]] = w]
          /\ login' = login
          /\ pc[w] = "inserted" /\ pc' = [pc EXCEPT ![w] = "reply"]
      BY <2>6, AccountsAssumption
         DEF CommitInsert, IInv, Requests, AccountsAssumption
    <3>2. ASSUME NEW u \in Users, name'[u] # NoLogin, madeBy'[u] = NoWorker
          PROVE  /\ u # found[w] /\ name'[u] = name[u] /\ madeBy[u] = NoWorker
                 /\ Lower(login[w]) # Lower(name[u])
      BY <1>0, <3>1, <3>2 DEF TypeOK, OldNamesAreTaken
    <3>3. ASSUME NEW u \in Users, name'[u] # NoLogin, madeBy'[u] = NoWorker,
                 NEW v \in Users, name'[v] # NoLogin, Lower(name'[v]) = Lower(name'[u])
          PROVE  v = u
      <4>1. v # found[w]
        BY <1>0, <3>1, <3>2, <3>3 DEF TypeOK
      <4>2. name'[v] = name[v]
        BY <1>0, <3>1, <4>1 DEF TypeOK
      <4>. QED BY <3>2, <3>3, <4>2 DEF OldNamesAreTaken
    <3>4. ASSUME NEW u \in Users, name'[u] # NoLogin, madeBy'[u] = NoWorker,
                 NEW v \in Workers, pc'[v] \in {"insert", "inserted"}
          PROVE  Lower(login'[v]) # Lower(name'[u])
      BY <1>0, <3>1, <3>2, <3>4 DEF TypeOK, OldNamesAreTaken
    <3>. QED BY <3>3, <3>4 DEF OldNamesAreTaken
  <2>. QED BY <1>2, <2>1, <2>2, <2>3, <2>4, <2>5, <2>6 DEF Step
<1>3. ASSUME NEW w \in Workers, NEW l \in Logins,
             Begin(w, l, "search") \/ Begin(w, l, "check")
      PROVE  OldNamesAreTaken'
  BY <1>0, <1>1, <1>3 DEF TypeOK, Begin
<1>4. ASSUME NEW u \in Users, Expire(u) \/ Moderate(u) PROVE OldNamesAreTaken'
  BY <1>1, <1>4 DEF Expire, Moderate
<1>5. CASE UNCHANGED vars
  BY <1>1, <1>5 DEF vars
<1>. QED BY <1>2, <1>3, <1>4, <1>5 DEF Next

Namesakes(n) == {u \in Users : name[u] # NoLogin /\ Lower(name[u]) = n}

\* However registrations overlap, no name is borne by more accounts than the
\* pool has threads: with one thread, by one, as check_login_available has it.
THEOREM NamesakesAreBounded ==
  Spec => [](\A n \in Names : Cardinality(Namesakes(n)) <= Cardinality(Workers))
<1>1. IInv /\ OldNamesAreTaken =>
        \A n \in Names : Cardinality(Namesakes(n)) <= Cardinality(Workers)
  <2> SUFFICES ASSUME IInv, OldNamesAreTaken, NEW n \in Names
               PROVE  Cardinality(Namesakes(n)) <= Cardinality(Workers)
    OBVIOUS
  <2>1. IsFiniteSet(Workers) /\ Workers # {}
    BY AccountsAssumption DEF AccountsAssumption
  <2>2. Cardinality(Workers) \in Nat \ {0}
    BY <2>1, FS_CardinalityType, FS_EmptySet
  <2>3. CASE \E u \in Namesakes(n) : madeBy[u] = NoWorker
    <3>1. PICK u \in Namesakes(n) : madeBy[u] = NoWorker
      BY <2>3
    <3>2. Namesakes(n) = {u}
      BY <3>1 DEF Namesakes, OldNamesAreTaken
    <3>3. Cardinality({u}) = 1
      BY FS_Singleton
    <3>. QED BY <2>2, <3>2, <3>3
  <2>4. CASE \A u \in Namesakes(n) : madeBy[u] # NoWorker
    <3> DEFINE maker == [u \in Namesakes(n) |-> madeBy[u]]
    <3>1. maker \in Injection(Namesakes(n), Workers)
      <4>1. \A u \in Namesakes(n) : madeBy[u] \in Workers
        BY <2>4 DEF Namesakes, IInv, TypeOK
      <4>2. \A u, v \in Namesakes(n) : madeBy[u] = madeBy[v] => u = v
        BY DEF Namesakes, IInv, SameLoginFromDistinctWorkers
      <4>. QED BY <4>1, <4>2 DEF Injection, IsInjective
    <3>. QED BY <2>1, <3>1, FS_Injection
  <2>. QED BY <2>3, <2>4
<1>. QED BY <1>1, InitIInv, NextIInv, InitOldNames, NextOldNames, PTL DEF Spec
=============================================================================
