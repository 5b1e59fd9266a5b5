-------------------------- MODULE CharactersProofs --------------------------
(***************************************************************************)
(* Proofs about Characters: for any number of workers, accounts and names  *)
(* and any limit, overlapping requests exceed the limit by less than there *)
(* are workers, doubles come from different workers only, and a character  *)
(* is deleted once; and that requests amount to steps of Roster.           *)
(***************************************************************************)
EXTENDS Characters, FiniteSetTheorems, TLAPS

\* A busy worker knows what it was asked for.
Requests ==
  \A w \in Workers :
    /\ pc[w] # "idle" => user[w] \in Users
    /\ pc[w] \in Creating => wanted[w] \in Names
    /\ pc[w] \in Deleting => char[w] \in Ids

\* The row a transaction has inserted, and those it has yet to find.
NewRows ==
  \A w \in Workers :
    pc[w] = "commit" =>
      /\ char[w] \in Ids
      /\ state[char[w]] = "new"
      /\ by[char[w]] = w
      /\ of[char[w]] = user[w]
      /\ name[char[w]] = wanted[w]

\* A row is locked by one deletion, and alive as long as it is.
LockedRows ==
  \A w \in Workers :
    pc[w] = "deleted" =>
      /\ state[char[w]] = "alive"
      /\ \A v \in Workers : pc[v] = "deleted" /\ char[v] = char[w] => v = w

\* Of the rows the worker itself has inserted earlier, none has the name it
\* is going to insert, or the place of the row it has inserted.
OwnNamesDiffer ==
  \A w \in Workers, c \in Ids :
    pc[w] \in {"insert", "commit"} /\ state[c] = "alive" /\ by[c] = w =>
      name[c] # wanted[w]

OwnSlotsPrecede ==
  \A w \in Workers, c \in Ids :
    pc[w] = "commit" /\ state[c] = "alive" /\ by[c] = w /\ of[c] = user[w] =>
      slot[c] < slot[char[w]]

\* The workers that have passed the count of an account's characters.
Past(u) == {w \in Workers : pc[w] \in {"name", "insert", "commit"} /\ user[w] = u}

\* Each of them can still add a character to those there are.
Room ==
  \A u \in Users :
    Cardinality(Living(u)) + Cardinality(Past(u)) < MaxChars + Cardinality(Workers)

Placed == Requests /\ NewRows /\ LockedRows /\ OwnNamesDiffer /\ OwnSlotsPrecede

IInv ==
  /\ TypeOK
  /\ Placed
  /\ Room
  /\ DoublesFromDistinctWorkers
  /\ DeletedOnce

-----------------------------------------------------------------------------

\* Characters and workers are finitely many.
LEMMA Finite ==
  ASSUME NEW u
  PROVE  /\ IsFiniteSet(Living(u)) /\ Cardinality(Living(u)) \in Nat
         /\ IsFiniteSet(Past(u)) /\ Cardinality(Past(u)) \in Nat
         /\ IsFiniteSet(Workers) /\ Cardinality(Workers) \in Nat
         /\ Cardinality(Past(u)) <= Cardinality(Workers)
<1>1. Living(u) \subseteq Ids /\ Past(u) \subseteq Workers
  BY DEF Living, Past
<1>2. IsFiniteSet(Living(u)) /\ IsFiniteSet(Workers)
  BY <1>1, CharactersAssumption, FS_Subset DEF CharactersAssumption
<1>. QED BY <1>1, <1>2, FS_Subset, FS_CardinalityType

\* Room stays when neither characters nor workers past the count are added.
LEMMA RoomStays ==
  ASSUME Room,
         \A u \in Users : Living(u)' \subseteq Living(u) /\ Past(u)' \subseteq Past(u)
  PROVE  Room'
<1> SUFFICES ASSUME NEW u \in Users
             PROVE  Cardinality(Living(u)') + Cardinality(Past(u)')
                      < MaxChars + Cardinality(Workers)
  BY DEF Room
<1>1. /\ IsFiniteSet(Living(u)') /\ Cardinality(Living(u)') \in Nat
      /\ Cardinality(Living(u)') <= Cardinality(Living(u))
  BY Finite, FS_Subset, FS_CardinalityType
<1>2. /\ IsFiniteSet(Past(u)') /\ Cardinality(Past(u)') \in Nat
      /\ Cardinality(Past(u)') <= Cardinality(Past(u))
  BY Finite, FS_Subset, FS_CardinalityType
<1>3. Cardinality(Living(u)) + Cardinality(Past(u)) < MaxChars + Cardinality(Workers)
  BY DEF Room
<1>4. MaxChars \in Nat
  BY CharactersAssumption DEF CharactersAssumption
<1>. QED BY <1>1, <1>2, <1>3, <1>4, Finite

LEMMA InitIInv == Init => IInv
<1> SUFFICES ASSUME Init PROVE IInv
  OBVIOUS
<1> USE CharactersAssumption DEF CharactersAssumption, Init
<1>1. TypeOK
  BY DEF TypeOK
<1>2. Placed
  BY DEF Placed, Requests, NewRows, LockedRows, OwnNamesDiffer, OwnSlotsPrecede,
         Creating, Deleting
<1>3. Room
  <2>1. ASSUME NEW u \in Users PROVE Living(u) = {} /\ Past(u) = {}
    BY DEF Living, Past
  <2>. QED BY <2>1, Finite, FS_EmptySet DEF Room
<1>4. DoublesFromDistinctWorkers /\ DeletedOnce
  BY DEF DoublesFromDistinctWorkers, DeletedOnce
<1>. QED BY <1>1, <1>2, <1>3, <1>4 DEF IInv

-----------------------------------------------------------------------------
(***************************************************************************)
(* Steps that change no row.                                               *)
(***************************************************************************)

\* A request begins, or goes on without adding to those past the count.
LEMMA WaitingIInv ==
  ASSUME IInv, NEW w \in Workers,
         \/ \E u \in Users, n \in Names : BeginCreate(w, u, n)
         \/ \E u \in Users, c \in Ids : BeginDelete(w, u, c)
         \/ CheckName(w) \/ FindRow(w) \/ LockRow(w)
  PROVE  IInv'
<1> USE DEF IInv, Placed, BeginCreate, BeginDelete, CheckName, FindRow, LockRow,
            Goto, Done, rows, Living, Unlocked, Creating, Deleting
<1>1. TypeOK'
  BY DEF TypeOK
<1>2. Requests'
  BY DEF TypeOK, Requests
<1>3. NewRows'
  BY DEF TypeOK, NewRows
<1>4. LockedRows'
  BY DEF TypeOK, LockedRows, Requests
<1>5. OwnNamesDiffer'
  BY DEF TypeOK, OwnNamesDiffer
<1>6. OwnSlotsPrecede'
  BY DEF TypeOK, OwnSlotsPrecede
<1>7. Room'
  <2>1. \A u \in Users : Living(u)' \subseteq Living(u) /\ Past(u)' \subseteq Past(u)
    BY DEF TypeOK, Past
  <2>. QED BY <2>1, RoomStays
<1>8. DoublesFromDistinctWorkers' /\ DeletedOnce'
  BY DEF DoublesFromDistinctWorkers, DeletedOnce
<1>. QED BY <1>1, <1>2, <1>3, <1>4, <1>5, <1>6, <1>7, <1>8

\* One that passes the count finds room for all workers.
LEMMA CountSlotsIInv ==
  ASSUME IInv, NEW w \in Workers, CountSlots(w)
  PROVE  IInv'
<1> USE DEF IInv, Placed, CountSlots, Goto, Done, rows, Creating, Deleting
<1>1. TypeOK'
  BY DEF TypeOK
<1>2. Placed'
  BY DEF TypeOK, Requests, NewRows, LockedRows, OwnNamesDiffer, OwnSlotsPrecede
<1>3. Room'
  <2>1. \A u : Living(u)' = Living(u)
    BY DEF Living
  <2>2. CASE Cardinality(Living(user[w])) >= MaxChars
    <3>1. \A u \in Users : Past(u)' \subseteq Past(u)
      BY <2>2 DEF TypeOK, Past
    <3>. QED BY <2>1, <3>1, RoomStays
  <2>3. CASE ~(Cardinality(Living(user[w])) >= MaxChars)
    <3> SUFFICES ASSUME NEW u \in Users
                 PROVE  Cardinality(Living(u)') + Cardinality(Past(u)')
                          < MaxChars + Cardinality(Workers)
      BY DEF Room
    <3>1. Past(u)' = IF u = user[w] THEN Past(u) \union {w} ELSE Past(u)
      BY <2>3 DEF TypeOK, Past
    <3>2. CASE u = user[w]
      <4>1. Past(u)' \subseteq Workers
        BY <3>1 DEF Past
      <4>2. Cardinality(Past(u)') \in Nat /\ Cardinality(Past(u)') <= Cardinality(Workers)
        BY <4>1, Finite, FS_Subset, FS_CardinalityType
      <4>3. Cardinality(Living(u)) < MaxChars
        BY <2>3, <3>2, Finite, CharactersAssumption DEF CharactersAssumption
      <4>. QED BY <2>1, <4>2, <4>3, Finite, CharactersAssumption DEF CharactersAssumption
    <3>3. CASE u # user[w]
      BY <2>1, <3>1, <3>3 DEF Room
    <3>. QED BY <3>2, <3>3
  <2>. QED BY <2>2, <2>3
<1>4. DoublesFromDistinctWorkers' /\ DeletedOnce'
  BY DEF DoublesFromDistinctWorkers, DeletedOnce
<1>. QED BY <1>1, <1>2, <1>3, <1>4

-----------------------------------------------------------------------------
(***************************************************************************)
(* Steps that change a row.                                                *)
(***************************************************************************)

LEMMA InsertIInv ==
  ASSUME IInv, NEW w \in Workers, NEW c \in Ids, NEW k \in Nat, Insert(w, c, k)
  PROVE  IInv'
<1> USE DEF IInv, Placed, Insert, Goto, Creating, Deleting
<1>1. TypeOK'
  BY DEF TypeOK, Requests
<1>2. Requests'
  BY DEF TypeOK, Requests
<1>3. NewRows'
  BY DEF TypeOK, NewRows
<1>4. LockedRows'
  BY DEF TypeOK, LockedRows, Requests
<1>5. OwnNamesDiffer'
  BY DEF TypeOK, OwnNamesDiffer
<1>6. OwnSlotsPrecede'
  <2>1. \A d \in Living(user[w]) : slot[d] < k
    BY DEF NextSlot, TypeOK, Living
  <2>2. \A d \in Ids : state'[d] = "alive" =>
          /\ d # c /\ state[d] = "alive"
          /\ by'[d] = by[d] /\ of'[d] = of[d] /\ slot'[d] = slot[d]
    BY DEF TypeOK
  <2>3. slot'[char'[w]] = k
    BY DEF TypeOK
  <2>4. ASSUME NEW v \in Workers, NEW d \in Ids,
               pc'[v] = "commit", state'[d] = "alive", by'[d] = v, of'[d] = user'[v]
        PROVE  slot'[d] < slot'[char'[v]]
    <3>1. CASE v = w
      BY <2>1, <2>2, <2>3, <2>4, <3>1 DEF Living
    <3>2. CASE v # w
      <4>1. pc[v] = "commit" /\ char'[v] = char[v] /\ char[v] # c
        BY <2>4, <3>2 DEF TypeOK, NewRows
      <4>2. slot'[char'[v]] = slot[char[v]]
        BY <4>1 DEF TypeOK
      <4>. QED BY <2>2, <2>4, <4>1, <4>2 DEF OwnSlotsPrecede
    <3>. QED BY <3>1, <3>2
  <2>. QED BY <2>4 DEF OwnSlotsPrecede
<1>7. Room'
  <2>1. \A u \in Users : Living(u)' \subseteq Living(u) /\ Past(u)' \subseteq Past(u)
    BY DEF TypeOK, Past, Living
  <2>. QED BY <2>1, RoomStays
<1>8. DoublesFromDistinctWorkers'
  BY DEF TypeOK, DoublesFromDistinctWorkers
<1>9. DeletedOnce'
  BY DEF TypeOK, DeletedOnce
<1>. QED BY <1>1, <1>2, <1>3, <1>4, <1>5, <1>6, <1>7, <1>8, <1>9

\* The new row differs from all of the worker's own, and takes the place the
\* worker had in Room.
LEMMA CommitCreateIInv ==
  ASSUME IInv, NEW w \in Workers, CommitCreate(w)
  PROVE  IInv'
<1> USE DEF IInv, Placed, CommitCreate, Goto, Done, rows, Creating, Deleting
<1>0. /\ char[w] \in Ids /\ state[char[w]] = "new"
      /\ by[char[w]] = w /\ of[char[w]] = user[w] /\ name[char[w]] = wanted[w]
      /\ user[w] \in Users
  BY DEF NewRows, Requests
<1>1. TypeOK'
  BY <1>0 DEF TypeOK
<1>2. Requests'
  BY DEF TypeOK, Requests
<1>3. NewRows'
  BY <1>0 DEF TypeOK, NewRows
<1>4. LockedRows'
  BY <1>0 DEF TypeOK, LockedRows, Requests
<1>5. OwnNamesDiffer'
  BY <1>0 DEF TypeOK, OwnNamesDiffer
<1>6. OwnSlotsPrecede'
  BY <1>0 DEF TypeOK, OwnSlotsPrecede
<1>7. Room'
  <2> SUFFICES ASSUME NEW u \in Users
               PROVE  Cardinality(Living(u)') + Cardinality(Past(u)')
                        < MaxChars + Cardinality(Workers)
    BY DEF Room
  <2>1. CASE u = user[w]
    <3>1. Living(u)' = Living(u) \union {char[w]} /\ char[w] \notin Living(u)
      BY <1>0, <2>1 DEF TypeOK, Living
    <3>2. Past(u)' = Past(u) \ {w} /\ w \in Past(u)
      BY <2>1 DEF TypeOK, Past
    <3>3. Cardinality(Living(u)') = Cardinality(Living(u)) + 1
      BY <3>1, Finite, FS_AddElement
    <3>4. Cardinality(Past(u)') = Cardinality(Past(u)) - 1
      BY <3>2, Finite, FS_RemoveElement
    <3>. QED BY <3>3, <3>4, Finite DEF Room
  <2>2. CASE u # user[w]
    <3>1. Living(u)' = Living(u) /\ Past(u)' = Past(u)
      BY <1>0, <2>2 DEF TypeOK, Living, Past
    <3>. QED BY <3>1 DEF Room
  <2>. QED BY <2>1, <2>2
<1>8. DoublesFromDistinctWorkers'
  <2>1. ASSUME NEW c \in Ids, c # char[w], state[c] = "alive", by[c] = w
        PROVE  /\ name[c] # name[char[w]]
               /\ of[c] = of[char[w]] => slot[c] # slot[char[w]]
    BY <1>0, <2>1 DEF TypeOK, OwnNamesDiffer, OwnSlotsPrecede
  <2>2. \A c \in Ids : state'[c] = "alive" <=> state[c] = "alive" \/ c = char[w]
    BY <1>0 DEF TypeOK
  <2>3. name' = name /\ of' = of /\ slot' = slot /\ by' = by
    OBVIOUS
  <2>. QED BY <1>0, <2>1, <2>2, <2>3 DEF DoublesFromDistinctWorkers
<1>9. DeletedOnce'
  BY <1>0 DEF TypeOK, DeletedOnce
<1>. QED BY <1>1, <1>2, <1>3, <1>4, <1>5, <1>6, <1>7, <1>8, <1>9

\* The row is alive until its only deleter commits.
LEMMA CommitDeleteIInv ==
  ASSUME IInv, NEW w \in Workers, CommitDelete(w)
  PROVE  IInv'
<1> USE DEF IInv, Placed, CommitDelete, Erase, Goto, Done, Creating, Deleting
<1>0. char[w] \in Ids /\ state[char[w]] = "alive"
  BY DEF LockedRows, Requests
<1>1. TypeOK'
  BY <1>0 DEF TypeOK
<1>2. Requests'
  BY DEF TypeOK, Requests
<1>3. NewRows'
  BY <1>0 DEF TypeOK, NewRows
<1>4. LockedRows'
  BY <1>0 DEF TypeOK, LockedRows, Requests
<1>5. OwnNamesDiffer'
  BY <1>0 DEF TypeOK, OwnNamesDiffer
<1>6. OwnSlotsPrecede'
  BY <1>0 DEF TypeOK, OwnSlotsPrecede, NewRows
<1>7. Room'
  <2>1. \A u \in Users : Living(u)' \subseteq Living(u) /\ Past(u)' \subseteq Past(u)
    BY <1>0 DEF TypeOK, Past, Living
  <2>. QED BY <2>1, RoomStays
<1>8. DoublesFromDistinctWorkers'
  BY <1>0 DEF TypeOK, DoublesFromDistinctWorkers
<1>9. DeletedOnce'
  <2>1. deletions[char[w]] = 0
    <3>1. deletions[char[w]] \in Nat
      BY <1>0 DEF TypeOK
    <3>2. deletions[char[w]] <= 1 /\ deletions[char[w]] # 1
      BY <1>0 DEF DeletedOnce
    <3>. QED BY <3>1, <3>2
  <2>2. \A c \in Ids : state'[c] = IF c = char[w] THEN "deleted" ELSE state[c]
    BY <1>0 DEF TypeOK
  <2>3. /\ deletions'[char[w]] \in {0, 1}
        /\ \A c \in Ids \ {char[w]} : deletions'[c] = deletions[c]
    BY <1>0, <2>1 DEF TypeOK
  <2>. QED BY <2>1, <2>2, <2>3 DEF DeletedOnce
<1>. QED BY <1>1, <1>2, <1>3, <1>4, <1>5, <1>6, <1>7, <1>8, <1>9

LEMMA RollBackIInv ==
  ASSUME IInv, NEW w \in Workers, RollBack(w)
  PROVE  IInv'
<1> USE CharactersAssumption
    DEF IInv, Placed, RollBack, Erase, Goto, Done, rows, Creating, Deleting,
        CharactersAssumption
<1>0. pc[w] = "commit" => char[w] \in Ids /\ state[char[w]] = "new" /\ by[char[w]] = w
  BY DEF NewRows
<1>1. TypeOK'
  BY <1>0 DEF TypeOK
<1>2. Requests'
  BY DEF TypeOK, Requests
<1>3. NewRows'
  BY <1>0 DEF TypeOK, NewRows
<1>4. LockedRows'
  BY <1>0 DEF TypeOK, LockedRows, Requests
<1>5. OwnNamesDiffer'
  BY <1>0 DEF TypeOK, OwnNamesDiffer
<1>6. OwnSlotsPrecede'
  BY <1>0 DEF TypeOK, OwnSlotsPrecede, NewRows
<1>7. Room'
  <2>1. \A u \in Users : Living(u)' \subseteq Living(u) /\ Past(u)' \subseteq Past(u)
    BY <1>0 DEF TypeOK, Past, Living
  <2>. QED BY <2>1, RoomStays
<1>8. DoublesFromDistinctWorkers'
  BY <1>0 DEF TypeOK, DoublesFromDistinctWorkers
<1>9. DeletedOnce'
  <2>1. \A c \in Ids : state[c] = "deleted" => state'[c] = "deleted"
    BY <1>0 DEF TypeOK
  <2>. QED BY <2>1 DEF DeletedOnce
<1>. QED BY <1>1, <1>2, <1>3, <1>4, <1>5, <1>6, <1>7, <1>8, <1>9

-----------------------------------------------------------------------------

LEMMA NextIInv == IInv /\ [Next]_vars => IInv'
<1> SUFFICES ASSUME IInv, [Next]_vars PROVE IInv'
  OBVIOUS
<1>1. CASE UNCHANGED vars
  BY <1>1 DEF vars, rows, IInv, TypeOK, Placed, Requests, NewRows, LockedRows,
              OwnNamesDiffer, OwnSlotsPrecede, Room, Living, Past,
              DoublesFromDistinctWorkers, DeletedOnce
<1>2. ASSUME NEW w \in Workers, NEW c \in Ids,
             NEW k \in 1..(Cardinality(Ids) + 1), Insert(w, c, k)
      PROVE  IInv'
  <2>1. k \in Nat
    BY FS_CardinalityType, CharactersAssumption DEF CharactersAssumption
  <2>. QED BY <1>2, <2>1, InsertIInv
<1>3. CASE Next
  BY <1>2, <1>3, WaitingIInv, CountSlotsIInv, CommitCreateIInv, CommitDeleteIInv,
     RollBackIInv
  DEF Next
<1>. QED BY <1>1, <1>3

THEOREM Invariance == Spec => []IInv
  BY InitIInv, NextIInv, PTL DEF Spec

\* Every state has its type; account_slot is never NULL.
THEOREM TypeCorrect == Spec => []TypeOK
  BY Invariance, PTL DEF IInv

\* Overlapping createCharacter requests exceed MAX_CHARS_PER_ACCOUNT by less
\* than there are workers.
THEOREM LimitIsNearlyKept == Spec => []OvershootIsBounded
<1>1. IInv => OvershootIsBounded
  <2> SUFFICES ASSUME IInv, NEW u \in Users
               PROVE  Cardinality(Living(u)) < MaxChars + Cardinality(Workers)
    BY DEF OvershootIsBounded
  <2>1. Cardinality(Living(u)) + Cardinality(Past(u)) < MaxChars + Cardinality(Workers)
    BY DEF IInv, Room
  <2>2. MaxChars \in Nat
    BY CharactersAssumption DEF CharactersAssumption
  <2>. QED BY <2>1, <2>2, Finite
<1>. QED BY <1>1, Invariance, PTL

\* Equal names and equal places come from different workers, whose
\* transactions overlapped.
THEOREM DoublesNeedOverlap == Spec => []DoublesFromDistinctWorkers
  BY Invariance, PTL DEF IInv

\* deleteCharacter succeeds at most once for a character.
THEOREM OneDeletion == Spec => []DeletedOnce
  BY Invariance, PTL DEF IInv

-----------------------------------------------------------------------------
(***************************************************************************)
(* Characters implements Roster.                                           *)
(***************************************************************************)

\* An id without a row says nothing; a row that is being deleted is the
\* account's that asked; a living one was inserted by a worker.
RowsKnown ==
  /\ \A c \in Ids : state[c] = "none" => of[c] = NoUser /\ name[c] = NoName
  /\ \A c \in Ids : state[c] \in {"new", "alive"} => by[c] \in Workers
  /\ \A w \in Workers : pc[w] = "deleted" => of[char[w]] = user[w]

LEMMA InitRowsKnown == Init => RowsKnown
BY DEF Init, RowsKnown

LEMMA NextRowsKnown == IInv /\ RowsKnown /\ [Next]_vars => RowsKnown'
<1> SUFFICES ASSUME IInv, RowsKnown, [Next]_vars PROVE RowsKnown'
  OBVIOUS
<1> USE DEF RowsKnown, IInv, Placed, Goto, Done, rows, Deleting, Creating
<1>0. TypeOK
  OBVIOUS
<1>1. ASSUME NEW w \in Workers,
             \/ \E u \in Users, n \in Names : BeginCreate(w, u, n)
             \/ \E u \in Users, c \in Ids : BeginDelete(w, u, c)
             \/ CountSlots(w) \/ CheckName(w) \/ FindRow(w) \/ LockRow(w)
      PROVE  RowsKnown'
  BY <1>0, <1>1 DEF TypeOK, BeginCreate, BeginDelete, CountSlots, CheckName, FindRow,
                    LockRow, Living
<1>2. ASSUME NEW w \in Workers, NEW c \in Ids, NEW k, Insert(w, c, k)
      PROVE  RowsKnown'
  <2>1. \A v \in Workers : pc'[v] = "deleted" =>
          v # w /\ pc[v] = "deleted" /\ char'[v] = char[v] /\ char[v] # c
    BY <1>0, <1>2 DEF TypeOK, Insert, LockedRows
  <2>. QED BY <1>0, <1>2, <2>1 DEF TypeOK, Insert
<1>3. ASSUME NEW w \in Workers, CommitCreate(w) PROVE RowsKnown'
  <2>1. char[w] \in Ids /\ by[char[w]] = w
    BY <1>3 DEF CommitCreate, NewRows
  <2>. QED BY <1>0, <1>3, <2>1 DEF TypeOK, CommitCreate
<1>4. ASSUME NEW w \in Workers, CommitDelete(w) PROVE RowsKnown'
  <2>1. \A v \in Workers : pc'[v] = "deleted" =>
          v # w /\ pc[v] = "deleted" /\ char'[v] = char[v] /\ char[v] # char[w]
    BY <1>0, <1>4 DEF TypeOK, CommitDelete, LockedRows
  <2>. QED BY <1>0, <1>4, <2>1 DEF TypeOK, CommitDelete, Erase, Requests
<1>5. ASSUME NEW w \in Workers, RollBack(w) PROVE RowsKnown'
  <2>1. pc[w] = "commit" => char[w] \in Ids /\ state[char[w]] = "new"
    BY DEF NewRows
  <2>2. \A v \in Workers : pc'[v] = "deleted" =>
          /\ v # w /\ pc[v] = "deleted" /\ char'[v] = char[v] /\ user'[v] = user[v]
          /\ state[char[v]] = "alive" /\ char[v] \in Ids
    BY <1>0, <1>5 DEF TypeOK, RollBack, LockedRows, Requests
  <2>3. CASE pc[w] = "commit"
    BY <1>0, <1>5, <2>1, <2>2, <2>3 DEF TypeOK, RollBack, Erase
  <2>4. CASE pc[w] # "commit"
    BY <1>0, <1>5, <2>2, <2>4 DEF TypeOK, RollBack
  <2>. QED BY <2>3, <2>4
<1>6. CASE UNCHANGED vars
  BY <1>6 DEF vars
<1>. QED BY <1>1, <1>2, <1>3, <1>4, <1>5, <1>6 DEF Next

THEOREM RowsInvariance == Spec => [](IInv /\ RowsKnown)
BY InitIInv, InitRowsKnown, NextIInv, NextRowsKnown, PTL DEF Spec

-----------------------------------------------------------------------------

doings == [w \in Workers |-> DoingOf(w)]
chars  == [w \in Workers |-> CharOf(w)]
lives  == [c \in Ids |-> LifeOf(c)]
owners == [c \in Ids |-> OwnerOf(c)]
names  == [c \in Ids |-> NameOf(c)]

\* A step of one worker moves its own request only.
LEMMA OneMoves ==
  ASSUME NEW w \in Workers,
         \A v \in Workers \ {w} : pc'[v] = pc[v] /\ char'[v] = char[v]
  PROVE  /\ doings' = [doings EXCEPT ![w] = DoingOf(w)']
         /\ chars' = [chars EXCEPT ![w] = CharOf(w)']
<1>1. \A v \in Workers \ {w} : DoingOf(v)' = DoingOf(v) /\ CharOf(v)' = CharOf(v)
  BY DEF DoingOf, CharOf
<1>. QED BY <1>1 DEF doings, chars

\* A step that touches one row touches one character.
LEMMA OneRow ==
  ASSUME NEW c \in Ids,
         \A d \in Ids \ {c} : state'[d] = state[d] /\ of'[d] = of[d] /\ name'[d] = name[d]
  PROVE  /\ lives' = [lives EXCEPT ![c] = LifeOf(c)']
         /\ owners' = [owners EXCEPT ![c] = OwnerOf(c)']
         /\ names' = [names EXCEPT ![c] = NameOf(c)']
<1>1. \A d \in Ids \ {c} :
        LifeOf(d)' = LifeOf(d) /\ OwnerOf(d)' = OwnerOf(d) /\ NameOf(d)' = NameOf(d)
  BY DEF LifeOf, OwnerOf, NameOf
<1>. QED BY <1>1 DEF lives, owners, names

LEMMA SameRows ==
  ASSUME UNCHANGED <<state, of, name>>
  PROVE  lives' = lives /\ owners' = owners /\ names' = names
BY DEF lives, owners, names, LifeOf, OwnerOf, NameOf

\* Both modules mean the same by the living characters of an account.
LEMMA SameLiving == \A u : OneStep!Living(u) = Living(u)
BY DEF OneStep!Living, Living, LifeOf, OwnerOf

\* ... and by how many they are.
LEMMA SameCardinality == \A S : OneStep!Cardinality(S) = Cardinality(S)
BY DEF OneStep!Cardinality, Cardinality

LEMMA RosterInit == Init => OneStep!Init
<1> SUFFICES ASSUME Init PROVE OneStep!Init
  OBVIOUS
<1>1. \A w \in Workers : DoingOf(w) = "nothing" /\ CharOf(w) = NoId
  BY DEF Init, DoingOf, CharOf, Deleting
<1>2. \A c \in Ids : LifeOf(c) = "none" /\ OwnerOf(c) = NoUser /\ NameOf(c) = NoName
  BY DEF Init, LifeOf, OwnerOf, NameOf
<1>. QED BY <1>1, <1>2 DEF Init, OneStep!Init

\* A request that ends without a change was given up.
LEMMA GiveUpStep ==
  ASSUME TypeOK, NEW w \in Workers, Done(w), UNCHANGED deletions,
         lives' = lives, owners' = owners, names' = names
  PROVE  OneStep!Next
<1>1. /\ \A v \in Workers \ {w} : pc'[v] = pc[v] /\ char'[v] = char[v]
      /\ DoingOf(w)' = "nothing" /\ CharOf(w)' = NoId
  BY DEF TypeOK, Done, Goto, DoingOf, CharOf, Deleting
<1>2. OneStep!GiveUp(w)
  BY <1>1, OneMoves
     DEF Done, OneStep!GiveUp, OneStep!Over, doings, chars, lives, owners, names
<1>. QED BY <1>2 DEF OneStep!Next

\* Requests arrive, and see room, a free name, or the row they want.
LEMMA AskStep ==
  ASSUME TypeOK, NEW w \in Workers,
         \/ \E u \in Users, n \in Names : BeginCreate(w, u, n)
         \/ \E u \in Users, c \in Ids : BeginDelete(w, u, c)
  PROVE  OneStep!Next
<1> USE DEF TypeOK, Goto, rows, DoingOf, CharOf, Deleting, Creating
<1>1. ASSUME NEW u \in Users, NEW n \in Names, BeginCreate(w, u, n)
      PROVE  OneStep!AskCreate(w, u, n)
  <2>1. /\ \A v \in Workers \ {w} : pc'[v] = pc[v] /\ char'[v] = char[v]
        /\ DoingOf(w) = "nothing" /\ DoingOf(w)' = "counting" /\ CharOf(w)' = CharOf(w)
    BY <1>1 DEF BeginCreate
  <2>2. doings' = [doings EXCEPT ![w] = "counting"] /\ chars' = chars
    BY <2>1, OneMoves DEF chars
  <2>. QED BY <1>1, <2>1, <2>2, SameRows
           DEF BeginCreate, OneStep!AskCreate, doings, chars, lives, owners, names
<1>2. ASSUME NEW u \in Users, NEW c \in Ids, BeginDelete(w, u, c)
      PROVE  OneStep!AskDelete(w, u, c)
  <2>1. /\ \A v \in Workers \ {w} : pc'[v] = pc[v] /\ char'[v] = char[v]
        /\ DoingOf(w) = "nothing" /\ DoingOf(w)' = "deleting" /\ CharOf(w)' = c
    BY <1>2 DEF BeginDelete
  <2>2. doings' = [doings EXCEPT ![w] = "deleting"] /\ chars' = [chars EXCEPT ![w] = c]
    BY <2>1, OneMoves
  <2>. QED BY <1>2, <2>1, <2>2, SameRows
           DEF BeginDelete, OneStep!AskDelete, doings, chars, lives, owners, names
<1>. QED BY <1>1, <1>2 DEF OneStep!Next

LEMMA LookStep ==
  ASSUME TypeOK, NEW w \in Workers,
         CountSlots(w) \/ CheckName(w) \/ FindRow(w) \/ LockRow(w)
  PROVE  [OneStep!Next]_OneStep!vars
<1> USE DEF TypeOK, Goto, rows, Deleting, Creating
<1>1. /\ lives' = lives /\ owners' = owners /\ names' = names
      /\ UNCHANGED deletions
  BY SameRows DEF CountSlots, CheckName, FindRow, LockRow
<1>2. CASE Done(w)
  BY <1>1, <1>2, GiveUpStep
<1>3. CASE ~Done(w)
  <2>0. /\ UNCHANGED <<user, wanted, char>>
        /\ \A v \in Workers \ {w} : pc'[v] = pc[v] /\ char'[v] = char[v]
    BY <1>3 DEF CountSlots, CheckName, FindRow, LockRow
  <2>1. CASE CountSlots(w)
    <3>1. /\ Cardinality(Living(user[w])) < MaxChars
          /\ DoingOf(w) = "counting" /\ DoingOf(w)' = "naming" /\ CharOf(w)' = CharOf(w)
      BY <1>3, <2>0, <2>1, Finite, CharactersAssumption
         DEF CountSlots, DoingOf, CharOf, CharactersAssumption
    <3>2. doings' = [doings EXCEPT ![w] = "naming"] /\ chars' = chars
      BY <2>0, <3>1, OneMoves DEF chars
    <3>3. OneStep!Cardinality(OneStep!Living(user[w])) < MaxChars
      <4>1. OneStep!Living(user[w]) = Living(user[w])
        BY SameLiving
      <4>2. OneStep!Cardinality(OneStep!Living(user[w])) = Cardinality(Living(user[w]))
        BY <4>1, SameCardinality
      <4>. QED BY <3>1, <4>2
    <3>4. doings[w] = "counting"
      BY <3>1 DEF doings
    <3>5. OneStep!SeeRoom(w)
      BY <1>1, <2>0, <3>2, <3>3, <3>4
         DEF OneStep!SeeRoom, doings, chars, lives, owners, names
    <3>. QED BY <3>5 DEF OneStep!Next
  <2>2. CASE CheckName(w)
    <3>1. /\ \A c \in Ids : state[c] = "alive" => name[c] # wanted[w]
          /\ DoingOf(w) = "naming" /\ DoingOf(w)' = "creating" /\ CharOf(w)' = CharOf(w)
      BY <1>3, <2>0, <2>2 DEF CheckName, DoingOf, CharOf
    <3>2. doings' = [doings EXCEPT ![w] = "creating"] /\ chars' = chars
      BY <2>0, <3>1, OneMoves DEF chars
    <3>3. OneStep!SeeNameFree(w)
      BY <1>1, <2>0, <3>1, <3>2
         DEF OneStep!SeeNameFree, doings, chars, lives, owners, names, LifeOf, NameOf
    <3>. QED BY <3>3 DEF OneStep!Next
  <2>3. CASE FindRow(w) \/ LockRow(w)
    <3>1. DoingOf(w)' = DoingOf(w) /\ CharOf(w)' = CharOf(w)
      BY <1>3, <2>0, <2>3 DEF FindRow, LockRow, DoingOf, CharOf
    <3>2. doings' = doings /\ chars' = chars
      BY <2>0, <3>1, OneMoves DEF doings, chars
    <3>. QED BY <1>1, <2>0, <3>2 DEF OneStep!vars, doings, chars, lives, owners, names
  <2>. QED BY <2>1, <2>2, <2>3
<1>. QED BY <1>2, <1>3

\* A row that is not committed yet changes nothing ...
LEMMA InsertStep ==
  ASSUME TypeOK, RowsKnown, NEW w \in Workers, NEW c \in Ids, NEW k, Insert(w, c, k)
  PROVE  UNCHANGED OneStep!vars
<1> USE DEF TypeOK, Goto, Insert
<1>1. /\ \A v \in Workers \ {w} : pc'[v] = pc[v] /\ char'[v] = char[v]
      /\ DoingOf(w)' = DoingOf(w) /\ CharOf(w)' = CharOf(w)
  BY DEF DoingOf, CharOf, Deleting
<1>2. doings' = doings /\ chars' = chars
  BY <1>1, OneMoves DEF doings, chars
<1>3. /\ \A d \in Ids \ {c} : state'[d] = state[d] /\ of'[d] = of[d] /\ name'[d] = name[d]
      /\ LifeOf(c)' = LifeOf(c) /\ OwnerOf(c)' = OwnerOf(c) /\ NameOf(c)' = NameOf(c)
  BY DEF LifeOf, OwnerOf, NameOf, RowsKnown
<1>4. lives' = lives /\ owners' = owners /\ names' = names
  BY <1>3, OneRow DEF lives, owners, names
<1>. QED BY <1>2, <1>4 DEF OneStep!vars, doings, chars, lives, owners, names

\* ... its commit creates the character ...
LEMMA CreateStep ==
  ASSUME IInv, NEW w \in Workers, CommitCreate(w)
  PROVE  OneStep!Next
<1> USE DEF Goto, CommitCreate, Done, rows
<1>0. /\ TypeOK /\ char[w] \in Ids /\ state[char[w]] = "new"
      /\ of[char[w]] = user[w] /\ name[char[w]] = wanted[w]
  BY DEF IInv, Placed, NewRows
<1>1. /\ \A v \in Workers \ {w} : pc'[v] = pc[v] /\ char'[v] = char[v]
      /\ DoingOf(w) = "creating" /\ DoingOf(w)' = "nothing" /\ CharOf(w)' = NoId
  BY <1>0 DEF TypeOK, DoingOf, CharOf, Deleting
<1>2. /\ doings[w] = "creating"
      /\ doings' = [doings EXCEPT ![w] = "nothing"]
      /\ chars' = [chars EXCEPT ![w] = NoId]
  BY <1>1, OneMoves DEF doings
<1>3. ASSUME NEW c \in Ids, c = char[w]
      PROVE  /\ LifeOf(c) = "none" /\ LifeOf(c)' = "alive"
             /\ OwnerOf(c)' = user[w] /\ NameOf(c)' = wanted[w]
             /\ \A d \in Ids \ {c} :
                  state'[d] = state[d] /\ of'[d] = of[d] /\ name'[d] = name[d]
  BY <1>0, <1>3 DEF TypeOK, LifeOf, OwnerOf, NameOf
<1>4. ASSUME NEW c \in Ids, c = char[w]
      PROVE  OneStep!Create(w, c)
  <2>1. /\ lives[c] = "none" /\ lives' = [lives EXCEPT ![c] = "alive"]
        /\ owners' = [owners EXCEPT ![c] = user[w]]
        /\ names' = [names EXCEPT ![c] = wanted[w]]
    BY <1>3, <1>4, OneRow DEF lives
  <2>. QED BY <1>2, <2>1
           DEF OneStep!Create, OneStep!Over, doings, chars, lives, owners, names
<1>. QED BY <1>0, <1>4 DEF OneStep!Next

\* ... and a deletion takes effect when it commits.
LEMMA DeleteStep ==
  ASSUME IInv, RowsKnown, NEW w \in Workers, CommitDelete(w)
  PROVE  OneStep!Next
<1> USE DEF Goto, CommitDelete, Done, Erase
<1>0. /\ TypeOK /\ char[w] \in Ids /\ char[w] \in Living(user[w])
  BY DEF IInv, Placed, LockedRows, Requests, Deleting, RowsKnown, Living
<1>1. /\ \A v \in Workers \ {w} : pc'[v] = pc[v] /\ char'[v] = char[v]
      /\ DoingOf(w) = "deleting" /\ DoingOf(w)' = "nothing"
      /\ CharOf(w) = char[w] /\ CharOf(w)' = NoId
  BY <1>0 DEF TypeOK, DoingOf, CharOf, Deleting
<1>2. /\ doings[w] = "deleting" /\ chars[w] = char[w]
      /\ doings' = [doings EXCEPT ![w] = "nothing"]
      /\ chars' = [chars EXCEPT ![w] = NoId]
  BY <1>1, OneMoves DEF doings, chars
<1>3. ASSUME NEW c \in Ids, c = char[w]
      PROVE  /\ LifeOf(c)' = "deleted" /\ OwnerOf(c)' = NoUser /\ NameOf(c)' = NoName
             /\ \A d \in Ids \ {c} :
                  state'[d] = state[d] /\ of'[d] = of[d] /\ name'[d] = name[d]
  BY <1>0, <1>3 DEF TypeOK, LifeOf, OwnerOf, NameOf
<1>4. ASSUME NEW c \in Ids, c = char[w]
      PROVE  OneStep!Delete(w)
  <2>1. /\ lives' = [lives EXCEPT ![c] = "deleted"]
        /\ owners' = [owners EXCEPT ![c] = NoUser]
        /\ names' = [names EXCEPT ![c] = NoName]
    BY <1>3, <1>4, OneRow
  <2>2. chars[w] \in OneStep!Living(user[w])
    BY <1>0, <1>2, SameLiving
  <2>. QED BY <1>2, <1>4, <2>1, <2>2
           DEF OneStep!Delete, OneStep!Over, doings, chars, lives, owners, names
<1>. QED BY <1>0, <1>4 DEF OneStep!Next

\* What is rolled back was never there.
LEMMA RollBackStep ==
  ASSUME IInv, RowsKnown, NEW w \in Workers, RollBack(w)
  PROVE  OneStep!Next
<1> USE DEF RollBack, rows
<1>0. TypeOK
  BY DEF IInv
<1>1. CASE pc[w] = "commit"
  <2>1. char[w] \in Ids /\ state[char[w]] = "new"
    BY <1>1 DEF IInv, Placed, NewRows
  <2>2. ASSUME NEW c \in Ids, c = char[w]
        PROVE  /\ LifeOf(c)' = LifeOf(c) /\ OwnerOf(c)' = OwnerOf(c)
               /\ NameOf(c)' = NameOf(c)
               /\ \A d \in Ids \ {c} :
                    state'[d] = state[d] /\ of'[d] = of[d] /\ name'[d] = name[d]
    BY <1>0, <1>1, <2>1, <2>2 DEF TypeOK, Erase, LifeOf, OwnerOf, NameOf
  <2>3. lives' = lives /\ owners' = owners /\ names' = names
    BY <2>1, <2>2, OneRow DEF lives, owners, names
  <2>. QED BY <1>0, <2>3, GiveUpStep
<1>2. CASE pc[w] # "commit"
  BY <1>0, <1>2, SameRows, GiveUpStep
<1>. QED BY <1>1, <1>2

LEMMA RosterStep == IInv /\ RowsKnown /\ [Next]_vars => [OneStep!Next]_OneStep!vars
<1> SUFFICES ASSUME IInv, RowsKnown, [Next]_vars PROVE [OneStep!Next]_OneStep!vars
  OBVIOUS
<1>0. TypeOK
  BY DEF IInv
<1>1. CASE UNCHANGED vars
  BY <1>1, SameRows
     DEF vars, rows, OneStep!vars, DoingOf, CharOf, lives, owners, names
<1>2. CASE Next
  BY <1>0, <1>2, AskStep, LookStep, InsertStep, CreateStep, DeleteStep, RollBackStep
     DEF Next
<1>. QED BY <1>1, <1>2

\* Every behaviour of createCharacter and deleteCharacter, statement by
\* statement at READ COMMITTED, is one of requests that act in one step.
THEOREM CharactersImplementRoster == Spec => ImplementsRoster
BY RosterInit, RosterStep, RowsInvariance, PTL
   DEF Spec, ImplementsRoster, OneStep!Spec

-----------------------------------------------------------------------------
(***************************************************************************)
(* What follows from the roster, and from the doubles.                     *)
(***************************************************************************)

LEMMA GuardedStep == [OneStep!Next]_OneStep!vars => OneStep!Guarded
<1> SUFFICES ASSUME [OneStep!Next]_OneStep!vars, NEW c \in Ids
             PROVE  /\ lives[c] = "alive" /\ lives'[c] # "alive" =>
                         /\ lives'[c] = "deleted"
                         /\ \E w \in Workers : /\ doings[w] = "deleting" /\ chars[w] = c
                                               /\ user[w] = owners[c]
                    /\ lives[c] = "alive" /\ lives'[c] = "alive" =>
                         owners'[c] = owners[c] /\ names'[c] = names[c]
                    /\ lives[c] = "deleted" => lives'[c] = "deleted"
  BY DEF OneStep!Guarded, doings, chars, lives, owners, names
<1>1. ASSUME lives' = lives, owners' = owners, names' = names
      PROVE  /\ lives'[c] = lives[c] /\ owners'[c] = owners[c] /\ names'[c] = names[c]
  BY <1>1
<1>2. ASSUME NEW w \in Workers, NEW d \in Ids, OneStep!Create(w, d)
      PROVE  /\ lives[d] = "none"
             /\ c # d => /\ lives'[c] = lives[c] /\ owners'[c] = owners[c]
                         /\ names'[c] = names[c]
  BY <1>2 DEF OneStep!Create, lives, owners, names
<1>3. ASSUME NEW w \in Workers, OneStep!Delete(w)
      PROVE  /\ doings[w] = "deleting"
             /\ c = chars[w] => lives'[c] = "deleted" /\ user[w] = owners[c]
             /\ c # chars[w] => /\ lives'[c] = lives[c] /\ owners'[c] = owners[c]
                                /\ names'[c] = names[c]
  BY <1>3 DEF OneStep!Delete, OneStep!Living, doings, chars, lives, owners, names
<1>4. ASSUME NEW w \in Workers,
             \/ \E u \in Users, n \in Names : OneStep!AskCreate(w, u, n)
             \/ \E u \in Users, d \in Ids : OneStep!AskDelete(w, u, d)
             \/ OneStep!SeeRoom(w) \/ OneStep!SeeNameFree(w) \/ OneStep!GiveUp(w)
      PROVE  lives' = lives /\ owners' = owners /\ names' = names
  BY <1>4 DEF OneStep!AskCreate, OneStep!AskDelete, OneStep!SeeRoom,
              OneStep!SeeNameFree, OneStep!GiveUp, lives, owners, names
<1>5. CASE UNCHANGED OneStep!vars
  BY <1>5 DEF OneStep!vars, lives, owners, names
<1>6. CASE OneStep!Next
  <2>1. PICK w \in Workers :
          \/ \E u \in Users, n \in Names : OneStep!AskCreate(w, u, n)
          \/ \E u \in Users, d \in Ids : OneStep!AskDelete(w, u, d)
          \/ OneStep!SeeRoom(w) \/ OneStep!SeeNameFree(w) \/ OneStep!GiveUp(w)
          \/ OneStep!Delete(w) \/ \E d \in Ids : OneStep!Create(w, d)
    BY <1>6 DEF OneStep!Next
  <2>2. CASE OneStep!Delete(w)
    BY <1>3, <2>2
  <2>3. CASE \E d \in Ids : OneStep!Create(w, d)
    BY <1>2, <2>3
  <2>4. CASE ~(OneStep!Delete(w) \/ \E d \in Ids : OneStep!Create(w, d))
    BY <1>1, <1>4, <2>1, <2>4
  <2>. QED BY <2>2, <2>3, <2>4
<1>. QED BY <1>1, <1>5, <1>6

\* However requests interleave, a character is deleted at the request of its
\* own account only, for good, and keeps account and name while it lives.
THEOREM OwnersDelete == Spec => OneStep!OnlyOwnersDelete
<1>1. IInv /\ RowsKnown /\ [Next]_vars => [OneStep!Guarded]_OneStep!vars
  BY RosterStep, GuardedStep
<1>. QED BY <1>1, RowsInvariance, PTL DEF Spec, OneStep!OnlyOwnersDelete

\* Sets of rows that differ pairwise in their worker are as small as the pool.
LEMMA OnePerWorker ==
  ASSUME RowsKnown, NEW S \in SUBSET Ids,
         \A c \in S : state[c] = "alive",
         \A c, d \in S : c # d => by[c] # by[d]
  PROVE  Cardinality(S) <= Cardinality(Workers)
<1> DEFINE maker == [c \in S |-> by[c]]
<1>1. maker \in Injection(S, Workers)
  <2>1. \A c \in S : by[c] \in Workers
    BY DEF RowsKnown
  <2>. QED BY <2>1 DEF Injection, IsInjective
<1>. QED BY <1>1, Finite, FS_Injection

\* However creations overlap, no name is borne by more living characters, and
\* no place in an account taken by more, than the pool has threads.
THEOREM DoublesAreBounded ==
  Spec => [](/\ \A n \in Names :
                  Cardinality({c \in Ids : state[c] = "alive" /\ name[c] = n})
                    <= Cardinality(Workers)
             /\ \A u \in Users, k \in Nat :
                  Cardinality({c \in Living(u) : slot[c] = k}) <= Cardinality(Workers))
<1>1. IInv /\ RowsKnown =>
        /\ \A n \in Names :
             Cardinality({c \in Ids : state[c] = "alive" /\ name[c] = n})
               <= Cardinality(Workers)
        /\ \A u \in Users, k \in Nat :
             Cardinality({c \in Living(u) : slot[c] = k}) <= Cardinality(Workers)
  <2> SUFFICES ASSUME IInv, RowsKnown
               PROVE  /\ \A n \in Names :
                           Cardinality({c \in Ids : state[c] = "alive" /\ name[c] = n})
                             <= Cardinality(Workers)
                      /\ \A u \in Users, k \in Nat :
                           Cardinality({c \in Living(u) : slot[c] = k})
                             <= Cardinality(Workers)
    OBVIOUS
  <2>1. ASSUME NEW n \in Names
        PROVE  Cardinality({c \in Ids : state[c] = "alive" /\ name[c] = n})
                 <= Cardinality(Workers)
    <3> DEFINE S == {c \in Ids : state[c] = "alive" /\ name[c] = n}
    <3>1. /\ S \in SUBSET Ids /\ \A c \in S : state[c] = "alive"
          /\ \A c, d \in S : c # d => by[c] # by[d]
      BY DEF IInv, DoublesFromDistinctWorkers
    <3>. QED BY <3>1, OnePerWorker
  <2>2. ASSUME NEW u \in Users, NEW k \in Nat
        PROVE  Cardinality({c \in Living(u) : slot[c] = k}) <= Cardinality(Workers)
    <3> DEFINE S == {c \in Living(u) : slot[c] = k}
    <3>1. /\ S \in SUBSET Ids /\ \A c \in S : state[c] = "alive"
          /\ \A c, d \in S : c # d => by[c] # by[d]
      BY DEF IInv, DoublesFromDistinctWorkers, Living
    <3>. QED BY <3>1, OnePerWorker
  <2>. QED BY <2>1, <2>2
<1>. QED BY <1>1, RowsInvariance, PTL
=============================================================================
