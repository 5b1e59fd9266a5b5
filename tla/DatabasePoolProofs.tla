------------------------- MODULE DatabasePoolProofs -------------------------
(***************************************************************************)
(* Proofs about DatabasePool: for any number of threads and any size, a    *)
(* connection belongs to one thread at a time, none is lost, and no thread *)
(* sleeps next to a free slot that nobody is coming for; and the pool      *)
(* implements Leases.                                                      *)
(***************************************************************************)
EXTENDS DatabasePool, SequenceTheorems, FiniteSetTheorems, TLAPS

\* The mutex is held by the thread that probes, and a thread has a slot from
\* the moment it takes it until it gives it back.
Owners ==
  \A t \in Threads :
    /\ pc[t] = "probing" <=> holder = t
    /\ slotOf[t] # NoSlot <=> pc[t] \in {"probing", "holding"}

IInv ==
  /\ TypeOK
  /\ Owners
  /\ SlotsAreExclusive
  /\ NoSlotIsLost
  /\ FreeSlotsAreClaimed

-----------------------------------------------------------------------------

\* What Append and Head and Tail do to the free slots.
LEMMA AppendElements ==
  ASSUME NEW S, NEW q \in Seq(S), NEW x \in S
  PROVE  /\ Append(q, x) \in Seq(S)
         /\ Len(Append(q, x)) = Len(q) + 1
         /\ DOMAIN Append(q, x) = 1..(Len(q) + 1)
         /\ Append(q, x)[Len(q) + 1] = x
         /\ \A i \in 1..Len(q) : Append(q, x)[i] = q[i]
  OBVIOUS

LEMMA TailElements ==
  ASSUME NEW S, NEW q \in Seq(S), q # <<>>
  PROVE  /\ Len(q) \in Nat \ {0}
         /\ Head(q) = q[1] /\ q[1] \in S
         /\ Tail(q) \in Seq(S)
         /\ DOMAIN Tail(q) = 1..(Len(q) - 1)
         /\ \A i \in 1..(Len(q) - 1) : Tail(q)[i] = q[i + 1]
         /\ Len(Tail(q)) = Len(q) - 1
  BY EmptySeq, HeadTailProperties, LenProperties

\* The threads on their way to a slot are finitely many.
LEMMA ComingIsFinite ==
  ASSUME DatabasePoolAssumption
  PROVE  IsFiniteSet(Coming) /\ Cardinality(Coming) \in Nat
  BY FS_Subset, FS_CardinalityType DEF Coming, DatabasePoolAssumption

-----------------------------------------------------------------------------

LEMMA InitIInv == Init => IInv
<1> SUFFICES ASSUME Init PROVE IInv
  OBVIOUS
<1> USE DatabasePoolAssumption DEF Init, DatabasePoolAssumption, NoSlot, Slots
<1>1. Size \in Nat
  BY DEF Size
<1>2. TypeOK
  <2>1. available \in [1..Size -> Slots]
    BY <1>1
  <2>2. available \in Seq(Slots)
    BY <1>1, <2>1
  <2>. QED BY <1>1, <2>2 DEF TypeOK, Acquiring, Looking
<1>3. Owners
  BY DEF Owners
<1>4. SlotsAreExclusive
  BY <1>1 DEF SlotsAreExclusive
<1>5. NoSlotIsLost
  <2>1. ASSUME NEW s \in Slots PROVE available[s + 1] = s /\ s + 1 \in DOMAIN available
    BY <1>1
  <2>. QED BY <2>1 DEF NoSlotIsLost
<1>6. FreeSlotsAreClaimed
  BY DEF FreeSlotsAreClaimed, Asleep
<1>. QED BY <1>2, <1>3, <1>4, <1>5, <1>6 DEF IInv

-----------------------------------------------------------------------------
(***************************************************************************)
(* Steps that take no slot and give none back.                             *)
(***************************************************************************)

LEMMA WaitingIInv ==
  ASSUME IInv, NEW t \in Threads,
         Call(t) \/ Wait(t) \/ SpuriousWake(t) \/ TimeOut(t) \/ GiveUp(t)
           \/ ProbeSucceeds(t) \/ Reopen(t)
  PROVE  IInv'
<1> USE DatabasePoolAssumption DEF IInv, DatabasePoolAssumption
<1>1. TypeOK' /\ Owners'
  <2> USE DEF TypeOK, Owners, Acquiring, Looking
  <2>1. CASE Call(t)
    BY <2>1 DEF Call
  <2>2. CASE Wait(t)
    BY <2>2 DEF Wait
  <2>5. CASE SpuriousWake(t)
    BY <2>5 DEF SpuriousWake
  <2>6. CASE TimeOut(t)
    BY <2>6 DEF TimeOut
  <2>7. CASE GiveUp(t)
    BY <2>7 DEF GiveUp
  <2>3. CASE ProbeSucceeds(t)
    BY <2>3 DEF ProbeSucceeds
  <2>4. CASE Reopen(t)
    <3>1. TypeOK'
      BY <2>4 DEF Reopen
    <3>2. Owners'
      BY <2>4 DEF Reopen
    <3>. QED BY <3>1, <3>2
  <2>. QED BY <2>1, <2>2, <2>3, <2>4, <2>5, <2>6, <2>7
<1> USE DEF Call, Wait, SpuriousWake, TimeOut, GiveUp, ProbeSucceeds, Reopen
<1>3. SlotsAreExclusive'
  BY DEF SlotsAreExclusive
<1>4. NoSlotIsLost'
  BY DEF NoSlotIsLost
<1>5. FreeSlotsAreClaimed'
  <2>1. CASE available = <<>>
    <3>1. Len(available') = 0
      BY <2>1
    <3>2. Cardinality(Coming') \in Nat
      <4>1. IsFiniteSet(Coming')
        BY FS_Subset DEF Coming
      <4>. QED BY <4>1, FS_CardinalityType
    <3>. QED BY <3>1, <3>2 DEF FreeSlotsAreClaimed
  <2>2. CASE available # <<>>
    <3>1. Asleep' \subseteq Asleep /\ Coming \subseteq Coming'
      BY <2>2 DEF TypeOK, Owners, Asleep, Coming
    <3>2. /\ IsFiniteSet(Coming')
          /\ Cardinality(Coming') \in Nat /\ Cardinality(Coming) \in Nat
      <4>1. IsFiniteSet(Coming') /\ IsFiniteSet(Coming)
        BY FS_Subset DEF Coming
      <4>. QED BY <4>1, FS_CardinalityType
    <3>3. Cardinality(Coming) <= Cardinality(Coming')
      BY <3>1, <3>2, FS_Subset
    <3>4. Len(available) \in Nat /\ available' = available
      BY DEF TypeOK
    <3>. QED BY <3>1, <3>2, <3>3, <3>4 DEF FreeSlotsAreClaimed
  <2>. QED BY <2>1, <2>2
<1>. QED BY <1>1, <1>3, <1>4, <1>5

-----------------------------------------------------------------------------

LEMMA TakeIInv ==
  ASSUME IInv, NEW t \in Threads, Take(t)
  PROVE  IInv'
<1> USE DatabasePoolAssumption DEF IInv, DatabasePoolAssumption, Take, Looking
<1>1. /\ available \in Seq(Slots) /\ available # <<>>
      /\ slotOf \in [Threads -> Slots \union {NoSlot}]
      /\ slotOf[t] = NoSlot
  BY DEF TypeOK, Owners
<1>2. /\ Len(available) \in Nat \ {0}
      /\ DOMAIN available = 1..Len(available)
      /\ Head(available) = available[1] /\ available[1] \in Slots
      /\ available' \in Seq(Slots)
      /\ DOMAIN available' = 1..(Len(available) - 1)
      /\ \A i \in 1..(Len(available) - 1) : available'[i] = available[i + 1]
      /\ Len(available') = Len(available) - 1
  BY <1>1, TailElements, LenProperties
<1>3. NoSlot \notin Slots
  BY DEF NoSlot, Slots
<1>4. TypeOK'
  BY <1>2 DEF TypeOK, Acquiring
<1>5. Owners'
  BY <1>2, <1>3 DEF TypeOK, Owners
<1>6. SlotsAreExclusive'
  BY <1>1, <1>2 DEF SlotsAreExclusive
<1>7. NoSlotIsLost'
  <2> SUFFICES ASSUME NEW s \in Slots
               PROVE  \/ \E i \in DOMAIN available' : available'[i] = s
                      \/ \E u \in Threads : slotOf'[u] = s
    BY DEF NoSlotIsLost
  <2>1. CASE \E u \in Threads : slotOf[u] = s
    BY <2>1, <1>1, <1>3
  <2>2. CASE \E i \in DOMAIN available : available[i] = s
    <3>1. PICK i \in 1..Len(available) : available[i] = s
      BY <2>2, <1>2
    <3>2. CASE i = 1
      BY <3>1, <3>2, <1>1, <1>2
    <3>3. CASE i # 1
      <4>1. i - 1 \in 1..(Len(available) - 1) /\ available'[i - 1] = s
        BY <3>1, <3>3, <1>2
      <4>. QED BY <4>1, <1>2
    <3>. QED BY <3>2, <3>3
  <2>. QED BY <2>1, <2>2 DEF NoSlotIsLost
<1>8. FreeSlotsAreClaimed'
  <2>1. Asleep' = Asleep /\ Coming' = Coming \ {t}
    BY DEF TypeOK, Asleep, Coming
  <2>2. IsFiniteSet(Coming) /\ Cardinality(Coming) \in Nat
    BY ComingIsFinite
  <2>3. IsFiniteSet(Coming \ {t}) /\ Cardinality(Coming \ {t}) =
          IF t \in Coming THEN Cardinality(Coming) - 1 ELSE Cardinality(Coming)
    BY <2>2, FS_RemoveElement
  <2>4. Cardinality(Coming') >= Cardinality(Coming) - 1
    BY <2>1, <2>2, <2>3
  <2>5. Cardinality(Coming') \in Nat
    BY <2>1, <2>3, FS_CardinalityType
  <2>. QED BY <2>1, <2>2, <2>4, <2>5, <1>2 DEF FreeSlotsAreClaimed
<1>. QED BY <1>4, <1>5, <1>6, <1>7, <1>8

-----------------------------------------------------------------------------
(***************************************************************************)
(* Steps that give a slot back, or notify that one was.                    *)
(***************************************************************************)

\* The slot of t goes from t to the end of the queue.
LEMMA GiveBackSlots ==
  ASSUME IInv, NEW t \in Threads, slotOf[t] # NoSlot,
         available' = Append(available, slotOf[t]),
         slotOf' = [slotOf EXCEPT ![t] = NoSlot]
  PROVE  /\ available' \in Seq(Slots)
         /\ Len(available) \in Nat /\ Len(available') = Len(available) + 1
         /\ SlotsAreExclusive' /\ NoSlotIsLost'
<1> USE DEF IInv
<1>1. /\ available \in Seq(Slots)
      /\ slotOf \in [Threads -> Slots \union {NoSlot}]
      /\ slotOf[t] \in Slots
  BY DEF TypeOK
<1>2. /\ Len(available) \in Nat
      /\ DOMAIN available = 1..Len(available)
      /\ \A i \in 1..Len(available) : available[i] \in Slots
  BY <1>1, LenProperties, ElementOfSeq
<1>3. /\ available' \in Seq(Slots)
      /\ Len(available') = Len(available) + 1
      /\ DOMAIN available' = 1..(Len(available) + 1)
      /\ available'[Len(available) + 1] = slotOf[t]
      /\ \A i \in 1..Len(available) : available'[i] = available[i]
  BY <1>1, AppendElements
<1>4. NoSlot \notin Slots
  BY DEF NoSlot, Slots
<1>5. SlotsAreExclusive'
  <2>1. \A i, j \in DOMAIN available' : available'[i] = available'[j] => i = j
    BY <1>2, <1>3 DEF SlotsAreExclusive
  <2>2. \A i \in DOMAIN available', u \in Threads : available'[i] # slotOf'[u]
    BY <1>1, <1>2, <1>3, <1>4 DEF SlotsAreExclusive
  <2>3. \A u, v \in Threads : slotOf'[u] = slotOf'[v] /\ u # v => slotOf'[u] = NoSlot
    BY <1>1 DEF SlotsAreExclusive
  <2>. QED BY <2>1, <2>2, <2>3 DEF SlotsAreExclusive
<1>6. NoSlotIsLost'
  <2> SUFFICES ASSUME NEW s \in Slots
               PROVE  \/ \E i \in DOMAIN available' : available'[i] = s
                      \/ \E u \in Threads : slotOf'[u] = s
    BY DEF NoSlotIsLost
  <2>1. CASE s = slotOf[t]
    BY <2>1, <1>2, <1>3
  <2>2. CASE s # slotOf[t]
    BY <2>2, <1>1, <1>2, <1>3 DEF NoSlotIsLost
  <2>. QED BY <2>1, <2>2
<1>. QED BY <1>2, <1>3, <1>5, <1>6

\* Moving t and notifying: if threads sleep, one more of them is on its way.
LEMMA MoveAndNotifyComing ==
  ASSUME IInv, NEW t \in Threads, pc[t] \in {"probing", "notify"},
         MoveAndNotify(t, "idle")
  PROVE  /\ pc' \in [Threads -> Acquiring \union {"idle", "holding", "notify"}]
         /\ pc'[t] = "idle"
         /\ \A u \in Threads \ {t} :
              pc'[u] = pc[u] \/ (pc[u] = "asleep" /\ pc'[u] = "woken")
         /\ Asleep = {} => Asleep' = {}
         /\ Asleep # {} => Cardinality(Coming') =
              IF pc[t] = "notify" THEN Cardinality(Coming) ELSE Cardinality(Coming) + 1
<1> DEFINE Places == Acquiring \union {"idle", "holding", "notify"}
<1>0. /\ pc \in [Threads -> Places]
      /\ "idle" \in Places /\ "woken" \in Places
  BY DEF IInv, TypeOK, Acquiring, Looking
<1>. HIDE DEF Places
<1>1. CASE Asleep = {}
  <2>1. pc' = [pc EXCEPT ![t] = "idle"]
    BY <1>1 DEF MoveAndNotify
  <2>2. \A u \in Threads : pc[u] # "asleep"
    BY <1>1 DEF Asleep
  <2>3. Asleep' = {}
    BY <1>0, <2>1, <2>2 DEF Asleep
  <2>4. pc' \in [Threads -> Places]
    BY <1>0, <2>1
  <2>. QED BY <1>0, <1>1, <2>1, <2>3, <2>4 DEF Places
<1>2. CASE Asleep # {}
  <2>1. PICK s \in Asleep : pc' = [[pc EXCEPT ![t] = "idle"] EXCEPT ![s] = "woken"]
    BY <1>2 DEF MoveAndNotify
  <2>2. s \in Threads /\ s # t /\ pc[s] = "asleep"
    BY DEF Asleep
  <2>3. Coming' = (Coming \ {t}) \union {s} /\ s \notin Coming \ {t}
    BY <1>0, <2>1, <2>2 DEF Coming
  <2>4. IsFiniteSet(Coming) /\ Cardinality(Coming) \in Nat
    BY DatabasePoolAssumption, ComingIsFinite
  <2>5. t \in Coming <=> pc[t] = "notify"
    BY DEF Coming
  <2>6. IsFiniteSet(Coming \ {t}) /\ Cardinality(Coming \ {t}) =
          IF pc[t] = "notify" THEN Cardinality(Coming) - 1 ELSE Cardinality(Coming)
    BY <2>4, <2>5, FS_RemoveElement
  <2>7. Cardinality(Coming') = Cardinality(Coming \ {t}) + 1
    BY <2>3, <2>6, FS_AddElement
  <2>8. Cardinality(Coming') =
          IF pc[t] = "notify" THEN Cardinality(Coming) ELSE Cardinality(Coming) + 1
    BY <2>4, <2>6, <2>7
  <2>9. pc' = [pc EXCEPT ![t] = "idle", ![s] = "woken"]
    BY <2>1, <2>2
  <2>10. pc' \in [Threads -> Places]
    BY <1>0, <2>2, <2>9
  <2>11. /\ pc'[t] = "idle"
         /\ \A u \in Threads \ {t} :
              pc'[u] = pc[u] \/ (pc[u] = "asleep" /\ pc'[u] = "woken")
    BY <1>0, <2>2, <2>9
  <2>. QED BY <1>2, <2>8, <2>10, <2>11 DEF Places
<1>. QED BY <1>1, <1>2

LEMMA ReopenFailsIInv ==
  ASSUME IInv, NEW t \in Threads, ReopenFails(t)
  PROVE  IInv'
<1> USE DatabasePoolAssumption DEF IInv, DatabasePoolAssumption, ReopenFails
<1>1. pc[t] = "probing" /\ slotOf[t] # NoSlot /\ holder = t
  BY DEF Owners
<1>2. /\ available' \in Seq(Slots)
      /\ Len(available) \in Nat /\ Len(available') = Len(available) + 1
      /\ SlotsAreExclusive' /\ NoSlotIsLost'
  BY <1>1, GiveBackSlots
<1>3. /\ pc' \in [Threads -> Acquiring \union {"idle", "holding", "notify"}]
      /\ pc'[t] = "idle"
      /\ \A u \in Threads \ {t} :
           pc'[u] = pc[u] \/ (pc[u] = "asleep" /\ pc'[u] = "woken")
      /\ Asleep = {} => Asleep' = {}
      /\ Asleep # {} => Cardinality(Coming') = Cardinality(Coming) + 1
  BY <1>1, MoveAndNotifyComing
<1>4. TypeOK'
  BY <1>2, <1>3 DEF TypeOK
<1>5. Owners'
  BY <1>1, <1>3 DEF TypeOK, Owners
<1>6. FreeSlotsAreClaimed'
  BY <1>2, <1>3, ComingIsFinite DEF FreeSlotsAreClaimed
<1>. QED BY <1>2, <1>4, <1>5, <1>6

LEMMA ReleaseIInv ==
  ASSUME IInv, NEW t \in Threads, Release(t)
  PROVE  IInv'
<1> USE DatabasePoolAssumption DEF IInv, DatabasePoolAssumption, Release
<1>1. slotOf[t] # NoSlot
  BY DEF Owners
<1>2. /\ available' \in Seq(Slots)
      /\ Len(available) \in Nat /\ Len(available') = Len(available) + 1
      /\ SlotsAreExclusive' /\ NoSlotIsLost'
  BY <1>1, GiveBackSlots
<1>3. TypeOK'
  BY <1>2 DEF TypeOK
<1>4. Owners'
  BY DEF TypeOK, Owners
<1>5. FreeSlotsAreClaimed'
  <2>1. Asleep' = Asleep /\ Coming' = Coming \union {t} /\ t \notin Coming
    BY DEF TypeOK, Asleep, Coming
  <2>2. IsFiniteSet(Coming) /\ Cardinality(Coming) \in Nat
    BY ComingIsFinite
  <2>3. Cardinality(Coming') = Cardinality(Coming) + 1
    BY <2>1, <2>2, FS_AddElement
  <2>. QED BY <1>2, <2>1, <2>2, <2>3 DEF FreeSlotsAreClaimed
<1>. QED BY <1>2, <1>3, <1>4, <1>5

LEMMA NotifyIInv ==
  ASSUME IInv, NEW t \in Threads, Notify(t)
  PROVE  IInv'
<1> USE DatabasePoolAssumption DEF IInv, DatabasePoolAssumption, Notify
<1>1. /\ pc' \in [Threads -> Acquiring \union {"idle", "holding", "notify"}]
      /\ pc'[t] = "idle"
      /\ \A u \in Threads \ {t} :
           pc'[u] = pc[u] \/ (pc[u] = "asleep" /\ pc'[u] = "woken")
      /\ Asleep = {} => Asleep' = {}
      /\ Asleep # {} => Cardinality(Coming') = Cardinality(Coming)
  BY MoveAndNotifyComing
<1>2. TypeOK'
  BY <1>1 DEF TypeOK
<1>3. Owners'
  BY <1>1 DEF TypeOK, Owners
<1>4. SlotsAreExclusive' /\ NoSlotIsLost'
  BY DEF SlotsAreExclusive, NoSlotIsLost
<1>5. FreeSlotsAreClaimed'
  BY <1>1 DEF FreeSlotsAreClaimed
<1>. QED BY <1>2, <1>3, <1>4, <1>5

\* The environment's steps change neither slots nor threads.
LEMMA EnvironmentIInv ==
  ASSUME IInv, (\E s \in Slots : Drop(s)) \/ UNCHANGED vars
  PROVE  IInv'
<1> USE DEF IInv, Drop, vars
<1>1. TypeOK'
  BY DEF TypeOK
<1>2. UNCHANGED <<available, holder, pc, slotOf>>
  OBVIOUS
<1>. QED BY <1>1, <1>2 DEF Owners, SlotsAreExclusive, NoSlotIsLost,
                          FreeSlotsAreClaimed, Asleep, Coming

LEMMA NextIInv == IInv /\ [Next]_vars => IInv'
<1> SUFFICES ASSUME IInv, [Next]_vars PROVE IInv'
  OBVIOUS
<1>1. ASSUME NEW t \in Threads,
             Progress(t) \/ Call(t) \/ Release(t) \/ SpuriousWake(t) \/ TimeOut(t)
      PROVE  IInv'
  BY <1>1, WaitingIInv, TakeIInv, ReopenFailsIInv, ReleaseIInv, NotifyIInv
  DEF Progress
<1>2. CASE (\E s \in Slots : Drop(s)) \/ UNCHANGED vars
  BY <1>2, EnvironmentIInv
<1>. QED BY <1>1, <1>2 DEF Next

THEOREM Invariance == Spec => []IInv
  BY InitIInv, NextIInv, PTL DEF Spec

\* Every state has its type.
THEOREM TypeCorrect == Spec => []TypeOK
  BY Invariance, PTL DEF IInv

\* Whatever acquire() and release() run into, a connection has one owner.
THEOREM ConnectionsAreExclusive == Spec => []SlotsAreExclusive
  BY Invariance, PTL DEF IInv

\* ... and the pool never shrinks: a failed reconnect gives the slot back.
THEOREM PoolKeepsItsSlots == Spec => []NoSlotIsLost
  BY Invariance, PTL DEF IInv

\* The notifications of the pool are enough for its sleepers.
THEOREM NoMissedSlot == Spec => []FreeSlotsAreClaimed
  BY Invariance, PTL DEF IInv

-----------------------------------------------------------------------------
(***************************************************************************)
(* The pool deals out connections as Leases says.                          *)
(***************************************************************************)

\* One thread moves: what becomes of its lease, and of its being in acquire().
LEMMA OneThreadMoves ==
  ASSUME TypeOK, NEW t \in Threads, NEW where,
         \/ pc' = [pc EXCEPT ![t] = where]
         \/ pc[t] # "asleep" /\ where = "idle" /\ MoveAndNotify(t, where),
         where # "holding", where = "notify" => slotOf'[t] = NoSlot,
         \A u \in Threads \ {t} : slotOf'[u] = slotOf[u]
  PROVE  /\ heldSlots' = [heldSlots EXCEPT ![t] = NoSlot]
         /\ askers' = IF where \in Acquiring THEN askers \union {t} ELSE askers \ {t}
<1>1. pc \in [Threads -> Acquiring \union {"idle", "holding", "notify"}]
  BY DEF TypeOK
<1>2. /\ pc'[t] = where
      /\ \A u \in Threads \ {t} :
           pc'[u] = pc[u] \/ (pc[u] = "asleep" /\ pc'[u] = "woken")
  <2>1. CASE pc' = [pc EXCEPT ![t] = where]
    BY <1>1, <2>1
  <2>2. CASE pc[t] # "asleep" /\ where = "idle" /\ MoveAndNotify(t, where)
    <3>1. CASE Asleep = {}
      BY <1>1, <2>2, <3>1 DEF MoveAndNotify
    <3>2. CASE Asleep # {}
      <4>1. PICK s \in Asleep : pc' = [[pc EXCEPT ![t] = "idle"] EXCEPT ![s] = "woken"]
        BY <2>2, <3>2 DEF MoveAndNotify
      <4>. QED BY <1>1, <2>2, <4>1 DEF Asleep
    <3>. QED BY <3>1, <3>2
  <2>. QED BY <2>1, <2>2
<1>3. heldSlots' = [heldSlots EXCEPT ![t] = NoSlot]
  <2>1. \A u \in Threads : heldSlots'[u] = [heldSlots EXCEPT ![t] = NoSlot][u]
    BY <1>2 DEF heldSlots
  <2>. QED BY <2>1 DEF heldSlots
<1>4. askers' = IF where \in Acquiring THEN askers \union {t} ELSE askers \ {t}
  BY <1>2 DEF askers, Acquiring, Looking
<1>. QED BY <1>3, <1>4

\* A slot that is free, or that is being probed, belongs to nobody.
LEMMA ProbedSlotsAreFree ==
  ASSUME IInv, NEW t \in Threads, holder = t
  PROVE  /\ slotOf[t] \in Slots /\ slotOf[t] \in Deal!Free
         /\ t \in askers /\ heldSlots[t] = NoSlot
<1>1. pc[t] = "probing" /\ slotOf[t] \in Slots /\ NoSlot \notin Slots
  BY DEF IInv, Owners, TypeOK, NoSlot, Slots
<1>2. \A u \in Threads : heldSlots[u] # slotOf[t]
  BY <1>1 DEF IInv, SlotsAreExclusive, heldSlots
<1>. QED BY <1>1, <1>2 DEF Deal!Free, askers, Acquiring, heldSlots

\* If none is available and nobody probes, every slot is out.
LEMMA NothingFree ==
  ASSUME IInv, holder = NoThread, available = <<>>
  PROVE  Deal!Free = {}
<1> SUFFICES ASSUME NEW s \in Slots PROVE \E t \in Threads : heldSlots[t] = s
  BY DEF Deal!Free
<1>1. PICK t \in Threads : slotOf[t] = s
  BY DEF IInv, NoSlotIsLost
<1>2. pc[t] # "probing" /\ slotOf[t] # NoSlot
  BY <1>1, DatabasePoolAssumption
  DEF IInv, Owners, NoSlot, Slots, DatabasePoolAssumption
<1>3. pc[t] = "holding"
  BY <1>2 DEF IInv, Owners
<1>. QED BY <1>1, <1>3 DEF heldSlots

LEMMA HolderThreads ==
  ASSUME NEW t \in Threads PROVE NoThread # t
  BY DatabasePoolAssumption DEF DatabasePoolAssumption

\* acquire(), before it has a slot.
LEMMA AskingSteps ==
  ASSUME IInv, NEW t \in Threads,
         Call(t) \/ Take(t) \/ Wait(t) \/ SpuriousWake(t) \/ TimeOut(t)
  PROVE  [Deal!Next]_Deal!vars
<1>0. TypeOK /\ Owners
  BY DEF IInv
<1>1. conn' = conn /\ pc[t] # "holding" /\ heldSlots[t] = NoSlot
  BY DEF Call, Take, Wait, SpuriousWake, TimeOut, Looking, heldSlots
<1>2. CASE Call(t)
  <2>1. /\ heldSlots' = [heldSlots EXCEPT ![t] = NoSlot]
        /\ askers' = askers \union {t}
    BY <1>0, <1>2, OneThreadMoves DEF Call, Acquiring, Looking
  <2>2. heldSlots' = heldSlots
    BY <1>1, <2>1 DEF heldSlots
  <2>3. t \notin askers
    BY <1>2 DEF Call, askers, Acquiring, Looking
  <2>4. Deal!Ask(t)
    BY <1>1, <2>1, <2>2, <2>3 DEF Deal!Ask
  <2>. QED BY <2>4 DEF Deal!Next
<1>3. CASE Take(t) \/ Wait(t) \/ SpuriousWake(t) \/ TimeOut(t)
  <2>1. t \in askers
    BY <1>3 DEF Take, Wait, SpuriousWake, TimeOut, askers, Acquiring, Looking
  <2>2. PICK where \in Acquiring :
          /\ where # "holding" /\ where # "notify"
          /\ pc' = [pc EXCEPT ![t] = where]
    BY <1>3 DEF Take, Wait, SpuriousWake, TimeOut, Acquiring, Looking
  <2>3. \A u \in Threads \ {t} : slotOf'[u] = slotOf[u]
    BY <1>0, <1>3 DEF Take, Wait, SpuriousWake, TimeOut, TypeOK
  <2>4. /\ heldSlots' = [heldSlots EXCEPT ![t] = NoSlot]
        /\ askers' = askers \union {t}
    BY <1>0, <2>2, <2>3, OneThreadMoves
  <2>5. heldSlots' = heldSlots
    BY <1>1, <2>4 DEF heldSlots
  <2>. QED BY <1>1, <2>1, <2>4, <2>5 DEF Deal!vars
<1>. QED BY <1>2, <1>3

\* acquire() succeeds: nobody has the slot, and its connection works.
LEMMA GrantSteps ==
  ASSUME IInv, NEW t \in Threads, ProbeSucceeds(t) \/ Reopen(t)
  PROVE  Deal!Grant(t, slotOf[t])
<1>1. /\ slotOf[t] \in Deal!Free /\ t \in askers /\ slotOf[t] \in Slots
  BY ProbedSlotsAreFree DEF ProbeSucceeds, Reopen
<1>2. /\ pc' = [pc EXCEPT ![t] = "holding"] /\ slotOf' = slotOf
      /\ pc \in [Threads -> Acquiring \union {"idle", "holding", "notify"}]
      /\ conn \in [Slots -> {"live", "dead"}]
  BY DEF ProbeSucceeds, Reopen, IInv, TypeOK
<1>3. heldSlots' = [heldSlots EXCEPT ![t] = slotOf[t]]
  <2>1. \A u \in Threads : heldSlots'[u] = [heldSlots EXCEPT ![t] = slotOf[t]][u]
    BY <1>2 DEF heldSlots
  <2>. QED BY <2>1 DEF heldSlots
<1>4. askers' = askers \ {t}
  BY <1>2 DEF askers, Acquiring, Looking
<1>5. conn' = [conn EXCEPT ![slotOf[t]] = "live"]
  BY <1>1, <1>2 DEF ProbeSucceeds, Reopen
<1>. QED BY <1>1, <1>3, <1>4, <1>5 DEF Deal!Grant

\* It fails: all slots are out, or the one it was given cannot be reopened.
LEMMA RefuseSteps ==
  ASSUME IInv, NEW t \in Threads, GiveUp(t) \/ ReopenFails(t)
  PROVE  Deal!Refuse(t)
<1>0. TypeOK /\ Owners
  BY DEF IInv
<1>1. t \in askers /\ heldSlots[t] = NoSlot /\ conn' = conn
  BY <1>0 DEF Owners, GiveUp, ReopenFails, askers, Acquiring, Looking, heldSlots
<1>2. Deal!Free = {} \/ \E s \in Deal!Free : conn[s] = "dead"
  BY NothingFree, ProbedSlotsAreFree DEF GiveUp, ReopenFails
<1>3. /\ heldSlots' = [heldSlots EXCEPT ![t] = NoSlot]
      /\ askers' = askers \ {t}
  <2>1. \A u \in Threads \ {t} : slotOf'[u] = slotOf[u]
    BY <1>0 DEF GiveUp, ReopenFails, TypeOK
  <2>2. CASE GiveUp(t)
    <3>1. pc' = [pc EXCEPT ![t] = "idle"]
      BY <2>2 DEF GiveUp
    <3>2. "idle" # "holding" /\ "idle" # "notify" /\ "idle" \notin Acquiring
      BY DEF Acquiring, Looking
    <3>. HIDE DEF Acquiring
    <3>. QED BY <1>0, <2>1, <3>1, <3>2, OneThreadMoves
  <2>3. CASE ReopenFails(t)
    <3>1. pc[t] # "asleep" /\ MoveAndNotify(t, "idle")
      BY <1>0, <2>3 DEF ReopenFails, Owners
    <3>. QED BY <1>0, <2>1, <3>1, OneThreadMoves DEF Acquiring, Looking
  <2>. QED BY <2>2, <2>3
<1>4. heldSlots' = heldSlots
  BY <1>1, <1>3 DEF heldSlots
<1>. QED BY <1>1, <1>2, <1>3, <1>4 DEF Deal!Refuse

\* The destructor of the Guard, and the notification that follows it.
LEMMA ReturnSteps ==
  ASSUME IInv, NEW t \in Threads, Release(t) \/ Notify(t)
  PROVE  [Deal!Next]_Deal!vars
<1>0. TypeOK /\ Owners
  BY DEF IInv
<1>1. /\ t \notin askers /\ conn' = conn
      /\ \A u \in Threads \ {t} : slotOf'[u] = slotOf[u]
  BY <1>0 DEF Release, Notify, TypeOK, askers, Acquiring, Looking
<1>2. CASE Release(t)
  <2>1. heldSlots[t] # NoSlot
    BY <1>0, <1>2 DEF Release, Owners, heldSlots
  <2>2. slotOf'[t] = NoSlot
    BY <1>0, <1>2 DEF Release, TypeOK
  <2>3. /\ heldSlots' = [heldSlots EXCEPT ![t] = NoSlot]
        /\ askers' = askers \ {t}
    BY <1>0, <1>1, <1>2, <2>2, OneThreadMoves DEF Release, Acquiring, Looking
  <2>4. Deal!Return(t)
    BY <1>1, <2>1, <2>3 DEF Deal!Return
  <2>. QED BY <2>4 DEF Deal!Next
<1>3. CASE Notify(t)
  <2>1. /\ heldSlots' = [heldSlots EXCEPT ![t] = NoSlot]
        /\ askers' = askers \ {t}
    BY <1>0, <1>1, <1>3, OneThreadMoves DEF Notify, Acquiring, Looking
  <2>2. heldSlots[t] = NoSlot
    BY <1>3 DEF Notify, heldSlots
  <2>3. heldSlots' = heldSlots
    BY <2>1, <2>2 DEF heldSlots
  <2>. QED BY <1>1, <2>1, <2>3 DEF Deal!vars
<1>. QED BY <1>2, <1>3

LEMMA LeaseSteps == IInv /\ [Next]_vars => [Deal!Next]_Deal!vars
<1> SUFFICES ASSUME IInv, [Next]_vars PROVE [Deal!Next]_Deal!vars
  OBVIOUS
<1>1. ASSUME NEW t \in Threads,
             Progress(t) \/ Call(t) \/ Release(t) \/ SpuriousWake(t) \/ TimeOut(t)
      PROVE  [Deal!Next]_Deal!vars
  <2>1. CASE Call(t) \/ Take(t) \/ Wait(t) \/ SpuriousWake(t) \/ TimeOut(t)
    BY <2>1, AskingSteps
  <2>2. CASE ProbeSucceeds(t) \/ Reopen(t)
    <3>1. Deal!Grant(t, slotOf[t])
      BY <2>2, GrantSteps
    <3>2. slotOf[t] \in Slots
      BY <2>2, ProbedSlotsAreFree DEF ProbeSucceeds, Reopen
    <3>. QED BY <3>1, <3>2 DEF Deal!Next
  <2>3. CASE GiveUp(t) \/ ReopenFails(t)
    BY <2>3, RefuseSteps DEF Deal!Next
  <2>4. CASE Release(t) \/ Notify(t)
    BY <2>4, ReturnSteps
  <2>. QED BY <1>1, <2>1, <2>2, <2>3, <2>4 DEF Progress
<1>2. CASE \E s \in Slots : Drop(s)
  <2>1. PICK s \in Slots : Drop(s)
    BY <1>2
  <2>2. Deal!Break(s)
    BY <2>1 DEF Drop, Deal!Break, heldSlots, askers
  <2>. QED BY <2>2 DEF Deal!Next
<1>3. CASE UNCHANGED vars
  BY <1>3 DEF vars, Deal!vars, heldSlots, askers
<1>. QED BY <1>1, <1>2, <1>3 DEF Next

\* The pool implements Leases.
THEOREM PoolImplementsLeases == Spec => ImplementsLeases
<1>1. Init => Deal!Init
  BY DEF Init, Deal!Init, heldSlots, askers, Acquiring, Looking
<1>. QED BY <1>1, LeaseSteps, Invariance, PTL DEF Spec, ImplementsLeases, Deal!Spec

\* A connection passes from one thread to another only through the pool, and
\* acquire() throws only when all connections were out, or one of those that
\* were in had broken: not because a wait ended next to one that works.
THEOREM PoolDealsFairly == Spec => Deal!DealtFairly
<1>1. ASSUME IInv, [Next]_vars PROVE [Deal!Dealt]_Deal!vars
  <2>1. [Deal!Next]_Deal!vars
    BY <1>1, LeaseSteps
  <2>2. \A t, u \in Threads : heldSlots[t] = heldSlots[u] /\ t # u => heldSlots[t] = NoSlot
    BY <1>1 DEF IInv, SlotsAreExclusive, heldSlots
  <2>3. heldSlots = [t \in Threads |-> heldSlots[t]] /\ NoSlot \notin Slots
    BY DEF heldSlots, NoSlot, Slots
  <2>4. ASSUME NEW t \in Threads, Deal!Ask(t) PROVE Deal!Dealt
    BY <2>2, <2>3, <2>4 DEF Deal!Ask, Deal!Dealt
  <2>5. ASSUME NEW t \in Threads, Deal!Refuse(t) PROVE Deal!Dealt
    BY <2>2, <2>3, <2>5 DEF Deal!Refuse, Deal!Dealt
  <2>6. ASSUME NEW t \in Threads, Deal!Return(t) PROVE Deal!Dealt
    BY <2>2, <2>3, <2>6 DEF Deal!Return, Deal!Dealt
  <2>7. ASSUME NEW t \in Threads, NEW s \in Slots, Deal!Grant(t, s) PROVE Deal!Dealt
    <3>1. s \in Deal!Free /\ heldSlots' = [heldSlots EXCEPT ![t] = s]
      BY <2>7 DEF Deal!Grant
    <3>2. heldSlots'[t] = s /\ \A u \in Threads \ {t} : heldSlots'[u] = heldSlots[u]
      BY <2>3, <3>1
    <3>3. \A v, u \in Threads : v # u /\ heldSlots[v] # NoSlot => heldSlots'[u] # heldSlots[v]
      BY <2>2, <3>1, <3>2 DEF Deal!Free
    <3>4. askers \ askers' \subseteq {t}
      BY <2>7 DEF Deal!Grant
    <3>. QED BY <2>3, <3>2, <3>3, <3>4 DEF Deal!Dealt
  <2>8. ASSUME NEW s \in Slots, Deal!Break(s) PROVE Deal!Dealt
    BY <2>2, <2>3, <2>8 DEF Deal!Break, Deal!Dealt
  <2>. QED BY <2>1, <2>4, <2>5, <2>6, <2>7, <2>8 DEF Deal!Next
<1>. QED BY <1>1, Invariance, PTL DEF Spec, Deal!DealtFairly
=============================================================================
