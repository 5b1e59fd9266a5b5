-------------------------- MODULE VersionGateProofs --------------------------
(***************************************************************************)
(* Proofs about VersionGate, for any range of versions, any width of the   *)
(* ints and any claims.                                                    *)
(***************************************************************************)
EXTENDS VersionGate, FiniteSetTheorems, TLAPS

CountInv ==
  /\ TypeOK
  /\ IsFiniteSet(BagToSet(counts))
  /\ KeysAreBounded

-----------------------------------------------------------------------------

\* What counting a key does to the map.
LEMMA Counted ==
  ASSUME TypeOK, NEW key \in Keys, Record(key)
  PROVE  /\ BagToSet(counts') = BagToSet(counts) \union {Bucket(key)}
         /\ counts' \in [BagToSet(counts') -> Nat]
         /\ BagToSet(counts') \subseteq Keys
         /\ total' \in Nat
<1> DEFINE b == Bucket(key)
<1>1. b \in Keys
  BY VersionGateAssumption DEF Bucket, VersionGateAssumption
<1>. HIDE DEF b
<1>2. counts' = [e \in (DOMAIN counts) \union {b} |->
                   (IF e \in DOMAIN counts THEN counts[e] ELSE 0)
                     + (IF e \in {b} THEN 1 ELSE 0)]
  BY DEF Record, SetToBag, (+), b
<1>3. total' \in Nat
  BY DEF Record, TypeOK
<1>. QED BY <1>1, <1>2, <1>3 DEF TypeOK, BagToSet, b

\* A key that is not in the map gets in only while there is room, but for the
\* overflow bucket, which always does.
LEMMA BoundKept ==
  ASSUME CountInv, NEW key \in Keys,
         BagToSet(counts') = BagToSet(counts) \union {Bucket(key)}
  PROVE  IsFiniteSet(BagToSet(counts')) /\ KeysAreBounded'
<1> DEFINE D == BagToSet(counts)  E == BagToSet(counts')  b == Bucket(key)
<1>1. IsFiniteSet(D) /\ IsFiniteSet(E) /\ IsFiniteSet(D \ {Other})
      /\ IsFiniteSet(E \ {Other})
  <2>1. IsFiniteSet(D)
    BY DEF CountInv
  <2>2. IsFiniteSet(E)
    BY <2>1, FS_AddElement
  <2>. QED BY <2>1, <2>2, FS_RemoveElement
<1>2. Cardinality(D) \in Nat /\ Cardinality(D \ {Other}) \in Nat
      /\ Cardinality(E) \in Nat /\ Cardinality(E \ {Other}) \in Nat
      /\ MaxDistinct \in Nat
  BY <1>1, FS_CardinalityType, VersionGateAssumption DEF VersionGateAssumption
<1>3. CASE b \in D
  <2>1. E = D
    BY <1>3
  <2>. QED BY <1>1, <2>1 DEF CountInv, KeysAreBounded
<1>4. CASE b \notin D /\ b # Other
  <2>1. Cardinality(D) < MaxDistinct
    BY <1>4 DEF Bucket, BagIn
  <2>2. Cardinality(E) = Cardinality(D) + 1
    BY <1>1, <1>4, FS_AddElement
  <2>3. Cardinality(E \ {Other}) <= Cardinality(E)
    BY <1>1, FS_Subset
  <2>. QED BY <1>1, <1>2, <2>1, <2>2, <2>3 DEF KeysAreBounded
<1>5. CASE b = Other /\ b \notin D
  <2>1. E \ {Other} = D /\ D \ {Other} = D
    BY <1>5
  <2>2. Cardinality(E) = Cardinality(D) + 1
    BY <1>1, <1>5, FS_AddElement
  <2>. QED BY <1>1, <1>2, <2>1, <2>2 DEF CountInv, KeysAreBounded
<1>. QED BY <1>3, <1>4, <1>5

LEMMA AnswerIsVerdict ==
  ASSUME NEW s
  PROVE  Verdicts(s) \subseteq {Outdated, TooNew, Accepted}
  BY DEF Verdicts, Verdict

LEMMA InitCountInv == Init => CountInv
<1> SUFFICES ASSUME Init PROVE CountInv
  OBVIOUS
<1>1. counts = EmptyBag /\ total = 0 /\ last = {}
  BY DEF Init
<1>2. BagToSet(counts) = {} /\ counts \in [{} -> Nat]
  BY <1>1 DEF EmptyBag, SetToBag, BagToSet
<1>3. IsFiniteSet({}) /\ Cardinality({}) = 0 /\ {} \ {Other} = {}
  BY FS_EmptySet
<1>4. KeysAreBounded
  BY <1>2, <1>3, VersionGateAssumption DEF KeysAreBounded, VersionGateAssumption
<1>. QED BY <1>1, <1>2, <1>3, <1>4 DEF CountInv, TypeOK

LEMMA NextCountInv == CountInv /\ [Next]_vars => CountInv'
<1> SUFFICES ASSUME CountInv, [Next]_vars PROVE CountInv'
  OBVIOUS
<1>1. ASSUME NEW claim \in Claims, CheckClientVersion(claim) PROVE CountInv'
  <2>1. claim.key \in Keys
    BY VersionGateAssumption DEF VersionGateAssumption
  <2>2. TypeOK /\ Record(claim.key)
    BY <1>1 DEF CheckClientVersion, CountInv
  <2>3. last' \subseteq Claims \X {Outdated, TooNew, Accepted}
    BY <1>1, AnswerIsVerdict DEF CheckClientVersion
  <2>4. TypeOK'
    BY <2>1, <2>2, <2>3, Counted DEF TypeOK
  <2>5. IsFiniteSet(BagToSet(counts)') /\ KeysAreBounded'
    BY <2>1, <2>2, Counted, BoundKept
  <2>. QED BY <2>4, <2>5 DEF CountInv
<1>2. CASE UNCHANGED vars
  BY <1>2 DEF vars, CountInv, TypeOK, KeysAreBounded
<1>. QED BY <1>1, <1>2 DEF Next

THEOREM Invariance == Spec => []CountInv
  BY InitCountInv, NextCountInv, PTL DEF Spec

\* Every state has its type.
THEOREM TypeCorrect == Spec => []TypeOK
  BY Invariance, PTL DEF CountInv

\* VersionStats stays within its bound, whatever clients claim.
THEOREM MemoryIsBounded == Spec => []KeysAreBounded
  BY Invariance, PTL DEF CountInv

-----------------------------------------------------------------------------

\* Between numbers that are not negative the subtraction cannot overflow.
LEMMA NoOverflow ==
  ASSUME NEW x \in Ints, NEW y \in Ints, x >= 0, y >= 0
  PROVE  Minus(x, y) = {x - y} /\ x - y \in Int
  BY VersionGateAssumption DEF VersionGateAssumption, Ints, Minus

\* On releases the comparison has one result, and its sign is the order.
LEMMA CompareIsOrder ==
  ASSUME NEW a \in Segments, NEW b \in Segments, IsRelease(a), IsRelease(b),
         NEW d \in Compare(a, b)
  PROVE  /\ d \in Int
         /\ d < 0 <=> Precedes(a, b)
         /\ d > 0 <=> Precedes(b, a)
<1>1. \A i \in 1..3 : a[i] \in Ints /\ b[i] \in Ints /\ a[i] >= 0 /\ b[i] >= 0
  BY DEF IsRelease, Parses
<1>2. /\ a[1] \in Int /\ a[2] \in Int /\ a[3] \in Int
      /\ b[1] \in Int /\ b[2] \in Int /\ b[3] \in Int
  BY <1>1, VersionGateAssumption DEF Ints, VersionGateAssumption
<1>3. ASSUME NEW x, NEW y
      PROVE  Precedes(x, y) <=> \/ x[1] < y[1]
                                \/ x[1] = y[1] /\ x[2] < y[2]
                                \/ x[1] = y[1] /\ x[2] = y[2] /\ x[3] < y[3]
  BY DEF Precedes
<1>4. CASE a[1] # b[1]
  <2>1. d = a[1] - b[1]
    BY <1>1, <1>4, NoOverflow DEF Compare
  <2>. QED BY <1>2, <1>3, <1>4, <2>1
<1>5. CASE a[1] = b[1] /\ a[2] # b[2]
  <2>1. d = a[2] - b[2]
    BY <1>1, <1>5, NoOverflow DEF Compare
  <2>. QED BY <1>2, <1>3, <1>5, <2>1
<1>6. CASE a[1] = b[1] /\ a[2] = b[2]
  <2>1. d = a[3] - b[3]
    BY <1>1, <1>6, NoOverflow DEF Compare
  <2>. QED BY <1>2, <1>3, <1>6, <2>1
<1>. QED BY <1>4, <1>5, <1>6

LEMMA VerdictIsRange ==
  ASSUME NEW s \in Segments, NEW v \in Verdicts(s),
         IsRelease(Lowest), IsRelease(Highest)
  PROVE  /\ ~Parses(s) => v = Outdated
         /\ IsRelease(s) =>
              /\ v = Outdated <=> Precedes(s, Lowest)
              /\ v = TooNew <=> Precedes(Highest, s) /\ ~Precedes(s, Lowest)
<1>1. ~Parses(s) => v = Outdated
  BY DEF Verdicts
<1>2. ASSUME IsRelease(s)
      PROVE  /\ v = Outdated <=> Precedes(s, Lowest)
             /\ v = TooNew <=> Precedes(Highest, s) /\ ~Precedes(s, Lowest)
  <2>1. Parses(s) /\ Parses(Lowest) /\ Parses(Highest)
    BY <1>2 DEF IsRelease
  <2>2. PICK x \in Compare(s, Lowest), y \in Compare(s, Highest) : v = Verdict(x, y)
    BY <2>1 DEF Verdicts
  <2>3. /\ x \in Int /\ y \in Int
        /\ x < 0 <=> Precedes(s, Lowest)
        /\ y > 0 <=> Precedes(Highest, s)
    BY <1>2, CompareIsOrder, VersionGateAssumption DEF VersionGateAssumption
  <2>. QED BY <2>2, <2>3 DEF Verdict, Outdated, TooNew, Accepted
<1>. QED BY <1>1, <1>2

\* The gate lets in exactly the releases of the configured range: subtracting
\* goes wrong for no version without a negative number.
THEOREM GateIsExact == Spec => []GateIsTheRange
<1>1. Init => GateIsTheRange
  BY DEF Init, GateIsTheRange
<1>2. GateIsTheRange /\ [Next]_vars => GateIsTheRange'
  <2> SUFFICES ASSUME GateIsTheRange, [Next]_vars PROVE GateIsTheRange'
    OBVIOUS
  <2>1. ASSUME NEW claim \in Claims, CheckClientVersion(claim)
        PROVE  GateIsTheRange'
    <3>1. claim.segments \in Segments
      BY VersionGateAssumption DEF VersionGateAssumption
    <3>2. PICK v \in Verdicts(claim.segments) : last' = {<<claim, v>>}
      BY <2>1 DEF CheckClientVersion
    <3>. QED BY <3>1, <3>2, VerdictIsRange DEF GateIsTheRange
  <2>2. CASE UNCHANGED vars
    BY <2>2 DEF vars, GateIsTheRange
  <2>. QED BY <2>1, <2>2 DEF Next
<1>. QED BY <1>1, <1>2, PTL DEF Spec
=============================================================================
