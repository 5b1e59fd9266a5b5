---------------------------- MODULE VersionGate ----------------------------
(***************************************************************************)
(* The gate for client versions: every attempt to log in or to register is *)
(* counted under the version the client claims, and is then let in only if *)
(* that version lies between the two the server is configured with.        *)
(*                                                                         *)
(* A claim is the key it is counted under and the segments of its text     *)
(* between the dots: what std::stoi makes of each, or Junk where it throws *)
(* (also on a number too large for an int).  Text that stoi ignores after  *)
(* a number, and characters beyond the key's, are thus abstracted from.    *)
(***************************************************************************)
EXTENDS Integers, Sequences, FiniteSets, Bags

CONSTANTS
  Keys,         \* the first kMaxKeyLen characters of a version, "(empty)" for none
  Other,        \* kOtherBucket, which a client may also claim
  MaxDistinct,  \* kMaxDistinct
  MaxInt,       \* the largest int
  Junk,
  Claims,       \* what clients claim
  Lowest,       \* the segments of min_client_version and max_client_version
  Highest,
  MaxAttempts   \* bound: attempts in a behaviour

Ints == -(MaxInt + 1)..MaxInt
Segments == Seq(Ints \union {Junk})

ASSUME VersionGateAssumption ==
  /\ Other \in Keys
  /\ MaxDistinct \in Nat
  /\ MaxInt \in Nat /\ Junk \notin Int
  /\ Claims \subseteq [key : Keys, segments : Segments]
  /\ Lowest \in Segments /\ Highest \in Segments

VARIABLES
  counts,   \* counts_: a bag of keys
  total,    \* total_
  last      \* the last claim and its answer, as a set of no or one pair (history)

vars == <<counts, total, last>>

Outdated == "ERR_VERSION_OUTDATED"
TooNew   == "ERR_VERSION_TOO_NEW"
Accepted == "accepted"

TypeOK ==
  /\ BagToSet(counts) \subseteq Keys
  /\ counts \in [BagToSet(counts) -> Nat]
  /\ total \in Nat
  /\ last \subseteq Claims \X {Outdated, TooNew, Accepted}

Init ==
  /\ counts = EmptyBag
  /\ total = 0
  /\ last = {}

-----------------------------------------------------------------------------
(***************************************************************************)
(* The comparison of versions.                                             *)
(***************************************************************************)

\* parseVersion: three numbers, and nobody looks at what follows them.
Parses(s) == Len(s) >= 3 /\ \A i \in 1..3 : s[i] \in Ints

\* What the subtraction of two ints can return; where it overflows the code
\* relies on undefined behaviour, and a build may wrap around or, comparing the
\* operands instead, have the sign right.
Minus(x, y) ==
  LET d == x - y IN
  CASE d \in Ints -> {d}
    [] d > MaxInt -> {d, d - 2 * (MaxInt + 1)}
    [] OTHER      -> {d, d + 2 * (MaxInt + 1)}

\* Mutant of Compare: the minor number is not compared.
CompareEnds(a, b) ==
  CASE a[1] # b[1] -> Minus(a[1], b[1])
    [] OTHER       -> Minus(a[3], b[3])

Compare(a, b) ==
  CASE a[1] # b[1] -> Minus(a[1], b[1])
    [] a[1] = b[1] /\ a[2] # b[2] -> Minus(a[2], b[2])
    [] OTHER -> Minus(a[3], b[3])

Verdict(atLeast, atMost) ==
  IF atLeast < 0 THEN Outdated ELSE IF atMost > 0 THEN TooNew ELSE Accepted

\* The verdicts checkClientVersion can come to.
Verdicts(s) ==
  IF \A t \in {s, Lowest, Highest} : Parses(t)
  THEN {Verdict(x, y) : x \in Compare(s, Lowest), y \in Compare(s, Highest)}
  ELSE {Outdated}

-----------------------------------------------------------------------------
(***************************************************************************)
(* VersionStats.                                                           *)
(***************************************************************************)

\* Mutant of Bucket: a new key is refused only when the map is one more than
\* full.
BucketLate(key) ==
  IF \/ BagIn(key, counts)
     \/ Cardinality(BagToSet(counts)) <= MaxDistinct
  THEN key ELSE Other

Bucket(key) ==
  IF \/ BagIn(key, counts)
     \/ Cardinality(BagToSet(counts)) < MaxDistinct
  THEN key ELSE Other

Record(key) ==
  /\ counts' = counts (+) SetToBag({Bucket(key)})
  /\ total' = total + 1

-----------------------------------------------------------------------------

\* checkClientVersion.  Only the counting concerns other threads, and it is one
\* critical section.
CheckClientVersion(claim) ==
  /\ total < MaxAttempts
  /\ Record(claim.key)
  /\ \E v \in Verdicts(claim.segments) : last' = {<<claim, v>>}

Next == \E claim \in Claims : CheckClientVersion(claim)

Spec == Init /\ [][Next]_vars

-----------------------------------------------------------------------------
(***************************************************************************)
(* Properties.                                                             *)
(***************************************************************************)

\* "at most kMaxDistinct distinct keys, overflow goes to the "_other" bucket"
\* (VersionStats.hpp): clients cannot make the map grow further, in whatever
\* order they claim new keys, known ones and "_other".
KeysAreBounded ==
  /\ Cardinality(BagToSet(counts) \ {Other}) <= MaxDistinct
  /\ Cardinality(BagToSet(counts)) <= MaxDistinct + 1

\* The order of versions: the first number in which they differ decides.
Precedes(a, b) ==
  \E i \in 1..3 : a[i] < b[i] /\ \A j \in 1..(i - 1) : a[j] = b[j]

IsRelease(s) == Parses(s) /\ \A i \in 1..3 : s[i] >= 0

\* "Outside [min_client_version, max_client_version] ... the server rejects"
\* (login-server-api.md), with the right one of its two codes, and lets in
\* whatever is inside, however far apart the numbers are.  Of claims with a
\* negative number nothing is said: there the subtraction may overflow.
GateIsTheRange ==
  IsRelease(Lowest) /\ IsRelease(Highest) =>
    \A answer \in last :
      LET s == answer[1].segments  v == answer[2] IN
      /\ ~Parses(s) => v = Outdated
      /\ IsRelease(s) =>
           /\ v = Outdated <=> Precedes(s, Lowest)
           /\ v = TooNew <=> Precedes(Highest, s) /\ ~Precedes(s, Lowest)
=============================================================================
