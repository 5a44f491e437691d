------------------------ MODULE OrderedIndex_proofs -------------------------
(***************************************************************************)
(* For every key set, value set, version limit and pair of read-ahead      *)
(* lengths (the least at least 2): a buffer whose version is current is a  *)
(* window on the map, and OrderedIndex implements OrderedMap.              *)
(***************************************************************************)
EXTENDS OrderedIndex, TLAPS, FiniteSetTheorems, WellFoundedInduction

\* A nonempty set of naturals has a least element, and First picks it.
LEMMA FirstIsLeast ==
  ASSUME NEW S \in SUBSET Nat, S # {}
  PROVE  First(S) \in S /\ \A i \in S : First(S) <= i
<1>. DEFINE R == OpToRel(<, Nat)
<1>1. \A i, j \in Nat : i < j => <<i, j>> \in R
  BY Zenon DEF OpToRel
<1>. HIDE DEF R
<1>2. IsWellFoundedOn(R, Nat)
  BY NatLessThanWellFounded DEF R
<1>3. PICK x \in S : \A y \in S : ~ (<<y, x>> \in R)
  BY <1>2, WFMin, Zenon
<1>4. \A y \in S : x <= y
  <2>. SUFFICES ASSUME NEW y \in S PROVE ~ (y < x)
    OBVIOUS
  <2>. QED  BY <1>1, <1>3
<1>. QED  BY <1>4 DEF First

\* There is only one.
LEMMA FirstUnique ==
  ASSUME NEW S \in SUBSET Nat, NEW x \in S, \A i \in S : x <= i
  PROVE  First(S) = x
<1>1. First(S) \in S /\ \A i \in S : First(S) <= i
  BY FirstIsLeast
<1>2. First(S) <= x /\ x <= First(S) /\ x \in Nat /\ First(S) \in Nat
  BY <1>1
<1>. QED  BY <1>2

\* B is an initial segment of R.
Initial(B, R) == B \subseteq R /\ \A i \in B, j \in R : j <= i => j \in B

\* A nonempty initial segment starts with the least element of the whole.
LEMMA FirstOfInitial ==
  ASSUME NEW R \in SUBSET Nat, NEW B, Initial(B, R), B # {}
  PROVE  First(B) = First(R)
<1>1. B \in SUBSET Nat /\ R # {}
  BY DEF Initial
<1>2. First(R) \in R /\ \A i \in R : First(R) <= i
  BY <1>1, FirstIsLeast
<1>3. First(R) \in B
  BY <1>2, <1>1 DEF Initial
<1>. QED  BY <1>1, <1>2, <1>3, FirstUnique DEF Initial

\* Two elements are neither none nor one.
LEMMA TwoElements ==
  ASSUME NEW B, Cardinality(B) >= 2
  PROVE  B # {} /\ \A x : B # {x}
<1>1. B = {} => Cardinality(B) = 0
  BY FS_EmptySet, Zenon
<1>2. \A x : B = {x} => Cardinality(B) = 1
  BY FS_Singleton, Zenon
<1>3. ~ (0 >= 2) /\ ~ (1 >= 2)
  OBVIOUS
<1>. QED  BY <1>1, <1>2, <1>3, Zenon

\* The answer read off an initial segment that is long enough, or is
\* everything, is the answer read off the whole.
LEMMA AnswerFromInitial ==
  ASSUME NEW m, NEW e, NEW R \in SUBSET Nat, NEW B,
         Initial(B, R),
         \A i \in B : e[i] = m[i],
         Cardinality(B) >= 2 \/ B = R
  PROVE  FirstEntry(e, B) = FirstEntry(m, R)
<1>1. CASE B = {}
  <2>1. R = {}
    BY <1>1, TwoElements
  <2>. QED  BY <1>1, <2>1 DEF FirstEntry
<1>2. CASE B # {}
  <2>1. First(B) = First(R)
    BY <1>2, FirstOfInitial
  <2>2. B \in SUBSET Nat /\ R # {}
    BY <1>2 DEF Initial
  <2>3. First(B) \in B
    BY <1>2, <2>2, FirstIsLeast
  <2>. DEFINE B1 == B \ {First(B)}
              R1 == R \ {First(R)}
  <2>4. Initial(B1, R1) /\ R1 \in SUBSET Nat
    BY <2>1 DEF Initial
  <2>5. FirstOrNone(B1) = FirstOrNone(R1)
    <3>1. CASE B1 = {}
      <4>1. B = {First(B)}
        BY <2>3, <3>1
      <4>2. R1 = {}
        BY <4>1, <2>1, <3>1, TwoElements
      <4>. QED  BY <3>1, <4>2 DEF FirstOrNone
    <3>2. CASE B1 # {}
      <4>1. First(B1) = First(R1)
        BY <3>2, <2>4, FirstOfInitial
      <4>2. R1 # {}
        BY <3>2, <2>4 DEF Initial
      <4>. QED  BY <3>2, <4>1, <4>2 DEF FirstOrNone
    <3>. QED  BY <3>1, <3>2
  <2>. QED  BY <1>2, <2>1, <2>2, <2>3, <2>5 DEF FirstEntry
<1>. QED  BY <1>1, <1>2
-----------------------------------------------------------------------------
\* The inductive invariant.  PrefetchIsWindow is inductive on its own once the
\* types are known: a mutation moves the version off that of the buffer.
IInv == TypeOK /\ PrefetchIsWindow

\* What it takes to be one of the maps over Keys and Values.
LEMMA EntriesElim ==
  ASSUME NEW m \in Entries
  PROVE  /\ DOMAIN m \in SUBSET Keys
         /\ DOMAIN m \in SUBSET Nat
         /\ \A j \in DOMAIN m : m[j] \in Values
<1>1. PICK S \in SUBSET Keys : m \in [S -> Values]
  BY Zenon DEF Entries
<1>. QED  BY <1>1, KeysAssumption

\* Any function from a set of keys to values is one.
LEMMA EntriesIntro ==
  ASSUME NEW S \in SUBSET Keys, NEW m \in [S -> Values]
  PROVE  m \in Entries
BY Zenon DEF Entries

\* The maps are closed under the operations of the index.
LEMMA EntriesClosed ==
  ASSUME NEW m \in Entries
  PROVE  /\ NoEntries \in Entries
         /\ \A k \in Keys, v \in Values : With(m, k, v) \in Entries
         /\ \A k \in Keys : Without(m, k) \in Entries
         /\ \A S \in SUBSET DOMAIN m : [j \in S |-> m[j]] \in Entries
<1>0. DOMAIN m \in SUBSET Keys /\ \A j \in DOMAIN m : m[j] \in Values
  BY EntriesElim
<1>1. NoEntries \in Entries
  <2>1. NoEntries \in [{} -> Values]
    BY DEF NoEntries
  <2>. QED  BY <2>1, EntriesIntro
<1>2. ASSUME NEW k \in Keys, NEW v \in Values
      PROVE  With(m, k, v) \in Entries
  <2>1. With(m, k, v) \in [DOMAIN m \cup {k} -> Values]
    BY <1>0 DEF With
  <2>2. DOMAIN m \cup {k} \in SUBSET Keys
    BY <1>0
  <2>. QED  BY <2>1, <2>2, EntriesIntro
<1>3. ASSUME NEW S \in SUBSET DOMAIN m
      PROVE  [j \in S |-> m[j]] \in Entries
  <2>1. [j \in S |-> m[j]] \in [S -> Values]
    BY <1>0
  <2>2. S \in SUBSET Keys
    BY <1>0
  <2>. QED  BY <2>1, <2>2, EntriesIntro
<1>4. ASSUME NEW k \in Keys
      PROVE  Without(m, k) \in Entries
  <2>1. DOMAIN m \ {k} \in SUBSET DOMAIN m
    OBVIOUS
  <2>. QED  BY <2>1, <1>3 DEF Without
<1>. QED  BY <1>1, <1>2, <1>3, <1>4

\* The invariant holds initially.
LEMMA InitIInv == Init => IInv
<1>. SUFFICES ASSUME Init PROVE IInv
  OBVIOUS
<1>0. NoEntries \in [{} -> Values]
  BY DEF NoEntries
<1>1. NoEntries \in Entries
  BY <1>0, EntriesIntro
<1>2. TypeOK
  BY <1>1, VersionAssumption, LengthAssumption DEF Init, TypeOK
<1>. QED  BY <1>2 DEF Init, IInv, PrefetchIsWindow

\* A mutation moves the version off that of a buffer in use.
LEMMA MutationOutdatesBuffer ==
  ASSUME TypeOK, BumpVersion, UNCHANGED prefetch
  PROVE  /\ version' \in 0 .. VersionLimit - 1
         /\ PrefetchIsWindow'
BY VersionAssumption
   DEF TypeOK, BumpVersion, VersionNotReused, wrapping_add_one, PrefetchIsWindow

\* A buffer that may be reused is, once the keys before k are popped, a window
\* on the map from k.
LEMMA PoppedIsWindow ==
  ASSUME IInv, NEW k \in Keys, Reusable(k)
  PROVE  LET p == Popped(k)
             B == From(prefetch.entries, k)
         IN  /\ p.entries = [j \in B |-> prefetch.entries[j]]
             /\ p.start = k /\ p.version = version
             /\ p.complete = prefetch.complete /\ p.length = prefetch.length
             /\ Initial(B, From(map, k))
             /\ \A i \in B : prefetch.entries[i] = map[i]
             /\ prefetch.complete => B = From(map, k)
<1>1. prefetch.start \in Nat /\ k \in Nat /\ prefetch.start <= k
  BY KeysAssumption DEF IInv, TypeOK, Reusable
<1>2. DOMAIN map \in SUBSET Nat /\ DOMAIN prefetch.entries \in SUBSET Nat
  BY EntriesElim DEF IInv, TypeOK
<1>3. /\ DOMAIN prefetch.entries \subseteq From(map, prefetch.start)
      /\ \A i \in DOMAIN prefetch.entries, j \in From(map, prefetch.start) :
            j <= i => j \in DOMAIN prefetch.entries
      /\ \A i \in DOMAIN prefetch.entries : prefetch.entries[i] = map[i]
      /\ prefetch.complete => DOMAIN prefetch.entries = From(map, prefetch.start)
  BY DEF IInv, PrefetchIsWindow, Reusable
<1>4. From(map, k) = {j \in From(map, prefetch.start) : k <= j}
  BY <1>1, <1>2 DEF From
<1>5. From(prefetch.entries, k) = {j \in DOMAIN prefetch.entries : k <= j}
  BY DEF From
<1>6. Initial(From(prefetch.entries, k), From(map, k))
  BY <1>3, <1>4, <1>5 DEF Initial
<1>7. prefetch.complete => From(prefetch.entries, k) = From(map, k)
  BY <1>3, <1>4, <1>5
<1>8. \A i \in From(prefetch.entries, k) : prefetch.entries[i] = map[i]
  BY <1>3, <1>5
<1>. QED  BY <1>6, <1>7, <1>8 DEF Popped, IInv, TypeOK, Reusable

\* A buffer just read from the map is a window on it, and decides the answer.
LEMMA RefillIsWindow ==
  ASSUME TypeOK, NEW k \in Keys, NEW S \in SUBSET DOMAIN map, NEW n \in Nat,
         n >= 2, IsTake(S, k, n)
  PROVE  /\ Initial(S, From(map, k))
         /\ Cardinality(S) < n => S = From(map, k)
         /\ Cardinality(S) >= 2 \/ Cardinality(S) < n
<1>. QED  BY DEF IsTake, Initial

\* A lookup answered from the buffer keeps the invariant and gives the answer
\* of the map.
LEMMA BufferStep ==
  ASSUME IInv, NEW k \in Keys, AnswerFromBuffer(k)
  PROVE  IInv' /\ AbsEntryFrom(k)
<1>. DEFINE p == Popped(k)
            B == From(prefetch.entries, k)
<1>1. Reusable(k) /\ Buffered(p) /\ prefetch' = p /\ ret' = buffered_answer(p)
      /\ map' = map /\ version' = version
  BY DEF AnswerFromBuffer
<1>2. /\ p.entries = [j \in B |-> prefetch.entries[j]]
      /\ p.start = k /\ p.version = version
      /\ p.complete = prefetch.complete /\ p.length = prefetch.length
      /\ Initial(B, From(map, k))
      /\ \A i \in B : prefetch.entries[i] = map[i]
      /\ prefetch.complete => B = From(map, k)
  BY <1>1, PoppedIsWindow
<1>3. From(map, k) \in SUBSET Nat
  BY EntriesElim DEF IInv, TypeOK, From
<1>4. DOMAIN p.entries = B /\ \A i \in B : p.entries[i] = map[i]
  BY <1>2
<1>5. Cardinality(B) >= 2 \/ B = From(map, k)
  BY <1>1, <1>2, <1>4 DEF Buffered
<1>6. AbsEntryFrom(k)
  <2>. HIDE DEF p
  <2>1. FirstEntry(p.entries, B) = FirstEntry(map, From(map, k))
    BY <1>2, <1>3, <1>4, <1>5, AnswerFromInitial
  <2>. QED  BY <1>1, <1>4, <2>1 DEF buffered_answer, AbsEntryFrom
<1>7. PrefetchIsWindow'
  <2>1. From(map, k)' = From(map, k)
    BY <1>1 DEF From
  <2>. QED  BY <1>1, <1>2, <1>4, <2>1 DEF PrefetchIsWindow, Initial, From
<1>8. TypeOK'
  <2>1. p.entries \in Entries
    <3>1. B \in SUBSET DOMAIN prefetch.entries
      BY DEF From
    <3>. QED  BY <1>2, <3>1, EntriesClosed DEF IInv, TypeOK
  <2>. QED  BY <1>1, <1>2, <2>1 DEF IInv, TypeOK, Popped
<1>. QED  BY <1>6, <1>7, <1>8 DEF IInv

\* So does a lookup that reads the map.
LEMMA MapStep ==
  ASSUME IInv, NEW k \in Keys, AnswerFromMap(k)
  PROVE  IInv' /\ AbsEntryFrom(k)
<1>. DEFINE n == IF Reusable(k) THEN Doubled(prefetch.length)
                                ELSE MINIMUM_PREFETCH_LENGTH
<1>1. PICK S \in SUBSET DOMAIN map :
        /\ IsTake(S, k, n)
        /\ prefetch' = Refill(S, k, n)
        /\ ret' = IF Buffered(Refill(S, k, n))
                  THEN buffered_answer(Refill(S, k, n)) ELSE None
  BY DEF AnswerFromMap
<1>2. map' = map /\ version' = version
  BY DEF AnswerFromMap
<1>3. n \in MINIMUM_PREFETCH_LENGTH .. MAXIMUM_PREFETCH_LENGTH
  BY LengthAssumption DEF IInv, TypeOK, Doubled
<1>. HIDE DEF n
<1>4. n \in Nat /\ n >= 2
  BY <1>3, LengthAssumption
<1>. DEFINE p == Refill(S, k, n)
<1>5. /\ Initial(S, From(map, k))
      /\ Cardinality(S) < n => S = From(map, k)
      /\ Cardinality(S) >= 2 \/ Cardinality(S) < n
  BY <1>1, <1>4, RefillIsWindow DEF IInv
<1>6. /\ p.version = version /\ p.start = k /\ p.length = n
      /\ p.complete = (Cardinality(S) < n)
      /\ p.entries = [j \in S |-> map[j]]
  BY DEF Refill
<1>7. Buffered(p)
  BY <1>5, <1>6 DEF Buffered
<1>8. From(map, k) \in SUBSET Nat
  BY EntriesElim DEF IInv, TypeOK, From
<1>9. AbsEntryFrom(k)
  <2>. HIDE DEF p
  <2>1. FirstEntry(p.entries, S) = FirstEntry(map, From(map, k))
    BY <1>5, <1>6, <1>8, AnswerFromInitial
  <2>2. DOMAIN p.entries = S
    BY <1>6
  <2>3. ret' = buffered_answer(p)
    BY <1>1, <1>7 DEF p
  <2>. QED  BY <1>2, <2>1, <2>2, <2>3 DEF buffered_answer, AbsEntryFrom
<1>10. PrefetchIsWindow'
  <2>1. From(map, k)' = From(map, k)
    BY <1>2 DEF From
  <2>2. prefetch' = p
    BY <1>1
  <2>. QED  BY <1>2, <1>5, <1>6, <2>1, <2>2 DEF PrefetchIsWindow, Initial, From
<1>11. TypeOK'
  <2>1. p.entries \in Entries
    BY <1>6, EntriesClosed DEF IInv, TypeOK
  <2>2. p \in [version  : 0 .. VersionLimit - 1,
              start    : Keys \cup {None},
              entries  : Entries,
              complete : BOOLEAN,
              length   : MINIMUM_PREFETCH_LENGTH .. MAXIMUM_PREFETCH_LENGTH]
    BY <1>3, <2>1 DEF IInv, TypeOK, Refill
  <2>. QED  BY <1>1, <1>2, <2>2 DEF IInv, TypeOK
<1>. QED  BY <1>9, <1>10, <1>11 DEF IInv
-----------------------------------------------------------------------------
\* Every step keeps the invariant and is a step, or a stutter, of the map.
LEMMA NextStep ==
  ASSUME IInv, [Next]_vars
  PROVE  IInv' /\ [AbsNext]_absVars
<1>. USE DEF IInv
<1>1. ASSUME NEW k \in Keys, NEW v \in Values, insert(k, v)
      PROVE  IInv' /\ AbsInsert(k, v)
  <2>1. map' \in Entries
    BY <1>1, EntriesClosed DEF insert, TypeOK
  <2>2. version' \in 0 .. VersionLimit - 1 /\ PrefetchIsWindow'
    BY <1>1, MutationOutdatesBuffer DEF insert
  <2>. QED  BY <1>1, <2>1, <2>2 DEF insert, AbsInsert, TypeOK
<1>2. ASSUME NEW k \in Keys, remove(k)
      PROVE  IInv' /\ AbsRemove(k)
  <2>1. map' \in Entries
    BY <1>2, EntriesClosed DEF remove, TypeOK
  <2>2. version' \in 0 .. VersionLimit - 1 /\ PrefetchIsWindow'
    BY <1>2, MutationOutdatesBuffer DEF remove
  <2>. QED  BY <1>2, <2>1, <2>2 DEF remove, AbsRemove, TypeOK
<1>3. ASSUME clear
      PROVE  IInv' /\ AbsClear
  <2>1. map' \in Entries
    BY <1>3, EntriesClosed DEF clear, TypeOK
  <2>2. version' \in 0 .. VersionLimit - 1 /\ PrefetchIsWindow'
    BY <1>3, MutationOutdatesBuffer DEF clear
  <2>. QED  BY <1>3, <2>1, <2>2 DEF clear, AbsClear, TypeOK
<1>4. ASSUME NEW k \in Keys, entry_from(k)
      PROVE  IInv' /\ AbsEntryFrom(k)
  BY <1>4, BufferStep, MapStep DEF entry_from
<1>5. CASE UNCHANGED vars
  BY <1>5 DEF vars, absVars, TypeOK, PrefetchIsWindow, From
<1>. QED  BY <1>1, <1>2, <1>3, <1>4, <1>5, Zenon DEF Next, AbsNext

\* A buffer whose version is current is a window on the map, in every
\* reachable state and whatever the constants (orderedindex.rs:64-90).
THEOREM PrefetchInvariant == Spec => [](TypeOK /\ PrefetchIsWindow)
<1>1. Init => IInv
  BY InitIInv
<1>2. IInv /\ [Next]_vars => IInv'
  BY NextStep
<1>. QED  BY <1>1, <1>2, PTL DEF Spec, IInv

\* The initial states of the index are initial states of the map.
LEMMA InitRefines == Init => AbsInit
BY DEF Init, AbsInit

\* The index with its buffer implements the map without one: reading ahead
\* never changes an answer (orderedindex.rs:49-100).
THEOREM Refinement == Spec => RefinesOrderedMap
<1>1. Init => IInv /\ AbsInit
  BY InitIInv, InitRefines
<1>2. IInv /\ [Next]_vars => IInv' /\ [AbsNext]_absVars
  BY NextStep
<1>. QED  BY <1>1, <1>2, PTL DEF Spec, RefinesOrderedMap, AbsSpec
=============================================================================
