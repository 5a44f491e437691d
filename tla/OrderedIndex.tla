---------------------------- MODULE OrderedIndex ----------------------------
(***************************************************************************)
(* src/orderedindex.rs: the BTreeMap behind the op and varnode trees, with *)
(* a buffer of entries read ahead so that a scan by key does not search    *)
(* the tree at every step.  The buffer is filled under interior mutability *)
(* by a lookup, and a wrapping 64-bit version number tells whether the map *)
(* has changed since.                                                      *)
(*                                                                         *)
(* The deque of prefetched entries is filled in key order and popped at    *)
(* its front only, so it is modelled by the finite map it lists.           *)
(***************************************************************************)
EXTENDS OrderedMap, FiniteSets

CONSTANTS VersionLimit,              \* versions are 0 .. VersionLimit - 1 (u64)
          MINIMUM_PREFETCH_LENGTH,
          MAXIMUM_PREFETCH_LENGTH

ASSUME VersionAssumption == VersionLimit \in Nat \ {0}

ASSUME LengthAssumption ==
  /\ MINIMUM_PREFETCH_LENGTH \in Nat /\ MINIMUM_PREFETCH_LENGTH >= 2
  /\ MAXIMUM_PREFETCH_LENGTH \in Nat
  /\ MINIMUM_PREFETCH_LENGTH <= MAXIMUM_PREFETCH_LENGTH

VARIABLES version, prefetch

vars == <<map, ret, version, prefetch>>

Init ==
  /\ map = NoEntries
  /\ ret = None
  /\ version = 0
  /\ prefetch = [version  |-> VersionLimit - 1,
                 start    |-> None,
                 entries  |-> NoEntries,
                 complete |-> FALSE,
                 length   |-> MINIMUM_PREFETCH_LENGTH]
-----------------------------------------------------------------------------
wrapping_add_one(n) == IF n = VersionLimit - 1 THEN 0 ELSE n + 1

\* The bound of the model: a buffer is not carried across VersionLimit (2^64)
\* mutations, after which its version number would be current again.
VersionNotReused ==
  prefetch.start = None \/ wrapping_add_one(version) # prefetch.version

BumpVersion ==
  /\ VersionNotReused
  /\ version' = wrapping_add_one(version)

insert(k, v) ==
  /\ BumpVersion
  /\ map' = With(map, k, v)
  /\ ret' = Lookup(map, k)
  /\ UNCHANGED prefetch

remove(k) ==
  /\ BumpVersion
  /\ map' = Without(map, k)
  /\ ret' = Lookup(map, k)
  /\ UNCHANGED prefetch

clear ==
  /\ BumpVersion
  /\ map' = NoEntries
  /\ ret' = None
  /\ UNCHANGED prefetch
-----------------------------------------------------------------------------
Reusable(k) ==
  /\ prefetch.version = version
  /\ prefetch.start # None
  /\ prefetch.start <= k

\* Is S what range(k..).take(n) yields: the n least keys from k on, or all of
\* them when there are fewer?
IsTake(S, k, n) ==
  /\ S \subseteq From(map, k)
  /\ \A i \in S, j \in From(map, k) : j <= i => j \in S
  /\ Cardinality(S) = n \/ (Cardinality(S) < n /\ S = From(map, k))

Popped(k) == [prefetch EXCEPT
  !.start   = k,
  !.entries = [j \in From(prefetch.entries, k) |-> prefetch.entries[j]]]

Doubled(n) ==
  IF 2 * n <= MAXIMUM_PREFETCH_LENGTH THEN 2 * n ELSE MAXIMUM_PREFETCH_LENGTH

Refill(S, k, n) ==
  [version |-> version, start |-> k, entries |-> [j \in S |-> map[j]],
   complete |-> Cardinality(S) < n, length |-> n]

\* buffered_answer: does the buffer decide the answer (outer Some), and which?
MutBufferedOneEntry(p) == DOMAIN p.entries # {} \/ p.complete

Buffered(p) == Cardinality(DOMAIN p.entries) >= 2 \/ p.complete

buffered_answer(p) == FirstEntry(p.entries, DOMAIN p.entries)

AnswerFromBuffer(k) ==
  /\ Reusable(k)
  /\ Buffered(Popped(k))
  /\ prefetch' = Popped(k)
  /\ ret' = buffered_answer(Popped(k))
  /\ UNCHANGED <<map, version>>

AnswerFromMap(k) ==
  /\ ~(Reusable(k) /\ Buffered(Popped(k)))
  /\ \E S \in SUBSET DOMAIN map :
       LET n == IF Reusable(k) THEN Doubled(prefetch.length)
                               ELSE MINIMUM_PREFETCH_LENGTH
           p == Refill(S, k, n)
       IN  /\ IsTake(S, k, n)
           /\ prefetch' = p
           /\ ret' = IF Buffered(p) THEN buffered_answer(p) ELSE None
  /\ UNCHANGED <<map, version>>

entry_from(k) == AnswerFromBuffer(k) \/ AnswerFromMap(k)
-----------------------------------------------------------------------------
Next ==
  \/ \E k \in Keys, v \in Values : insert(k, v)
  \/ \E k \in Keys : remove(k) \/ entry_from(k)
  \/ clear

Spec == Init /\ [][Next]_vars
-----------------------------------------------------------------------------
Entries == UNION {[S -> Values] : S \in SUBSET Keys}

\* Every field stays in its range, the read-ahead length within its limits.
TypeOK ==
  /\ map \in Entries
  /\ version \in 0 .. VersionLimit - 1
  /\ prefetch \in [version  : 0 .. VersionLimit - 1,
                   start    : Keys \cup {None},
                   entries  : Entries,
                   complete : BOOLEAN,
                   length   : MINIMUM_PREFETCH_LENGTH .. MAXIMUM_PREFETCH_LENGTH]

\* A buffer whose version is current is a window on the map: its entries are
\* the first ones at or after `start`, with their present values, and when it
\* is `complete` there are no others.  (orderedindex.rs:66, the reuse test.)
PrefetchIsWindow ==
  prefetch.version = version /\ prefetch.start # None =>
    LET buffered  == DOMAIN prefetch.entries
        reachable == From(map, prefetch.start)
    IN  /\ buffered \subseteq reachable
        /\ \A i \in buffered, j \in reachable : j <= i => j \in buffered
        /\ \A i \in buffered : prefetch.entries[i] = map[i]
        /\ prefetch.complete => buffered = reachable

\* The index with its buffer implements the map without one: every call
\* answers what a search of the tree would have answered at that moment.
RefinesOrderedMap == AbsSpec
=============================================================================
