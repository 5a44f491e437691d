----------------------------- MODULE OrderedMap -----------------------------
(***************************************************************************)
(* What an ordered index promises its clients: a finite map from ordered   *)
(* keys to values that can be asked, for any key, for the first entry at   *)
(* or after it together with the key of the entry that follows.  This is   *)
(* the reference `expected_entry` of src/orderedindex.rs, as a state       *)
(* machine.  OrderedIndex.tla implements it with a prefetch buffer.        *)
(***************************************************************************)
EXTENDS Naturals

CONSTANTS Keys,     \* the keys, ordered by <=
          Values,   \* the values an entry may hold
          None      \* Rust's Option::None

ASSUME KeysAssumption == Keys \subseteq Nat

ASSUME NoneAssumption == None \notin Keys

VARIABLES map,      \* a function from some of the keys to values
          ret       \* the result of the latest call

absVars == <<map, ret>>

From(m, k) == {j \in DOMAIN m : k <= j}

First(S) == CHOOSE j \in S : \A i \in S : j <= i

FirstOrNone(S) == IF S = {} THEN None ELSE First(S)

\* The entry with the least key of S, and the key of the entry after it.
FirstEntry(m, S) ==
  IF S = {}
  THEN None
  ELSE <<First(S), m[First(S)], FirstOrNone(S \ {First(S)})>>

Lookup(m, k) == IF k \in DOMAIN m THEN m[k] ELSE None

With(m, k, v) == [j \in DOMAIN m \cup {k} |-> IF j = k THEN v ELSE m[j]]

Without(m, k) == [j \in DOMAIN m \ {k} |-> m[j]]

NoEntries == [j \in {} |-> None]

AbsInit == map = NoEntries /\ ret = None

AbsInsert(k, v) == map' = With(map, k, v) /\ ret' = Lookup(map, k)

AbsRemove(k) == map' = Without(map, k) /\ ret' = Lookup(map, k)

AbsClear == map' = NoEntries /\ ret' = None

AbsEntryFrom(k) == ret' = FirstEntry(map, From(map, k)) /\ UNCHANGED map

AbsNext ==
  \/ \E k \in Keys, v \in Values : AbsInsert(k, v)
  \/ \E k \in Keys : AbsRemove(k) \/ AbsEntryFrom(k)
  \/ AbsClear

AbsSpec == AbsInit /\ [][AbsNext]_absVars
=============================================================================
