----------------------------- MODULE LocationMap -----------------------------
(***************************************************************************)
(* LocationMap of heritage.rs, which remembers the ranges of addresses     *)
(* that heritage has processed and in which pass.  themap is the BTreeMap: *)
(* it takes the first address of a range to its size and pass.  While a    *)
(* range is being added, range is the range as far as it has grown and the *)
(* entry its iterator is at.                                               *)
(***************************************************************************)
EXTENDS Integers, FiniteSetsExt

CONSTANTS Offsets, MaxPass

ASSUME OffsetsAssumption == Offsets \subseteq Nat /\ MaxPass \in Nat

VARIABLES themap, answer, current, range
mapvars == <<themap, answer, current, range>>

NoKey == -1
Idle == [busy |-> FALSE]
Keys == DOMAIN themap

\* Address::overlap with no skip: the offset of addr in [start, start + size)
overlap(addr, start, size) == IF start <= addr /\ addr < start + size THEN addr - start ELSE NoKey

\* the first key from a bound on, and the last before one, if there is one
KeyFrom(bound) ==
    LET keys == {k \in Keys : k >= bound} IN IF keys = {} THEN NoKey ELSE Min(keys)
KeyBefore(bound) ==
    LET keys == {k \in Keys : k < bound} IN IF keys = {} THEN NoKey ELSE Max(keys)
next_key(key) == KeyFrom(key + 1)

FirstKey(addr) == IF KeyBefore(addr) = NoKey THEN KeyFrom(0) ELSE KeyBefore(addr)
\* the entry before addr or, failing that, the first; it is passed over when
\* addr is not in it
StartKey(addr) ==
    LET key == FirstKey(addr)
    IN  IF key # NoKey /\ overlap(addr, key, themap[key].size) = NoKey THEN next_key(key) ELSE key

Grow(r, key, addr, size) ==
    LET older == themap[key].pass < r.pass
    IN  [r EXCEPT !.addr = addr, !.size = size, !.merged = @ \cup {key}, !.key = next_key(key),
                  !.intersect = IF older THEN 1 ELSE @, !.pass = IF older THEN themap[key].pass ELSE @]

\* add, up to its loop: a range that lies within an entry is known already,
\* one that starts in an entry is joined to it.  A refined range is added again
\* in the pass of the range it was cut from.
add(addr, size, pass) ==
    LET key == StartKey(addr)
        position == IF key = NoKey THEN NoKey ELSE overlap(addr, key, themap[key].size)
        new == [busy |-> TRUE, asked |-> [lo |-> addr, hi |-> addr + size], addr |-> addr, size |-> size,
                pass |-> pass, intersect |-> 0, merged |-> {}, key |-> key]
    IN  /\ range = Idle
        /\ IF position # NoKey /\ position + size <= themap[key].size
           THEN /\ answer' = <<"added", key, IF themap[key].pass < pass THEN 2 ELSE 0>>
                /\ UNCHANGED range
           ELSE /\ range' = IF position = NoKey THEN new ELSE Grow(new, key, key, size + position)
                /\ UNCHANGED answer
        /\ UNCHANGED <<themap, current>>

Continues == range.key # NoKey /\ overlap(range.key, range.addr, range.size) # NoKey

\* one round of the loop: the entry the iterator is at starts in the range
Absorb ==
    /\ range # Idle /\ Continues
    /\ LET end == range.key - range.addr + themap[range.key].size
       IN  range' = Grow(range, range.key, range.addr, IF end > range.size THEN end ELSE range.size)
    /\ UNCHANGED <<themap, answer, current>>

\* the entries that were joined make room for the range
Insert ==
    /\ range # Idle /\ ~Continues
    /\ themap' = [k \in (Keys \ range.merged) \cup {range.addr} |->
                    IF k = range.addr THEN [size |-> range.size, pass |-> range.pass] ELSE themap[k]]
    /\ answer' = <<"added", range.addr, range.intersect>>
    /\ range' = Idle
    /\ UNCHANGED current

\* find and find_pass look at the last entry that starts at addr or before
find(addr) ==
    LET key == KeyBefore(addr + 1)
    IN  /\ range = Idle
        /\ answer' = <<"found", IF key # NoKey /\ overlap(addr, key, themap[key].size) # NoKey
                                THEN {<<key, themap[key].pass>>} ELSE {}>>
        /\ UNCHANGED <<themap, current, range>>

erase(key) ==
    /\ range = Idle
    /\ themap' = [k \in Keys \ {key} |-> themap[k]]
    /\ answer' = <<"erased">>
    /\ UNCHANGED <<current, range>>

\* Heritage::heritage counts its passes
NextPass ==
    /\ range = Idle
    /\ current < MaxPass
    /\ current' = current + 1
    /\ answer' = <<"pass">>
    /\ UNCHANGED <<themap, range>>

MapInit ==
    /\ themap = [k \in {} |-> 0]
    /\ answer = <<"none">>
    /\ current = 0
    /\ range = Idle
MapNext ==
    \/ \E lo, hi \in Offsets, pass \in 0..current : lo < hi /\ add(lo, hi - lo, pass)
    \/ Absorb
    \/ Insert
    \/ \E at \in Offsets : find(at)
    \/ \E key \in Keys : erase(key)
    \/ NextPass
MapSpec == MapInit /\ [][MapNext]_mapvars

-----------------------------------------------------------------------------
Cover == {[lo |-> k, hi |-> k + themap[k].size, pass |-> themap[k].pass] : k \in Keys}

Ranges == INSTANCE DisjointCover WITH cover <- Cover, pass <- current

\* The ranges are disjoint, as the message "refined range missing from global
\* disjoint cover" says (heritage.rs:2513) and find, which looks at one entry
\* only, needs (heritage.rs:144).
RangesAreDisjoint ==
    \A k, m \in Keys : k < m => k + themap[k].size <= m

\* The range being added contains the start of the first entry of the map, and
\* nothing precedes it: the iterator begins at that entry and passes it over.
FirstPassedOver ==
    /\ range # Idle
    /\ KeyBefore(range.asked.lo) = NoKey
    /\ KeyFrom(0) # NoKey /\ range.asked.lo < KeyFrom(0) /\ KeyFrom(0) < range.asked.hi

=============================================================================
