-------------------------- MODULE ContextDatabase ---------------------------
(***************************************************************************)
(* src/partmap.rs, src/globalcontext.rs: the values of the context         *)
(* variables and of the tracked registers at every code address, kept as   *)
(* maps from split points, and the window that the disassembler keeps of   *)
(* its last lookup.                                                        *)
(*                                                                         *)
(* An address is a number: space a \div Size, offset a % Size.  Maximal    *)
(* comes after all of them, Invalid before.  A context array is a function *)
(* from the variables to their values (a variable is a field of bits, and  *)
(* fields do not overlap), a mask the set of variables that were set at    *)
(* the split point explicitly.                                             *)
(***************************************************************************)
EXTENDS Integers

CONSTANTS Spaces, Size,      \* number of code spaces, addresses in each
          Variables, Settings, \* context variables and their values
          MaxEdits           \* bound on the number of changes

ASSUME ShapeAssumption == Spaces \in Nat \ {0} /\ Size \in Nat \ {0} /\ 0 \in Settings

VARIABLES database,     \* split point -> [array, mask]
          defaultvalue,
          trackbase,    \* split point -> tracked set, a number; 0 is the empty one
          window,       \* the ContextCache, or NoWindow
          allowset,
          edits,
          bypassed      \* changes made past the window since it was filled

contextvars == <<database, defaultvalue, trackbase, window, allowset, edits, bypassed>>

Addresses == 0 .. Spaces * Size - 1
Maximal   == Spaces * Size
Invalid   == -1
Space(a)  == a \div Size
Offset(a) == IF a = Invalid THEN 0 ELSE a % Size
Highest(s) == s * Size + Size - 1
NoKey    == Invalid
NoWindow == [space |-> -1, first |-> 0, last |-> 0, key |-> NoKey]
Least(S) == CHOOSE x \in S : \A y \in S : x <= y
Greatest(S) == CHOOSE x \in S : \A y \in S : y <= x
-----------------------------------------------------------------------------
\* PartMap.  split gives a new point a value: that of the piece it is in, passed
\* through the clone of the value type.
get_partition_key(m, p) ==
  LET before == {k \in DOMAIN m : k <= p} IN IF before = {} THEN NoKey ELSE Greatest(before)

get_by_key(m, default, key) == IF key \in DOMAIN m THEN m[key] ELSE default

get_value(m, default, p) == get_by_key(m, default, get_partition_key(m, p))

split(m, value, p) ==
  IF p \in DOMAIN m THEN m
  ELSE [k \in DOMAIN m \cup {p} |-> IF k = p THEN value ELSE m[k]]

\* Tracked sets are copied as they are.
SplitTracked(m, default, p) == split(m, get_value(m, default, p), p)

clear_range(m, default, p1, p2) ==
  LET cut == SplitTracked(SplitTracked(m, default, p1), default, p2)
  IN  [k \in {q \in DOMAIN cut : ~(p1 < q /\ q < p2)} |-> cut[k]]

\* The tracked sets that are used; 0 is the empty one.
TrackedSets == 1 .. 2

create_set(m, p1, p2, t) == [clear_range(m, 0, p1, p2) EXCEPT ![p1] = t]

Bounds(m, p) ==
  LET after == {k \in DOMAIN m : k > p}
  IN  [before |-> get_partition_key(m, p),
       after  |-> IF after = {} THEN NoKey ELSE Least(after)]
-----------------------------------------------------------------------------
\* A copy of a FreeArray forgets the mask.
FreeArrayClone(e) == [e EXCEPT !.mask = {}]

SplitContext(m, p) == split(m, FreeArrayClone(get_value(m, defaultvalue, p)), p)

\* The array with the variables vs set to v.
Assigned(array, vs, v) == [x \in Variables |-> IF x \in vs THEN v ELSE array[x]]

get_context(p) == get_value(database, defaultvalue, p).array

get_context_bounds(p) ==
  LET b == Bounds(database, p)
      s == Space(p)
  IN  [space |-> s, key |-> b.before,
       first |-> IF b.before = NoKey \/ Space(b.before) # s THEN s * Size ELSE b.before,
       last  |-> IF b.after = NoKey \/ Space(b.after) # s THEN Highest(s) ELSE b.after - 1]

\* The variables vs get the value v from p1 up to p2, or to the end.
get_region_for_set(m, p1, p2, vs, v) ==
  LET cut1 == SplitContext(m, p1)
      cut  == IF p2 # Invalid THEN SplitContext(cut1, p2) ELSE cut1
      hit  == {k \in DOMAIN cut : k >= p1 /\ (p2 # Invalid /\ p1 < p2 => k < p2)}
  IN  IF p2 = p1 THEN cut
      ELSE [k \in DOMAIN cut |->
        IF k \in hit THEN [mask  |-> cut[k].mask \cup vs,
                           array |-> Assigned(cut[k].array, vs, v)]
        ELSE cut[k]]

MutToChangePoint(m, p, vs, v) ==    \* points that were set explicitly do not stop it
  LET cut == SplitContext(m, p)
  IN  [k \in DOMAIN cut |->
        IF k < p THEN cut[k]
        ELSE [mask  |-> IF k = p THEN cut[k].mask \cup vs ELSE cut[k].mask,
              array |-> Assigned(cut[k].array, vs, v)]]

\* From p up to the next point where one of the variables was set explicitly.
get_region_to_change_point(m, p, vs, v) ==
  LET cut  == SplitContext(m, p)
      stop == {k \in DOMAIN cut : k > p /\ cut[k].mask \cap vs # {}}
      hit  == {k \in DOMAIN cut : k >= p /\ \A q \in stop : k < q}
  IN  [k \in DOMAIN cut |->
        IF k \notin hit THEN cut[k]
        ELSE [mask  |-> IF k = p THEN cut[k].mask \cup vs ELSE cut[k].mask,
              array |-> Assigned(cut[k].array, vs, v)]]

MutRestoredPoint(m, k) ==    \* the point itself is passed over
  IF k \notin DOMAIN database THEN m
  ELSE LET cut == SplitContext(m, k) IN
       [q \in DOMAIN cut |->
          IF q > k THEN [mask |-> Variables, array |-> database[k].array] ELSE cut[q]]

\* encode lists the split points in order with the values of all variables;
\* decode sets each of them from its point to the end, in a database that has
\* only the default value.
RestoredPoint(m, k) ==
  IF k \notin DOMAIN database THEN m
  ELSE LET cut == SplitContext(m, k) IN
       [q \in DOMAIN cut |->
          IF q >= k THEN [mask |-> Variables, array |-> database[k].array] ELSE cut[q]]

RestoredUpTo[k \in -1 .. Maximal] ==
  IF k = -1 THEN [q \in {} |-> 0] ELSE RestoredPoint(RestoredUpTo[k - 1], k)

Restored == RestoredUpTo[Maximal]

\* An empty tracked set is not written, and a point that is read back is split off.
RestoredTracked == [k \in {q \in DOMAIN trackbase : trackbase[q] # 0} |-> trackbase[k]]
-----------------------------------------------------------------------------
ContextInit ==
  /\ database = [k \in {} |-> 0] /\ trackbase = [k \in {} |-> 0]
  /\ defaultvalue = [array |-> [x \in Variables |-> 0], mask |-> {}]
  /\ window = NoWindow /\ allowset = TRUE /\ edits = 0 /\ bypassed = FALSE

Edit == edits < MaxEdits /\ edits' = edits + 1

\* Changes that do not pass through the window: the console, the loader.
SetVariableRegion(x, p1, p2, v) ==
  /\ Edit
  /\ p2 # Invalid => p1 < p2
  /\ database' = get_region_for_set(database, p1, p2, {x}, v)
  /\ bypassed' = (window # NoWindow)
  /\ UNCHANGED <<defaultvalue, trackbase, window, allowset>>

SetVariable(x, p, v) ==
  /\ Edit
  /\ database' = get_region_to_change_point(database, p, {x}, v)
  /\ bypassed' = (window # NoWindow)
  /\ UNCHANGED <<defaultvalue, trackbase, window, allowset>>

SetVariableDefault(x, v) ==
  /\ Edit
  /\ defaultvalue' = [defaultvalue EXCEPT !.array[x] = v]
  /\ UNCHANGED <<database, trackbase, window, allowset, bypassed>>

CreateSet(p1, p2, t) ==
  /\ Edit
  /\ p1 < p2
  /\ trackbase' = create_set(trackbase, p1, p2, t)
  /\ UNCHANGED <<database, defaultvalue, window, allowset, bypassed>>

SaveAndRestore ==
  /\ Edit
  /\ database' = Restored /\ trackbase' = RestoredTracked
  /\ window' = NoWindow /\ bypassed' = FALSE
  /\ UNCHANGED <<defaultvalue, allowset>>

\* The disassembler: lookups, and the commits of an instruction.
MutInWindow(w, p) ==    \* the last address of the window is taken to be outside
  w # NoWindow /\ Space(p) = w.space /\ w.first <= p /\ p < w.last

InWindow(w, p) == w # NoWindow /\ Space(p) = w.space /\ w.first <= p /\ p <= w.last

CacheGet(p) ==
  /\ ~InWindow(window, p)
  /\ window' = get_context_bounds(p) /\ bypassed' = FALSE
  /\ UNCHANGED <<database, defaultvalue, trackbase, allowset, edits>>

CacheSet(p, vs, v) ==
  /\ allowset /\ Edit
  /\ database' = get_region_to_change_point(database, p, vs, v)
  /\ window' = IF InWindow(window, p) THEN NoWindow ELSE window
  /\ UNCHANGED <<defaultvalue, trackbase, allowset, bypassed>>

\* The offsets are compared whatever the spaces of p2 and of the window.
Dropped(p1, p2) ==
  LET first == Offset(window.first)
      last  == Offset(window.last)
  IN  \/ InWindow(window, p1)
      \/ first <= Offset(p2) /\ Offset(p2) <= last
      \/ first >= Offset(p1) /\ first <= Offset(p2)

CacheSetRegion(p1, p2, vs, v) ==
  /\ allowset /\ Edit
  /\ database' = get_region_for_set(database, p1, p2, vs, v)
  /\ window' = IF Dropped(p1, p2) THEN NoWindow ELSE window
  /\ UNCHANGED <<defaultvalue, trackbase, allowset, bypassed>>

AllowSet(b) == allowset' = b /\ UNCHANGED <<database, defaultvalue, trackbase, window, edits, bypassed>>

\* A commit is for one address, unless that is the last one of its space.
ApplyCommit(p, vs, v, flow) ==
  IF flow \/ p = Highest(Space(p)) THEN CacheSet(p, vs, v) ELSE CacheSetRegion(p, p + 1, vs, v)

ContextNext ==
  \/ \E x \in Variables, v \in Settings, p \in Addresses :
       \/ \E q \in Addresses \cup {Maximal, Invalid} : SetVariableRegion(x, p, q, v)
       \/ SetVariable(x, p, v)
  \/ \E x \in Variables, v \in Settings : SetVariableDefault(x, v)
  \/ \E p \in Addresses, q \in Addresses \cup {Maximal}, t \in TrackedSets : CreateSet(p, q, t)
  \/ SaveAndRestore
  \/ \E p \in Addresses : CacheGet(p)
  \/ \E p \in Addresses, vs \in SUBSET Variables \ {{}}, v \in Settings, flow \in BOOLEAN :
       ApplyCommit(p, vs, v, flow)
  \/ \E b \in BOOLEAN : AllowSet(b)

ContextSpec == ContextInit /\ [][ContextNext]_contextvars

-----------------------------------------------------------------------------
\* A lookup through the window gives what a lookup in the database would, as
\* long as no change went past the window since it was filled and the split
\* point it starts from lies in its own space (a window that takes its values
\* from a lower space, or from the default, is not dropped when the lower space
\* gets a new split point).
WindowIsTransparent ==
  window # NoWindow /\ ~bypassed /\ window.key # NoKey /\ Space(window.key) = window.space =>
    \A p \in window.first .. window.last :
      get_by_key(database, defaultvalue, window.key).array = get_context(p)

\* Setting variables over a region gives them the value at every address of
\* the region and changes nothing else anywhere, whatever was split before
\* (get_region_for_set).
RegionIsExact == edits < MaxEdits =>
  \A vs \in SUBSET Variables, v \in Settings,
     p \in Addresses, q \in Addresses \cup {Maximal, Invalid} :
    p < q \/ q = Invalid =>
      LET m == get_region_for_set(database, p, q, vs, v) IN
      \A a \in Addresses :
        get_value(m, defaultvalue, a).array =
          IF p <= a /\ (q # Invalid => a < q)
          THEN Assigned(get_context(a), vs, v) ELSE get_context(a)

\* Setting variables from an address on changes no lower address and no other
\* variable, and leaves everything from the next address on at which one of them
\* was set explicitly (get_region_to_change_point).
ChangePointIsRespected == edits < MaxEdits =>
  \A vs \in SUBSET Variables, v \in Settings, p \in Addresses :
    LET m     == get_region_to_change_point(database, p, vs, v)
        later == {k \in DOMAIN database : k > p /\ database[k].mask \cap vs # {}} IN
    \A a \in Addresses :
      get_value(m, defaultvalue, a).array =
        IF p <= a /\ \A k \in later : a < k
        THEN Assigned(get_context(a), vs, v) ELSE get_context(a)

\* A tracked set is given to exactly the addresses of its range (create_set).
TrackedIsExact == edits < MaxEdits =>
  \A p \in Addresses, q \in Addresses \cup {Maximal}, t \in TrackedSets : p < q =>
    \A a \in Addresses :
      get_value(create_set(trackbase, p, q, t), 0, a) =
        IF p <= a /\ a < q THEN t ELSE get_value(trackbase, 0, a)

\* Every kind of change of a region reaches the addresses it names and no
\* other: the three properties above together.
RegionsAreExact == RegionIsExact /\ ChangePointIsRespected /\ TrackedIsExact

\* A database that is saved and read back gives every address the context it
\* had, although each split point is read back as a change up to the end, and
\* the tracked set it had, if it had one (an address without one gets the set of
\* the range before it: the end of a range is an empty set, which encode_tracked
\* leaves out).
RestoredIsTheSame == edits < MaxEdits =>
  \A a \in Addresses :
    /\ get_value(Restored, defaultvalue, a).array = get_context(a)
    /\ get_value(trackbase, 0, a) # 0 => get_value(RestoredTracked, 0, a) = get_value(trackbase, 0, a)
=============================================================================
