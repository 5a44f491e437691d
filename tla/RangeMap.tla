------------------------------ MODULE RangeMap ------------------------------
(***************************************************************************)
(* src/rangemap.rs: records on closed ranges that may overlap.  The tree   *)
(* is a vector of pieces in which every two pieces cover the same points   *)
(* or none in common; inserting a record splits the pieces at its ends,    *)
(* erasing it sews them together again.  The loops work with positions in  *)
(* the vector they are inserting into.                                     *)
(*                                                                         *)
(* A position is 1 .. Len(tree) + 1, the last one being the end.  Lines    *)
(* are 0 .. MaxLine and step around at both ends, as u64 and Address do.   *)
(***************************************************************************)
EXTENDS Integers, SequencesExt, FiniteSets

CONSTANTS MaxLine,      \* the last point of the line
          MaxSubsort,   \* subsorts are 0 .. MaxSubsort
          Ids           \* ids of records, numbers

VARIABLES tree,         \* the pieces, by (last, subsort)
          records,      \* id -> the record, for those in the map
          oversewn      \* has an erasure sewn up a cut where a record begins?

vars == <<tree, records, oversewn>>

plus_one(x)  == (x + 1) % (MaxLine + 1)
minus_one(x) == (x - 1) % (MaxLine + 1)

Key(r) == <<r.last, r.subsort>>
Less(j, k) == j[1] < k[1] \/ (j[1] = k[1] /\ j[2] < k[2])

\* partition_point: the first position whose piece fails the test.
PartitionPoint(t, Test(_)) ==
  CHOOSE i \in 1 .. Len(t) + 1 :
    /\ i = Len(t) + 1 \/ ~Test(t[i])
    /\ \A j \in 1 .. i - 1 : Test(t[j])

lower_bound(t, k) == PartitionPoint(t, LAMBDA r : Less(Key(r), k))
upper_bound(t, k) == PartitionPoint(t, LAMBDA r : ~Less(k, Key(r)))

Begin(p) == <<p, 0>>
End(p)   == <<p, MaxSubsort>>

HintPosition(t, hint, r) ==
  LET less(x, y) == Less(Key(x), Key(y))
      len == Len(t)
  IN  CASE hint = len + 1 /\ len > 0 /\ ~less(r, t[len])             -> len + 1
        [] hint = len + 1 /\ ~(len > 0 /\ ~less(r, t[len]))          -> upper_bound(t, Key(r))
        [] hint <= len /\ ~less(t[hint], r) /\ hint = 1              -> 1
        [] hint <= len /\ ~less(t[hint], r) /\ hint > 1
             -> IF ~less(r, t[hint - 1]) THEN hint ELSE upper_bound(t, Key(r))
        [] hint <= len /\ less(t[hint], r) /\ hint = len             -> len + 1
        [] hint < len /\ less(t[hint], r)
             -> IF ~less(t[hint + 1], r) THEN hint + 1 ELSE lower_bound(t, Key(r))

insert_hint(t, hint, r) == InsertAt(t, HintPosition(t, hint, r), r)

\* A position at or after the place of an insertion moves up by one.
Shifted(i, pos) == IF pos <= i THEN i + 1 ELSE i

RECURSIVE UnzipFrom(_, _, _, _)
UnzipFrom(t, line, i, hint) ==
  IF i = Len(t) + 1 \/ ~(t[i].first <= line) THEN t
  ELSE LET low   == [t[i] EXCEPT !.last = line]
           upper == [t EXCEPT ![i].first = plus_one(line)]
           pos   == HintPosition(upper, hint, low)
       IN  UnzipFrom(InsertAt(upper, pos, low), line, Shifted(i, pos) + 1, Shifted(hint, pos))

\* unzip: the pieces from position i on are split after `line`.
unzip(t, line, i) == IF t[i].last = line THEN t ELSE UnzipFrom(t, line, i, i)

\* zip: the pieces that end at `line` are joined to the ones that follow.
zip(t, line) ==
  LET i     == lower_bound(t, Begin(line))
      first == t[i].first
      n     == Cardinality({j \in i .. Len(t) : t[j].last = line})
      rest  == SubSeq(t, 1, i - 1) \o SubSeq(t, i + n, Len(t))
  IN  [j \in 1 .. Len(rest) |->
        IF j >= i /\ \A k \in i .. j : rest[k].first = plus_one(line)
        THEN [rest[j] EXCEPT !.first = first] ELSE rest[j]]

\* The loop of insert: r is the piece under construction, `bound` the first
\* point of it that has no piece yet.
RECURSIVE Cover(_, _, _, _, _)
Cover(t, low, bound, second, r) ==
  LET Piece(from, to) == [r EXCEPT !.first = from, !.last = to] IN
  IF low = Len(t) + 1 \/ t[low].first > second THEN [tree |-> t, bound |-> bound]
  ELSE IF t[low].last < bound THEN Cover(t, low + 1, bound, second, r)
  ELSE LET gap  == bound < t[low].first
           fill == Piece(bound, minus_one(t[low].first))
           t1   == IF gap THEN insert_hint(t, low, fill) ELSE t
           l1   == IF gap THEN Shifted(low, HintPosition(t, low, fill)) ELSE low
           b1   == IF gap THEN t1[l1].first ELSE bound
           copy == Piece(b1, t1[l1].last)
           t2   == insert_hint(t1, l1, copy)
           l2   == Shifted(l1, HintPosition(t1, l1, copy))
       IN  IF t1[l1].last > second THEN [tree |-> unzip(t1, second, l1), bound |-> b1]
           ELSE IF t2[l2].last = second THEN [tree |-> t2, bound |-> b1]
           ELSE Cover(t2, l2 + 1, plus_one(t2[l2].last), second, r)

insert(t, id, first, second, subsort) ==
  LET low0 == lower_bound(t, Begin(first))
      cut  == low0 <= Len(t) /\ t[low0].first < first
      t0   == IF cut THEN unzip(t, minus_one(first), low0) ELSE t
      low  == low0 + (Len(t0) - Len(t))
      r    == [first |-> second, last |-> second, a |-> first, b |-> second,
               subsort |-> subsort, value |-> id]
      c    == Cover(t0, low, first, second, r)
      rest == [r EXCEPT !.first = c.bound, !.last = second]
  IN  IF c.bound <= second
      THEN InsertAt(c.tree, upper_bound(c.tree, Key(rest)), rest)
      ELSE c.tree

MutLeftSew(t, low, first) ==    \* only the nearest piece is looked at
  low = 1 \/ t[low - 1].b # minus_one(first)

\* erase: `at` are the pieces on the points of the record, the first of them at
\* position low.  The cut at an end is sewn up unless another record begins or
\* ends there; on the right only the first piece after the record is looked at.
LeftSew(t, low, first) ==
  LET before == {j \in 1 .. low - 1 : \A k \in j .. low - 1 : t[k].last = minus_one(first)}
  IN  \A j \in before : t[j].b # minus_one(first)

RightSew(t, low, last) == low = Len(t) + 1 \/ minus_one(t[low].a) # last

erase(t, id, first, last) ==
  LET low    == lower_bound(t, Begin(first))
      at     == {j \in low .. Len(t) : t[j].first <= last}
      others == {j \in at : t[j].value # id}
      t1     == SelectSeq(t, LAMBDA r : r.value # id)
      after  == low + Cardinality(others)
      leftsew  == LeftSew(t, low, first) /\ \A j \in others : t[j].a # first
      rightsew == RightSew(t1, after, last) /\ \A j \in others : t[j].b # last
      t2     == IF leftsew /\ \E j \in others : t[j].a < first
                THEN zip(t1, minus_one(first)) ELSE t1
  IN  IF rightsew /\ \E j \in others : last < t[j].b THEN zip(t2, last) ELSE t2
-----------------------------------------------------------------------------
\* Queries: the positions in a range, and single positions.
find(p) ==
  LET i == lower_bound(tree, Begin(p))
  IN  IF i = Len(tree) + 1 \/ p < tree[i].first THEN {}
      ELSE i .. upper_bound(tree, End(tree[i].last)) - 1

find_end(p) ==
  LET i == upper_bound(tree, End(p))
  IN  IF i = Len(tree) + 1 \/ p < tree[i].first THEN i
      ELSE upper_bound(tree, End(tree[i].last))

find_overlap(p, end) ==
  LET i == lower_bound(tree, Begin(p))
  IN  IF i <= Len(tree) /\ tree[i].first <= end THEN i ELSE Len(tree) + 1

find_first_after(p) ==
  CHOOSE i \in find_end(p) .. Len(tree) + 1 :
    /\ i = Len(tree) + 1 \/ p < tree[i].a
    /\ \A j \in find_end(p) .. i - 1 : ~(p < tree[j].a)

find_last_before(p) ==
  LET before == {i \in 1 .. lower_bound(tree, Begin(p)) - 1 : tree[i].b < p}
  IN  IF before = {} THEN Len(tree) + 1
      ELSE CHOOSE i \in before : \A j \in before : j <= i
-----------------------------------------------------------------------------
Init == tree = <<>> /\ records = [i \in {} |-> 0] /\ oversewn = FALSE

Insert == \E id \in Ids, first, second \in 0 .. MaxLine, subsort \in 0 .. MaxSubsort :
  /\ id \notin DOMAIN records /\ \A j \in Ids : j < id => j \in DOMAIN records
  /\ first <= second
  /\ tree' = insert(tree, id, first, second, subsort)
  /\ records' = [j \in DOMAIN records \cup {id} |->
       IF j = id THEN [a |-> first, b |-> second, subsort |-> subsort] ELSE records[j]]
  /\ UNCHANGED oversewn

Erase == \E id \in DOMAIN records :
  /\ tree' = erase(tree, id, records[id].a, records[id].b)
  /\ records' = [j \in DOMAIN records \ {id} |-> records[j]]
  /\ oversewn' = (oversewn \/ \E j \in DOMAIN records' :
       /\ records[j].a = records[id].b + 1
       /\ \A i \in 1 .. Len(tree') : tree'[i].first # records[j].a)

Clear == tree' = <<>> /\ records' = [i \in {} |-> 0] /\ oversewn' = FALSE

\* What happens to a tree with an oversewn cut is not followed.
Next == (~oversewn /\ (Insert \/ Erase)) \/ Clear

Spec == Init /\ [][Next]_vars
-----------------------------------------------------------------------------
Covering(p) == {id \in DOMAIN records : records[id].a <= p /\ p <= records[id].b}

\* The pieces are in order, two of them cover the same points or none in
\* common, and a cut is only where some record begins or ends: what an insertion
\* split, the erasure sews up again (zip, unzip).
PiecesPartition == ~oversewn =>
  /\ \A i, j \in 1 .. Len(tree) : i < j => ~Less(Key(tree[j]), Key(tree[i]))
  /\ \A i, j \in 1 .. Len(tree) :
       \/ tree[i].first = tree[j].first /\ tree[i].last = tree[j].last
       \/ tree[i].last < tree[j].first \/ tree[j].last < tree[i].first
  /\ \A i \in 1 .. Len(tree) :
       /\ \E id \in DOMAIN records : tree[i].first \in {records[id].a, records[id].b + 1}
       /\ \E id \in DOMAIN records : tree[i].last \in {records[id].b, records[id].a - 1}

\* find answers, at every point of the line and through any series of
\* insertions and erasures, with exactly the records that contain the point
\* (rangemap.rs, find).
FindIsExact ==
  \A p \in 0 .. MaxLine : {tree[i].value : i \in find(p)} = Covering(p)

\* The same, as long as no erasure has overlooked a record that begins right
\* after the erased one behind another record that spans the cut.
FindIsExactUnlessOversewn == ~oversewn => FindIsExact

\* The searches that use the bounds of whole records: the first record that
\* begins after a point, the last one that ends before it, and one that meets a
\* range, whenever there is such a record.
SearchesAreExact == ~oversewn =>
  \A p, q \in 0 .. MaxLine :
    /\ p <= q =>
         LET i == find_overlap(p, q)
             meeting == UNION {Covering(x) : x \in p .. q}
         IN  IF meeting = {} THEN i = Len(tree) + 1
             ELSE i <= Len(tree) /\ tree[i].value \in meeting
    /\ LET i     == find_first_after(p)
           after == {id \in DOMAIN records : p < records[id].a}
       IN  IF after = {} THEN i = Len(tree) + 1
           ELSE i <= Len(tree) /\ tree[i].value \in after
                /\ \A id \in after : records[tree[i].value].a <= records[id].a
    /\ LET i      == find_last_before(p)
           before == {id \in DOMAIN records : records[id].b < p}
       IN  IF before = {} THEN i = Len(tree) + 1
           ELSE i <= Len(tree) /\ tree[i].value \in before
                /\ \A id \in before : records[id].b <= records[tree[i].value].b
=============================================================================
