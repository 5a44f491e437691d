--------------------------- MODULE IntrusiveList ----------------------------
(***************************************************************************)
(* src/oplist.rs: lists threaded through link fields of their nodes.  The  *)
(* dead list and the alive list of the op bank use the same slot of an op, *)
(* so several lists here share the links of the nodes; which list a node   *)
(* is on is known only to the caller.                                      *)
(*                                                                         *)
(* The state is one record, an operation of the source an operator on it.  *)
(***************************************************************************)
EXTENDS Integers, SequencesExt

CONSTANTS Nodes, Lists, Nil

VARIABLE st      \* head, tail and len of each list, prev and next of each node

Unlinked == [prev |-> Nil, next |-> Nil]

Empty(s, l) == [s EXCEPT !.head[l] = Nil, !.tail[l] = Nil, !.len[l] = 0]

Init == st = [head  |-> [l \in Lists |-> Nil],
              tail  |-> [l \in Lists |-> Nil],
              len   |-> [l \in Lists |-> 0],
              links |-> [n \in Nodes |-> Unlinked]]

\* A neighbour's link, or the list's own end when there is no neighbour.
SetNext(s, l, n, to) ==
  IF n = Nil THEN [s EXCEPT !.head[l] = to] ELSE [s EXCEPT !.links[n].next = to]

SetPrev(s, l, n, to) ==
  IF n = Nil THEN [s EXCEPT !.tail[l] = to] ELSE [s EXCEPT !.links[n].prev = to]

\* insert: n in front of pos, at the back when pos is Nil.
insert(s, l, pos, n) ==
  LET prev   == IF pos = Nil THEN s.tail[l] ELSE s.links[pos].prev
      linked == [s EXCEPT !.links[n] = [prev |-> prev, next |-> pos],
                          !.len[l] = @ + 1]
  IN  SetPrev(SetNext(linked, l, prev, n), l, pos, n)

insert_after(s, l, pos, n) == insert(s, l, s.links[pos].next, n)

remove(s, l, n) ==
  LET lk == s.links[n]
  IN  [SetPrev(SetNext(s, l, lk.prev, lk.next), l, lk.next, lk.prev)
         EXCEPT !.links[n] = Unlinked, !.len[l] = @ - 1]

\* iter: follows next from the head, `len` times at most; backwards likewise.
to_vec(s, l) ==
  LET from[n \in 0 .. s.len[l]] ==
        IF n = 0 THEN [at |-> s.head[l], seen |-> <<>>]
        ELSE LET p == from[n - 1] IN
             IF p.at = Nil THEN p
             ELSE [at |-> s.links[p.at].next, seen |-> Append(p.seen, p.at)]
  IN  from[s.len[l]].seen

to_vec_back(s, l) ==
  LET from[n \in 0 .. s.len[l]] ==
        IF n = 0 THEN [at |-> s.tail[l], seen |-> <<>>]
        ELSE LET p == from[n - 1] IN
             IF p.at = Nil THEN p
             ELSE [at |-> s.links[p.at].prev, seen |-> <<p.at>> \o p.seen]
  IN  from[s.len[l]].seen

RemoveAll(s, l, moved) == FoldLeft(LAMBDA t, n : remove(t, l, n), s, moved)
InsertAll(s, l, pos, moved) == FoldLeft(LAMBDA t, n : insert(t, l, pos, n), s, moved)

\* The nodes from first up to, and without, end.
Run(s, l, first, end) ==
  LET all  == to_vec(s, l)
      i    == CHOOSE k \in 1 .. Len(all) : all[k] = first
      stop == IF end = Nil THEN Len(all) ELSE (CHOOSE k \in 1 .. Len(all) : all[k] = end) - 1
  IN  SubSeq(all, i, stop)

MutSplice(s, l, pos, first, end) ==    \* the run is put back in reverse
  LET moved == Run(s, l, first, end)
  IN  IF first = end \/ pos \in ToSet(moved) THEN s
      ELSE InsertAll(RemoveAll(s, l, moved), l, pos, Reverse(moved))

splice_range(s, l, pos, first, end) ==
  LET moved == Run(s, l, first, end)
  IN  IF first = end \/ pos \in ToSet(moved) THEN s
      ELSE InsertAll(RemoveAll(s, l, moved), l, pos, moved)

append_all(s, l, other) ==
  LET moved == to_vec(s, other)
  IN  InsertAll(RemoveAll(s, other, moved), l, Nil, moved)

clear(s, l) ==
  LET all == ToSet(to_vec(s, l))
  IN  Empty([s EXCEPT !.links = [n \in Nodes |-> IF n \in all THEN Unlinked ELSE @[n]]], l)
-----------------------------------------------------------------------------
\* The callers' side: a node is inserted when it is on no list of the slot, and
\* removed from the list it is on; positions are nodes of that list.
On(l) == ToSet(to_vec(st, l))
Free == Nodes \ UNION {On(l) : l \in Lists}

Insert == \E l \in Lists, n \in Free, pos \in Nodes \cup {Nil} :
  /\ pos \in On(l) \cup {Nil}
  /\ st' = insert(st, l, pos, n)

InsertAfter == \E l \in Lists, n \in Free, pos \in Nodes :
  /\ pos \in On(l)
  /\ st' = insert_after(st, l, pos, n)

PushFront == \E l \in Lists, n \in Free : st' = insert(st, l, st.head[l], n)

RemoveNode == \E l \in Lists, n \in Nodes : n \in On(l) /\ st' = remove(st, l, n)

\* `end` is Nil or comes at or after `first`: the code panics otherwise.
SpliceRange == \E l \in Lists, first \in Nodes, end, pos \in Nodes \cup {Nil} :
  /\ {first, end, pos} \subseteq On(l) \cup {Nil}
  /\ end = Nil \/ \E i, j \in 1 .. st.len[l] :
                     i <= j /\ to_vec(st, l)[i] = first /\ to_vec(st, l)[j] = end
  /\ st' = splice_range(st, l, pos, first, end)

AppendAll == \E l, other \in Lists : l # other /\ st' = append_all(st, l, other)

Clear == \E l \in Lists : st' = clear(st, l)

Next == Insert \/ InsertAfter \/ PushFront \/ RemoveNode \/ SpliceRange \/ AppendAll \/ Clear

Spec == Init /\ [][Next]_st
-----------------------------------------------------------------------------
\* Read forwards or backwards a list gives the same nodes, as many as `len`
\* says, and a node on no list carries no links that a later removal would
\* follow (oplist.rs:109-129).
BothDirectionsAgree ==
  /\ \A l \in Lists : to_vec(st, l) = to_vec_back(st, l) /\ Len(to_vec(st, l)) = st.len[l]
  /\ \A n \in Free : st.links[n] = Unlinked

\* The links implement disjoint sequences: each operation does to the lists
\* what it promises, and nothing to the other lists that share the links.
Sequences_ == INSTANCE NodeLists WITH lists <- [l \in Lists |-> to_vec(st, l)]
RefinesNodeLists == Sequences_!AbsSpec
=============================================================================
