----------------------------- MODULE NodeLists ------------------------------
(***************************************************************************)
(* What the users of oplist.rs rely on: some lists that are disjoint       *)
(* sequences of nodes.  A node joins a list at a position, leaves the list *)
(* it is on, moves with a run of its neighbours inside a list, or moves    *)
(* with all of a list to the end of another one.                           *)
(***************************************************************************)
EXTENDS Naturals, Sequences, SequencesExt

CONSTANTS Nodes, Lists

VARIABLE lists     \* lists[l]: the nodes on l, from front to back

Listed == UNION {ToSet(lists[l]) : l \in Lists}

AbsInit == lists = [l \in Lists |-> <<>>]

Joins(l, i, n) ==
  /\ n \notin Listed
  /\ lists' = [lists EXCEPT ![l] = InsertAt(@, i, n)]

Leaves(l, n) ==
  /\ n \in ToSet(lists[l])
  /\ lists' = [lists EXCEPT ![l] = Remove(@, n)]

\* Nodes i to j of l move in front of what was node k, outside of i .. j.
Moves(l, i, j, k) ==
  LET s == lists[l]
      run == SubSeq(s, i, j)
  IN  lists' = [lists EXCEPT ![l] =
        IF k < i
        THEN SubSeq(s, 1, k - 1) \o run \o SubSeq(s, k, i - 1) \o SubSeq(s, j + 1, Len(s))
        ELSE SubSeq(s, 1, i - 1) \o SubSeq(s, j + 1, k - 1) \o run \o SubSeq(s, k, Len(s))]

Drains(l, m) ==
  /\ l # m
  /\ lists' = [lists EXCEPT ![l] = @ \o lists[m], ![m] = <<>>]

Clears(l) == lists' = [lists EXCEPT ![l] = <<>>]

AbsNext ==
  \E l \in Lists :
    \/ \E n \in Nodes, i \in 1 .. Len(lists[l]) + 1 : Joins(l, i, n)
    \/ \E n \in Nodes : Leaves(l, n)
    \/ \E i \in 1 .. Len(lists[l]) : \E j \in i .. Len(lists[l]) :
         \E k \in (1 .. Len(lists[l]) + 1) \ (i .. j) : Moves(l, i, j, k)
    \/ \E m \in Lists : Drains(l, m)
    \/ Clears(l)

AbsSpec == AbsInit /\ [][AbsNext]_lists
=============================================================================
