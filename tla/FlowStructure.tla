--------------------------- MODULE FlowStructure ----------------------------
(***************************************************************************)
(* Finding the loops and the dominators of a control-flow graph            *)
(* (block_structure_loops, block_calc_forward_dominator and their parts in *)
(* block.rs), run every time blocks change.  A graph g is a sequence of    *)
(* blocks: g[b] is the sequence of the blocks b flows to, an edge is a     *)
(* pair <<b, i>> and the edges into a block are in the order in which they *)
(* were added.  Everything downstream relies on what is computed here: the *)
(* reverse post-order numbering, the labels of the edges, and immed_dom.   *)
(***************************************************************************)
EXTENDS Integers, Sequences, FiniteSets, SequencesExt

VARIABLES graph, loops, dom
flowVars == <<graph, loops, dom>>

Pending == [phase |-> "pending"]

Blocks(g) == DOMAIN g.out
Edges(g) == UNION {{<<b, i>> : i \in DOMAIN g.out[b]} : b \in Blocks(g)}
Target(g, e) == g.out[e[1]][e[2]]
InEdges(g, b) == g.in[b]
Count(g) == Len(g.out)

\* the graph with these out edges, each block's in edges in the order of their sources
Graph(out) ==
    LET all == FlattenSeq([x \in DOMAIN out |-> [i \in DOMAIN out[x] |-> <<x, i>>]])
    IN  [out |-> out, in |-> [b \in DOMAIN out |-> SelectSeq(all, LAMBDA e : out[e[1]][e[2]] = b)]]

Swapped(s, i, j) == [s EXCEPT ![i] = s[j], ![j] = s[i]]

-----------------------------------------------------------------------------
\* block_find_spanning_tree: d is the state of the depth-first search

Fresh(g, roots) ==
    [roots |-> roots, next |-> 1, extra |-> FALSE, pre |-> <<>>, stack |-> <<>>, left |-> Count(g),
     visit |-> [b \in Blocks(g) |-> 0], index |-> [b \in Blocks(g) |-> 0],
     desc |-> [b \in Blocks(g) |-> 0], lab |-> [e \in Edges(g) |-> {}]]

Discover(d, b) ==
    [d EXCEPT !.stack = Append(@, <<b, 1>>), !.visit[b] = Len(d.pre) + 1,
              !.pre = Append(@, b), !.desc[b] = 1]

\* the next root not yet visited; roots already reached are dropped from the
\* list, and when none is left the first unvisited block becomes one
RECURSIVE NextRoot(_, _)
NextRoot(g, d) ==
    IF d.next <= Len(d.roots)
    THEN IF d.visit[d.roots[d.next]] = 0
         THEN Discover([d EXCEPT !.next = @ + 1], d.roots[d.next])
         ELSE NextRoot(g, [d EXCEPT !.roots = RemoveAt(@, d.next)])
    ELSE LET chosen == CHOOSE b \in Blocks(g) : d.visit[b] = 0 /\ \A c \in 1..(b - 1) : d.visit[c] # 0
         IN  Discover([d EXCEPT !.extra = TRUE, !.roots = Append(@, chosen), !.next = @ + 1], chosen)

\* the search is done with the block on top of the stack
Leave(d) ==
    LET cur == Last(d.stack)[1]
        rest == Front(d.stack)
    IN  [d EXCEPT !.stack = rest, !.index[cur] = d.left, !.left = @ - 1,
                  !.desc = IF rest = <<>> THEN @
                           ELSE [@ EXCEPT ![Last(rest)[1]] = @ + d.desc[cur]]]

FollowEdge(g, d) ==
    LET e == Last(d.stack)
        child == Target(g, e)
        moved == [d EXCEPT !.stack[Len(d.stack)][2] = @ + 1]
    IN  CASE d.visit[child] = 0 -> Discover([moved EXCEPT !.lab[e] = {"tree"}], child)
          [] d.visit[child] # 0 /\ d.index[child] = 0 -> [moved EXCEPT !.lab[e] = {"back", "loop"}]
          [] d.index[child] # 0 /\ d.visit[e[1]] < d.visit[child] -> [moved EXCEPT !.lab[e] = {"forward"}]
          [] OTHER -> [moved EXCEPT !.lab[e] = {"cross"}]

RECURSIVE Search(_, _)
Search(g, d) ==
    IF d.stack = <<>>
    THEN IF Len(d.pre) = Count(g) THEN d ELSE Search(g, NextRoot(g, d))
    ELSE IF Last(d.stack)[2] > Len(g.out[Last(d.stack)[1]]) THEN Search(g, Leave(d))
    ELSE Search(g, FollowEdge(g, d))

StartRoots(g) ==
    LET roots == SelectSeq([b \in DOMAIN g.out |-> b], LAMBDA b : InEdges(g, b) = <<>>)
    IN  IF roots = <<>> THEN <<1>> ELSE Swapped(roots, 1, Len(roots))

\* A search that had to invent roots is repeated with the original root moved
\* behind them, so that it still comes first in reverse post-order.
SearchAgain(g, first) ==
    IF ~first.extra THEN first
    ELSE Search(g, Fresh(g, Swapped(first.roots, Len(first.roots), Len(StartRoots(g)))))
block_find_spanning_tree(g) ==
    [SearchAgain(g, Search(g, Fresh(g, StartRoots(g)))) EXCEPT !.roots = Swapped(@, 1, Len(@))]

-----------------------------------------------------------------------------
\* block_find_irreducible: loop bodies from the inside out.  f is [lab, map,
\* count, rebuild]; map[b] is the head of the last loop b was folded into.

IsUnder(d, x, y) == d.visit[x] <= d.visit[y] /\ d.visit[y] < d.visit[x] + d.desc[x]

MutTestEdge(g, d, head, f, e) ==
    LET y == f.map[e[1]]
    IN  IF "irreducible" \in f.lab[e] THEN f
        ELSE IF y \notin Range(f.reach) /\ y # head THEN [f EXCEPT !.reach = Append(@, y)]
        ELSE f

\* one edge e into a member of the loop of head
TestEdge(g, d, head, f, e) ==
    LET y == f.map[e[1]]
    IN  IF "irreducible" \in f.lab[e] THEN f
        ELSE IF ~IsUnder(d, head, y)
        THEN [f EXCEPT !.count = @ + 1, !.rebuild = @ \/ "tree" \in f.lab[e],
                       !.lab[e] = IF "tree" \in @ THEN @ \cup {"irreducible"}
                                  ELSE (@ \ {"cross", "forward"}) \cup {"irreducible"}]
        ELSE IF y \notin Range(f.reach) /\ y # head THEN [f EXCEPT !.reach = Append(@, y)]
        ELSE f

RECURSIVE Members(_, _, _, _, _)
Members(g, d, head, f, i) ==
    IF i > Len(f.reach) THEN f
    ELSE Members(g, d, head,
                 FoldLeft(LAMBDA acc, e : TestEdge(g, d, head, acc, e), f, InEdges(g, f.reach[i])), i + 1)

FoldLoop(g, d, f, head) ==
    LET sources == SelectSeq(InEdges(g, head), LAMBDA e : "back" \in f.lab[e] /\ e[1] # head)
        under == FoldLeft(LAMBDA acc, e : Append(acc, f.map[e[1]]), <<>>, sources)
        done == Members(g, d, head, [f EXCEPT !.reach = under], 1)
    IN  [done EXCEPT !.map = [b \in DOMAIN @ |-> IF b \in Range(done.reach) THEN head ELSE @[b]],
                     !.reach = <<>>]

block_find_irreducible(g, d) ==
    FoldLeft(LAMBDA f, head : FoldLoop(g, d, f, head),
             [lab |-> d.lab, map |-> [b \in Blocks(g) |-> b], count |-> 0, rebuild |-> FALSE, reach |-> <<>>],
             Reverse(d.pre))

\* block_calc_loop: marks as loop edges those that would still close a cycle
RECURSIVE LoopSearch(_, _, _, _)
LoopSearch(g, lab, path, seen) ==
    IF path = <<>> THEN lab
    ELSE LET e == Last(path)
             moved == [path EXCEPT ![Len(path)][2] = @ + 1]
         IN  IF e[2] > Len(g.out[e[1]]) THEN LoopSearch(g, lab, Front(path), seen)
             ELSE IF "loop" \in lab[e] THEN LoopSearch(g, lab, moved, seen)
             ELSE LET b == Target(g, e)
                  IN  IF \E i \in DOMAIN path : path[i][1] = b
                      THEN LoopSearch(g, [lab EXCEPT ![e] = @ \cup {"loop"}], moved, seen)
                      ELSE IF b \in seen THEN LoopSearch(g, lab, moved, seen)
                      ELSE LoopSearch(g, lab, Append(moved, <<b, 1>>), seen \cup {b})
block_calc_loop(g, order, lab) == LoopSearch(g, lab, <<<<order[1], 1>>>>, {order[1]})

\* the blocks in reverse post-order
Order(g, d) == [i \in DOMAIN g.out |-> CHOOSE b \in Blocks(g) : d.index[b] = i]

\* block_structure_loops: order, labels and roots.  rebuild tells whether it
\* would go round again, which it does from the same graph.
LoopStructure(g, d, f, order) ==
    [order |-> order, index |-> d.index, roots |-> d.roots, extra |-> d.extra, rebuild |-> f.rebuild,
     count |-> f.count, visit |-> d.visit, desc |-> d.desc,
     lab |-> IF f.count > 0 THEN block_calc_loop(g, order, f.lab) ELSE f.lab]
StructureTree(g, d) == LoopStructure(g, d, block_find_irreducible(g, d), Order(g, d))
block_structure_loops(g) == StructureTree(g, block_find_spanning_tree(g))

-----------------------------------------------------------------------------
\* block_calc_forward_dominator.  Block 0 is the virtual root, used when there
\* are several roots or the root has edges into it; None is not yet known.

None == -1
Preds(g, b) == {e[1] : e \in {x \in Edges(g) : Target(g, x) = b}}

UsesVirtualRoot(g, sl) == Len(sl.roots) > 1 \/ InEdges(g, sl.order[1]) # <<>>
RootNode(g, sl) == IF UsesVirtualRoot(g, sl) THEN 0 ELSE sl.order[1]

\* the predecessors in edge order, the virtual root's edge last
PredSeq(g, sl, b) ==
    [i \in DOMAIN InEdges(g, b) |-> InEdges(g, b)[i][1]]
      \o (IF UsesVirtualRoot(g, sl) /\ b \in Range(sl.roots) THEN <<0>> ELSE <<>>)

\* The virtual root is a new block, numbered 0 like the first block of the
\* order: the fingers, which are numbers, take one for the other.
Rank(sl, b) == IF b = 0 THEN 1 ELSE sl.index[b]

\* walk two fingers up the tree until they meet
RECURSIVE Meet(_, _, _, _)
Meet(sl, tree, x, y) ==
    IF x = y THEN sl.order[x]
    ELSE IF x > y THEN Meet(sl, tree, Rank(sl, tree[sl.order[x]]), y)
    ELSE Meet(sl, tree, x, Rank(sl, tree[sl.order[y]]))

NewDom(g, sl, tree, b) ==
    LET known == SelectSeq(PredSeq(g, sl, b), LAMBDA p : tree[p] # None)
    IN  FoldLeft(LAMBDA x, p : Meet(sl, tree, Rank(sl, p), Rank(sl, x)), Head(known), Tail(known))

\* one sweep over the blocks in reverse post-order
Sweep(g, sl, tree) ==
    FoldLeft(LAMBDA acc, b : IF b = RootNode(g, sl) \/ acc[b] = RootNode(g, sl) THEN acc
                             ELSE [acc EXCEPT ![b] = NewDom(g, sl, acc, b)],
             tree, sl.order)
RECURSIVE Settle(_, _, _)
Settle(g, sl, tree) ==
    LET next == Sweep(g, sl, tree) IN IF next = tree THEN tree ELSE Settle(g, sl, next)

\* the result gives 0 to the blocks that have no immediate dominator
block_calc_forward_dominator(g, sl) ==
    LET root == RootNode(g, sl)
        kids == IF root = 0 THEN Range(sl.roots) ELSE Range(g.out[root])
        final == Settle(g, sl, [b \in 0..Count(g) |-> IF b = root \/ b \in kids THEN root ELSE None])
    IN  [b \in Blocks(g) |-> IF b = root THEN 0 ELSE final[b]]

\* block_dominates, with its cut-off on the numbering
RECURSIVE block_dominates(_, _, _, _)
block_dominates(sl, tree, b, sub) ==
    /\ sub # 0 /\ sl.index[b] <= sl.index[sub]
    /\ b = sub \/ block_dominates(sl, tree, b, tree[sub])

RECURSIVE Ancestors(_, _)
Ancestors(tree, b) == IF b = 0 THEN {} ELSE {b} \cup Ancestors(tree, tree[b])

\* block_find_common_block: climb from both blocks in turn, marking, until one
\* meets a mark; then clear the marks up from either block.  The result is the
\* common block and the marks left behind.
Met(b, marked) == [common |-> b, marked |-> marked]
RECURSIVE Climb(_, _, _, _)
Climb(tree, a, b, marked) ==
    IF a = 0 /\ b = 0 THEN Met(0, marked)
    ELSE IF b = 0 THEN (IF a \in marked THEN Met(a, marked) ELSE Climb(tree, tree[a], 0, marked))
    ELSE IF a = 0 THEN (IF b \in marked THEN Met(b, marked) ELSE Climb(tree, 0, tree[b], marked))
    ELSE IF a \in marked THEN Met(a, marked)
    ELSE IF b \in marked \cup {a} THEN Met(b, marked \cup {a})
    ELSE Climb(tree, tree[a], tree[b], marked \cup {a, b})
RECURSIVE ClearUp(_, _, _)
ClearUp(tree, b, marked) == IF b \notin marked THEN marked ELSE ClearUp(tree, tree[b], marked \ {b})
block_find_common_block(tree, a, b) ==
    LET met == Climb(tree, a, b, {})
    IN  [met EXCEPT !.marked = ClearUp(tree, b, ClearUp(tree, a, @))]

\* block_find_common_block_set: only the index of the meeting point decides
RECURSIVE ClimbTo(_, _, _)
ClimbTo(tree, b, marked) == IF b \in marked THEN b ELSE ClimbTo(tree, tree[b], marked)
block_find_common_block_set(sl, tree, blocks) ==
    FoldLeft(LAMBDA acc, b :
                 IF sl.index[acc.res] = 1 THEN acc
                 ELSE LET meet == ClimbTo(tree, b, acc.marked)
                      IN  [res |-> IF sl.index[meet] < sl.index[acc.res] THEN meet ELSE acc.res,
                           marked |-> acc.marked \cup Ancestors(tree, b)],
             [res |-> Head(blocks), marked |-> Ancestors(tree, Head(blocks))], Tail(blocks)).res

\* block_restricted_by_conditional: every way into b comes from the branch at
\* cond or from b itself
RECURSIVE ReachesUp(_, _, _, _)
ReachesUp(tree, x, b, cond) ==
    IF x = b THEN TRUE ELSE IF x = cond THEN FALSE ELSE ReachesUp(tree, tree[x], b, cond)
block_restricted_by_conditional(g, tree, b, cond) ==
    LET preds == [i \in DOMAIN InEdges(g, b) |-> InEdges(g, b)[i][1]]
    IN  \/ Len(preds) = 1
        \/ /\ tree[b] = cond
           /\ Cardinality({i \in DOMAIN preds : preds[i] = cond}) <= 1
           /\ \A i \in DOMAIN preds : preds[i] # cond => ReachesUp(tree, preds[i], b, cond)

-----------------------------------------------------------------------------
\* What the results should be

RECURSIVE ReachFrom(_, _, _)
ReachFrom(g, edges, found) ==
    LET more == {Target(g, e) : e \in {x \in edges : x[1] \in found}} \ found
    IN  IF more = {} THEN found ELSE ReachFrom(g, edges, found \cup more)

\* a dominates b: without a, b cannot be reached from the roots
Dominates(g, roots, a, b) ==
    \/ a = b
    \/ b \notin ReachFrom(g, {e \in Edges(g) : a \notin {e[1], Target(g, e)}}, roots \ {a})

DominanceTable(g, roots) == [a, b \in Blocks(g) |-> Dominates(g, roots, a, b)]
\* c is the nearest of the blocks that dominate every block of s
Nearest(Dom, c, s) ==
    /\ \A b \in s : Dom[c, b]
    /\ \A a \in Blocks(graph) : (\A b \in s : Dom[a, b]) => Dom[a, c]

-----------------------------------------------------------------------------
\* structure_reset: the two passes over a changed graph

StructureLoops ==
    /\ loops = Pending
    /\ loops' = block_structure_loops(graph)
    /\ UNCHANGED <<graph, dom>>

CalcForwardDominator ==
    /\ loops # Pending /\ dom = Pending
    /\ dom' = block_calc_forward_dominator(graph, loops)
    /\ UNCHANGED <<graph, loops>>

\* block_build_dom_depth: the depth of every block in the dominator tree
block_build_dom_depth(sl, tree) ==
    FoldLeft(LAMBDA depth, b : [depth EXCEPT ![b] = 1 + (IF tree[b] = 0 THEN 0 ELSE depth[tree[b]])],
             [b \in DOMAIN tree |-> 0], sl.order)

-----------------------------------------------------------------------------
Structured == loops # Pending
Dominated == dom # Pending
Single == InEdges(graph, loops.order[1]) = <<>> /\ Len(loops.roots) = 1
Labelled(l) == {e \in Edges(graph) : l \in loops.lab[e]}
Roots == Range(loops.roots)

\* the blocks where values from different blocks of s meet
Joins(s) ==
    {Target(graph, e) : e \in {x \in Edges(graph) : \E b \in s :
        block_dominates(loops, dom, b, x[1])
          /\ ~(b # Target(graph, x) /\ block_dominates(loops, dom, b, Target(graph, x)))}}
RECURSIVE Closure(_)
Closure(s) == IF Joins(s) \subseteq s THEN s ELSE Closure(s \cup Joins(s))

\* The numbering block_structure_loops leaves is a reverse post-order: but for
\* the edges labelled as back edges, which climb, every edge leads to a higher
\* number, even when blocks cannot be reached from the entry; the first block
\* without edges into it, the entry of the function, is numbered first; and
\* the labels keep every loop broken by the edges labelled as loop edges.
NumberedInFlowOrder ==
    Structured =>
        /\ \A e \in Edges(graph) :
              ("back" \in loops.lab[e]) # (loops.index[e[1]] < loops.index[Target(graph, e)])
        /\ Labelled("back") \subseteq Labelled("loop")
        /\ \A b \in Blocks(graph) :
              (InEdges(graph, b) = <<>> /\ \A c \in 1..(b - 1) : InEdges(graph, c) # <<>>) => loops.order[1] = b

\* block_find_irreducible takes away just enough edges: without them a back
\* edge leads to a block that dominates its source, so every loop has one way
\* in; and it takes none when the graph had that property to begin with.
LoopsHaveOneEntry ==
    Structured =>
        LET kept == [graph EXCEPT !.out = [b \in Blocks(graph) |-> [i \in DOMAIN @[b] |->
                        IF "irreducible" \in loops.lab[<<b, i>>] THEN b ELSE @[b][i]]]]
            Proper(g) == \A e \in Labelled("back") : Dominates(g, Roots, Target(graph, e), e[1])
        IN  /\ Proper(kept)
            /\ Proper(graph) => loops.count = 0

\* block_structure_loops never needs its second round, which would start again
\* from the same edges since block_find_spanning_tree clears the irreducible
\* labels: an irreducible edge is never an edge of the spanning tree.  Nor does
\* block_find_spanning_tree find new roots the second time ("Could not generate
\* spanning tree").
StructuringEnds == Structured => ~loops.rebuild /\ ~loops.extra

\* immed_dom is the immediate dominator: of the blocks other than b that every
\* path from the entry to b visits, the one all the others dominate.  Blocks
\* that the entry does not reach count as reached through it, but the roots
\* among them have no immediate dominator.
DominatorsExact ==
    Dominated =>
        \E Dom \in {DominanceTable([graph EXCEPT !.out[loops.order[1]] = @ \o loops.roots], {loops.order[1]})} :
            \A b \in Blocks(graph) :
              IF b \in Roots THEN dom[b] = 0
              ELSE LET strict == {a \in Blocks(graph) \ {b} : Dom[a, b]}
                   IN  dom[b] \in strict /\ \A a \in strict : Dom[a, dom[b]]

\* The questions asked of the dominator tree are answered by the paths of the
\* graph: block_dominates, the nearest common dominator of two blocks or of a
\* set (and no mark is left behind), and block_restricted_by_conditional, which
\* is whether a block is entered only through the edge from cond.
DominanceQueriesExact ==
    (Dominated /\ Single) =>
        \E Dom \in {DominanceTable(graph, Roots)} :
            /\ \A a, b \in Blocks(graph) :
                 LET met == block_find_common_block(dom, a, b)
                 IN  /\ block_dominates(loops, dom, a, b) = Dom[a, b]
                     /\ Nearest(Dom, met.common, {a, b}) /\ met.marked = {}
            /\ \A s \in [1..3 -> Blocks(graph)] :
                 Nearest(Dom, block_find_common_block_set(loops, dom, s), Range(s))
            /\ \A e \in Edges(graph) :
                 block_restricted_by_conditional(graph, dom, Target(graph, e), e[1])
                   = (Target(graph, e) \notin ReachFrom(graph, Edges(graph) \ {e}, Roots))
-----------------------------------------------------------------------------
(***************************************************************************)
(* Deciding which blocks need a MULTIEQUAL (Heritage::build_adt,           *)
(* visit_incr and calc_multiequals in heritage.rs): the algorithm of       *)
(* Bilardi and Pingali, which keeps with some blocks, the boundary nodes,  *)
(* the edges that leave the region above them and so visits only part of   *)
(* the dominator tree for each set of writes.  Blocks are named by their   *)
(* place in reverse post-order, adt is what build_adt leaves behind and    *)
(* merge the result of the last question asked.                            *)
(***************************************************************************)

VARIABLES adt, writes, merge
phiVars == <<graph, loops, dom, adt, writes, merge>>

At(i) == loops.order[i]
Index(b) == loops.index[b]
IdomIndex(b) == loops.index[dom[b]]
Size == Count(graph)

\* the children of the i-th block in the dominator tree
block_build_dom_tree == [i \in 1..Size |-> SelectSeq(loops.order, LAMBDA b : dom[b] = At(i))]

\* the edges into a block from elsewhere than its immediate dominator, as <<source, target>>
UpEdges(child) ==
    LET into == FlattenSeq([i \in 1..Size |-> FlattenSeq([c \in DOMAIN child[i] |->
                    [s \in DOMAIN InEdges(graph, child[i][c]) |-> <<InEdges(graph, child[i][c])[s][1], child[i][c]>>]])])
    IN  SelectSeq(into, LAMBDA e : e[1] # dom[e[2]])

Total(f, s) == FoldLeft(LAMBDA sum, b : sum + f[Index(b)], 0, s)
Number(s, P(_)) == Len(SelectSeq(s, P))

\* acount, zlink and the boundary nodes, from the leaves of the tree upwards
IsBoundary(child, z, a) == child = <<>> \/ z > a + 1
Counts(child, up) ==
    FoldLeft(LAMBDA acc, i :
                 LET a == Number(up, LAMBDA e : e[1] = At(i)) - Number(up, LAMBDA e : dom[e[2]] = At(i))
                            + Total(acc.a, child[i])
                     z == 1 + Total(acc.z, child[i])
                 IN  IF IsBoundary(child[i], z, a)
                     THEN [a |-> [acc.a EXCEPT ![i] = a], z |-> [acc.z EXCEPT ![i] = 1], boundary |-> acc.boundary \cup {i}]
                     ELSE [acc EXCEPT !.a[i] = a, !.z[i] = z],
             [a |-> [i \in 1..Size |-> 0], z |-> [i \in 1..Size |-> 0], boundary |-> {}],
             Reverse([i \in 1..Size |-> i]))

\* for each block its nearest boundary node above
Zlinks(boundary) ==
    FoldLeft(LAMBDA z, i : [z EXCEPT ![i] = IF IdomIndex(At(i)) \in boundary THEN IdomIndex(At(i))
                                            ELSE z[IdomIndex(At(i))]],
             [i \in 1..Size |-> 0], [i \in 1..(Size - 1) |-> i + 1])

\* the edge is kept with its source and the boundary nodes above it, up to the
\* immediate dominator of its target
RECURSIVE Hang(_, _, _, _)
Hang(augment, z, e, k) ==
    IF IdomIndex(e[2]) >= k THEN augment ELSE Hang([augment EXCEPT ![k] = Append(@, e[2])], z, e, z[k])

build_adt ==
    /\ Dominated /\ adt = Pending
    /\ LET child == block_build_dom_tree
           up == UpEdges(child)
           counts == Counts(child, up)
           z == Zlinks(counts.boundary)
           augment == FoldLeft(LAMBDA acc, e : Hang(acc, z, e, Index(e[1])), [i \in 1..Size |-> <<>>], up)
       IN  adt' = [child |-> child, boundary |-> counts.boundary, augment |-> augment, marked |-> {}, merged |-> {},
                   depth |-> block_build_dom_depth(loops, dom)]
    /\ UNCHANGED <<graph, loops, dom, writes, merge>>

-----------------------------------------------------------------------------
\* one question: st is [marked, merged, queue, merge]; the queue holds blocks,
\* the deepest first and among those the last inserted

Enqueue(st, b) == [st EXCEPT !.marked = @ \cup {b}, !.queue = Append(@, b)]
NextInQueue(st) ==
    CHOOSE i \in DOMAIN st.queue :
        \A j \in DOMAIN st.queue \ {i} :
            \/ adt.depth[st.queue[j]] < adt.depth[st.queue[i]]
            \/ adt.depth[st.queue[j]] = adt.depth[st.queue[i]] /\ j < i

\* merge the targets of the edges kept at v that leave the subtree of q
Leaving(q, v) ==
    LET inside == {i \in DOMAIN adt.augment[Index(v)] : IdomIndex(adt.augment[Index(v)][i]) >= Index(q)}
    IN  IF inside = {} THEN adt.augment[Index(v)]
        ELSE SubSeq(adt.augment[Index(v)], 1, (CHOOSE i \in inside : \A j \in inside : i <= j) - 1)
MergeAt(st, b) ==
    LET noted == IF b \in st.merged THEN st ELSE [st EXCEPT !.merged = @ \cup {b}, !.merge = Append(@, b)]
    IN  IF b \in st.marked THEN noted ELSE Enqueue(noted, b)

RECURSIVE visit_incr(_, _, _)
visit_incr(st, q, v) ==
    LET here == FoldLeft(MergeAt, st, Leaving(q, v))
    IN  IF Index(v) \in adt.boundary THEN here
        ELSE FoldLeft(LAMBDA acc, c : IF c \in acc.marked THEN acc ELSE visit_incr(acc, q, c), here, adt.child[Index(v)])

RECURSIVE Drain(_)
Drain(st) ==
    IF st.queue = <<>> THEN st
    ELSE LET i == NextInQueue(st)
         IN  Drain(visit_incr([st EXCEPT !.queue = RemoveAt(@, i)], st.queue[i], st.queue[i]))

MutClearFlags(st) == [st EXCEPT !.marked = {}]
ClearFlags(st) == [st EXCEPT !.marked = {}, !.merged = {}]
calc_multiequals(write) ==
    /\ adt # Pending
    /\ LET first == FoldLeft(LAMBDA st, b : IF b \in st.marked THEN st ELSE Enqueue(st, b),
                             [marked |-> adt.marked, merged |-> adt.merged, queue |-> <<>>, merge |-> <<>>],
                             write \o <<At(1)>>)
           done == Drain(first)
           clean == ClearFlags(done)
       IN  /\ adt' = [adt EXCEPT !.marked = clean.marked, !.merged = clean.merged]
           /\ merge' = [asked |-> TRUE, blocks |-> done.merge]
    /\ writes' = write
    /\ UNCHANGED <<graph, loops, dom>>

-----------------------------------------------------------------------------
\* A MULTIEQUAL is placed exactly where values written in different blocks can
\* meet: calc_multiequals returns, each block once, the iterated dominance
\* frontier of the blocks that write and of the entry, where the value on
\* entry to the function counts as written.  It does so for every question
\* asked after build_adt, so no flag of one question lingers into the next.
MergesWhereValuesMeet ==
    merge.asked =>
        /\ Range(merge.blocks) = Joins(Closure(Range(writes) \cup {At(1)}))
        /\ Len(merge.blocks) = Cardinality(Range(merge.blocks))
=============================================================================
