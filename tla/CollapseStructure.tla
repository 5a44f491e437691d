------------------------- MODULE CollapseStructure --------------------------
(***************************************************************************)
(* Which edges are turned into gotos when no statement can be recognised   *)
(* (blockaction.rs): the bodies and exits of the loops, found before       *)
(* anything is collapsed, and TraceDag, which follows all paths of an      *)
(* acyclic part at once and gives up the edges that keep them apart.       *)
(* An edge [top, bottom] floats: once its ends have been collapsed it      *)
(* stands for an edge between the blocks that took them in.                *)
(***************************************************************************)
EXTENDS StructureBlocks

Float(top, bottom) == [top |-> top, bottom |-> bottom]
RECURSIVE Current(_, _)
Current(s, n) == IF Parent(s, n) = 0 THEN n ELSE Current(s, Parent(s, n))
get_current_edge(s, e) ==
    LET top == Current(s, e.top)
    IN  [top |-> top, slot |-> OutIndex(s.nodes, top, Current(s, e.bottom))]

OutSlots(s, n) == [i \in 1..OutCount(s, n) |-> i]
KeptOuts(s, n) ==
    FoldLeft(LAMBDA acc, i : IF is_goto_out(s, n, i) THEN acc ELSE Append(acc, OutOf(s, n, i)), <<>>, OutSlots(s, n))
KeptIns(s, n) ==
    FoldLeft(LAMBDA acc, i : IF is_goto_in(s, n, i) THEN acc ELSE Append(acc, InOf(s, n, i)), <<>>,
             [i \in 1..InCount(s, n) |-> i])

-----------------------------------------------------------------------------
\* loops: a head, the sources of its back edges, the loop it lies in

PushNew(seq, marked, n) == IF n \in Range(seq) \cup marked THEN seq ELSE Append(seq, n)
extend_back(s, seq, marked, n) == FoldLeft(LAMBDA acc, x : PushNew(acc, marked, x), seq, KeptIns(s, n))
RECURSIVE BackFrom(_, _, _, _)
BackFrom(s, seq, marked, i) ==
    IF i > Len(seq) THEN seq ELSE BackFrom(s, extend_back(s, seq, marked, seq[i]), marked, i + 1)

HeadAndTails(l) == FoldLeft(LAMBDA acc, t : PushNew(acc, {}, t), <<l.head>>, l.tails)
find_base(s, l) == BackFrom(s, HeadAndTails(l), {}, 2)

\* what lies between the loop l, whose body is marked, and its container
extend_to_container(s, l, container, marked) ==
    LET begun == PushNew(<<>>, marked, container.head)
        tails == FoldLeft(LAMBDA acc, t : PushNew(acc, marked, t), begun, container.tails)
        more == IF l.head = container.head THEN tails ELSE extend_back(s, tails, marked, l.head)
    IN  BackFrom(s, more, marked, Len(begun) + 1)

\* the blocks only the body leads to are part of it
RECURSIVE Extend(_, _, _, _, _, _)
Extend(s, exit, seq, i, j, count) ==
    IF i > Len(seq) THEN seq
    ELSE IF j > OutCount(s, seq[i]) THEN Extend(s, exit, seq, i + 1, 1, count)
    ELSE LET n == OutOf(s, seq[i], j)
             seen == [count EXCEPT ![n] = @ + 1]
         IN  IF is_goto_out(s, seq[i], j) \/ n \in Range(seq) \/ n = exit THEN Extend(s, exit, seq, i, j + 1, count)
             ELSE Extend(s, exit, IF seen[n] = InCount(s, n) THEN Append(seq, n) ELSE seq, i, j + 1, seen)
extend(s, l, body) == Extend(s, l.exit, body, 1, 1, [n \in DOMAIN s.nodes |-> 0])

Leaving(s, blocks, body) ==
    FoldLeft(LAMBDA acc, b : acc \o SelectSeq(KeptOuts(s, b), LAMBDA n : n \notin Range(body)), <<>>, blocks)
ExitTrials(s, l, body) ==
    Leaving(s, l.tails, body)
        \o Leaving(s, <<l.head>> \o SubSeq(body, Len(HeadAndTails(l)) + 1, Len(body)), body)
\* the first way out of the loop that stays in its container
find_exit(s, loops, l, body) ==
    LET trials == ExitTrials(s, l, body)
        inside == extend_to_container(s, l, loops[l.container], Range(body))
    IN  IF trials = <<>> THEN 0
        ELSE IF l.container = 0 THEN Head(trials)
        ELSE LET within == SelectSeq(trials, LAMBDA n : n \in Range(inside))
             IN  IF within = <<>> THEN 0 ELSE Head(within)

order_tails(s, l) ==
    LET i == SelectInSeq(l.tails, LAMBDA t : l.exit # 0 /\ OutIndex(s.nodes, t, l.exit) # 0)
    IN  IF i <= 1 THEN l ELSE [l EXCEPT !.tails[1] = l.tails[i], !.tails[i] = l.tails[1]]

\* the edges out of the loop; those to its exit block come last
label_exit_edges(s, l, body) ==
    LET order == SubSeq(body, Len(HeadAndTails(l)) + 1, Len(body)) \o <<l.head>>
                     \o SelectSeq(Reverse(l.tails), LAMBDA t : t # l.head)
        From(n, toexit) ==
            FoldLeft(LAMBDA acc, m : IF (m = l.exit) = toexit /\ (toexit \/ m \notin Range(body))
                                     THEN Append(acc, Float(n, m)) ELSE acc, <<>>, KeptOuts(s, n))
        All(toexit) == FoldLeft(LAMBDA acc, n : acc \o From(n, toexit), <<>>, order)
    IN  [l EXCEPT !.edges = All(FALSE) \o All(TRUE)]

\* label_loops and merge_identical_heads: one loop for each head, its tails in
\* the order of the blocks
BackIns(s, n) == {InOf(s, n, i) : i \in {j \in 1..InCount(s, n) : "back" \in InLab(s, n, j)}}
label_loops(s) ==
    FoldLeft(LAMBDA acc, n :
                 IF BackIns(s, n) = {} THEN acc
                 ELSE Append(acc, [head |-> n, tails |-> SelectSeq(s.top, LAMBDA t : t \in BackIns(s, n)),
                                   depth |-> 0, exit |-> 0, edges |-> <<>>, container |-> 0]),
             <<>>, s.top)

label_containments(s, loops, i) ==
    LET body == find_base(s, loops[i])
        inner == {j \in DOMAIN loops : loops[j].head \in Range(body) \ {loops[i].head}}
        deeper == FoldLeft(LAMBDA acc, j : [acc EXCEPT ![j].depth = IF j \in inner THEN @ + 1 ELSE @],
                           loops, [j \in DOMAIN loops |-> j])
    IN  FoldLeft(LAMBDA acc, j :
                     IF j \in inner /\ (acc[j].container = 0 \/ acc[acc[j].container].depth < acc[i].depth)
                     THEN [acc EXCEPT ![j].container = i] ELSE acc,
                 deeper, [j \in DOMAIN loops |-> j])

Finished(s, loops, i, body) ==
    LET out == order_tails(s, [loops[i] EXCEPT !.exit = find_exit(s, loops, loops[i], body)])
    IN  [loops EXCEPT ![i] = label_exit_edges(s, out, extend(s, out, body))]
Deepest(loops) ==
    LET Of(d) == SelectSeq([i \in DOMAIN loops |-> i], LAMBDA i : loops[i].depth = d)
    IN  FoldLeft(LAMBDA acc, k : acc \o Of(Len(loops) - k), <<>>, [k \in 1..Len(loops) |-> k])
\* order_loop_bodies: all loops, and the order in which they are dealt with
Contained(s, loops) == FoldLeft(LAMBDA acc, i : label_containments(s, acc, i), loops, [i \in DOMAIN loops |-> i])
WithExits(s, loops, order) ==
    [loops |-> FoldLeft(LAMBDA acc, i : Finished(s, acc, i, find_base(s, acc[i])), loops, order), order |-> order]
Bodies(s, loops) == WithExits(s, loops, Deepest(loops))
order_loop_bodies(s) == Bodies(s, Contained(s, label_loops(s)))

\* update: the head and the tails as they are now; the first tail that is not
\* yet collapsed with the head, or the head if it still loops, or 0
Updated(s, l) == [l EXCEPT !.head = Current(s, l.head),
                           !.tails = FoldLeft(LAMBDA acc, t : Append(acc, Current(s, t)), <<>>, @)]
update(s, l) ==
    LET open == SelectSeq(l.tails, LAMBDA t : t # l.head)
    IN  IF open # <<>> THEN Head(open) ELSE IF OutIndex(s.nodes, l.head, l.head) # 0 THEN l.head ELSE 0

\* emit_likely_edges: the exit edges, the way to the exit block held back to
\* the end if it is the last of them, then the back edges, the first tail last
ExitNow(s, l) ==
    LET exit == IF l.exit = 0 THEN 0 ELSE Current(s, l.exit)
    IN  IF exit \in Range(l.tails) THEN 0 ELSE exit
LiveEdges(s, l) ==
    FoldLeft(LAMBDA acc, i : LET e == get_current_edge(s, l.edges[i])
                             IN  IF e.slot = 0 THEN acc
                                 ELSE Append(acc, [edge |-> Float(e.top, OutOf(s, e.top, e.slot)), last |-> i = Len(l.edges)]),
             <<>>, [i \in DOMAIN l.edges |-> i])
BackEdges(s, l, t) == SelectSeq([i \in 1..OutCount(s, t) |-> Float(t, OutOf(s, t, i))], LAMBDA e : e.bottom = l.head)
emit_likely_edges(s, l) ==
    LET live == LiveEdges(s, l)
        Held(e) == e.last /\ e.edge.bottom = ExitNow(s, l)
        Plain(es) == FoldLeft(LAMBDA acc, e : Append(acc, e.edge), <<>>, es)
        backs == FoldLeft(LAMBDA acc, t : acc \o BackEdges(s, l, t), <<>>, Reverse(Tail(l.tails)))
    IN  Plain(SelectSeq(live, LAMBDA e : ~Held(e))) \o backs
            \o Plain(SelectSeq(live, Held)) \o BackEdges(s, l, Head(l.tails))

Marked(s, e, set) ==
    IF e.slot = 0 THEN s
    ELSE [s EXCEPT !.nodes = IF set THEN block_set_out_edge_flag(@, e.top, e.slot, "exit")
                             ELSE block_clear_out_edge_flag(@, e.top, e.slot, "exit")]
set_exit_marks(s, l) == FoldLeft(LAMBDA acc, e : Marked(acc, get_current_edge(acc, e), TRUE), s, l.edges)

-----------------------------------------------------------------------------
\* TraceDag.  A trace runs from the branch point top along its path number
\* path to the block dest, lumping together lump edges into it; terminal traces
\* have ended.  branches[1] is the root, above the blocks the search starts
\* from.  active lists the traces that are not split further, cur is the one
\* looked at (0: past the end) and missed counts those looked at in vain.

Trace(top, path, bottom, dest) ==
    [top |-> top, path |-> path, bottom |-> bottom, dest |-> dest, lump |-> 1, terminal |-> FALSE, derived |-> 0]
Branch(parent, path, top, depth) == [parent |-> parent, path |-> path, top |-> top, depth |-> depth, paths |-> <<>>]

Activate(d, t) == [d EXCEPT !.active = Append(@, t)]
Deactivate(d, t) == [d EXCEPT !.active = SelectSeq(@, LAMBDA x : x # t)]
Front1(seq) == IF seq = <<>> THEN 0 ELSE Head(seq)
AtFront(d) == [d EXCEPT !.cur = Front1(d.active), !.missed = 0]
EndTrace(d, t) == [d EXCEPT !.traces[t].terminal = TRUE, !.traces[t].bottom = 0, !.traces[t].dest = 0, !.traces[t].lump = 0]

\* a new trace of branch point b; the paths are numbered from 1
AddTrace(d, b, bottom, dest) ==
    LET t == Len(d.traces) + 1
    IN  [d EXCEPT !.traces = Append(@, Trace(b, Len(d.branches[b].paths) + 1, bottom, dest)),
                  !.branches[b].paths = Append(@, t)]
AddActive(d, b, bottom, dest) == Activate(AddTrace(d, b, bottom, dest), Len(d.traces) + 1)

Empty == [branches |-> <<Branch(0, 0, 0, 0)>>, traces |-> <<>>, active |-> <<>>, cur |-> 0, missed |-> 0,
          likely |-> <<>>, visits |-> <<>>, panic |-> FALSE]
initialize(s, roots) ==
    AtFront([FoldLeft(LAMBDA acc, r : AddActive(acc, 1, 0, r), Empty, roots)
                EXCEPT !.visits = FoldLeft(LAMBDA acc, n : Append(acc, 0), <<>>, s.nodes)])

DagOuts(s, n) ==
    FoldLeft(LAMBDA acc, i : IF is_loop_dag_out(s, n, i) THEN Append(acc, OutOf(s, n, i)) ELSE acc, <<>>, OutSlots(s, n))
DagIns(s, n) == Cardinality({i \in 1..InCount(s, n) : is_loop_dag_in(s, n, i)})

check_open(s, d, t, finish) ==
    LET r == d.traces[t]
        isroot == d.branches[r.top].depth = 0
    IN  /\ ~r.terminal
        /\ \/ isroot /\ r.bottom = 0
           \/ /\ r.dest = finish => isroot
              /\ DagIns(s, r.dest) <= r.lump + d.visits[r.dest]

\* open_branch: the block that t leads to becomes a branch point
Opened(s, d, t, outs) ==
    LET r == d.traces[t]
        b == Len(d.branches) + 1
        made == [Deactivate(d, t) EXCEPT
                    !.branches = Append(@, Branch(r.top, r.path, r.dest, d.branches[r.top].depth + 1)),
                    !.traces[t].derived = b]
    IN  [FoldLeft(LAMBDA acc, n : AddActive(acc, b, r.dest, n), made, outs) EXCEPT !.cur = Len(d.traces) + 1, !.missed = 0]
open_branch(s, d, t) ==
    LET outs == DagOuts(s, d.traces[t].dest)
    IN  IF outs = <<>> THEN [EndTrace(d, t) EXCEPT !.cur = t, !.missed = 0] ELSE Opened(s, d, t, outs)

Paths(d, b) == Range(d.branches[b].paths)
Dests(d, b) == {d.traces[t].dest : t \in {x \in Paths(d, b) : ~d.traces[x].terminal}}
\* all the paths of a branch point have come to one block, or have ended
check_retirement(d, t) ==
    LET b == d.traces[t].top
    IN  /\ d.traces[t].path = 1
        /\ Paths(d, b) \subseteq Range(d.active)
        /\ Cardinality(Dests(d, b)) <= IF d.branches[b].depth = 0 THEN 0 ELSE 1

Lumped(d, b) ==
    FoldLeft(LAMBDA acc, t : acc + (IF d.traces[t].terminal THEN 0 ELSE d.traces[t].lump), 0, d.branches[b].paths)
Joined(d, b, t) ==
    LET open == SelectSeq(d.branches[b].paths, LAMBDA x : ~d.traces[x].terminal)
    IN  IF open = <<>> THEN EndTrace(d, t)
        ELSE [d EXCEPT !.traces[t].bottom = d.traces[Head(open)].bottom, !.traces[t].dest = d.traces[Head(open)].dest,
                       !.traces[t].lump = Lumped(d, b)]
retire_branch(d, b) ==
    LET gone == [d EXCEPT !.active = SelectSeq(@, LAMBDA x : x \notin Paths(d, b))]
        t == d.branches[d.branches[b].parent].paths[d.branches[b].path]
    IN  IF d.branches[b].depth = 0 THEN AtFront(gone)
        ELSE [Activate([Joined(gone, b, t) EXCEPT !.traces[t].derived = 0], t) EXCEPT !.cur = t, !.missed = 0]

\* select_bad_edge: among the traces that wait for the same block, the score of
\* each, by the branch points that lie between it and the nearest other one
RECURSIVE Above(_, _)
Above(d, b) == IF b = 0 THEN {} ELSE {b} \cup Above(d, d.branches[b].parent)
RECURSIVE MeetAt(_, _, _)
MeetAt(d, above, b) == IF b = 0 \/ b \in above THEN b ELSE MeetAt(d, above, d.branches[b].parent)
branch_distance(d, b, c) ==
    LET m == MeetAt(d, Above(d, b), c)
    IN  d.branches[b].depth + d.branches[c].depth
            + (IF m = 0 THEN 1 ELSE -(2 * d.branches[m].depth))

NodeIndex(s, n) == IF n = 0 THEN -1 ELSE Node(s, n).index
BadBefore(s, d, t, u) ==
    LET Key(x) == <<NodeIndex(s, d.traces[x].dest), NodeIndex(s, d.branches[d.traces[x].top].top), d.traces[x].path>>
        a == Key(t)
        b == Key(u)
    IN  a[1] < b[1] \/ (a[1] = b[1] /\ (a[2] < b[2] \/ (a[2] = b[2] /\ a[3] < b[3])))
InsertBad(s, d, seq, t) ==
    LET after == SelectInSeq(seq, LAMBDA u : BadBefore(s, d, t, u))
    IN  IF after = 0 THEN Append(seq, t) ELSE InsertAt(seq, after, t)
Candidates(s, d) ==
    FoldLeft(LAMBDA acc, t : InsertBad(s, d, acc, t), <<>>,
             SelectSeq(d.active, LAMBDA t : /\ ~d.traces[t].terminal
                                            /\ d.branches[d.traces[t].top].top # 0 \/ d.traces[t].bottom # 0))

Score(s, d, t, others) ==
    LET distances == {branch_distance(d, d.traces[t].top, d.traces[u].top) : u \in others}
    IN  [siblings |-> Cardinality({u \in others : d.traces[u].top = d.traces[t].top}),
         terminal |-> IF OutCount(s, d.traces[t].dest) = 0 THEN 1 ELSE 0,
         distance |-> IF distances = {} THEN -1 ELSE CHOOSE x \in distances : \A y \in distances : x <= y,
         depth |-> d.branches[d.traces[t].top].depth]
\* compare_final: y is the better edge to give up
Better(x, y) ==
    IF x.siblings # y.siblings THEN y.siblings < x.siblings
    ELSE IF x.terminal # y.terminal THEN x.terminal < y.terminal
    ELSE IF x.distance # y.distance THEN x.distance < y.distance
    ELSE x.depth < y.depth
ScoreOf(s, d, cands, t) ==
    Score(s, d, t, {u \in Range(cands) : u # t /\ d.traces[u].dest = d.traces[t].dest})
Best(s, d, cands) ==
    FoldLeft(LAMBDA acc, t : IF Better(ScoreOf(s, d, cands, acc), ScoreOf(s, d, cands, t)) THEN t ELSE acc,
             Head(cands), Tail(cands))
select_bad_edge(s, d) ==
    LET cands == Candidates(s, d) IN IF cands = <<>> THEN 0 ELSE Best(s, d, cands)

\* remove_trace: the edge is given up; a trace right below its branch point
\* leaves it, and the paths after it move up
Shifted(d, b, path) ==
    LET paths == RemoveAt(d.branches[b].paths, path)
        moved == SubSeq(paths, path, Len(paths))
    IN  FoldLeft(LAMBDA acc, t : LET up == [acc EXCEPT !.traces[t].path = @ - 1]
                                 IN  IF d.traces[t].derived = 0 THEN up
                                     ELSE [up EXCEPT !.branches[d.traces[t].derived].path = @ - 1],
                 [d EXCEPT !.branches[b].paths = paths], moved)
Dropped(d, t, r) ==
    IF r.bottom # d.branches[r.top].top THEN EndTrace(d, t) ELSE Shifted(Deactivate(d, t), r.top, r.path)
remove_trace(d, t) ==
    LET r == d.traces[t]
    IN  IF t = 0 THEN [d EXCEPT !.active = <<>>, !.panic = TRUE]
        ELSE AtFront(Dropped([d EXCEPT !.likely = Append(@, Float(r.bottom, r.dest)), !.visits[r.dest] = @ + r.lump], t, r))

Missed(d, t) ==
    LET i == SelectInSeq(d.active, LAMBDA x : x = t)
    IN  [d EXCEPT !.missed = @ + 1, !.cur = IF i = Len(d.active) THEN 0 ELSE d.active[i + 1]]
PushStep(s, d, finish, t) ==
    IF d.missed >= Len(d.active) THEN remove_trace(d, select_bad_edge(s, d))
    ELSE IF check_retirement(d, t) THEN retire_branch(d, d.traces[t].top)
    ELSE IF check_open(s, d, t, finish) THEN open_branch(s, d, t)
    ELSE Missed(d, t)
RECURSIVE push_branches(_, _, _)
push_branches(s, d, finish) ==
    IF d.active = <<>> THEN d
    ELSE push_branches(s, PushStep(s, d, finish, IF d.cur = 0 THEN Head(d.active) ELSE d.cur), finish)
-----------------------------------------------------------------------------
(***************************************************************************)
(* Block structuring (CollapseStructure in blockaction.rs): the copied     *)
(* control-flow graph is collapsed, one recognised statement at a time,    *)
(* until no edges are left.  Where nothing is recognised an edge is given  *)
(* up and becomes a goto.  s is the graph (StructureBlocks); loops, order, *)
(* turn, likely, next, full and final are the fields of CollapseStructure  *)
(* that choose gotos; pc, index, change and target are where collapse_all  *)
(* is.                                                                     *)
(***************************************************************************)

VARIABLES s, sel, pc, index, change, target
collapseVars == <<s, sel, pc, index, change, target>>

Isolated(g, n) == InCount(g, n) = 0 /\ OutCount(g, n) = 0
IsSwitchOut(g, n) == Flag(g, n, "switch")
AnyGotoOut(g, n) == \E i \in 1..OutCount(g, n) : is_goto_out(g, n, i)
Binary(g, n) == OutCount(g, n) = 2 /\ ~IsSwitchOut(g, n)
PlainBinary(g, n) == Binary(g, n) /\ ~AnyGotoOut(g, n)
Loose(g, n) == PlainBinary(g, n) /\ OutIndex(g.nodes, n, n) = 0
FirstSlot(g, n, P(_)) == IF P(1) THEN 1 ELSE IF P(2) THEN 2 ELSE 0
NegateIf(g, n, c) == IF c THEN block_negate_condition(g, n) ELSE g

-----------------------------------------------------------------------------
\* the rules: when each applies to block n (a slot, or 0), and what it makes

GotoSlot(g, n) ==
    IF IsSwitchOut(g, n) \/ OutCount(g, n) <= 2
    THEN SelectInSeq(Node(g, n).out, LAMBDA e : e.lab \cap {"irreducible", "goto"} # {}) ELSE 0
rule_block_goto(g, n) ==
    IF IsSwitchOut(g, n) THEN block_new_block_multi_goto(g, n, GotoSlot(g, n))
    ELSE IF OutCount(g, n) = 2 THEN block_new_block_if_goto(NegateIf(g, n, ~is_goto_out(g, n, 2)), n)
    ELSE block_new_block_goto(g, n)

Continues(g, start, n) ==
    /\ OutCount(g, n) = 1 /\ is_decision_out(g, n, 1) /\ OutOf(g, n, 1) # start
    /\ InCount(g, OutOf(g, n, 1)) = 1 /\ ~IsSwitchOut(g, OutOf(g, n, 1))
RECURSIVE CatNodes(_, _)
CatNodes(g, seq) ==
    IF Continues(g, Head(seq), Last(seq)) THEN CatNodes(g, Append(seq, OutOf(g, Last(seq), 1))) ELSE seq
CatApplies(g, n) ==
    /\ ~IsSwitchOut(g, n) /\ Continues(g, n, n)
    /\ ~(InCount(g, n) = 1 /\ OutCount(g, InOf(g, n, 1)) = 1)
rule_block_cat(g, n) == block_new_block_list(g, CatNodes(g, <<n>>))

\* if (n) or (out) then clause: out is reached only from n and shares its clause
OrSlot(g, n) ==
    LET Fits(i) ==
            LET o == OutOf(g, n, i)
                clause == OutOf(g, n, 3 - i)
            IN  /\ o # n /\ InCount(g, o) = 1 /\ OutCount(g, o) = 2 /\ ~Flag(g, o, "gotoin") /\ ~IsSwitchOut(g, o)
                /\ "back" \notin OutLab(g, n, i) /\ ~block_is_complex(g, o)
                /\ clause \notin {n, o}
                /\ OutIndex(g.nodes, o, clause) # 0
                /\ OutOf(g, o, 3 - OutIndex(g.nodes, o, clause)) # n
    IN  IF ~PlainBinary(g, n) THEN 0 ELSE FirstSlot(g, n, Fits)
OrJoined(g, n, o, i, matched) == block_new_block_condition(NegateIf(NegateIf(g, n, i = 2), o, matched = 1), n, o)
rule_block_or(g, n) ==
    LET i == OrSlot(g, n)
        o == OutOf(g, n, i)
    IN  OrJoined(g, n, o, i, OutIndex(g.nodes, o, OutOf(g, n, 3 - i)))

ProperIfSlot(g, n) ==
    LET Fits(i) ==
            LET c == OutOf(g, n, i)
            IN  /\ InCount(g, c) = 1 /\ OutCount(g, c) = 1 /\ ~IsSwitchOut(g, c)
                /\ is_decision_out(g, n, i) /\ ~is_goto_out(g, c, 1)
                /\ OutOf(g, c, 1) = OutOf(g, n, 3 - i)
    IN  IF ~Loose(g, n) THEN 0 ELSE FirstSlot(g, n, Fits)
rule_block_proper_if(g, n) ==
    LET i == ProperIfSlot(g, n)
    IN  block_new_structure(NegateIf(g, n, i = 1), "if", <<n, OutOf(g, n, i)>>, 1)

IfElseApplies(g, n) ==
    LET tc == OutOf(g, n, 2)
        fc == OutOf(g, n, 1)
    IN  /\ Binary(g, n) /\ is_decision_out(g, n, 1) /\ is_decision_out(g, n, 2)
        /\ InCount(g, tc) = 1 /\ InCount(g, fc) = 1 /\ OutCount(g, tc) = 1 /\ OutCount(g, fc) = 1
        /\ OutOf(g, tc, 1) # n /\ OutOf(g, tc, 1) = OutOf(g, fc, 1)
        /\ ~IsSwitchOut(g, tc) /\ ~IsSwitchOut(g, fc)
        /\ ~is_goto_out(g, tc, 1) /\ ~is_goto_out(g, fc, 1)
rule_block_if_else(g, n) == block_new_structure(g, "ifelse", <<n, OutOf(g, n, 2), OutOf(g, n, 1)>>, 1)

DeadEnd(g, n, i) ==
    LET c == OutOf(g, n, i)
    IN  InCount(g, c) = 1 /\ OutCount(g, c) = 0 /\ ~IsSwitchOut(g, c) /\ is_decision_out(g, n, i)
IfNoExitSlot(g, n) == IF ~Loose(g, n) THEN 0 ELSE FirstSlot(g, n, LAMBDA i : DeadEnd(g, n, i))
rule_block_if_no_exit(g, n) ==
    LET i == IfNoExitSlot(g, n)
        both == i = 1 /\ DeadEnd(g, n, 2)
    IN  IF both THEN block_new_structure(block_negate_condition(g, n), "ifnoexit", <<n, OutOf(g, n, 1), OutOf(g, n, 2)>>, 0)
        ELSE block_new_structure(NegateIf(g, n, i = 1), "if", <<n, OutOf(g, n, i)>>, 1)

WhileSlot(g, n) ==
    LET Fits(i) ==
            LET c == OutOf(g, n, i)
            IN  InCount(g, c) = 1 /\ OutCount(g, c) = 1 /\ ~IsSwitchOut(g, c) /\ OutOf(g, c, 1) = n
    IN  IF ~Loose(g, n) \/ Flag(g, n, "gotoin") THEN 0 ELSE FirstSlot(g, n, Fits)
SetFlags(g, n, f) == [g EXCEPT !.nodes[n].flags = @ \cup f]
rule_block_while_do(g, n) ==
    LET i == WhileSlot(g, n)
        overflow == block_is_complex(g, n)
    IN  SetFlags(block_new_structure(NegateIf(g, n, (i = 1) # overflow), "whiledo", <<n, OutOf(g, n, i)>>, 1),
                 LastNode(g) + 1, IF overflow THEN {"overflow"} ELSE {})

DoWhileSlot(g, n) == IF ~PlainBinary(g, n) THEN 0 ELSE OutIndex(g.nodes, n, n)
rule_block_do_while(g, n) == block_new_structure(NegateIf(g, n, DoWhileSlot(g, n) = 1), "dowhile", <<n>>, 1)

InfLoopApplies(g, n) == OutCount(g, n) = 1 /\ ~is_goto_out(g, n, 1) /\ OutOf(g, n, 1) = n
rule_block_inf_loop(g, n) == block_new_structure(g, "infloop", <<n>>, 0)

\* the block after the switch: the first target that cannot be a case
Outs(g, n) == {OutOf(g, n, i) : i \in 1..OutCount(g, n)}
NotACase(g, n) ==
    SelectInSeq(Node(g, n).out, LAMBDA e : e.to = n \/ OutCount(g, e.to) > 1 \/ InCount(g, e.to) > 1)
IsCase(g, c) ==
    /\ InCount(g, c) = 1 /\ ~is_goto_in(g, c, 1) /\ ~IsSwitchOut(g, c) /\ OutCount(g, c) <= 1 /\ ~AnyGotoOut(g, c)
SwitchExit(g, n) ==
    LET ways == {c \in Outs(g, n) : OutCount(g, c) = 1}
    IN  IF NotACase(g, n) # 0 THEN OutOf(g, n, NotACase(g, n))
        ELSE IF ways = {} THEN 0 ELSE OutOf(g, CHOOSE c \in ways : TRUE, 1)
SwitchApplies(g, n) ==
    LET exit == SwitchExit(g, n)
    IN  /\ IsSwitchOut(g, n)
        /\ NotACase(g, n) # 0 => /\ ~AnyGotoOut(g, exit)
                                 /\ \A i \in 1..InCount(g, exit) : ~is_goto_in(g, exit, i)
        /\ \A c \in Outs(g, n) \ (IF NotACase(g, n) # 0 THEN {exit} ELSE {}) :
              IsCase(g, c) /\ (OutCount(g, c) = 1 => OutOf(g, c, 1) = exit)

\* check_switch_skips: cases that only leave the switch cannot be left out if
\* the default does something; the edges that have to become gotos
DefaultOut(g, n, i) == "default" \in OutLab(g, n, i)
Skips(g, n, exit) ==
    LET toexit == {i \in 1..OutCount(g, n) : OutOf(g, n, i) = exit}
        skips == {i \in toexit : ~DefaultOut(g, n, i)}
        defaulted == \/ \E i \in (1..OutCount(g, n)) \ toexit : DefaultOut(g, n, i)
                     \/ Kind(g, n) = "multigoto" /\ Node(g, n).defgoto
    IN  IF exit # 0 /\ defaulted THEN skips ELSE {}
MutSkips(g, n, exit) == {}
check_switch_skips(g, n, exit) == Skips(g, n, exit)
SkipsAsGotos(g, n, slots) ==
    FoldLeft(LAMBDA acc, i : IF i \in slots THEN SetGoto(acc, n, i) ELSE acc, g, OutSlots(g, n))
Cases(g, n, exit) ==
    FoldLeft(LAMBDA acc, i : IF OutOf(g, n, i) = exit THEN acc ELSE Append(acc, OutOf(g, n, i)), <<>>, OutSlots(g, n))
rule_block_switch(g, n) ==
    LET exit == SwitchExit(g, n)
        skips == check_switch_skips(g, n, exit)
    IN  IF skips # {} THEN SkipsAsGotos(g, n, skips)
        ELSE block_new_block_switch(g, <<n>> \o Cases(g, n, exit), exit # 0)

\* cases that run into the next one
NoFall(g, c) == InCount(g, c) > 2 \/ OutCount(g, c) > 1
FallThrus(g, n) ==
    FoldLeft(LAMBDA acc, i :
        LET c == OutOf(g, n, i)
            t == OutOf(g, c, 1)
        IN  IF /\ ~NoFall(g, c) /\ OutCount(g, c) = 1 /\ InCount(g, t) = 2 /\ OutCount(g, t) <= 1
               /\ InOf(g, t, 3 - Node(g, c).out[1].rev) = n
            THEN Append(acc, c) ELSE acc, <<>>, OutSlots(g, n))
FallThruApplies(g, n) ==
    /\ IsSwitchOut(g, n) /\ n \notin Outs(g, n)
    /\ Cardinality({i \in 1..OutCount(g, n) : NoFall(g, OutOf(g, n, i))}) <= 1
    /\ FallThrus(g, n) # <<>>
MutCaseFallthru(g, n) ==    \* mutant: the edge goes on being looked at
    FoldLeft(LAMBDA acc, c : SetGotoIn(acc, OutOf(acc, c, 1)), g, FallThrus(g, n))
rule_case_fallthru(g, n) == FoldLeft(LAMBDA acc, c : SetGoto(acc, c, 1), g, FallThrus(g, n))

-----------------------------------------------------------------------------
\* select_goto: the next edge to give up

StillLikely(c) == c.next <= Len(c.likely)
\* the first loop that still has edges to give up, with what update found
RECURSIVE NextLoop(_, _)
NextLoop(g, c) ==
    LET l == Updated(g, c.loops[c.order[c.turn]])
        bottom == update(g, l)
    IN  IF c.turn > Len(c.order) THEN [c |-> c, l |-> 0, bottom |-> 0]
        ELSE IF bottom # 0 /\ (bottom = l.head \/ ~c.full \/ StillLikely(c)) THEN [c |-> c, l |-> c.order[c.turn], bottom |-> bottom]
        ELSE NextLoop(g, [c EXCEPT !.turn = @ + 1, !.full = FALSE])

Filled(c, likely) == [c EXCEPT !.likely = likely, !.next = 1, !.full = TRUE]
PanicIf(c, d) == [c EXCEPT !.panic = @ \/ d.panic]
InLoop(g, c, l, d) == Filled(PanicIf(c, d), d.likely \o emit_likely_edges(g, l))
Everywhere(c, d) == IF d.likely = <<>> THEN [PanicIf(c, d) EXCEPT !.final = TRUE] ELSE Filled(PanicIf(c, d), d.likely)
Rooted(g) == SelectSeq(g.top, LAMBDA n : InCount(g, n) = 0)
TraceLoop(g, c, l, bottom) == InLoop(g, c, l, push_branches(set_exit_marks(g, l), initialize(g, <<l.head>>), bottom))
Refilled(g, found) ==
    LET c == found.c
        l == Updated(g, c.loops[found.l])
    IN  IF found.l # 0 /\ found.bottom = l.head THEN Filled(c, <<Float(l.head, l.head)>>)
        ELSE IF c.full /\ StillLikely(c) THEN c
        ELSE IF found.l # 0 THEN TraceLoop(g, c, l, found.bottom)
        ELSE Everywhere(c, push_branches(g, initialize(g, Rooted(g)), 0))
update_loop_body(g, c) == IF c.final THEN c ELSE Refilled(g, NextLoop(g, c))

\* the blocks that only the root n leads to, and their edges to others
RECURSIVE OnlyFrom(_, _, _, _, _)
OnlyFrom(g, seq, i, j, count) ==
    IF i > Len(seq) THEN seq
    ELSE IF j > OutCount(g, seq[i]) THEN OnlyFrom(g, seq, i + 1, 1, count)
    ELSE LET n == OutOf(g, seq[i], j)
             seen == [count EXCEPT ![n] = @ + 1]
         IN  IF n \in Range(seq) THEN OnlyFrom(g, seq, i, j + 1, count)
             ELSE OnlyFrom(g, IF seen[n] = InCount(g, n) THEN Append(seq, n) ELSE seq, i, j + 1, seen)
only_reachable_from_root(g, n) == OnlyFrom(g, <<n>>, 1, 1, [m \in DOMAIN g.nodes |-> 0])
mark_exits_as_gotos(g, body) ==
    FoldLeft(LAMBDA acc, n :
        FoldLeft(LAMBDA a, i : IF OutOf(a, n, i) \in Range(body) THEN a ELSE SetGoto(a, n, i), acc, OutSlots(acc, n)),
        g, body)
clip_extra_roots(g) ==
    LET Clip(acc, n) == IF acc # g \/ InCount(g, n) # 0 THEN acc ELSE mark_exits_as_gotos(g, only_reachable_from_root(g, n))
    IN  FoldLeft(Clip, g, Tail(g.top))

Selected(g, c, n) == [s |-> g, sel |-> c, target |-> n]
Clipped(g, c, h) ==
    IF h = g THEN Selected(Fail(g, "Could not finish collapsing block structure"), c, 0) ELSE Selected(h, c, 0)
RECURSIVE TakeLikely(_, _)
TakeLikely(g, c) ==
    LET e == get_current_edge(g, c.likely[c.next])
        past == [c EXCEPT !.next = @ + 1]
    IN  IF c.panic THEN Selected(Fail(g, "no candidate unstructured edge"), c, 0)
        ELSE IF c.final THEN Clipped(g, c, clip_extra_roots(g))
        ELSE IF ~StillLikely(c) THEN TakeLikely(g, update_loop_body(g, c))
        ELSE IF e.slot = 0 THEN TakeLikely(g, past)
        ELSE Selected(SetGoto(g, e.top, e.slot), past, e.top)
select_goto(g, c) == TakeLikely(g, update_loop_body(g, c))

-----------------------------------------------------------------------------
\* collapse_all

\* the rule collapse_internal applies to block n, the first that matches
RuleAt(g, n) ==
    IF Isolated(g, n) THEN "none"
    ELSE IF GotoSlot(g, n) # 0 THEN "goto"
    ELSE IF CatApplies(g, n) THEN "cat"
    ELSE IF ProperIfSlot(g, n) # 0 THEN "proper_if"
    ELSE IF IfElseApplies(g, n) THEN "if_else"
    ELSE IF WhileSlot(g, n) # 0 THEN "while_do"
    ELSE IF DoWhileSlot(g, n) # 0 THEN "do_while"
    ELSE IF InfLoopApplies(g, n) THEN "inf_loop"
    ELSE IF SwitchApplies(g, n) THEN "switch"
    ELSE "none"
RuleAfter(g, n) ==
    IF IfNoExitSlot(g, n) # 0 THEN "if_no_exit" ELSE IF FallThruApplies(g, n) THEN "case_fallthru" ELSE "none"

\* the first position from i on at which P holds, or 0
From(i, P(_)) ==
    LET fits == {p \in i..Len(s.top) : P(s.top[p])}
    IN  IF fits = {} THEN 0 ELSE CHOOSE p \in fits : \A q \in fits : p <= q

AtBlock(p, n, rule) == [p |-> p, n |-> n, rule |-> rule]
NextInternal ==
    IF target # 0 THEN AtBlock(Len(s.top), target, RuleAt(s, target))
    ELSE LET p == From(index, LAMBDA n : RuleAt(s, n) # "none")
         IN  IF p = 0 THEN AtBlock(0, 0, "none") ELSE AtBlock(p, s.top[p], RuleAt(s, s.top[p]))

Running == s.err = ""
Goes(p, i, c, t) == pc' = p /\ index' = i /\ change' = c /\ target' = t

OrderLoopBodies ==
    /\ pc = "order" /\ Running
    /\ \E b \in {order_loop_bodies(s)} : sel' = [sel EXCEPT !.loops = b.loops, !.order = b.order]
    /\ UNCHANGED s /\ Goes("conditions", 1, FALSE, 0)

\* collapse_conditions, one block after the other until none changes
RuleBlockOr ==
    /\ pc = "conditions" /\ Running
    /\ \E p \in {From(index, LAMBDA n : OrSlot(s, n) # 0)} :
          /\ p # 0
          /\ s' = rule_block_or(s, s.top[p])
          /\ Goes("conditions", p + 1, TRUE, 0)
    /\ UNCHANGED sel
ConditionsAround ==
    /\ pc = "conditions" /\ Running /\ From(index, LAMBDA n : OrSlot(s, n) # 0) = 0
    /\ Goes(IF change THEN "conditions" ELSE "internal", 1, FALSE, 0)
    /\ UNCHANGED <<s, sel>>

\* collapse_internal: a block is taken in, the scan goes on behind it
Internal(rule, Do(_, _)) ==
    /\ pc = "internal" /\ Running
    /\ \E at \in {NextInternal} :
          /\ at.rule = rule
          /\ s' = Do(s, at.n)
          /\ Goes("internal", at.p + 1, TRUE, 0)
    /\ UNCHANGED sel
RuleBlockGoto == Internal("goto", rule_block_goto)
RuleBlockCat == Internal("cat", rule_block_cat)
RuleBlockProperIf == Internal("proper_if", rule_block_proper_if)
RuleBlockIfElse == Internal("if_else", rule_block_if_else)
RuleBlockWhileDo == Internal("while_do", rule_block_while_do)
RuleBlockDoWhile == Internal("do_while", rule_block_do_while)
RuleBlockInfLoop == Internal("inf_loop", rule_block_inf_loop)
RuleBlockSwitch == Internal("switch", rule_block_switch)
InternalAround ==
    /\ pc = "internal" /\ Running /\ NextInternal.rule = "none"
    /\ Goes(IF change \/ target # 0 THEN "internal" ELSE "after", 1, FALSE, 0)
    /\ UNCHANGED <<s, sel>>

After(rule, Do(_, _)) ==
    /\ pc = "after" /\ Running
    /\ \E p \in {From(1, LAMBDA n : RuleAfter(s, n) # "none")} :
          /\ p # 0
          /\ RuleAfter(s, s.top[p]) = rule
          /\ s' = Do(s, s.top[p])
          /\ Goes("internal", 1, FALSE, 0)
    /\ UNCHANGED sel
RuleBlockIfNoExit == After("if_no_exit", rule_block_if_no_exit)
RuleCaseFallthru == After("case_fallthru", rule_case_fallthru)

Stuck == pc = "after" /\ Running /\ From(1, LAMBDA n : RuleAfter(s, n) # "none") = 0
AllIsolated == \A p \in DOMAIN s.top : Isolated(s, s.top[p])
SelectGoto ==
    /\ Stuck /\ ~AllIsolated
    /\ \E r \in {select_goto(s, sel)} :
          s' = r.s /\ sel' = r.sel /\ Goes("internal", 1, FALSE, r.target)
Collapsed ==
    /\ Stuck /\ AllIsolated
    /\ Goes("collapsed", 1, FALSE, 0)
    /\ UNCHANGED <<s, sel>>

CollapseNext ==
    \/ OrderLoopBodies \/ RuleBlockOr \/ ConditionsAround
    \/ RuleBlockGoto \/ RuleBlockCat \/ RuleBlockProperIf \/ RuleBlockIfElse \/ RuleBlockWhileDo
    \/ RuleBlockDoWhile \/ RuleBlockInfLoop \/ RuleBlockSwitch \/ InternalAround
    \/ RuleBlockIfNoExit \/ RuleCaseFallthru \/ SelectGoto \/ Collapsed

-----------------------------------------------------------------------------
\* where the collapsed graph leads: from out slot i of block n to a basic block
RECURSIVE Leads(_, _, _)
Leads(g, n, i) ==
    LET p == Parent(g, n)
        pos == SelectInSeq(Kids(g, p), LAMBDA m : m = n)
        Begin(m) == block_get_front_leaf(g, m)
        kind == Kind(g, p)
        or == Node(g, p).opc # "BOOL_AND"
    IN  IF p = 0 THEN IF i \in 1..OutCount(g, n) THEN Begin(OutOf(g, n, i)) ELSE 0
        ELSE CASE kind = "list" -> IF pos < Len(Kids(g, p)) THEN Begin(Kids(g, p)[pos + 1]) ELSE Leads(g, p, i)
               [] kind = "condition" ->
                    IF pos = 2 THEN Leads(g, p, i)
                    ELSE IF (i = 2) = or THEN Leads(g, p, i) ELSE Begin(Kids(g, p)[2])
               [] kind = "if" -> IF pos = 1 /\ i = 2 THEN Begin(Kids(g, p)[2]) ELSE Leads(g, p, 1)
               [] kind \in {"ifelse", "ifnoexit"} ->
                    IF pos = 1 THEN Begin(Kids(g, p)[IF i = 2 THEN 2 ELSE 3]) ELSE Leads(g, p, 1)
               [] kind = "whiledo" ->
                    IF pos = 2 THEN Begin(p)
                    ELSE IF (i = 2) = ("overflow" \notin Node(g, p).flags) THEN Begin(Kids(g, p)[2]) ELSE Leads(g, p, 1)
               [] kind = "dowhile" -> IF i = 2 THEN Begin(p) ELSE Leads(g, p, 1)
               [] kind = "infloop" -> Begin(p)
               [] kind = "goto" -> Begin(Node(g, p).goto)
               [] kind = "ifgoto" -> IF i = 2 THEN Begin(Node(g, p).goto) ELSE Leads(g, p, 1)
               [] kind = "switch" -> Leads(g, p, 1)

\* edge i of the jump at the end of leaf: gotos are the targets given up on the
\* way from leaf to n.  Without a switch around them they lead nowhere.
RECURSIVE JumpKept(_, _, _, _, _)
JumpKept(g, n, leaf, i, gotos) ==
    LET t == g.flow[leaf][i]
        p == Parent(g, n)
        Fronts(seq) == {block_get_front_leaf(g, seq[j]) : j \in DOMAIN seq}
        cases == Node(g, p).cases
        hasdefault == \E c \in Range(cases) : c.outindex = g.default[leaf]
    IN  IF p = 0 THEN t \in gotos \cup Fronts([j \in 1..OutCount(g, n) |-> OutOf(g, n, j)])
        ELSE CASE Kind(g, p) = "multigoto" -> JumpKept(g, p, leaf, i, gotos \cup Fronts(Node(g, p).gotos))
               [] Kind(g, p) = "infloop" -> gotos = {} /\ t = block_get_front_leaf(g, p)
               [] OTHER ->
                    \/ \E c \in Range(cases) : c.outindex = i /\ block_get_front_leaf(g, c.block) = t
                    \/ (i = g.default[leaf] \/ ~hasdefault) /\ t = Leads(g, p, 1)

Leaves(g) == DOMAIN g.flow
LeafKept(g, b) ==
    IF IsSwitchOut(g, b) THEN \A i \in DOMAIN g.flow[b] : JumpKept(g, b, b, i, {})
    ELSE \A i \in DOMAIN g.flow[b] :
            g.flow[b][i] = Leads(g, b, IF Len(g.flow[b]) = 2 /\ Node(g, b).flip THEN 3 - i ELSE i)

\* However far the graph has been collapsed, it leads from each basic block,
\* for either outcome of its condition and every value of its jump, to the
\* same basic block as the control-flow graph does (negate_condition,
\* new_block_*, the rules and check_switch_skips of blockaction.rs together).
LeavesKept == \A b \in Leaves(s) : LeafKept(s, b)

\* Each edge of the graph being collapsed is described alike at both of its
\* ends, whatever edges have been moved, swapped, merged and removed.
EdgeEndsAgree == EndsAgree(s.nodes)

\* Structuring never fails: every condition can be preserved, every case still
\* belongs to its switch, and there is always an edge to give up.
NeverStuck == s.err = ""

\* Collapsing keeps where control goes and can always go on: the three
\* properties above together.
FlowKept == NeverStuck /\ EdgeEndsAgree /\ LeavesKept
=============================================================================
