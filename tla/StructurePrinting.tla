------------------------- MODULE StructurePrinting -------------------------
(***************************************************************************)
(* From the collapsed graph to the text: ActionPreferComplement and        *)
(* ActionFinalStructure of blockaction.rs, with the parts of block.rs they *)
(* call, and what the C that the emit_block_* functions of                 *)
(* printc/emission.rs write for each kind of block means.  A basic block   *)
(* that is the target of a printed goto has the flag target; a block whose *)
(* label a loop around it prints has the flag bump.                        *)
(***************************************************************************)
EXTENDS CollapseStructure

Loops == {"whiledo", "dowhile", "infloop"}
PositionIn(g, n) == SelectInSeq(IF Parent(g, n) = 0 THEN g.top ELSE Kids(g, Parent(g, n)), LAMBDA m : m = n)
FrontOf(g, n) == block_get_front_leaf(g, n)

-----------------------------------------------------------------------------
\* ActionPreferComplement: the two clauses of an if statement change places

RECURSIVE block_get_split_point(_, _)
block_get_split_point(g, n) ==
    CASE Kind(g, n) = "copy" -> IF Len(g.flow[n]) = 2 THEN n ELSE 0
      [] Kind(g, n) = "list" -> block_get_split_point(g, Last(Kids(g, n)))
      [] Kind(g, n) = "condition" -> n
      [] OTHER -> 0

\* whether the operations of the condition can be flipped is not modelled
RECURSIVE block_flip_in_place_test(_, _)
block_flip_in_place_test(g, n) ==
    /\ n # 0
    /\ Kind(g, n) = "condition" =>
          \A k \in 1..2 : block_flip_in_place_test(g, block_get_split_point(g, Kids(g, n)[k]))

RECURSIVE block_flip_in_place_execute(_, _)
block_flip_in_place_execute(g, n) ==
    IF Kind(g, n) = "copy" THEN [g EXCEPT !.nodes[n].flip = ~@]
    ELSE [FoldLeft(LAMBDA acc, m : block_flip_in_place_execute(acc, block_get_split_point(g, m)), g, Kids(g, n))
            EXCEPT !.nodes[n].opc = Toggled(@)]

Complementable(g, n) ==
    /\ Kind(g, n) \in {"ifelse", "ifnoexit"}
    /\ block_flip_in_place_test(g, block_get_split_point(g, Kids(g, n)[1]))
    /\ Kind(g, n) = "ifnoexit" =>
          LET first == Node(g, Kids(g, n)[2])
              second == Node(g, Kids(g, n)[3])
          IN  first.depth > second.depth \/ (first.depth = second.depth /\ first.leaves >= second.leaves)
block_prefer_complement(g, n) ==
    [block_flip_in_place_execute(g, block_get_split_point(g, Kids(g, n)[1]))
        EXCEPT !.nodes[n].list = <<@[1], @[3], @[2]>>]

PreferComplement ==
    /\ pc = "collapsed"
    /\ \E chosen \in SUBSET {n \in DOMAIN s.nodes : Complementable(s, n)} :
          s' = FoldLeft(LAMBDA acc, n : IF n \in chosen THEN block_prefer_complement(acc, n) ELSE acc,
                        s, [n \in DOMAIN s.nodes |-> n])
    /\ pc' = "complemented" /\ UNCHANGED <<sel, index, change, target>>

-----------------------------------------------------------------------------
\* block_order_blocks: what returns comes last, the first block first

InsertSorted(seq, x, Before(_, _)) ==
    LET i == SelectInSeq(seq, LAMBDA y : Before(x, y))
    IN  IF i = 0 THEN Append(seq, x) ELSE InsertAt(seq, i, x)
Sorted(seq, Before(_, _)) == FoldLeft(LAMBDA acc, x : InsertSorted(acc, x, Before), <<>>, seq)

\* the basic block whose last operation is the last of n, or 0
RECURSIVE block_last_op(_, _)
block_last_op(g, n) ==
    CASE Kind(g, n) = "copy" -> n
      [] Kind(g, n) \in {"goto", "multigoto", "ifgoto"} -> block_last_op(g, Kids(g, n)[1])
      [] Kind(g, n) \in {"list", "condition", "ifnoexit"} -> block_last_op(g, Last(Kids(g, n)))
      [] OTHER -> 0
block_compare_final_order(g, returns, a, b) ==
    LET ra == block_last_op(g, a) \in returns
        rb == block_last_op(g, b) \in returns
    IN  \/ Node(g, a).index = 0
        \/ Node(g, b).index # 0 /\ ~ra /\ (rb \/ Node(g, a).index < Node(g, b).index)
block_order_blocks(g, returns) ==
    [g EXCEPT !.top = Sorted(@, LAMBDA a, b : block_compare_final_order(g, returns, a, b))]

\* block_switch_finalize_printing: cases by label, a case after the one that
\* falls into it.  Labels are numbered like the edges of the jump, upwards or
\* downwards; unlabelled is the edge of a default no value is listed for.
RECURSIVE Chained(_, _, _, _)
Chained(cases, c, label, depth) ==
    IF c = 0 THEN cases
    ELSE IF cases[c].depth > 0 THEN cases
    ELSE Chained([cases EXCEPT ![c].label = label, ![c].depth = depth], cases[c].chain, label, depth + 1)
Labelling(cases, c, label) ==
    IF label = 0 THEN [cases EXCEPT ![c].label = 0]
    ELSE IF cases[c].depth # 0 THEN cases
    ELSE Chained([cases EXCEPT ![c].label = label], cases[c].chain, label, 1)
CaseOrder(a, b) == IF a.label # b.label THEN a.label < b.label ELSE a.depth < b.depth
CasesOrdered(cases, Label(_)) ==
    LET fresh == FoldLeft(LAMBDA acc, c :
                     Append(acc, [case |-> cases[c], chain |-> cases[c].chain, label |-> 0,
                                  depth |-> IF \E d \in Range(cases) : d.chain = c THEN -1 ELSE 0]),
                     <<>>, [c \in DOMAIN cases |-> c])
        labelled == FoldLeft(LAMBDA acc, c : Labelling(acc, c, Label(cases[c].outindex)), fresh, [c \in DOMAIN cases |-> c])
    IN  FoldLeft(LAMBDA acc, d : Append(acc, d.case), <<>>, Sorted(labelled, CaseOrder))
block_switch_finalize_printing(g, Label(_)) ==
    [g EXCEPT !.nodes = FoldLeft(LAMBDA acc, n :
                            Append(acc, IF n.kind = "switch" THEN [n EXCEPT !.cases = CasesOrdered(n.cases, Label)] ELSE n),
                            <<>>, @)]

-----------------------------------------------------------------------------
\* block_scope_break: a goto to the block after the loop or switch is a break

Breaks(g, n, exit) ==
    IF Node(g, Node(g, n).goto).index = exit THEN [g EXCEPT !.nodes[n].gototype = "break"] ELSE g
CaseBreaks(g, n, exit) ==
    [g EXCEPT !.nodes[n].cases = FoldLeft(LAMBDA acc, c :
        Append(acc, IF c.goto /\ Node(g, c.block).index = exit THEN [c EXCEPT !.gototype = "break"] ELSE c), <<>>, @)]
RECURSIVE block_scope_break(_, _, _, _)
ScopeOf(g, seq, exit, loopexit) ==
    FoldLeft(LAMBDA acc, k : block_scope_break(acc, seq[k], IF k = Len(seq) THEN exit ELSE Node(g, seq[k + 1]).index, loopexit),
             g, [k \in DOMAIN seq |-> k])
block_scope_break(g, n, curexit, curloopexit) ==
    LET kids == Kids(g, n)
        Index(m) == Node(g, m).index
        Sub(h, k, exit, loopexit) == block_scope_break(h, kids[k], exit, loopexit)
        kind == Kind(g, n)
    IN  CASE kind = "copy" -> g
          [] kind = "goto" -> Breaks(Sub(g, 1, Index(Node(g, n).goto), curloopexit), n, curloopexit)
          [] kind = "ifgoto" -> Breaks(Sub(g, 1, -1, curloopexit), n, curloopexit)
          [] kind = "multigoto" -> Sub(g, 1, -1, curloopexit)
          [] kind = "condition" -> Sub(Sub(g, 1, -1, curloopexit), 2, -1, curloopexit)
          [] kind = "if" -> Sub(Sub(g, 1, -1, curloopexit), 2, curexit, curloopexit)
          [] kind = "ifelse" -> Sub(Sub(Sub(g, 1, -1, curloopexit), 2, curexit, curloopexit), 3, curexit, curloopexit)
          [] kind = "ifnoexit" ->
                Sub(Sub(Sub(g, 1, -1, curloopexit), 2, Index(kids[3]), curloopexit), 3, curexit, curloopexit)
          [] kind = "whiledo" -> Sub(Sub(g, 1, -1, curexit), 2, Index(kids[1]), curexit)
          [] kind = "dowhile" -> Sub(g, 1, -1, curexit)
          [] kind = "infloop" -> Sub(g, 1, Index(kids[1]), curexit)
          [] kind = "list" -> ScopeOf(g, kids, curexit, curloopexit)
          [] kind = "switch" ->
                CaseBreaks(FoldLeft(LAMBDA acc, c : IF c.goto THEN acc ELSE block_scope_break(acc, c.block, curexit, curexit),
                                    Sub(g, 1, -1, curexit), Node(g, n).cases),
                           n, curexit)

-----------------------------------------------------------------------------
\* the basic block the text after sub, a part of n, begins with; 0 if unknown
RECURSIVE block_next_flow_after(_, _, _)
block_next_flow_after(g, n, sub) ==
    LET kids == IF n = 0 THEN g.top ELSE Kids(g, n)
        pos == PositionIn(g, sub)
        cases == Node(g, n).cases
        case == SelectInSeq(cases, LAMBDA c : c.block = sub)
        Outside == block_next_flow_after(g, Parent(g, n), n)
    IN  IF n = 0 THEN IF pos < Len(kids) THEN FrontOf(g, kids[pos + 1]) ELSE 0
        ELSE CASE Kind(g, n) = "goto" -> FrontOf(g, Node(g, n).goto)
               [] Kind(g, n) \in {"multigoto", "condition", "dowhile"} -> 0
               [] Kind(g, n) \in {"if", "ifelse", "ifnoexit", "ifgoto"} -> IF pos = 1 THEN 0 ELSE Outside
               [] Kind(g, n) = "whiledo" -> IF pos = 1 THEN 0 ELSE FrontOf(g, n)
               [] Kind(g, n) = "infloop" -> FrontOf(g, n)
               [] Kind(g, n) = "list" -> IF pos < Len(kids) THEN FrontOf(g, kids[pos + 1]) ELSE Outside
               [] Kind(g, n) = "switch" ->
                    IF pos = 1 \/ Kind(g, sub) # "goto" \/ case = 0 THEN 0
                    ELSE IF case < Len(cases) THEN FrontOf(g, cases[case + 1].block) ELSE Outside
MutGotoPrints(g, n) == FrontOf(g, Node(g, n).goto) # block_next_flow_after(g, Parent(g, n), n) /\ Parent(g, n) # 0
block_goto_prints(g, n) == FrontOf(g, Node(g, n).goto) # block_next_flow_after(g, Parent(g, n), n)

block_mark_unstructured(g) ==
    LET Printed(n) == Kind(g, n) = "ifgoto" \/ (Kind(g, n) = "goto" /\ block_goto_prints(g, n))
        gotos == {Node(g, n).goto : n \in {n \in DOMAIN g.nodes : Printed(n) /\ Node(g, n).gototype = "goto"}}
        cases == UNION {Range(Node(g, n).cases) : n \in DOMAIN g.nodes}
        targets == {FrontOf(g, t) : t \in gotos \cup {c.block : c \in {c \in cases : c.goto /\ c.gototype = "goto"}}}
    IN  FoldLeft(LAMBDA acc, n : IF n \in targets THEN SetFlags(acc, n, {"target"}) ELSE acc, g, [n \in DOMAIN g.nodes |-> n])

\* the label of n is printed by the block around n
RECURSIVE Bumped(_, _)
Bumped(g, n) ==
    /\ Parent(g, n) # 0
    /\ PositionIn(g, n) = 1 /\ (Kind(g, Parent(g, n)) \in Loops \/ Bumped(g, Parent(g, n)))
block_mark_label_bump_up(g) ==
    FoldLeft(LAMBDA acc, n : IF Bumped(g, n) THEN SetFlags(acc, n, {"bump"}) ELSE acc, g, [n \in DOMAIN g.nodes |-> n])

Numbered(descending, unlabelled, i) == IF i = unlabelled THEN 0 ELSE IF descending THEN 4 - i ELSE i
Ordered(g, returns, descending, unlabelled) ==
    block_switch_finalize_printing(block_order_blocks(g, returns), LAMBDA i : Numbered(descending, unlabelled, i))
Finalized(g) == block_mark_label_bump_up(block_mark_unstructured(ScopeOf(g, g.top, -1, -1)))
FinalStructure ==
    /\ pc = "complemented"
    /\ \E returns \in SUBSET {b \in DOMAIN s.flow : s.flow[b] = <<>>},
          unlabelled \in {0} \cup Range(s.default), descending \in (IF Len(s.flow) = 0 THEN {FALSE} ELSE BOOLEAN) :
          /\ descending => \E n \in DOMAIN s.nodes : Kind(s, n) = "switch"
          /\ s' = Finalized(Ordered(s, returns, descending, unlabelled))
    /\ pc' = "final" /\ UNCHANGED <<sel, index, change, target>>

PrintingNext == CollapseNext \/ PreferComplement \/ FinalStructure

-----------------------------------------------------------------------------
\* what the text means: where slot i of n leads, -1 for a label that is missing,
\* doubled or inside a condition, 0 for the end of the function

Heads(g, leaf) == {leaf} \cup {n \in DOMAIN g.nodes : Kind(g, n) \in Loops /\ FrontOf(g, n) = leaf}
RECURSIVE Inside(_, _)
Inside(g, n) ==
    /\ Parent(g, n) # 0
    /\ (Kind(g, Parent(g, n)) = "condition" /\ PositionIn(g, n) = 2) \/ Inside(g, Parent(g, n))
Label(g, leaf) ==
    IF /\ Flag(g, leaf, "target") /\ ~Inside(g, leaf)
       /\ Cardinality({n \in Heads(g, leaf) : ~Flag(g, n, "bump")}) = 1
    THEN leaf ELSE -1

RECURSIVE Shown(_, _, _)
RECURSIVE AfterLoop(_, _)
AfterLoop(g, n) ==
    IF n = 0 THEN -1 ELSE IF Kind(g, n) \in Loops \cup {"switch"} THEN Shown(g, n, 1) ELSE AfterLoop(g, Parent(g, n))
GotoShown(g, n, t, type) == IF type = "break" THEN AfterLoop(g, n) ELSE Label(g, FrontOf(g, t))
CaseShown(g, n, c) == IF c.goto THEN GotoShown(g, n, c.block, c.gototype) ELSE FrontOf(g, c.block)
Shown(g, n, i) ==
    LET p == Parent(g, n)
        pos == PositionIn(g, n)
        kids == Kids(g, p)
        or == Node(g, p).opc # "BOOL_AND"
        cases == Node(g, p).cases
        case == SelectInSeq(cases, LAMBDA c : ~c.goto /\ c.block = n)
    IN  IF p = 0 THEN IF pos < Len(g.top) THEN FrontOf(g, g.top[pos + 1]) ELSE 0
        ELSE CASE Kind(g, p) = "list" -> IF pos < Len(kids) THEN FrontOf(g, kids[pos + 1]) ELSE Shown(g, p, i)
               [] Kind(g, p) = "condition" ->
                    IF pos = 2 \/ (i = 2) = or THEN Shown(g, p, i) ELSE FrontOf(g, kids[2])
               [] Kind(g, p) = "if" -> IF pos = 1 /\ i = 2 THEN FrontOf(g, kids[2]) ELSE Shown(g, p, 1)
               [] Kind(g, p) = "ifelse" -> IF pos = 1 THEN FrontOf(g, kids[IF i = 2 THEN 2 ELSE 3]) ELSE Shown(g, p, 1)
               [] Kind(g, p) = "ifnoexit" ->
                    IF pos = 3 THEN Shown(g, p, 1) ELSE FrontOf(g, kids[IF pos = 1 /\ i = 2 THEN 2 ELSE 3])
               [] Kind(g, p) = "whiledo" ->
                    IF pos = 2 THEN FrontOf(g, p)
                    ELSE IF (i = 2) = ("overflow" \notin Node(g, p).flags) THEN FrontOf(g, kids[2]) ELSE Shown(g, p, 1)
               [] Kind(g, p) = "dowhile" -> IF i = 2 THEN FrontOf(g, p) ELSE Shown(g, p, 1)
               [] Kind(g, p) = "infloop" -> FrontOf(g, p)
               [] Kind(g, p) = "multigoto" -> Shown(g, p, i)
               [] Kind(g, p) = "goto" ->
                    IF block_goto_prints(g, p) THEN GotoShown(g, p, Node(g, p).goto, Node(g, p).gototype) ELSE Shown(g, p, 1)
               [] Kind(g, p) = "ifgoto" ->
                    IF i = 2 THEN GotoShown(g, p, Node(g, p).goto, Node(g, p).gototype) ELSE Shown(g, p, 1)
               [] Kind(g, p) = "switch" ->
                    IF case = 0 \/ case = Len(cases) \/ cases[case].exit THEN Shown(g, p, 1)
                    ELSE CaseShown(g, p, cases[case + 1])

RECURSIVE JumpShown(_, _, _, _)
JumpShown(g, n, leaf, i) ==
    LET p == Parent(g, n)
        t == g.flow[leaf][i]
        cases == Node(g, p).cases
        hasdefault == \E c \in Range(cases) : c.outindex = g.default[leaf]
    IN  CASE p = 0 -> FALSE
          [] Kind(g, p) = "multigoto" -> JumpShown(g, p, leaf, i)
          [] Kind(g, p) = "switch" ->
                \/ \E c \in Range(cases) : c.outindex = i /\ CaseShown(g, p, c) = t
                \/ (i = g.default[leaf] \/ ~hasdefault) /\ t = Shown(g, p, 1)
          [] OTHER -> FALSE

LeafShown(g, b) ==
    IF IsSwitchOut(g, b) THEN \A i \in DOMAIN g.flow[b] : JumpShown(g, b, b, i)
    ELSE \A i \in DOMAIN g.flow[b] :
            g.flow[b][i] = Shown(g, b, IF Len(g.flow[b]) = 2 /\ Node(g, b).flip THEN 3 - i ELSE i)

\* The text that is printed leads from each basic block, for either outcome of
\* its condition and every value of its jump, to the same basic block as the
\* control-flow graph does: no goto that is left out because its target seems
\* to follow (block_goto_prints), that is called a break because the numbers of
\* two blocks agree (block_scope_break) or whose label a loop was to print
\* (block_mark_label_bump_up), leads elsewhere, whichever clauses changed places
\* and in whatever order the cases and the last blocks come.
PrintedFlowKept == pc = "final" => \A b \in Leaves(s) : LeafShown(s, b)
=============================================================================
