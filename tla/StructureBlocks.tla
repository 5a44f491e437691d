-------------------------- MODULE StructureBlocks ---------------------------
(***************************************************************************)
(* The edges between blocks (block.rs).  A block is a record of a sequence *)
(* of blocks, an edge is stored at both of its ends: out[i] = [to, rev,    *)
(* lab] of the source says that this edge is in[rev] of the block to, and  *)
(* in[rev] says the same the other way round.  Slots are numbered from 1.  *)
(* A block with three of these fields may have others.                     *)
(***************************************************************************)
EXTENDS Integers, Sequences, FiniteSets, SequencesExt

Edge(to, rev, lab) == [to |-> to, rev |-> rev, lab |-> lab]
In(bs, b) == bs[b].in
Out(bs, b) == bs[b].out
SizeIn(bs, b) == Len(bs[b].in)
SizeOut(bs, b) == Len(bs[b].out)
InTo(bs, b, i) == bs[b].in[i].to
OutTo(bs, b, i) == bs[b].out[i].to
OutIndex(bs, b, to) == SelectInSeq(bs[b].out, LAMBDA e : e.to = to)
InIndex(bs, b, to) == SelectInSeq(bs[b].in, LAMBDA e : e.to = to)

block_add_in_edge(bs, b, source, lab) ==
    LET ins == [bs EXCEPT ![b].in = Append(@, Edge(source, SizeOut(bs, source) + 1, lab))]
    IN  [ins EXCEPT ![source].out = Append(@, Edge(b, SizeIn(bs, b) + 1, lab))]

\* one end of the edge goes, and the other ends of the edges behind it are told
block_half_delete_in_edge(bs, b, slot) ==
    LET told == FoldLeft(LAMBDA acc, e : [acc EXCEPT ![e.to].out[e.rev].rev = @ - 1],
                         bs, SubSeq(bs[b].in, slot + 1, SizeIn(bs, b)))
    IN  [told EXCEPT ![b].in = RemoveAt(@, slot)]
block_half_delete_out_edge(bs, b, slot) ==
    LET told == FoldLeft(LAMBDA acc, e : [acc EXCEPT ![e.to].in[e.rev].rev = @ - 1],
                         bs, SubSeq(bs[b].out, slot + 1, SizeOut(bs, b)))
    IN  [told EXCEPT ![b].out = RemoveAt(@, slot)]

block_remove_in_edge(bs, b, slot) ==
    block_half_delete_out_edge(block_half_delete_in_edge(bs, b, slot), bs[b].in[slot].to, bs[b].in[slot].rev)
block_remove_out_edge(bs, b, slot) ==
    block_half_delete_in_edge(block_half_delete_out_edge(bs, b, slot), bs[b].out[slot].to, bs[b].out[slot].rev)

\* the edge in[slot] of b comes from source instead, as its last out edge
Sourced(bs, b, slot, source) ==
    LET rev == SizeOut(bs, source) + 1
        set == [bs EXCEPT ![b].in[slot] = Edge(source, rev, @.lab)]
    IN  [set EXCEPT ![source].out = Append(@, Edge(b, slot, bs[b].in[slot].lab))]
block_replace_in_edge(bs, b, slot, source) ==
    Sourced(block_half_delete_out_edge(bs, bs[b].in[slot].to, bs[b].in[slot].rev), b, slot, source)

Directed(bs, b, slot, dest) ==
    LET rev == SizeIn(bs, dest) + 1
        set == [bs EXCEPT ![b].out[slot] = Edge(dest, rev, @.lab)]
    IN  [set EXCEPT ![dest].in = Append(@, Edge(b, slot, bs[b].out[slot].lab))]
block_replace_out_edge(bs, b, slot, dest) ==
    Directed(block_half_delete_in_edge(bs, bs[b].out[slot].to, bs[b].out[slot].rev), b, slot, dest)

\* what comes in at i goes straight to where out edge o leads
block_replace_edges_thru(bs, b, i, o) ==
    LET ine == bs[b].in[i]
        oute == bs[b].out[o]
        set == [bs EXCEPT ![ine.to].out[ine.rev].to = oute.to, ![ine.to].out[ine.rev].rev = oute.rev]
        both == [set EXCEPT ![oute.to].in[oute.rev].to = ine.to, ![oute.to].in[oute.rev].rev = ine.rev]
    IN  block_half_delete_out_edge(block_half_delete_in_edge(both, b, i), b, o)

block_swap_edges(bs, b) ==
    LET swapped == [bs EXCEPT ![b].out = <<@[2], @[1]>>]
        first == [swapped EXCEPT ![swapped[b].out[1].to].in[swapped[b].out[1].rev].rev = 1]
    IN  [first EXCEPT ![first[b].out[2].to].in[first[b].out[2].rev].rev = 2]

block_set_out_edge_flag(bs, b, slot, lab) ==
    LET e == bs[b].out[slot]
    IN  [[bs EXCEPT ![b].out[slot].lab = @ \cup {lab}] EXCEPT ![e.to].in[e.rev].lab = @ \cup {lab}]
block_clear_out_edge_flag(bs, b, slot, lab) ==
    LET e == bs[b].out[slot]
    IN  [[bs EXCEPT ![b].out[slot].lab = @ \ {lab}] EXCEPT ![e.to].in[e.rev].lab = @ \ {lab}]

\* Of several edges from dup to b (b to dup) only the first is left, with the
\* labels of all at this end.
RECURSIVE EliminateIn(_, _, _, _)
EliminateIn(bs, b, dup, first) ==
    LET more == {i \in (first + 1)..SizeIn(bs, b) : InTo(bs, b, i) = dup}
        i == CHOOSE x \in more : \A y \in more : x <= y
        joined == [bs EXCEPT ![b].in[first].lab = @ \cup bs[b].in[i].lab]
    IN  IF more = {} THEN bs
        ELSE EliminateIn(block_half_delete_out_edge(block_half_delete_in_edge(joined, b, i), dup, bs[b].in[i].rev),
                         b, dup, first)
RECURSIVE EliminateOut(_, _, _, _)
EliminateOut(bs, b, dup, first) ==
    LET more == {i \in (first + 1)..SizeOut(bs, b) : OutTo(bs, b, i) = dup}
        i == CHOOSE x \in more : \A y \in more : x <= y
        joined == [bs EXCEPT ![b].out[first].lab = @ \cup bs[b].out[i].lab]
    IN  IF more = {} THEN bs
        ELSE EliminateOut(block_half_delete_in_edge(block_half_delete_out_edge(joined, b, i), dup, bs[b].out[i].rev),
                          b, dup, first)
block_eliminate_in_dups(bs, b, dup) == EliminateIn(bs, b, dup, InIndex(bs, b, dup))
block_eliminate_out_dups(bs, b, dup) == EliminateOut(bs, b, dup, OutIndex(bs, b, dup))

\* the blocks at the other end of several of these edges, in the order in
\* which their second edge is met
Repeated(edges, i) == Cardinality({j \in 1..(i - 1) : edges[j].to = edges[i].to}) = 1
block_find_dups(edges) ==
    FoldLeft(LAMBDA acc, i : IF Repeated(edges, i) THEN Append(acc, edges[i].to) ELSE acc,
             <<>>, [i \in DOMAIN edges |-> i])
DedupIn(bs, b) == FoldLeft(LAMBDA acc, dup : block_eliminate_in_dups(acc, b, dup), bs, block_find_dups(bs[b].in))
DedupOut(bs, b) == FoldLeft(LAMBDA acc, dup : block_eliminate_out_dups(acc, b, dup), bs, block_find_dups(bs[b].out))
block_dedup(bs, b) == DedupOut(DedupIn(bs, b), b)

block_remove_edge(bs, begin, end) == block_remove_in_edge(bs, end, InIndex(bs, end, begin))
block_switch_edge(bs, b, before, after) ==
    FoldLeft(LAMBDA acc, i : IF OutTo(acc, b, i) = before THEN block_replace_out_edge(acc, b, i, after) ELSE acc,
             bs, [i \in DOMAIN bs[b].out |-> i])
block_move_out_edge(bs, old, slot, new) ==
    block_replace_in_edge(bs, OutTo(bs, old, slot), bs[old].out[slot].rev, new)

\* block_check_edges for every block: both ends of an edge describe it alike
EndsAgree(bs) ==
    \A b \in DOMAIN bs :
        /\ \A i \in DOMAIN bs[b].in :
              LET e == bs[b].in[i]
              IN  /\ e.to \in DOMAIN bs /\ e.rev \in DOMAIN bs[e.to].out
                  /\ bs[e.to].out[e.rev].to = b /\ bs[e.to].out[e.rev].rev = i
        /\ \A i \in DOMAIN bs[b].out :
              LET e == bs[b].out[i]
              IN  /\ e.to \in DOMAIN bs /\ e.rev \in DOMAIN bs[e.to].in
                  /\ bs[e.to].in[e.rev].to = b /\ bs[e.to].in[e.rev].rev = i
-----------------------------------------------------------------------------
(***************************************************************************)
(* The tree of blocks that block structuring builds (block.rs).  s.nodes   *)
(* is a sequence of blocks: the first ones are copies of the basic blocks, *)
(* the others stand for a statement made of blocks that were at the top    *)
(* level before (list).  s.top is the list of the blocks at the top level, *)
(* parent 0.  Edges between blocks below the top level are left as they    *)
(* were.  flip says that the condition at the end of a basic block was     *)
(* negated.  err is the message of the error that stopped the structuring. *)
(***************************************************************************)

Nodes(s) == s.nodes
Node(s, n) == s.nodes[n]
Kind(s, n) == s.nodes[n].kind
Parent(s, n) == s.nodes[n].parent
Kids(s, n) == s.nodes[n].list
OutCount(s, n) == SizeOut(s.nodes, n)
InCount(s, n) == SizeIn(s.nodes, n)
OutOf(s, n, i) == OutTo(s.nodes, n, i)
InOf(s, n, i) == InTo(s.nodes, n, i)
OutLab(s, n, i) == s.nodes[n].out[i].lab
InLab(s, n, i) == s.nodes[n].in[i].lab
Flag(s, n, f) == f \in s.nodes[n].flags
LastNode(s) == Len(s.nodes)
Fail(s, message) == [s EXCEPT !.err = message]

is_goto_in(s, n, i) == InLab(s, n, i) \cap {"irreducible", "goto"} # {}
is_goto_out(s, n, i) == OutLab(s, n, i) \cap {"irreducible", "goto"} # {}
is_decision_out(s, n, i) == OutLab(s, n, i) \cap {"irreducible", "back", "goto"} = {}
is_loop_dag_out(s, n, i) == OutLab(s, n, i) \cap {"irreducible", "back", "exit", "goto"} = {}
is_loop_dag_in(s, n, i) == InLab(s, n, i) \cap {"irreducible", "back", "exit", "goto"} = {}

NewNode(kind) ==
    [kind |-> kind, in |-> <<>>, out |-> <<>>, parent |-> 0, list |-> <<>>, index |-> 0, flags |-> {},
     goto |-> 0, gototype |-> "goto", opc |-> "none", gotos |-> <<>>, defgoto |-> FALSE, cases |-> <<>>,
     depth |-> 0, leaves |-> 0, flip |-> FALSE]

RECURSIVE block_get_front_leaf(_, _)
block_get_front_leaf(s, n) == IF Kind(s, n) = "copy" THEN n ELSE block_get_front_leaf(s, Kids(s, n)[1])

RECURSIVE block_get_exit_leaf(_, _)
block_get_exit_leaf(s, n) ==
    CASE Kind(s, n) = "copy" -> n
      [] Kind(s, n) \in {"goto", "multigoto", "ifgoto"} -> block_get_exit_leaf(s, Kids(s, n)[1])
      [] Kind(s, n) = "list" -> block_get_exit_leaf(s, Last(Kids(s, n)))
      [] OTHER -> 0

RECURSIVE block_is_complex(_, _)
block_is_complex(s, n) ==
    CASE Kind(s, n) = "copy" -> Flag(s, n, "complex")
      [] Kind(s, n) = "condition" -> block_is_complex(s, Kids(s, n)[1])
      [] OTHER -> TRUE

-----------------------------------------------------------------------------
\* making a block out of others

block_add_block(s, parent, n) ==
    [s EXCEPT !.nodes[n].parent = parent,
              !.nodes[parent].index = IF Kids(s, parent) = <<>> THEN Node(s, n).index
                                      ELSE IF Node(s, n).index < @ THEN Node(s, n).index ELSE @,
              !.nodes[parent].list = Append(@, n),
              !.nodes[parent].leaves = @ + Node(s, n).leaves,
              !.nodes[parent].depth = IF Node(s, n).depth + 1 > @ THEN Node(s, n).depth + 1 ELSE @]
\* the same for the graph itself, of which only the list matters
AddToTop(s, n) == [s EXCEPT !.nodes[n].parent = 0, !.top = Append(@, n)]

\* the edges of member that cross the border of graph become edges of graph
RedirectIn(s, graph, other, member) ==
    [s EXCEPT !.nodes = FoldLeft(LAMBDA acc, i : IF OutTo(acc, other, i) = member
                                                 THEN block_replace_out_edge(acc, other, i, graph) ELSE acc,
                                 @, [i \in DOMAIN Node(s, other).out |-> i])]
RedirectOut(s, graph, other, member) ==
    [s EXCEPT !.nodes = FoldLeft(LAMBDA acc, i : IF InTo(acc, other, i) = member
                                                 THEN block_replace_in_edge(acc, other, i, graph) ELSE acc,
                                 @, [i \in DOMAIN Node(s, other).in |-> i]),
              !.nodes[graph].flags = @ \cup (Node(s, member).flags \cap {"switch"})]
RECURSIVE CrossIn(_, _, _)
CrossIn(s, graph, member) ==
    LET i == SelectInSeq(Node(s, member).in, LAMBDA e : Parent(s, e.to) # graph)
    IN  IF i = 0 THEN s ELSE CrossIn(RedirectIn(s, graph, InOf(s, member, i), member), graph, member)
RECURSIVE CrossOut(_, _, _)
CrossOut(s, graph, member) ==
    LET i == SelectInSeq(Node(s, member).out, LAMBDA e : Parent(s, e.to) # graph)
    IN  IF i = 0 THEN s ELSE CrossOut(RedirectOut(s, graph, OutOf(s, member, i), member), graph, member)
Deduped(s, graph) == [s EXCEPT !.nodes = block_dedup(@, graph)]
block_self_identify(s, graph) ==
    Deduped(FoldLeft(LAMBDA acc, member : CrossOut(CrossIn(acc, graph, member), graph, member), s, Kids(s, graph)), graph)

Adopt(s, ident, n) ==
    [block_add_block(s, ident, n) EXCEPT
        !.nodes[ident].flags = @ \cup (Node(s, n).flags \cap {"gotoout", "gotoin"})]
block_identify_internal(s, ident, members) ==
    block_self_identify([FoldLeft(LAMBDA acc, n : Adopt(acc, ident, n), s, members) EXCEPT
                            !.top = SelectSeq(@, LAMBDA n : n \notin Range(members))], ident)

RECURSIVE block_force_output_num(_, _, _)
block_force_output_num(s, n, num) ==
    IF OutCount(s, n) >= num THEN s
    ELSE block_force_output_num([s EXCEPT !.nodes = block_add_in_edge(@, n, n, {"loop", "back"})], n, num)

\* the first of the two edges out of n leads where out0 says
ForcedFalse(s, n, out) ==
    IF OutOf(s, n, 1) = out THEN s
    ELSE IF OutOf(s, n, 2) = out THEN [s EXCEPT !.nodes = block_swap_edges(@, n)]
    ELSE Fail(s, "Unable to preserve condition")
block_force_false_edge(s, n, out0) ==
    IF OutCount(s, n) # 2 THEN Fail(s, "Can only preserve binary condition")
    ELSE ForcedFalse(s, n, IF Parent(s, out0) = n THEN n ELSE out0)

RemoveEdge(s, a, b) == [s EXCEPT !.nodes = block_remove_edge(@, a, b)]

\* the new block, identified with members, at the top level
Made(s, node, members) == block_identify_internal([s EXCEPT !.nodes = Append(@, node)], LastNode(s) + 1, members)
Placed(s, node, members) == AddToTop(Made(s, node, members), LastNode(s) + 1)
block_new_structure(s, kind, members, outputs) ==
    block_force_output_num(Placed(s, NewNode(kind), members), LastNode(s) + 1, outputs)

WithoutFirstOut(s, n) == RemoveEdge(s, n, OutOf(s, n, 1))
block_new_block_goto(s, b) ==
    WithoutFirstOut(block_force_output_num(Placed(s, [NewNode("goto") EXCEPT !.goto = OutOf(s, b, 1)], <<b>>),
                                           LastNode(s) + 1, 1), LastNode(s) + 1)

DefaultGoto(s, n, isdefault) == [s EXCEPT !.nodes[n].defgoto = @ \/ isdefault]
AddGoto(s, n, target) == [s EXCEPT !.nodes[n].gotos = Append(@, target)]
Grown(s, n, size) == IF OutCount(s, n) # size THEN block_force_output_num(s, n, OutCount(s, n) + 1) ELSE s
block_new_block_multi_goto(s, b, edge) ==
    LET target == OutOf(s, b, edge)
        isdefault == "default" \in OutLab(s, b, edge)
        new == LastNode(s) + 1
        made == AddGoto(Placed(s, NewNode("multigoto"), <<b>>), new, target)
    IN  IF Kind(s, b) = "multigoto"
        THEN DefaultGoto(RemoveEdge(AddGoto(s, b, target), b, target), b, isdefault)
        ELSE DefaultGoto(IF target = b THEN made ELSE RemoveEdge(Grown(made, new, OutCount(s, b)), new, target),
                         new, isdefault)

ListEnd(s, n, two, out0) ==
    IF OutCount(s, n) # 2 THEN s
    ELSE IF two THEN block_force_false_edge(s, n, out0) ELSE Fail(s, "Unable to preserve condition")
block_new_block_list(s, members) ==
    LET outs == OutCount(s, Last(members))
    IN  ListEnd(block_new_structure(s, "list", members, outs), LastNode(s) + 1, outs = 2,
                IF outs = 2 THEN OutOf(s, Last(members), 1) ELSE 0)

block_new_block_condition(s, b1, b2) ==
    block_force_false_edge(
        block_force_output_num(
            Placed(s, [NewNode("condition") EXCEPT !.opc = IF OutOf(s, b1, 1) = b2 THEN "INT_OR" ELSE "INT_AND"], <<b1, b2>>),
            LastNode(s) + 1, 2),
        LastNode(s) + 1, OutOf(s, b2, 1))

WithoutTrueOut(s, n) == IF s.err # "" THEN s ELSE RemoveEdge(s, n, OutOf(s, n, 2))
block_new_block_if_goto(s, cond) ==
    IF ~is_goto_out(s, cond, 2) THEN Fail(s, "Building ifgoto where true branch is not the goto")
    ELSE WithoutTrueOut(
            block_force_false_edge(
                block_force_output_num(Placed(s, [NewNode("ifgoto") EXCEPT !.goto = OutOf(s, cond, 2)], <<cond>>),
                                       LastNode(s) + 1, 2),
                LastNode(s) + 1, OutOf(s, cond, 1)),
            LastNode(s) + 1)

\* block_switch_add_case: the case is left open at its end (isexit) when its
\* block has a way out.  leaf is the basic block with the jump.
Case(s, leaf, b, isgoto) ==
    [block |-> b, goto |-> isgoto, gototype |-> "goto", exit |-> ~isgoto /\ OutCount(s, b) = 1, chain |-> 0,
     outindex |-> SelectInSeq(s.flow[leaf], LAMBDA t : t = block_get_front_leaf(s, b))]
\* the case a fall-through case falls into, by the edge of the jump to it
Chain(s, leaf, cases, c) ==
    IF Kind(s, c.block) # "goto" \/ c.goto THEN 0
    ELSE LET out == SelectInSeq(s.flow[leaf], LAMBDA t : t = block_get_front_leaf(s, Node(s, c.block).goto))
         IN  IF out = 0 THEN 0 ELSE SelectInSeq(cases, LAMBDA d : d.outindex = out)
block_grab_case_basic(s, leaf, members) ==
    LET cases == FoldLeft(LAMBDA acc, b : Append(acc, Case(s, leaf, b, FALSE)), <<>>, Tail(members))
        chained == FoldLeft(LAMBDA acc, c : Append(acc, [c EXCEPT !.chain = Chain(s, leaf, cases, c)]), <<>>, cases)
    IN  FoldLeft(LAMBDA acc, b : Append(acc, Case(s, leaf, b, TRUE)), chained, Node(s, Head(members)).gotos)

SwitchMade(s, members, leaf, hasexit) ==
    LET cases == block_grab_case_basic(s, leaf, members)
    IN  IF \E c \in Range(cases) : c.outindex = 0 THEN Fail(s, "Case block has become detached from switch")
        ELSE [block_force_output_num(Placed(s, [NewNode("switch") EXCEPT !.cases = cases], members), LastNode(s) + 1,
                                     IF hasexit THEN 1 ELSE 0)
                EXCEPT !.nodes[LastNode(s) + 1].flags = @ \ {"switch"}]
block_new_block_switch(s, members, hasexit) ==
    LET leaf == block_get_exit_leaf(s, Head(members))
    IN  IF leaf = 0 THEN Fail(s, "Could not get switch leaf") ELSE SwitchMade(s, members, leaf, hasexit)

block_set_goto_branch(s, n, i) ==
    [s EXCEPT !.nodes = [block_set_out_edge_flag(@, n, i, "goto") EXCEPT
                            ![n].flags = @ \cup {"gotoout"}]]
SetGotoIn(s, n) == [s EXCEPT !.nodes[n].flags = @ \cup {"gotoin"}]
SetGoto(s, n, i) == SetGotoIn(block_set_goto_branch(s, n, i), OutOf(s, n, i))

-----------------------------------------------------------------------------
\* block_negate_condition: the condition that leaves n is negated at the basic
\* blocks it is computed in; only n itself has its edges swapped

Toggled(opc) == IF opc = "BOOL_AND" THEN "BOOL_OR" ELSE "BOOL_AND"
RECURSIVE Negate(_, _)
Negate(s, n) ==
    CASE Kind(s, n) = "copy" -> [s EXCEPT !.nodes[n].flip = ~@]
      [] Kind(s, n) = "list" -> Negate(s, Last(Kids(s, n)))
      [] Kind(s, n) = "condition" ->
            [Negate(Negate(s, Kids(s, n)[1]), Kids(s, n)[2]) EXCEPT !.nodes[n].opc = Toggled(@)]
      [] OTHER -> s
block_negate_condition(s, n) == [Negate(s, n) EXCEPT !.nodes = block_swap_edges(@, n)]
=============================================================================
