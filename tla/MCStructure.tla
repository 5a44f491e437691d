---------------------------- MODULE MCStructure ----------------------------
(***************************************************************************)
(* Every graph of NumBlocks blocks, each reachable and numbered in the     *)
(* order in which block_structure_loops numbers them, whose first block is *)
(* not flowed into.  Blocks have at most two edges out, to different       *)
(* blocks, and those from Free + 1 on leave the function; or one of the    *)
(* blocks Jumpers has three, none of them to itself, ends in a jump and    *)
(* may have a default, and the blocks from FreeAround + 1 on leave it too  *)
(* (see the README for the jump of a block to itself).  The statements in  *)
(* a block are too complex for a condition either in all or in none of     *)
(* them.                                                                   *)
(***************************************************************************)
EXTENDS StructurePrinting

CONSTANTS NumBlocks, Free, FreeAround, Jumpers

Flow == INSTANCE FlowStructure WITH graph <- s, loops <- sel, dom <- pc, adt <- s, writes <- s, merge <- s

Targets == 2..NumBlocks
Pairs == {<<a, b>> \in Targets \X Targets : a # b}
Exits == {<<>>} \cup {<<t>> : t \in Targets} \cup Pairs
Triples == {<<a, b, c>> \in Targets \X Targets \X Targets : a < b /\ b < c}
\* no block is left out: each but the first has an edge from a smaller one
Covered(out) == \A b \in Targets : \E a \in 1..(b - 1) : b \in Range(out[a])
\* the edges out of block b, and out of the others: those beyond those of out leave
Whole(out, b, exits) ==
    [x \in 1..NumBlocks |-> IF x = b THEN exits ELSE IF x \notin DOMAIN out THEN <<>> ELSE out[x]]
LeafNode(g, sl, b, jump, complex) ==
    LET Position(t, e) == SelectInSeq(g.in[t], LAMBDA x : x = e)
        Labels(e) == (sl.lab[e] \cap {"back", "loop", "irreducible"}) \cup (IF e = jump THEN {"default"} ELSE {})
    IN  [NewNode("copy") EXCEPT
            !.in = FoldLeft(LAMBDA acc, e : Append(acc, Edge(e[1], e[2], Labels(e))), <<>>, g.in[b]),
            !.out = FoldLeft(LAMBDA acc, i : Append(acc, Edge(g.out[b][i], Position(g.out[b][i], <<b, i>>), Labels(<<b, i>>))),
                             <<>>, [i \in DOMAIN g.out[b] |-> i]),
            !.index = b - 1, !.leaves = 1,
            !.flags = (IF complex THEN {"complex"} ELSE {}) \cup (IF Len(g.out[b]) > 2 THEN {"switch"} ELSE {})]

InitGraph(g, sl, jump, complex) ==
    /\ sl.order = [b \in 1..NumBlocks |-> b]
    /\ s = [nodes |-> FoldLeft(LAMBDA acc, b : Append(acc, LeafNode(g, sl, b, jump, complex)), <<>>, [b \in 1..NumBlocks |-> b]),
            top |-> [b \in 1..NumBlocks |-> b], flow |-> g.out,
            default |-> [b \in 1..NumBlocks |-> IF b = jump[1] THEN jump[2] ELSE 0], err |-> ""]

Defaults(out) == {<<b, i>> \in (1..NumBlocks) \X (1..3) : Len(out[b]) = 3}
InitFlow(out) ==
    \E g \in {Flow!Graph(out)} : \E sl \in {Flow!block_structure_loops(g)} :
    \E complex \in BOOLEAN, jump \in {<<0, 0>>} \cup Defaults(out) : InitGraph(g, sl, jump, complex)
InitBranches ==
    \E out \in [1..Free -> Exits] : Covered(Whole(out, 0, <<>>)) /\ InitFlow(Whole(out, 0, <<>>))
InitJump ==
    \E out \in [1..FreeAround -> Exits] : \E b \in Jumpers, exits \in Triples :
        /\ b \in 1..FreeAround => out[b] = <<>>
        /\ b \notin Range(exits)
        /\ Covered(Whole(out, b, exits))
        /\ InitFlow(Whole(out, b, exits))
Init ==
    /\ InitBranches \/ InitJump
    /\ sel = [loops |-> <<>>, order |-> <<>>, turn |-> 1, likely |-> <<>>, next |-> 1, full |-> FALSE, final |-> FALSE,
              panic |-> FALSE]
    /\ pc = "order" /\ index = 1 /\ change = FALSE /\ target = 0
\* the text is written once and for all
Complete == pc = "final" /\ UNCHANGED collapseVars
StructureNext == PrintingNext \/ Complete
\* The rounds follow one another until the text is written: weak fairness of
\* PrintingNext, which is enabled until then (deadlock is checked) and always
\* changes the state (pc, index, change or target).
KeepsGoing == []<><<TRUE>>_collapseVars \/ <>[](pc = "final")
Spec == Init /\ [][StructureNext]_collapseVars /\ KeepsGoing

\* Structuring a function always ends: each round recognises a statement or
\* gives up an edge (collapse_all, blockaction.rs:1976), and the text is then
\* put in order.
Printed == <>(pc = "final")
=============================================================================
