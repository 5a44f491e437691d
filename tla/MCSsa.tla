------------------------------- MODULE MCSsa -------------------------------
(***************************************************************************)
(* Part "loops" takes every graph of four blocks with at most two edges    *)
(* out of a block, in order, and of three in any order, whose first block, *)
(* as FlowInfo sees to, is not flowed into: loops with several entries,    *)
(* unreachable blocks and loops, repeated edges and blocks that nothing    *)
(* leaves are all among them.  Part "merges" asks two questions of every   *)
(* graph of N blocks, reachable from the entry and named in reverse        *)
(* post-order, the first with one or two blocks that write.  Part "ranges" *)
(* adds, finds and erases ranges in two passes.  Part                      *)
(* "heritage" has functions of three accesses and a RETURN: in one block,  *)
(* with the second on one side of a branch, and with the second in the     *)
(* body of a loop.  The accesses overlap in part, and the last may span    *)
(* the others and be cut up.  A call kills everything, changes what it     *)
(* may, or spares the low bytes, and it may have a parameter and return a  *)
(* value.                                                                  *)
(***************************************************************************)
EXTENDS Heritage, LocationMap

CONSTANTS Parts, N, MaxRound
VARIABLE part

InFlow(g) ==
    /\ ReachFrom(g, Edges(g), {1}) = 1..N
    /\ \E d \in {block_find_spanning_tree(g)} : \A i \in 1..N : d.index[i] = i
Outs(targets) == {<<>>} \cup {<<t>> : t \in targets} \cup (targets \X targets)
OutsInOrder(targets) == {o \in Outs(targets) : \A i, j \in DOMAIN o : i < j => o[i] <= o[j]}
OutsApart(targets) == {o \in Outs(targets) : \A i, j \in DOMAIN o : i < j => o[i] < o[j]}

Ask ==
    \E write \in {<<b>> : b \in 2..N} \cup {w \in (2..N) \X (2..N) : w[1] > w[2]} :
        /\ merge.asked => writes = <<2>> /\ write = <<N>>
        /\ calc_multiequals(write)

-----------------------------------------------------------------------------
Shapes == {<<<<>>>>, <<<<2, 3>>, <<4>>, <<4>>, <<>>>>, <<<<2>>, <<3, 4>>, <<2>>, <<>>>>}
BlockFor(n, i) == IF n = 1 THEN 1 ELSE CASE i = 1 -> 1 [] i = 2 -> 3 [] OTHER -> 4

None0 == [off |-> 0, size |-> 0]
Access(code, off, size) == [code |-> code, off |-> off, size |-> size]
Call(eff, par, ret, auto) ==
    [code |-> "CALL", off |-> 0, size |-> 0, eff |-> eff, par |-> par, ret |-> ret, auto |-> auto]

Begun(f, o) ==
    LET s == f.src[o]
    IN  CASE s.code = "READ" -> AddInput(new_varnode(f, s.off, s.size), o, LastVn(f) + 1, s.off, s.size)
          [] s.code = "WRITE" -> new_varnode_out(f, s.off, s.size, o)
          [] OTHER -> f
Program(n, list, big, persist, ret) ==
    LET src == Append(list, [code |-> "RETURN", off |-> 0, size |-> 0])
        none == [vn |-> <<>>, ops |-> FoldLeft(LAMBDA acc, s : Append(acc, Op(s.code, <<>>, 0)), <<>>, src), src |-> src,
                 blk |-> [b \in 1..n |-> SelectSeq(<<1, 2, 3, 4>>, LAMBDA o : BlockFor(n, o) = b)],
                 reads |-> [o \in DOMAIN src |-> <<>>], big |-> big, persist |-> persist, ret |-> ret, err |-> FALSE,
                 trials |-> [o \in DOMAIN src |-> {}], outs |-> [o \in DOMAIN src |-> {}]]
    IN  FoldLeft(Begun, none, <<1, 2, 3>>)

\* Programs that no later pass may revisit, because heritage gets them wrong
\* (see the README): with a call whose return value is part of a range, with a
\* range that remove13_refinement may round, or with one that is cut up where
\* markers of a part of it may be left.
Settled(n, list) ==
    \E i \in DOMAIN list :
        \/ list[i].code = "CALL" /\ list[i].ret.size = 1
        \/ list[i].size = 6
        \/ list[i].size = 5 /\ (n > 1 \/ \E j \in DOMAIN list : list[j].code \in {"CALL", "STORE"})
Revisited(list) == \E i \in DOMAIN list : list[i].code \in {"LOAD", "STORE"}

All(k) == [a \in Addresses |-> k]
Returned == [off |-> 1, size |-> 1]
Calls == {Call(All("killed"), None0, Returned, TRUE), Call(All("unknown"), None0, Returned, TRUE),
          Call(All("unknown"), None0, Returned, FALSE), Call(All("unknown"), [off |-> 0, size |-> 2], None0, FALSE),
          Call([a \in Addresses |-> IF a < 2 THEN "unaffected" ELSE "killed"], [off |-> 2, size |-> 4], None0, FALSE)}
Accesses(codes, ranges) == {Access(k, r[1], r[2]) : k \in codes, r \in ranges}
First == Accesses({"WRITE", "STORE"}, {<<0, 2>>, <<0, 6>>})
Second == Accesses({"WRITE", "STORE", "READ"}, {<<1, 2>>, <<2, 2>>, <<0, 4>>}) \cup Calls
Third == Accesses({"READ", "LOAD"}, {<<0, 2>>, <<1, 2>>, <<0, 4>>, <<0, 5>>, <<0, 6>>})

-----------------------------------------------------------------------------
NoQuestion == adt = Pending /\ merge = [asked |-> FALSE, blocks |-> <<>>] /\ writes = <<>>
NoFunction == func = <<>> /\ cover = {} /\ pass = 0 /\ info = NoInfo /\ prog = <<>>

LoopsInit ==
    /\ loops = Pending /\ dom = Pending
    /\ \/ \E out \in [1..4 -> OutsInOrder(2..4)] : graph = Graph(out)
       \/ \E out \in [1..3 -> Outs(2..3)] : graph = Graph(out)
MergesInit ==
    /\ loops = Pending /\ dom = Pending
    /\ \E out \in [1..N -> OutsApart(2..N)] :
          /\ 2..N \subseteq UNION {Range(out[b]) : b \in 1..N}
          /\ \E g \in {Graph(out)} : InFlow(g) /\ graph = g
HeritageInit ==
    /\ \E out \in Shapes : graph = Graph(out)
    /\ loops = block_structure_loops(graph)
    /\ dom = block_calc_forward_dominator(graph, loops)
    /\ \E a \in First, b \in Second, c \in Third, big, p \in BOOLEAN :
          /\ Len(graph.out) > 1 => big = (graph.out[1] = <<2>>) /\ p = big
          /\ ~(Settled(Len(graph.out), <<a, b, c>>) /\ Revisited(<<a, b, c>>))
          /\ prog = Program(Len(graph.out), <<a, b, c>>, big, p, IF p THEN [off |-> 0, size |-> 2] ELSE None0)
    /\ func = prog /\ cover = {} /\ pass = 0 /\ info = NoInfo
NoGraph == graph = <<>> /\ loops = Pending /\ dom = Pending

MCInit ==
    /\ part \in Parts
    /\ \/ part = "loops" /\ LoopsInit /\ NoQuestion /\ NoFunction /\ MapInit
       \/ part = "merges" /\ MergesInit /\ NoQuestion /\ NoFunction /\ MapInit
       \/ part = "ranges" /\ NoGraph /\ NoQuestion /\ NoFunction /\ MapInit
       \/ part = "heritage" /\ HeritageInit /\ NoQuestion /\ MapInit

questions == <<adt, writes, merge>>
heritages == <<func, cover, pass, info, prog>>
Flow == part \in {"loops", "merges"} /\ (StructureLoops \/ CalcForwardDominator)
        /\ UNCHANGED <<part, questions, heritages, mapvars>>
Merges == part = "merges" /\ (build_adt \/ Ask) /\ UNCHANGED <<part, heritages, mapvars>>
Adds == part = "ranges" /\ MapNext /\ UNCHANGED <<part, flowVars, questions, heritages>>
HeritageStep ==
    \/ pass < MaxRound /\ heritage
    \/ \E o \in DOMAIN func.src : RuleLoadVarnode(o)
    \/ \E o \in DOMAIN func.src : RuleStoreVarnode(o)
    \/ ActionDeadCode
    \/ ActionRestart
Passes == part = "heritage" /\ HeritageStep /\ UNCHANGED <<part, questions, mapvars>>

MCNext == Flow \/ Merges \/ Adds \/ Passes
MCSpec == MCInit /\ [][MCNext]_<<part, flowVars, questions, heritages, mapvars>>

-----------------------------------------------------------------------------
\* The analysis of the flow graph is the one of the definitions: numbers and
\* labels follow the flow (NumberedInFlowOrder of FlowStructure), the loops that
\* are left without the irreducible edges have one way in (LoopsHaveOneEntry),
\* which never takes a second round (StructuringEnds), immed_dom is the immediate
\* dominator (DominatorsExact), and questions about dominance are answered by the
\* paths of the graph (DominanceQueriesExact).
FlowAnalysed ==
  part = "loops" =>
    /\ NumberedInFlowOrder /\ StructuringEnds /\ LoopsHaveOneEntry
    /\ DominatorsExact /\ DominanceQueriesExact

\* MULTIEQUALs are placed exactly where values written in different blocks can
\* meet (MergesWhereValuesMeet: calc_multiequals).
MergesPlaced == part = "merges" => MergesWhereValuesMeet

\* Every linked read gets what memory held when it ran, and heritage never
\* raises one of its errors (ReadsSeeMemory and NoHeritageError of Heritage: the
\* passes of Heritage::heritage).
ReadsLinked == part = "heritage" => ReadsSeeMemory /\ NoHeritageError
=============================================================================
