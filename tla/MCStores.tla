------------------------------ MODULE MCStores ------------------------------
(***************************************************************************)
(* The stores for model checking: the ordered index, the intrusive lists,  *)
(* the range map, the context database, and the data-flow graph with its   *)
(* bank of varnodes.  They share no state, so a behaviour runs one of them *)
(* (part) and leaves the others empty.  The graph has four instances: two  *)
(* ops that compete for one storage location, one op that reads a base     *)
(* register, one op and locations that span or straddle each other, and    *)
(* three ops, connected in every way, one of which is destroyed.           *)
(***************************************************************************)
EXTENDS OrderedIndex, ContextDatabase, Sequences, TLC

CONSTANTS Parts,                         \* the stores to run
          Nodes, Lists, NoNode,          \* of IntrusiveList
          MaxLine, MaxSubsort, Ids,      \* of RangeMap
          GraphOps, GraphOp, Vns,        \* of PcodeGraph
          Op1, Op2, Op3                  \* of PcodeGraph: the three ops of a chain

VARIABLES part,
          st,                            \* of IntrusiveList
          tree, records, oversewn,       \* of RangeMap
          fd                             \* of PcodeGraph

OpList == INSTANCE IntrusiveList WITH Nil <- NoNode
Ranges == INSTANCE RangeMap

\* Every varnode that is no constant competes for the same keys.
OneLocation == {<<0, 1>>}

\* Neighbours, locations that span or straddle them, and one at the top of the space.
SixLocations == {<<0, 1>>, <<1, 1>>, <<2, 1>>, <<0, 2>>, <<1, 2>>, <<2, 2>>}

Graph == INSTANCE PcodeGraph
  WITH Ops <- GraphOps, Storage <- OneLocation, Bases <- {}, MaxInputs <- 2, SpaceSize <- 4
Base == INSTANCE PcodeGraph
  WITH Ops <- {GraphOp}, Storage <- OneLocation, Bases <- OneLocation, MaxInputs <- 2, SpaceSize <- 4
Inputs == INSTANCE PcodeGraph
  WITH Ops <- {GraphOp}, Storage <- SixLocations, Bases <- {}, MaxInputs <- 1, SpaceSize <- 4
Chain == INSTANCE PcodeGraph
  WITH Ops <- {Op1, Op2, Op3}, Vns <- 1..4, Storage <- OneLocation, Bases <- {}, MaxInputs <- 2,
       SpaceSize <- 4

indexvars == <<map, ret, version, prefetch>>
rangevars == <<tree, records, oversewn>>

\* Values, context variables, and the ops of the first graph, are interchangeable.
Symmetry == Permutations(Values) \cup Permutations(Variables) \cup Permutations(GraphOps)

\* A context database that may not be edited.
ContextAtRest ==
  /\ database = [k \in {} |-> 0] /\ trackbase = [k \in {} |-> 0]
  /\ defaultvalue = [array |-> [x \in Variables |-> 0], mask |-> {}]
  /\ window = NoWindow /\ allowset = FALSE /\ edits = MaxEdits /\ bypassed = FALSE

\* An input of the function (1) and three ops, each with an output and with two inputs
\* out of 1 and the outputs of Op1 (2) and Op2 (3); Op3 may have no output.
MCChain(ins, written) ==
  LET z == Chain!Create(Chain!Empty, <<0, 1>>)
      Defined(f, o) == LET d == Chain!CreateDef(f, <<0, 1>>, o)
                       IN [d.fd EXCEPT !.op[o].out = d.ret]
      Reading(f, o) == Chain!OpSetAllInput(f, o, ins[o]).fd
      input == Chain!SetInputVarnode(z.fd, z.ret).fd
      defined == Defined(Defined(Defined(input, Op1), Op2), Op3)
      graph == Reading(Reading(Reading(defined, Op1), Op2), Op3)
  IN IF written THEN graph ELSE Chain!OpUnsetOutput(graph, Op3)

MCInit ==
  /\ part \in Parts
  /\ Init /\ OpList!Init /\ Ranges!Init
  /\ IF part = "context" THEN ContextInit ELSE ContextAtRest
  /\ CASE part = "chain" -> \E ins \in [{Op1, Op2, Op3} -> [1..2 -> 1..3]] :
                              \E written \in BOOLEAN : fd = MCChain(ins, written)
       [] part = "inputs" -> Inputs!Init
       [] part = "base" -> Base!Init
       [] part = "graph" -> Graph!Init
       [] OTHER -> fd = <<>>

OtherStores == UNCHANGED <<part, indexvars, st, rangevars, contextvars>>
IndexStep   == part = "index" /\ Next /\ UNCHANGED <<part, st, rangevars, contextvars, fd>>
ListStep    == part = "lists" /\ OpList!Next /\ UNCHANGED <<part, indexvars, rangevars, contextvars, fd>>
RangeStep   == part = "ranges" /\ Ranges!Next /\ UNCHANGED <<part, indexvars, st, contextvars, fd>>
ContextStep == part = "context" /\ ContextNext /\ UNCHANGED <<part, indexvars, st, rangevars, fd>>
GraphStep   == part = "graph" /\ Graph!Next /\ OtherStores
BaseStep    == part = "base" /\ Base!Next /\ OtherStores
InputStep   == part = "inputs" /\ Inputs!Next /\ OtherStores
ChainStep   == part = "chain" /\ (Chain!DestroyRecursive \/ Chain!Clear) /\ OtherStores

MCNext == \/ IndexStep \/ ListStep \/ RangeStep \/ ContextStep
          \/ GraphStep \/ BaseStep \/ InputStep \/ ChainStep

MCSpec == MCInit /\ [][MCNext]_<<part, indexvars, st, rangevars, contextvars, fd>>
-----------------------------------------------------------------------------
\* The lists that share the links of the nodes behave as sequences of nodes:
\* each operation does to the links what NodeLists says it does to the lists,
\* and a list reads the same from either end (oplist.rs:109-210).
RefinesNodeLists ==
  /\ OpList!Sequences_!AbsInit
  /\ [][part = "lists" => OpList!Sequences_!AbsNext /\ OpList!BothDirectionsAgree']_st

\* A search at a point finds exactly the records that cover it (FindIsExact of
\* RangeMap: "find" of rangemap.rs).
FindIsExact == part = "ranges" => Ranges!FindIsExact

\* As long as no erasure has overlooked a record that begins right after the
\* erased one, find, find_overlap, find_first_after and find_last_before answer
\* as a scan of all records would, and the pieces of the map cut the line up
\* exactly where records begin and end (FindIsExactUnlessOversewn,
\* SearchesAreExact and PiecesPartition of RangeMap).
SearchesAreExact ==
  part = "ranges" =>
    Ranges!PiecesPartition /\ Ranges!FindIsExactUnlessOversewn /\ Ranges!SearchesAreExact

\* Both ends of every link of the graph agree after every edit, failed edits
\* included: an op's output names that op as its definition and the other way
\* round (op_set_output, set_def, make_free), an op is among the readers of a
\* varnode as often as the varnode is in its slots (op_set_input,
\* op_unset_input, total_replace, destroy_varnode), and the trees of the bank index
\* the live varnodes under their present keys (erase_keys, insert_keys, xref).
GraphAgrees ==
  /\ part = "graph" => Graph!DefinitionsAgree /\ Graph!ReadersAgree /\ Graph!BankIndexed
  /\ part = "base" => Base!DefinitionsAgree /\ Base!ReadersAgree /\ Base!BankIndexed

\* No two inputs of the function overlap, although set_input_varnode looks at
\* one neighbour only, unless one of them ends at the top of its space.
InputsDisjoint == part = "inputs" => Inputs!InputsDisjoint

\* An op that is destroyed together with what only it reads takes nothing else with
\* it, is visited once, and leaves nothing behind (op_destroy_recursive).
ChainDestroyed == part = "chain" => Chain!ChainDestroyed
=============================================================================
