------------------------------ MODULE MCDouble ------------------------------
(***************************************************************************)
(* Values held in two halves.  Part "values" computes with them: sums,     *)
(* differences, bitwise operations, shifts, products, comparisons and      *)
(* merges; part "branches" compares them over several branches; part       *)
(* "memory" loads and stores them.                                         *)
(***************************************************************************)
EXTENDS RulesDouble, DoubleCompare

CONSTANTS
  Addresses,    \* the number of addresses of a space
  Location,     \* the address of the variable in memory
  Parts
VARIABLES part, ops, bigendian

Memory == INSTANCE DoubleMemory

\* The first two steps take the halves of V(1): T(1) is the low one.
Halved(steps) ==
  <<Step("SUBPIECE", Half, <<V(1), K(0, 1)>>), Step("SUBPIECE", Half, <<V(1), K(Half, IntSize)>>)>> \o steps
Shape(steps, seen) == Fragment(<<2 * Half, Half, Half>>, Halved(steps), seen)
Small(steps, seen) == Fragment(<<2 * Half>>, Halved(steps), seen)
Bin(code, x, y) == Step(code, Half, <<x, y>>)
Bool(code, x, y) == Step(code, 1, <<x, y>>)
Orders(x, y) == {<<x, y>>, <<y, x>>}
Ones == SizeMask(Half)
MinusOne(x) == Bin("INT_MULT", x, K(Ones, Half))

\* hi1 + hi2 + zext(carry), associated each way, after T(5) = zext(T(4)).
HighSums(hi2) ==
  {<<Bin("INT_ADD", T(2), hi2), Step("INT_ADD", Half, o)>> : o \in Orders(T(6), T(5))}
  \cup {<<Bin("INT_ADD", T(5), T(2)), Bin("INT_ADD", T(6), hi2)>>}
  \cup {<<Step("INT_ADD", Half, o), Bin("INT_ADD", T(2), T(6))>> : o \in Orders(T(5), hi2)}
Extended(bool) == <<bool, Step("INT_ZEXT", Half, <<T(4)>>)>>
SumWith(lo2, hi2, n) ==
  <<Bin("INT_ADD", T(1), lo2), Bool("INT_CARRY", T(1), lo2), Step("INT_ZEXT", Half, <<T(n + 1)>>), Bin("INT_ADD", T(2), hi2), Bin("INT_ADD", T(n + 3), T(n + 2))>>
AddShapes ==
  {Shape(<<Bin("INT_ADD", T(1), V(2))>> \o Extended(c) \o hi, seen) :
     c \in {Bool("INT_CARRY", T(1), V(2)), Bool("INT_CARRY", V(2), T(1)), Bool("INT_LESS", T(3), T(1)), Bool("INT_LESS", T(3), V(2)), Bool("INT_LESS", T(3), V(3)),
            Bool("INT_NOTEQUAL", T(1), V(2))},
     hi \in HighSums(V(3)), seen \in {<<T(3), T(7)>>}}
  \cup
  {Shape(<<Bin("INT_ADD", V(2), T(1))>> \o Extended(Bool("INT_CARRY", T(1), V(2))) \o hi \o <<Step("PIECE", 2 * Half, o)>>, <<T(8)>>) :
     hi \in {<<Bin("INT_ADD", T(2), V(3)), Bin("INT_ADD", T(6), T(5))>>, <<Bin("INT_ADD", T(2), T(5)), Step("COPY", Half, <<T(6)>>)>>},
     o \in {<<T(7), T(3)>>, <<T(6), T(3)>>}}
  \cup
  {Small(<<Bin("INT_ADD", T(1), K(k, Half))>> \o Extended(c) \o hi, <<T(3), T(7)>>) :
     k \in 1..Ones,
     c \in {Bool("INT_LESS", K(j, Half), T(1)) : j \in 0..Ones} \cup {Bool("INT_LESS", T(3), T(1)), Bool("INT_LESS", T(3), K(2, Half)), Bool("INT_NOTEQUAL", T(1), K(0, Half)),
            Bool("INT_NOTEQUAL", T(1), K(1, Half))},
     hi \in HighSums(K(1, Half)) \cup {<<Bin("INT_ADD", T(2), T(5)), Step("COPY", Half, <<T(6)>>)>>}}
  \cup
  {Shape(<<Step("INT_NEGATE", Half, <<V(2)>>), Step("INT_NEGATE", Half, <<V(3)>>)>> \o SumWith(o[1], o[2], 5), <<T(5), T(9)>>) : o \in Orders(T(3), T(4))}
SubShapes ==
  {Shape(<<MinusOne(V(2))>> \o Extended(Bool("INT_LESS", x[1], x[2])) \o <<MinusOne(T(5)), MinusOne(V(3)), Bin("INT_ADD", T(1), T(3))>> \o hi, <<T(8), T(10)>>) :
     x \in {<<T(1), V(2)>>, <<V(2), T(1)>>},
     hi \in {<<Bin("INT_ADD", T(2), T(6)), Bin("INT_ADD", T(9), T(7))>>, <<Bin("INT_ADD", T(7), T(2)), Bin("INT_ADD", T(9), T(6))>>,
             <<Bin("INT_ADD", T(6), T(7)), Bin("INT_ADD", T(2), T(9))>>, <<Bin("INT_ADD", T(7), T(6)), Bin("INT_ADD", T(9), T(2))>>}}
\* Two values in halves: T(1), T(2) of V(1) and T(3), T(4) of V(2).
Two(steps, seen) ==
  Fragment(<<2 * Half, 2 * Half>>,
           Halved(<<Step("SUBPIECE", Half, <<V(2), K(0, 1)>>), Step("SUBPIECE", Half, <<V(2), K(Half, IntSize)>>)>> \o steps), seen)
LogicalShapes ==
  {Two(<<Bin(c, x[1], x[2]), Bin(d, T(2), T(4))>> \o joined.steps, joined.seen) :
     c \in {"INT_AND", "INT_OR", "INT_XOR"}, d \in {"INT_AND", "INT_XOR"}, x \in Orders(T(1), T(3)) \cup {<<T(1), T(4)>>},
     joined \in {[steps |-> <<>>, seen |-> <<T(5), T(6)>>], [steps |-> <<Step("PIECE", 2 * Half, <<T(6), T(5)>>)>>, seen |-> <<T(7)>>]}}
  \cup
  {Small(<<Bin(c, T(1), K(1, Half)), Bin("INT_AND", T(2), K(2, Half))>> \o more, <<T(3), T(4)>> \o seen) :
     c \in {"INT_AND", "INT_OR"}, more \in {<<>>, <<Bin("INT_AND", T(2), K(3, Half))>>}, seen \in {<<>>, <<T(2)>>}}
CompareShapes ==
  {Two(<<Bool(c, x[1], x[2]), Bool(d, y[1], y[2]), Step(b, 1, z)>>, <<T(7)>>) :
     c \in {"INT_EQUAL", "INT_NOTEQUAL"}, d \in {"INT_EQUAL", "INT_NOTEQUAL"}, b \in {"BOOL_AND", "BOOL_OR"},
     x \in Orders(T(2), T(4)), y \in {<<T(3), T(1)>>}, z \in {<<T(5), T(6)>>}}
  \cup
  {Small(<<Bool(c, T(2), K(1, Half)), Bool(c, T(1), y), Step(b, 1, <<T(4), T(3)>>)>>, <<T(5), T(1)>>) :
     c \in {"INT_EQUAL", "INT_NOTEQUAL"}, b \in {"BOOL_AND", "BOOL_OR"}, y \in {K(2, Half), T(2)}}
  \cup
  {Small(<<Step("INT_AND", Half, x), Bool(c, T(3), K(k, Half))>>, <<T(4)>>) :
     x \in Orders(T(1), T(2)), c \in {"INT_EQUAL", "INT_NOTEQUAL"}, k \in 2..3}
  \cup
  {Small(<<Step(c, 1, x), CBranch(T(3), FALSE, 1, {1, 2}), Step("MULTIEQUAL", Half, <<T(1), T(2)>>)>>, <<T(5)>>) :
     c \in {"INT_LESS", "INT_LESSEQUAL", "INT_SLESS", "INT_SLESSEQUAL"},
     x \in UNION {Orders(T(2), K(k, Half)) : k \in 0..Ones}}
ShiftShapes ==
  {Small(<<Step(c, Half, <<T(1), K(j, IntSize)>>), Step("INT_RIGHT", Half, <<T(1), K(k, IntSize)>>), Step("INT_LEFT", Half, <<T(2), K(l, IntSize)>>), Step(o, Half, x)>>, <<T(3), T(6)>>) :
     c \in {"INT_LEFT"}, j \in {1, 2}, k \in {0, 1}, l \in {1, 2}, o \in {"INT_OR", "INT_ADD"}, x \in Orders(T(4), T(5))}
  \cup
  {Small(<<Step(c, Half, <<T(2), K(j, IntSize)>>), Step("INT_LEFT", Half, <<T(2), K(k, IntSize)>>), Step("INT_RIGHT", Half, <<T(1), K(l, IntSize)>>), Step(o, Half, x)>>, <<T(3), T(6)>>) :
     c \in {"INT_RIGHT", "INT_SRIGHT"}, j \in {0, 1}, k \in {1, 2}, l \in {0, 1}, o \in {"INT_OR", "INT_XOR"}, x \in Orders(T(4), T(5))}
\* Long multiplication by V(2), whose high half is V(3), or by a constant.
Wide(x) == Step("INT_ZEXT", 2 * Half, <<x>>)
MultShapes ==
  {Shape(<<Wide(T(1)), Wide(V(2)), Step("INT_MULT", 2 * Half, x), Step("SUBPIECE", Half, <<T(5), K(Half, IntSize)>>), low,
           Bin("INT_MULT", T(2), V(2)), Step("INT_MULT", Half, y), Step("INT_ADD", Half, z[1]), Step("INT_ADD", Half, z[2])>>, <<T(7), T(11)>>) :
     x \in Orders(T(3), T(4)), y \in Orders(T(1), V(3)),
     low \in {Step("SUBPIECE", Half, <<T(5), K(0, 1)>>), Bin("INT_MULT", V(2), T(1)), Bin("INT_MULT", T(1), V(3))},
     z \in {<<<<T(8), T(9)>>, <<T(10), T(6)>>>>, <<<<T(6), T(9)>>, <<T(8), T(10)>>>>, <<<<T(9), T(6)>>, <<T(10), T(8)>>>>, <<<<T(8), T(6)>>, <<T(10), T(2)>>>>}}
  \cup
  {Small(<<Step("INT_AND", 2 * Half, <<V(1), K(j, 2 * Half)>>), Step("INT_MULT", 2 * Half, <<T(3), K(m, 2 * Half)>>),
           Step("SUBPIECE", Half, <<T(4), K(Half, IntSize)>>), Step("SUBPIECE", Half, <<T(4), K(0, 1)>>),
           Bin("INT_MULT", T(2), K(k, Half)), Step("INT_ADD", Half, x)>>, <<T(6), T(8)>>) :
     j \in {Ones, Ones - 1}, m \in {2, 3}, k \in {3}, x \in Orders(T(5), T(7))}
PhiShapes ==
  {Two(<<Step("COPY", Half, <<T(1)>>), Step("COPY", Half, <<T(2)>>), Branch, Step("MULTIEQUAL", Half, x), Step("MULTIEQUAL", Half, y)>>, <<T(8), T(9)>>) :
     x \in {<<T(2), T(4)>>, <<T(6), T(4)>>, <<T(1), T(3)>>}, y \in {<<T(1), T(3)>>, <<T(5), T(3)>>, <<T(3), T(1)>>, <<T(2), T(4)>>}}
ValueShapes ==
  AddShapes \cup SubShapes \cup LogicalShapes \cup CompareShapes \cup ShiftShapes \cup MultShapes \cup PhiShapes
----------------------------------------------------------------------------
NoFlow == flow = <<>> /\ entries = {} /\ busy = {}
NoBlock == ops = <<>> /\ bigendian = FALSE
NoGraph == g = <<>> /\ want = <<>>
MCInit ==
  /\ part \in Parts
  /\ \/ part = "values" /\ InitFrom(ValueShapes) /\ NoFlow /\ NoBlock /\ original = <<>>
     \/ part = "branches" /\ CompareInit /\ NoGraph /\ NoBlock
     \/ part = "memory" /\ Memory!Init /\ NoGraph /\ NoFlow

OtherParts == UNCHANGED <<part, flow, original, entries, busy, ops, bigendian>>
Marks    == part = "values" /\ (\E o \in Ops : RuleDoubleInMarks(o)) /\ OtherParts
Wholes   == part = "values" /\ (\E o \in Ops : RuleDoubleIn(o)) /\ OtherParts
Compares == part = "branches" /\ CompareNext /\ UNCHANGED <<part, g, want, ops, bigendian>>
Accesses == part = "memory" /\ Memory!Next /\ UNCHANGED <<part, g, want, flow, entries, busy>>

MCNext == Marks \/ Wholes \/ Compares \/ Accesses

MCSpec == MCInit /\ [][MCNext]_<<part, g, want, flow, original, entries, busy, ops, bigendian>>
----------------------------------------------------------------------------
(* Computing a value as a whole changes nothing that is computed from it or *)
(* from its halves, for every input (RuleDoubleIn and its forms).           *)
WholesKept == part = "values" => WellFormed /\ ValuesKept

(* Recovering a comparison changes neither the block that is reached, from  *)
(* any block the flow can be entered at and for any values of the halves,   *)
(* nor the other operations executed on the way (Equal1Form, LessThreeWay), *)
(* and it shortens the longest chain of tests: the branch that got a        *)
(* constant condition makes the tests behind it dead.                       *)
SameOutcome == part = "branches" => SameBlockReached /\ TestsFewer

(* Joining two accesses changes neither what memory holds in the end, what  *)
(* any operation reads, nor what a call finds in memory, wherever the       *)
(* pointers point to (RuleDoubleLoad, RuleDoubleStore), except that a LOAD  *)
(* between two stores that are joined, which no_write_conflict lets pass,   *)
(* no longer reads what the earlier one wrote.  Every INDIRECT is then      *)
(* about a store behind it, and every operation reads what is there before  *)
(* it (reassign_indirects).                                                 *)
SameEffect == part = "memory" => Memory!WellPlaced /\ Memory!SameEffect
=============================================================================
