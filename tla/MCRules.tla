------------------------------ MODULE MCRules ------------------------------
(***************************************************************************)
(* The rewrite rules of ruleaction/ for model checking.  A behaviour       *)
(* starts from a fragment of one family (part) and applies the rules of    *)
(* the file the family is for, in any order, with the two actions that     *)
(* refresh the masks.  A family holds the shapes the rules of its file     *)
(* look for and their near misses.                                         *)
(***************************************************************************)
EXTENDS RulesArith, RulesSimplify, RulesCompare, RulesLate

CONSTANT Parts   \* the families to start from

VARIABLE part

----------------------------------------------------------------------------
\* arith.rs: every chain of up to three extensions, truncations, shifts and
\* masks, every pair of operations with constants, and the two-input shapes.

\* A move extends a chain whose last value has size bytes.
Move(code, size, k) == [code |-> code, size |-> size, k |-> k]
Resizes(size) ==
  {Move(code, to, NoValue) : code \in Extensions, to \in (size + 1)..MaxBytes}
  \cup {Move("SUBPIECE", to, k) : to \in 1..(size - 1), k \in 0..(MaxBytes - 1)}
Legal(size, move) == move.code = "SUBPIECE" => move.k + move.size <= size
ShiftsOf(size) == {Move(code, size, k) : code \in {"INT_LEFT", "INT_RIGHT"}, k \in {1, 2, 4}}
MasksOf(size) == IF size > WordBytes THEN {} ELSE {Move("INT_AND", size, k) : k \in {3, 5} \cap 0..SizeMask(size)}
Moves(size) == {m \in Resizes(size) \cup ShiftsOf(size) \cup MasksOf(size) : Legal(size, m)}

RECURSIVE Chains(_, _)
Chains(n, size) ==
  IF n = 0 THEN {<<>>}
  ELSE UNION {{<<m>> \o rest : rest \in Chains(n - 1, m.size)} : m \in Moves(size)}
StepsOf(chain) ==
  [i \in DOMAIN chain |->
     Step(chain[i].code, chain[i].size,
          <<IF i = 1 THEN V(1) ELSE T(i - 1)>>
            \o IF chain[i].k = NoValue THEN <<>>
               ELSE <<K(chain[i].k, IF chain[i].code = "INT_AND" THEN chain[i].size ELSE IntSize)>>)]
ChainShapes ==
  {Fragment(<<size>>, StepsOf(chain), <<T(Len(chain))>>) : size \in {1}, chain \in Chains(3, 1)}
  \cup {Fragment(<<2>>, StepsOf(chain), <<T(2)>>) : chain \in Chains(2, 2)}
  \cup {Fragment(<<2>>, StepsOf(chain), <<T(2), T(1)>>) : chain \in Chains(2, 2)}
  \cup {Fragment(<<3>>, StepsOf(<<Move("SUBPIECE", 2, cut), Move("INT_RIGHT", 2, k), Move("INT_ZEXT", 3, NoValue)>>), seen) :
          cut \in 0..1, k \in 1..2, seen \in {<<T(3)>>, <<T(3), T(2)>>}}
  \cup {Fragment(<<3>>, StepsOf(chain), <<T(2)>>) : chain \in {c \in Chains(2, 3) : c[1].code = "SUBPIECE"}}

Binary == {"INT_ADD", "INT_SUB", "INT_MULT", "INT_AND", "INT_OR", "INT_XOR", "INT_LEFT", "INT_RIGHT"}
ConstantShapes ==
  {Fragment(<<2>>, <<Step(a, 2, <<V(1), K(j, 2)>>), Step(b, 2, <<T(1), K(k, 2)>>)>>, seen) :
     a \in Binary, b \in Binary, j \in {0, 1, 2, 15}, k \in {0, 2, 3}, seen \in {<<T(2)>>}}
  \cup
  {Fragment(<<2>>, <<Step(a, 2, <<V(1), K(j, 2)>>), Step(b, 1, <<T(1), K(k, 2)>>)>>, <<T(2)>>) :
     a \in Binary, b \in {"INT_EQUAL", "INT_NOTEQUAL", "INT_CARRY"}, j \in {0, 6}, k \in {0, 5}}
  \cup
  {Fragment(<<2>>, <<Step(a, 2, <<V(1)>>), Step(b, 2, <<T(1), K(3, 2)>>)>>, <<T(2)>>) :
     a \in {"COPY", "INT_2COMP", "INT_NEGATE"}, b \in Binary}
\* Two inputs: concatenations, sums of shifted extensions, divisions of extensions.
PieceShapes ==
  {Fragment(<<1, 1>>, <<Step(f, 2, <<V(1)>>), Step(h, 2, <<V(2)>>), Step("PIECE", 4, <<T(1), T(2)>>)>>, <<T(3)>>) :
     f \in Extensions, h \in Extensions}
  \cup
  {Fragment(<<1, 1>>, <<Step(f, 1, <<V(i), K(k, 1)>>), Step("PIECE", 2, IF i = 1 THEN <<T(1), V(2)>> ELSE <<V(1), T(1)>>)>>,
            <<T(2)>>) : f \in {"INT_OR", "INT_AND", "INT_XOR"}, k \in 0..3, i \in {1, 2}}
  \cup
  {Fragment(<<1, 1>>, <<Step("INT_ZEXT", 2, <<V(2)>>), Step("INT_LEFT", 2, <<T(1), K(k, 1)>>),
                        Step("PIECE", 3, <<V(1), T(2)>>)>>, <<T(3)>>) : k \in 1..3}
  \cup
  {Fragment(<<2>>, <<Step("PIECE", 3, <<V(1), K(k, 1)>>)>>, <<T(1)>>) : k \in {0, 1}}
ShiftPieceShapes ==
  {Fragment(<<1, 1>>, <<Step(ext, size, <<V(1)>>), Step("INT_LEFT", size, <<T(1), K(k, IntSize)>>),
                        Step("INT_ZEXT", size, <<V(2)>>), Step(sum, size, in)>>, <<T(4)>>) :
     ext \in Extensions, sum \in {"INT_OR", "INT_ADD"}, size \in {2, 3, 4}, k \in {1, 2}, in \in {<<T(2), T(3)>>, <<T(3), T(2)>>}}
  \cup
  {Fragment(<<1>>, <<Step("INT_ZEXT", size, <<V(1)>>), Step("SUBPIECE", 1, <<T(1), K(0, IntSize)>>),
                     Step("INT_SRIGHT", 1, <<T(2), K(k, 1)>>), Step("INT_ZEXT", size, <<T(3)>>),
                     Step("INT_MULT", size, <<T(4), K(4, size)>>), Step("INT_OR", size, <<T(5), T(1)>>)>>, <<T(6)>>) :
     size \in {2, 3}, k \in {1, 0}}
  \cup
  {Fragment(<<2>>, <<Step("INT_AND", 2, <<V(1), K(mask, 2)>>), Step("SUBPIECE", 1, <<T(1), K(0, IntSize)>>),
                     Step("INT_SRIGHT", 1, <<T(2), K(k, 1)>>), Step("INT_ZEXT", 2, <<T(3)>>),
                     Step("INT_LEFT", 2, <<T(4), K(2, 1)>>), Step("INT_OR", 2, <<T(5), T(1)>>)>>, <<T(6)>>) :
     mask \in {3, 7}, k \in {1, 0}}
DivisionShapes ==
  {Fragment(<<s, t>>, <<Step(div[2], 3, <<V(1)>>), Step(div[2], 3, <<V(2)>>), Step(div[1], 3, <<T(1), T(2)>>),
                        Step("SUBPIECE", to, <<T(3), K(0, IntSize)>>)>>, seen) :
     s \in 1..2, t \in 1..2, to \in 1..2, seen \in {<<T(4)>>, <<T(4), T(1)>>},
     div \in {<<"INT_DIV", "INT_ZEXT">>, <<"INT_REM", "INT_ZEXT">>, <<"INT_SDIV", "INT_SEXT">>, <<"INT_SREM", "INT_SEXT">>}}
  \cup
  {Fragment(<<1>>, <<Step(div[2], 3, <<V(1)>>), Step(div[1], 3, <<T(1), K(k, 3)>>),
                     Step("SUBPIECE", to, <<T(2), K(0, IntSize)>>)>>, <<T(3)>>) :
     to \in 1..2, k \in {0, 3, 61},
     div \in {<<"INT_DIV", "INT_ZEXT">>, <<"INT_REM", "INT_ZEXT">>, <<"INT_SDIV", "INT_SEXT">>, <<"INT_SREM", "INT_SEXT">>}}
\* A truncation of a two-input operation, of one whose inputs are the same
\* varnode, and of one that is read elsewhere.
CommuteShapes ==
  {Fragment(<<2, 2>>, <<Step(f, 2, in), Step("SUBPIECE", 1, <<T(1), K(k, IntSize)>>)>>, seen) :
     f \in {"INT_ADD", "INT_MULT", "INT_XOR", "INT_AND", "INT_SUB"}, k \in 0..1,
     in \in {<<V(1), V(2)>>, <<V(1), V(1)>>}, seen \in {<<T(2)>>, <<T(2), T(1)>>}}
  \cup
  {Fragment(<<2, 2>>, <<Step("INT_XOR", 2, <<V(1), V(2)>>), Step(f, 1, <<T(1), K(k, 2)>>)>>, seen) :
     f \in {"INT_EQUAL", "INT_NOTEQUAL"}, k \in {0, 3}, seen \in {<<T(2)>>, <<T(2), T(1)>>}}
  \cup
  {FragmentOf(<<kind, "input">>, <<2, 2>>,
              <<Step("INT_ADD", 2, <<V(1), K(3, 2)>>), Step("INT_ADD", 2, in), Step("INT_ADD", 2, <<T(2), K(2, 2)>>)>>,
              <<T(3)>>) : kind \in {"input", "spacebase"}, in \in {<<T(1), V(2)>>, <<V(2), T(1)>>}}
\* Operations on constants, and on varnodes that are not heritaged yet.
FreeShapes ==
  {Fragment(<<1>>, <<Step(f, 2, <<K(j, 2), K(k, 2)>>), Step("INT_ADD", 2, <<T(1), K(1, 2)>>)>>, <<T(2)>>) :
     f \in Binary \cup {"INT_DIV", "INT_SREM", "INT_SDIV", "INT_REM"}, j \in {1, 15}, k \in {0, 2, 15}}
  \cup
  {FragmentOf(<<"free">>, <<2>>, <<Step("COPY", 2, <<V(1)>>), Step(f, 2, <<T(1), T(1)>>)>>, <<T(2)>>) : f \in Binary}
  \cup
  {FragmentOf(<<"free">>, <<1>>, StepsOf(chain), <<T(2)>>) : chain \in Chains(2, 1)}
  \cup
  {Fragment(<<1>>, <<Step(ext, 4, <<K(2, 1)>>), Step("SUBPIECE", to, <<T(1), K(cut, 1)>>)>>, <<T(2)>>) :
     ext \in Extensions, to \in {1, 2}, cut \in {0, 1}}
  \cup
  {Fragment(<<1>>, <<Step("INT_LEFT", 1, <<V(1), K(2, 1)>>), Step("INT_ADD", 1, <<T(1), V(1)>>)>>, <<T(2)>>)}
ArithShapes == ChainShapes \cup ConstantShapes \cup PieceShapes \cup ShiftPieceShapes
             \cup DivisionShapes \cup CommuteShapes \cup FreeShapes
----------------------------------------------------------------------------
\* simplify.rs.

Bitwise3 == {"INT_AND", "INT_OR", "INT_XOR"}
\* Two operations with constants, the second of any kind.
MaskShapes ==
  {Fragment(<<2>>, <<Step(a, 2, <<V(1), K(j, 2)>>), Step(b, 2, <<T(1), K(k, 2)>>)>>, <<T(2)>>) :
     a \in Bitwise3 \cup {"INT_ADD", "INT_LEFT", "INT_RIGHT"}, b \in Bitwise3 \cup {"INT_MULT"},
     j \in {2, 12, 14}, k \in {2, 12, 15}}
  \cup
  {Fragment(<<2>>, <<Step(a, 2, <<V(1), K(j, 2)>>), Step(b, 2, <<T(1), K(k, 2)>>)>>, <<T(2)>>) :
     a \in Bitwise3 \cup {"INT_ADD"}, b \in {"INT_LEFT", "INT_RIGHT"}, j \in {2, 12, 14}, k \in {1, 2, 5}}
  \cup
  {Fragment(<<2>>, <<Step(a, 2, <<V(1), K(j, 2)>>), Step("INT_SRIGHT", 2, <<T(1), K(k, 2)>>)>>, <<T(2)>>) :
     a \in Bitwise3, j \in {2, 12, 14}, k \in {1, 2, 3}}
  \cup
  {Fragment(<<2>>, <<Step(a, 2, <<V(1), K(j, 2)>>), Step("SUBPIECE", 1, <<T(1), K(k, IntSize)>>)>>, seen) :
     a \in Bitwise3 \cup {"INT_ADD"}, j \in {3, 12}, k \in 0..1, seen \in {<<T(2)>>, <<T(2), T(1)>>}}
\* Two inputs meeting in bitwise operations.
TwoInputShapes ==
  {Fragment(<<1, 2>>, <<Step("INT_ZEXT", 2, <<V(1)>>), Step(a, 2, <<T(1), V(2)>>), Step(b, 2, <<T(2), K(k, 2)>>)>>, <<T(3)>>) :
     a \in {"INT_OR", "INT_ADD", "INT_XOR"}, b \in {"INT_AND", "INT_LEFT", "INT_RIGHT"}, k \in {2, 3, 12}}
  \cup
  {Fragment(<<1, 1>>, <<Step("PIECE", 2, <<V(1), V(2)>>), Step(b, 2, <<T(1), K(j, 2)>>), Step("INT_AND", 2, <<T(2), K(k, 2)>>)>>, <<T(3)>>) :
     b \in {"INT_LEFT", "INT_RIGHT"}, j \in {2}, k \in {2, 3, 12}}
  \cup
  {Fragment(<<1, 1>>, <<Step("INT_ZEXT", 2, <<V(1)>>), Step("INT_ZEXT", 2, <<V(2)>>), Step("INT_LEFT", 2, <<T(2), K(2, 1)>>),
                        Step("INT_OR", 2, <<T(1), T(3)>>), Step("INT_AND", 2, in)>>, <<T(5)>>) :
     in \in {<<T(4), T(1)>>, <<T(4), T(2)>>}}
  \cup
  {Fragment(<<1, 1>>, <<Step("PIECE", 2, <<V(1), V(2)>>), Step("INT_ZEXT", 2, <<V(2)>>), Step("INT_LEFT", 2, <<T(2), K(2, 1)>>),
                        Step("INT_AND", 2, in)>>, <<T(4)>>) : in \in {<<T(1), T(3)>>, <<T(3), T(1)>>, <<T(2), T(1)>>}}
\* Sums with repeated terms and constants.
TermShapes ==
  {Fragment(<<1, 1>>, <<Step("INT_MULT", 1, <<V(1), K(j, 1)>>), Step("INT_ADD", 1, <<T(1), x>>), Step("INT_ADD", 1, <<T(2), y>>)>>, <<T(3)>>) :
     j \in {2, 3}, x \in {V(1), V(2), K(1, 1)}, y \in {V(1), V(2), K(3, 1)}}
  \cup
  {Fragment(<<1, 1>>, <<Step("INT_ADD", 1, <<V(1), x>>), Step("INT_MULT", 1, <<T(1), K(3, 1)>>), Step("INT_ADD", 1, <<T(2), y>>)>>, seen) :
     x \in {V(2), K(2, 1)}, y \in {V(1), V(2), K(1, 1)}, seen \in {<<T(3)>>, <<T(3), T(1)>>}}
  \cup
  {Fragment(<<2>>, <<Step("INT_AND", 2, <<V(1), K(12, 2)>>), Step("INT_ADD", 2, <<T(1), K(j, 2)>>), Step("INT_ADD", 2, in),
                        Step("INT_AND", 2, <<T(4 - 1), K(12, 2)>>)>>, <<T(4)>>) : j \in {5, 7}, in \in {<<T(2), K(8, 2)>>, <<T(2), T(1)>>, <<T(1), T(2)>>}}
  \cup
  {Fragment(<<2>>, <<Step("INT_AND", 2, <<V(1), K(12, 2)>>), Step("INT_ADD", 2, <<T(1), K(7, 2)>>), Step("INT_AND", 2, <<T(2), K(k, 2)>>)>>, <<T(3)>>) :
     k \in {8, 12, 14}}
\* Pieces and extensions.
ExtensionShapes ==
  {Fragment(<<1>>, <<Step("INT_SRIGHT", 1, <<V(1), K(k, 1)>>), Step("PIECE", 2, <<T(1), V(1)>>), Step("INT_AND", 2, <<T(2), K(3, 2)>>)>>, seen) :
     k \in 0..1, seen \in {<<T(2)>>, <<T(3)>>, <<T(3), T(2)>>}}
  \cup
  {Fragment(<<1>>, <<Step("PIECE", 2, <<K(k, 1), V(1)>>), Step("INT_SEXT", 3, <<T(1)>>), Step("INT_AND", 3, <<T(2), K(15, 3)>>)>>, <<T(3)>>) : k \in 0..1}
  \cup
  {Fragment(<<2>>, <<Step("SUBPIECE", 1, <<V(1), K(k, IntSize)>>), Step("INT_AND", 1, <<T(1), K(1, 1)>>),
                     Step(f, 1, <<T(2), K(0, 1)>>)>>, <<T(3)>>) : k \in 0..1, f \in {"INT_EQUAL", "INT_NOTEQUAL"}}
  \cup
  {Fragment(<<1>>, <<Step("INT_ZEXT", 2, <<V(1)>>), Step("INT_AND", 2, <<T(1), K(k, 2)>>), Step("INT_EQUAL", 1, <<T(2), K(0, 2)>>)>>, <<T(3)>>) : k \in {2, 15}}
  \cup
  {Fragment(<<2>>, <<Step(f, 1, <<V(1), K(1, IntSize)>>), Step(f, 1, <<V(1), K(1, IntSize)>>), Step(f, 1, <<V(1), K(1, IntSize)>>),
                     Step("INT_XOR", 1, <<T(1), T(2)>>)>>, <<T(4), T(3)>>) : f \in {"SUBPIECE"}}
  \cup
  {Fragment(<<2>>, <<Step("INT_NEGATE", 2, <<V(1)>>), Step(f, 2, in)>>, <<T(2)>>) : f \in Bitwise3, in \in {<<T(1), V(1)>>, <<V(1), T(1)>>}}
\* Comparisons and booleans.
BoolShapes ==
  {Fragment(<<1>>, <<Step(f, 1, in)>>, <<T(1)>>) :
     f \in {"INT_LESSEQUAL", "INT_SLESSEQUAL", "INT_LESS"}, in \in {<<V(1), K(k, 1)>> : k \in 0..3} \cup {<<K(k, 1), V(1)>> : k \in 0..3}}
  \cup
  {Fragment(<<1, 1>>, <<Step(f, 1, <<V(1), K(2, 1)>>), Step(h, 1, in), Step(b, 1, <<T(1), T(2)>>), Step("BOOL_NEGATE", 1, <<T(3)>>)>>, <<T(4)>>) :
     f \in {"INT_LESS", "INT_EQUAL"}, h \in {"INT_LESS", "INT_LESSEQUAL", "INT_NOTEQUAL"}, in \in {<<V(1), K(1, 1)>>, <<K(1, 1), V(1)>>, <<K(2, 1), V(1)>>, <<V(2), V(1)>>},
     b \in {"BOOL_AND", "BOOL_OR", "BOOL_XOR"}}
  \cup
  {Fragment(<<2, 2>>, <<Step(c[1], 1, <<x, y>>), Step(c[2], 1, in), Step(c[3], 1, out)>>, <<T(3)>>) :
     c \in {<<"FLOAT_LESS", "FLOAT_EQUAL", "BOOL_OR">>, <<"FLOAT_LESSEQUAL", "FLOAT_NOTEQUAL", "BOOL_AND">>, <<"FLOAT_LESS", "FLOAT_EQUAL", "BOOL_AND">>},
     x \in {V(1)}, y \in {V(2)}, in \in {<<V(1), V(2)>>, <<V(2), V(1)>>, <<V(1), V(1)>>}, out \in {<<T(1), T(2)>>, <<T(2), T(1)>>}}
  \cup
  {Fragment(<<2>>, <<Step("FLOAT_LESS", 1, <<x, y>>), Step("FLOAT_EQUAL", 1, <<V(1), K(5, 2)>>), Step("BOOL_OR", 1, <<T(1), T(2)>>)>>, <<T(3)>>) :
     x \in {V(1), K(5, 2)}, y \in {V(1), K(5, 2)}}
\* Boolean expressions to match: De Morgan and complements.
MatchShapes ==
  {Fragment(<<1, 1>>, <<Step("INT_LESS", 1, <<V(1), K(2, 1)>>), Step("INT_EQUAL", 1, <<V(2), K(1, 1)>>),
                        Step(f[1], 1, f[2]), Step(h, 1, <<V(2), K(1, 1)>>),
                        Step(b, 1, <<T(1), T(2)>>), Step(c, 1, in), Step("BOOL_XOR", 1, <<T(5), T(6)>>)>>, <<T(7)>>) :
     f \in {<<"INT_LESS", <<V(1), K(2, 1)>>>>, <<"INT_LESSEQUAL", <<K(2, 1), V(1)>>>>}, h \in {"INT_EQUAL", "INT_NOTEQUAL"},
     b \in {"BOOL_AND", "BOOL_OR", "BOOL_XOR"}, c \in {"BOOL_AND", "BOOL_OR", "BOOL_XOR"},
     in \in {<<T(3), T(4)>>, <<T(4), T(3)>>}}
\* Joins.
JoinShapes ==
  {Fragment(<<1, 1>>, <<Step(a, 2, <<V(1)>>), Step(b, 2, <<V(2)>>), Branch, Step("MULTIEQUAL", 2, <<T(1), T(2)>>),
                        Step("SUBPIECE", 1, <<T(4), K(k, IntSize)>>)>>, seen) :
     a \in Extensions, b \in Extensions, k \in 0..1, seen \in {<<T(5)>>, <<T(4)>>, <<T(5), T(4)>>}}
  \cup
  {Fragment(<<1, 2>>, <<Step("INT_ZEXT", 2, <<V(1)>>), Step("INT_ADD", 2, <<V(2), K(1, 2)>>), Branch, Step("MULTIEQUAL", 2, <<x, T(2)>>),
                        Step("SUBPIECE", 1, <<T(4), K(0, IntSize)>>), Step("SUBPIECE", 1, <<T(4), K(k, IntSize)>>)>>, <<T(5), T(6)>>) :
     x \in {T(1), V(2)}, k \in {0, 1}}
  \cup
  {Fragment(<<3>>, <<Step("INT_NEGATE", 3, <<V(1)>>), Branch, Step("MULTIEQUAL", 3, <<T(1), V(1)>>),
                     Step("SUBPIECE", 1, <<T(3), K(1, IntSize)>>), Step("SUBPIECE", size, <<T(3), K(k, IntSize)>>)>>, <<T(4), T(5)>>) :
     size \in 1..2, k \in {1}}
  \cup
  {Fragment(<<1, 1>>, <<Step(a, 1, <<V(1), K(j, 1)>>), Step(a, 1, in), Branch, Step("MULTIEQUAL", 1, <<T(1), T(2)>>)>>, seen) :
     a \in {"INT_ADD", "INT_SUB", "INT_XOR"}, j \in {1, 2}, in \in {<<V(1), K(1, 1)>>, <<V(2), K(1, 1)>>, <<V(2), V(1)>>},
     seen \in {<<T(4)>>, <<T(4), T(2)>>}}
  \cup
  {Fragment(<<1, 1>>, <<Step(a, 1, <<V(1), V(2)>>), Step(a, 1, in), Branch, Step("MULTIEQUAL", 1, <<T(1), T(2)>>)>>, <<T(4)>>) :
     a \in {"INT_ADD", "INT_SUB"}, in \in {<<V(1), V(2)>>, <<V(2), V(1)>>, <<V(1), V(1)>>, <<V(2), V(2)>>}}
  \cup
  {Fragment(<<1, 1>>, <<Step("INT_NEGATE", 1, <<V(1)>>), Step("INT_NEGATE", 1, <<V(2)>>), Branch, Step("MULTIEQUAL", 1, <<V(1), V(2)>>),
                        Step("MULTIEQUAL", 1, <<T(1), T(2)>>)>>, seen) : seen \in {<<T(5)>>, <<T(4), T(5)>>}}
  \cup
  {Fragment(<<1, 1>>, <<Step("COPY", 1, <<V(1)>>), Step("COPY", 1, <<x>>), Branch, Step("MULTIEQUAL", 1, <<V(1), V(2)>>),
                        Step("MULTIEQUAL", 1, <<T(1), T(2)>>)>>, <<T(4), T(5)>>) : x \in {V(2), K(1, 1)}}
  \cup
  {Fragment(<<1, 1>>, <<Step("INT_NEGATE", 1, <<V(1)>>), Step("INT_NEGATE", 1, <<V(2)>>), Step("INT_ADD", 1, <<V(1), K(1, 1)>>),
                        Step("INT_ADD", 1, <<V(2), K(1, 1)>>), Branch, Step("MULTIEQUAL", 1, <<T(1), T(2)>>),
                        Step("MULTIEQUAL", 1, <<T(3), T(4)>>)>>, <<T(6), T(7)>>)}
  \cup
  {Fragment(<<1>>, <<Step("INT_NEGATE", 1, <<V(1)>>), Step("INT_NEGATE", 1, <<V(1)>>), Step("INT_2COMP", 1, <<T(1)>>), Step("INT_2COMP", 1, <<T(2)>>),
                     Branch, Step("MULTIEQUAL", 1, <<T(3), T(4)>>), Step("INT_NEGATE", 1, <<V(1)>>), Step("INT_ADD", 1, <<T(6), T(7)>>)>>, <<T(8)>>)}
BitwiseShapes == MaskShapes \cup TwoInputShapes \cup TermShapes
MergeShapes == ExtensionShapes \cup BoolShapes \cup MatchShapes \cup JoinShapes
----------------------------------------------------------------------------
\* shiftcompare.rs.

Equalities == {"INT_EQUAL", "INT_NOTEQUAL"}
ShiftShapes ==
  {Fragment(<<2>>, <<Step(a, 2, <<V(1), K(j, 2)>>), Step(b, 2, <<T(1), K(k, 2)>>)>>, seen) :
     a \in Shifts \cup {"INT_MULT"}, b \in Shifts \cup {"INT_MULT"}, j \in {0, 1, 2, 3}, k \in {1, 2, 4}, seen \in {<<T(2)>>, <<T(2), T(1)>>}}
  \cup
  {Fragment(<<3>>, <<Step("INT_LEFT", 3, <<V(1), K(k, 1)>>), Step(b, 3, <<T(1), K(k, 1)>>)>>, <<T(2)>>) :
     b \in {"INT_RIGHT", "INT_SRIGHT"}, k \in {2, 3}}
  \cup
  {Fragment(<<3>>, <<Step("SUBPIECE", 2, <<V(1), K(j, 1)>>), Step("SUBPIECE", 1, <<T(1), K(k, 1)>>)>>, <<T(2)>>) :
     j \in 0..1, k \in 0..1}
  \cup
  {Fragment(<<1, 1>>, <<Step("PIECE", 2, <<V(1), V(2)>>), Step(b, 2, <<T(1), K(k, 1)>>)>>, <<T(2)>>) :
     b \in {"INT_RIGHT", "INT_SRIGHT"}, k \in 1..3}
  \cup
  {Fragment(<<2>>, <<Step(a, 2, <<V(1), K(j, 2)>>), Step(b, 2, <<T(1), K(h, 2)>>), Step(c, 1, <<T(2), K(k, 2)>>)>>, seen) :
     a \in {"INT_AND"}, j \in {3, 12, 15}, b \in {"INT_LEFT", "INT_RIGHT", "INT_MULT", "INT_DIV"}, h \in {1, 2, 4}, c \in Equalities,
     k \in {0, 2, 4, 12}, seen \in {<<T(3)>>, <<T(3), T(2)>>}}
\* Comparisons of one value, of extensions and of related pairs.
OrderShapes ==
  {Fragment(<<1, 1>>, <<Step(a, 1, <<V(1), V(2)>>), Step(b, 1, in), Step(c, 1, out)>>, <<T(3)>>) :
     a \in {"INT_LESS", "INT_SLESS", "INT_LESSEQUAL", "INT_SLESSEQUAL"}, b \in Equalities, c \in {"BOOL_AND", "BOOL_OR"},
     in \in {<<V(1), V(2)>>, <<V(2), V(1)>>, <<V(1), V(1)>>}, out \in {<<T(1), T(2)>>, <<T(2), T(1)>>}}
  \cup
  {Fragment(<<1>>, <<Step("INT_LESS", 1, <<V(1), K(2, 1)>>), Step("INT_EQUAL", 1, <<K(k, 1), V(1)>>), Step("BOOL_OR", 1, <<T(1), T(2)>>)>>, <<T(3)>>) :
     k \in {1, 2}}
  \cup
  {Fragment(<<2>>, <<Step(a, size, in)>>, <<T(1)>>) :
     a \in {"INT_XOR", "INT_AND", "INT_OR"}, size \in {2}, in \in {<<V(1), V(1)>>}}
  \cup
  {Fragment(<<2>>, <<Step(c, 1, <<V(1), V(1)>>)>>, <<T(1)>>) : c \in Comparisons}
  \cup
  {Fragment(<<1>>, <<Step("INT_ADD", 1, <<V(1), K(1, 1)>>), Step("INT_ADD", 1, <<V(1), K(k, 1)>>), Step(c, 1, <<T(1), T(2)>>)>>, <<T(3)>>) :
     k \in {1, 2}, c \in {"INT_EQUAL", "INT_AND", "INT_XOR", "INT_SLESS"}}
  \cup
  {Fragment(<<1>>, <<Step("INT_ZEXT", size, <<V(1)>>), Step(c, 1, IF right THEN <<T(1), K(k, size)>> ELSE <<K(k, size), T(1)>>)>>, seen) :
     size \in {2, 4}, c \in Comparisons, right \in BOOLEAN, k \in {0, 1, 2, 3, 5}, seen \in {<<T(2)>>, <<T(2), T(1)>>}}
  \cup
  {Fragment(<<1, 1>>, <<Step(e, 2, <<V(1)>>), Step(f, 2, <<V(2)>>), Step(b, 2, <<T(1), T(2)>>)>>, <<T(3)>>) :
     e \in {"INT_ZEXT", "INT_SEXT"}, f \in {"INT_ZEXT", "INT_SEXT"}, b \in {"INT_AND", "INT_OR", "INT_XOR"}}
  \cup
  {Fragment(<<1, 2>>, <<Step("INT_ZEXT", 3, <<V(1)>>), Step("INT_ZEXT", 3, <<V(2)>>), Step("INT_OR", 3, <<T(1), T(2)>>)>>, <<T(3)>>)}
  \cup
  {Fragment(<<1, 1>>, <<Step(e, 1, <<V(1), x>>), Step(e, 1, <<V(2), y>>), Step(b, 1, <<T(1), T(2)>>)>>, <<T(3)>>) :
     e \in Shifts, x \in {K(1, 1), V(2)}, y \in {K(1, 1), K(2, 1), V(2)}, b \in {"INT_AND", "INT_OR", "INT_XOR"}}
  \cup
  {Fragment(<<1>>, <<Step("INT_AND", 1, <<V(1), K(j, 1)>>), Step(c, 1, <<T(1), K(1, 1)>>)>>, <<T(2)>>) :
     j \in {1, 3}, c \in {"INT_SLESS", "INT_SLESSEQUAL"}}
  \cup
  {Fragment(<<2>>, <<Step(f, 2, <<V(1), K(k, 2)>>), Step(c[1], c[2], <<T(1), c[3]>>), Step(c[1], c[2], <<T(1), c[4]>>)>>, <<T(2), T(3)>>) :
     f \in {"INT_RIGHT", "INT_SRIGHT"}, k \in {2, 3, 4, 0},
     c \in {<<d, 1, K(0, 2), K(15, 2)>> : d \in Equalities} \cup {<<"INT_ADD", 2, V(1), K(2, 2)>>} \cup {<<"INT_EQUAL", 1, K(1, 2), V(1)>>}}
\* The conditions two boolean expressions may share.
Condition(i) == CASE i = 1 -> Step("INT_LESS", 1, <<V(1), K(2, 1)>>)
                  [] i = 2 -> Step("INT_LESSEQUAL", 1, <<K(2, 1), V(1)>>)
                  [] i = 3 -> Step("INT_EQUAL", 1, <<V(2), K(1, 1)>>)
                  [] i = 4 -> Step("INT_SLESS", 1, <<V(2), V(1)>>)
BoolPairShapes ==
  {Fragment(<<1, 1>>, <<Condition(1), Condition(i), Condition(3), Condition(4), Step(a, 1, x), Step(b, 1, y), Step(c, 1, <<T(5), T(6)>>)>>, <<T(7)>>) :
     i \in {1, 2}, a \in {"BOOL_AND", "BOOL_OR"}, b \in {"BOOL_AND", "BOOL_OR"}, c \in Equalities \cup {"BOOL_AND", "BOOL_OR"},
     x \in {<<T(1), T(3)>>, <<T(3), T(1)>>}, y \in {<<T(2), T(4)>>, <<T(4), T(2)>>}}
  \cup
  {Fragment(<<1, 1>>, <<Condition(3), Step(b, 1, <<T(1), x>>)>>, <<T(2)>>) :
     b \in Logical \cup {"INT_AND", "INT_OR", "INT_XOR"}, x \in {K(0, 1), K(1, 1)}}
  \cup
  {Fragment(<<1, 1>>, <<Condition(3), Step(b, 1, <<T(1), x>>)>>, <<T(2)>>) :
     b \in {"INT_AND", "INT_OR", "INT_XOR"}, x \in {K(2, 1), V(1)}}
  \cup
  {Fragment(<<1, 1>>, <<Condition(3), Condition(1), Step(b, 1, <<T(1), T(2)>>)>>, <<T(3)>>) :
     b \in {"INT_AND", "INT_OR", "INT_XOR"}}
  \cup
  {Fragment(<<1, 1>>, <<Condition(3), Step(c, 1, <<T(1), K(k, 1)>>)>>, <<T(2)>>) : c \in Equalities, k \in 0..2}
  \cup
  {Fragment(<<1, 1>>, <<Condition(1), Condition(3), Step("INT_ZEXT", 2, <<T(1)>>), Step("INT_MULT", 2, <<T(3), K(15, 2)>>),
                        Step("INT_ZEXT", 2, <<T(2)>>), Step("INT_MULT", 2, <<T(5), K(k, 2)>>), Step(b, 2, x)>>, <<T(7)>>) :
     k \in {15, 14}, b \in {"INT_AND", "INT_OR", "INT_XOR"}, x \in {<<T(4), T(6)>>, <<T(6), T(4)>>}}
  \cup
  {Fragment(<<1, 1>>, <<Condition(1), Step("INT_ZEXT", 2, <<T(1)>>), Step("INT_MULT", 2, <<T(2), K(15, 2)>>), Step(b[1], b[2], <<T(3), K(k, 2)>>)>>, seen) :
     b \in {<<"INT_ADD", 2>>, <<"INT_EQUAL", 1>>, <<"INT_NOTEQUAL", 1>>}, k \in {0, 1, 15}, seen \in {<<T(4)>>, <<T(4), T(3)>>}}
\* Overflow flags against signs.
FlagShapes ==
  {Fragment(<<1, 1>>, <<Step("INT_SBORROW", 1, <<V(1), y>>), Step("INT_MULT", 1, <<y, K(3, 1)>>), Step("INT_ADD", 1, x),
                        Step("INT_SLESS", 1, z), Step(c, 1, w)>>, <<T(5)>>) :
     y \in {V(2)}, x \in {<<V(1), T(2)>>, <<T(2), V(1)>>, <<V(1), V(2)>>}, z \in {<<T(3), K(0, 1)>>, <<K(0, 1), T(3)>>},
     c \in Equalities, w \in {<<T(1), T(4)>>, <<T(4), T(1)>>}}
  \cup
  {Fragment(<<1>>, <<Step("INT_SBORROW", 1, <<V(1), K(k, 1)>>), Step("INT_ADD", 1, <<V(1), K((-k) % 4, 1)>>),
                     Step("INT_SLESS", 1, <<T(2), K(0, 1)>>), Step(c, 1, <<T(1), T(3)>>)>>, <<T(4)>>) :
     k \in 0..3, c \in Equalities}
  \cup
  {Fragment(<<1>>, <<Step("INT_SCARRY", 1, s), Step("INT_ADD", 1, <<V(1), K(k, 1)>>), Step("INT_SLESS", 1, <<T(2), K(0, 1)>>),
                     Step(c, 1, <<T(1), T(3)>>)>>, <<T(4)>>) :
     k \in {1}, c \in Equalities, s \in {<<V(1), K(j, 1)>> : j \in {0, 1, 3}} \cup {<<K(j, 1), V(1)>> : j \in 0..3}}
  \cup
  {Fragment(<<1>>, <<Step("INT_SCARRY", 1, <<K(2, 1), V(1)>>), Step("INT_ADD", 1, <<V(1), K(2, 1)>>), Step("INT_SLESS", 1, z),
                     Step(c, 1, <<T(1), T(3)>>)>>, <<T(4)>>) : c \in Equalities, z \in {<<T(2), K(0, 1)>>, <<K(0, 1), T(2)>>}}
CompareShapes == ShiftShapes \cup OrderShapes \cup BoolPairShapes \cup FlagShapes
----------------------------------------------------------------------------
\* pointer.rs and late.rs.

PartShapes ==
  {Fragment(<<3>>, <<Step("SUBPIECE", s1, <<V(1), K(j, 1)>>), Step("SUBPIECE", s2, <<V(1), K(k, 1)>>), Step("PIECE", s1 + s2, <<T(1), T(2)>>)>>, <<T(3)>>) :
     s1 \in {1, 2}, s2 \in {1}, j \in {1}, k \in {0, 1, 2}}
  \cup
  {Fragment(<<3>>, <<Step("SUBPIECE", 1, <<V(1), K(2, 1)>>), Step("SUBPIECE", 1, <<V(1), K(1, 1)>>), Step("PIECE", 2, <<T(1), T(2)>>)>>, <<T(3)>>)}
  \cup
  {FragmentOf(<<kind, "input">>, <<2, 2>>, <<Step("PIECE", 4, <<V(1), V(2)>>), Step("SUBPIECE", size, <<T(1), K(k, 1)>>)>>, <<T(2)>>) :
     size \in {1, 2}, k \in {0, 1, 2}, kind \in {"input", "free"}}
  \cup
  {Fragment(<<1>>, <<Step("PIECE", 2, <<V(1), K(2, 1)>>), Step("SUBPIECE", 1, <<T(1), K(0, 1)>>)>>, <<T(2)>>)}
  \cup
  {Fragment(<<1, 1, 1>>, <<Step("INT_AND", 1, x), Step("INT_AND", 1, y), Step("INT_OR", 1, <<T(1), T(2)>>)>>, <<T(3)>>) :
     x \in {<<V(1), V(2)>>, <<V(2), V(1)>>}, y \in {<<V(1), V(3)>>, <<V(3), V(1)>>, <<V(3), V(3)>>, <<V(1), K(2, 1)>>}}
  \cup
  {Fragment(<<1>>, <<Step("INT_AND", 1, <<V(1), K(j, 1)>>), Step("INT_AND", 1, <<V(1), K(k, 1)>>), Step("INT_OR", 1, <<T(1), T(2)>>)>>, <<T(3)>>) :
     j \in 1..3, k \in 1..2}
ConditionOp(i) == CASE i = 1 -> Step("INT_LESS", 1, <<V(1), V(2)>>)
                    [] i = 2 -> Step("INT_SLESS", 1, <<K(1, 1), V(1)>>)
                    [] i = 3 -> Step("INT_LESS", 1, <<V(1), K(2, 1)>>)
                    [] i = 4 -> Step("BOOL_AND", 1, <<K(1, 1), K(1, 1)>>)
                    [] i = 5 -> Step("INT_EQUAL", 1, <<V(1), K(2, 1)>>)
BranchShapes ==
  {Fragment(<<1, 1>>, <<ConditionOp(i), CBranch(T(1), TRUE, t, {1, 2}), Step("MULTIEQUAL", 1, <<V(1), V(2)>>)>>, seen) :
     i \in 1..5, t \in {1, 2}, seen \in {<<T(3)>>, <<T(3), T(1)>>}}
  \cup
  {Fragment(<<1, 1>>, <<ConditionOp(i), Step("BOOL_NEGATE", 1, <<T(1)>>), Step("BOOL_NEGATE", 1, <<T(1)>>)>>, seen) :
     i \in 1..5, seen \in {<<T(2), T(3)>>, <<T(2), T(3), T(1)>>}}
  \cup
  {Fragment(<<1, 1>>, <<ConditionOp(1), Step("COPY", size, <<K(j, size)>>), Step("COPY", size, <<K(k, size)>>), CBranch(T(1), flip, t, inner),
                        Step("MULTIEQUAL", size, <<T(2), T(3)>>)>>, <<T(5)>>) :
     size \in {1, 2}, j \in 0..1, k \in 0..2, flip \in BOOLEAN, t \in {1, 2}, inner \in {{1, 2}, {1}}}
  \cup
  {Fragment(<<1, 1>>, <<ConditionOp(1), Step("COPY", 1, <<K(j, 1)>>), Step("INT_SLESS", 1, <<V(2), V(1)>>), CBranch(T(1), flip, t, inner),
                        Step("MULTIEQUAL", 1, x)>>, <<T(5)>>) :
     j \in 0..1, flip \in BOOLEAN, t \in {1, 2}, inner \in {{1, 2}, {2}}, x \in {<<T(2), T(3)>>, <<T(3), T(2)>>}}
  \cup
  {Fragment(<<1, 1>>, <<ConditionOp(1), Step("BOOL_NEGATE", 1, <<T(1)>>), Step("INT_SLESS", 1, <<V(2), V(1)>>), CBranch(T(c), flip, t, inner),
                        Step("MULTIEQUAL", 1, x), Step("MULTIEQUAL", 1, <<V(1), V(2)>>)>>, <<T(5), T(6)>>) :
     c \in {1, 2}, flip \in BOOLEAN, t \in {1, 2}, inner \in {{1}, {2}, {1, 2}}, x \in {<<T(1), T(3)>>, <<T(3), T(1)>>}}
\* Comparisons with a bound, and sign tests of what is computed from something else.
BoundShapes ==
  {Fragment(<<1>>, <<Step(c, 1, x)>>, <<T(1)>>) :
     c \in {"INT_LESS", "INT_LESSEQUAL"}, x \in {<<V(1), K(k, 1)>> : k \in 0..3} \cup {<<K(k, 1), V(1)>> : k \in 0..3}}
SignTested(step, size) ==
  {<<step, Step("INT_SLESS", 1, <<T(1), K(0, size)>>)>>, <<step, Step("INT_SLESS", 1, <<K(SizeMask(size), size), T(1)>>)>>}
SignShapes ==
  {Fragment(<<2, 1>>, steps, seen) :
     steps \in UNION {SignTested(step, 1) : step \in {Step("SUBPIECE", 1, <<V(1), K(k, 1)>>) : k \in 0..1} \cup {Step("INT_NEGATE", 1, <<V(2)>>)}
                              \cup {Step("INT_AND", 1, <<V(2), K(k, 1)>>) : k \in 1..3}}, seen \in {<<T(2)>>, <<T(2), T(1)>>}}
  \cup
  {Fragment(<<1, 1>>, steps, <<T(2)>>) : steps \in SignTested(Step("PIECE", 2, <<V(1), V(2)>>), 2)}
  \cup
  {Fragment(<<1, 1>>, <<Step("INT_AND", 1, <<V(1), K(j, 1)>>), Step("INT_AND", 1, <<V(2), K(k, 1)>>), Step(b, 1, <<T(1), T(2)>>), s>>, <<T(4)>>) :
     j \in 1..3, k \in {1}, b \in {"INT_ADD", "INT_OR", "INT_XOR"},
     s \in {Step("INT_SLESS", 1, <<T(3), K(0, 1)>>), Step("INT_SLESS", 1, <<K(3, 1), T(3)>>)}}
  \cup
  {Fragment(<<1>>, <<Step("INT_AND", 1, <<V(1), K(1, 1)>>), Step("INT_OR", 1, <<T(1), K(2, 1)>>), s>>, <<T(3)>>) :
     s \in {Step("INT_SLESS", 1, <<T(2), K(0, 1)>>), Step("INT_SLESS", 1, <<K(3, 1), T(2)>>)}}
  \cup
  {Fragment(<<1, 1>>, <<ConditionOp(1), Step("INT_LEFT", 1, <<T(1), K(1, 1)>>), Step("INT_SLESS", 1, <<K(3, 1), T(2)>>)>>, <<T(3)>>)}
EquationShapes ==
  {Fragment(<<1, 1>>, <<Step("INT_MULT", 1, <<V(1), K(m, 1)>>), Step("INT_ADD", 1, x), Step(c, 1, y)>>, seen) :
     m \in {2, 3}, x \in {<<T(1), V(2)>>, <<V(2), T(1)>>, <<V(1), K(1, 1)>>}, c \in Equalities, y \in {<<T(2), K(0, 1)>>, <<K(0, 1), T(2)>>},
     seen \in {<<T(3)>>, <<T(3), T(2)>>}}
  \cup
  {Fragment(<<1>>, <<s, Step(c, 1, <<T(1), K(k, 1)>>), Step("INT_EQUAL", 1, <<T(1), K(1, 1)>>)>>, <<T(2), T(3)>>) :
     s \in {Step("INT_ADD", 1, <<V(1), K(1, 1)>>), Step("INT_ADD", 1, <<V(1), K(3, 1)>>), Step("INT_MULT", 1, <<V(1), K(3, 1)>>), Step("INT_NEGATE", 1, <<V(1)>>)},
     c \in Equalities \cup {"INT_LESS"}, k \in 0..3}
  \cup
  {Fragment(<<1, 1>>, <<Step("INT_2COMP", 1, <<V(1)>>), Step("INT_ADD", 1, x)>>, <<T(2)>>) :
     x \in {<<T(1), V(2)>>, <<V(2), T(1)>>, <<V(1), T(1)>>}}
  \cup
  {Fragment(<<2>>, <<Step("INT_ADD", 2, <<V(1), K(k, 2)>>)>>, <<T(1)>>) : k \in {7, 8, 11, 12, 14, 15}}
  \cup
  {Fragment(<<3>>, <<Step("SUBPIECE", size, <<V(1), K(1, 1)>>), Step(c, size, <<T(1), K(k, 2)>>)>>, seen) :
     size \in {1, 2}, c \in {"INT_RIGHT", "INT_SRIGHT"}, k \in {1, 3, 4}, seen \in {<<T(2)>>, <<T(2), T(1)>>}}
\* Three-way comparisons: the pair of comparisons, the sum and the test.
Pairs == {<<Step(c[1], 1, <<V(1), V(2)>>), Step(c[2], 1, <<V(1), V(2)>>)>> :
            c \in {<<"INT_LESS", "INT_LESSEQUAL">>, <<"INT_SLESSEQUAL", "INT_SLESS">>, <<"INT_LESS", "INT_SLESS">>, <<"INT_LESS", "INT_LESS">>}}
         \cup {<<Step("INT_LESS", 1, <<V(1), K(j, 1)>>), Step("INT_LESS", 1, <<V(1), K(k, 1)>>)>> : j \in 1..3, k \in 1..3}
         \cup {<<Step("INT_LESS", 1, <<K(j, 1), V(1)>>), Step("INT_LESS", 1, <<K(k, 1), V(1)>>)>> : j \in 0..2, k \in 0..2}
         \cup {<<Step("INT_SLESS", 1, <<K(2, 1), V(1)>>), Step("INT_SLESSEQUAL", 1, <<K(2, 1), V(1)>>)>>}
Sums == {<<Step("INT_ADD", 2, <<T(3), T(4)>>), Step("INT_ADD", 2, <<T(5), K(k, 2)>>)>> : k \in {15, 14}}
        \cup {<<Step("INT_ADD", 2, <<T(3), K(15, 2)>>), Step("INT_ADD", 2, x)>> : x \in {<<T(5), T(4)>>, <<T(4), T(5)>>}}
        \cup {<<Step("COPY", 2, <<T(4)>>), Step("INT_ADD", 2, <<T(3), T(4)>>)>>}
Tests == {Step(c, 1, IF right THEN <<T(6), K(k, 2)>> ELSE <<K(k, 2), T(6)>>) :
            c \in {"INT_SLESS", "INT_SLESSEQUAL", "INT_EQUAL", "INT_NOTEQUAL"}, k \in {0, 1, 2, 3, 15}, right \in BOOLEAN}
ThreeWay(pair, sum, test) ==
  Fragment(<<1, 1>>, pair \o <<Step("INT_ZEXT", 2, <<T(1)>>), Step("INT_ZEXT", 2, <<T(2)>>)>> \o sum \o <<test>>, <<T(7)>>)
ThreeWayShapes ==
  {ThreeWay(<<Step("INT_LESS", 1, <<V(1), V(2)>>), Step("INT_LESSEQUAL", 1, <<V(1), V(2)>>)>>, sum, test) : sum \in Sums, test \in Tests}
  \cup
  {ThreeWay(pair, sum, Step("INT_SLESS", 1, <<T(6), K(1, 2)>>)) : pair \in Pairs, sum \in Sums}
BitShapes ==
  {Fragment(<<1, 1>>, <<ConditionOp(1), Step("INT_EQUAL", 1, <<V(2), K(1, 1)>>), Step("INT_ZEXT", 2, <<T(1)>>), Step("INT_ZEXT", 2, <<T(2)>>),
                        Step("INT_LEFT", 2, <<T(3), K(k, 1)>>), Step(b, 2, <<T(4), T(5)>>), Step("POPCOUNT", 1, <<T(6)>>),
                        Step("INT_AND", 1, <<T(7), K(1, 1)>>)>>, <<T(8)>>) :
     k \in 0..3, b \in {"INT_XOR", "INT_OR"}}
  \cup
  {Fragment(<<1, 1>>, <<ConditionOp(1), Step("PIECE", 2, x), s, Step("POPCOUNT", 1, <<T(3)>>), Step("INT_AND", 1, <<T(4), K(1, 1)>>)>>, <<T(5)>>) :
     x \in {<<T(1), K(k, 1)>> : k \in 0..2} \cup {<<K(1, 1), T(1)>>, <<K(0, 1), T(1)>>, <<V(1), T(1)>>},
     s \in {Step("COPY", 2, <<T(2)>>), Step("INT_AND", 2, <<T(2), K(5, 2)>>), Step("INT_AND", 2, <<T(2), T(2)>>),
            Step("SUBPIECE", 1, <<T(2), K(0, 1)>>), Step("SUBPIECE", 1, <<T(2), K(1, 1)>>),
            Step("INT_RIGHT", 2, <<T(2), K(2, 1)>>), Step("INT_RIGHT", 2, <<T(2), T(1)>>), Step("INT_LEFT", 2, <<T(2), K(1, 1)>>), Step("INT_SEXT", 3, <<T(2)>>)}}
  \cup
  {Fragment(<<1, 1>>, <<Step("INT_XOR", 1, <<V(1), x>>), Step("INT_XOR", 1, y)>>, <<T(2)>>) :
     x \in {V(2), K(1, 1)}, y \in {<<T(1), V(1)>>, <<V(2), T(1)>>, <<V(1), T(1)>>}}
  \cup
  {Fragment(<<size>>, <<Step("LZCOUNT", 2, <<V(1)>>), Step(c, 2, <<T(1), K(k, 1)>>)>>, <<T(2)>>) :
     size \in 1..3, c \in {"INT_RIGHT", "INT_SRIGHT"}, k \in 1..3}
  \cup
  {Fragment(<<1>>, <<Step("LZCOUNT", 1, <<V(1)>>), Step("INT_RIGHT", 1, <<T(1), K(1, 1)>>)>>, <<T(2)>>)}
  \cup
  {Fragment(<<1, 1>>, <<Step("INT_OR", 1, <<V(1), x>>), Step(c, 1, <<T(1), K(k, 1)>>), Step(d, 1, <<T(1), K(0, 1)>>)>>, <<T(2), T(3)>>) :
     x \in {V(2), K(1, 1)}, c \in Equalities, k \in {0, 1}, d \in Equalities}
  \cup
  {Fragment(<<1>>, <<Step("INT_NEGATE", 1, <<V(1)>>), Step("INT_NEGATE", 1, <<T(1)>>)>>, <<T(2)>>)}
LateShapes == PartShapes \cup BranchShapes \cup BoundShapes \cup SignShapes \cup EquationShapes
                \cup ThreeWayShapes \cup BitShapes
----------------------------------------------------------------------------
MCInit ==
  /\ part \in Parts
  /\ \/ part = "arith" /\ InitFrom(ArithShapes)
     \/ part = "bits" /\ InitFrom(BitwiseShapes)
     \/ part = "merges" /\ InitFrom(MergeShapes)
     \/ part = "compare" /\ InitFrom(CompareShapes)
     \/ part = "late" /\ InitFrom(LateShapes)

Masks     == NonzeroMask /\ UNCHANGED part
DeadBits  == part \in {"bits", "merges", "compare"} /\ ActionDeadCode /\ UNCHANGED part
Copies    == part # "arith" /\ (\E o \in Ops : RulePropagateCopy(o)) /\ UNCHANGED part
Constants == part \in {"bits", "merges"} /\ (\E o \in Ops : RuleCollapseConstants(o)) /\ UNCHANGED part
Arith     == part = "arith" /\ ArithRules /\ UNCHANGED part
Simplify  == part \in {"bits", "merges"} /\ SimplifyRules /\ UNCHANGED part
Compare   == part = "compare" /\ CompareRules /\ UNCHANGED part
Late      == part = "late" /\ (PieceRules \/ LateRules) /\ UNCHANGED part

MCNext == Masks \/ DeadBits \/ Copies \/ Constants \/ Arith \/ Simplify \/ Compare \/ Late

MCSpec == MCInit /\ [][MCNext]_<<part, vars>>
----------------------------------------------------------------------------
\* After any sequence of rules the fragment is legal p-code and computes, for
\* every input, what it computed first (WellFormed and ValuesKept of Pcode).
FragmentsKept == WellFormed /\ ValuesKept

\* What the masks say is so: a bit outside the nonzero mask of a varnode is never
\* set (MasksSound of Pcode: op_get_nz_mask_local and the rules that carry masks
\* along), and no bit that ActionDeadCode takes to be unused matters to what is
\* observed (propagate_consumed).
MasksHold == MasksSound /\ (part = "bits" => UnconsumedBitsDontMatter)

\* Two varnodes that functional_equality takes to be equal are, and so are two
\* conditions that the boolean match takes for the same or for complements of
\* each other (expression.rs).
EqualPairsAreEqual == part = "merges" => EqualityIsSound /\ MatchIsSound
=============================================================================
