----------------------------- MODULE MCDivision -----------------------------
(***************************************************************************)
(* Words of two bytes of two bits.  Part "rules" applies the rules of      *)
(* division.rs to fragments whose dividends have up to a word and whose    *)
(* products have up to two; part "numbers" divides every pair of two-word  *)
(* numbers; part "inputs" recovers the input of an operation from its      *)
(* output, as the code that walks a path backwards does.                   *)
(***************************************************************************)
EXTENDS RulesDivision, RulesArith

CONSTANT Parts
VARIABLES part, query, answer

RightShifts == {"INT_RIGHT", "INT_SRIGHT"}
\* The high word of a product, shifted, and its sign.
HighShapes ==
  {Fragment(<<2>>, <<Step(e, 4, <<V(1)>>), Step("INT_MULT", 4, IF left THEN <<K(y, 4), T(1)>> ELSE <<T(1), K(y, 4)>>),
                     Step("SUBPIECE", 2, <<T(2), K(2, 2)>>), Step(c, 2, <<T(3), K(k, 2)>>), Step("INT_SRIGHT", 2, <<z, K(3, 2)>>)>>, <<T(4), T(5)>>) :
     e \in Extensions, y \in {3, 6, 7}, left \in {FALSE}, c \in RightShifts, k \in 0..2, z \in {T(3), T(4)}}
  \cup
  {Fragment(<<2>>, <<Step(e, 4, <<V(1)>>), Step("INT_MULT", 4, <<T(1), K(y, 4)>>), Step("SUBPIECE", 2, <<T(2), K(2, 2)>>), Step(c, 2, <<T(3), K(k, 2)>>)>>, <<T(4)>>) :
     e \in Extensions, y \in {11, 13}, c \in RightShifts, k \in 0..2}
  \cup
  {Fragment(<<2>>, <<Step(e, 4, <<V(1)>>), Step("INT_MULT", 4, <<T(1), K(y, 4)>>), Step(c, 4, <<T(2), K(n, 2)>>), Step("SUBPIECE", 2, <<T(3), K(0, 2)>>)>>, <<T(4)>>) :
     e \in Extensions, y \in {6, 11, 13}, c \in RightShifts, n \in 4..6}
  \cup
  {Fragment(<<2>>, <<Step(e, 4, <<V(1)>>), Step(f, 4, k), Step("INT_MULT", 4, IF left THEN <<T(2), T(1)>> ELSE <<T(1), T(2)>>), Step("SUBPIECE", 2, <<T(3), K(2, 2)>>),
                     Step("INT_RIGHT", 2, <<T(4), K(1, 2)>>)>>, <<T(5)>>) :
     e \in Extensions, f \in {"INT_ZEXT", "INT_SEXT"}, left \in BOOLEAN, k \in {<<K(11, 2)>>, <<K(3, 1)>>}}
  \cup
  {Fragment(<<2>>, <<Step(e, 4, <<V(1)>>), Step("PIECE", 4, k), Step("INT_MULT", 4, IF left THEN <<T(2), T(1)>> ELSE <<T(1), T(2)>>), Step("SUBPIECE", 2, <<T(3), K(2, 2)>>),
                     Step("INT_RIGHT", 2, <<T(4), K(1, 2)>>)>>, <<T(5)>>) :
     e \in Extensions, left \in BOOLEAN, k \in {<<K(1, 2), K(6, 2)>>, <<K(5, 3), K(2, 1)>>}}
  \cup
  {Fragment(<<2>>, <<Step("INT_AND", 2, <<V(1), K(7, 2)>>), Step("INT_ZEXT", 3, <<T(1)>>), Step("INT_MULT", 3, <<T(2), K(y, 3)>>),
                     Step("SUBPIECE", 1, <<T(3), K(2, 2)>>)>>, <<T(4)>>) : y \in {3, 6}}
  \cup
  {Fragment(<<2>>, <<Step("INT_AND", 2, <<V(1), K(3, 2)>>), Step("INT_MULT", 2, <<T(1), K(y, 2)>>), Step("INT_RIGHT", 2, <<T(2), K(n, 2)>>)>>, <<T(3)>>) :
     y \in {3, 6}, n \in {2, 3}}
  \cup
  {Fragment(<<1>>, <<Step(e, 3, <<V(1)>>), Step("INT_MULT", 3, <<T(1), K(y, 3)>>), Step("SUBPIECE", 2, <<T(2), K(1, 2)>>),
                     Step(c, 2, <<T(3), K(1, 2)>>)>>, <<T(4)>>) : e \in Extensions, y \in {3, 6}, c \in RightShifts}
\* A product and a sum.
SumShapes ==
  {Fragment(<<2>>, <<Step(e, 4, <<V(1)>>), Step("INT_MULT", 4, <<T(1), K(y, 4)>>), Step("SUBPIECE", 2, <<T(2), K(2, 2)>>),
                     Step("INT_ADD", 2, IF left THEN <<T(3), V(1)>> ELSE <<V(1), T(3)>>), Step(c, 2, <<T(4), K(2, 2)>>)>>, <<T(5)>>) :
     e \in Extensions, y \in {3, 11, 13}, c \in RightShifts, left \in BOOLEAN}
  \cup
  {Fragment(<<2>>, <<Step(e, 4, <<V(1)>>), Step("INT_MULT", 4, <<T(1), K(y, 4)>>), Step("SUBPIECE", 2, <<T(2), K(2, 2)>>),
                     Step(c, 2, <<T(3), K(0, 2)>>), Step("INT_ADD", 2, <<T(4), V(1)>>)>>, <<T(5)>>) :
     e \in Extensions, y \in {3, 13}, c \in RightShifts}
  \cup
  {Fragment(<<1>>, <<Step("INT_ZEXT", 2, <<V(1)>>), Step("INT_MULT", 2, <<T(1), K(y, 2)>>), Step("SUBPIECE", 1, <<T(2), K(1, 2)>>),
                     Step("INT_ADD", 1, <<T(3), V(1)>>)>>, <<T(4)>>) : y \in {2, 3}}
  \cup
  {Fragment(<<2>>, <<Step("INT_AND", 2, <<V(1), K(7, 2)>>), Step("INT_ZEXT", 4, <<T(1)>>), Step("INT_MULT", 4, <<T(2), K(y, 4)>>), Step("SUBPIECE", 2, <<T(3), K(2, 2)>>),
                     Step("INT_MULT", 2, <<T(4), K(15, 2)>>), Step("INT_ADD", 2, IF left THEN <<T(5), T(1)>> ELSE <<T(1), T(5)>>),
                     Step("INT_RIGHT", 2, <<T(6), K(1, 2)>>),
                     Step("INT_ADD", 2, <<T(7), T(4)>>), Step("INT_RIGHT", 2, <<T(8), K(2, 2)>>)>>, <<T(9)>>) :
     y \in {3, 5}, left \in BOOLEAN}
\* Truncated shifts, signs, divisions.
SignShapes ==
  {Fragment(<<4>>, <<Step(c, 4, <<V(1), K(k, 2)>>), Step("SUBPIECE", size, <<T(1), K(cut, 2)>>)>>, <<T(2)>>) :
     c \in RightShifts, k \in {0, 2, 3, 4, 5, 6, 7}, size \in 1..2, cut \in 0..2}
  \cup
  {Fragment(<<2>>, <<Step("INT_AND", 2, <<V(1), K(k, 2)>>), Step(c, 2, <<T(1), K(3, 2)>>)>>, <<T(2)>>) :
     k \in {7, 15}, c \in {"INT_SDIV", "INT_SREM"}}
  \cup
  {Fragment(<<2>>, <<Step("INT_SRIGHT", 2, <<V(1), K(3, 2)>>), Step("INT_MULT", 2, <<T(1), K(15, 2)>>),
                     Step("INT_ADD", 2, IF left THEN <<T(2), V(1)>> ELSE <<V(1), T(2)>>), Step("INT_SRIGHT", 2, <<T(3), K(k, 2)>>)>>, <<T(4)>>) :
     left \in BOOLEAN, k \in {1, 2}}
  \cup
  {Fragment(<<2>>, <<Step(c, 2, <<V(1), K(j, 2)>>), Step(d, 2, <<T(1), K(k, 2)>>)>>, seen) :
     c \in {"INT_DIV", "INT_SDIV", "INT_RIGHT"}, d \in {"INT_DIV", "INT_SDIV"}, j \in 1..3, k \in 2..3, seen \in {<<T(2)>>, <<T(2), T(1)>>}}
  \cup
  {Fragment(<<2>>, <<Step("INT_SDIV", 2, <<V(1), K(j, 2)>>), Step("INT_SDIV", 2, <<T(1), K(k, 2)>>)>>, <<T(2)>>) : j \in {1, 2, 14, 15}, k \in {2, 14, 15}}
  \cup
  {Fragment(<<2>>, <<Step("INT_SEXT", 4, <<V(1)>>), Step("SUBPIECE", 2, <<T(1), K(k, 2)>>)>>, <<T(2)>>) : k \in 1..2}
  \cup
  {Fragment(<<2>>, <<Step("INT_SEXT", 4, <<V(1)>>), Step("INT_MULT", 4, IF left THEN <<K(y, 4), T(1)>> ELSE <<T(1), K(y, 4)>>),
                     Step("SUBPIECE", 2, <<T(2), K(2, 2)>>), Step("INT_SRIGHT", 2, <<T(3), K(3, 2)>>)>>, <<T(4)>>) : y \in {3, 5}, left \in BOOLEAN}
  \cup
  {Fragment(<<1, 1>>, <<Step("INT_SEXT", 2, <<V(1)>>), Step("INT_OR", 1, <<V(2), K(1, 1)>>), Step("INT_ZEXT", 2, <<T(2)>>), Step("INT_MULT", 2, <<T(3), T(1)>>),
                        Step("SUBPIECE", 1, <<T(4), K(1, 2)>>), Step("INT_SRIGHT", 1, <<T(5), K(1, 2)>>)>>, <<T(6)>>)}
  \cup
  {Fragment(<<2>>, <<Step("INT_SRIGHT", 2, <<V(1), K(3, 2)>>), Step("INT_RIGHT", 2, <<T(1), K(k, 2)>>), Step("INT_ADD", 2, IF left THEN <<T(2), V(1)>> ELSE <<V(1), T(2)>>),
                     Step("INT_AND", 2, <<T(3), K(m, 2)>>)>>, <<T(4)>>) : k \in {1, 2, 3}, m \in {8, 12, 14}, left \in BOOLEAN}
  \cup
  {Fragment(<<1, 1>>, <<Step(c, 1, <<V(1), d[1]>>), Step("INT_2COMP", 1, <<V(2)>>), Step("INT_MULT", 1, IF left THEN <<d[2], T(1)>> ELSE <<T(1), d[2]>>),
                        Step("INT_ADD", 1, IF left THEN <<T(3), V(1)>> ELSE <<V(1), T(3)>>)>>, <<T(4)>>) :
     c \in {"INT_DIV", "INT_SDIV"}, d \in {<<V(2), T(2)>>, <<K(2, 1), K(2, 1)>>, <<K(3, 1), K(1, 1)>>, <<K(3, 1), K(2, 1)>>}, left \in BOOLEAN}
\* Remainders by powers of two.
ModShapes ==
  {Fragment(<<2>>, <<Step("INT_SRIGHT", 2, <<V(1), K(3, 2)>>), Step("INT_RIGHT", 2, <<T(1), K(k, 2)>>), Step("INT_ADD", 2, IF left THEN <<T(2), V(1)>> ELSE <<V(1), T(2)>>),
                     Step("INT_AND", 2, <<T(3), K(m, 2)>>), Step("INT_MULT", 2, <<T(2), K(15, 2)>>), Step("INT_ADD", 2, IF left THEN <<T(4), T(5)>> ELSE <<T(5), T(4)>>)>>, <<T(6)>>) :
     k \in {1, 2, 3}, m \in {1, 3, 7}, left \in BOOLEAN}
  \cup
  {Fragment(<<2>>, <<Step("INT_SRIGHT", 2, <<V(1), K(3, 2)>>), Step("INT_RIGHT", 2, <<T(1), K(3, 2)>>),
                     Step("SUBPIECE", 1, <<V(1), K(0, 2)>>), Step("SUBPIECE", 1, <<V(1), K(1, 2)>>),
                     Step("INT_SRIGHT", 1, <<T(4), K(1, 2)>>), Step("INT_RIGHT", 1, <<T(5), K(1, 2)>>), Step("INT_ADD", 1, <<T(3), T(6)>>),
                     Step("INT_AND", 1, <<T(7), K(1, 1)>>), Step("INT_ZEXT", 2, <<T(8)>>), Step("INT_MULT", 2, <<T(2), K(15, 2)>>),
                     Step("INT_ADD", 2, <<T(9), T(10)>>)>>, <<T(11)>>)}
  \cup
  {Fragment(<<2>>, <<Step("INT_SRIGHT", 2, <<V(1), K(3, 2)>>), Step("INT_MULT", 2, <<T(1), K(15, 2)>>), Step("INT_ADD", 2, IF left THEN <<T(2), V(1)>> ELSE <<V(1), T(2)>>),
                     Step("INT_AND", 2, <<T(3), K(1, 2)>>), Step("INT_ADD", 2, IF left THEN <<T(4), T(1)>> ELSE <<T(1), T(4)>>)>>, <<T(5)>>) : left \in BOOLEAN}
  \cup
  {Fragment(<<2>>, <<Step("INT_SRIGHT", 2, <<V(1), K(3, 2)>>), Step("SUBPIECE", 1, <<V(1), K(0, 2)>>), Step("SUBPIECE", 1, <<V(1), K(1, 2)>>),
                     Step("INT_SRIGHT", 1, <<T(3), K(1, 2)>>), Step("INT_MULT", 1, <<T(4), K(3, 1)>>), Step("INT_ADD", 1, <<T(2), T(5)>>),
                     Step("INT_AND", 1, <<T(6), K(1, 1)>>), Step("INT_ZEXT", 2, <<T(7)>>), Step("INT_ADD", 2, <<T(8), T(1)>>)>>, <<T(9)>>)}
  \cup
  {Fragment(<<2>>, <<Step("INT_SRIGHT", 2, <<V(1), K(3, 2)>>), Step("INT_MULT", 2, <<T(1), K(15, 2)>>), Step("INT_ADD", 2, IF left THEN <<T(2), V(1)>> ELSE <<V(1), T(2)>>),
                     Step("INT_AND", 2, <<T(3), K(m, 2)>>), Step("INT_MULT", 2, <<T(4), K(15, 2)>>), Step("INT_ADD", 2, IF left THEN <<T(5), V(1)>> ELSE <<V(1), T(5)>>)>>, <<T(6)>>) :
     left \in BOOLEAN, m \in {14, 12}}
  \cup
  {Fragment(<<2>>, <<Step("INT_SLESS", 1, <<V(1), K(0, 2)>>), Step("INT_ADD", 2, <<V(1), K(3, 2)>>), CBranch(T(1), flip, taken, inner),
                     Step("MULTIEQUAL", 2, IF left THEN <<T(2), V(1)>> ELSE <<V(1), T(2)>>), Step("INT_AND", 2, <<T(4), K(12, 2)>>),
                     Step("INT_MULT", 2, <<T(5), K(15, 2)>>), Step("INT_ADD", 2, <<V(1), T(6)>>)>>, <<T(7)>>) :
     flip \in BOOLEAN, taken \in {1, 2}, left \in BOOLEAN, inner \in {{1}, {2}, {1, 2}}}
DivisionShapes == HighShapes \cup SumShapes \cup SignShapes \cup ModShapes
----------------------------------------------------------------------------
\* Every pair of two-word numbers.

Numbers == (0..(Word - 1)) \X (0..(Word - 1))
Number(num) == num[2] * Word + num[1]
Divide == /\ part = "numbers" /\ answer = <<>> /\ Number(query[2]) # 0
          /\ answer' = udiv128(query[1], query[2])
          /\ UNCHANGED <<part, query, g, want>>
----------------------------------------------------------------------------
\* Every operation, output and other operand.

Pending == -2
UnaryCodes == {"COPY", "INT_ZEXT", "INT_SEXT", "INT_2COMP", "INT_NEGATE"}
Resizing == {"INT_ZEXT", "INT_SEXT"}
BinaryCodes == {"INT_ADD", "INT_SUB"} \cup Shifts
Query(code, slot, sizeout, sizein, out, input) ==
  [code |-> code, slot |-> slot, sizeout |-> sizeout, sizein |-> sizein, out |-> out, input |-> input]
Queries ==
  {q \in {Query(code, 0, so, si, out, 0) : code \in UnaryCodes, so \in 1..WordBytes, si \in 1..WordBytes,
                                           out \in 0..SizeMask(WordBytes)} :
     /\ q.out <= SizeMask(q.sizeout)
     /\ IF q.code \in Resizing THEN q.sizein < q.sizeout ELSE q.sizein = q.sizeout}
  \cup
  {q \in {Query(code, slot, size, size, out, input) :
            code \in BinaryCodes, slot \in {0, 1}, size \in 1..WordBytes, out \in 0..SizeMask(WordBytes),
            input \in 0..(WordBits + 1)} :
     q.out <= SizeMask(q.sizeout) /\ q.input <= SizeMask(q.sizein)}

Forward(q, val) ==
  IF q.code \in UnaryCodes THEN evaluate_unary(q.code, q.sizeout, q.sizein, val)
  ELSE IF q.slot = 0 THEN evaluate_binary(q.code, q.sizeout, q.sizein, val, q.input)
  ELSE evaluate_binary(q.code, q.sizeout, q.sizein, q.input, val)

Recover == /\ part = "inputs" /\ answer = Pending
           /\ answer' = IF query.code \in UnaryCodes
                        THEN recover_input_unary(query.code, query.sizeout, query.out, query.sizein)
                        ELSE recover_input_binary(query.code, query.slot, query.sizeout, query.out,
                                                  query.sizein, query.input)
           /\ UNCHANGED <<part, query, g, want>>
Solutions(q) == {val \in 0..SizeMask(q.sizein) : Forward(q, val) = q.out}
----------------------------------------------------------------------------
MCInit ==
  /\ part \in Parts
  /\ \/ part = "rules" /\ InitFrom(DivisionShapes) /\ query = <<>> /\ answer = <<>>
     \/ part = "numbers" /\ query \in Numbers \X Numbers /\ answer = <<>> /\ g = <<>> /\ want = <<>>
     \/ part = "inputs" /\ query \in Queries /\ answer = Pending /\ g = <<>> /\ want = <<>>

Masks  == part = "rules" /\ NonzeroMask /\ UNCHANGED <<part, query, answer>>
Division == part = "rules" /\ DivisionRules /\ UNCHANGED <<part, query, answer>>

MCNext == Masks \/ Division \/ Divide \/ Recover

MCSpec == MCInit /\ [][MCNext]_<<part, query, answer, g, want>>
----------------------------------------------------------------------------
(* Every rule keeps the value of what the fragment computes, for every      *)
(* input, and leaves it well formed.                                        *)
QuotientsKept == part = "rules" => WellFormed /\ ValuesKept

(* What udiv128 returns is the quotient and the remainder, whatever the      *)
(* lengths of the two numbers and however often the guessed quotient digit   *)
(* of knuth_algorithm_d has to be corrected or added back.                   *)
UdivDivides ==
  part = "numbers" /\ answer # <<>> =>
    /\ Number(answer[1]) = Number(query[1]) \div Number(query[2])
    /\ Number(answer[2]) = Number(query[1]) % Number(query[2])

(* add128 and subtract128 are arithmetic modulo the square of the word, so   *)
(* that each undoes the other, and the comparisons are those of the numbers. *)
SumsWrap ==
  part = "numbers" /\ answer = <<>> =>
    LET a == query[1]
        b == query[2]
    IN  /\ Number(add128(a, b)) = (Number(a) + Number(b)) % (Word * Word)
        /\ Number(subtract128(a, b)) = (Number(a) - Number(b)) % (Word * Word)
        /\ uless128(a, b) <=> Number(a) < Number(b)
        /\ ulessequal128(a, b) <=> Number(a) <= Number(b)

(* A divisor that calc_divisor reports for a multiplier and a shift is       *)
(* exact: for every x of the given size, multiplying by the first number and *)
(* shifting right is dividing by it.  (The second gives the shift and size.) *)
DivisorIsExact ==
  part = "numbers" /\ answer = <<>> =>
    LET n == query[2][1]
        size == query[2][2]
    IN  n < 2 * WordBits /\ size \in 1..WordBits =>
          \A d \in {calc_divisor(n, query[1], size)} :
            d > NoDivisor => \A x \in 0..(Pow2[size] - 1) : (x * Number(query[1])) \div Pow2[n] = x \div d

(* The arithmetic by which a divisor is found is exact: the three properties *)
(* above together (multiprecision.rs, calc_divisor).                         *)
DivisorsExact == UdivDivides /\ SumsWrap /\ DivisorIsExact

(* Inverting an operation: an input that is recovered is one from which the *)
(* operation computes the output (INT_SRIGHT leaves bits above the size in  *)
(* it, which are cut here), and recover_input refuses an output only when   *)
(* no input produces it.  Not for the arithmetic right shift, for the       *)
(* second operand of a shift, for a shift past the size, or for a shift of  *)
(* a whole word by zero, where the test shifts by the width of the word.    *)
RecoveryIsExact ==
  part = "inputs" =>
    /\ answer \notin {Pending, NoValue} => answer % Pow2[Bits(query.sizein)] \in Solutions(query)
    /\ /\ answer = NoValue
       /\ query.code # "INT_SRIGHT"
       /\ query.code \in Shifts => /\ query.slot = 0 /\ query.input < Bits(query.sizeout)
                                   /\ ~(query.input = 0 /\ query.sizeout = WordBytes)
       => Solutions(query) = {}
=============================================================================
