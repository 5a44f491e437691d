------------------------------- MODULE Pcode --------------------------------
(***************************************************************************)
(* The integer p-code operations: what each computes (opbehavior.rs), the  *)
(* bit helpers the rewrite rules are written with (address.rs), and the    *)
(* mask of bits that may be nonzero in a result (op.rs).                   *)
(*                                                                         *)
(* The code counts in 8-bit bytes and 64-bit words.  Both widths are       *)
(* constants here: a byte has BitsPerByte bits and a word WordBytes bytes, *)
(* so every 8 of the source that means "bits in a byte" is BitsPerByte and *)
(* every 8 that means "bytes in a u64" is WordBytes.  Varnodes may be      *)
(* wider than a word, as 16-byte ones are in the code: masks then stop at  *)
(* the word, and values do not.                                            *)
(***************************************************************************)
EXTENDS Integers, Sequences, FiniteSets, SequencesExt

CONSTANTS BitsPerByte, WordBytes, MaxBytes

ASSUME WidthAssumption ==
  /\ BitsPerByte \in Nat \ {0}
  /\ WordBytes \in Nat \ {0}
  /\ MaxBytes \in Nat /\ MaxBytes >= WordBytes

\* The result of an evaluation the code refuses ("Divide by 0").
NoValue == -1

MaxBits == BitsPerByte * MaxBytes
Bits(size) == BitsPerByte * size
Pow2 == [n \in 0..(2 * MaxBits) |-> 2^n]
SizeMask(size) == Pow2[Bits(size)] - 1
WordBits == Bits(WordBytes)

\* Bitwise conjunction, tabulated.
AndTable ==
  LET Bit(x, n) == (x \div Pow2[n]) % 2
      upto[n \in 0..MaxBits, x \in 0..SizeMask(MaxBytes), y \in 0..SizeMask(MaxBytes)] ==
        IF n = 0 THEN 0
        ELSE upto[n - 1, x, y] + Pow2[n - 1] * Bit(x, n - 1) * Bit(y, n - 1)
  IN  [x \in 0..SizeMask(MaxBytes) |-> [y \in 0..SizeMask(MaxBytes) |-> upto[MaxBits, x, y]]]
And(x, y) == AndTable[x][y]
Or(x, y) == x + y - And(x, y)
Xor(x, y) == x + y - 2 * And(x, y)
\* wrapping_shr, wrapping_shl: the amount is taken modulo the width of the word.
wrapping_shr(x, n) == x \div Pow2[n % WordBits]
wrapping_shl(x, n) == (x * Pow2[n % WordBits]) % Pow2[WordBits]
Shr(x, n) == IF n > MaxBits THEN 0 ELSE x \div Pow2[n]
----------------------------------------------------------------------------
\* address.rs

NoBit == -1
calc_mask(size) == SizeMask(IF size < WordBytes THEN size ELSE WordBytes)
calc_int_min(size) == Pow2[Bits(size) - 1]
pcode_right(val, sa) == IF sa \in 0..(WordBits - 1) THEN val \div Pow2[sa] ELSE 0
pcode_left(val, sa) == IF sa \in 0..(WordBits - 1) THEN (val * Pow2[sa]) % Pow2[WordBits] ELSE 0
uintb_negate(val, size) == calc_mask(size) - And(val, calc_mask(size))
signbit_negative(val, size) == (val \div Pow2[Bits(size) - 1]) % 2 = 1
Signed(val, size) ==
  IF signbit_negative(val, size) THEN (val % Pow2[Bits(size)]) - Pow2[Bits(size)]
                                 ELSE val % Pow2[Bits(size)]
Unsigned(num, size) == num % Pow2[Bits(size)]
sign_extend_size(val, sizein, sizeout) ==
  LET Cut(size) == IF size < WordBytes THEN size ELSE WordBytes
  IN  Unsigned(Signed(val, Cut(sizein)), Cut(sizeout))
SetBits(val) == {n \in 0..(MaxBits - 1) : (val \div Pow2[n]) % 2 = 1}
leastsigbit_set(val) ==
  IF val = 0 THEN NoBit ELSE CHOOSE n \in SetBits(val) : \A m \in SetBits(val) : n <= m
mostsigbit_set(val) ==
  IF val = 0 THEN NoBit ELSE CHOOSE n \in SetBits(val) : \A m \in SetBits(val) : n >= m
popcount(val) == Cardinality(SetBits(val))
coveringmask(val) == IF val = 0 THEN 0 ELSE Pow2[mostsigbit_set(val) + 1] - 1
\* minimalmask: the smallest of 1, 2, half a word and a word of bytes that holds val.
minimalmask(val) ==
  LET Holding == {size \in {1, 2, WordBytes \div 2, WordBytes} : val <= calc_mask(size)}
  IN  calc_mask(CHOOSE size \in Holding : \A other \in Holding : size <= other)
bit_transitions(val, size) ==
  Cardinality({n \in 1..(Bits(size) - 1) :
                 (val \div Pow2[n]) % 2 # (val \div Pow2[n - 1]) % 2})
----------------------------------------------------------------------------
\* opbehavior.rs: the value an operation computes.

Truth(b) == IF b THEN 1 ELSE 0
Quotient(num, denom) ==      \* truncating division
  LET Abs(i) == IF i < 0 THEN -i ELSE i
  IN  IF (num < 0) = (denom < 0) THEN Abs(num) \div Abs(denom) ELSE -(Abs(num) \div Abs(denom))

Comparisons == {"INT_EQUAL", "INT_NOTEQUAL", "INT_SLESS", "INT_SLESSEQUAL", "INT_LESS", "INT_LESSEQUAL"}
Carries == {"INT_CARRY", "INT_SCARRY", "INT_SBORROW"}
BoolOps == {"BOOL_NEGATE", "BOOL_XOR", "BOOL_AND", "BOOL_OR"}
FloatComparisons == {"FLOAT_EQUAL", "FLOAT_NOTEQUAL", "FLOAT_LESS", "FLOAT_LESSEQUAL"}
BoolOutput == Comparisons \cup FloatComparisons \cup Carries \cup BoolOps
Unary == {"COPY", "INT_ZEXT", "INT_SEXT", "INT_2COMP", "INT_NEGATE", "BOOL_NEGATE", "POPCOUNT", "LZCOUNT"}
Shifts == {"INT_LEFT", "INT_RIGHT", "INT_SRIGHT"}

EvaluateExtension(code, sizeout, sizein, x) ==
  IF code = "INT_SEXT" THEN Unsigned(Signed(x, sizein), sizeout) ELSE x
EvaluateNegation(code, sizein, x) ==
  IF code = "INT_2COMP" THEN Unsigned(-x, sizein) ELSE SizeMask(sizein) - x
EvaluateCount(code, sizeout, sizein, x) ==
  Unsigned(IF code = "POPCOUNT" THEN popcount(x) ELSE Bits(sizein) - 1 - mostsigbit_set(x), sizeout)
evaluate_unary(code, sizeout, sizein, x) ==
  CASE code = "COPY" -> x
    [] code \in {"INT_ZEXT", "INT_SEXT"} -> EvaluateExtension(code, sizeout, sizein, x)
    [] code \in {"INT_2COMP", "INT_NEGATE"} -> EvaluateNegation(code, sizein, x)
    [] code = "BOOL_NEGATE" -> Xor(x, 1)
    [] code \in {"POPCOUNT", "LZCOUNT"} -> EvaluateCount(code, sizeout, sizein, x)

EvaluateComparison(code, sizein, x, y) ==
  Truth(CASE code = "INT_EQUAL"      -> x = y
          [] code = "INT_NOTEQUAL"   -> x # y
          [] code = "INT_SLESS"      -> Signed(x, sizein) < Signed(y, sizein)
          [] code = "INT_SLESSEQUAL" -> Signed(x, sizein) <= Signed(y, sizein)
          [] code = "INT_LESS"       -> x < y
          [] code = "INT_LESSEQUAL"  -> x <= y)
\* Floating point values are sign and magnitude; the largest magnitude is not a
\* number, and the two zeroes are equal.
FloatRank(val, size) ==
  LET magnitude == val % Pow2[Bits(size) - 1] IN IF signbit_negative(val, size) THEN -magnitude ELSE magnitude
FloatIsNan(val, size) == val % Pow2[Bits(size) - 1] = Pow2[Bits(size) - 1] - 1
EvaluateFloatComparison(code, sizein, x, y) ==
  LET ordered == ~FloatIsNan(x, sizein) /\ ~FloatIsNan(y, sizein)
      a == FloatRank(x, sizein)
      b == FloatRank(y, sizein)
  IN  Truth(CASE code = "FLOAT_EQUAL"     -> ordered /\ a = b
              [] code = "FLOAT_NOTEQUAL"  -> ~(ordered /\ a = b)
              [] code = "FLOAT_LESS"      -> ordered /\ a < b
              [] code = "FLOAT_LESSEQUAL" -> ordered /\ a <= b)
EvaluateCarry(code, sizein, x, y) ==
  LET exact == IF code = "INT_SBORROW" THEN Signed(x, sizein) - Signed(y, sizein)
                                       ELSE Signed(x, sizein) + Signed(y, sizein)
  IN  Truth(IF code = "INT_CARRY" THEN x + y > SizeMask(sizein)
            ELSE exact # Signed(Unsigned(exact, sizein), sizein))
EvaluateShift(code, sizeout, sizein, x, y) ==
  CASE code = "INT_LEFT"   -> IF y >= Bits(sizeout) THEN 0 ELSE Unsigned(x * Pow2[y], sizeout)
    [] code = "INT_RIGHT"  -> IF y >= Bits(sizeout) THEN 0 ELSE x \div Pow2[y]
    [] code = "INT_SRIGHT" -> Unsigned(Signed(x, sizein) \div
                                         Pow2[IF y >= Bits(sizeout) THEN Bits(sizeout) ELSE y], sizeout)
EvaluateDivision(code, sizeout, sizein, x, y) ==
  LET num == Signed(x, sizein)
      denom == Signed(y, sizein)
  IN  CASE y = 0 -> NoValue
        [] code = "INT_DIV"  -> x \div y
        [] code = "INT_REM"  -> x % y
        [] code = "INT_SDIV" -> Unsigned(Quotient(num, denom), sizeout)
        [] code = "INT_SREM" -> Unsigned(num - denom * Quotient(num, denom), sizeout)
        [] OTHER -> NoValue
Divisions == {"INT_DIV", "INT_REM", "INT_SDIV", "INT_SREM"}
EvaluateLogic(code, x, y) ==
  CASE code \in {"INT_XOR", "BOOL_XOR"} -> Xor(x, y)
    [] code \in {"INT_AND", "BOOL_AND"} -> And(x, y)
    [] code \in {"INT_OR", "BOOL_OR"}   -> Or(x, y)
Logic == {"INT_XOR", "BOOL_XOR", "INT_AND", "BOOL_AND", "INT_OR", "BOOL_OR"}
EvaluatePieces(code, sizeout, sizein, x, y) ==
  IF code = "PIECE" THEN Unsigned(x * Pow2[Bits(sizeout - sizein)] + y, sizeout)
                    ELSE Unsigned(Shr(x, Bits(y)), sizeout)
EvaluateSum(code, sizeout, x, y) == Unsigned(IF code = "INT_SUB" THEN x - y ELSE x + y, sizeout)
evaluate_binary(code, sizeout, sizein, x, y) ==
  CASE code \in Comparisons -> EvaluateComparison(code, sizein, x, y)
    [] code \in {"INT_ADD", "INT_SUB", "PTRSUB"} -> EvaluateSum(code, sizeout, x, y)
    [] code = "INT_MULT" -> Unsigned(x * y, sizeout)
    [] code \in Logic -> EvaluateLogic(code, x, y)
    [] code \in Shifts -> EvaluateShift(code, sizeout, sizein, x, y)
    [] code \in {"PIECE", "SUBPIECE"} -> EvaluatePieces(code, sizeout, sizein, x, y)
    [] code \in Carries -> EvaluateCarry(code, sizein, x, y)
    [] code \in FloatComparisons -> EvaluateFloatComparison(code, sizein, x, y)
    [] code \in Divisions -> EvaluateDivision(code, sizeout, sizein, x, y)

evaluate_ternary(sizeout, x, y, z) == Unsigned(x + y * z, sizeout)   \* PTRADD

\* What an operation with these inputs computes; NoValue from any undefined input.
Evaluate(code, sizeout, sizein, vals) ==
  IF \E i \in DOMAIN vals : vals[i] = NoValue THEN NoValue
  ELSE IF code \in Unary THEN evaluate_unary(code, sizeout, sizein, vals[1])
  ELSE IF code = "PTRADD" THEN evaluate_ternary(sizeout, vals[1], vals[2], vals[3])
  ELSE evaluate_binary(code, sizeout, sizein, vals[1], vals[2])
----------------------------------------------------------------------------
\* opbehavior.rs: recovering an input from the output (recover_input_unary and
\* recover_input_binary), NoValue where the code says "Output is not in range".
\* Sizes are at most a word here.

RecoverExtension(code, sizeout, out, sizein) ==
  LET long == calc_mask(sizeout)
      short == calc_mask(sizein)
      negative == And(out, Xor(short, Shr(short, 1))) # 0
  IN  IF code = "INT_SEXT" /\ negative
      THEN IF And(out, Xor(long, short)) # Xor(long, short) THEN NoValue ELSE And(out, short)
      ELSE IF And(out, short) # out THEN NoValue ELSE out
recover_input_unary(code, sizeout, out, sizein) ==
  CASE code = "COPY" -> out
    [] code \in {"INT_ZEXT", "INT_SEXT"} -> RecoverExtension(code, sizeout, out, sizein)
    [] code \in {"INT_2COMP", "INT_NEGATE"} -> EvaluateNegation(code, sizein, out)

RecoverSum(code, slot, sizeout, out, input) ==
  Unsigned(CASE code = "INT_ADD" -> out - input
             [] code = "INT_SUB" /\ slot = 0 -> input + out
             [] code = "INT_SUB" /\ slot # 0 -> input - out, sizeout)
MutRecoverLeft(sizeout, out, sa) ==    \* mutant: off by one in the bits that must be zero
  IF sa >= Bits(sizeout) THEN NoValue
  ELSE IF And(wrapping_shl(out, Bits(sizeout) - sa - 1), calc_mask(sizeout)) # 0 THEN NoValue
  ELSE wrapping_shr(out, sa)
RecoverLeft(sizeout, out, sa) ==
  IF sa >= Bits(sizeout) THEN NoValue
  ELSE IF And(wrapping_shl(out, Bits(sizeout) - sa), calc_mask(sizeout)) # 0 THEN NoValue
  ELSE wrapping_shr(out, sa)
RecoverRight(sizeout, out, sizein, sa) ==
  IF sa >= Bits(sizeout) THEN NoValue
  ELSE IF wrapping_shr(out, Bits(sizein) - sa) # 0 THEN NoValue
  ELSE wrapping_shl(out, sa)
RecoverSright(sizeout, out, sizein, sa) ==
  LET top == wrapping_shr(out, Bits(sizein) - sa - 1)
      count == Cardinality({n \in 0..sa : (top \div Pow2[n]) % 2 = 1})
  IN  IF sa >= Bits(sizeout) THEN NoValue
      ELSE IF count # sa + 1 THEN NoValue
      ELSE wrapping_shl(out, sa)
recover_input_binary(code, slot, sizeout, out, sizein, input) ==
  CASE code \in {"INT_ADD", "INT_SUB"} -> RecoverSum(code, slot, sizeout, out, input)
    [] code \in Shifts /\ slot # 0 -> NoValue
    [] code = "INT_LEFT" -> RecoverLeft(sizeout, out, input)
    [] code = "INT_RIGHT" -> RecoverRight(sizeout, out, sizein, input)
    [] code = "INT_SRIGHT" -> RecoverSright(sizeout, out, sizein, input)
----------------------------------------------------------------------------
\* op.rs: the bits of the output that may be nonzero, from those of the
\* inputs.  ins is the sequence of inputs, each with its size, its mask nzm
\* and, for a constant, its value (val is NoValue otherwise).

MultMask(size, m, n) ==
  LET l1 == leastsigbit_set(m)
      l2 == leastsigbit_set(n)
      width1 == mostsigbit_set(m) - l1 + 1
      width2 == mostsigbit_set(n) - l2 + 1
      total == width1 + width2 - Truth(width1 = 1 \/ width2 = 1)
      kept == IF total < Bits(size) THEN Shr(calc_mask(size), Bits(size) - total) ELSE calc_mask(size)
  IN  IF size > WordBytes THEN calc_mask(size)
      ELSE IF m = 0 \/ n = 0 \/ l1 + l2 >= Bits(size) THEN 0
      ELSE And((kept * Pow2[l1 + l2]) % Pow2[WordBits], calc_mask(size))

RightMask(in, sa) ==
  LET shifted == pcode_right(in.nzm, sa)
  IN  IF in.size <= WordBytes THEN shifted
      ELSE IF sa >= Bits(in.size) THEN 0
      ELSE IF sa >= WordBits THEN Shr(calc_mask(in.size - WordBytes), sa - WordBits)
      ELSE IF sa = 0 THEN SizeMask(WordBytes)
      ELSE Or(shifted, SizeMask(WordBytes) - (Pow2[WordBits - sa] - 1))

SubpieceMask(size, in, least) ==
  And(calc_mask(size),
      IF least < WordBytes
      THEN Or(Shr(in.nzm, Bits(least)),
              IF in.size > WordBytes /\ least > 0
              THEN (calc_mask(size) * Pow2[Bits(WordBytes - least)]) % Pow2[WordBits] ELSE 0)
      ELSE IF in.size <= WordBytes THEN 0 ELSE calc_mask(size))

op_get_nz_mask_local(code, size, ins) ==
  LET full == calc_mask(size)
      m == ins[1].nzm
      n == ins[2].nzm
      k == ins[2].val
  IN  CASE code \in BoolOutput -> 1
        [] code \in {"COPY", "INT_ZEXT"} -> m
        [] code = "INT_SEXT" -> sign_extend_size(m, ins[1].size, size)
        [] code \in {"INT_XOR", "INT_OR"} -> IF m # full THEN Or(m, n) ELSE m
        [] code = "INT_AND" -> And(m, n)
        [] code = "INT_LEFT" -> IF k = NoValue THEN full ELSE And(pcode_left(m, k), full)
        [] code = "INT_RIGHT" -> IF k = NoValue THEN full ELSE RightMask(ins[1], k)
        [] code = "INT_SRIGHT" ->
             IF k = NoValue \/ size > WordBytes THEN full
             ELSE IF And(m, Xor(full, Shr(full, 1))) = 0 THEN pcode_right(m, k)
             ELSE Or(pcode_right(m, k), Xor(Shr(full, k % WordBits), full))
        [] code = "INT_DIV" -> IF k = NoValue \/ n = 0 THEN coveringmask(m)
                               ELSE Shr(coveringmask(m), mostsigbit_set(n))
        [] code = "INT_REM" -> coveringmask((n - 1) % Pow2[WordBits])
        [] code = "POPCOUNT" -> And(coveringmask(popcount(m)), full)
        [] code = "LZCOUNT" -> And(coveringmask(Bits(ins[1].size)), full)
        [] code = "SUBPIECE" -> SubpieceMask(size, ins[1], k)
        [] code = "PIECE" ->
             Or(IF ins[2].size < WordBytes THEN (m * Pow2[Bits(ins[2].size)]) % Pow2[WordBits] ELSE 0, n)
        [] code = "INT_MULT" -> MultMask(size, m, n)
        [] code = "MULTIEQUAL" -> Or(m, n)
        [] code = "INT_ADD" ->
             IF m = full THEN m
             ELSE And(full, IF And(m, n) = 0 THEN Or(m, n)
                            ELSE Or(Or(m, n), (2 * Or(m, n)) % Pow2[WordBits]))
        [] OTHER -> full
-----------------------------------------------------------------------------
(***************************************************************************)
(* A fragment of a function in static single assignment form: straight-    *)
(* line p-code over a few input varnodes, ending in an operation "SINK"    *)
(* that stands for whatever observes the result (a STORE, a CALL or a      *)
(* RETURN), which no rule rewrites.  The rewrite rules of ruleaction/ are  *)
(* actions on this state.                                                  *)
(*                                                                         *)
(* A fragment may hold one operation "BRANCH", which ends its first basic  *)
(* block: control then passes along one of two empty blocks to the block   *)
(* of the remaining operations, at whose start a MULTIEQUAL reads its      *)
(* first input on one path and its second on the other.  With "CBRANCH"    *)
(* in its place a boolean varnode decides the path, and one of the two     *)
(* edges may lead to the last block directly.                              *)
(*                                                                         *)
(* The module has the queries the rules are guarded by and the editing     *)
(* primitives of funcdata_op.rs and funcdata_varnode.rs they are made of.  *)
(* An edit maps a graph to a graph, so that a rule reads like the sequence *)
(* of calls it makes.  (PcodeGraph shows that the primitives keep the two  *)
(* directions of every edge in step; here only the operand direction is    *)
(* kept and the readers of a varnode are derived.)                         *)
(***************************************************************************)

VARIABLES
  g,      \* the fragment: see Graph below
  want    \* what the sink read before any rule was applied, for every input

vars == <<g, want>>

\* A graph is a record of
\*   vns   - the varnodes: [kind, size, val, nzm, consume, def]; a constant has
\*           a value, a written varnode the operation that defines it (0 for the
\*           others); nzm are the bits that may be nonzero, consume those some
\*           reader depends on
\*   ops   - the operations ever made: [code, in, out]; out is 0 for the sink
\*   order - the live operations, in execution order
\*   err   - "none", or why the pass over the rules ended with an error: "free"
\*           for "Free varnode has multiple descendants", "evaluation" for a
\*           constant division by zero, "pullsub" for "Undefined pullsub"
\*   flip  - whether the CBRANCH has the boolean flip set
\*   taken - the input of a MULTIEQUAL, 1 or 2, that belongs to its true edge
\*   inner - the inputs whose path goes through a block of its own
\*   precis_hi, precis_lo - the varnodes marked as the high or the low half of
\*           a double precision value
Kinds == {"const", "input", "spacebase", "written", "free"}
----------------------------------------------------------------------------
\* Queries.

LiveOps(gr) == ToSet(gr.order)
Reads(gr, v) == {r \in LiveOps(gr) \X (0..3) : r[2] < Len(gr.ops[r[1]].in) /\ gr.ops[r[1]].in[r[2] + 1] = v}
Sink(gr) == CHOOSE o \in LiveOps(gr) : gr.ops[o].code = "SINK"

Ops == LiveOps(g)
Code(o) == g.ops[o].code
NumIn(o) == Len(g.ops[o].in)
In(o, slot) == g.ops[o].in[slot + 1]
Out(o) == g.ops[o].out
Size(v) == g.vns[v].size
Val(v) == g.vns[v].val
Nzm(v) == g.vns[v].nzm
Def(v) == g.vns[v].def
Consume(v) == g.vns[v].consume
OutSize(o) == Size(Out(o))
IsConst(v) == g.vns[v].kind = "const"
IsWritten(v) == g.vns[v].kind = "written"
IsInput(v) == g.vns[v].kind \in {"input", "spacebase"}
IsSpacebase(v) == g.vns[v].kind = "spacebase"
IsFree(v) == g.vns[v].kind \in {"const", "free"}
IsHeritageKnown(v) == g.vns[v].kind # "free"
Descend(v) == Reads(g, v)
HasNoDescend(v) == Descend(v) = {}
\* lone_descend: the one operation reading v, 0 when there is not exactly one read.
Lone(v) == IF Cardinality(Descend(v)) = 1 THEN (CHOOSE r \in Descend(v) : TRUE)[1] ELSE 0
WrittenBy(v, codes) == IsWritten(v) /\ Code(Def(v)) \in codes
IsConstOf(v, k) == IsConst(v) /\ Val(v) = k
Position(gr, o) == CHOOSE i \in DOMAIN gr.order : gr.order[i] = o
Branches(gr) == {o \in LiveOps(gr) : gr.ops[o].code \in {"BRANCH", "CBRANCH"}}
Conditional(gr) == \E o \in LiveOps(gr) : gr.ops[o].code = "CBRANCH"
\* The basic block of a live operation: 0, or 1 after the branch.
Block(gr, o) == Cardinality({b \in Branches(gr) : Position(gr, b) < Position(gr, o)})
Assignments == {o \in Ops : Out(o) # 0}
Narrow(o) == OutSize(o) <= WordBytes
----------------------------------------------------------------------------
\* Editing.  An operand is an existing varnode, V(v), or a new constant of a
\* given size, K(val, size).

V(v) == [v |-> v]
K(val, size) == [val |-> val, size |-> size]
FullNzm == SizeMask(WordBytes)
\* The size the code gives shift amounts and SUBPIECE offsets: 4, half a word.
IntSize == (WordBytes + 2) \div 2
Varnode(kind, size, val, nzm, def) ==
  [kind |-> kind, size |-> size, val |-> val, nzm |-> nzm, consume |-> FullNzm, def |-> def]
NextOut(gr) == Len(gr.vns) + 1
NextOp(gr) == Len(gr.ops) + 1

\* new_constant, or duplicate_constant when the constant already has a reader.
AddConstant(gr, val, size) ==
  LET offset == val % Pow2[WordBits]
  IN  [gr EXCEPT !.vns = Append(@, Varnode("const", size, offset, offset, 0))]
Resolve(gr, operand) ==
  IF "v" \in DOMAIN operand
  THEN IF gr.vns[operand.v].kind = "const" /\ Reads(gr, operand.v) # {}
       THEN AddConstant(gr, gr.vns[operand.v].val, gr.vns[operand.v].size)
       ELSE gr
  ELSE AddConstant(gr, operand.val, operand.size)
\* The varnode of the operand, where made is Resolve(gr, operand).
Resolved(gr, made, operand) == IF made = gr THEN operand.v ELSE Len(made.vns)

\* The value of an expression, computed once and not at each use.
Evaluated(value) == CHOOSE x \in {value} : TRUE
\* A function on 1..n as the sequence it is.
AsSequence(f) == SubSeq(f, 1, Len(f))
\* op_set_input: reading a free varnode a second time is an error.
ReadBy(gr, o, v, slot) ==
  [gr EXCEPT !.ops[o].in = IF slot < Len(@) THEN [@ EXCEPT ![slot + 1] = v] ELSE Append(@, v),
             !.err = IF @ = "none" /\ gr.vns[v].kind = "free" /\ Reads(gr, v) # {} THEN "free" ELSE @]
ReadResolved(gr, made, o, operand, slot) == ReadBy(made, o, Resolved(gr, made, operand), slot)
SetInput(gr, o, operand, slot) ==
  IF "v" \in DOMAIN operand /\ slot < Len(gr.ops[o].in) /\ gr.ops[o].in[slot + 1] = operand.v THEN gr
  ELSE ReadResolved(gr, Resolve(gr, operand), o, operand, slot)
SetOpcode(gr, o, code) == [gr EXCEPT !.ops[o].code = code]
op_remove_input(gr, o, slot) == [gr EXCEPT !.ops[o].in = RemoveAt(@, slot + 1)]
InsertResolved(gr, made, o, operand, slot) ==
  [made EXCEPT !.ops[o].in = InsertAt(@, slot + 1, Resolved(gr, made, operand))]
op_insert_input(gr, o, operand, slot) == InsertResolved(gr, Resolve(gr, operand), o, operand, slot)
op_swap_input(gr, o, slot1, slot2) ==
  LET in == gr.ops[o].in
  IN  [gr EXCEPT !.ops[o].in = [in EXCEPT ![slot1 + 1] = in[slot2 + 1], ![slot2 + 1] = in[slot1 + 1]]]
RECURSIVE SetInputs(_, _, _, _)
SetInputs(gr, o, operands, slot) ==
  IF slot = Len(operands) THEN gr
  ELSE SetInputs(SetInput(gr, o, operands[slot + 1], slot), o, operands, slot + 1)
SetAllInput(gr, o, operands) == SetInputs([gr EXCEPT !.ops[o].in = <<>>], o, operands, 0)

\* new_op, op_set_opcode, new_unique_out (the varnode NextOut(gr)), op_set_input
\* for each operand and op_insert_before or op_insert_after, in the order of
\* every rule that makes an operation.
MakeOp(gr, code, size, operands) ==
  LET o == NextOp(gr)
      made == [gr EXCEPT !.vns = Append(@, Varnode("written", size, NoValue, FullNzm, o)),
                         !.ops = Append(@, [code |-> code, in |-> <<>>, out |-> NextOut(gr)])]
  IN  SetInputs(made, o, operands, 0)
op_insert(gr, o, pos) == [gr EXCEPT !.order = SubSeq(@, 1, pos - 1) \o <<o>> \o SubSeq(@, pos, Len(@))]
\* The first position from pos on at which o may stand: after the MULTIEQUALs.
SkipMultiequal(gr, o, pos) ==
  IF gr.ops[o].code = "MULTIEQUAL" THEN pos
  ELSE CHOOSE i \in pos..(Len(gr.order) + 1) :
         /\ \A j \in pos..(i - 1) : gr.ops[gr.order[j]].code = "MULTIEQUAL"
         /\ i <= Len(gr.order) => gr.ops[gr.order[i]].code # "MULTIEQUAL"
op_insert_before(gr, o, follow) == op_insert(gr, o, Position(gr, follow))
op_insert_after(gr, o, prev) == op_insert(gr, o, SkipMultiequal(gr, o, Position(gr, prev) + 1))
op_insert_begin(gr, o, block) ==
  LET first == IF block = 0 THEN 1 ELSE Position(gr, CHOOSE b \in Branches(gr) : TRUE) + 1
  IN  op_insert(gr, o, SkipMultiequal(gr, o, first))
NewBefore(gr, follow, code, size, operands) ==
  op_insert_before(MakeOp(gr, code, size, operands), NextOp(gr), follow)
NewAfter(gr, prev, code, size, operands) ==
  op_insert_after(MakeOp(gr, code, size, operands), NextOp(gr), prev)
NewBegin(gr, block, code, size, operands) ==
  op_insert_begin(MakeOp(gr, code, size, operands), NextOp(gr), block)

op_unset_output(gr, o) ==
  IF gr.ops[o].out = 0 THEN gr
  ELSE [gr EXCEPT !.vns[gr.ops[o].out].kind = "free", !.vns[gr.ops[o].out].def = 0, !.ops[o].out = 0]
SetOutput(gr, o, v) ==
  LET cleared == op_unset_output(gr, o)
      taken == IF cleared.vns[v].def = 0 THEN cleared ELSE op_unset_output(cleared, cleared.vns[v].def)
  IN  IF gr.ops[o].out = v THEN gr
      ELSE [taken EXCEPT !.vns[v].kind = "written", !.vns[v].def = o, !.ops[o].out = v]
op_uninsert(gr, o) == [gr EXCEPT !.order = SelectSeq(@, LAMBDA p : p # o)]
op_destroy(gr, o) ==
  op_uninsert([op_unset_output(gr, o) EXCEPT !.ops[o].in = <<>>], o)
\* Turning an operation into a COPY of one of its inputs, or of something else.
ToCopy(gr, o, dropped) == SetOpcode(op_remove_input(gr, o, dropped), o, "COPY")
CopyOf(gr, o, operand) == SetOpcode(SetInput([gr EXCEPT !.ops[o].in = SubSeq(@, 1, 1)], o, operand, 0), o, "COPY")
\* total_replace: every read of v becomes a read of the operand.
RECURSIVE ReplaceReads(_, _, _)
ReplaceReads(gr, reads, operand) ==
  IF reads = {} THEN gr
  ELSE LET r == CHOOSE x \in reads : TRUE
       IN  ReplaceReads(SetInput(gr, r[1], operand, r[2]), reads \ {r}, operand)
total_replace(gr, v, operand) == ReplaceReads(gr, Reads(gr, v), operand)
----------------------------------------------------------------------------
\* Nonzero masks of a whole fragment (calc_nz_mask), in execution order.
MaskInputs(gr, o) == [i \in DOMAIN gr.ops[o].in |-> gr.vns[gr.ops[o].in[i]]]
WithMask(gr, o) ==
  IF gr.ops[o].out = 0 THEN gr
  ELSE [gr EXCEPT !.vns[gr.ops[o].out].nzm =
          op_get_nz_mask_local(gr.ops[o].code, gr.vns[gr.ops[o].out].size, MaskInputs(gr, o))]
UnwrittenMask(vn) ==
  CASE vn.kind = "spacebase" -> [vn EXCEPT !.nzm = calc_mask(vn.size) - calc_mask(1)]
    [] vn.kind \in {"input", "free"} -> [vn EXCEPT !.nzm = calc_mask(vn.size)]
    [] OTHER -> vn
UnwrittenMasks(gr) ==
  [gr EXCEPT !.vns = AsSequence([v \in DOMAIN gr.vns |->
     IF Reads(gr, v) # {} THEN UnwrittenMask(gr.vns[v]) ELSE gr.vns[v]])]
calc_nz_mask(gr) == FoldLeft(LAMBDA acc, o : Evaluated(WithMask(acc, o)), UnwrittenMasks(gr), gr.order)
----------------------------------------------------------------------------
\* Building fragments.  sizes are the sizes of the inputs, which are V(1),
\* V(2), ...; a step is [code, size, in], where an operand T(j) is the result
\* of step j; seen are the operands the sink reads.
T(j) == [t |-> j]
Branch == [code |-> "BRANCH", size |-> 0, in |-> <<>>]
CBranch(cond, flip, taken, inner) ==
  [code |-> "CBRANCH", in |-> <<cond>>, flip |-> flip, taken |-> taken, inner |-> inner]
Step(code, size, in) == [code |-> code, size |-> size, in |-> in]
Placed(gr, operand) == IF "t" \in DOMAIN operand THEN V(gr.ops[operand.t].out) ELSE operand
AddStep(gr, step) ==
  LET operands == [i \in DOMAIN step.in |-> Placed(gr, step.in[i])]
      edges == IF step.code = "CBRANCH" THEN [gr EXCEPT !.flip = step.flip, !.taken = step.taken, !.inner = step.inner] ELSE gr
      made == IF step.code \in {"BRANCH", "CBRANCH"}
              THEN SetInputs([edges EXCEPT !.ops = Append(@, [code |-> step.code, in |-> <<>>, out |-> 0])],
                             NextOp(gr), operands, 0)
              ELSE MakeOp(gr, step.code, step.size, operands)
  IN  [made EXCEPT !.order = Append(@, NextOp(gr))]
AddSink(gr, seen) ==
  LET o == NextOp(gr)
      made == [gr EXCEPT !.ops = Append(@, [code |-> "SINK", in |-> <<>>, out |-> 0])]
  IN  [SetInputs(made, o, [i \in DOMAIN seen |-> Placed(gr, seen[i])], 0) EXCEPT !.order = Append(@, o)]
Inputs(kinds, sizes) ==
  [vns |-> AsSequence([i \in DOMAIN sizes |-> Varnode(kinds[i], sizes[i], NoValue, FullNzm, 0)]),
   ops |-> <<>>, order |-> <<>>, err |-> "none", flip |-> FALSE, taken |-> 1, inner |-> {1, 2},
   precis_hi |-> {}, precis_lo |-> {}]
FragmentOf(kinds, sizes, steps, seen) ==
  [kinds |-> kinds, sizes |-> sizes, steps |-> steps, seen |-> seen]
Fragment(sizes, steps, seen) == FragmentOf([i \in DOMAIN sizes |-> "input"], sizes, steps, seen)
Built(f) ==
  calc_nz_mask(AddSink(FoldLeft(LAMBDA acc, step : Evaluated(AddStep(acc, step)), Inputs(f.kinds, f.sizes), f.steps), f.seen))
----------------------------------------------------------------------------
\* What a fragment computes.
Leaves(gr) == {v \in DOMAIN gr.vns : gr.vns[v].kind \in {"input", "spacebase", "free"}}
RECURSIVE Value(_, _, _), Path(_, _)
Path(gr, env) ==
  LET cond == gr.ops[CHOOSE b \in Branches(gr) : TRUE].in[1]
  IN  IF ~Conditional(gr) THEN env[Len(env)]
      ELSE IF (Value(gr, env, cond) # 0) # gr.flip THEN gr.taken ELSE 3 - gr.taken
Value(gr, env, v) ==
  LET vn == gr.vns[v]
      op == gr.ops[vn.def]
  IN  CASE vn.kind = "const" -> vn.val
        [] vn.kind = "written" /\ op.code = "MULTIEQUAL" -> Value(gr, env, op.in[Path(gr, env)])
        [] vn.kind = "written" /\ op.code # "MULTIEQUAL" -> Evaluate(op.code, vn.size, gr.vns[op.in[1]].size,
                                [i \in DOMAIN op.in |-> Value(gr, env, op.in[i])])
        [] OTHER -> env[v]
SinkValues(gr, env) == LET in == gr.ops[Sink(gr)].in IN [i \in DOMAIN in |-> Value(gr, env, in[i])]
\* Every assignment to the one, two or three inputs of a fragment, followed by
\* the path taken where there is a branch.  The code takes the low byte of the
\* stack pointer to be zero.
Domain(vn) == IF vn.kind = "spacebase" THEN {a \in 0..SizeMask(vn.size) : a % Pow2[Bits(1)] = 0}
              ELSE 0..SizeMask(vn.size)
Envs(gr) ==
  LET n == Cardinality(Leaves(gr))
      values == CASE n = 1 -> {<<a>> : a \in Domain(gr.vns[1])}
                  [] n = 2 -> Domain(gr.vns[1]) \X Domain(gr.vns[2])
                  [] n = 3 -> Domain(gr.vns[1]) \X Domain(gr.vns[2]) \X Domain(gr.vns[3])
  IN  IF Branches(gr) = {} \/ Conditional(gr) THEN values ELSE {Append(env, path) : env \in values, path \in {1, 2}}
Wanted(gr) == [env \in Envs(gr) |-> SinkValues(gr, env)]

InitFrom(Shapes) == \E shape \in Shapes : /\ g = Built(shape)
                                            /\ want = Wanted(g)
Becomes(gr) == /\ g.err = "none"
               /\ g' = gr
               /\ UNCHANGED want
\* ActionNonzeroMask, which runs between two passes over the rules.
NonzeroMask == \E masked \in {calc_nz_mask(g)} : masked # g /\ Becomes(masked)
----------------------------------------------------------------------------
\* Every operand of an operation has the size its opcode asks for.
SameSizes == {"COPY", "INT_2COMP", "INT_NEGATE", "INT_ADD", "INT_SUB", "INT_XOR", "INT_AND", "INT_OR",
              "INT_MULT", "INT_DIV", "INT_SDIV", "INT_REM", "INT_SREM", "PTRSUB", "MULTIEQUAL"}
SizesAgree(o) ==
  LET size(slot) == Size(In(o, slot))
      code == Code(o)
  IN  CASE code \in SameSizes -> \A s \in 0..(NumIn(o) - 1) : size(s) = OutSize(o)
        [] code \in Comparisons \cup FloatComparisons \cup Carries -> size(0) = size(1) /\ OutSize(o) = 1
        [] code \in BoolOps -> OutSize(o) = 1 /\ \A s \in 0..(NumIn(o) - 1) : size(s) = 1
        [] code \in Shifts -> size(0) = OutSize(o)
        [] code \in {"INT_ZEXT", "INT_SEXT"} -> size(0) < OutSize(o)
        [] code = "PIECE" -> size(0) + size(1) = OutSize(o)
        [] code = "SUBPIECE" -> IsConst(In(o, 1)) /\ Val(In(o, 1)) + OutSize(o) <= size(0)
        [] OTHER -> TRUE

(* After any sequence of rules the fragment is still legal p-code: every    *)
(* written varnode is defined by a live operation before its readers (in    *)
(* the first block, for a MULTIEQUAL, and these start their block), only    *)
(* a varnode that never had a definition is read without one, and once, no  *)
(* edit failed, every constant fits its size (but for multipliers: a shift  *)
(* past the size of a varnode becomes a multiplication by a power of two    *)
(* that does not fit) and every operation's operands have the sizes its     *)
(* opcode asks for.                                                         *)
WellFormed ==
  /\ g.err \in {"none", "evaluation"}
  /\ \A o \in Ops : \A s \in 0..(NumIn(o) - 1) :
       /\ IsWritten(In(o, s)) => /\ Def(In(o, s)) \in Ops
                                 /\ Out(Def(In(o, s))) = In(o, s)
                                 /\ Position(g, Def(In(o, s))) < Position(g, o)
                                 /\ Code(o) = "MULTIEQUAL" => Block(g, Def(In(o, s))) = 0
       /\ IsConst(In(o, s)) /\ Code(o) # "INT_MULT" => Val(In(o, s)) <= calc_mask(Size(In(o, s)))
       /\ g.vns[In(o, s)].kind = "free" => /\ Cardinality(Descend(In(o, s))) = 1
                                           /\ \A env \in DOMAIN want : In(o, s) \in DOMAIN env
  /\ \A o \in Assignments : SizesAgree(o)
  /\ \A i \in DOMAIN g.order : Code(g.order[i]) = "MULTIEQUAL" => Code(g.order[i - 1]) \in {"BRANCH", "CBRANCH", "MULTIEQUAL"}

(* No sequence of rules changes what the sink observes: for every value of  *)
(* the inputs each value it reads is the one the original fragment computed *)
(* (where that one is defined: a division by zero may become anything).     *)
ValuesKept ==
  \A env \in DOMAIN want :
    LET now == SinkValues(g, env)
    IN  \A i \in DOMAIN now : want[env][i] # NoValue => now[i] = want[env][i]

(* The mask of possibly nonzero bits that op_get_nz_mask_local leaves on a  *)
(* varnode, and that rules then carry along without recomputing it, never   *)
(* misses a bit the varnode can have (only the low word is covered when the *)
(* varnode is wider than a word).                                           *)
MasksSound ==
  \A env \in DOMAIN want : \A o \in Assignments :
    LET val == Value(g, env, Out(o))
    IN  val # NoValue => And(val % Pow2[WordBits], FullNzm - And(Nzm(Out(o)), FullNzm)) = 0
=============================================================================
