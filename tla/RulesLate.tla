----------------------------- MODULE RulesLate ------------------------------
(***************************************************************************)
(* The rules of ruleaction/pointer.rs that do not look at data-types: the  *)
(* pieces of a value put together again, comparisons against zero and the  *)
(* bounds of a type, negated conditions, and the last rewrites of sums.    *)
(***************************************************************************)
EXTENDS Expressions

RuleHumptyDumpty(o) ==
  LET sub1 == Def(In(o, 0))
      sub2 == Def(In(o, 1))
      root == In(sub1, 0)
      pos2 == Val(In(sub2, 1))
  IN  /\ Code(o) = "PIECE" /\ WrittenBy(In(o, 0), {"SUBPIECE"}) /\ WrittenBy(In(o, 1), {"SUBPIECE"})
      /\ root = In(sub2, 0)
      /\ Val(In(sub1, 1)) = pos2 + Size(In(o, 1))
      /\ IF pos2 = 0 /\ Size(In(o, 0)) + Size(In(o, 1)) = Size(root) THEN Becomes(CopyOf(g, o, V(root)))
         ELSE Becomes(SetOpcode(SetInput(SetInput(g, o, V(root), 0), o, K(pos2, Size(In(sub2, 1))), 1), o, "SUBPIECE"))
\* SUBPIECE of a PIECE, within one of the two parts.
RuleDumptyHump(o) ==
  LET pieceop == Def(In(o, 0))
      low == In(pieceop, 1)
      offset == Val(In(o, 1))
      inlow == offset < Size(low)
      part == IF inlow THEN low ELSE In(pieceop, 0)
      rest == IF inlow THEN offset ELSE offset - Size(low)
  IN  /\ Code(o) = "SUBPIECE" /\ WrittenBy(In(o, 0), {"PIECE"})
      /\ inlow => offset + OutSize(o) <= Size(low)
      /\ IsConst(part) \/ ~IsFree(part)
      /\ IF rest = 0 /\ OutSize(o) = Size(part) THEN Becomes(CopyOf(g, o, V(part)))
         ELSE Becomes(SetInput(SetInput(g, o, V(part), 0), o, K(rest, IntSize), 1))
\* (a & b) | (a & c), with a and the other two named as the code finds them.
HumptyOrTerms(a, b, c, d) ==
  CASE a = c -> <<a, b, d>> [] a = d /\ a # c -> <<a, b, c>>
    [] b = c /\ a \notin {c, d} -> <<b, a, d>> [] b = d /\ b # c /\ a \notin {c, d} -> <<b, a, c>>
    [] OTHER -> <<>>
RuleHumptyOr(o) ==
  /\ Code(o) = "INT_OR" /\ WrittenBy(In(o, 0), {"INT_AND"}) /\ WrittenBy(In(o, 1), {"INT_AND"})
  /\ LET and1 == Def(In(o, 0))
         and2 == Def(In(o, 1))
         terms == HumptyOrTerms(In(and1, 0), In(and1, 1), In(and2, 0), In(and2, 1))
         a == terms[1]
         b == terms[2]
         c == terms[3]
         total == Or(Val(b), Val(c))
     IN  /\ terms # <<>>
         /\ IF IsConst(b) /\ IsConst(c)
            THEN IF total = calc_mask(Size(a)) THEN Becomes(CopyOf(g, o, V(a)))
                 ELSE Becomes(SetInput(SetInput(SetOpcode(g, o, "INT_AND"), o, V(a), 0), o, K(total, Size(a)), 1))
            ELSE /\ IsHeritageKnown(b) /\ IsHeritageKnown(c)
                 /\ And(Nzm(b), Nzm(a)) # 0 /\ And(Nzm(c), Nzm(a)) # 0
                 /\ Becomes(SetOpcode(SetInput(SetInput(NewBefore(g, o, "INT_OR", Size(a), <<V(b), V(c)>>),
                                                        o, V(a), 0), o, V(NextOut(g)), 1), o, "INT_AND"))
----------------------------------------------------------------------------
\* Conditions.

RuleCondNegate(o) ==
  /\ Code(o) = "CBRANCH" /\ g.flip
  /\ IF CanNormalizeFlip(o) THEN Becomes(op_normalize_flip(g, o))
     ELSE Becomes(op_flip_condition(SetInput(op_bool_negate(g, In(o, 0), o), o, V(NextOut(g)), 0)))
\* Every reader negates the value: compute the complement in its place.
RuleBoolNegate(o) ==
  LET readers == {r[1] : r \in Descend(In(o, 0))}
      flipped == Complemented(g, Def(In(o, 0)))
  IN  /\ Code(o) = "BOOL_NEGATE" /\ IsWritten(In(o, 0))
      /\ \A r \in readers : Code(r) = "BOOL_NEGATE"
      /\ CanComplement(Def(In(o, 0)))
      /\ Becomes([flipped EXCEPT !.ops = AsSequence([i \in DOMAIN @ |->
                    IF i \in readers THEN [flipped.ops[i] EXCEPT !.code = "COPY"] ELSE flipped.ops[i]])])
\* A comparison with the least or the greatest value of the type.
BoundTest(o, slot, greatest) ==
  LET k == In(o, slot)
  IN  /\ IsConst(k) /\ (slot = 1 => ~IsConst(In(o, 0)))
      /\ Val(k) = IF greatest THEN calc_mask(Size(k)) ELSE 0
RuleLess2Zero(o) ==
  /\ Code(o) = "INT_LESS"
  /\ \/ /\ BoundTest(o, 0, FALSE) \/ BoundTest(o, 1, TRUE)
        /\ Becomes(SetOpcode(g, o, "INT_NOTEQUAL"))
     \/ /\ BoundTest(o, 0, TRUE) \/ BoundTest(o, 1, FALSE)
        /\ Becomes(CopyOf(g, o, K(0, 1)))
RuleLessEqual2Zero(o) ==
  /\ Code(o) = "INT_LESSEQUAL"
  /\ \/ /\ BoundTest(o, 0, TRUE) \/ BoundTest(o, 1, FALSE)
        /\ Becomes(SetOpcode(g, o, "INT_EQUAL"))
     \/ /\ BoundTest(o, 0, FALSE) \/ BoundTest(o, 1, TRUE)
        /\ Becomes(CopyOf(g, o, K(1, 1)))
----------------------------------------------------------------------------
\* RuleSLess2Zero: x s< 0 and -1 s< x look at the top bit of x only, and so can
\* look at the varnode that bit comes from.

TopBit(v) == calc_mask(Size(v)) - Shr(calc_mask(Size(v)), 1)
NoOtherTopBit(v, top) == Nzm(v) = top \/ And(Nzm(v), top) = 0
get_hi_bit(op) ==
  LET top == TopBit(In(op, 0))
  IN  IF \/ Code(op) \notin {"INT_ADD", "INT_OR", "INT_XOR"}
         \/ ~NoOtherTopBit(In(op, 0), top) \/ ~NoOtherTopBit(In(op, 1), top)
      THEN 0
      ELSE IF Nzm(In(op, 0)) = top THEN In(op, 0)
      ELSE IF Nzm(In(op, 1)) = top THEN In(op, 1) ELSE 0
\* The sign test of v, x s< 0 for slot 0 and -1 s< x for slot 1.
SignTest(o, v, slot) ==
  SetInput(SetInput(g, o, V(v), slot), o, K(IF slot = 1 THEN calc_mask(Size(v)) ELSE 0, Size(v)), 1 - slot)
RuleSLess2Zero(o) ==
  /\ Code(o) = "INT_SLESS"
  /\ \E slot \in 0..1 :
     LET x == In(o, slot)
         k == In(o, 1 - slot)
         feed == Def(x)
         a == In(feed, 0)
     IN  /\ IsConst(k) /\ (slot = 0 => ~IsConst(x)) /\ IsWritten(x)
         /\ Val(k) = IF slot = 1 THEN calc_mask(Size(k)) ELSE 0
         /\ \/ /\ get_hi_bit(feed) # 0
               /\ LET hibit == get_hi_bit(feed)
                      read == SetInput(g, o, V(hibit), slot)
                  IN  Becomes(IF slot = 1 THEN SetInput(SetOpcode(read, o, "INT_EQUAL"), o, K(0, Size(hibit)), 0)
                              ELSE SetOpcode(read, o, "INT_NOTEQUAL"))
            \/ /\ Code(feed) = "SUBPIECE" /\ ~IsFree(a) /\ Size(a) <= WordBytes
               /\ Size(x) + Val(In(feed, 1)) = Size(a)
               /\ Becomes(SignTest(o, a, slot))
            \/ /\ Code(feed) = "INT_NEGATE" /\ ~IsFree(a)
               /\ Becomes(SignTest(o, a, 1 - slot))
            \/ /\ Code(feed) = "INT_AND" /\ ~IsFree(a) /\ Lone(x) # 0
               /\ IsConst(In(feed, 1)) /\ wrapping_shr(Val(In(feed, 1)), Bits(Size(a)) - 1) % 2 = 1
               /\ Becomes(SetInput(g, o, V(a), slot))
            \/ /\ Code(feed) = "PIECE" /\ ~IsFree(a)
               /\ Becomes(SignTest(o, a, slot))
            \/ /\ slot = 1 /\ Code(feed) = "INT_LEFT" /\ IsConstOf(In(feed, 1), Bits(Size(k)) - 1) /\ IsBoolean(a)
               /\ Becomes(SetInput(op_remove_input(SetOpcode(g, o, "BOOL_NEGATE"), o, 1), o, V(a), 0))
----------------------------------------------------------------------------
\* Equations.

NegatedConstant(val, size) == (-val) % (calc_mask(size) + 1)
\* a + (-b) == 0 is a == b.
RuleEqual2Zero(o) ==
  LET slot == IF IsConstOf(In(o, 0), 0) THEN 1 ELSE 0
      sum == In(o, slot)
      a == In(Def(sum), 0)
      b == In(Def(sum), 1)
      Equated(pos, unneg) == Becomes(SetInput(SetInput(g, o, V(pos), 0), o, unneg, 1))
  IN  /\ Code(o) \in {"INT_EQUAL", "INT_NOTEQUAL"} /\ IsConstOf(In(o, 1 - slot), 0)
      /\ \A r \in Descend(sum) : Code(r[1]) \in BoolOutput
      /\ WrittenBy(sum, {"INT_ADD"})
      /\ \/ /\ IsConst(b) /\ IsHeritageKnown(a)
            /\ Equated(a, K(NegatedConstant(Val(b), Size(b)), Size(b)))
         \/ /\ ~IsConst(b) /\ op_verify_mult_neg_one(a)
            /\ IsHeritageKnown(b) /\ IsHeritageKnown(In(Def(a), 0))
            /\ Equated(b, V(In(Def(a), 0)))
         \/ /\ ~IsConst(b) /\ ~op_verify_mult_neg_one(a) /\ op_verify_mult_neg_one(b)
            /\ IsHeritageKnown(a) /\ IsHeritageKnown(In(Def(b), 0))
            /\ Equated(a, V(In(Def(b), 0)))
\* a + j == k, a * -1 == k and ~a == k are solved for a.
RuleEqual2Constant(o) ==
  LET c == In(o, 1)
      leftop == Def(In(o, 0))
      a == In(leftop, 0)
      j == In(leftop, 1)
      Solved(val) == Becomes(SetInput(SetInput(g, o, V(a), 0), o, K(val, Size(a)), 1))
  IN  /\ Code(o) \in {"INT_EQUAL", "INT_NOTEQUAL"} /\ IsConst(c) /\ IsWritten(In(o, 0)) /\ ~IsFree(a)
      /\ \A r \in Descend(In(o, 0)) :
           r[1] = o \/ (Code(r[1]) \in {"INT_EQUAL", "INT_NOTEQUAL"} /\ IsConst(In(r[1], 1)))
      /\ \/ /\ Code(leftop) = "INT_ADD" /\ IsConst(j)
            /\ Solved(NegatedConstant(Val(j) - Val(c), Size(c)))
         \/ /\ Code(leftop) = "INT_MULT" /\ IsConstOf(j, calc_mask(Size(j)))
            /\ Solved(NegatedConstant(Val(c), Size(j)))
         \/ /\ Code(leftop) = "INT_NEGATE"
            /\ Solved(calc_mask(Size(a)) - And(Val(c), calc_mask(Size(a))))
\* The last forms of sums, before the function is printed.
RuleMultNegOne(o) ==
  /\ Code(o) = "INT_MULT" /\ IsConstOf(In(o, 1), calc_mask(Size(In(o, 1))))
  /\ Becomes(op_remove_input(SetOpcode(g, o, "INT_2COMP"), o, 1))
\* x + k becomes a subtraction when k is in the last quarter of its type (which
\* is taken to be an unsigned integer type).
RuleAddUnsigned(o) ==
  LET k == In(o, 1)
      mask == calc_mask(Size(k))
      shift == (3 * Bits(Size(k))) \div 4
      quarter == wrapping_shl(wrapping_shr(mask, shift), shift)
  IN  /\ Code(o) = "INT_ADD" /\ IsConst(k) /\ And(Val(k), quarter) = quarter
      /\ Becomes(SetInput(SetOpcode(g, o, "INT_SUB"), o, K(NegatedConstant(Val(k), Size(k)), Size(k)), 1))
Rule2Comp2Sub(o) ==
  LET addop == Lone(Out(o))
      moved == IF In(addop, 0) = Out(o) THEN SetInput(g, addop, V(In(addop, 1)), 0) ELSE g
  IN  /\ Code(o) = "INT_2COMP" /\ addop # 0 /\ Code(addop) = "INT_ADD"
      /\ Becomes(op_destroy(SetOpcode(SetInput(moved, addop, V(In(o, 0)), 1), addop, "INT_SUB"), o))
\* A high part is a shift, and a truncation that prints as a cast; a shift of
\* the whole high part is merged.
RuleSubRight(o) ==
  LET cut == Val(In(o, 1))
      a == In(o, 0)
      shift == Lone(Out(o))
      merge == /\ shift # 0 /\ Code(shift) \in {"INT_RIGHT", "INT_SRIGHT"} /\ IsConst(In(shift, 1))
               /\ OutSize(o) + cut = Size(a)
      total == Bits(cut) + IF merge THEN Val(In(shift, 1)) ELSE 0
      over == merge /\ total >= Bits(Size(a))
      target == IF merge THEN shift ELSE o
      code == IF merge THEN Code(shift) ELSE "INT_RIGHT"
      base == IF merge THEN SetOpcode(op_destroy(g, o), shift, "SUBPIECE") ELSE g
      made == NewBefore(base, target, code, Size(a), <<V(a), K(IF over THEN Bits(Size(a)) - 1 ELSE total, IntSize)>>)
  IN  /\ Code(o) = "SUBPIECE" /\ cut # 0
      /\ over => code = "INT_SRIGHT"
      /\ Becomes(SetInput(SetInput(made, target, V(NextOut(base)), 0), target, K(0, IntSize), 1))

PieceRules ==
  \/ \E o \in Ops : RuleHumptyDumpty(o)
  \/ \E o \in Ops : RuleDumptyHump(o)
  \/ \E o \in Ops : RuleHumptyOr(o)
  \/ \E o \in Ops : RuleCondNegate(o)
  \/ \E o \in Ops : RuleBoolNegate(o)
  \/ \E o \in Ops : RuleLess2Zero(o)
  \/ \E o \in Ops : RuleLessEqual2Zero(o)
  \/ \E o \in Ops : RuleSLess2Zero(o)
  \/ \E o \in Ops : RuleEqual2Zero(o)
  \/ \E o \in Ops : RuleEqual2Constant(o)
  \/ \E o \in Ops : RuleMultNegOne(o)
  \/ \E o \in Ops : RuleAddUnsigned(o)
  \/ \E o \in Ops : Rule2Comp2Sub(o)
  \/ \E o \in Ops : RuleSubRight(o)
-----------------------------------------------------------------------------
(***************************************************************************)
(* The rules of ruleaction/late.rs that rewrite integer and boolean        *)
(* expressions: conditional moves, three-way comparisons, bit counts and   *)
(* the remaining bitwise identities.                                       *)
(***************************************************************************)

RuleNegateNegate(o) ==
  LET inner == In(Def(In(o, 0)), 0)
  IN  /\ Code(o) = "INT_NEGATE" /\ WrittenBy(In(o, 0), {"INT_NEGATE"}) /\ ~IsFree(inner)
      /\ Becomes(SetOpcode(SetInput(g, o, V(inner), 0), o, "COPY"))
----------------------------------------------------------------------------
\* RuleConditionalMove: a MULTIEQUAL of two booleans below a CBRANCH is an
\* expression in the condition.  (The two blocks between are empty, so there is
\* no expression to duplicate.)

\* The varnode itself, the constant it copies, or 0.
check_boolean(v) ==
  IF IsBoolean(v) THEN v
  ELSE IF WrittenBy(v, {"COPY"}) /\ IsConst(In(Def(v), 0)) /\ Val(In(Def(v), 0)) <= 1 THEN In(Def(v), 0) ELSE 0
CBranchOp == CHOOSE b \in Branches(g) : TRUE
path0istrue == (g.taken = 1) # g.flip
OnTruePath(slot) == IF slot = 0 THEN path0istrue ELSE ~path0istrue
\* The direct edge carries the condition or its complement.
ConditionRead(o, slot) ==
  LET cond == In(CBranchOp, 0)
  IN  cond = In(o, slot) \/ (WrittenBy(cond, {"BOOL_NEGATE"}) /\ In(Def(cond), 0) = In(o, slot))
\* The operation becomes an ordinary one, and follows the MULTIEQUALs.
Reinserted(gr, o, code) == op_insert_begin(SetOpcode(op_uninsert(gr, o), o, code), o, 1)
Condition1(gr, o, complement, code) ==
  LET made == Reinserted(gr, o, code)
  IN  IF complement THEN op_bool_negate(made, In(CBranchOp, 0), o) ELSE made
ConditionOf(gr, complement) == IF complement THEN V(NextOut(gr)) ELSE V(In(CBranchOp, 0))
RuleConditionalMove(o) ==
  /\ Code(o) = "MULTIEQUAL" /\ Conditional(g) /\ NumIn(o) = 2
  /\ \E bool0 \in {check_boolean(In(o, 0))}, bool1 \in {check_boolean(In(o, 1))} :
     /\ bool0 # 0 /\ bool1 # 0
     /\ CASE ~IsConst(bool0) /\ ~IsConst(bool1) ->
               \E slot \in 0..1 :
                 /\ slot + 1 \notin g.inner /\ ConditionRead(o, slot)
                 /\ LET made == Reinserted(g, o, IF OnTruePath(slot) = (In(CBranchOp, 0) = In(o, slot)) THEN "BOOL_OR" ELSE "BOOL_AND")
                        first == IF slot = 0 THEN bool0 ELSE bool1
                        second == IF slot = 0 THEN bool1 ELSE bool0
                    IN  Becomes(SetInput(SetInput(made, o, V(first), 0), o, V(second), 1))
          [] IsConst(bool0) /\ IsConst(bool1) ->
               LET same == Val(bool0) = Val(bool1)
                   complement == (Val(bool0) = 0) = path0istrue
                   one == op_remove_input(g, o, 1)
               IN  CASE same -> Becomes(SetInput(Reinserted(one, o, "COPY"), o, K(Val(bool0), OutSize(o)), 0))
                     [] ~same /\ OutSize(o) = 1 ->
                          Becomes(SetInput(Reinserted(one, o, IF complement THEN "BOOL_NEGATE" ELSE "COPY"),
                                           o, V(In(CBranchOp, 0)), 0))
                     [] OTHER ->
                          Becomes(SetInput(Condition1(one, o, complement, "INT_ZEXT"), o, ConditionOf(g, complement), 0))
          [] OTHER ->
               LET slot == IF IsConst(bool0) THEN 0 ELSE 1
                   one == Val(IF slot = 0 THEN bool0 ELSE bool1) # 0
                   complement == OnTruePath(slot) # one
                   made == Condition1(g, o, complement, IF one THEN "BOOL_OR" ELSE "BOOL_AND")
               IN  Becomes(SetInput(SetInput(made, o, ConditionOf(g, complement), 0), o, V(IF slot = 0 THEN bool1 ELSE bool0), 1))
----------------------------------------------------------------------------
\* RuleThreeWayCompare: zext(b < a) + zext(b <= a) - 1 is -1, 0 or 1, and a
\* comparison of it with a constant is one of a with b.

MinusOne(v) == IsConst(v) /\ Val(v) = calc_mask(Size(v))
Zext(v) == WrittenBy(v, {"INT_ZEXT"})
\* The two extensions, and whether the - 1 is missing.
ThreeWayTerms(addop) ==
  LET l == In(addop, 0)
      r == In(addop, 1)
      add(v) == WrittenBy(v, {"INT_ADD"})
      of(v, slot) == In(Def(v), slot)
  IN  CASE MinusOne(r) /\ add(l) -> <<of(l, 0), of(l, 1), FALSE>>
        [] Zext(r) /\ Zext(l) -> <<l, r, TRUE>>
        [] Zext(r) /\ add(l) -> IF MinusOne(of(l, 1)) THEN <<of(l, 0), r, FALSE>> ELSE <<0, 0, FALSE>>
        [] Zext(l) /\ add(r) -> IF MinusOne(of(r, 1)) THEN <<l, of(r, 0), FALSE>> ELSE <<0, 0, FALSE>>
        [] OTHER -> <<0, 0, FALSE>>
LessThan == {"INT_LESS", "INT_SLESS", "FLOAT_LESS"}
OrEqual == [INT_LESS |-> "INT_LESSEQUAL", INT_SLESS |-> "INT_SLESSEQUAL", FLOAT_LESS |-> "FLOAT_LESSEQUAL"]
\* 0: the second is the <= of the first; 1: the other way round; -1: neither.
\* Two < with constants one apart are a < and a <=.
test_compare_equivalence(lessop, lessequalop) ==
  LET two == Code(lessequalop) = Code(lessop)
      a1 == In(lessop, 0)
      a2 == In(lessequalop, 0)
      b1 == In(lessop, 1)
      b2 == In(lessequalop, 1)
      consts(v, w) == IsConst(v) /\ IsConst(w)
      adiffer == a1 # a2 /\ Val(a1) # Val(a2) /\ two
      bdiffer == two /\ ~adiffer /\ Val(b1) # Val(b2)
      aswap == Val(a1) + 1 = Val(a2)
      bswap == Val(b2) + 1 = Val(b1)
      astep == IF Val(a2) + 1 = Val(a1) THEN 0 ELSE IF aswap THEN 1 ELSE -1
      bstep == IF Val(b1) + 1 = Val(b2) THEN 0 ELSE IF bswap THEN 1 ELSE -1
  IN  IF \/ Code(lessop) \notin LessThan
         \/ ~(Code(lessequalop) = OrEqual[Code(lessop)] \/ (two /\ Code(lessop) # "FLOAT_LESS"))
         \/ (a1 # a2 /\ ~consts(a1, a2)) \/ (b1 # b2 /\ ~consts(b1, b2))
         \/ (adiffer /\ astep = -1)
         \/ (b1 # b2 /\ ~bdiffer) \/ (two /\ ~adiffer /\ b1 = b2)
      THEN -1
      ELSE IF adiffer THEN astep ELSE IF b1 # b2 THEN bstep ELSE 0
\* [less, partial], with less = 0 when there is none.
detect_three_way(addop) ==
  LET terms == ThreeWayTerms(addop)
      op1 == Def(In(Def(terms[1]), 0))
      op2 == Def(In(Def(terms[2]), 0))
      lessop == IF Code(op1) \in LessThan THEN op1 ELSE op2
      other == IF Code(op1) \in LessThan THEN op2 ELSE op1
      form == test_compare_equivalence(lessop, other)
  IN  [partial |-> terms[3],
       less |-> IF terms[1] = 0 \/ ~(terms[1] # 0 /\ Zext(terms[1]) /\ Zext(terms[2])) THEN 0
                ELSE IF ~IsWritten(In(Def(terms[1]), 0)) \/ ~IsWritten(In(Def(terms[2]), 0)) THEN 0
                ELSE CASE form = -1 -> 0 [] form = 0 -> lessop [] form = 1 -> other]
\* The constant compared with, counted from -1 (or from 0 without the - 1).
ThreeWayBase(val, mask, partial) ==
  (IF val <= 2 THEN val + 1 ELSE IF val = mask THEN 0 ELSE -1) - (IF partial THEN 1 ELSE 0)
RuleThreeWayCompare(o) ==
  LET slot == IF IsConst(In(o, 0)) THEN 0 ELSE 1
      k == In(o, slot)
      sum == In(o, 1 - slot)
  IN  /\ Code(o) \in {"INT_SLESS", "INT_SLESSEQUAL", "INT_EQUAL", "INT_NOTEQUAL"}
      /\ IsConst(k) /\ WrittenBy(sum, {"INT_ADD"})
      /\ \E found \in {detect_three_way(Def(sum))} :
         LET base == ThreeWayBase(Val(k), calc_mask(Size(k)), found.partial)
             code == CASE Code(o) = "INT_SLESS" -> 0 [] Code(o) = "INT_SLESSEQUAL" -> 1
                       [] Code(o) = "INT_EQUAL" -> 2 [] Code(o) = "INT_NOTEQUAL" -> 3
             form == (base * 2 + slot) * 4 + code
             a == In(found.less, 1)
             b == In(found.less, 0)
             less == Code(found.less)
             float == less = "FLOAT_LESS"
             Compared(opc, l, r) == Becomes(SetInput(SetInput(SetOpcode(g, o, opc), o, l, 0), o, r, 1))
         IN  /\ found.less # 0 /\ base >= 0
             /\ IsConst(a) \/ ~IsFree(a)
             /\ IsConst(b) \/ ~IsFree(b)
             /\ CASE form \in {1, 21} -> Compared("INT_EQUAL", K(0, 1), K(0, 1))
                  [] form \in {4, 16} -> Compared("INT_NOTEQUAL", K(0, 1), K(0, 1))
                  [] form \in {2, 5, 6, 12} -> Compared(less, V(a), V(b))
                  [] form \in {13, 19, 20, 23} -> Compared(OrEqual[less], V(a), V(b))
                  [] form \in {8, 17, 18, 22} -> Compared(less, V(b), V(a))
                  [] form \in {0, 3, 7, 9} -> Compared(OrEqual[less], V(b), V(a))
                  [] form \in {10, 14} -> Compared(IF float THEN "FLOAT_EQUAL" ELSE "INT_EQUAL", V(a), V(b))
                  [] form \in {11, 15} -> Compared(IF float THEN "FLOAT_NOTEQUAL" ELSE "INT_NOTEQUAL", V(a), V(b))
                  [] OTHER -> FALSE
----------------------------------------------------------------------------
\* RulePopcountBoolXor: the parity of one or two booleans placed at different
\* bits of a varnode.

NoBoolean(const) == [vn |-> 0, const |-> const]
RECURSIVE BooleanAt(_, _, _)
\* The boolean varnode that is bit pos of v, or the value of that bit.
BooleanAt(v, pos, mask) ==
  LET op == Def(v)
      a == In(op, 0)
      b == In(op, 1)
      amount == Val(b)
      high == Bits(Size(b))
  IN  IF IsConst(v) THEN NoBoolean(wrapping_shr(Val(v), pos) % 2)
      ELSE IF ~IsWritten(v) THEN NoBoolean(-1)
      ELSE IF pos = 0 /\ Size(v) = 1 /\ Nzm(v) = mask THEN [vn |-> v, const |-> -1]
      ELSE CASE Code(op) = "INT_AND" -> IF IsConst(b) THEN BooleanAt(a, pos, mask) ELSE NoBoolean(-1)
             [] Code(op) \in {"INT_XOR", "INT_OR"} ->
                  LET both == <<And(Nzm(a), mask) # 0, And(Nzm(b), mask) # 0>>
                  IN  IF both[1] = both[2] THEN NoBoolean(-1) ELSE BooleanAt(IF both[1] THEN a ELSE b, pos, mask)
             [] Code(op) \in {"INT_ZEXT", "INT_SEXT"} ->
                  IF pos >= Bits(Size(a)) THEN NoBoolean(-1) ELSE BooleanAt(a, pos, mask)
             [] Code(op) = "SUBPIECE" -> BooleanAt(a, pos + Bits(amount), wrapping_shl(mask, Bits(amount)))
             [] Code(op) = "PIECE" ->
                  IF pos >= high THEN BooleanAt(a, pos - high, wrapping_shr(mask, high)) ELSE BooleanAt(b, pos, mask)
             [] Code(op) = "INT_LEFT" ->
                  IF ~IsConst(b) THEN NoBoolean(-1)
                  ELSE IF amount > pos THEN NoBoolean(-1) ELSE BooleanAt(a, pos - amount, wrapping_shr(mask, amount))
             [] Code(op) \in {"INT_RIGHT", "INT_SRIGHT"} ->
                  IF ~IsConst(b) THEN NoBoolean(-1)
                  ELSE IF pos + amount >= Bits(Size(a)) THEN NoBoolean(-1)
                  ELSE BooleanAt(a, pos + amount, wrapping_shl(mask, amount))
             [] OTHER -> NoBoolean(-1)
get_boolean_result(v, pos) == BooleanAt(v, pos, wrapping_shl(1, pos))
RulePopcountBoolXor(o) ==
  /\ Code(o) = "POPCOUNT" /\ IsWritten(In(o, 0))
  /\ \E r \in Descend(Out(o)) :
     LET base == r[1]
         nzm == Nzm(In(o, 0))
         Operand(res) == IF res.vn # 0 THEN V(res.vn) ELSE K(1, 1)
     IN  /\ Code(base) = "INT_AND" /\ IsConstOf(In(base, 1), 1) /\ Size(In(base, 1)) = 1
         /\ popcount(nzm) \in {1, 2}
         /\ \E b1 \in {get_boolean_result(In(o, 0), leastsigbit_set(nzm))},
               b2 \in {get_boolean_result(In(o, 0), mostsigbit_set(nzm))} :
            IF popcount(nzm) = 1 THEN b1.vn # 0 /\ Becomes(CopyOf(g, base, V(b1.vn)))
            ELSE /\ (b1.vn # 0 \/ b1.const = 1) /\ (b2.vn # 0 \/ b2.const = 1) /\ (b1.vn # 0 \/ b2.vn # 0)
                 /\ Becomes(SetInput(SetInput(SetOpcode(g, base, "INT_XOR"), base, Operand(b1), 0), base, Operand(b2), 1))
----------------------------------------------------------------------------
\* The others.

\* (a ^ b) ^ a is b; the first operand is tried first.
XorSwaps(o, slot) ==
  LET inner == Def(In(o, slot))
      other == In(o, 1 - slot)
  IN  IF ~WrittenBy(In(o, slot), {"INT_XOR"}) THEN 0
      ELSE IF other = In(inner, 0) /\ ~IsFree(In(inner, 1)) THEN In(inner, 1)
      ELSE IF other = In(inner, 1) /\ ~IsFree(In(inner, 0)) THEN In(inner, 0) ELSE 0
RuleXorSwap(o) ==
  LET kept == IF XorSwaps(o, 0) # 0 THEN XorSwaps(o, 0) ELSE XorSwaps(o, 1)
  IN  /\ Code(o) = "INT_XOR" /\ kept # 0
      /\ Becomes(CopyOf(g, o, V(kept)))
\* lzcount(x) >> log2(bits of x) is x == 0.
RuleLzcountShiftBool(o) ==
  /\ Code(o) = "LZCOUNT" /\ popcount(Bits(Size(In(o, 0)))) = 1
  /\ \E r \in Descend(Out(o)) :
     LET base == r[1]
         made == NewBefore(g, base, "INT_EQUAL", 1, <<V(In(o, 0)), K(0, Size(In(o, 0)))>>)
     IN  /\ Code(base) \in {"INT_RIGHT", "INT_SRIGHT"} /\ IsConst(In(base, 1))
         /\ wrapping_shr(Bits(Size(In(o, 0))), Val(In(base, 1))) = 1
         /\ Becomes(SetOpcode(SetInput(op_remove_input(made, base, 1), base, V(NextOut(g)), 0), base,
                              IF OutSize(base) = 1 THEN "COPY" ELSE "INT_ZEXT"))
\* (v | w) == 0 is v == 0 && w == 0, at one reader.
OrCompareAt(gr, o, reader) ==
  LET code == gr.ops[reader].code
      eqv == NewBefore(gr, reader, code, 1, <<V(In(o, 0)), K(0, Size(In(o, 0)))>>)
      eqw == NewBefore(eqv, reader, code, 1, <<V(In(o, 1)), K(0, Size(In(o, 1)))>>)
      coded == SetOpcode(eqw, reader, IF code = "INT_EQUAL" THEN "BOOL_AND" ELSE "BOOL_OR")
  IN  SetInput(SetInput(coded, reader, V(NextOut(gr)), 0), reader, V(NextOut(eqv)), 1)
RuleOrCompare(o) ==
  /\ Code(o) = "INT_OR" /\ ~HasNoDescend(Out(o))
  /\ \A r \in Descend(Out(o)) : Code(r[1]) \in {"INT_EQUAL", "INT_NOTEQUAL"} /\ IsConstOf(In(r[1], 1), 0)
  /\ ~IsFree(In(o, 0)) /\ ~IsFree(In(o, 1))
  /\ Becomes(FoldLeft(LAMBDA acc, r : Evaluated(OrCompareAt(acc, o, r[1])), g, SetToSeq(Descend(Out(o)))))

LateRules ==
  \/ \E o \in Ops : RuleNegateNegate(o)
  \/ \E o \in Ops : RuleConditionalMove(o)
  \/ \E o \in Ops : RuleThreeWayCompare(o)
  \/ \E o \in Ops : RulePopcountBoolXor(o)
  \/ \E o \in Ops : RuleXorSwap(o)
  \/ \E o \in Ops : RuleLzcountShiftBool(o)
  \/ \E o \in Ops : RuleOrCompare(o)
=============================================================================
