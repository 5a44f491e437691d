--------------------------- MODULE RulesCompare ----------------------------
(***************************************************************************)
(* The rewrite rules of ruleaction/shiftcompare.rs: shifts, comparisons    *)
(* and boolean expressions.  One action per rule.                          *)
(*                                                                         *)
(* Left out: RuleAliasUpdate, as a fragment has no INDIRECT, and           *)
(* RuleMultiCollapse, which is about loops.                                *)
(***************************************************************************)
EXTENDS Expressions

RuleDoubleSub(o) ==
  LET op2 == Def(In(o, 0))
      offset == Val(In(o, 1)) + Val(In(op2, 1))
  IN  /\ Code(o) = "SUBPIECE" /\ WrittenBy(In(o, 0), {"SUBPIECE"})
      /\ ~IsFree(In(op2, 0))
      /\ Becomes(SetInput(SetInput(g, o, V(In(op2, 0)), 0), o, K(offset, IntSize), 1))

\* RuleDoubleShift: two shifts by constants, where a multiplication by a power
\* of two counts as a shift to the left.
AsShift(o) ==
  LET val == Val(In(o, 1))
      sa == leastsigbit_set(val)
  IN  IF Code(o) # "INT_MULT" THEN [code |-> Code(o), sa |-> val]
      ELSE IF sa >= 0 /\ val = Pow2[sa] THEN [code |-> "INT_LEFT", sa |-> sa]
      ELSE [code |-> "none", sa |-> 0]
RuleDoubleShift(o) ==
  LET sec == In(o, 0)
      secop == Def(sec)
      x == In(secop, 0)
      size == Size(sec)
      first == AsShift(secop)
      second == AsShift(o)
      total == first.sa + second.sa
      diff == first.sa - second.sa
      full == calc_mask(size)
      mask == And(full, IF second.code = "INT_LEFT" THEN wrapping_shl(full, first.sa) ELSE wrapping_shr(full, first.sa))
      g1 == NewBefore(g, o, "INT_AND", size, <<V(x), K(mask, size)>>)
  IN  /\ Code(o) \in {"INT_LEFT", "INT_RIGHT", "INT_MULT"} /\ IsConst(In(o, 1))
      /\ WrittenBy(sec, {"INT_LEFT", "INT_RIGHT", "INT_MULT"}) /\ IsConst(In(secop, 1)) /\ IsHeritageKnown(x)
      /\ first.code # "none" /\ second.code # "none"
      /\ \/ /\ first.code = second.code
            /\ Becomes(IF total >= Bits(size) THEN CopyOf(g, o, K(0, size))
                       ELSE SetInput(SetInput(SetOpcode(g, o, second.code), o, V(x), 0), o, K(total, IntSize), 1))
         \/ /\ first.code # second.code /\ size <= WordBytes /\ diff = 0
            /\ second.code = "INT_LEFT" => Lone(sec) # 0
            /\ Becomes(SetInput(SetInput(SetOpcode(g, o, "INT_AND"), o, V(x), 0), o, K(mask, size), 1))
         \/ /\ first.code # second.code /\ size <= WordBytes /\ diff # 0 /\ second.code = "INT_RIGHT"
            /\ Becomes(SetInput(SetInput(SetOpcode(g1, o, IF diff < 0 THEN "INT_RIGHT" ELSE "INT_LEFT"), o, V(NextOut(g)), 0),
                                o, K(IF diff < 0 THEN -diff ELSE diff, IntSize), 1))

RuleDoubleArithShift(o) ==
  LET op2 == Def(In(o, 0))
      total == Val(In(o, 1)) + Val(In(op2, 1))
      most == Bits(OutSize(o)) - 1
  IN  /\ Code(o) = "INT_SRIGHT" /\ IsConst(In(o, 1))
      /\ WrittenBy(In(o, 0), {"INT_SRIGHT"}) /\ IsConst(In(op2, 1)) /\ ~IsFree(In(op2, 0))
      /\ total > 0
      /\ Becomes(SetInput(SetInput(g, o, V(In(op2, 0)), 0), o, K(IF total > most THEN most ELSE total, IntSize), 1))

\* RuleConcatShift: shifting the low part of a concatenation out.
RuleConcatShift(o) ==
  LET concat == Def(In(o, 0))
      mainin == In(concat, 0)
      left == Val(In(o, 1)) - Bits(Size(In(concat, 1)))
      extcode == IF Code(o) = "INT_RIGHT" THEN "INT_ZEXT" ELSE "INT_SEXT"
      g1 == NewBefore(g, o, extcode, Size(In(o, 0)), <<V(mainin)>>)
  IN  /\ Code(o) \in {"INT_RIGHT", "INT_SRIGHT"} /\ IsConst(In(o, 1))
      /\ WrittenBy(In(o, 0), {"PIECE"}) /\ left >= 0 /\ ~IsFree(mainin)
      /\ Becomes(IF left = 0 THEN SetInput(SetOpcode(op_remove_input(g, o, 1), o, extcode), o, V(mainin), 0)
                 ELSE SetInput(SetInput(g1, o, V(NextOut(g)), 0), o, K(left, Size(In(o, 1))), 1))

\* RuleLeftRight: (x << k) >> k, when k is whole bytes, truncates and extends;
\* the shift to the left becomes the truncation, with a new, smaller output.
RuleLeftRight(o) ==
  LET shiftin == In(o, 0)
      leftshift == Def(shiftin)
      sa == Val(In(o, 1))
      tsz == Size(shiftin) - sa \div BitsPerByte
      narrowed == [op_unset_output(g, leftshift) EXCEPT
                     !.vns = Append(@, Varnode("written", tsz, NoValue, FullNzm, leftshift)),
                     !.ops[leftshift].out = NextOut(g)]
      truncated == SetInput(SetOpcode(narrowed, leftshift, "SUBPIECE"), leftshift, K(0, Size(In(leftshift, 1))), 1)
  IN  /\ Code(o) \in {"INT_RIGHT", "INT_SRIGHT"} /\ IsConst(In(o, 1))
      /\ WrittenBy(shiftin, {"INT_LEFT"}) /\ IsConst(In(leftshift, 1)) /\ Val(In(leftshift, 1)) = sa
      /\ sa % BitsPerByte = 0 /\ tsz \in {1, 2, 4, 8} /\ Lone(shiftin) = o
      /\ Becomes(SetOpcode(op_remove_input(SetInput(truncated, o, V(NextOut(g)), 0), o, 1), o,
                           IF Code(o) = "INT_SRIGHT" THEN "INT_SEXT" ELSE "INT_ZEXT"))

\* RuleShiftCompare: comparing a shifted value with a constant.
CompareShift(o) ==
  LET val == Val(In(o, 1))
      sa == leastsigbit_set(val)
  IN  IF Code(o) \in {"INT_LEFT", "INT_RIGHT"} THEN val
      ELSE IF sa >= 0 /\ val = Pow2[sa] THEN sa ELSE 0
RuleShiftCompare(o) ==
  LET shifted == In(o, 0)
      shiftop == Def(shifted)
      sa == CompareShift(shiftop)
      x == In(shiftop, 0)
      k == In(o, 1)
      isleft == Code(shiftop) \in {"INT_LEFT", "INT_MULT"}
      newleft == wrapping_shr(Val(k), sa)
      kept == wrapping_shr(And(wrapping_shl(Nzm(x), sa), calc_mask(Size(shifted))), sa)
      lowmask == (Pow2[(Bits(Size(shifted)) - sa) % WordBits] - 1) % Pow2[WordBits]
      g1 == NewBefore(g, shiftop, "INT_AND", Size(k), <<V(x), K(lowmask, Size(k))>>)
      newright == And(wrapping_shl(Val(k), sa), calc_mask(Size(shifted)))
      Compared(gr, v, val) == SetInput(SetInput(gr, o, V(v), 0), o, K(val, Size(k)), 1)
  IN  /\ Code(o) \in {"INT_EQUAL", "INT_NOTEQUAL"} /\ IsConst(k)
      /\ WrittenBy(shifted, {"INT_LEFT", "INT_RIGHT", "INT_MULT", "INT_DIV"}) /\ IsConst(In(shiftop, 1))
      /\ sa # 0 /\ ~IsFree(x) /\ Size(x) <= WordBytes
      /\ \/ /\ isleft /\ wrapping_shl(newleft, sa) = Val(k) /\ kept = Nzm(x)
            /\ Becomes(Compared(g, x, newleft))
         \/ /\ isleft /\ wrapping_shl(newleft, sa) = Val(k) /\ kept # Nzm(x) /\ Lone(shifted) = o
            /\ Becomes(Compared(g1, NextOut(g), newleft))
         \/ /\ ~isleft /\ Lone(shifted) = o /\ wrapping_shl(wrapping_shr(Nzm(x), sa), sa) = Nzm(x)
            /\ wrapping_shr(newright, sa) = Val(k)
            /\ Becomes(Compared(g, x, newright))

\* RuleLessEqual, RuleLessNotEqual: an ordering and an equality of the same
\* two varnodes.
vn_equal(v, w) == v = w \/ (IsConst(v) /\ IsConst(w) /\ Val(v) = Val(w) /\ Size(v) = Size(w))
SameOperands(op1, op2) ==
  \/ vn_equal(In(op1, 0), In(op2, 0)) /\ vn_equal(In(op1, 1), In(op2, 1))
  \/ vn_equal(In(op1, 0), In(op2, 1)) /\ vn_equal(In(op1, 1), In(op2, 0))
\* The operation among the definitions of o's inputs with a code in orderings,
\* the first one before the second.
Ordering(o, orderings) == IF WrittenBy(In(o, 0), orderings) THEN Def(In(o, 0)) ELSE Def(In(o, 1))
Equality(o, orderings) == IF WrittenBy(In(o, 0), orderings) THEN Def(In(o, 1)) ELSE Def(In(o, 0))
Ordered(o, orderings, equalities) ==
  LET less == Ordering(o, orderings)
  IN  /\ IsWritten(In(o, 0)) /\ IsWritten(In(o, 1))
      /\ Code(less) \in orderings /\ Code(Equality(o, orderings)) \in equalities
      /\ IsHeritageKnown(In(less, 0)) /\ IsHeritageKnown(In(less, 1))
      /\ SameOperands(less, Equality(o, orderings))
Reordered(o, less, code) == SetOpcode(SetInput(SetInput(g, o, V(In(less, 0)), 0), o, V(In(less, 1)), 1), o, code)
RuleLessEqual(o) ==
  LET orderings == {"INT_LESS", "INT_SLESS"}
      less == Ordering(o, orderings)
      equal == Equality(o, orderings)
  IN  /\ Code(o) = "BOOL_OR"
      /\ Ordered(o, orderings, {"INT_EQUAL", "INT_NOTEQUAL"})
      /\ Becomes(IF Code(equal) = "INT_NOTEQUAL" THEN CopyOf(g, o, V(Out(equal)))
                 ELSE Reordered(o, less, IF Code(less) = "INT_SLESS" THEN "INT_SLESSEQUAL" ELSE "INT_LESSEQUAL"))
RuleLessNotEqual(o) ==
  LET orderings == {"INT_LESSEQUAL", "INT_SLESSEQUAL"}
      less == Ordering(o, orderings)
  IN  /\ Code(o) = "BOOL_AND"
      /\ Ordered(o, orderings, {"INT_NOTEQUAL"})
      /\ Becomes(Reordered(o, less, IF Code(less) = "INT_SLESSEQUAL" THEN "INT_SLESS" ELSE "INT_LESS"))

\* RuleTrivialArith, RuleTrivialBool: operations on two equal values, and with
\* a constant truth value.
RuleTrivialArith(o) ==
  LET in0 == In(o, 0)
      in1 == In(o, 1)
      zero == {"INT_NOTEQUAL", "INT_SLESS", "INT_LESS", "BOOL_XOR", "FLOAT_NOTEQUAL", "FLOAT_LESS"}
      one == {"INT_EQUAL", "INT_SLESSEQUAL", "INT_LESSEQUAL", "FLOAT_EQUAL", "FLOAT_LESSEQUAL"}
      same == {"BOOL_AND", "BOOL_OR", "INT_AND", "INT_OR"}
  IN  /\ Code(o) \in zero \cup one \cup same \cup {"INT_XOR"}
      /\ in0 # in1 => IsWritten(in0) /\ IsWritten(in1) /\ op_is_cse_match(Def(in0), Def(in1))
      /\ Becomes(IF Code(o) \in same THEN ToCopy(g, o, 1)
                 ELSE IF Code(o) = "INT_XOR" THEN CopyOf(g, o, K(0, OutSize(o)))
                 ELSE CopyOf(g, o, K(IF Code(o) \in one THEN 1 ELSE 0, 1)))
RuleTrivialBool(o) ==
  LET isone == Val(In(o, 1)) = 1
  IN  /\ Code(o) \in Logical /\ IsConst(In(o, 1))
      /\ Becomes(CASE Code(o) = "BOOL_XOR" -> SetOpcode(op_remove_input(g, o, 1), o, IF isone THEN "BOOL_NEGATE" ELSE "COPY")
                   [] Code(o) = "BOOL_AND" -> IF isone THEN ToCopy(g, o, 1) ELSE CopyOf(g, o, K(0, 1))
                   [] Code(o) = "BOOL_OR" -> IF isone THEN CopyOf(g, o, K(1, 1)) ELSE ToCopy(g, o, 1))

\* RuleZextEliminate, RuleZextSless: comparing an extended value with a constant.
ZextSlot(o) == IF WrittenBy(In(o, 1), {"INT_ZEXT"}) THEN 1 ELSE 0
ComparesZext(o) ==
  LET slot == ZextSlot(o)
  IN  /\ WrittenBy(In(o, slot), {"INT_ZEXT"}) /\ IsConst(In(o, 1 - slot))
      /\ IsHeritageKnown(In(Def(In(o, slot)), 0))
Unextended(o, code) ==
  LET slot == ZextSlot(o)
      small == In(Def(In(o, slot)), 0)
  IN  SetOpcode(SetInput(SetInput(g, o, V(small), slot), o, K(Val(In(o, 1 - slot)), Size(small)), 1 - slot), o, code)
ZextBits(o) == Bits(Size(In(Def(In(o, ZextSlot(o))), 0)))
RuleZextEliminate(o) ==
  /\ Code(o) \in {"INT_EQUAL", "INT_NOTEQUAL", "INT_LESS", "INT_LESSEQUAL"}
  /\ ComparesZext(o) /\ Lone(In(o, ZextSlot(o))) = o
  /\ wrapping_shr(Val(In(o, 1 - ZextSlot(o))), ZextBits(o)) = 0
  /\ Becomes(Unextended(o, Code(o)))
RuleSlessToLess(o) ==
  /\ Code(o) \in {"INT_SLESS", "INT_SLESSEQUAL"}
  /\ \A slot \in 0..1 : ~signbit_negative(Nzm(In(o, slot)), Size(In(o, 0)))
  /\ Becomes(SetOpcode(g, o, IF Code(o) = "INT_SLESS" THEN "INT_LESS" ELSE "INT_LESSEQUAL"))
RuleZextSless(o) ==
  /\ Code(o) \in {"INT_SLESS", "INT_SLESSEQUAL"}
  /\ ComparesZext(o)
  /\ wrapping_shr(Val(In(o, 1 - ZextSlot(o))), ZextBits(o) - 1) = 0
  /\ Becomes(Unextended(o, IF Code(o) = "INT_SLESS" THEN "INT_LESS" ELSE "INT_LESSEQUAL"))

Alike(v, w) == Size(v) = Size(w)
\* RuleBitUndistribute: a bitwise operation on two extensions or on two shifts
\* by the same amount.
RuleBitUndistribute(o) ==
  LET def1 == Def(In(o, 0))
      def2 == Def(In(o, 1))
      in1 == In(def1, 0)
      in2 == In(def2, 0)
      amount1 == In(def1, 1)
      amount2 == In(def2, 1)
      code == Code(def1)
      extension == code \in {"INT_ZEXT", "INT_SEXT"}
      constants == IsConst(amount1) /\ IsConst(amount2)
      g1 == IF extension THEN op_remove_input(g, o, 1)
            ELSE SetInput(g, o, IF constants THEN K(Val(amount1), Size(amount1)) ELSE V(amount1), 1)
      g2 == NewBefore(g1, o, Code(o), Size(in1), <<V(in1), V(in2)>>)
  IN  /\ Code(o) \in {"INT_AND", "INT_OR", "INT_XOR"}
      /\ WrittenBy(In(o, 0), {"INT_ZEXT", "INT_SEXT"} \cup Shifts) /\ WrittenBy(In(o, 1), {code})
      /\ ~IsFree(in1) /\ ~IsFree(in2)
      /\ IF extension THEN Alike(in1, in2)
         ELSE IF constants THEN Val(amount1) = Val(amount2)
         ELSE amount1 = amount2 /\ ~IsFree(amount1)
      /\ Becomes(SetInput(SetOpcode(g2, o, code), o, V(NextOut(g1)), 0))

\* RuleBooleanUndistribute, RuleBooleanDedup: two ANDs or ORs that share a
\* condition.  The four conditions are numbered 0 to 3; the pairs that may
\* match are tried in this order.
Conditions(o) == LET op0 == Def(In(o, 0))
                     op1 == Def(In(o, 1))
                 IN  <<In(op0, 0), In(op0, 1), In(op1, 0), In(op1, 1)>>
TwoBranches(o) == /\ \A s \in 0..1 : WrittenBy(In(o, s), {"BOOL_AND", "BOOL_OR"})
                  /\ \A i \in 1..4 : ~IsFree(Conditions(o)[i])
MatchOrder == <<<<0, 2>>, <<0, 3>>, <<1, 2>>, <<1, 3>>>>
MatchingPairs(o) ==
  {n \in 1..4 : BooleanMatch(Conditions(o)[MatchOrder[n][1] + 1], Conditions(o)[MatchOrder[n][2] + 1], 1) # UNCORRELATED}
\* The first of them, if there is one.
FirstMatch(o) ==
  UNION {{MatchOrder[n] : n \in {n \in ns : \A m \in ns : n <= m}} : ns \in {MatchingPairs(o)}}
Flips(o, pair) == BooleanMatch(Conditions(o)[pair[1] + 1], Conditions(o)[pair[2] + 1], 1) = COMPLEMENTARY

\* (A && B) == (A && C) is !A || B == C; an OR is the AND of the flipped conditions.
Undistribute(o, left, right) ==
  LET or0 == Code(Def(In(o, 0))) = "BOOL_OR"
      or1 == Code(Def(In(o, 1))) = "BOOL_OR"
      equal == (Code(o) = "INT_EQUAL") # (or0 # or1)
      a == Conditions(o)[left + 1]
      negated == or0 # equal
      g1 == IF negated THEN op_bool_negate(g, a, o) ELSE g
      finala == IF negated THEN NextOut(g) ELSE a
      bcequal == equal # (or0 # or1)
      g2 == NewBefore(g1, o, IF bcequal THEN "INT_EQUAL" ELSE "INT_NOTEQUAL", 1,
                      <<V(Conditions(o)[2 - left]), V(Conditions(o)[6 - right])>>)
  IN  SetInput(SetInput(SetOpcode(g2, o, IF equal THEN "BOOL_OR" ELSE "BOOL_AND"), o, V(NextOut(g1)), 1), o, V(finala), 0)
RuleBooleanUndistribute(o) ==
  LET Ored(slot) == Code(Def(In(o, slot))) = "BOOL_OR"
  IN  /\ Code(o) \in {"INT_EQUAL", "INT_NOTEQUAL"} /\ TwoBranches(o)
      /\ \E pair \in FirstMatch(o) :
           Ored(0) = (Ored(1) # Flips(o, pair)) /\ Becomes(Undistribute(o, pair[1], pair[2]))

\* (A && B) || (A && C) is A && (B || C), and so on; with A and !A it may be decided.
Deduplicate(o, pair, flipped) ==
  LET code == Code(o)
      opc0 == Code(Def(In(o, 0)))
      opc1 == Code(Def(In(o, 1)))
      lefta == Conditions(o)[pair[1] + 1]
      righta == Conditions(o)[pair[2] + 1]
      rest == <<V(Conditions(o)[2 - pair[1]]), V(Conditions(o)[6 - pair[2]])>>
      Combined(a, final, bc) ==
        SetInput(SetInput(SetOpcode(NewBefore(g, o, bc, 1, rest), o, final), o, V(a), 0), o, V(NextOut(g)), 1)
  IN  \/ /\ flipped /\ code = opc0 /\ code = opc1
         /\ Becomes(CopyOf(g, o, K(IF code = "BOOL_OR" THEN 1 ELSE 0, 1)))
      \/ /\ flipped /\ code = "BOOL_OR" /\ opc0 # opc1
         /\ Becomes(Combined(IF opc0 = "BOOL_OR" THEN lefta ELSE righta, "BOOL_OR", "BOOL_OR"))
      \/ /\ ~flipped /\ opc0 = opc1
         /\ Becomes(Combined(lefta, opc0, code))
RuleBooleanDedup(o) ==
  /\ Code(o) \in {"BOOL_AND", "BOOL_OR"} /\ TwoBranches(o)
  /\ \E pair \in FirstMatch(o) : \E flipped \in {Flips(o, pair)} : Deduplicate(o, pair, flipped)

RuleBooleanNegate(o) ==
  LET val == Val(In(o, 1))
      negate == (Code(o) = "INT_NOTEQUAL") # (val = 0)
  IN  /\ Code(o) \in {"INT_EQUAL", "INT_NOTEQUAL"}
      /\ IsConst(In(o, 1)) /\ val \in {0, 1} /\ IsBoolean(In(o, 0))
      /\ Becomes(SetOpcode(op_remove_input(g, o, 1), o, IF negate THEN "BOOL_NEGATE" ELSE "COPY"))

\* RuleBoolZext: arithmetic on a boolean that was extended and multiplied by -1.
Bitwise2Bool == [INT_AND |-> "BOOL_AND", INT_OR |-> "BOOL_OR", INT_XOR |-> "BOOL_XOR"]
ExtendedTruth(v, size) ==
  /\ WrittenBy(v, {"INT_MULT"}) /\ IsConstOf(In(Def(v), 1), calc_mask(size))
  /\ WrittenBy(In(Def(v), 0), {"INT_ZEXT"}) /\ IsBoolean(In(Def(In(Def(v), 0)), 0))
RuleBoolZext(o) ==
  LET bool1 == In(o, 0)
      mult == Lone(Out(o))
      coeff == Val(In(mult, 1))
      act == Lone(Out(mult))
      size == OutSize(mult)
      k == In(act, 1)
      other == IF Def(In(act, 0)) = mult THEN In(act, 1) ELSE In(act, 0)
      bool2 == In(Def(In(Def(other), 0)), 0)
      n1 == NewBefore(g, o, "BOOL_NEGATE", 1, <<V(bool1)>>)
      g1 == NewBefore(g, act, Bitwise2Bool[Code(act)], 1, <<V(bool1), V(bool2)>>)
      g2 == NewBefore(g1, act, "INT_ZEXT", size, <<V(NextOut(g))>>)
  IN  /\ Code(o) = "INT_ZEXT" /\ IsBoolean(bool1) /\ mult # 0
      /\ Code(mult) = "INT_MULT" /\ IsConstOf(In(mult, 1), calc_mask(Size(In(mult, 1)))) /\ act # 0
      /\ \/ /\ Code(act) = "INT_ADD" /\ IsConstOf(k, 1)
            /\ Becomes(SetInput(ToCopy(SetInput(n1, o, V(NextOut(g)), 0), act, 1), act, V(Out(o)), 0))
         \/ /\ Code(act) \in {"INT_EQUAL", "INT_NOTEQUAL"} /\ IsConst(k) /\ Val(k) \in {0, coeff}
            /\ Becomes(SetInput(SetInput(g, act, V(bool1), 0), act, K(IF Val(k) = coeff THEN 1 ELSE 0, 1), 1))
         \/ /\ Code(act) \in DOMAIN Bitwise2Bool /\ ExtendedTruth(other, size)
            /\ Becomes(SetInput(SetInput(SetOpcode(g2, act, "INT_MULT"), act, V(NextOut(g1)), 0),
                                act, K(calc_mask(size), size), 1))
RuleLogic2Bool(o) ==
  /\ Code(o) \in DOMAIN Bitwise2Bool /\ IsBoolean(In(o, 0))
  /\ IF IsConst(In(o, 1)) THEN Val(In(o, 1)) <= 1 ELSE IsBoolean(In(o, 1))
  /\ Becomes(SetOpcode(g, o, Bitwise2Bool[Code(o)]))

\* RuleSborrow, RuleScarry: the overflow flag compared with the sign of the
\* result is a signed comparison.
SignTests(o, sum) ==    \* the comparisons of o's output with the sign of the value sum
  {c \in {r[1] : r \in Descend(Out(o))} :
     LET sign == IF In(c, 0) = Out(o) THEN In(c, 1) ELSE In(c, 0)
         zside == IF IsConstOf(In(Def(sign), 0), 0) THEN 0 ELSE 1
         x == In(Def(sign), 1 - zside)
     IN  /\ Code(c) \in {"INT_EQUAL", "INT_NOTEQUAL"} /\ WrittenBy(sign, {"INT_SLESS"})
         /\ IsConstOf(In(Def(sign), zside), 0) /\ IsWritten(x)
         /\ is_equivalent(sum, gather_two_terms_root(x))}
MutSignedOrder(o, c, a, b) ==    \* mutant: the side the zero is on is not looked at
  LET strict == Code(c) = "INT_NOTEQUAL"
      slot == IF strict THEN 0 ELSE 1
  IN  SetInput(SetInput(SetOpcode(g, c, IF strict THEN "INT_SLESS" ELSE "INT_SLESSEQUAL"), c, a, slot), c, b, 1 - slot)
SignedOrder(o, c, a, b) ==
  LET sign == IF In(c, 0) = Out(o) THEN In(c, 1) ELSE In(c, 0)
      zside == IF IsConstOf(In(Def(sign), 0), 0) THEN 0 ELSE 1
      strict == Code(c) = "INT_NOTEQUAL"
      slot == IF strict THEN 1 - zside ELSE zside
  IN  SetInput(SetInput(SetOpcode(g, c, IF strict THEN "INT_SLESS" ELSE "INT_SLESSEQUAL"), c, a, slot), c, b, 1 - slot)
RuleSborrow(o) ==
  LET a == In(o, 0)
      b == In(o, 1)
  IN  /\ Code(o) = "INT_SBORROW"
      /\ IF IsConstOf(b, 0) THEN Becomes(CopyOf(g, o, K(0, 1)))
         ELSE \E c \in SignTests(o, gather_two_terms_subtract(a, b)) : Becomes(SignedOrder(o, c, V(a), V(b)))
RuleScarry(o) ==
  LET swap == ~IsConst(In(o, 1))
      a == IF swap THEN In(o, 1) ELSE In(o, 0)
      b == IF swap THEN In(o, 0) ELSE In(o, 1)
      negated == (-Val(b)) % (calc_mask(Size(b)) + 1)
  IN  /\ Code(o) = "INT_SCARRY"
      /\ IF IsConstOf(In(o, 0), 0) \/ IsConstOf(In(o, 1), 0) THEN Becomes(CopyOf(g, o, K(0, 1)))
         ELSE /\ IsConst(b) /\ swap => Val(b) # calc_int_min(Size(b))
              /\ IsConst(b)
              /\ \E c \in SignTests(o, gather_two_terms_add(a, b)) : Becomes(SignedOrder(o, c, V(a), K(negated, Size(b))))

RuleTrivialShift(o) ==
  LET val == Val(In(o, 1))
      out == val >= Bits(Size(In(o, 0)))
  IN  /\ Code(o) \in Shifts /\ IsConst(In(o, 1))
      /\ val = 0 \/ (out /\ Code(o) # "INT_SRIGHT")
      /\ Becomes(IF val = 0 THEN ToCopy(g, o, 1) ELSE CopyOf(g, o, K(0, Size(In(o, 0)))))
RuleSignShift(o) ==
  LET x == In(o, 0)
      size == Size(x)
      Arithmetic(p) == \/ Code(p) \in {"INT_EQUAL", "INT_NOTEQUAL"} /\ IsConst(In(p, 1))
                       \/ Code(p) \in {"INT_ADD", "INT_MULT"}
      g1 == NewBefore(g, o, "INT_SRIGHT", size, <<V(x), V(In(o, 1))>>)
  IN  /\ Code(o) = "INT_RIGHT" /\ IsConstOf(In(o, 1), Bits(size) - 1) /\ ~IsFree(x)
      /\ \E r \in Descend(Out(o)) : Arithmetic(r[1])
      /\ Becomes(SetOpcode(SetInput(SetInput(g1, o, V(NextOut(g)), 0), o, K(calc_mask(size), size), 1), o, "INT_MULT"))

\* RuleTestSign: every comparison of the spread sign bit with 0 or -1.
SignComparisons(o) ==
  {c \in {r[1] : r \in Descend(Out(o))} :
     /\ Code(c) \in {"INT_EQUAL", "INT_NOTEQUAL"} /\ IsConst(In(c, 1))
     /\ Val(In(c, 1)) \in {0, calc_mask(Size(In(c, 0)))}}
TestsSign(gr, o, c) ==
  LET x == In(o, 0)
      positive == (Val(In(c, 1)) = 0) # (Code(c) = "INT_NOTEQUAL")
      g1 == SetInput(gr, c, V(x), IF positive THEN 1 ELSE 0)
  IN  SetOpcode(SetInput(g1, c, K(0, Size(x)), IF positive THEN 0 ELSE 1), c,
                IF positive THEN "INT_SLESSEQUAL" ELSE "INT_SLESS")
RuleTestSign(o) ==
  /\ Code(o) = "INT_SRIGHT" /\ IsConstOf(In(o, 1), Bits(Size(In(o, 0))) - 1) /\ ~IsFree(In(o, 0))
  /\ SignComparisons(o) # {}
  /\ Becomes(FoldLeft(LAMBDA gr, c : TestsSign(gr, o, c), g, SetToSeq(SignComparisons(o))))
----------------------------------------------------------------------------
CompareRules ==
  \/ \E o \in Ops : RuleDoubleSub(o)
  \/ \E o \in Ops : RuleDoubleShift(o)
  \/ \E o \in Ops : RuleDoubleArithShift(o)
  \/ \E o \in Ops : RuleConcatShift(o)
  \/ \E o \in Ops : RuleLeftRight(o)
  \/ \E o \in Ops : RuleShiftCompare(o)
  \/ \E o \in Ops : RuleLessEqual(o)
  \/ \E o \in Ops : RuleLessNotEqual(o)
  \/ \E o \in Ops : RuleTrivialArith(o)
  \/ \E o \in Ops : RuleTrivialBool(o)
  \/ \E o \in Ops : RuleZextEliminate(o)
  \/ \E o \in Ops : RuleSlessToLess(o)
  \/ \E o \in Ops : RuleZextSless(o)
  \/ \E o \in Ops : RuleBitUndistribute(o)
  \/ \E o \in Ops : RuleBooleanUndistribute(o)
  \/ \E o \in Ops : RuleBooleanDedup(o)
  \/ \E o \in Ops : RuleBooleanNegate(o)
  \/ \E o \in Ops : RuleBoolZext(o)
  \/ \E o \in Ops : RuleLogic2Bool(o)
  \/ \E o \in Ops : RuleSborrow(o)
  \/ \E o \in Ops : RuleScarry(o)
  \/ \E o \in Ops : RuleTrivialShift(o)
  \/ \E o \in Ops : RuleSignShift(o)
  \/ \E o \in Ops : RuleTestSign(o)
=============================================================================
