--------------------------- MODULE RulesSimplify ---------------------------
(***************************************************************************)
(* The rewrite rules of ruleaction/simplify.rs: masks, sums, boolean       *)
(* operations and MULTIEQUALs.  One action per rule.                       *)
(*                                                                         *)
(* Left out: RuleEquality, which no action registers, RulePullsubIndirect, *)
(* as a fragment has no INDIRECT, and RuleRangeMeld.                       *)
(***************************************************************************)
EXTENDS Expressions

Within(part, whole) == And(part, whole) = part

RuleEarlyRemoval(o) ==
  /\ Out(o) # 0 /\ HasNoDescend(Out(o))
  /\ Becomes(op_destroy(g, o))

\* RuleCollectTerms: x * j + ... + x * k, and several constants in one sum.
Coeff(v) == IF WrittenBy(v, {"INT_MULT"}) /\ IsConst(In(Def(v), 1)) THEN Val(In(Def(v), 1)) ELSE 1
distribute_term(gr, o, v, coeff, size) ==
  IF IsConst(v) THEN gr ELSE NewBefore(gr, o, "INT_MULT", size, <<V(v), K(coeff, size)>>)
Distributed(gr, v, coeff, size) ==
  IF IsConst(v) THEN K((coeff * Val(v)) % (calc_mask(size) + 1), size) ELSE V(NextOut(gr))
distribute_int_mult_add(o) ==
  LET addop == Def(In(o, 0))
      coeff == Val(In(o, 1))
      size == OutSize(o)
      g1 == distribute_term(g, o, In(addop, 0), coeff, size)
      g2 == distribute_term(g1, o, In(addop, 1), coeff, size)
      g3 == SetInput(g2, o, Distributed(g, In(addop, 0), coeff, size), 0)
  IN  /\ IsHeritageKnown(In(addop, 0)) /\ IsHeritageKnown(In(addop, 1))
      /\ Becomes(SetOpcode(SetInput(g3, o, Distributed(g1, In(addop, 1), coeff, size), 1), o, "INT_ADD"))
MergeTerms(first, second) ==
  LET x == TermBase(TermVn(first))
      size == Size(x)
      coef == (Coeff(TermVn(first)) + Coeff(TermVn(second))) % (calc_mask(size) + 1)
      cleared == SetInput(g, first.op, K(0, size), first.slot)
      made == NewBefore(cleared, second.op, "INT_MULT", size, <<V(x), K(coef, size)>>)
  IN  IF coef = 0 THEN SetInput(cleared, second.op, K(0, size), second.slot)
      ELSE SetInput(made, second.op, V(NextOut(cleared)), second.slot)
\* ks are the positions in order of the constants that no multiplication applies to.
MergeConstants(order, ks) ==
  LET nonzero == {i \in ks : Val(TermVn(order[i])) # 0}
      keep == CHOOSE i \in nonzero : \A j \in nonzero : i <= j
      size == Size(TermVn(order[keep]))
      sum == FoldLeft(LAMBDA acc, i : acc + IF i \in nonzero THEN Val(TermVn(order[i])) ELSE 0, 0,
                      [i \in DOMAIN order |-> i]) % (calc_mask(size) + 1)
      Zero(gr, i) == IF i \in ks /\ i > keep THEN SetInput(gr, order[i].op, K(0, size), order[i].slot) ELSE gr
  IN  SetInput(FoldLeft(Zero, g, [i \in DOMAIN order |-> i]), order[keep].op, K(sum, size), order[keep].slot)
CollectPair(first, second) ==
  \/ \E mult \in {IF first.mult # 0 THEN first.mult ELSE second.mult} \ {0} : distribute_int_mult_add(mult)
  \/ first.mult = 0 /\ second.mult = 0 /\ Becomes(MergeTerms(first, second))
CollectIn(order) ==
  LET varying == {i \in DOMAIN order : ~IsConst(TermVn(order[i]))}
      ks == {n \in DOMAIN order \ varying : order[n].mult = 0}
  IN  \E pairs \in {{i \in varying : i - 1 \in varying /\ TermBase(TermVn(order[i - 1])) = TermBase(TermVn(order[i]))}} :
        \/ \E i \in pairs : (\A m \in pairs : i <= m) /\ CollectPair(order[i - 1], order[i])
        \/ /\ pairs = {} /\ Cardinality({n \in ks : Val(TermVn(order[n])) # 0}) > 1
           /\ Becomes(MergeConstants(order, ks))
RuleCollectTerms(o) ==
  /\ Code(o) = "INT_ADD"
  /\ Lone(Out(o)) # 0 => Code(Lone(Out(o))) # "INT_ADD"
  /\ \E order \in {SortedTerms(o)} : CollectIn(order)

\* RuleSelectCse: two truncations or arithmetic shifts of one varnode.  The hash
\* only orders the candidates; equal hashes are compared by op_is_cse_match.
cse_elimination(gr, o, p) ==
  LET keep == IF Position(gr, o) < Position(gr, p) THEN o ELSE p
      drop == IF keep = o THEN p ELSE o
  IN  op_destroy(total_replace(gr, gr.ops[drop].out, V(gr.ops[keep].out)), drop)
CsePairs(o) ==
  LET alike == {p \in Ops : Code(p) = Code(o) /\ \E r \in Descend(In(o, 0)) : r[1] = p}
      matching == {pair \in alike \X alike : pair[1] < pair[2] /\ op_is_cse_match(pair[1], pair[2])}
  IN  {pair \in matching : ~\E p \in (pair[1] + 1)..(pair[2] - 1) : <<pair[1], p>> \in matching}
cse_eliminate_list(gr, pairs) ==
  LET Eliminate(acc, pair) == IF pair[1] \in LiveOps(acc) /\ pair[2] \in LiveOps(acc)
                              THEN cse_elimination(acc, pair[1], pair[2]) ELSE acc
  IN  FoldLeft(Eliminate, gr, SetToSortSeq(pairs, LAMBDA x, y : x[1] < y[1]))
RuleSelectCse(o) ==
  /\ Code(o) \in {"SUBPIECE", "INT_SRIGHT"}
  /\ CsePairs(o) # {}
  /\ Becomes(cse_eliminate_list(g, CsePairs(o)))

RulePiece2Zext(o) ==
  /\ Code(o) = "PIECE" /\ IsConstOf(In(o, 0), 0)
  /\ Becomes(SetOpcode(op_remove_input(g, o, 0), o, "INT_ZEXT"))
RulePiece2Sext(o) ==
  LET shiftop == Def(In(o, 0))
      base == In(shiftop, 0)
  IN  /\ Code(o) = "PIECE" /\ WrittenBy(In(o, 0), {"INT_SRIGHT"})
      /\ IsConst(In(shiftop, 1)) /\ base = In(o, 1)
      /\ Val(In(shiftop, 1)) = Bits(Size(base)) - 1
      /\ Becomes(SetOpcode(op_remove_input(g, o, 0), o, "INT_SEXT"))
RuleBxor2NotEqual(o) ==
  /\ Code(o) = "BOOL_XOR"
  /\ Becomes(SetOpcode(g, o, "INT_NOTEQUAL"))
RuleOrMask(o) ==
  /\ Code(o) = "INT_OR" /\ Narrow(o)
  /\ IsConst(In(o, 1)) /\ Within(calc_mask(OutSize(o)), Val(In(o, 1)))
  /\ Becomes(op_remove_input(SetInput(SetOpcode(g, o, "COPY"), o, V(In(o, 1)), 0), o, 1))

\* RuleAndMask and RuleOrConsume trust the consumed bits of the last ActionDeadCode.
RuleAndMask(o) ==
  LET mask == Nzm(In(o, 0))
      andmask == And(mask, Nzm(In(o, 1)))
  IN  /\ Code(o) = "INT_AND" /\ Narrow(o)
      /\ \/ /\ And(andmask, Consume(Out(o))) = 0
            /\ Becomes(CopyOf(g, o, K(0, OutSize(o))))
         \/ /\ And(andmask, Consume(Out(o))) # 0
            /\ andmask = mask /\ IsConst(In(o, 1)) /\ IsHeritageKnown(In(o, 0))
            /\ Becomes(CopyOf(g, o, V(In(o, 0))))
RuleOrConsume(o) ==
  LET unused(slot) == And(Consume(Out(o)), Nzm(In(o, slot))) = 0
  IN  /\ Code(o) \in {"INT_OR", "INT_XOR"} /\ Narrow(o)
      /\ unused(0) \/ unused(1)
      /\ Becomes(ToCopy(g, o, IF unused(0) THEN 0 ELSE 1))
RuleOrCollapse(o) ==
  /\ Code(o) = "INT_OR" /\ Narrow(o)
  /\ IsConst(In(o, 1)) /\ Within(Nzm(In(o, 0)), Val(In(o, 1)))
  /\ Becomes(op_remove_input(SetOpcode(g, o, "COPY"), o, 0))

RuleAndOrLump(o) ==
  LET op2 == Def(In(o, 0))
      base == In(op2, 0)
  IN  /\ Code(o) \in {"INT_AND", "INT_OR", "INT_XOR"}
      /\ IsConst(In(o, 1)) /\ WrittenBy(In(o, 0), {Code(o)})
      /\ IsConst(In(op2, 1)) /\ ~IsFree(base)
      /\ Becomes(SetInput(SetInput(g, o, V(base), 0), o,
                          K(EvaluateLogic(Code(o), Val(In(o, 1)), Val(In(op2, 1))), Size(base)), 1))
\* RuleNegateIdentity: the first reader that combines x with ~x.
NegateReads(o) ==
  {r \in Descend(Out(o)) : Code(r[1]) \in {"INT_AND", "INT_OR", "INT_XOR"} /\ In(r[1], 1 - r[2]) = In(o, 0)}
RuleNegateIdentity(o) ==
  /\ Code(o) = "INT_NEGATE"
  /\ \E r \in NegateReads(o) :
       LET size == Size(In(o, 0))
           value == IF Code(r[1]) = "INT_AND" THEN 0 ELSE calc_mask(size)
       IN  Becomes(ToCopy(SetInput(g, r[1], K(value, size), 0), r[1], 1))

\* RuleShiftBitops: an input that is shifted out entirely does not matter.
ShiftAmount(o) ==
  LET k == Val(In(o, 1))
  IN  CASE Code(o) = "SUBPIECE" -> Bits(k) [] Code(o) = "INT_MULT" -> leastsigbit_set(k) [] OTHER -> k
RuleShiftBitops(o) ==
  LET leftshift == Code(o) \in {"INT_LEFT", "INT_MULT"}
      v == In(o, 0)
      bitop == Def(v)
      sa == ShiftAmount(o)
      moved(slot) == LET nzm == Nzm(In(bitop, slot)) IN IF leftshift THEN pcode_left(nzm, sa) ELSE pcode_right(nzm, sa)
      gone(slot) == And(moved(slot), calc_mask(OutSize(o))) = 0
      other == In(bitop, IF gone(0) THEN 1 ELSE 0)
  IN  /\ Code(o) \in {"INT_LEFT", "INT_RIGHT", "SUBPIECE", "INT_MULT"}
      /\ IsConst(In(o, 1)) /\ Size(v) <= WordBytes /\ sa # NoBit
      /\ WrittenBy(v, {"INT_AND", "INT_OR", "INT_XOR"} \cup IF leftshift THEN {"INT_MULT", "INT_ADD"} ELSE {})
      /\ gone(0) \/ gone(1)
      /\ \/ /\ Code(bitop) \in {"INT_MULT", "INT_AND"}
            /\ Becomes(SetInput(g, o, K(0, Size(v)), 0))
         \/ /\ Code(bitop) \notin {"INT_MULT", "INT_AND"}
            /\ IsHeritageKnown(other)
            /\ Becomes(SetInput(g, o, V(other), 0))
RuleRightShiftAnd(o) ==
  LET andop == Def(In(o, 0))
      sa == Val(In(o, 1))
      root == In(andop, 0)
  IN  /\ Code(o) \in {"INT_RIGHT", "INT_SRIGHT"}
      /\ IsConst(In(o, 1)) /\ WrittenBy(In(o, 0), {"INT_AND"}) /\ IsConst(In(andop, 1))
      /\ wrapping_shr(calc_mask(Size(root)), sa) = wrapping_shr(Val(In(andop, 1)), sa)
      /\ ~IsFree(root)
      /\ Becomes(SetInput(g, o, V(root), 0))

RuleIntLessEqual(o) ==
  /\ Code(o) \in {"INT_LESSEQUAL", "INT_SLESSEQUAL"}
  /\ replace_lessequal(g, o) # g
  /\ Becomes(replace_lessequal(g, o))
RuleTermOrder(o) ==
  /\ Code(o) \in Commutative
  /\ IsConst(In(o, 0)) /\ ~IsConst(In(o, 1))
  /\ Becomes(op_swap_input(g, o, 0, 1))
RuleNotDistribute(o) ==
  LET compop == Def(In(o, 0))
      g1 == NewBefore(g, o, "BOOL_NEGATE", 1, <<V(In(compop, 0))>>)
      g2 == NewBefore(g1, o, "BOOL_NEGATE", 1, <<V(In(compop, 1))>>)
      g3 == SetOpcode(g2, o, IF Code(compop) = "BOOL_AND" THEN "BOOL_OR" ELSE "BOOL_AND")
  IN  /\ Code(o) = "BOOL_NEGATE" /\ WrittenBy(In(o, 0), {"BOOL_AND", "BOOL_OR"})
      /\ Becomes(op_insert_input(SetInput(g3, o, V(NextOut(g)), 0), o, V(NextOut(g1)), 1))

\* RuleHighOrderAnd: (x + k) & mask where x is aligned to the mask, which keeps
\* only high bits; also ((x + k) + y) & mask with both aligned.
HighOrderSlots(o) ==
  LET addop == Def(In(o, 0))
      val == Val(In(o, 1))
      inner(slot) == Def(In(addop, 1 - slot))
  IN  {slot \in {0, 1} :
         /\ Within(Nzm(In(addop, slot)), val)
         /\ WrittenBy(In(addop, 1 - slot), {"INT_ADD"})
         /\ Lone(In(addop, 1 - slot)) = addop
         /\ IsConst(In(inner(slot), 1))
         /\ Within(Nzm(In(inner(slot), 0)), val)}
RuleHighOrderAnd(o) ==
  LET addop == Def(In(o, 0))
      k == In(o, 1)
      val == Val(k)
      xalign == In(addop, 0)
      slot == IF 0 \in HighOrderSlots(o) THEN 0 ELSE 1
      addop2 == Def(In(addop, 1 - slot))
  IN  /\ Code(o) = "INT_AND" /\ IsConst(k) /\ WrittenBy(In(o, 0), {"INT_ADD"})
      /\ Or((val - 1) % Pow2[WordBits], val) = calc_mask(Size(k))
      /\ \/ /\ IsConst(In(addop, 1)) /\ ~IsFree(xalign)
            /\ Within(Nzm(xalign), val)
            /\ Becomes(SetInput(SetInput(SetOpcode(g, o, "INT_ADD"), o, V(xalign), 0),
                                o, K(And(val, Val(In(addop, 1))), Size(k)), 1))
         \/ /\ ~IsConst(In(addop, 1)) /\ Lone(In(o, 0)) = o
            /\ HighOrderSlots(o) # {}
            /\ Becomes(ToCopy(SetInput(g, addop2, K(And(val, Val(In(addop2, 1))), Size(k)), 1), o, 1))

\* RuleAndDistribute: (a | b) & c where c drops a or b, or keeps one of them whole.
Useful(mask1, mask2, othermask, const) ==
  \/ And(mask1, othermask) = 0 \/ And(mask2, othermask) = 0
  \/ const /\ (Within(mask1, othermask) \/ Within(mask2, othermask))
AndDistributes(o, slot) ==
  LET other == In(o, 1 - slot)
      orop == Def(In(o, slot))
  IN  /\ IsHeritageKnown(other) /\ WrittenBy(In(o, slot), {"INT_OR"})
      /\ IsHeritageKnown(In(orop, 0)) /\ IsHeritageKnown(In(orop, 1))
      /\ Nzm(other) \notin {0, calc_mask(OutSize(o))}
      /\ Useful(Nzm(In(orop, 0)), Nzm(In(orop, 1)), Nzm(other), IsConst(other))
RuleAndDistribute(o) ==
  LET slot == IF AndDistributes(o, 0) THEN 0 ELSE 1
      other == V(In(o, 1 - slot))
      orop == Def(In(o, slot))
      g1 == NewBefore(g, o, "INT_AND", OutSize(o), <<V(In(orop, 0)), other>>)
      g2 == NewBefore(g1, o, "INT_AND", OutSize(o), <<V(In(orop, 1)), other>>)
  IN  /\ Code(o) = "INT_AND" /\ Narrow(o)
      /\ AndDistributes(o, 0) \/ AndDistributes(o, 1)
      /\ Becomes(SetOpcode(SetInput(SetInput(g2, o, V(NextOut(g)), 0), o, V(NextOut(g1)), 1), o, "INT_OR"))
RuleLessOne(o) ==
  LET k == In(o, 1)
  IN  /\ Code(o) \in {"INT_LESS", "INT_LESSEQUAL"}
      /\ IsConstOf(k, IF Code(o) = "INT_LESS" THEN 1 ELSE 0)
      /\ LET equal == SetOpcode(g, o, "INT_EQUAL")
         IN  Becomes(IF Val(k) = 0 THEN equal ELSE SetInput(equal, o, K(0, Size(k)), 1))

\* RuleFloatRange: a < b || a == b, and a <= b && a != b.
RuleFloatRange(o) ==
  LET ordering == {"FLOAT_LESS", "FLOAT_LESSEQUAL"}
      swap == Code(Def(In(o, 0))) \notin ordering
      cmp1 == Def(In(o, IF swap THEN 1 ELSE 0))
      cmp2 == Def(In(o, IF swap THEN 0 ELSE 1))
      slot1 == IF IsConst(In(cmp1, 0)) THEN 1 ELSE 0
      x == In(cmp1, slot1)
      y == In(cmp1, 1 - slot1)
      slot2 == IF x = In(cmp2, 0) THEN 0 ELSE 1
  IN  /\ Code(o) \in {"BOOL_OR", "BOOL_AND"} /\ IsWritten(In(o, 0)) /\ IsWritten(In(o, 1))
      /\ <<Code(cmp1), Code(cmp2), Code(o)>> \in {<<"FLOAT_LESS", "FLOAT_EQUAL", "BOOL_OR">>,
                                                 <<"FLOAT_LESSEQUAL", "FLOAT_NOTEQUAL", "BOOL_AND">>}
      /\ ~IsConst(x) /\ ~IsFree(x)
      /\ x = In(cmp2, slot2) /\ varnode_same(y, In(cmp2, 1 - slot2))
      /\ IsConst(y) \/ ~IsFree(y)
      /\ Becomes(SetInput(SetInput(SetOpcode(g, o, CHOOSE c \in ordering : c # Code(cmp1)), o, V(x), slot1), o,
                          IF IsConst(y) THEN K(Val(y), Size(y)) ELSE V(y), 1 - slot1))

\* RuleAndCommute: mask before shifting when that lets the mask meet an OR or a PIECE.
CommuteMask(o, slot) ==
  LET shiftop == Def(In(o, slot))
      sa == Val(In(shiftop, 1))
      mask == Nzm(In(o, 1 - slot))
  IN  IF Code(shiftop) = "INT_RIGHT" THEN wrapping_shl(mask, sa) ELSE wrapping_shr(mask, sa)
CommuteExcluded(o, slot) ==
  LET shiftop == Def(In(o, slot))
      full == calc_mask(OutSize(o))
      sa == Val(In(shiftop, 1))
  IN  Nzm(In(o, 1 - slot)) = IF Code(shiftop) = "INT_RIGHT" THEN wrapping_shr(full, sa)
                             ELSE Truth(wrapping_shl(full, sa) # 0)
AndCommutes(o, slot) ==
  LET shiftop == Def(In(o, slot))
      other == In(o, 1 - slot)
      orvn == In(shiftop, 0)
      orop == Def(orvn)
      mask == CommuteMask(o, slot)
  IN  /\ WrittenBy(In(o, slot), {"INT_LEFT", "INT_RIGHT"}) /\ IsConst(In(shiftop, 1))
      /\ IsHeritageKnown(other) /\ ~CommuteExcluded(o, slot)
      /\ mask \notin {0, calc_mask(OutSize(o))}
      /\ \/ Code(shiftop) = "INT_LEFT" /\ IsConst(other) /\ Lone(In(o, slot)) = o
         \/ /\ WrittenBy(orvn, {"INT_OR"})
            /\ Useful(Nzm(In(orop, 0)), Nzm(In(orop, 1)), mask, IsConst(other))
         \/ /\ WrittenBy(orvn, {"PIECE"})
            /\ \/ And(Nzm(In(orop, 1)), mask) = 0
               \/ And(wrapping_shl(Nzm(In(orop, 0)), Bits(Size(In(orop, 1)))), mask) = 0
CommuteAt(o, slot) ==
  LET shiftop == Def(In(o, slot))
      sa == V(In(shiftop, 1))
      back == IF Code(shiftop) = "INT_LEFT" THEN "INT_RIGHT" ELSE "INT_LEFT"
      g1 == NewBefore(g, o, back, OutSize(o), <<V(In(o, 1 - slot)), sa>>)
      g2 == NewBefore(g1, o, "INT_AND", OutSize(o), <<V(In(shiftop, 0)), V(NextOut(g))>>)
  IN  SetOpcode(SetInput(SetInput(g2, o, V(NextOut(g1)), 0), o, sa, 1), o, Code(shiftop))
RuleAndCommute(o) ==
  /\ Code(o) = "INT_AND" /\ Narrow(o)
  /\ \E slots \in {{slot \in 0..1 : AndCommutes(o, slot)}} : \E slot \in slots :
       (\A t \in slots : slot <= t) /\ Becomes(CommuteAt(o, slot))

\* RuleAndPiece: one half of a concatenation is masked away.
DropsHigh(o, slot) ==
  LET pieceop == Def(In(o, slot))
      mask == wrapping_shr(Nzm(In(o, 1 - slot)), Bits(Size(In(pieceop, 1))))
  IN  And(Nzm(In(pieceop, 0)), mask) = 0
AndPieces(o, slot) ==
  LET pieceop == Def(In(o, slot))
      high == In(pieceop, 0)
      low == In(pieceop, 1)
      mask == Nzm(In(o, 1 - slot))
  IN  /\ WrittenBy(In(o, slot), {"PIECE"})
      /\ mask \notin {0, calc_mask(OutSize(o))}
      /\ IsHeritageKnown(high) /\ IsHeritageKnown(low)
      /\ IF DropsHigh(o, slot) THEN ~(Nzm(high) = 0 /\ IsConst(high))
         ELSE And(Nzm(low), mask) = 0 /\ ~IsConst(low)
RuleAndPiece(o) ==
  LET slot == IF AndPieces(o, 0) THEN 0 ELSE 1
      pieceop == Def(In(o, slot))
      low == In(pieceop, 1)
      made == IF DropsHigh(o, slot) THEN NewBefore(g, o, "INT_ZEXT", OutSize(o), <<V(low)>>)
              ELSE NewBefore(g, o, "PIECE", OutSize(o), <<V(In(pieceop, 0)), K(0, Size(low))>>)
  IN  /\ Code(o) = "INT_AND"
      /\ AndPieces(o, 0) \/ AndPieces(o, 1)
      /\ Becomes(SetInput(made, o, V(NextOut(g)), slot))
RuleAndZext(o) ==
  LET otherop == Def(In(o, 0))
      root == In(otherop, IF Code(otherop) = "INT_SEXT" THEN 0 ELSE 1)
  IN  /\ Code(o) = "INT_AND" /\ IsConst(In(o, 1)) /\ WrittenBy(In(o, 0), {"INT_SEXT", "PIECE"})
      /\ calc_mask(Size(root)) = Val(In(o, 1))
      /\ ~IsFree(root) /\ Size(root) <= WordBytes
      /\ Becomes(SetInput(op_remove_input(SetOpcode(g, o, "INT_ZEXT"), o, 1), o, V(root), 0))

\* RuleAndCompare: (sub(x) & k) == 0 and (zext(x) & k) == 0 mask x itself.
RuleAndCompare(o) ==
  LET andop == Def(In(o, 0))
      subop == Def(In(andop, 0))
      base == In(subop, 0)
      baseconst == Val(In(andop, 1))
      andconst == IF Code(subop) = "SUBPIECE" THEN wrapping_shl(baseconst, Bits(Val(In(subop, 1))))
                  ELSE And(baseconst, calc_mask(Size(base)))
      made == NewBefore(g, andop, "INT_AND", Size(base), <<V(base), K(andconst, Size(base))>>)
  IN  /\ Code(o) \in {"INT_EQUAL", "INT_NOTEQUAL"} /\ IsConstOf(In(o, 1), 0)
      /\ WrittenBy(In(o, 0), {"INT_AND"}) /\ IsConst(In(andop, 1))
      /\ WrittenBy(In(andop, 0), {"SUBPIECE", "INT_ZEXT"})
      /\ Code(subop) = "SUBPIECE" => Size(base) <= WordBytes
      /\ baseconst # calc_mask(Size(In(o, 0)))
      /\ ~IsFree(base)
      /\ Becomes(SetInput(SetInput(made, o, V(NextOut(g)), 0), o, K(0, Size(base)), 1))
----------------------------------------------------------------------------
\* RulePullsubMulti: the readers of a MULTIEQUAL use some of its bytes only, so
\* the truncation moves to its inputs.

min_max_use(v) ==
  LET cuts == {r[1] : r \in Descend(v)}
      low(c) == Val(In(c, 1))
      high(c) == low(c) + OutSize(c) - 1
  IN  IF \E c \in cuts : Code(c) # "SUBPIECE" THEN [min |-> 0, max |-> Size(v) - 1]
      ELSE [min |-> CHOOSE m \in {low(c) : c \in cuts} : \A c \in cuts : m <= low(c),
            max |-> CHOOSE m \in {high(c) : c \in cuts} : \A c \in cuts : m >= high(c)]
acceptable_size(size) == size >= WordBytes \/ size \in {1, 2, 4, 8}
\* The SUBPIECE of v that already exists in the block that defines it.
find_subpiece(gr, v, size, shift) ==
  {c \in LiveOps(gr) : /\ gr.ops[c].code = "SUBPIECE" /\ gr.ops[c].in[1] = v /\ gr.vns[v].kind = "written"
                       /\ Block(gr, gr.vns[v].def) = Block(gr, c)
                       /\ gr.vns[gr.ops[c].out].size = size /\ gr.vns[gr.ops[c].in[2]].val = shift}
build_subpiece(gr, v, size, shift) ==
  IF gr.vns[v].kind \in {"const", "free"} THEN [gr EXCEPT !.err = "pullsub"]
  ELSE IF gr.vns[v].kind = "written" THEN NewAfter(gr, gr.vns[v].def, "SUBPIECE", size, <<V(v), K(shift, IntSize)>>)
  ELSE NewBegin(gr, 0, "SUBPIECE", size, <<V(v), K(shift, IntSize)>>)
\* acc is [gr, params]: the truncation of the next input of the MULTIEQUAL.
PullBranch(acc, v, size, shift) ==
  LET found == find_subpiece(acc.gr, v, size, shift)
      out == IF found = {} THEN NextOut(acc.gr) ELSE acc.gr.ops[CHOOSE c \in found : \A d \in found : c <= d].out
  IN  [gr |-> IF found = {} THEN build_subpiece(acc.gr, v, size, shift) ELSE acc.gr,
       params |-> Append(acc.params, V(out))]
\* replace_descendants for one reader.
PullReader(gr, c, new, min) ==
  LET moved == SetInput(gr, c, V(new), 0)
      cut == gr.vns[gr.ops[c].in[2]].val
  IN  IF gr.vns[new].size = gr.vns[gr.ops[c].out].size THEN ToCopy(moved, c, 1)
      ELSE IF min = 0 THEN moved ELSE SetInput(moved, c, K(cut - min, IntSize), 1)
\* Every other bit of the inputs must be unused, or made by an extension.
PullAllowed(v, size, min) ==
  LET kept == IF min < WordBytes THEN wrapping_shl(calc_mask(size), Bits(min)) ELSE 0
  IN  \/ And(FullNzm - kept, Consume(v)) = 0
      \/ min = 0 /\ WrittenBy(v, {"INT_ZEXT", "INT_SEXT"}) /\ size = Size(In(Def(v), 0))
PulledFrom(pulled, v, size, min) ==
  IF pulled.gr.err # "none" THEN pulled.gr
  ELSE FoldLeft(LAMBDA gr, c : PullReader(gr, c, NextOut(pulled.gr), min),
                NewBegin(pulled.gr, Block(g, Def(v)), "MULTIEQUAL", size, pulled.params),
                SetToSeq({r[1] : r \in Descend(v)}))
PullThrough(v, size, min) ==
  PulledFrom(FoldLeft(LAMBDA acc, w : PullBranch(acc, w, size, min), [gr |-> g, params |-> <<>>], g.ops[Def(v)].in),
             v, size, min)
RulePullsubMulti(o) ==
  LET v == In(o, 0)
  IN  /\ Code(o) = "SUBPIECE" /\ WrittenBy(v, {"MULTIEQUAL"})
      /\ \E use \in {min_max_use(v)} : \E size \in {use.max - use.min + 1} :
           /\ size < Size(v) /\ acceptable_size(size) /\ use.min <= WordBytes
           /\ \A s \in 0..1 : PullAllowed(In(Def(v), s), size, use.min)
           /\ Becomes(PullThrough(v, size, use.min))

\* RulePushMulti: a MULTIEQUAL of two operations that differ in one input.
find_substitute(first, second, block, earliest) ==
  LET joins == {o \in {r[1] : r \in Descend(first)} :
                  Block(g, o) = block /\ Code(o) = "MULTIEQUAL" /\ g.ops[o].in = <<first, second>>}
      op1 == Def(first)
      op2 == Def(second)
      shared == {s \in 0..(NumIn(op1) - 1) : ~IsConst(In(op1, s)) /\ In(op1, s) = In(op2, s)}
      slot == CHOOSE s \in shared : \A t \in shared : s <= t
  IN  IF joins # {} THEN joins
      ELSE IF first = second \/ ~functional_equality(first, second) \/ shared = {} THEN {}
      ELSE cse_find_in_block(op1, In(op1, slot), block, earliest)
\* The operation op1 of the first branch, moved into the block of the MULTIEQUAL o.
PushThrough(o, op1, op2, level, substitute) ==
  LET detached == op_uninsert(SetOutput(g, op1, Out(o)), op1)
      slot == CHOOSE s \in 0..(NumIn(op1) - 1) :
                In(op1, s) = level.left /\ \A t \in 0..(s - 1) : In(op1, t) # level.left
      joined == IF substitute # 0 THEN detached
                ELSE NewBegin(detached, Block(g, o), "MULTIEQUAL", Size(level.left), <<V(level.left), V(level.right)>>)
      join == IF substitute # 0 THEN substitute ELSE NextOp(g)
      placed == IF level.level = 0 THEN op_insert_begin(detached, op1, Block(g, o))
                ELSE op_insert_after(SetInput(joined, op1, V(joined.ops[join].out), slot), op1, join)
  IN  op_destroy(op_destroy(placed, o), op2)
\* A substitute is looked for only when one pair of inputs differs; 0 is none.
Substitutes(o, level) ==
  IF level.level = 0 THEN {}
  ELSE find_substitute(level.left, level.right, Block(g, o), block_earliest_use(Block(g, o), Out(o)))
PushWith(o, level, found) ==
  LET op1 == Def(In(o, 0))
      op2 == Def(In(o, 1))
  IN  \/ /\ Code(op1) = "COPY" /\ level.level = 1
         /\ \E s \in found : Becomes(op_destroy(total_replace(g, Out(o), V(Out(s))), o))
      \/ /\ Code(op1) # "COPY" /\ Lone(In(o, 0)) = o /\ Lone(In(o, 1)) = o
         /\ \E s \in IF found = {} THEN {0} ELSE found : Becomes(PushThrough(o, op1, op2, level, s))
RulePushMulti(o) ==
  /\ Code(o) = "MULTIEQUAL" /\ IsWritten(In(o, 0)) /\ IsWritten(In(o, 1))
  /\ Code(Def(In(o, 0))) # "SUBPIECE"
  /\ \E level \in {functional_equality_level(In(o, 0), In(o, 1))} :
       level.level \in {0, 1} /\ PushWith(o, level, Substitutes(o, level))
----------------------------------------------------------------------------
SimplifyRules ==
  \/ \E o \in Ops : RuleEarlyRemoval(o)
  \/ \E o \in Ops : RuleCollectTerms(o)
  \/ \E o \in Ops : RuleSelectCse(o)
  \/ \E o \in Ops : RulePiece2Zext(o)
  \/ \E o \in Ops : RulePiece2Sext(o)
  \/ \E o \in Ops : RuleBxor2NotEqual(o)
  \/ \E o \in Ops : RuleOrMask(o)
  \/ \E o \in Ops : RuleAndMask(o)
  \/ \E o \in Ops : RuleOrConsume(o)
  \/ \E o \in Ops : RuleOrCollapse(o)
  \/ \E o \in Ops : RuleAndOrLump(o)
  \/ \E o \in Ops : RuleNegateIdentity(o)
  \/ \E o \in Ops : RuleShiftBitops(o)
  \/ \E o \in Ops : RuleRightShiftAnd(o)
  \/ \E o \in Ops : RuleIntLessEqual(o)
  \/ \E o \in Ops : RuleTermOrder(o)
  \/ \E o \in Ops : RuleNotDistribute(o)
  \/ \E o \in Ops : RuleHighOrderAnd(o)
  \/ \E o \in Ops : RuleAndDistribute(o)
  \/ \E o \in Ops : RuleLessOne(o)
  \/ \E o \in Ops : RuleFloatRange(o)
  \/ \E o \in Ops : RuleAndCommute(o)
  \/ \E o \in Ops : RuleAndPiece(o)
  \/ \E o \in Ops : RuleAndZext(o)
  \/ \E o \in Ops : RuleAndCompare(o)
  \/ \E o \in Ops : RulePullsubMulti(o)
  \/ \E o \in Ops : RulePushMulti(o)
=============================================================================
