----------------------------- MODULE RulesArith -----------------------------
(***************************************************************************)
(* The rewrite rules of ruleaction/arith.rs: identities, constant folding, *)
(* copy propagation and the commuting of extensions, truncations, shifts   *)
(* and concatenations.  One action per rule: its guard is the conjunction  *)
(* of the conditions apply_op tests before it changes anything.            *)
(*                                                                         *)
(* Left out: the rules on LOAD, STORE and CPOOLREF, which read memory      *)
(* spaces and the constant pool, and what RulePropagateCopy does for       *)
(* INDIRECT readers, which a fragment does not have.                       *)
(***************************************************************************)
EXTENDS Pcode

Extensions == {"INT_ZEXT", "INT_SEXT"}

\* RuleIdentityEl: x + 0, x ^ 0, x | 0, x * 1, and x * 0.
RuleIdentityEl(o) ==
  /\ Code(o) \in {"INT_ADD", "INT_XOR", "INT_OR", "BOOL_XOR", "BOOL_OR", "INT_MULT"}
  /\ IsConst(In(o, 1))
  /\ LET val == Val(In(o, 1))
         copy == SetOpcode(g, o, "COPY")
     IN  IF Code(o) = "INT_MULT"
         THEN /\ val \in {0, 1}
              /\ Becomes(op_remove_input(copy, o, val))
         ELSE /\ val = 0
              /\ Becomes(op_remove_input(copy, o, 1))

\* RuleShift2Mult: x << k becomes x * 2^k next to another arithmetic operation.
RuleShift2Mult(o) ==
  LET arith == {"INT_ADD", "INT_SUB", "INT_MULT"}
      sa == Val(In(o, 1))
  IN  /\ Code(o) = "INT_LEFT"
      /\ IsConst(In(o, 1)) /\ sa < WordBits \div 2
      /\ \/ WrittenBy(In(o, 0), arith)
         \/ \E r \in Descend(Out(o)) : Code(r[1]) \in arith
      /\ Becomes(SetOpcode(SetInput(g, o, K(Pow2[sa], OutSize(o)), 1), o, "INT_MULT"))

\* The shift amount of a multiplication by a power of two, -1 for anything else.
mult_power_of2(o) ==
  LET val == Val(In(o, 1))
      sa == leastsigbit_set(val)
  IN  IF Code(o) \notin {"INT_LEFT", "INT_MULT"} \/ ~IsConst(In(o, 1)) THEN -1
      ELSE IF Code(o) = "INT_LEFT" THEN val
      ELSE IF sa >= 0 /\ val = Pow2[sa] THEN sa ELSE -1

\* RuleShiftPiece: (ext(hi) << k) + zext(lo) is a concatenation; with the sign
\* of the low part shifted in it is a sign extension.
RuleShiftPiece(o) ==
  LET def1 == Def(In(o, 0))
      def2 == Def(In(o, 1))
      swap == mult_power_of2(def1) < 0
      shiftop == IF swap THEN def2 ELSE def1
      zextloop == IF swap THEN def1 ELSE def2
      sa == mult_power_of2(shiftop)
      zexthiop == Def(In(shiftop, 0))
      vn1 == In(zexthiop, 0)
      concatsize == sa + Bits(Size(vn1))
      lo == In(zextloop, 0)
      newout == NextOut(g)
      rshift == Def(vn1)
      half == In(rshift, 0)
      IsSignOf ==
        /\ WrittenBy(vn1, {"INT_SRIGHT"}) /\ IsConst(In(rshift, 1))
        /\ WrittenBy(half, {"SUBPIECE"}) /\ Val(In(Def(half), 1)) = 0
        /\ In(Def(half), 0) = Out(zextloop)
        /\ Val(In(rshift, 1)) = Bits(Size(half)) - 1
        /\ wrapping_shr(Nzm(Out(zextloop)), sa) = 0
        /\ sa = Bits(Size(half))
  IN  /\ Code(o) \in {"INT_OR", "INT_XOR", "INT_ADD"}
      /\ IsWritten(In(o, 0)) /\ IsWritten(In(o, 1))
      /\ sa >= 0
      /\ WrittenBy(In(shiftop, 0), Extensions)
      /\ IF IsConst(vn1) THEN Size(vn1) >= WordBytes ELSE ~IsFree(vn1)
      /\ Bits(OutSize(o)) >= concatsize
      /\ \/ /\ Code(zextloop) # "INT_ZEXT"
            /\ IsSignOf
            /\ Becomes(op_remove_input(SetInput(SetOpcode(g, o, "INT_SEXT"), o, V(half), 0), o, 1))
         \/ /\ Code(zextloop) = "INT_ZEXT"
            /\ ~IsFree(lo) /\ sa = Bits(Size(lo))
            /\ Becomes(IF concatsize = Bits(OutSize(o))
                       THEN SetInput(SetInput(SetOpcode(g, o, "PIECE"), o, V(vn1), 0), o, V(lo), 1)
                       ELSE LET made == NewBefore(g, o, "PIECE", concatsize \div BitsPerByte, <<V(vn1), V(lo)>>)
                            IN  SetInput(op_remove_input(SetOpcode(made, o, Code(zexthiop)), o, 1), o, V(newout), 0))

\* RuleCollapseConstants: an operation on constants is evaluated.  A division
\* by zero is an error that ends the pass.
op_is_collapsible(o) ==
  /\ Out(o) # 0 /\ OutSize(o) <= WordBytes
  /\ \A s \in 0..(NumIn(o) - 1) : IsConst(In(o, s))
RuleCollapseConstants(o) ==
  LET val == Evaluate(Code(o), OutSize(o), Size(In(o, 0)), [i \in 1..NumIn(o) |-> Val(In(o, i - 1))])
      bare == [g EXCEPT !.ops[o].in = SubSeq(@, 1, 1)]
  IN  /\ Code(o) \notin {"COPY", "PTRADD", "PTRSUB", "SINK"}
      /\ op_is_collapsible(o)
      /\ Becomes(IF val = NoValue THEN [g EXCEPT !.err = "evaluation"]
                 ELSE SetOpcode(SetInput(bare, o, K(val, OutSize(o)), 0), o, "COPY"))

\* RulePropagateCopy: the readers of a copy read its input, but no MULTIEQUAL
\* is made to read a constant.
RulePropagateCopy(o) ==
  LET x == In(o, 0)
      reads == {r \in Descend(Out(o)) : ~(Code(r[1]) = "MULTIEQUAL" /\ IsConst(x))}
  IN  /\ Code(o) = "COPY"
      /\ IsHeritageKnown(x)
      /\ reads # {}
      /\ Becomes(ReplaceReads(g, reads, V(x)))

\* Rule2Comp2Mult: -x is x * -1.
Rule2Comp2Mult(o) ==
  /\ Code(o) = "INT_2COMP"
  /\ LET size == Size(In(o, 0))
     IN  Becomes(op_insert_input(SetOpcode(g, o, "INT_MULT"), o, K(calc_mask(size), size), 1))

\* RuleCarryElim: carry(x, k) is -k <= x.
RuleCarryElim(o) ==
  LET x == In(o, 0)
      k == In(o, 1)
      off == (-Val(k)) % (calc_mask(Size(k)) + 1)
  IN  /\ Code(o) = "INT_CARRY"
      /\ IsConst(k) /\ ~IsFree(x)
      /\ Becomes(IF Val(k) = 0
                 THEN SetOpcode(SetInput(op_remove_input(g, o, 1), o, K(0, 1), 0), o, "COPY")
                 ELSE SetInput(SetInput(SetOpcode(g, o, "INT_LESSEQUAL"), o, V(x), 1), o, K(off, Size(x)), 0))

\* RuleSub2Add: x - y is x + y * -1.
RuleSub2Add(o) ==
  LET y == In(o, 1)
  IN  /\ Code(o) = "INT_SUB"
      /\ LET room == [g EXCEPT !.ops[o].in = SubSeq(@, 1, 1)]
             made == NewBefore(room, o, "INT_MULT", Size(y), <<V(y), K(calc_mask(Size(y)), Size(y))>>)
         IN  Becomes(SetOpcode(SetInput(made, o, V(NextOut(g)), 1), o, "INT_ADD"))

\* RuleXorCollapse: (x ^ y) == 0 compares x with y, (x ^ k) == c compares x with k ^ c.
RuleXorCollapse(o) ==
  LET cmp == In(o, 1)
      xorop == Def(In(o, 0))
      base == In(xorop, 0)
      other == In(xorop, 1)
  IN  /\ Code(o) \in {"INT_EQUAL", "INT_NOTEQUAL"}
      /\ IsConst(cmp)
      /\ WrittenBy(In(o, 0), {"INT_XOR"})
      /\ Lone(In(o, 0)) # 0
      /\ ~IsFree(base)
      /\ \/ /\ ~IsConst(other) /\ ~IsFree(other) /\ Val(cmp) = 0
            /\ Becomes(SetInput(SetInput(g, o, V(other), 1), o, V(base), 0))
         \/ /\ IsConst(other) /\ Val(other) # 0
            /\ Becomes(SetInput(SetInput(g, o, K(Xor(Val(cmp), Val(other)), Size(cmp)), 1), o, V(base), 0))

\* RuleAddMultCollapse: (x + k) + c, (x * k) * c, and ((sp + k) + y) + c where
\* sp is the stack pointer.
SpacebaseSlot(subop) ==
  {slot \in {0, 1} :
     LET sum == In(subop, 1 - slot)
     IN  /\ ~IsFree(In(subop, slot))
         /\ WrittenBy(sum, {"INT_ADD"})
         /\ IsConst(In(Def(sum), 1))
         /\ IsSpacebase(In(Def(sum), 0))}
RuleAddMultCollapse(o) ==
  LET k0 == In(o, 1)
      subop == Def(In(o, 0))
      k1 == In(subop, 1)
      size == Size(k0)
      Folded(k) == K(evaluate_binary(Code(o), size, size, Val(k0), Val(k)), size)
  IN  /\ Code(o) \in {"INT_ADD", "INT_MULT"}
      /\ IsConst(k0)
      /\ WrittenBy(In(o, 0), {Code(o)})
      /\ \/ /\ ~IsConst(k1) /\ Code(o) = "INT_ADD"
            /\ SpacebaseSlot(subop) # {}
            /\ LET slot == IF 0 \in SpacebaseSlot(subop) THEN 0 ELSE 1
                   baseop == Def(In(subop, 1 - slot))
                   made == NewBefore(g, o, "INT_ADD", size, <<V(In(baseop, 0)), Folded(In(baseop, 1))>>)
               IN  Becomes(SetInput(SetInput(made, o, V(NextOut(g)), 0), o, V(In(subop, slot)), 1))
         \/ /\ IsConst(k1) /\ ~IsFree(In(subop, 0))
            /\ Becomes(SetInput(SetInput(g, o, Folded(k1), 1), o, V(In(subop, 0)), 0))

\* RuleSubExtComm: truncating an extension truncates, extends or copies its input.
RuleSubExtComm(o) ==
  LET extop == Def(In(o, 0))
      invn == In(extop, 0)
      cut == Val(In(o, 1))
      insize == Size(invn)
      cutvn == K(cut, Size(In(o, 1)))
      made == NewBefore(g, o, "SUBPIECE", insize - cut, <<V(invn), cutvn>>)
      Extend(gr, v) == SetInput(SetOpcode(op_remove_input(gr, o, 1), o, Code(extop)), o, V(v), 0)
      through == SetInput(g, o, V(invn), 0)
  IN  /\ Code(o) = "SUBPIECE"
      /\ WrittenBy(In(o, 0), Extensions)
      /\ ~IsFree(invn)
      /\ \/ /\ OutSize(o) + cut <= insize
            /\ Becomes(IF insize = OutSize(o) THEN SetOpcode(op_remove_input(through, o, 1), o, "COPY")
                       ELSE through)
         \/ /\ OutSize(o) + cut > insize /\ cut < insize
            /\ Becomes(IF cut # 0 THEN Extend(made, NextOut(g)) ELSE Extend(g, invn))

\* RuleSubCommute: a truncation moves inside the operation it truncates.
\* cancel_extensions: a division of two extensions is done on the wider of the
\* two inputs; shorten_extension makes the other extension that narrow.
Definite(v) == ~IsFree(v) \/ IsConst(v)
shorten_extension(gr, extop, size) ==
  LET v == NextOut(gr)
      cut == op_unset_output(gr, extop)
  IN  [cut EXCEPT !.vns = Append(@, Varnode("written", size, NoValue, FullNzm, extop)), !.ops[extop].out = v]
CancelEnabled(longform, o) ==
  LET ext(slot) == In(Def(In(longform, slot)), 0)
      wide == IF Size(ext(0)) < Size(ext(1)) THEN {1}
              ELSE IF Size(ext(0)) > Size(ext(1)) THEN {0} ELSE {0, 1}
  IN  /\ Lone(Out(longform)) = o
      /\ \A slot \in wide : Definite(ext(slot))
      /\ \A slot \in {0, 1} \ wide : Lone(In(longform, slot)) = longform
cancel_extensions(longform, o) ==
  LET ext(slot) == In(Def(In(longform, slot)), 0)
      size == IF Size(ext(0)) < Size(ext(1)) THEN Size(ext(1)) ELSE Size(ext(0))
      narrow == {slot \in {0, 1} : Size(ext(slot)) < size}
      short == CHOOSE slot \in narrow : TRUE
      g1 == IF narrow = {} THEN g ELSE shorten_extension(g, Def(In(longform, short)), size)
      operand(slot) == IF slot \in narrow THEN V(NextOut(g)) ELSE V(ext(slot))
      g2 == shorten_extension(g1, longform, size)
      g3 == SetInput(SetInput(g2, longform, operand(0), 0), longform, operand(1), 1)
  IN  SetInput(g3, o, V(NextOut(g1)), 0)

\* The commuting itself: each input of longform but skip is truncated.
RECURSIVE Truncate(_, _, _, _, _)
Truncate(gr, o, longform, slots, last) ==
  IF slots = <<>> THEN op_destroy(SetOutput(gr, longform, Out(o)), o)
  ELSE LET slot == Head(slots)
           v == In(longform, slot)
           made == NewBefore([gr EXCEPT !.ops[longform].in[slot + 1] = 0], longform, "SUBPIECE", OutSize(o),
                             <<V(v), K(Val(In(o, 1)), IntSize)>>)
       IN  IF last # <<>> /\ last[1] = v
           THEN Truncate(SetInput(gr, longform, V(last[2]), slot), o, longform, Tail(slots), last)
           ELSE Truncate(SetInput(made, longform, V(NextOut(gr)), slot), o, longform, Tail(slots),
                         <<v, NextOut(gr)>>)

ExtendedBy(v, code) == WrittenBy(v, {code})
NarrowInput(longform, slot) == In(Def(In(longform, slot)), 0)
\* Both sides of a division extended by code, one of them from more than size bytes.
MustCancel(longform, code, size) ==
  /\ \A slot \in {0, 1} : ExtendedBy(In(longform, slot), code)
  /\ \E slot \in {0, 1} : Size(NarrowInput(longform, slot)) > size
DivisionFits(longform, code, insize, size) ==
  LET k == Val(In(longform, 1))
      small == And(k, calc_mask(size))
  IN  /\ ExtendedBy(In(longform, 0), code)
      /\ Size(NarrowInput(longform, 0)) <= size
      /\ \/ ExtendedBy(In(longform, 1), code) /\ Size(NarrowInput(longform, 1)) <= size
         \/ /\ IsConst(In(longform, 1))
            /\ k = IF code = "INT_SEXT" THEN sign_extend_size(small, size, insize) ELSE small
RuleSubCommute(o) ==
  LET base == In(o, 0)
      longform == Def(base)
      offset == Val(In(o, 1))
      insize == Size(base)
      size == OutSize(o)
      code == Code(longform)
      ext == IF code \in {"INT_REM", "INT_DIV"} THEN "INT_ZEXT" ELSE "INT_SEXT"
      division == code \in {"INT_REM", "INT_DIV", "INT_SREM", "INT_SDIV"}
      skip == IF code = "INT_LEFT" THEN {1} ELSE {}
      next == Lone(Out(o))
  IN  /\ Code(o) = "SUBPIECE" /\ IsWritten(base)
      /\ \/ /\ division /\ offset = 0
            /\ MustCancel(longform, ext, size)
            /\ CancelEnabled(longform, o)
            /\ Becomes(cancel_extensions(longform, o))
         \/ /\ \/ division /\ offset = 0 /\ DivisionFits(longform, ext, insize, size)
               \/ code = "INT_LEFT" /\ offset = 0 /\ WrittenBy(In(longform, 0), {"INT_ZEXT", "PIECE"})
               \/ code = "INT_ADD" /\ offset = 0 /\ ~IsSpacebase(In(longform, 0))
               \/ code = "INT_MULT" /\ offset = 0
               \/ code \in {"INT_NEGATE", "INT_XOR", "INT_AND", "INT_OR"}
            /\ Lone(base) = o
            /\ ~(offset = 0 /\ next # 0 /\ Code(next) = "INT_ZEXT" /\ OutSize(next) = insize)
            /\ Becomes(Truncate(g, o, longform,
                                SelectSeq([i \in 1..NumIn(longform) |-> i - 1], LAMBDA s : s \notin skip), <<>>))

\* RuleConcatCommute: a concatenation moves inside a logical operation with a constant.
ConcatConstant(o, slot) ==
  LET logicop == Def(In(o, slot))
      k == Val(In(logicop, 1))
      losize == Size(In(o, 1))
      high == wrapping_shl(k, Bits(losize))
  IN  IF slot = 0 THEN IF Code(logicop) = "INT_AND" THEN Or(high, calc_mask(losize)) ELSE high
      ELSE IF Code(logicop) = "INT_AND"
           THEN Or(k, wrapping_shl(calc_mask(Size(In(o, 0))), Bits(losize))) ELSE k
RuleConcatCommute(o) ==
  LET Part(slot, want_) == IF slot = want_ THEN In(Def(In(o, slot)), 0) ELSE In(o, want_)
      Good(slot) == /\ WrittenBy(In(o, slot), {"INT_OR", "INT_XOR", "INT_AND"})
                    /\ IsConst(In(Def(In(o, slot)), 1))
                    /\ ~IsFree(Part(slot, 0)) /\ ~IsFree(Part(slot, 1))
      slot == IF Good(0) THEN 0 ELSE 1
      made == NewBefore(g, o, "PIECE", OutSize(o), <<V(Part(slot, 0)), V(Part(slot, 1))>>)
  IN  /\ Code(o) = "PIECE" /\ OutSize(o) <= WordBytes
      /\ Good(0) \/ Good(1)
      /\ Becomes(SetInput(SetInput(SetOpcode(made, o, Code(Def(In(o, slot)))), o, V(NextOut(g)), 0),
                          o, K(ConcatConstant(o, slot), OutSize(o)), 1))

\* RuleConcatZext: concat(zext(x), y) is zext(concat(x, y)).
RuleConcatZext(o) ==
  LET hi == In(Def(In(o, 0)), 0)
      lo == In(o, 1)
      made == NewBefore(g, o, "PIECE", Size(hi) + Size(lo), <<V(hi), V(lo)>>)
  IN  /\ Code(o) = "PIECE"
      /\ WrittenBy(In(o, 0), {"INT_ZEXT"})
      /\ ~IsFree(hi) /\ ~IsFree(lo)
      /\ Becomes(SetOpcode(SetInput(op_remove_input(made, o, 1), o, V(NextOut(g)), 0), o, "INT_ZEXT"))

\* RuleZextCommute: zext(x) >> k is zext(x >> k).
RuleZextCommute(o) ==
  LET x == In(Def(In(o, 0)), 0)
      sa == In(o, 1)
      bare == op_remove_input(g, o, 1)
      made == NewBefore(bare, o, "INT_RIGHT", Size(x), <<V(x), V(sa)>>)
  IN  /\ Code(o) = "INT_RIGHT"
      /\ WrittenBy(In(o, 0), {"INT_ZEXT"})
      /\ ~IsFree(x) /\ Definite(sa)
      /\ Becomes(SetOpcode(SetInput(made, o, V(NextOut(g)), 0), o, "INT_ZEXT"))

\* RuleZextShiftZext: zext(zext(x)) and zext(zext(x) << k).
RuleZextShiftZext(o) ==
  LET def == Def(In(o, 0))
      root == In(Def(In(def, 0)), 0)
      sa == Val(In(def, 1))
      made == NewBefore(g, o, "INT_ZEXT", OutSize(o), <<V(root)>>)
  IN  /\ Code(o) = "INT_ZEXT" /\ IsWritten(In(o, 0))
      /\ \/ /\ Code(def) = "INT_ZEXT"
            /\ Definite(In(def, 0)) /\ Lone(In(o, 0)) = o
            /\ Becomes(SetInput(g, o, V(In(def, 0)), 0))
         \/ /\ Code(def) = "INT_LEFT" /\ IsConst(In(def, 1))
            /\ WrittenBy(In(def, 0), {"INT_ZEXT"}) /\ ~IsFree(root)
            /\ sa <= Bits(Size(In(def, 0)) - Size(root))
            /\ Becomes(op_insert_input(SetInput(SetOpcode(made, o, "INT_LEFT"), o, V(NextOut(g)), 0),
                                       o, K(sa, IntSize), 1))

\* RuleShiftAnd: a mask under a shift that clears no bit the shift keeps.
RuleShiftAnd(o) ==
  LET k == Val(In(o, 1))
      andop == Def(In(o, 0))
      invn == In(andop, 0)
      full == calc_mask(Size(invn))
      sa == IF Code(o) = "INT_MULT" THEN leastsigbit_set(k) ELSE k
      Moved(mask) == IF Code(o) = "INT_RIGHT" THEN wrapping_shr(mask, sa) ELSE And(wrapping_shl(mask, sa), full)
      nzm == Moved(Nzm(invn))
  IN  /\ Code(o) \in {"INT_RIGHT", "INT_LEFT", "INT_MULT"}
      /\ IsConst(In(o, 1))
      /\ WrittenBy(In(o, 0), {"INT_AND"})
      /\ IsConst(In(andop, 1)) /\ ~IsFree(invn)
      /\ Code(o) = "INT_MULT" => sa > 0 /\ k = Pow2[sa]
      /\ And(Moved(Val(In(andop, 1))), nzm) = nzm
      /\ Becomes(SetInput(g, o, V(invn), 0))

\* RuleConcatZero: concat(x, 0) is zext(x) << k.
RuleConcatZero(o) ==
  LET bare == [g EXCEPT !.ops[o].in = <<>>]
      made == NewBefore(bare, o, "INT_ZEXT", OutSize(o), <<V(In(o, 0))>>)
  IN  /\ Code(o) = "PIECE"
      /\ IsConstOf(In(o, 1), 0) /\ ~IsConstOf(In(o, 0), 0)
      /\ Becomes(SetInput(SetInput(SetOpcode(made, o, "INT_LEFT"), o, V(NextOut(g)), 0),
                          o, K(Bits(Size(In(o, 1))), IntSize), 1))

\* RuleConcatLeftShift: concat(x, zext(y) << k) is concat(concat(x, y), 0).
RuleConcatLeftShift(o) ==
  LET shiftop == Def(In(o, 1))
      sa == Val(In(shiftop, 1))
      mid == In(shiftop, 0)
      lo == In(Def(mid), 0)
      hi == In(o, 0)
      size == Size(hi) + Size(lo)
      made == NewBefore(g, o, "PIECE", size, <<V(hi), V(lo)>>)
  IN  /\ Code(o) = "PIECE"
      /\ WrittenBy(In(o, 1), {"INT_LEFT"})
      /\ IsConst(In(shiftop, 1)) /\ sa % BitsPerByte = 0
      /\ WrittenBy(mid, {"INT_ZEXT"})
      /\ ~IsFree(lo) /\ ~IsFree(hi)
      /\ sa \div BitsPerByte + Size(lo) = Size(mid)
      /\ Becomes(SetInput(SetInput(made, o, V(NextOut(g)), 0), o, K(0, OutSize(o) - size), 1))

\* RuleSubZext: zext(trunc(x)) is a mask, zext(trunc(x) >> k) a shift and a mask.
NewUnique(gr, size) == [gr EXCEPT !.vns = Append(@, Varnode("free", size, NoValue, FullNzm, 0))]
RuleSubZext(o) ==
  LET subvn == In(o, 0)
      def == Def(subvn)
      fresh == NextOut(g)
      Masked(gr, mask, size) == op_insert_input(SetOpcode(gr, o, "INT_AND"), o, K(mask, size), 1)
      base == In(def, 0)
      cut == Val(In(def, 1))
      basesize == Size(base)
      room == SetInput(NewUnique(g, basesize), o, V(fresh), 0)
      Shifted == SetOutput(SetInput(SetOpcode(room, def, "INT_RIGHT"), def, K(Bits(cut), Size(In(def, 1))), 1),
                           def, fresh)
      mid == In(def, 0)
      subop == Def(mid)
      far == In(subop, 0)
      room2 == SetInput(NewUnique(g, Size(far)), o, V(fresh), 0)
      Reshifted == SetOutput(SetInput(SetInput(room2, def, V(far), 0), def,
                                      K(cut + Bits(Val(In(subop, 1))), Size(In(def, 1))), 1), def, fresh)
  IN  /\ Code(o) = "INT_ZEXT" /\ IsWritten(subvn)
      /\ \/ /\ Code(def) = "SUBPIECE"
            /\ ~IsFree(base) /\ basesize = OutSize(o) /\ basesize <= WordBytes
            /\ cut # 0 => Lone(subvn) = o
            /\ Becomes(Masked(IF cut # 0 THEN Shifted ELSE SetInput(g, o, V(base), 0),
                              calc_mask(Size(subvn)), basesize))
         \/ /\ Code(def) = "INT_RIGHT" /\ IsConst(In(def, 1))
            /\ WrittenBy(mid, {"SUBPIECE"}) /\ ~IsFree(far)
            /\ Size(far) = OutSize(o)
            /\ Lone(mid) = def /\ Lone(subvn) = o
            /\ Becomes(Masked(Reshifted, wrapping_shr(calc_mask(Size(mid)), cut), Size(far)))

\* RuleSubCancel: trunc(ext(x)) and trunc(x & mask).
RuleSubCancel(o) ==
  LET base == In(o, 0)
      extop == Def(base)
      far == In(extop, 0)
      offset == Val(In(o, 1))
      size == OutSize(o)
      Through(code, operand) ==
        LET made == SetInput(SetOpcode(g, o, code), o, operand, 0)
        IN  IF code = "SUBPIECE" THEN made ELSE op_remove_input(made, o, 1)
  IN  /\ Code(o) = "SUBPIECE"
      /\ \/ /\ WrittenBy(base, {"INT_AND"})
            /\ offset = 0 /\ IsConstOf(In(extop, 1), calc_mask(size)) /\ ~IsFree(far)
            /\ Becomes(SetInput(g, o, V(far), 0))
         \/ /\ WrittenBy(base, Extensions) /\ offset = 0
            /\ \/ /\ IsConst(far) /\ Size(base) > WordBytes /\ size = Size(far)
                  /\ Becomes(Through("COPY", K(Val(far), Size(far))))
               \/ /\ ~IsFree(far)
                  /\ Becomes(Through(IF size = Size(far) THEN "COPY"
                                     ELSE IF size < Size(far) THEN "SUBPIECE" ELSE Code(extop), V(far)))
         \/ /\ WrittenBy(base, {"INT_ZEXT"}) /\ offset # 0 /\ Size(far) <= offset
            /\ Becomes(Through("COPY", K(0, size)))

\* RuleShiftSub: a truncation of a left shift by whole bytes.
RuleShiftSub(o) ==
  LET shiftop == Def(In(o, 0))
      x == In(shiftop, 0)
      sa == Val(In(shiftop, 1))
      cut == Val(In(o, 1)) - sa \div BitsPerByte
  IN  /\ Code(o) = "SUBPIECE"
      /\ WrittenBy(In(o, 0), {"INT_LEFT"})
      /\ IsConst(In(shiftop, 1)) /\ sa % BitsPerByte = 0
      /\ ~IsFree(x)
      /\ cut >= 0 /\ cut + OutSize(o) <= Size(x)
      /\ Becomes(SetInput(SetInput(g, o, V(x), 0), o, K(cut, Size(In(o, 1))), 1))

ArithRules ==
  \/ \E o \in Ops : RuleIdentityEl(o)
  \/ \E o \in Ops : RuleShift2Mult(o)
  \/ \E o \in Ops : RuleShiftPiece(o)
  \/ \E o \in Ops : RuleCollapseConstants(o)
  \/ \E o \in Ops : RulePropagateCopy(o)
  \/ \E o \in Ops : Rule2Comp2Mult(o)
  \/ \E o \in Ops : RuleCarryElim(o)
  \/ \E o \in Ops : RuleSub2Add(o)
  \/ \E o \in Ops : RuleXorCollapse(o)
  \/ \E o \in Ops : RuleAddMultCollapse(o)
  \/ \E o \in Ops : RuleSubExtComm(o)
  \/ \E o \in Ops : RuleSubCommute(o)
  \/ \E o \in Ops : RuleConcatCommute(o)
  \/ \E o \in Ops : RuleConcatZext(o)
  \/ \E o \in Ops : RuleZextCommute(o)
  \/ \E o \in Ops : RuleZextShiftZext(o)
  \/ \E o \in Ops : RuleShiftAnd(o)
  \/ \E o \in Ops : RuleConcatZero(o)
  \/ \E o \in Ops : RuleConcatLeftShift(o)
  \/ \E o \in Ops : RuleSubZext(o)
  \/ \E o \in Ops : RuleSubCancel(o)
  \/ \E o \in Ops : RuleShiftSub(o)
=============================================================================
