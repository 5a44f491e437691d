---------------------------- MODULE RulesDouble ----------------------------
(***************************************************************************)
(* Double precision recovery (double.rs): a value held in two varnodes,    *)
(* its low and its high half, on which carries, borrows and shifts are     *)
(* computed by hand, is computed as a whole again.  RuleDoubleIn starts    *)
(* from the halves SUBPIECE takes of a varnode and tries the form of each  *)
(* operation reading one of them.  The forms that span several branches    *)
(* are in DoubleCompare.                                                   *)
(***************************************************************************)
EXTENDS Expressions

IsPrecisHi(v) == v \in g.precis_hi
IsPrecisLo(v) == v \in g.precis_lo
MarkHi(gr, v) == IF v = 0 THEN gr ELSE [gr EXCEPT !.precis_hi = @ \cup {v}]
MarkLo(gr, v) == IF v = 0 THEN gr ELSE [gr EXCEPT !.precis_lo = @ \cup {v}]
Later(p, o) == Position(g, p) > Position(g, o)
Halves == {"SUBPIECE"}
OtherIn(o, v) == IF In(o, 0) = v THEN In(o, 1) ELSE In(o, 0)
Readers(v, codes) == {r[1] : r \in {d \in Descend(v) : Code(d[1]) \in codes}}
----------------------------------------------------------------------------
\* SplitVarnode: the halves lo and hi, the whole when it exists and the
\* operation def after which it can be had (0 when from the start); with no lo
\* the constant val.

init_all(whole, lo, hi) == [lo |-> lo, hi |-> hi, whole |-> whole, def |-> 0, val |-> 0, size |-> Size(whole)]
init_partial_constant(size, value) == [lo |-> 0, hi |-> 0, whole |-> 0, def |-> 0, val |-> value, size |-> size]
init_partial(size, lo, hi) ==
  CASE IsConst(lo) /\ hi = 0 -> init_partial_constant(size, Val(lo))
    [] IsConst(lo) /\ hi # 0 /\ IsConst(hi) ->
         init_partial_constant(size, Or(wrapping_shl(Val(hi), Bits(Size(lo))), Val(lo)))
    [] OTHER -> [lo |-> lo, hi |-> hi, whole |-> 0, def |-> 0, val |-> 0, size |-> size]
IsConstant(s) == s.lo = 0
HasBothPieces(s) == s.lo # 0 /\ s.hi # 0
ExceedsConstPrecision(s) == IsConstant(s) /\ s.size > WordBytes

\* The operation that makes v, or that makes what v is a copy of.
Origin(v) ==
  IF ~WrittenBy(v, {"COPY"}) THEN Def(v)
  ELSE IF IsWritten(In(Def(v), 0)) THEN Def(In(Def(v), 0)) ELSE 0
IsPartOf(o, offset) == o # 0 /\ Code(o) \in Halves /\ Val(In(o, 1)) = offset
\* The varnode both halves were taken from, 0 when there is none.
find_whole_split_to_pieces(s) ==
  IF s.whole # 0 \/ ~HasBothPieces(s) THEN s.whole
  ELSE LET subhi == Origin(s.hi)
           sublo == Origin(s.lo)
       IN  IF /\ IsPartOf(subhi, s.size - Size(s.hi)) /\ Size(In(subhi, 0)) = s.size
              /\ IsPartOf(sublo, 0) /\ In(sublo, 0) = In(subhi, 0)
           THEN In(subhi, 0) ELSE 0
\* The first PIECE of the two halves in the block of the low one.
find_whole_built_from_pieces(s) ==
  LET block == IF IsWritten(s.lo) THEN Block(g, Def(s.lo)) ELSE 0
      pieces == {o \in Readers(s.lo, {"PIECE"}) : In(o, 0) = s.hi /\ Block(g, o) = block}
  IN  IF ~HasBothPieces(s) THEN 0
      ELSE IF pieces = {} THEN 0 ELSE CHOOSE o \in pieces : \A p \in pieces : ~Later(o, p)
\* The operation after which both halves are there: in one block the later one,
\* else the one in the second block, which the first dominates.
NotDefined == -1
find_definition_point(s) ==
  CASE IsConst(s.lo) \/ (s.hi # 0 /\ IsConst(s.hi)) -> NotDefined
    [] s.hi = 0 -> IF IsInput(s.lo) THEN 0 ELSE IF IsWritten(s.lo) THEN Def(s.lo) ELSE NotDefined
    [] s.hi # 0 /\ IsWritten(s.hi) ->
         IF ~IsWritten(s.lo) THEN NotDefined ELSE IF Later(Def(s.lo), Def(s.hi)) THEN Def(s.lo) ELSE Def(s.hi)
    [] OTHER -> IF IsInput(s.lo) THEN 0 ELSE NotDefined
\* The split with its whole and definition point: no or one record.
Located(s) ==
  LET whole == find_whole_split_to_pieces(s)
      piece == find_whole_built_from_pieces(s)
      point == find_definition_point(s)
  IN  CASE whole # 0 -> {[s EXCEPT !.whole = whole, !.def = IF IsWritten(whole) THEN Def(whole) ELSE 0]}
        [] whole = 0 /\ piece # 0 -> {[s EXCEPT !.whole = Out(piece), !.def = piece]}
        [] OTHER -> IF point = NotDefined THEN {} ELSE {[s EXCEPT !.def = point]}
\* is_whole_feasible: the split, when its whole can be had at the operation.
Feasible(s, existop) ==
  IF IsConstant(s) THEN {s}
  ELSE IF s.hi # 0 /\ IsConst(s.lo) # IsConst(s.hi) THEN {}
  ELSE {t \in Located(s) : t.def = 0 \/ ~Later(t.def, existop)}
\* is_whole_phi_feasible, for a block that every definition before the branch reaches.
PhiFeasible(s) == IF IsConstant(s) THEN {} ELSE {t \in Located(s) : t.def = 0 \/ Block(g, t.def) = 0}

\* find_create_whole: an existing whole, a constant, or a new PIECE or INT_ZEXT.
Needed(s) == ~IsConstant(s) /\ s.whole = 0
CreateWhole(gr, s) ==
  LET marked == IF IsConstant(s) THEN gr ELSE MarkHi(MarkLo(gr, s.lo), s.hi)
      code == IF s.hi = 0 THEN "INT_ZEXT" ELSE "PIECE"
      operands == IF s.hi = 0 THEN <<V(s.lo)>> ELSE <<V(s.hi), V(s.lo)>>
  IN  IF ~Needed(s) THEN marked
      ELSE IF s.def = 0 THEN NewBegin(marked, 0, code, s.size, operands) ELSE NewAfter(marked, s.def, code, s.size, operands)
WholeOf(gr, s) == IF IsConstant(s) THEN K(s.val, s.size) ELSE IF s.whole # 0 THEN V(s.whole) ELSE V(NextOut(gr))
\* build_piece_from_whole: a half becomes a part of the whole, after the
\* MULTIEQUALs of its block when it was one of them.
BuildPiece(gr, v, whole, offset) ==
  LET o == gr.vns[v].def
      inputs(gs) == SetAllInput(SetOpcode(gs, o, "SUBPIECE"), o, <<V(whole), K(offset, IntSize)>>)
  IN  IF gr.ops[o].code = "MULTIEQUAL" THEN op_insert_begin(inputs(op_uninsert(gr, o)), o, Block(gr, o)) ELSE inputs(gr)
BuildPieces(gr, out, whole) == BuildPiece(BuildPiece(gr, out.lo, whole, 0), out.hi, whole, Size(out.lo))

\* find_earliest_split_point and find_out_exist.
find_earliest_split_point(s) ==
  IF ~IsWritten(s.hi) \/ ~IsWritten(s.lo) THEN 0
  ELSE IF Block(g, Def(s.hi)) # Block(g, Def(s.lo)) THEN 0
  ELSE IF Later(Def(s.hi), Def(s.lo)) THEN Def(s.lo) ELSE Def(s.hi)
find_out_exist(s) ==
  IF find_whole_built_from_pieces(s) # 0 THEN find_whole_built_from_pieces(s) ELSE find_earliest_split_point(s)
----------------------------------------------------------------------------
\* The edits of the forms.

\* prepare_binary_op and create_binary_op, or the same for a shift: the
\* operation on the wholes is computed where the result is first known, in a
\* new operation the halves are taken from or in the PIECE that joins them.
Joined(out) == MarkHi(MarkLo(g, out.lo), out.hi)
CreateOp(gr, out, existop, code, operands) ==
  IF Code(existop) = "PIECE"
  THEN SetInput(SetInput(SetOpcode(gr, existop, code), existop, operands[1], 0), existop, operands[2], 1)
  ELSE BuildPieces(NewBefore(gr, existop, code, out.size, operands), out, NextOut(gr))
CreateBinary(out, existop, code, in1, in2, made1) ==
  CreateOp(CreateWhole(made1, in2), out, existop, code, <<WholeOf(Joined(out), in1), WholeOf(made1, in2)>>)
BinaryOp(code, out, in1, in2) ==
  \E existop \in {find_out_exist(out)} :
    /\ existop # 0
    /\ \E s1 \in Feasible(in1, existop), s2 \in Feasible(in2, existop) :
         Becomes(CreateBinary(out, existop, code, s1, s2, CreateWhole(Joined(out), s1)))
ShiftOp(code, out, in, amount) ==
  \E existop \in {find_out_exist(out)} :
    /\ existop # 0
    /\ \E s \in Feasible(in, existop) :
         Becomes(CreateOp(CreateWhole(Joined(out), s), out, existop, code, <<WholeOf(Joined(out), s), K(Val(amount), Size(amount))>>))
\* prepare_bool_op and replace_bool_op.
ReplaceBool(o, code, in1, in2, made1) ==
  SetInput(SetInput(SetOpcode(CreateWhole(made1, in2), o, code), o, WholeOf(g, in1), 0), o, WholeOf(made1, in2), 1)
BoolOp(o, code, in1, in2) ==
  \E s1 \in Feasible(in1, o), s2 \in Feasible(in2, o) :
    Becomes(ReplaceBool(o, code, s1, s2, CreateWhole(g, s1)))
----------------------------------------------------------------------------
\* The first of several sets of matches that is not empty.
FirstMatches(sets) ==
  IF \A i \in DOMAIN sets : sets[i] = {} THEN {}
  ELSE sets[CHOOSE i \in DOMAIN sets : sets[i] # {} /\ \A j \in 1..(i - 1) : sets[j] = {}]

\* AddForm: lo1 + lo2, and hi1 + hi2 + zext(carry) in either order.
\* check_for_carry: what lo1 is added to when the operation extends its carry:
\* a varnode, or a constant.
NoAddend == [v |-> 0, k |-> NoValue]
Addend(v) == [v |-> v, k |-> NoValue]
ConstAddend(k) == [v |-> 0, k |-> k]
CarryLess(carryop, lo1) ==
  LET sum == In(carryop, 0)
      bound == In(carryop, 1)
      other == OtherIn(Def(sum), lo1)
  IN  CASE IsConst(sum) -> IF bound = lo1 THEN ConstAddend(calc_mask(Size(lo1)) - And(Val(sum), calc_mask(Size(lo1)))) ELSE NoAddend
        [] WrittenBy(sum, {"INT_ADD"}) ->
             CASE lo1 \notin {In(Def(sum), 0), In(Def(sum), 1)} -> NoAddend
               [] IsConst(other) -> IF bound = lo1 \/ IsConstOf(bound, Val(other)) THEN ConstAddend(Val(other)) ELSE NoAddend
               [] OTHER -> IF bound \in {other, lo1} THEN Addend(other) ELSE NoAddend
        [] OTHER -> NoAddend
MutCarryNotequal(carryop, lo1) ==    \* mutant: any test against a constant is a carry
  IF IsConst(In(carryop, 1)) /\ In(carryop, 0) = lo1 THEN ConstAddend(calc_mask(Size(lo1))) ELSE NoAddend
CarryNotequal(carryop, lo1) ==
  IF IsConstOf(In(carryop, 1), 0) /\ In(carryop, 0) = lo1 THEN ConstAddend(calc_mask(Size(lo1))) ELSE NoAddend
check_for_carry(zext, lo1) ==
  LET carryop == Def(In(Def(zext), 0))
      other == OtherIn(carryop, lo1)
  IN  IF ~WrittenBy(zext, {"INT_ZEXT"}) THEN NoAddend
      ELSE IF ~IsWritten(In(Def(zext), 0)) THEN NoAddend
      ELSE CASE Code(carryop) = "INT_CARRY" ->
                  IF lo1 \in {In(carryop, 0), In(carryop, 1)} /\ ~IsConst(other) THEN Addend(other) ELSE NoAddend
             [] Code(carryop) = "INT_LESS" -> CarryLess(carryop, lo1)
             [] Code(carryop) = "INT_NOTEQUAL" -> CarryNotequal(carryop, lo1)
             [] OTHER -> NoAddend
\* The additions of lo1 and the term.
LowSums(term, lo1) ==
  IF term = NoAddend THEN {}
  ELSE {o \in Readers(lo1, {"INT_ADD"}) :
          IF term.v = 0 THEN IsConstOf(OtherIn(o, lo1), term.k) ELSE OtherIn(o, lo1) = term.v}
\* The two other terms of a sum of three with hi1, and its result.
SumAbove(op) ==
  LET add2 == Lone(Out(op)) IN IF add2 = 0 THEN FALSE ELSE Code(add2) = "INT_ADD"
SumBelow(op, hi1) == WrittenBy(OtherIn(op, hi1), {"INT_ADD"})
AddMatches(reshi, zext, hi2, lo1) ==
  {[lo2 |-> OtherIn(o, lo1), hi2 |-> hi2, reslo |-> Out(o), reshi |-> reshi] : o \in LowSums(check_for_carry(zext, lo1), lo1)}
add_verify(hi1, lo1, op) ==
  LET add2 == Lone(Out(op))
      x == OtherIn(op, hi1)
      y == OtherIn(add2, Out(op))
      below == Def(x)
  IN  FirstMatches(<<IF SumAbove(op) THEN AddMatches(Out(add2), x, y, lo1) ELSE {},
                     IF SumAbove(op) THEN AddMatches(Out(add2), y, x, lo1) ELSE {},
                     IF SumBelow(op, hi1) THEN AddMatches(Out(op), In(below, 0), In(below, 1), lo1) ELSE {},
                     IF SumBelow(op, hi1) THEN AddMatches(Out(op), In(below, 1), In(below, 0), lo1) ELSE {},
                     AddMatches(Out(op), x, 0, lo1)>>)
ArithmeticForm(code, s, m) ==
  LET indoub == init_partial(s.size, m.lo2, m.hi2)
  IN  /\ ~ExceedsConstPrecision(indoub)
      /\ BinaryOp(code, init_partial(s.size, m.reslo, m.reshi), s, indoub)
AddForm(s, op, workishi) ==
  /\ workishi /\ HasBothPieces(s) /\ Code(op) = "INT_ADD"
  /\ \E m \in add_verify(s.hi, s.lo, op) : ArithmeticForm("INT_ADD", s, m)
----------------------------------------------------------------------------
\* SubForm: lo1 + (-lo2), and hi1 + (-hi2) + (-zext(lo1 < lo2)).
NegatedOf(v) == In(Def(v), 0)
LowDifferences(lo1, lo2) ==
  {o \in Readers(lo1, {"INT_ADD"}) : op_verify_mult_neg_one(OtherIn(o, lo1)) /\ NegatedOf(OtherIn(o, lo1)) = lo2}
BorrowOf(zext, lo1) ==
  IF ~WrittenBy(zext, {"INT_ZEXT"}) THEN 0
  ELSE LET less == In(Def(zext), 0)
       IN  IF WrittenBy(less, {"INT_LESS"}) /\ In(Def(less), 0) = lo1 THEN In(Def(less), 1) ELSE 0
SubMatches(reshi, zext, hi2, lo1) ==
  LET lo2 == BorrowOf(zext, lo1)
  IN  IF lo2 = 0 THEN {}
      ELSE {[lo2 |-> lo2, hi2 |-> hi2, reslo |-> Out(o), reshi |-> reshi] : o \in LowDifferences(lo1, lo2)}
BothNegated(reshi, x, y, lo1) ==
  IF ~op_verify_mult_neg_one(x) \/ ~op_verify_mult_neg_one(y) THEN {}
  ELSE FirstMatches(<<SubMatches(reshi, NegatedOf(x), NegatedOf(y), lo1), SubMatches(reshi, NegatedOf(y), NegatedOf(x), lo1)>>)
sub_verify(hi1, lo1, op) ==
  LET add2 == Lone(Out(op))
      x == OtherIn(op, hi1)
  IN  FirstMatches(<<IF SumAbove(op) THEN BothNegated(Out(add2), x, OtherIn(add2, Out(op)), lo1) ELSE {},
                     IF SumBelow(op, hi1) THEN BothNegated(Out(op), In(Def(x), 0), In(Def(x), 1), lo1) ELSE {}>>)
SubForm(s, op, workishi) ==
  /\ workishi /\ HasBothPieces(s) /\ Code(op) = "INT_ADD"
  /\ \E m \in sub_verify(s.hi, s.lo, op) : ArithmeticForm("INT_SUB", s, m)
----------------------------------------------------------------------------
\* LogicalForm: lo1 op lo2 and hi1 op hi2, bit by bit.

\* in_hand_lo: the high half next to a low one marked as such; in_hand_lo_out:
\* the one it is joined to, when there is only one.
in_hand_lo(lo) ==
  IF ~IsPrecisLo(lo) \/ ~WrittenBy(lo, Halves) THEN {}
  ELSE LET whole == In(Def(lo), 0)
       IN  IF Val(In(Def(lo), 1)) # 0 THEN {}
           ELSE {Out(o) : o \in {p \in Readers(whole, Halves) : /\ IsPrecisHi(Out(p)) /\ OutSize(p) + Size(lo) = Size(whole)
                                                               /\ Val(In(p, 1)) = Size(lo)}}
in_hand_lo_out(lo) ==
  LET joined == {o \in Readers(lo, {"PIECE"}) : In(o, 1) = lo /\ IsPrecisHi(In(o, 0))}
  IN  IF Cardinality(joined) = 1 THEN {In(o, 0) : o \in joined} ELSE {}
\* find_hi_match: the operation on the high half.
SameKind(o, hi1, vn2) ==
  \/ In(o, 0) = hi1 /\ IsConst(In(o, 1)) = IsConst(vn2)
  \/ In(o, 0) # hi1 /\ In(o, 1) = hi1 /\ IsConst(In(o, 0)) = IsConst(vn2)
find_hi_match(hi1, lo1, op) ==
  LET vn2 == OtherIn(op, lo1)
      joined == {Def(hi) : hi \in {h \in in_hand_lo_out(lo1) : IF WrittenBy(h, {Code(op)}) THEN SameKind(Def(h), hi1, vn2) ELSE FALSE}}
      beside == UNION {{o \in Readers(hi2, {Code(op)}) : hi1 \in {In(o, 0), In(o, 1)}} : hi2 \in in_hand_lo(vn2)}
      constant == {o \in Readers(hi1, {Code(op)}) : IsConst(In(o, 1))}
  IN  IF joined # {} THEN joined
      ELSE IF ~IsConst(vn2) THEN beside
      ELSE IF Cardinality(constant) = 1 THEN constant ELSE {}
LogicalForm(s, op, workishi) ==
  /\ ~workishi /\ HasBothPieces(s) /\ Code(op) \in {"INT_AND", "INT_OR", "INT_XOR"}
  /\ \E hiop \in find_hi_match(s.hi, s.lo, op) :
       LET lo2 == OtherIn(op, s.lo)
           hi2 == OtherIn(hiop, s.hi)
       IN  /\ {lo2, hi2} \cap {s.lo, s.hi} = {} /\ lo2 # hi2
           /\ ArithmeticForm(Code(op), s, [lo2 |-> lo2, hi2 |-> hi2, reslo |-> Out(op), reshi |-> Out(hiop)])
----------------------------------------------------------------------------
\* Comparisons of one value.

\* Equal2Form: hi1 == hi2 and lo1 == lo2, joined by the boolean operation.
Equal2Form(s, op, workishi) ==
  /\ workishi /\ HasBothPieces(s) /\ Code(op) \in {"INT_EQUAL", "INT_NOTEQUAL"}
  /\ \E o \in Readers(Out(op), {IF Code(op) = "INT_EQUAL" THEN "BOOL_AND" ELSE "BOOL_OR"}) :
       LET other == OtherIn(o, Out(op))
           lo2 == OtherIn(Def(other), s.lo)
           hi2 == OtherIn(op, s.hi)
           param2 == init_partial(s.size, lo2, hi2)
       IN  /\ WrittenBy(other, {Code(op)}) /\ s.lo \in {In(Def(other), 0), In(Def(other), 1)}
           /\ IsConst(lo2) = IsConst(hi2) /\ ~ExceedsConstPrecision(param2)
           /\ BoolOp(o, Code(op), s, param2)
\* Equal3Form: (hi & lo) == -1.
Equal3Form(s, op, workishi) ==
  LET compare == Lone(Out(op))
      ones == init_partial_constant(s.size, calc_mask(s.size))
  IN  /\ workishi /\ HasBothPieces(s) /\ Code(op) = "INT_AND"
      /\ OtherIn(op, s.hi) = s.lo /\ compare # 0
      /\ Code(compare) \in {"INT_EQUAL", "INT_NOTEQUAL"} /\ IsConstOf(In(compare, 1), calc_mask(Size(s.lo)))
      /\ ~ExceedsConstPrecision(ones)
      /\ BoolOp(compare, Code(compare), s, ones)
\* LessConstForm: the high half alone is compared with a constant.
ConstBound(op, cvn, inslot, losize) ==
  Or(wrapping_shl(Val(cvn), Bits(losize)),
     IF (Code(op) \in {"INT_SLESSEQUAL", "INT_LESSEQUAL"}) # (inslot = 1) THEN calc_mask(losize) ELSE 0)
LessConstForm(s, op, workishi) ==
  LET inslot == IF In(op, 0) = s.hi THEN 0 ELSE 1
      cvn == In(op, 1 - inslot)
      constin == init_partial_constant(s.size, ConstBound(op, cvn, inslot, s.size - Size(s.hi)))
  IN  /\ workishi /\ s.hi # 0 /\ Code(op) \in {"INT_LESS", "INT_LESSEQUAL", "INT_SLESS", "INT_SLESSEQUAL"}
      /\ IsConst(cvn) /\ Lone(Out(op)) # 0 /\ Code(Lone(Out(op))) = "CBRANCH"
      /\ ~ExceedsConstPrecision(constin)
      /\ IF inslot = 0 THEN BoolOp(op, Code(op), s, constin) ELSE BoolOp(op, Code(op), constin, s)
----------------------------------------------------------------------------
\* ShiftForm: each half is shifted, and the bits that cross are put in.

Disjunctions == {"INT_OR", "INT_XOR", "INT_ADD"}
ShiftBy(v, codes, of) == WrittenBy(v, codes) /\ In(Def(v), 0) = of
Amount(v) == In(Def(v), 1)
verify_shift_amount(salo, samid, sahi, lo) ==
  /\ IsConst(salo) /\ IsConst(samid) /\ IsConstOf(sahi, Val(salo))
  /\ Val(salo) < Bits(Size(lo)) /\ Val(samid) = Bits(Size(lo)) - Val(salo)
\* map_left, map_right: the half that gets the crossing bits, and the two parts
\* of it; the part with the code first looked for comes second.
Crossed(o, code, slot) ==
  LET a == In(o, 0)
      b == In(o, 1)
      swap == ~WrittenBy(IF slot = 1 THEN b ELSE a, {code})
  IN  IF swap THEN <<b, a>> ELSE <<a, b>>
ShiftLeftForm(s, op, workishi) ==
  /\ ~workishi /\ HasBothPieces(s) /\ Code(op) = "INT_LEFT"
  /\ \E hishift \in Readers(s.hi, {"INT_LEFT"}) : \E orop \in Readers(Out(hishift), Disjunctions) :
       LET mid == Crossed(orop, "INT_LEFT", 1)
       IN  /\ IsWritten(mid[1]) /\ IsWritten(mid[2]) /\ In(op, 0) = s.lo
           /\ ShiftBy(mid[1], {"INT_RIGHT"}, s.lo) /\ ShiftBy(mid[2], {"INT_LEFT"}, s.hi)
           /\ verify_shift_amount(In(op, 1), Amount(mid[1]), Amount(mid[2]), s.lo)
           /\ ShiftOp("INT_LEFT", init_partial(s.size, Out(op), Out(orop)), s, In(op, 1))
ShiftRightForm(s, op, workishi) ==
  /\ workishi /\ HasBothPieces(s) /\ Code(op) \in {"INT_RIGHT", "INT_SRIGHT"}
  /\ \E loshift \in Readers(s.lo, {"INT_RIGHT"}) : \E orop \in Readers(Out(loshift), Disjunctions) :
       LET mid == Crossed(orop, "INT_RIGHT", 0)
       IN  /\ IsWritten(mid[1]) /\ IsWritten(mid[2]) /\ In(op, 0) = s.hi
           /\ ShiftBy(mid[1], {"INT_RIGHT"}, s.lo) /\ ShiftBy(mid[2], {"INT_LEFT"}, s.hi)
           /\ verify_shift_amount(Amount(mid[1]), Amount(mid[2]), In(op, 1), s.lo)
           /\ ShiftOp(Code(op), init_partial(s.size, Out(orop), Out(op)), s, Amount(mid[1]))
----------------------------------------------------------------------------
\* MultForm: the long multiplication lo1 * lo2, whose high half hi1 * lo2 and
\* lo1 * hi2 are added to.

ZextByMask(big, small) ==
  /\ IsConstOf(In(Def(big), 1), calc_mask(Size(small)))
  /\ WrittenBy(small, {"SUBPIECE"}) /\ In(Def(small), 0) = In(Def(big), 0)
zext_of(big, small) ==
  CASE IsConst(small) -> IsConstOf(big, Val(small))
    [] ~IsConst(small) /\ WrittenBy(big, {"INT_ZEXT"}) -> In(Def(big), 0) = small
    [] ~IsConst(small) /\ WrittenBy(big, {"INT_AND"}) -> ZextByMask(big, small)
    [] OTHER -> FALSE
\* map_res_hi: the high half of the product of the low ones and the two other
\* products, of the three terms of a sum; nothing when it is not of the form.
SumOfThree(rhi) ==
  LET a == In(Def(rhi), 0)
      b == In(Def(rhi), 1)
  IN  CASE ~IsWritten(a) \/ ~IsWritten(b) -> <<>>
        [] Code(Def(a)) = "INT_ADD" -> <<In(Def(a), 0), b, In(Def(a), 1)>>
        [] Code(Def(b)) = "INT_ADD" -> <<a, In(Def(b), 0), In(Def(b), 1)>>
        [] OTHER -> <<>>
PartFirst(terms) ==
  CASE WrittenBy(terms[1], Halves) -> <<terms[1], terms[2], terms[3]>>
    [] WrittenBy(terms[2], Halves) -> <<terms[2], terms[1], terms[3]>>
    [] WrittenBy(terms[3], Halves) -> <<terms[3], terms[1], terms[2]>>
    [] OTHER -> <<>>
IsProduct(v) == WrittenBy(v, {"INT_MULT"})
map_res_hi(rhi) ==
  IF SumOfThree(rhi) = <<>> THEN <<>>
  ELSE LET terms == PartFirst(SumOfThree(rhi))
       IN  IF terms = <<>> THEN <<>>
           ELSE IF IsProduct(terms[2]) /\ IsProduct(terms[3]) /\ IsProduct(In(Def(terms[1]), 0)) THEN terms ELSE <<>>
map_res_hi_small_const(rhi) ==
  LET a == In(Def(rhi), 0)
      b == In(Def(rhi), 1)
      terms == IF IsProduct(a) THEN <<b, a>> ELSE <<a, b>>
  IN  IF WrittenBy(terms[1], Halves) /\ IsProduct(terms[2]) THEN (IF IsProduct(In(Def(terms[1]), 0)) THEN terms ELSE <<>>) ELSE <<>>
Factors(v) == {In(Def(v), 0), In(Def(v), 1)}
\* find_lo_from_in: the other value's halves.
LoFromIn(terms, hi1, lo1) ==
  LET first == IF lo1 \in Factors(terms[2]) THEN 2 ELSE 3
      withlo == terms[first]
      withhi == terms[5 - first]
  IN  IF lo1 \in Factors(withlo) /\ hi1 \in Factors(withhi)
      THEN {[hi2 |-> OtherIn(Def(withlo), lo1), lo2 |-> OtherIn(Def(withhi), hi1)]} ELSE {}
LoFromInSmallConst(terms, hi1) ==
  IF hi1 \notin Factors(terms[2]) THEN {}
  ELSE IF IsConst(OtherIn(Def(terms[2]), hi1)) THEN {[hi2 |-> 0, lo2 |-> OtherIn(Def(terms[2]), hi1)]} ELSE {}
verify_lo(subhi, lo1, lo2) ==
  LET mult == Def(In(subhi, 0))
      x == In(mult, 0)
      y == In(mult, 1)
  IN  /\ Val(In(subhi, 1)) = Size(lo1)
      /\ IF zext_of(x, lo1) THEN zext_of(y, lo2) ELSE zext_of(x, lo2) /\ zext_of(y, lo1)
\* find_res_lo: the low half of the product, or the product of the halves.
find_res_lo(subhi, lo1, lo2) ==
  LET parts == {o \in Readers(In(subhi, 0), Halves) : Val(In(o, 1)) = 0 /\ OutSize(o) = Size(lo1)}
      matches(v) == IF IsConst(lo2) THEN IsConstOf(v, Val(lo2)) ELSE v = lo2
      products == {o \in Readers(lo1, {"INT_MULT"}) : matches(In(o, 0)) \/ matches(In(o, 1))}
  IN  {Out(o) : o \in IF parts # {} THEN parts ELSE products}
MultMatches(rhi, terms, others, lo1) ==
  UNION {{[lo2 |-> m.lo2, hi2 |-> m.hi2, reslo |-> reslo, reshi |-> rhi] :
            reslo \in IF verify_lo(Def(terms[1]), lo1, m.lo2) THEN find_res_lo(Def(terms[1]), lo1, m.lo2) ELSE {}} : m \in others}
MapFromIn(rhi, hi1, lo1) ==
  LET terms == map_res_hi(rhi) IN IF terms = <<>> THEN {} ELSE MultMatches(rhi, terms, LoFromIn(terms, hi1, lo1), lo1)
MapFromInSmallConst(rhi, hi1, lo1) ==
  LET terms == map_res_hi_small_const(rhi) IN IF terms = <<>> THEN {} ELSE MultMatches(rhi, terms, LoFromInSmallConst(terms, hi1), lo1)
MultForm(s, op, workishi) ==
  /\ workishi /\ HasBothPieces(s) /\ Code(op) = "INT_MULT"
  /\ \E add1 \in Readers(Out(op), {"INT_ADD"}) :
       \E m \in FirstMatches(<<UNION {MapFromIn(Out(add2), s.hi, s.lo) : add2 \in Readers(Out(add1), {"INT_ADD"})},
                               MapFromIn(Out(add1), s.hi, s.lo), MapFromInSmallConst(Out(add1), s.hi, s.lo)>>) :
         ArithmeticForm("INT_MULT", s, m)
----------------------------------------------------------------------------
\* PhiForm: both halves are merged at the same place.
\* create_phi_op: the wholes of the incoming halves one after the other, then
\* the MULTIEQUAL of them, and the halves as parts of it.
CreatePhi(out, existop, s1, s2, made1, made2) ==
  BuildPieces(NewBefore(made2, existop, "MULTIEQUAL", out.size, <<WholeOf(Joined(out), s1), WholeOf(made1, s2)>>), out, NextOut(made2))
CreateWholes(out, existop, s1, s2, made1) == CreatePhi(out, existop, s1, s2, made1, CreateWhole(made1, s2))
PhiForm(s, op, workishi) ==
  /\ workishi /\ HasBothPieces(s) /\ Code(op) = "MULTIEQUAL" /\ ~HasNoDescend(Out(op))
  /\ \E lophi \in Readers(s.lo, {"MULTIEQUAL"}) :
       LET slot == IF In(op, 0) = s.hi THEN 0 ELSE 1
           out == init_partial(s.size, Out(lophi), Out(op))
           pieces(i) == init_partial(Size(In(lophi, i)) + Size(In(op, i)), In(lophi, i), In(op, i))
       IN  /\ In(lophi, slot) = s.lo
           /\ \E existop \in {find_earliest_split_point(out)}, s1 \in PhiFeasible(pieces(0)), s2 \in PhiFeasible(pieces(1)) :
                Becomes(CreateWholes(out, existop, s1, s2, CreateWhole(Joined(out), s1)))
----------------------------------------------------------------------------
\* RuleDoubleIn.

\* whole_list: the marked halves of a varnode, and the pairs of copies of them
\* (the addresses are left out: any two copies may lie next to each other).
MarkedHalves(whole) ==
  LET his == {Out(o) : o \in {p \in Readers(whole, Halves) : IsPrecisHi(Out(p)) /\ Val(In(p, 1)) = Size(whole) - OutSize(p)}}
      los == {Out(o) : o \in {p \in Readers(whole, Halves) : ~IsPrecisHi(Out(p)) /\ IsPrecisLo(Out(p)) /\ Val(In(p, 1)) = 0}}
      orNone(vs) == IF vs = {} THEN {0} ELSE vs
      complete(s) == HasBothPieces(s) => Size(s.lo) + Size(s.hi) = s.size
  IN  IF his = {} /\ los = {} THEN {} ELSE {s \in {init_all(whole, lo, hi) : lo \in orNone(los), hi \in orNone(his)} : complete(s)}
find_copies(s) ==
  IF ~HasBothPieces(s) THEN {}
  ELSE {init_all(s.whole, Out(c[1]), Out(c[2])) :
          c \in {d \in Readers(s.lo, {"COPY"}) \X Readers(s.hi, {"COPY"}) : Block(g, d[1]) = Block(g, d[2])}}
whole_list(whole) == LET basic == MarkedHalves(whole) IN basic \cup UNION {find_copies(s) : s \in basic}

\* attempt_marking: the halves of an arithmetic result, or of an input declared
\* to be one value, are marked.
Arithmetic == {"INT_ADD", "INT_SUB", "INT_2COMP", "INT_MULT", "INT_DIV", "INT_SDIV", "INT_REM", "INT_SREM"} \cup Carries
RuleDoubleInMarks(o) ==
  LET whole == In(o, 0)
      los == {p \in Readers(whole, Halves) : Val(In(p, 1)) = 0 /\ OutSize(p) = OutSize(o)}
  IN  /\ Code(o) = "SUBPIECE" /\ ~IsPrecisLo(Out(o)) /\ ~IsPrecisHi(Out(o))
      /\ Val(In(o, 1)) = OutSize(o) /\ 2 * OutSize(o) = Size(whole)
      /\ IsInput(whole) \/ WrittenBy(whole, Arithmetic)
      /\ \E lo \in los : Becomes(MarkHi(MarkLo(g, Out(lo)), Out(o)))
\* apply_rule_in: every operation reading a half, in the form its opcode has.
Form(s, op, workishi) ==
  \/ AddForm(s, op, workishi)
  \/ SubForm(s, op, workishi)
  \/ LogicalForm(s, op, workishi)
  \/ Equal2Form(s, op, workishi)
  \/ Equal3Form(s, op, workishi)
  \/ LessConstForm(s, op, workishi)
  \/ ShiftLeftForm(s, op, workishi)
  \/ ShiftRightForm(s, op, workishi)
  \/ MultForm(s, op, workishi)
  \/ PhiForm(s, op, workishi)
RuleDoubleIn(o) ==
  /\ Code(o) = "SUBPIECE" /\ IsPrecisLo(Out(o))
  /\ \E s \in whole_list(In(o, 0)), workishi \in BOOLEAN :
       LET half == IF workishi THEN s.hi ELSE s.lo
       IN  /\ half # 0
           /\ \E r \in Descend(half) : Form(s, r[1], workishi)
=============================================================================
