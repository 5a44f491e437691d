---------------------------- MODULE Expressions -----------------------------
(***************************************************************************)
(* What the rules take two expressions to have in common (expression.rs):  *)
(* functional equality, boolean matching and the terms of a sum; and the   *)
(* edits of boolean expressions.                                           *)
(***************************************************************************)
EXTENDS Pcode

MutCommutative == {"INT_ADD", "INT_SUB", "INT_AND", "INT_OR", "INT_XOR", "INT_MULT"}    \* mutant: INT_SUB
Commutative == {"INT_EQUAL", "INT_NOTEQUAL", "INT_ADD", "INT_CARRY", "INT_SCARRY", "INT_XOR", "INT_AND", "INT_OR",
                "INT_MULT", "BOOL_XOR", "BOOL_AND", "BOOL_OR", "FLOAT_EQUAL", "FLOAT_NOTEQUAL"}

\* 0: equal; -1: different; 1: unknown.
functional_equality_level0(v, w) ==
  IF v = w THEN 0
  ELSE IF Size(v) # Size(w) THEN -1
  ELSE IF IsConst(v) THEN IF IsConst(w) /\ Val(v) = Val(w) THEN 0 ELSE -1
  ELSE IF IsFree(v) \/ IsFree(w) THEN -1 ELSE 1
\* The number of pairs of inputs that would have to be equal for v and w to be,
\* -1 if they cannot be shown equal, with the pair when there is one.
Level(n, left, right) == [level |-> n, left |-> left, right |-> right]
Unmatched(n) == Level(n, 0, 0)
functional_equality_level(v, w) ==
  LET top == functional_equality_level0(v, w)
      op1 == Def(v)
      op2 == Def(w)
      num == NumIn(op1)
      l(i) == In(op1, i)
      r(i) == In(op2, i)
      t(i, j) == functional_equality_level0(l(i), r(j))
      unmatchsize == IF t(0, 0) = 1 /\ t(1, 1) = 1 THEN 2 ELSE -1
  IN  IF top # 1 THEN Unmatched(top)
      ELSE IF ~IsWritten(v) \/ ~IsWritten(w) THEN Unmatched(-1)
      ELSE IF Code(op1) # Code(op2) \/ num # NumIn(op2) \/ Code(op1) = "MULTIEQUAL" THEN Unmatched(-1)
      ELSE IF num = 1 THEN Level(t(0, 0), l(0), r(0))
      ELSE IF t(0, 0) = 0 THEN Level(t(1, 1), l(1), r(1))
      ELSE IF t(1, 1) = 0 THEN Level(t(0, 0), l(0), r(0))
      ELSE IF Code(op1) \notin Commutative THEN Unmatched(unmatchsize)
      ELSE IF t(0, 1) = 0 /\ t(1, 0) = 0 THEN Unmatched(0)
      ELSE IF t(0, 1) < 0 \/ t(1, 0) < 0 THEN Unmatched(unmatchsize)
      ELSE IF t(0, 1) = 0 THEN Level(1, l(1), r(0))
      ELSE IF t(1, 0) = 0 THEN Level(1, l(0), r(1))
      ELSE Unmatched(2)
functional_equality(v, w) == functional_equality_level(v, w).level = 0
----------------------------------------------------------------------------
\* BooleanMatch: how two boolean varnodes are related.

SAME == 1
COMPLEMENTARY == 2
UNCORRELATED == 3

varnode_same(v, w) == v = w \/ (IsConst(v) /\ IsConst(w) /\ Val(v) = Val(w))
\* x < k and k - 1 < x.
same_op_complement(op1, op2) ==
  LET slot == IF IsConst(In(op1, 1)) THEN 1 ELSE 0
      first == Val(In(op1, slot))
      second == Val(In(op2, 1 - slot))
      val1 == IF slot = 1 THEN second ELSE first
      val2 == IF slot = 1 THEN first ELSE second
      size == Size(In(op1, slot))
  IN  /\ Code(op1) \in {"INT_SLESS", "INT_LESS"}
      /\ IsConst(In(op1, slot)) /\ IsConst(In(op2, 1 - slot))
      /\ varnode_same(In(op1, 1 - slot), In(op2, slot))
      /\ (val1 + 1) % Pow2[WordBits] = val2
      /\ ~(val2 = 0 /\ Code(op1) = "INT_LESS")
      /\ ~(Code(op1) = "INT_SLESS" /\ signbit_negative(val2, size) /\ ~signbit_negative(val1, size))
flip_result(res) == CASE res = SAME -> COMPLEMENTARY [] res = COMPLEMENTARY -> SAME [] OTHER -> res
\* get_booleanflip: the opcode of the negation, and whether its inputs are swapped.
BooleanFlip == [INT_EQUAL |-> <<"INT_NOTEQUAL", FALSE>>, INT_NOTEQUAL |-> <<"INT_EQUAL", FALSE>>,
                INT_SLESS |-> <<"INT_SLESSEQUAL", TRUE>>, INT_SLESSEQUAL |-> <<"INT_SLESS", TRUE>>,
                INT_LESS |-> <<"INT_LESSEQUAL", TRUE>>, INT_LESSEQUAL |-> <<"INT_LESS", TRUE>>,
                BOOL_NEGATE |-> <<"COPY", FALSE>>,
                FLOAT_EQUAL |-> <<"FLOAT_NOTEQUAL", FALSE>>, FLOAT_NOTEQUAL |-> <<"FLOAT_EQUAL", FALSE>>,
                FLOAT_LESS |-> <<"FLOAT_LESSEQUAL", TRUE>>, FLOAT_LESSEQUAL |-> <<"FLOAT_LESS", TRUE>>]
EvaluateLeaves(op1, op2) ==
  LET flip == BooleanFlip[Code(op2)]
      slot == IF flip[2] THEN 1 ELSE 0
  IN  IF Code(op1) = Code(op2)
      THEN IF \A i \in 0..(NumIn(op1) - 1) : varnode_same(In(op1, i), In(op2, i)) THEN SAME
           ELSE IF same_op_complement(op1, op2) THEN COMPLEMENTARY ELSE UNCORRELATED
      ELSE IF /\ Code(op2) \in DOMAIN BooleanFlip /\ Code(op1) = flip[1]
              /\ varnode_same(In(op1, 0), In(op2, slot)) /\ varnode_same(In(op1, 1), In(op2, 1 - slot))
           THEN COMPLEMENTARY ELSE UNCORRELATED
CombinePairs(code1, code2, pair1, pair2) ==
  CASE code1 = code2 /\ pair1 = SAME /\ pair2 = SAME -> SAME
    [] code1 = code2 /\ code1 = "BOOL_XOR" /\ ~(pair1 = SAME /\ pair2 = SAME) ->
         IF pair1 = COMPLEMENTARY /\ pair2 = COMPLEMENTARY THEN SAME ELSE COMPLEMENTARY
    [] code1 # code2 /\ pair1 = COMPLEMENTARY /\ pair2 = COMPLEMENTARY -> COMPLEMENTARY
    [] OTHER -> UNCORRELATED
Logical == {"BOOL_AND", "BOOL_OR", "BOOL_XOR"}
RECURSIVE BooleanMatch(_, _, _)
BooleanMatch(v, w, depth) ==
  LET op1 == Def(v)
      op2 == Def(w)
      pair(i, j) == BooleanMatch(In(op1, i), In(op2, j), depth - 1)
      cross == pair(0, 0) = UNCORRELATED
      pair1 == IF cross THEN pair(0, 1) ELSE pair(0, 0)
      pair2 == IF cross THEN pair(1, 0) ELSE pair(1, 1)
  IN  IF v = w THEN SAME
      ELSE IF WrittenBy(v, {"BOOL_NEGATE"}) THEN flip_result(BooleanMatch(In(op1, 0), w, depth))
      ELSE IF WrittenBy(w, {"BOOL_NEGATE"}) THEN flip_result(BooleanMatch(v, In(op2, 0), depth))
      ELSE IF ~IsWritten(v) \/ ~IsWritten(w) THEN UNCORRELATED
      ELSE IF Code(op1) \notin BoolOutput \/ Code(op2) \notin BoolOutput THEN UNCORRELATED
      ELSE IF depth # 0 /\ Code(op1) \in Logical
      THEN IF /\ Code(op2) \in Logical
              /\ Code(op1) = Code(op2) \/ {Code(op1), Code(op2)} = {"BOOL_AND", "BOOL_OR"}
              /\ pair1 # UNCORRELATED /\ pair2 # UNCORRELATED
           THEN CombinePairs(Code(op1), Code(op2), pair1, pair2)
           ELSE UNCORRELATED
      ELSE EvaluateLeaves(op1, op2)
----------------------------------------------------------------------------
\* TermOrder: the terms of the sum computed by an INT_ADD, each the input slot
\* of an addition, under the multiplication mult (0 for none).

Term(o, slot, mult) == [op |-> o, slot |-> slot, mult |-> mult]
Multiplied(subop) ==
  /\ Code(subop) = "INT_MULT" /\ IsConst(In(subop, 1))
  /\ WrittenBy(In(subop, 0), {"INT_ADD"}) /\ Lone(In(subop, 0)) # 0
RECURSIVE CollectTerms(_, _)
CollectTerms(stack, terms) ==
  IF stack = <<>> THEN terms
  ELSE LET top == stack[Len(stack)]
           rest == SubSeq(stack, 1, Len(stack) - 1)
           v(i) == In(top.op, i)
           deeper(i) == IsWritten(v(i)) /\ Lone(v(i)) # 0
           pushed(i) == IF ~deeper(i) THEN <<>>
                        ELSE IF Code(Def(v(i))) = "INT_ADD" THEN <<[op |-> Def(v(i)), mult |-> top.mult]>>
                        ELSE IF Multiplied(Def(v(i))) THEN <<[op |-> Def(In(Def(v(i)), 0)), mult |-> Def(v(i))]>>
                        ELSE <<>>
           term(i) == IF pushed(i) = <<>> THEN <<Term(top.op, i, top.mult)>> ELSE <<>>
       IN  CollectTerms(rest \o pushed(0) \o pushed(1), terms \o term(0) \o term(1))
TermVn(term) == In(term.op, term.slot)
\* vn_term_order: constants come last, the others by address (here, by age).
TermBase(v) == IF WrittenBy(v, {"INT_MULT"}) /\ IsConst(In(Def(v), 1)) THEN In(Def(v), 0) ELSE v
TermLess(term1, term2) ==
  LET v == TermVn(term1)
      w == TermVn(term2)
  IN  ~IsConst(v) /\ (IsConst(w) \/ TermBase(v) < TermBase(w))
TermInsert(sorted, term) ==
  LET after == {i \in DOMAIN sorted : TermLess(term, sorted[i])}
      pos == IF after = {} THEN Len(sorted) + 1 ELSE CHOOSE i \in after : \A j \in after : i <= j
  IN  SubSeq(sorted, 1, pos - 1) \o <<term>> \o SubSeq(sorted, pos, Len(sorted))
SortedTerms(o) == FoldLeft(TermInsert, <<>>, CollectTerms(<<[op |-> o, mult |-> 0]>>, <<>>))
----------------------------------------------------------------------------
\* Operations that compute the same value: op_is_cse_match, and
\* cse_find_in_block, an operation of a block, not after the position
\* earliest, that reads v and computes what op does.
op_is_cse_match(o, p) ==
  /\ OutSize(o) = OutSize(p) /\ Code(o) = Code(p)
  /\ \A s \in 0..(NumIn(o) - 1) : varnode_same(In(o, s), In(p, s))
block_earliest_use(block, v) ==
  LET users == {r \in Descend(v) : Block(g, r[1]) = block}
  IN  IF users = {} THEN Len(g.order) + 1
      ELSE CHOOSE n \in {Position(g, r[1]) : r \in users} : \A r \in users : n <= Position(g, r[1])
cse_find_in_block(op, v, block, earliest) ==
  {o \in {r[1] : r \in Descend(v)} \ {op} :
     /\ Block(g, o) = block /\ Position(g, o) <= earliest /\ Out(o) # 0
     /\ functional_equality(Out(op), Out(o))}
----------------------------------------------------------------------------
\* Edits of funcdata_op.rs made of queries above.

IsBoolean(v) == WrittenBy(v, BoolOutput)
op_bool_negate(gr, v, o) == NewBefore(gr, o, "BOOL_NEGATE", 1, <<V(v)>>)
\* k <= x is k - 1 < x, unless that wraps; otherwise nothing changes.
replace_lessequal(gr, o) ==
  LET in == gr.ops[o].in
      slot == IF gr.vns[in[1]].kind = "const" THEN 0 ELSE 1
      k == gr.vns[in[slot + 1]]
      mask == calc_mask(k.size)
      signed == gr.ops[o].code = "INT_SLESSEQUAL"
      limit == IF slot = 0 THEN IF signed THEN Shr(mask, 1) + 1 ELSE 0
               ELSE IF signed THEN Shr(mask, 1) ELSE mask
      res == (IF slot = 0 THEN k.val - 1 ELSE k.val + 1) % (mask + 1)
  IN  IF k.kind # "const" \/ k.val = limit THEN gr
      ELSE SetInput(SetOpcode(gr, o, IF signed THEN "INT_SLESS" ELSE "INT_LESS"), o, K(res, k.size), slot)
\* The operation o computes the complement.
Complemented(gr, o) ==
  LET flip == BooleanFlip[gr.ops[o].code]
      coded == SetOpcode(gr, o, flip[1])
  IN  IF flip[2] THEN op_swap_input(coded, o, 0, 1) ELSE coded
CanComplement(o) == Code(o) \in DOMAIN BooleanFlip
op_flip_condition(gr) == [gr EXCEPT !.flip = ~@]
CanNormalizeFlip(cbranch) ==
  LET cond == In(cbranch, 0)
  IN  IsWritten(cond) /\ Lone(cond) = cbranch /\ CanComplement(Def(cond))
op_normalize_flip(gr, cbranch) ==
  LET cond == gr.vns[gr.ops[cbranch].in[1]].def
      made == op_flip_condition(Complemented(gr, cond))
  IN  IF made.ops[cond].code \in {"INT_LESSEQUAL", "INT_SLESSEQUAL"} THEN replace_lessequal(made, cond) ELSE made
----------------------------------------------------------------------------
\* AddExpression: a sum of at most two terms, with coefficients, and a constant.

RECURSIVE gather(_, _, _, _)
gather(expr, v, coeff, depth) ==
  LET op == Def(v)
      mask == calc_mask(Size(v))
      deeper == IF IsConst(In(op, 1)) THEN depth ELSE depth - 1
  IN  IF IsConst(v) THEN [expr EXCEPT !.const = And((@ + coeff * Val(v)) % Pow2[WordBits], mask)]
      ELSE IF WrittenBy(v, {"INT_ADD"}) /\ deeper >= 0
      THEN gather(gather(expr, In(op, 0), coeff, deeper), In(op, 1), coeff, deeper)
      ELSE IF WrittenBy(v, {"INT_MULT"}) /\ IsConst(In(op, 1))
      THEN gather(expr, In(op, 0), And((coeff * Val(In(op, 1))) % Pow2[WordBits], mask), depth)
      ELSE IF Len(expr.terms) < 2 THEN [expr EXCEPT !.terms = Append(@, [vn |-> v, coeff |-> coeff])]
      ELSE expr
NoTerms == [const |-> 0, terms |-> <<>>]
TwoTerms(v, w, coeff) ==
  LET depth == IF IsConst(v) \/ IsConst(w) THEN 1 ELSE 0
  IN  gather(gather(NoTerms, v, 1, depth), w, coeff, depth)
gather_two_terms_subtract(v, w) == TwoTerms(v, w, calc_mask(Size(w)))
gather_two_terms_add(v, w) == TwoTerms(v, w, 1)
gather_two_terms_root(v) == gather(NoTerms, v, 1, 1)
is_equivalent(expr1, expr2) ==
  LET alike(i, j) == /\ expr1.terms[i].coeff = expr2.terms[j].coeff
                     /\ functional_equality(expr1.terms[i].vn, expr2.terms[j].vn)
      n == Len(expr1.terms)
  IN  /\ expr1.const = expr2.const /\ n = Len(expr2.terms) /\ n > 0
      /\ \/ \A i \in 1..n : alike(i, i)
         \/ n = 2 /\ alike(1, 2) /\ alike(2, 1)

\* Whether v is the negation of something, as a multiplication by -1.
op_verify_mult_neg_one(v) ==
  WrittenBy(v, {"INT_MULT"}) /\ IsConstOf(In(Def(v), 1), calc_mask(Size(In(Def(v), 1))))

(* Two varnodes the code takes to compute the same value do, for every      *)
(* input, and so do two boolean varnodes matched as equal; two matched as   *)
(* complementary never agree.                                               *)
Agree(v, w) == \A env \in DOMAIN want : Value(g, env, v) = Value(g, env, w)
Differ(v, w) == \A env \in DOMAIN want : Value(g, env, v) # Value(g, env, w)
EqualityIsSound ==
  \A o, p \in Assignments : functional_equality(Out(o), Out(p)) => Agree(Out(o), Out(p))
MatchIsSound ==
  LET Booleans == {o \in Assignments : Code(o) \in BoolOutput \ FloatComparisons}
  IN  \A o, p \in Booleans : \A depth \in 0..1 :
        LET res == BooleanMatch(Out(o), Out(p), depth)
        IN  /\ res = SAME => Agree(Out(o), Out(p))
            /\ res = COMPLEMENTARY => Differ(Out(o), Out(p))
-----------------------------------------------------------------------------
(***************************************************************************)
(* ActionDeadCode (coreaction/markup.rs): which bits of each varnode some  *)
(* reader depends on, propagated from the sink against the flow of data,   *)
(* and the removal of operations nothing depends on.  The rewrite rules    *)
(* read the masks it leaves until the action runs again.                   *)
(*                                                                         *)
(* In a fragment without loops the worklist is one backward pass.  Calls,  *)
(* returns with a prototype and switch variables, whose masks come from    *)
(* elsewhere, are all represented by the sink, of which every bit counts.  *)
(***************************************************************************)

AllIfAny(outc) == IF outc = 0 THEN 0 ELSE FullNzm

ConsumeMult(size, outc, factor) ==
  LET covering == coveringmask(outc)
      l == leastsigbit_set(factor.val)
  IN  <<IF factor.kind # "const" THEN covering
        ELSE IF l >= 0 THEN And(Shr(calc_mask(size), l), covering) ELSE 0,
        covering>>
ConsumeSubpiece(outc, in, least) ==
  LET shifted == IF least >= WordBytes THEN 0 ELSE wrapping_shl(outc, Bits(least))
      topbit == FullNzm - Shr(FullNzm, 1)
  IN  <<IF shifted = 0 /\ outc # 0 /\ in.size > WordBytes THEN topbit ELSE shifted, AllIfAny(outc)>>
ConsumePiece(size, outc, losize) ==
  LET hi == wrapping_shr(outc, Bits(losize))
      whi == Xor(hi, wrapping_shl(FullNzm, Bits(WordBytes - losize)))
      Low(high) == Xor(outc, wrapping_shl(high, Bits(losize)))
  IN  IF size <= WordBytes THEN <<hi, Low(hi)>>
      ELSE IF losize >= WordBytes THEN <<FullNzm, outc>>
      ELSE <<whi, Low(whi)>>
ConsumeSext(outc, insize) ==
  LET short == calc_mask(insize)
  IN  <<Or(And(outc, short), IF outc > short THEN short - Shr(short, 1) ELSE 0)>>
ConsumeLeft(size, outc, sa) ==
  LET moved == IF sa >= WordBits THEN FullNzm
               ELSE IF sa = 0 THEN outc
               ELSE Xor(wrapping_shr(outc, sa), wrapping_shl(FullNzm, WordBits - sa))
      left == Bits(size) - sa
  IN  <<IF size <= WordBytes THEN wrapping_shr(outc, sa)
        ELSE IF left < WordBits THEN And(moved, FullNzm - wrapping_shl(FullNzm, left)) ELSE moved,
        AllIfAny(outc)>>
ConsumeRight(outc, sa) ==
  <<IF sa >= WordBits THEN 0 ELSE wrapping_shl(outc, sa), AllIfAny(outc)>>
ConsumeAnd(outc, y) == <<IF y.kind = "const" THEN And(outc, y.val) ELSE outc, outc>>

MutPropagate(code, size, outc, ins) ==    \* mutant: all but two comparisons are taken to work bit by bit
  [i \in DOMAIN ins |-> IF code \in {"INT_EQUAL", "INT_LESS"} THEN AllIfAny(outc) ELSE outc]
\* propagate_consumed: the bits of each input that the bits outc of the output need.
propagate_consumed(code, size, outc, ins) ==
  LET shift == code \in {"INT_LEFT", "INT_RIGHT"} /\ ins[2].kind = "const"
      nz == IF outc = 0 THEN 0 ELSE Or(ins[1].nzm, ins[2].nzm)
      counted == And((2 * Bits(ins[1].size) - 1) % Pow2[WordBits], outc)
  IN  CASE code = "INT_MULT" -> ConsumeMult(size, outc, ins[2])
        [] code \in {"INT_ADD", "INT_SUB"} -> <<coveringmask(outc), coveringmask(outc)>>
        [] code = "SUBPIECE" -> ConsumeSubpiece(outc, ins[1], ins[2].val)
        [] code = "PIECE" -> ConsumePiece(size, outc, ins[2].size)
        [] code \in {"COPY", "INT_NEGATE", "INT_ZEXT", "INT_XOR", "INT_OR", "MULTIEQUAL"} ->
             [i \in DOMAIN ins |-> outc]
        [] code = "INT_AND" -> ConsumeAnd(outc, ins[2])
        [] code = "INT_SEXT" -> ConsumeSext(outc, ins[1].size)
        [] code = "INT_LEFT" /\ shift -> ConsumeLeft(size, outc, ins[2].val)
        [] code = "INT_RIGHT" /\ shift -> ConsumeRight(outc, ins[2].val)
        [] code \in {"INT_LESS", "INT_LESSEQUAL", "INT_EQUAL", "INT_NOTEQUAL"} -> <<nz, nz>>
        [] code \in {"POPCOUNT", "LZCOUNT"} -> <<AllIfAny(counted)>>
        [] OTHER -> [i \in DOMAIN ins |-> AllIfAny(outc)]

\* push_consumed for every input of an operation; acc is [vns, reached].
push_consumed(acc, v, val) ==
  [vns |-> [acc.vns EXCEPT ![v].consume = And(Or(val, @), calc_mask(acc.vns[v].size))],
   reached |-> acc.reached \cup {v}]
PushInputs(gr, acc, o) ==
  LET op == gr.ops[o]
      ins == [i \in DOMAIN op.in |-> acc.vns[op.in[i]]]
      masks == IF op.out = 0 THEN [i \in DOMAIN op.in |-> FullNzm]
               ELSE propagate_consumed(op.code, acc.vns[op.out].size, acc.vns[op.out].consume, ins)
  IN  IF op.out # 0 /\ op.out \notin acc.reached THEN acc
      ELSE FoldLeft(LAMBDA a, i : push_consumed(a, op.in[i], masks[i]), acc, [i \in DOMAIN op.in |-> i])
Consumed(gr) ==
  FoldLeft(LAMBDA acc, o : PushInputs(gr, acc, o),
           [vns |-> AsSequence([v \in DOMAIN gr.vns |-> [gr.vns[v] EXCEPT !.consume = 0]]), reached |-> {}],
           Reverse(gr.order))

\* never_consumed: a value none of whose bits matter is replaced by zero.
never_consumed(gr, v) ==
  op_destroy(total_replace(gr, v, K(0, gr.vns[v].size)), gr.vns[v].def)
SweepWith(gr, done) ==
  LET Sweep(acc, o) == LET v == acc.ops[o].out
                        IN  IF v = 0 THEN acc
                            ELSE IF v \notin done.reached THEN op_destroy(acc, o)
                            ELSE IF acc.vns[v].consume = 0 /\ acc.vns[v].size <= WordBytes THEN never_consumed(acc, v)
                            ELSE acc
  IN  FoldLeft(Sweep, [gr EXCEPT !.vns = done.vns], gr.order)
ApplyDeadCode(gr) == SweepWith(gr, Consumed(gr))
ActionDeadCode == \E swept \in {ApplyDeadCode(g)} : swept # g /\ Becomes(swept)

\* The value of v when the bits in flip of the varnode at are inverted.
RECURSIVE ValueFlipped(_, _, _, _, _)
ValueFlipped(gr, env, v, at, flip) ==
  LET vn == gr.vns[v]
      op == gr.ops[vn.def]
      plain == CASE vn.kind = "const" -> vn.val
                 [] vn.kind = "written" /\ op.code = "MULTIEQUAL" ->
                      ValueFlipped(gr, env, op.in[env[Len(env)]], at, flip)
                 [] vn.kind = "written" /\ op.code # "MULTIEQUAL" ->
                      Evaluate(op.code, vn.size, gr.vns[op.in[1]].size,
                               [i \in DOMAIN op.in |-> ValueFlipped(gr, env, op.in[i], at, flip)])
                 [] OTHER -> env[v]
  IN  IF v = at /\ plain # NoValue THEN Xor(plain, flip) ELSE plain

(* A bit that propagate_consumed leaves out of a varnode's mask never       *)
(* matters: inverting it (where it may be nonzero at all) changes nothing   *)
(* the sink reads, for any input.                                           *)
UnconsumedBitsDontMatter ==
  \A done \in {Consumed(calc_nz_mask(g))} : \A fresh \in {[g EXCEPT !.vns = done.vns]} :
    \A o \in {p \in Assignments : Out(p) \in done.reached} :
      LET n == done.vns[Out(o)]
      IN  \A b \in SetBits(And(n.nzm, calc_mask(n.size) - n.consume)), env \in DOMAIN want :
            \A v \in ToSet(g.ops[Sink(g)].in) : \A was \in {Value(fresh, env, v)} :
              was # NoValue => ValueFlipped(fresh, env, v, Out(o), Pow2[b]) = was
=============================================================================
