--------------------------- MODULE RulesDivision ----------------------------
(***************************************************************************)
(* Arithmetic on numbers of two words (multiprecision.rs), which the       *)
(* recognition of division by multiplication is computed with.  A number   *)
(* is a sequence of two words, the low one first.  Division works on half  *)
(* words, by Knuth's algorithm D.                                          *)
(***************************************************************************)
EXTENDS Expressions

Word == Pow2[WordBits]
HalfBits == WordBits \div 2
Half == Pow2[HalfBits]

set_u128(val) == <<val, 0>>

leftshift128(in, sa) ==
  LET words == sa \div WordBits
      shift == sa % WordBits
      word(i) == IF i < 1 THEN 0 ELSE in[i]
  IN  [i \in 1..2 |-> ((word(i - words) * Pow2[shift]) % Word) + (word(i - words - 1) \div Pow2[WordBits - shift])]

uless128(a, b) == IF a[2] # b[2] THEN a[2] < b[2] ELSE a[1] < b[1]
ulessequal128(a, b) == a = b \/ uless128(a, b)

\* One word of a sum or of a difference, with the carry or borrow it is left with.
AddWord(a, b, carry) ==
  LET tmp == (b + carry) % Word
      tmp2 == (a + tmp) % Word
  IN  <<tmp2, Truth(tmp < b \/ tmp2 < tmp)>>
SubtractWord(a, b, borrow) ==
  LET tmp == (b + borrow) % Word
  IN  <<(a - tmp) % Word, Truth(tmp < b \/ a < tmp)>>
add128(a, b) ==
  LET lo == AddWord(a[1], b[1], 0) IN <<lo[1], AddWord(a[2], b[2], lo[2])[1]>>
subtract128(a, b) ==
  LET lo == SubtractWord(a[1], b[1], 0) IN <<lo[1], SubtractWord(a[2], b[2], lo[2])[1]>>
----------------------------------------------------------------------------
\* Division.  digits are half words, the lowest first.

split64_32(val) == <<val[1] % Half, val[1] \div Half, val[2] % Half, val[2] \div Half>>
\* The number of digits up to the last that is not zero.
DigitCount(digits) ==
  LET used == {i \in DOMAIN digits : digits[i] # 0}
  IN  IF used = {} THEN 0 ELSE CHOOSE i \in used : \A j \in used : i >= j
pack32_64(max, digits) ==
  LET digit(i) == IF i <= max THEN digits[i] ELSE 0
  IN  <<digit(2) * Half + digit(1), digit(4) * Half + digit(3)>>
shift_left(arr, size, shift) ==
  [i \in DOMAIN arr |-> IF i > size THEN arr[i]
                        ELSE ((arr[i] * Pow2[shift]) % Half) + (IF i = 1 THEN 0 ELSE arr[i - 1] \div Pow2[HalfBits - shift])]
shift_right(arr, size, shift) ==
  [i \in DOMAIN arr |-> IF i > size THEN arr[i]
                        ELSE (arr[i] \div Pow2[shift]) + (IF i = size THEN 0 ELSE (arr[i + 1] * Pow2[HalfBits - shift]) % Half)]

\* The quotient digit guessed from the top two digits, corrected by the next one.
RECURSIVE CorrectGuess(_, _, _, _, _)
CorrectGuess(qhat, rhat, top, second, next) ==
  IF qhat < Half /\ qhat * second <= rhat * Half + next THEN qhat
  ELSE IF rhat + top >= Half THEN qhat - 1
  ELSE CorrectGuess(qhat - 1, rhat + top, top, second, next)

\* numer minus qhat times denom, digit by digit from position pos; and denom
\* added again.
Slots(n) == [i \in 1..n |-> i]
SubtractDigit(acc, i, denom, qhat, pos) ==
  LET tmp == qhat * denom[i]
      digit == acc.numer[i + pos] - acc.carry - (tmp % Half)
  IN  [numer |-> [acc.numer EXCEPT ![i + pos] = digit % Half], carry |-> (tmp \div Half) - (digit \div Half)]
AddBackDigit(acc, i, denom, pos) ==
  LET tmp == acc.numer[i + pos] + denom[i] + acc.carry
  IN  [numer |-> [acc.numer EXCEPT ![i + pos] = tmp % Half], carry |-> tmp \div Half]
MutAddsBack(top) == top < -1    \* mutant: the guess is never one too large
AddsBack(top) == top < 0
\* What is left of numer once qhat times denom is subtracted at pos, with its
\* top digit not yet reduced; then the quotient digit, corrected by that digit.
Subtracted(numer, pos, denom, dlen, qhat) ==
  LET less == FoldLeft(LAMBDA part, i : SubtractDigit(part, i, denom, qhat, pos), [numer |-> numer, carry |-> 0], Slots(dlen))
  IN  [less EXCEPT !.carry = less.numer[pos + dlen + 1] - @]
AddedBack(rest, pos, denom, dlen) ==
  LET back == FoldLeft(LAMBDA part, i : AddBackDigit(part, i, denom, pos), [numer |-> rest, carry |-> 0], Slots(dlen))
  IN  [back.numer EXCEPT ![pos + dlen + 1] = (@ + back.carry) % Half]
Digit(acc, pos, denom, dlen, qhat, less) ==
  LET rest == [less.numer EXCEPT ![pos + dlen + 1] = less.carry % Half]
      more == AddsBack(less.carry)
  IN  [numer |-> IF more THEN AddedBack(rest, pos, denom, dlen) ELSE rest,
       quotient |-> [acc.quotient EXCEPT ![pos + 1] = (qhat - Truth(more)) % Half]]
Guess(two, top, second, next) == CorrectGuess(two \div top, two % top, top, second, next)
DivideDigit(acc, pos, denom, dlen) ==
  LET qhat == Guess(acc.numer[dlen + pos + 1] * Half + acc.numer[dlen + pos], denom[dlen], denom[dlen - 1], acc.numer[dlen - 1 + pos])
  IN  CHOOSE step \in {Digit(acc, pos, denom, dlen, q, Subtracted(acc.numer, pos, denom, dlen, q)) : q \in {qhat}} : TRUE
knuth_algorithm_d(nlen, dlen, numer, denom) ==
  LET shift == HalfBits - 1 - mostsigbit_set(denom[dlen])
      start == [numer |-> shift_left(numer, nlen, shift), quotient |-> <<0, 0, 0, 0>>]
      scaled == shift_left(denom, dlen, shift)
      done == FoldLeft(LAMBDA acc, pos : DivideDigit(acc, pos, scaled, dlen), start,
                       [i \in 1..(nlen - dlen) |-> nlen - dlen - i])
  IN  [done EXCEPT !.numer = shift_right(@, nlen, shift)]

\* Division by one digit.
ShortDigit(acc, i, divisor) ==
  LET tmp == acc.rem * Half + acc.numer[i]
  IN  [numer |-> [acc.numer EXCEPT ![i] = 0], quotient |-> [acc.quotient EXCEPT ![i] = tmp \div divisor],
       rem |-> tmp % divisor]
ShortDivision(nlen, numer, divisor) ==
  LET done == FoldLeft(LAMBDA acc, i : ShortDigit(acc, i, divisor), [numer |-> numer, quotient |-> <<0, 0, 0, 0>>, rem |-> 0],
                       [i \in 1..nlen |-> nlen + 1 - i])
  IN  [numer |-> [done.numer EXCEPT ![1] = done.rem], quotient |-> done.quotient]

\* <<quotient, remainder>>, or <<>> for "divide by 0".
Packed(res, nlen, dlen) == <<pack32_64(nlen - dlen + 1, res.quotient), pack32_64(nlen, res.numer)>>
LongDivision(digits, ddigits, nlen, dlen) ==
  Packed(IF dlen = 1 THEN ShortDivision(nlen, digits, ddigits[1])
         ELSE knuth_algorithm_d(nlen + 1, dlen, digits, ddigits), nlen, dlen)
Shorter(digits, ddigits, nlen, dlen) == nlen < dlen \/ (nlen = dlen /\ digits[dlen] < ddigits[dlen])
DivideDigits(numer, digits, ddigits, nlen, dlen) ==
  IF dlen = 0 THEN <<>>
  ELSE IF Shorter(digits, ddigits, nlen, dlen) THEN <<set_u128(0), numer>>
  ELSE LongDivision(digits, ddigits, nlen, dlen)
udiv128(numer, denom) ==
  IF numer[2] = 0 /\ denom[2] = 0
  THEN IF denom[1] = 0 THEN <<>> ELSE <<<<numer[1] \div denom[1], 0>>, <<numer[1] % denom[1], 0>>>>
  ELSE LET digits == Append(split64_32(numer), 0)
           ddigits == split64_32(denom)
       IN  DivideDigits(numer, digits, ddigits, DigitCount(digits), DigitCount(ddigits))
----------------------------------------------------------------------------
\* RuleDivOpt::calc_divisor (division.rs): the divisor d for which multiplying
\* by y and shifting right by n divides every x of xsize bits, 0 if there is
\* none, -1 for the error "divide by 0".
NoDivisor == 0
DivisorError == -1
\* The multiplication stops being a division at x = power / diff, the limit.
DivisorHolds(limit, xsize) == limit[2] # 0 \/ limit[1] > Pow2[xsize] - 1
Checked(divisor, power, diff, xsize) ==
  IF diff = 0 THEN DivisorError
  ELSE IF DivisorHolds(udiv128(power, set_u128(diff))[1], xsize) THEN divisor ELSE NoDivisor
RoundedDown(power, quotient, remainder, xsize) ==
  Checked(quotient[1], power, (quotient[1] - remainder[1]) % Word, xsize)
RoundedUp(power, quotient, remainder, xsize) ==
  IF ~uless128(remainder, quotient) THEN NoDivisor
  ELSE Checked(quotient[1], power, (2 * quotient[1] - remainder[1]) % Word, xsize)
Divisor(power, less1, quotient, remainder, xsize) ==
  LET next == <<(quotient[1] + 1) % Word, quotient[2]>>
  IN  IF quotient[2] # 0 \/ uless128(less1, quotient) THEN NoDivisor
      ELSE IF uless128(remainder, quotient) THEN RoundedDown(power, quotient, remainder, xsize)
      ELSE RoundedUp(power, next, add128(subtract128(remainder, less1), next), xsize)
DivisorOf(power, less1, division, xsize) == Divisor(power, less1, division[1], division[2], xsize)
CalcDivisor(power, less1, xsize) == DivisorOf(power, less1, udiv128(power, less1), xsize)
calc_divisor(n, y, xsize) ==
  IF n > 2 * WordBits - 1 \/ xsize > WordBits \/ ulessequal128(y, set_u128(1)) THEN NoDivisor
  ELSE CalcDivisor(leftshift128(set_u128(1), n), subtract128(y, set_u128(1)), xsize)
-----------------------------------------------------------------------------
(***************************************************************************)
(* The rewrite rules of ruleaction/division.rs, which recognize division   *)
(* and remainder in what compilers make of them: multiplication by an      *)
(* approximate reciprocal, shifts, masks and corrections of the sign.      *)
(* One action per rule; a rule that looks for a reader of some form takes  *)
(* any such reader, where the code takes the first of its list.            *)
(*                                                                         *)
(* Left out: RuleSegment, whose operation the architecture defines.        *)
(***************************************************************************)

Half2(size) == Bits(size) \div 2
SignShift(v) == Bits(Size(v)) - 1

\* A truncation of a constant right shift: the shift is moved to the outside,
\* with its whole bytes in the truncation.
SubNormalShift(o, code, cut, shift, x) ==
  LET size == OutSize(o)
      amount == IF shift < Bits(size) THEN shift ELSE Bits(size) - Truth(code = "INT_SRIGHT")
      g1 == NewBefore(g, o, "SUBPIECE", size, <<V(x), K(cut, IntSize)>>)
  IN  IF shift = 0 THEN SetInput(SetInput(g, o, V(x), 0), o, K(cut, IntSize), 1)
      ELSE SetOpcode(SetInput(SetInput(g1, o, V(NextOut(g)), 0), o, K(amount, IntSize), 1), o, code)
RuleSubNormal(o) ==
  LET shiftop == Def(In(o, 0))
      code == Code(shiftop)
      x == In(shiftop, 0)
      shift == Val(In(shiftop, 1))
      cut == Val(In(o, 1))
      k == shift \div BitsPerByte
      insize == Size(x)
      outsize == OutSize(o)
      trunc == insize - cut - k
      whole == shift = Bits(k)
      g1 == NewBefore(g, o, "SUBPIECE", trunc, <<V(x), K(cut + k, IntSize)>>)
      kept == IF k + cut + outsize > insize THEN insize - cut - outsize ELSE k
  IN  /\ Code(o) = "SUBPIECE" /\ WrittenBy(In(o, 0), {"INT_RIGHT", "INT_SRIGHT"}) /\ IsConst(In(shiftop, 1)) /\ ~IsFree(x)
      /\ shift + Bits(cut + outsize) >= Bits(insize) \/ whole
      /\ IF k + cut + outsize > insize /\ whole /\ trunc > 0 /\ popcount(trunc) = 1
         THEN Becomes(SetOpcode(op_remove_input(SetInput(g1, o, V(NextOut(g)), 0), o, 1), o,
                                IF code = "INT_SRIGHT" THEN "INT_SEXT" ELSE "INT_ZEXT"))
         ELSE Becomes(SubNormalShift(o, code, cut + kept, shift - Bits(kept), x))

RulePositiveDiv(o) ==
  LET positive(v) == ~signbit_negative(Nzm(v), OutSize(o))
  IN  /\ Code(o) \in {"INT_SDIV", "INT_SREM"} /\ Narrow(o) /\ positive(In(o, 0)) /\ positive(In(o, 1))
      /\ Becomes(SetOpcode(g, o, IF Code(o) = "INT_SDIV" THEN "INT_DIV" ELSE "INT_REM"))
----------------------------------------------------------------------------
\* Constants of up to two words.

Nothing == <<>>
\* vn_is_constant_extended
ExtendedConstant(v) ==
  LET op == Def(v)
      k == In(op, 0)
      lo == In(op, 1)
      ext == IF Size(k) < WordBytes THEN sign_extend_size(Val(k), Size(k), Size(v)) ELSE Val(k)
  IN  IF IsConst(v) THEN <<Val(v), 0>>
      ELSE IF ~IsWritten(v) \/ Size(v) <= WordBytes \/ Size(v) > 2 * WordBytes THEN Nothing
      ELSE CASE Code(op) = "INT_ZEXT" /\ IsConst(k) -> <<Val(k), 0>>
             [] Code(op) = "INT_SEXT" /\ IsConst(k) -> <<ext, IF signbit_negative(ext, WordBytes) THEN Word - 1 ELSE 0>>
             [] Code(op) = "PIECE" /\ IsConst(lo) /\ IsConst(k) ->
                  IF Size(lo) = WordBytes THEN <<Val(lo), Val(k)>>
                  ELSE <<Or(Val(lo), wrapping_shl(Val(k), Bits(Size(lo)))), wrapping_shr(Val(k), Bits(WordBytes - Size(lo)))>>
             [] OTHER -> Nothing
\* new_extended_constant: the graph, and the operand.
WithExtendedConstant(gr, size, val, op) ==
  IF size <= WordBytes THEN gr
  ELSE IF val[2] = 0 THEN NewBefore(gr, op, "INT_ZEXT", size, <<K(val[1], WordBytes)>>)
  ELSE NewBefore(gr, op, "PIECE", size, <<K(val[2], WordBytes), K(val[1], WordBytes)>>)
ExtendedOperand(gr, size, val) == IF size <= WordBytes THEN K(val[1], size) ELSE V(NextOut(gr))

\* The sum of x and x times a constant, shifted down, becomes one product: the
\* constant grows by the power of two of the shift.
ScaledUp(val, shift) == add128(val, leftshift128(set_u128(1), shift))
OneProduct(o, addop, ext, val, code, shift) ==
  LET size == Size(ext)
      g1 == WithExtendedConstant(g, size, val, o)
      g2 == NewBefore(g1, o, "INT_MULT", size, <<V(ext), ExtendedOperand(g, size, val)>>)
      g3 == NewBefore(g2, o, code, size, <<V(NextOut(g1)), K(shift, IntSize)>>)
  IN  SetInput(SetInput(SetOpcode(g3, addop, "SUBPIECE"), addop, V(NextOut(g2)), 0), addop, K(0, IntSize), 1)
\* find_subshift: the truncation under a constant shift, 0 if there is none.
find_subshift(o) ==
  LET subop == IF Code(o) = "SUBPIECE" THEN o
               ELSE IF WrittenBy(In(o, 0), {"SUBPIECE"}) /\ IsConst(In(o, 1)) THEN Def(In(o, 0)) ELSE 0
  IN  IF subop = 0 THEN 0
      ELSE IF OutSize(subop) + Val(In(subop, 1)) # Size(In(subop, 0)) THEN 0 ELSE subop
RuleDivTermAdd(o) ==
  LET subop == find_subshift(o)
      shift == Bits(Val(In(subop, 1))) + (IF Code(o) = "SUBPIECE" THEN 0 ELSE Val(In(o, 1)))
      multop == Def(In(subop, 0))
      val == ExtendedConstant(In(multop, 1))
      ext == In(multop, 0)
      code == IF Code(o) = "SUBPIECE" THEN "INT_RIGHT" ELSE Code(o)
  IN  /\ Code(o) \in {"SUBPIECE", "INT_RIGHT", "INT_SRIGHT"} /\ subop # 0 /\ shift <= 2 * WordBits - 1
      /\ WrittenBy(In(subop, 0), {"INT_MULT"}) /\ val # Nothing /\ IsWritten(ext)
      /\ ~(WrittenBy(ext, {"INT_ZEXT"}) /\ Code(o) = "INT_SRIGHT")
      /\ ~(WrittenBy(ext, {"INT_SEXT"}) /\ Code(o) = "INT_RIGHT")
      /\ \E r \in Descend(Out(o)) :
           /\ Code(r[1]) = "INT_ADD" /\ In(Def(ext), 0) \in {In(r[1], 0), In(r[1], 1)}
           /\ Becomes(OneProduct(o, r[1], ext, ScaledUp(val, shift), code, shift))

\* (x - z) / 2 + z, where z is the truncated product.
NegatedInput(o, index) ==
  LET comp == In(o, index)
  IN  /\ WrittenBy(comp, {"INT_MULT"}) /\ IsConst(In(Def(comp), 1))
      /\ Val(In(Def(comp), 1)) = calc_mask(Size(In(Def(comp), 1)))
RuleDivTermAdd2(o) ==
  LET sum == Def(In(o, 0))
      index == IF NegatedInput(sum, 0) THEN 0 ELSE 1
      x == In(sum, 1 - index)
      z == In(Def(In(sum, index)), 0)
      subop == Def(z)
      shift == Bits(Val(In(subop, 1)))
      multop == Def(In(subop, 0))
      val == ExtendedConstant(In(multop, 1))
      ext == In(multop, 0)
  IN  /\ Code(o) = "INT_RIGHT" /\ IsConstOf(In(o, 1), 1) /\ WrittenBy(In(o, 0), {"INT_ADD"})
      /\ NegatedInput(sum, index) /\ WrittenBy(z, {"SUBPIECE"})
      /\ shift <= 2 * WordBits - 1 /\ shift = Bits(Size(In(subop, 0)) - Size(z))
      /\ WrittenBy(In(subop, 0), {"INT_MULT"}) /\ val # Nothing
      /\ WrittenBy(ext, {"INT_ZEXT"}) /\ In(Def(ext), 0) = x
      /\ \E r \in Descend(Out(o)) :
           /\ Code(r[1]) = "INT_ADD" /\ z \in {In(r[1], 0), In(r[1], 1)}
           /\ Becomes(OneProduct(o, r[1], ext, ScaledUp(val, shift), "INT_RIGHT", shift + 1))
----------------------------------------------------------------------------
\* RuleDivOpt: a product by a constant, shifted down by n.

\* The truncation or the product under op's shift, and how far it has shifted.
FormTop(o) == IF Code(o) \in {"INT_RIGHT", "INT_SRIGHT"} THEN Def(In(o, 0)) ELSE o
FormShift(o) == IF Code(o) \in {"INT_RIGHT", "INT_SRIGHT"} THEN Val(In(o, 1)) ELSE 0
FormHolds(o) ==
  LET top == FormTop(o)
      in == In(top, 0)
  IN  /\ \/ Code(o) = "SUBPIECE"
         \/ Code(o) \in {"INT_RIGHT", "INT_SRIGHT"} /\ IsWritten(In(o, 0)) /\ IsConst(In(o, 1))
      /\ IF Code(top) = "SUBPIECE"
         THEN WrittenBy(in, {"INT_MULT"}) /\ OutSize(top) + Val(In(top, 1)) = Size(in)
         ELSE Code(top) = "INT_MULT"
find_form(o) ==
  LET top == FormTop(o)
      cut == Code(top) = "SUBPIECE"
      mult == IF cut THEN Def(In(top, 0)) ELSE top
      n == FormShift(o) + (IF cut THEN Bits(Val(In(top, 1))) ELSE 0)
      swapped == ExtendedConstant(In(mult, 0)) # Nothing
      y == ExtendedConstant(In(mult, IF swapped THEN 0 ELSE 1))
      in == In(mult, IF swapped THEN 1 ELSE 0)
      code == Code(Def(in))
      ext == In(Def(in), 0)
      bits == 1 + mostsigbit_set(IF code = "INT_ZEXT" THEN Nzm(ext) ELSE Nzm(in))
      xsize == IF code = "INT_SEXT" THEN Bits(Size(ext)) ELSE bits
      extcode == IF code = "INT_SEXT" THEN code ELSE "INT_ZEXT"
      vn == IF code \in {"INT_ZEXT", "INT_SEXT"} /\ Size(in) # OutSize(o) THEN ext ELSE in
  IN  IF ~FormHolds(o) THEN Nothing
      ELSE IF ~IsWritten(In(mult, 0)) \/ y = Nothing \/ ~IsWritten(in) THEN Nothing
      ELSE IF code # "INT_SEXT" /\ (xsize = 0 \/ xsize > Half2(Size(in))) THEN Nothing
      ELSE IF code \in {"INT_ZEXT", "INT_SEXT"} /\ IsFree(ext) THEN Nothing
      ELSE IF /\ \/ extcode = "INT_ZEXT" /\ Code(o) = "INT_SRIGHT"
                 \/ extcode = "INT_SEXT" /\ Code(o) = "INT_RIGHT"
              /\ Bits(OutSize(o)) - n # xsize
           THEN Nothing
      ELSE <<[vn |-> vn, n |-> n, y |-> y, xsize |-> xsize, ext |-> extcode]>>
\* A truncation that is only the first half of a longer form.
check_form_overlap(o) ==
  /\ Code(o) = "SUBPIECE"
  /\ \E r \in Descend(Out(o)) : /\ Code(r[1]) \in {"INT_RIGHT", "INT_SRIGHT"}
                                /\ IsConst(In(r[1], 1)) => find_form(r[1]) # Nothing

\* move_sign_bit_extraction: reads of the sign of the quotient, or of a copy of
\* it, read the sign of the dividend.
RECURSIVE WithCopies(_)
WithCopies(vns) ==
  LET copies == {Out(r[1]) : r \in {p \in UNION {Descend(v) : v \in vns} : Code(p[1]) = "COPY"}}
  IN  IF copies \subseteq vns THEN vns ELSE WithCopies(vns \cup copies)
ShiftAmount(o) ==
  LET k == In(o, 1)
      def == Def(k)
  IN  IF WrittenBy(k, {"COPY"}) THEN In(def, 0)
      ELSE IF WrittenBy(k, {"INT_AND"}) /\ IsConst(In(def, 0)) /\ IsConst(In(def, 1)) /\ And(Val(In(def, 0)), Val(In(def, 1))) = Val(In(def, 0))
      THEN In(def, 0) ELSE k
SignReaders(first) ==
  LET tested == WithCopies({first} \cup (IF WrittenBy(first, {"INT_SRIGHT"}) THEN {In(Def(first), 0)} ELSE {}))
  IN  {o \in Ops : /\ Code(o) \in {"INT_RIGHT", "INT_SRIGHT"} /\ (In(o, 0) \in tested \/ In(o, 1) \in tested)
                   /\ IsConst(ShiftAmount(o)) /\ Val(ShiftAmount(o)) = SignShift(first)}
move_sign_bit_extraction(gr, first, with) == ReplaceReads(gr, {<<o, 0>> : o \in SignReaders(first)}, V(with))

\* The dividend made as wide as the quotient, or the other way around: the
\* graph, the dividend, and the operation that will compute the quotient.
FitInput(o, form) ==
  LET size == OutSize(o)
      g1 == NewBefore(g, o, "INT_ADD", Size(form.vn), <<>>)
  IN  IF Size(form.vn) < size
      THEN [graph |-> NewBefore(g, o, form.ext, size, <<V(form.vn)>>), vn |-> NextOut(g), op |-> o]
      ELSE IF Size(form.vn) > size
      THEN [graph |-> SetInput(SetInput(SetOpcode(g1, o, "SUBPIECE"), o, V(NextOut(g)), 0), o, K(0, IntSize), 1),
            vn |-> form.vn, op |-> NextOp(g)]
      ELSE [graph |-> g, vn |-> form.vn, op |-> o]
DivideUnsigned(fit, size, divisor) ==
  SetOpcode(SetInput(SetInput(fit.graph, fit.op, V(fit.vn), 0), fit.op, K(divisor, size), 1), fit.op, "INT_DIV")
\* The quotient rounded toward zero, less one for a negative dividend.
DivideSigned(gr, fit, size, divisor) ==
  LET g1 == NewBefore(gr, fit.op, "INT_SDIV", size, <<V(fit.vn), K(divisor, size)>>)
      g2 == NewBefore(g1, fit.op, "INT_SRIGHT", size, <<V(fit.vn), K(Bits(size) - 1, size)>>)
  IN  SetOpcode(SetInput(SetInput(g2, fit.op, V(NextOut(gr)), 0), fit.op, V(NextOut(g1)), 1), fit.op, "INT_ADD")
DivisionOf(o, form, fit, divisor) ==
  LET size == fit.graph.vns[fit.graph.ops[fit.op].out].size
  IN  IF divisor = DivisorError THEN [g EXCEPT !.err = "evaluation"]
      ELSE IF form.ext = "INT_ZEXT" THEN DivideUnsigned(fit, size, divisor)
      ELSE DivideSigned(IF fit.op = o THEN move_sign_bit_extraction(fit.graph, Out(o), fit.vn) ELSE fit.graph,
                        fit, size, divisor)
RuleDivOpt(o) ==
  /\ Code(o) \in {"SUBPIECE", "INT_RIGHT", "INT_SRIGHT"} /\ ~check_form_overlap(o)
  /\ \E form \in ToSet(find_form(o)) :
       \E divisor \in {calc_divisor(form.n, form.y, form.xsize - Truth(form.ext = "INT_SEXT"))} \ {NoDivisor} :
         Becomes(DivisionOf(o, form, FitInput(o, form), divisor))
----------------------------------------------------------------------------
\* check_sign_extraction: what v is the sign of, or 0.
check_sign_extraction(v) ==
  IF /\ WrittenBy(v, {"INT_SRIGHT"}) /\ IsConst(In(Def(v), 1))
     /\ Val(In(Def(v), 1)) = SignShift(In(Def(v), 0))
  THEN In(Def(v), 0) ELSE 0
\* v is x times minus one, whose x is reached through it, or 0.
Negated(v) ==
  IF WrittenBy(v, {"INT_MULT"}) /\ IsConst(In(Def(v), 1)) /\ Val(In(Def(v), 1)) = calc_mask(Size(In(Def(v), 1)))
  THEN In(Def(v), 0) ELSE 0
\* op is x - (x s>> n-1), for the x returned, or 0.
LessItsSign(op) ==
  LET Matches(slot) == Negated(In(op, slot)) # 0 /\ check_sign_extraction(Negated(In(op, slot))) = In(op, 1 - slot)
      slots == {slot \in {0, 1} : Matches(slot)}
  IN  IF slots = {} THEN 0 ELSE In(op, 1 - (CHOOSE slot \in slots : \A other \in slots : slot <= other))

RuleSignDiv2(o) ==
  LET x == LessItsSign(Def(In(o, 0)))
  IN  /\ Code(o) = "INT_SRIGHT" /\ IsConstOf(In(o, 1), 1) /\ WrittenBy(In(o, 0), {"INT_ADD"})
      /\ x # 0 /\ ~IsFree(x)
      /\ Becomes(SetOpcode(SetInput(SetInput(g, o, V(x), 0), o, K(2, Size(x)), 1), o, "INT_SDIV"))

RuleDivChain(o) ==
  LET v == In(o, 0)
      divop == Def(v)
      size == Size(v)
      same == Code(divop) = Code(o)
      val1 == IF same THEN Val(In(divop, 1)) ELSE wrapping_shl(1, Val(In(divop, 1)))
      val2 == Val(In(o, 1))
      res == And((val1 * val2) % Word, calc_mask(size))
      Magnitude(val) == IF signbit_negative(val, size) THEN And((Word - val) % Word, calc_mask(size)) ELSE val
      bitcount == mostsigbit_set(Magnitude(val1)) + mostsigbit_set(Magnitude(val2)) + 2
  IN  /\ Code(o) \in {"INT_DIV", "INT_SDIV"} /\ IsConst(In(o, 1)) /\ IsWritten(v)
      /\ same \/ (Code(o) = "INT_DIV" /\ Code(divop) = "INT_RIGHT")
      /\ IsConst(In(divop, 1)) /\ Lone(v) # 0 /\ ~IsFree(In(divop, 0))
      /\ res # 0 /\ bitcount <= Bits(size) - (IF Code(o) = "INT_SDIV" THEN 2 ELSE 0)
      /\ Becomes(SetInput(SetInput(g, o, V(In(divop, 0)), 0), o, K(res, size), 1))

RuleSignForm(o) ==
  LET x == In(Def(In(o, 0)), 0)
  IN  /\ Code(o) = "SUBPIECE" /\ WrittenBy(In(o, 0), {"INT_SEXT"})
      /\ Val(In(o, 1)) >= Size(x) /\ ~IsFree(x)
      /\ Becomes(SetOpcode(SetInput(SetInput(g, o, V(x), 0), o, K(SignShift(x), IntSize), 1), o, "INT_SRIGHT"))

\* The sign of a product is the sign of its signed factor.  (The code makes the
\* edit but reports no change.)
RuleSignForm2(o) ==
  LET in == In(o, 0)
      subop == Def(in)
      mult == In(subop, 0)
      multop == Def(mult)
      slot == IF WrittenBy(In(multop, 0), {"INT_SEXT"}) THEN 0 ELSE 1
      x == In(Def(In(multop, slot)), 0)
      other == In(multop, 1 - slot)
  IN  /\ Code(o) = "INT_SRIGHT" /\ IsConstOf(In(o, 1), SignShift(in))
      /\ WrittenBy(in, {"SUBPIECE"}) /\ Val(In(subop, 1)) + Size(in) = Size(mult) /\ WrittenBy(mult, {"INT_MULT"})
      /\ WrittenBy(In(multop, slot), {"INT_SEXT"}) /\ ~IsFree(x) /\ Size(x) = Size(in)
      /\ IF IsConst(other) THEN Val(other) <= calc_mask(Size(in)) /\ 2 * Size(in) <= Size(mult)
         ELSE WrittenBy(other, {"INT_ZEXT"}) /\ Size(In(Def(other), 0)) + Size(in) <= Size(mult)
      /\ Becomes(SetInput(g, o, V(x), 0))

\* (x + ((x s>> n-1) >> n-k)) & -2^k is a multiple of 2^k.
RuleSignNearMult(o) ==
  LET addop == Def(In(o, 0))
      Unshift(index) == WrittenBy(In(addop, index), {"INT_RIGHT"}) /\ IsConst(In(Def(In(addop, index)), 1))
      index == IF Unshift(0) THEN 0 ELSE 1
      unshift == Def(In(addop, index))
      x == In(addop, 1 - index)
      size == Size(In(addop, index))
      shift == Bits(size) - Val(In(unshift, 1))
      mask == And(wrapping_shl(calc_mask(size), shift), calc_mask(size))
      pow == wrapping_shl(1, shift)
      g1 == NewBefore(g, o, "INT_SDIV", Size(x), <<V(x), K(pow, Size(x))>>)
  IN  /\ Code(o) = "INT_AND" /\ IsConst(In(o, 1)) /\ WrittenBy(In(o, 0), {"INT_ADD"})
      /\ Unshift(index) /\ ~IsFree(x) /\ Val(In(unshift, 1)) > 0 /\ shift > 0
      /\ Val(In(o, 1)) = mask /\ check_sign_extraction(In(unshift, 0)) = x
      /\ Becomes(SetInput(SetInput(SetOpcode(g1, o, "INT_MULT"), o, V(NextOut(g)), 0), o, K(pow, Size(x)), 1))

\* x - (x / d) * d is a remainder.
RuleModOpt(o) ==
  LET x == In(o, 0)
      div == In(o, 1)
      Other(op, v) == IF In(op, 1) = v THEN In(op, 0) ELSE In(op, 1)
      Remaining(op, v) == IF In(op, 0) = v THEN In(op, 1) ELSE In(op, 0)
      Opposite(v) == IF IsConst(v) THEN IsConst(div) /\ Val(div) = And((Xor(Val(v), calc_mask(Size(v))) + 1) % Word, calc_mask(Size(v)))
                     ELSE WrittenBy(v, {"INT_2COMP"}) /\ In(Def(v), 0) = div
  IN  /\ Code(o) \in {"INT_DIV", "INT_SDIV"}
      /\ \E r \in Descend(Out(o)) :
           /\ Code(r[1]) = "INT_MULT" /\ Opposite(Other(r[1], Out(o)))
           /\ \E s \in Descend(Out(r[1])) :
                /\ Code(s[1]) = "INT_ADD" /\ Remaining(s[1], Out(r[1])) = x
                /\ Becomes(SetOpcode(SetInput(SetInput(g, s[1], V(x), 0), s[1],
                                              IF IsConst(div) THEN K(Val(div), Size(div)) ELSE V(div), 1),
                                     s[1], IF Code(o) = "INT_DIV" THEN "INT_REM" ELSE "INT_SREM"))
----------------------------------------------------------------------------
\* Remainders by powers of two.

MakeRemainder(gr, op, x, divisor) ==
  SetInput(SetInput(SetOpcode(gr, op, "INT_SREM"), op, V(x), 0), op, K(divisor, Size(x)), 1)

\* ((x + sign) & mask) - sign, where sign is the low bits of x s>> n-1.  The mask
\* may be applied to a truncation of x, extended afterwards.
MaskedSum(sumvn, x, mask, shiftamt) ==
  LET extended == WrittenBy(sumvn, {"INT_ZEXT"})
      andvn == IF extended THEN In(Def(sumvn), 0) ELSE sumvn
      andop == Def(andvn)
      addop == Def(In(andop, 0))
      Whole(v) == IF ~extended THEN v
                  ELSE IF WrittenBy(v, {"SUBPIECE"}) /\ Val(In(Def(v), 1)) = 0 THEN In(Def(v), 0) ELSE 0
      slot == IF Whole(In(addop, 0)) = x THEN 0 ELSE 1
      signvn == In(addop, 1 - slot)
      shiftop == Def(signvn)
      shiftval == Val(In(shiftop, 1)) + (IF extended THEN Bits(Size(x) - Size(andvn)) ELSE 0)
      sign == check_sign_extraction(In(shiftop, 0))
  IN  /\ WrittenBy(andvn, {"INT_AND"}) /\ IsConstOf(In(andop, 1), mask) /\ WrittenBy(In(andop, 0), {"INT_ADD"})
      /\ Whole(In(addop, slot)) = x
      /\ WrittenBy(signvn, {"INT_RIGHT"}) /\ IsConst(In(shiftop, 1)) /\ shiftval = shiftamt /\ sign # 0
      /\ IF extended THEN WrittenBy(sign, {"SUBPIECE"}) /\ Val(In(Def(sign), 1)) = Size(andvn) /\ In(Def(sign), 0) = x
         ELSE sign = x
RuleSignMod2nOpt(o) ==
  LET x == check_sign_extraction(In(o, 0))
      shiftamt == Val(In(o, 1))
      mask == (wrapping_shl(1, (Bits(Size(x)) - shiftamt) % WordBits) - 1) % Word
  IN  /\ Code(o) = "INT_RIGHT" /\ IsConst(In(o, 1)) /\ x # 0 /\ ~IsFree(x)
      /\ \E r \in Descend(Out(o)) :
           LET base == Lone(Out(r[1]))
               other == IF In(base, 0) = Out(r[1]) THEN In(base, 1) ELSE In(base, 0)
           IN  /\ Code(r[1]) = "INT_MULT" /\ IsConstOf(In(r[1], 1), calc_mask(OutSize(o)))
               /\ base # 0 /\ Code(base) = "INT_ADD" /\ MaskedSum(other, x, mask, shiftamt)
               /\ Becomes(MakeRemainder(g, base, x, (mask + 1) % Word))

\* ((x - (x s>> n-1)) & 1) + (x s>> n-1), the mask possibly on a truncation.
RuleSignMod2Opt(o) ==
  LET addop == Def(In(o, 0))
      slot == IF Negated(In(addop, 0)) # 0 THEN 0 ELSE 1
      signed == check_sign_extraction(Negated(In(addop, slot)))
      low == In(addop, 1 - slot)
      trunc == signed # low
      x == IF trunc THEN In(Def(low), 0) ELSE signed
      andvn == IF trunc THEN Out(Lone(Out(o))) ELSE Out(o)
  IN  /\ Code(o) = "INT_AND" /\ IsConstOf(In(o, 1), 1) /\ WrittenBy(In(o, 0), {"INT_ADD"})
      /\ Negated(In(addop, slot)) # 0 /\ signed # 0
      /\ trunc => /\ WrittenBy(signed, {"SUBPIECE"}) /\ WrittenBy(low, {"SUBPIECE"})
                  /\ Val(In(Def(signed), 1)) + Size(signed) = Size(In(Def(signed), 0))
                  /\ Val(In(Def(low), 1)) = 0 /\ In(Def(low), 0) = In(Def(signed), 0)
                  /\ Lone(Out(o)) # 0 /\ Code(Lone(Out(o))) = "INT_ZEXT"
      /\ ~IsFree(x)
      /\ \E r \in Descend(andvn) :
           /\ Code(r[1]) = "INT_ADD" /\ check_sign_extraction(In(r[1], 1 - r[2])) = x
           /\ Becomes(MakeRemainder(g, r[1], x, 2))

MutNegativeSlot == g.taken    \* mutant: the flipped condition is not looked at
\* The input of the MULTIEQUALs on the path taken when the condition holds.
NegativeSlot == IF g.flip THEN 3 - g.taken ELSE g.taken
\* check_multiequal_form: x, or x + npow - 1 when something is negative.
check_multiequal_form(op, npow) ==
  LET Adds(slot) == /\ WrittenBy(In(op, slot), {"INT_ADD"}) /\ IsConstOf(In(Def(In(op, slot)), 1), npow - 1)
                    /\ In(Def(In(op, slot)), 0) = In(op, 1 - slot)
      slot == IF Adds(0) THEN 0 ELSE 1
      cbranch == CHOOSE b \in Branches(g) : TRUE
      less == Def(In(cbranch, 0))
  IN  IF /\ Adds(slot) /\ Conditional(g) /\ Cardinality(g.inner) = 1
         /\ WrittenBy(In(cbranch, 0), {"INT_SLESS"}) /\ IsConstOf(In(less, 1), 0)
         /\ NegativeSlot = slot + 1
      THEN In(op, 1 - slot) ELSE 0
\* x - (adjusted x & -npow).
RuleSignMod2nOpt2(o) ==
  LET andop == Def(In(o, 0))
      mask == calc_mask(Size(In(o, 1)))
      npow == And((Word - Val(In(andop, 1))) % Word, mask)
      adj == Def(In(andop, 0))
      x == IF Code(adj) = "INT_ADD" THEN LessItsSign(adj) ELSE check_multiequal_form(adj, npow)
  IN  /\ Code(o) = "INT_MULT" /\ IsConstOf(In(o, 1), mask)
      /\ WrittenBy(In(o, 0), {"INT_AND"}) /\ IsConst(In(andop, 1)) /\ popcount(npow) = 1 /\ npow # 1
      /\ WrittenBy(In(andop, 0), {"INT_ADD", "MULTIEQUAL"}) /\ (Code(adj) = "INT_ADD" => npow = 2)
      /\ x # 0 /\ ~IsFree(x)
      /\ \E r \in Descend(Out(o)) : /\ Code(r[1]) = "INT_ADD" /\ In(r[1], 1 - r[2]) = x
                                    /\ Becomes(MakeRemainder(g, r[1], x, npow))

DivisionRules ==
  \/ \E o \in Ops : RuleSubNormal(o)
  \/ \E o \in Ops : RulePositiveDiv(o)
  \/ \E o \in Ops : RuleDivTermAdd(o)
  \/ \E o \in Ops : RuleDivTermAdd2(o)
  \/ \E o \in Ops : RuleDivOpt(o)
  \/ \E o \in Ops : RuleSignDiv2(o)
  \/ \E o \in Ops : RuleDivChain(o)
  \/ \E o \in Ops : RuleSignForm(o)
  \/ \E o \in Ops : RuleSignForm2(o)
  \/ \E o \in Ops : RuleSignNearMult(o)
  \/ \E o \in Ops : RuleModOpt(o)
  \/ \E o \in Ops : RuleSignMod2nOpt(o)
  \/ \E o \in Ops : RuleSignMod2Opt(o)
  \/ \E o \in Ops : RuleSignMod2nOpt2(o)
=============================================================================
