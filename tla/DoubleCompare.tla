--------------------------- MODULE DoubleCompare ---------------------------
(***************************************************************************)
(* The comparisons of double precision values that are spread over several *)
(* branches (double.rs): Equal1Form joins two equality tests of the halves *)
(* and LessThreeWay the three tests of a "less than", high halves less,    *)
(* high halves equal, low halves less.  The first branch then tests the    *)
(* whole values, and a later one gets a constant condition.                *)
(*                                                                         *)
(* A flow has the test of each conditional block and the two blocks its    *)
(* branch leads to.  The value being recovered has the halves lo and hi    *)
(* and the varnode whole; all halves are there before the first test.      *)
(***************************************************************************)
EXTENDS Pcode

CONSTANT Half    \* the size of a half in bytes

VARIABLES
  flow,       \* the test and branch of each conditional block
  original,   \* flow before any form was recovered
  entries,    \* the blocks entered from elsewhere
  busy        \* the blocks with other operations
comparevars == <<flow, original, entries, busy>>

Tests == 1..3
Exits == 4..5
Whole == 2 * Half
\* Operands: a varnode, a constant, a value joined of two halves.
Vn(name) == [name |-> name, k |-> 0, size |-> IF name = "whole" THEN Whole ELSE Half]
Literal(k, size) == [name |-> "const", k |-> k, size |-> size]
JoinOf(lo, hi) == [name |-> "pair", lo |-> lo, hi |-> hi, size |-> Whole]
IsLiteral(x) == x.name = "const"
lowHalf == Vn("lo")
highHalf == Vn("hi")
wholeVn == Vn("whole")
Swap(pair) == <<pair[2], pair[1]>>
\* A test with in[1] of size 1 and code "COPY" is a constant condition.
EqualityTests == {"INT_EQUAL", "INT_NOTEQUAL"}
Lesses == {"INT_LESS", "INT_LESSEQUAL", "INT_SLESS", "INT_SLESSEQUAL"}
OrEquals == {"INT_LESSEQUAL", "INT_SLESSEQUAL"}
SignedLesses == {"INT_SLESS", "INT_SLESSEQUAL"}
----------------------------------------------------------------------------
\* The blocks a branch on the boolean leads to, read as if flipped once more.
get_true_false(b, flip) ==
  IF flow[b].flip # flip THEN [t |-> flow[b].f, f |-> flow[b].t] ELSE [t |-> flow[b].t, f |-> flow[b].f]
Into(b) == {p \in DOMAIN flow : b \in {flow[p].t, flow[p].f}}
SizeIn(b) == Cardinality(Into(b)) + (IF b \in entries THEN 1 ELSE 0)
MutOtherwiseEmpty(b) == SizeIn(b) = 1    \* mutant: other operations of the block are not looked for
otherwise_empty(b) == SizeIn(b) = 1 /\ b \notin busy
\* The other value: both halves or none are constant.
BothOrNone(lo2, hi2) == IsLiteral(lo2) = IsLiteral(hi2)
JoinedHalves(lo2, hi2) ==
  IF IsLiteral(lo2) THEN Literal(Or(wrapping_shl(hi2.k, Bits(Half)), lo2.k), Whole) ELSE JoinOf(lo2, hi2)
\* create_bool_op on one branch, a constant condition on the other.
SetBools(b, code, in, other, const) ==
  /\ flow' = [flow EXCEPT ![b].code = code, ![b].in = in, ![other].code = "COPY", ![other].in = <<Literal(const, 1)>>]
  /\ UNCHANGED <<original, entries, busy>>
Bit(bool) == IF bool THEN 1 ELSE 0

TestReads(b, v) == v \in {flow[b].in[i] : i \in DOMAIN flow[b].in}
OtherOf(b, v) == IF flow[b].in[1] = v THEN flow[b].in[2] ELSE flow[b].in[1]
\* Equal1Form: one of the tests is only made when the other succeeds, and both
\* lead to the same block when they fail.
Equal1Form(hib, lob) ==
  LET nehi == flow[hib].code = "INT_NOTEQUAL"
      nelo == flow[lob].code = "INT_NOTEQUAL"
      high == get_true_false(hib, nehi)
      low == get_true_false(lob, nelo)
      hi2 == OtherOf(hib, highHalf)
      lo2 == OtherOf(lob, lowHalf)
      in == <<wholeVn, JoinedHalves(lo2, hi2)>>
  IN  /\ hib # lob /\ flow[hib].code \in EqualityTests /\ flow[lob].code \in EqualityTests
      /\ TestReads(hib, highHalf) /\ TestReads(lob, lowHalf) /\ BothOrNone(lo2, hi2)
      /\ IsLiteral(lo2) => Whole <= WordBytes
      /\ high.f = low.f
      /\ IF high.t = lob /\ otherwise_empty(lob)
         THEN SetBools(hib, flow[hib].code, in, lob, Bit(~nelo))
         ELSE /\ low.t = hib /\ otherwise_empty(hib)
              /\ SetBools(lob, flow[lob].code, in, hib, Bit(~nehi))
----------------------------------------------------------------------------
\* LessThreeWay

\* normalize_hi: v[1] < v[2], with the branch flipped when flip, and for a
\* comparison of the whole with a constant the high half of its bound; eqbl is
\* where the high halves are compared next.
BoundStep(k, away) == k + (IF away THEN -1 ELSE 1)
normalize_hi(b, eqbl) ==
  LET turned == IsLiteral(flow[b].in[1])
      v == IF turned THEN Swap(flow[b].in) ELSE flow[b].in
      orEqual == (flow[b].code \in OrEquals) # turned
      away == get_true_false(b, turned).f # eqbl
      bound == IF orEqual # away THEN And(BoundStep(v[2].k, away) % Pow2[WordBits], calc_mask(Whole)) ELSE v[2].k
  IN  IF IsLiteral(v[2])
      THEN [v |-> IF away THEN Swap(v) ELSE v, flip |-> turned # away, const |-> TRUE, val |-> wrapping_shr(bound, Bits(Half))]
      ELSE [v |-> IF orEqual THEN Swap(v) ELSE v, flip |-> turned # orEqual, const |-> FALSE, val |-> 0]
\* normalize_mid: the test that the high halves are equal; of values that are
\* not less, "less or equal" is as good.
normalize_mid(b, high) ==
  LET less == flow[b].code \in Lesses
      turned == IsLiteral(flow[b].in[1])
      v == IF turned THEN Swap(flow[b].in) ELSE flow[b].in
      orEqual == (flow[b].code \in OrEquals) # turned
      wide == v[2].size = Whole
      part == And(v[2].k, calc_mask(Half))
      midval == IF wide THEN wrapping_shr(v[2].k, Bits(Half)) ELSE v[2].k
      stepped == And((midval + (IF orEqual THEN 1 ELSE -1)) % Pow2[WordBits], calc_mask(Half))
      result(oe) == {[v |-> v, const |-> IsLiteral(v[2]), wide |-> wide,
                      flip |-> (turned /\ less) # (IF less THEN ~oe ELSE flow[b].code = "INT_NOTEQUAL")]}
  IN  CASE ~IsLiteral(v[2]) -> result(orEqual)
        [] ~high.const -> {}
        [] wide /\ (~less \/ part # (IF orEqual THEN calc_mask(Half) ELSE 0)) -> {}
        [] midval = high.val -> result(orEqual)
        [] less /\ stepped = high.val -> result(~orEqual)
        [] OTHER -> {}
\* normalize_lo: v[1] < v[2], or v[1] < val for a constant.
normalize_lo(b) ==
  LET turned == IsLiteral(flow[b].in[1])
      v == IF turned THEN Swap(flow[b].in) ELSE flow[b].in
      orEqual == (flow[b].code \in OrEquals) # turned
  IN  CASE flow[b].code \in EqualityTests -> [v |-> flow[b].in, flip |-> flow[b].code = "INT_NOTEQUAL", const |-> TRUE, val |-> 1]
        [] IsLiteral(v[2]) -> [v |-> v, flip |-> turned, const |-> TRUE, val |-> IF orEqual THEN And((v[2].k + 1) % Pow2[WordBits], calc_mask(Half)) ELSE v[2].k]
        [] OTHER -> [v |-> IF orEqual THEN Swap(v) ELSE v, flip |-> turned # orEqual, const |-> FALSE, val |-> 0]
\* check_op_form: the slot of the value in the comparison, its other operand,
\* and the low test as read against that.
SameHighs(high, mid) ==
  IF mid.const THEN high.const /\ (IF mid.wide THEN mid.v[1] \in {high.v[1], high.v[2]} ELSE mid.v[1] = highHalf)
  ELSE {high.v[1], high.v[2]} \subseteq {mid.v[1], mid.v[2]}
check_op_form(high, mid, low) ==
  LET slot == IF highHalf \in {high.v[1], high.v[2]} THEN (IF high.v[1] = highHalf THEN 1 ELSE 2) ELSE IF high.v[1] = wholeVn THEN 1 ELSE 2
      straight == low.v[slot] = lowHalf
      variable == [slot |-> slot, hi2 |-> high.v[3 - slot], lo2 |-> IF straight THEN low.v[3 - slot] ELSE low.v[slot],
                   flip |-> low.flip # ~straight, orEqual |-> ~straight, val |-> 0]
      constant == [slot |-> slot, hi2 |-> lowHalf, lo2 |-> lowHalf, flip |-> low.flip # (slot = 2), orEqual |-> FALSE,
                   val |-> IF slot = 2 THEN And((low.val - 1) % Pow2[WordBits], calc_mask(Half)) ELSE low.val]
  IN  CASE ~SameHighs(high, mid) -> {}
        [] high.v[slot] = highHalf -> IF ~high.const /\ lowHalf \in {low.v[1], low.v[2]} THEN {variable} ELSE {}
        [] high.v[slot] = wholeVn -> IF high.const /\ low.const /\ low.v[1] = lowHalf THEN {constant} ELSE {}
        [] OTHER -> {}
\* check_block_form
check_block_form(hib, eqb, lob, high, mid, form) ==
  LET less == get_true_false(hib, high.flip)
      equal == get_true_false(eqb, mid.flip)
      low == get_true_false(lob, form.flip)
  IN  /\ less.t = low.t /\ equal.f = low.f /\ less.f = eqb /\ equal.t = lob
      /\ otherwise_empty(eqb) /\ otherwise_empty(lob)
\* set_op_code
FinalCode(sign, orEqual) ==
  IF orEqual THEN (IF sign THEN "INT_SLESSEQUAL" ELSE "INT_LESSEQUAL") ELSE (IF sign THEN "INT_SLESS" ELSE "INT_LESS")
\* map_ops_from_blocks and check_signedness
map_ops_from_blocks(hib, eqb, lob) ==
  /\ flow[eqb].code \in Lesses \cup EqualityTests /\ flow[hib].code \in Lesses
  /\ flow[lob].code \in {"INT_LESS", "INT_LESSEQUAL"} \/ (flow[lob].code \in EqualityTests /\ flow[lob].in[2] = Literal(0, Half))
  /\ flow[eqb].code \in Lesses => (flow[eqb].code \in SignedLesses) = (flow[hib].code \in SignedLesses)
LessThreeWay(hib, eqb, lob) ==
  /\ Into(lob) = {eqb} /\ SizeIn(lob) = 1 /\ Into(eqb) = {hib} /\ SizeIn(eqb) = 1
  /\ TestReads(lob, lowHalf) /\ map_ops_from_blocks(hib, eqb, lob)
  /\ \E high \in {normalize_hi(hib, eqb)} : \E mid \in normalize_mid(eqb, high) : \E form \in check_op_form(high, mid, normalize_lo(lob)) :
       LET in2 == IF high.const THEN Literal(Or(wrapping_shl(high.val, Bits(Half)), form.val), Whole) ELSE JoinedHalves(form.lo2, form.hi2)
           first == (form.slot = 1) # high.flip
       IN  /\ high.const => Whole <= WordBytes
           /\ check_block_form(hib, eqb, lob, high, mid, form)
           /\ BothOrNone(form.lo2, form.hi2)
           /\ SetBools(hib, FinalCode(flow[hib].code \in SignedLesses, form.orEqual # high.flip),
                       IF first THEN <<wholeVn, in2>> ELSE <<in2, wholeVn>>, eqb, Bit(mid.flip))
CompareNext ==
  \/ \E hib, lob \in DOMAIN flow : Equal1Form(hib, lob)
  \/ \E hib, eqb, lob \in DOMAIN flow : LessThreeWay(hib, eqb, lob)
----------------------------------------------------------------------------
\* Where the flow leads from a block for the values of the halves, and the
\* blocks with other operations it goes through.
HalfValues == 0..SizeMask(Half)
HalfEnvs == [{"lo", "hi", "lo2", "hi2"} -> HalfValues]
ValueOf(env, x) ==
  LET half(y) == IF IsLiteral(y) THEN y.k ELSE env[y.name]
  IN  CASE x.name = "const" -> x.k
        [] x.name = "whole" -> env["hi"] * Pow2[Bits(Half)] + env["lo"]
        [] x.name = "pair" -> half(x.hi) * Pow2[Bits(Half)] + half(x.lo)
        [] OTHER -> env[x.name]
ConditionOf(test, env) ==
  IF test.code = "COPY" THEN test.in[1].k
  ELSE EvaluateComparison(test.code, test.in[1].size, ValueOf(env, test.in[1]), ValueOf(env, test.in[2]))
Outcome(fl, env) ==
  LET to[b \in Tests \cup Exits] ==
        IF b \notin DOMAIN fl THEN <<b, {}>>
        ELSE LET next == to[IF (ConditionOf(fl[b], env) = 1) # fl[b].flip THEN fl[b].t ELSE fl[b].f]
             IN  <<next[1], next[2] \cup ({b} \cap busy)>>
  IN  to
----------------------------------------------------------------------------
\* Flows of two and of three tests of the halves of values.

Test(code, in, flip, t, f) == [code |-> code, in |-> in, flip |-> flip, t |-> t, f |-> f]
Both(x, y) == {<<x, y>>, <<y, x>>}
lowHalf2 == Vn("lo2")
highHalf2 == Vn("hi2")
\* A test with the codes of the operands, leading to x and y either way.
Tested(codes, ins, flips, x, y) ==
  {Test(c, i, fl, o[1], o[2]) : c \in codes, i \in ins, fl \in flips, o \in Both(x, y)}
InitOf(flows, entered, worked) ==
  /\ flow \in flows /\ original = flow /\ entries \in entered /\ busy \in worked
\* The ways a branch can never go when the flow is entered at the first block.
ReachedIn(fl, b, env) ==
  LET from[n \in Tests \cup Exits] ==
        n = b \/ (n \in DOMAIN fl /\ from[IF (ConditionOf(fl[n], env) = 1) # fl[n].flip THEN fl[n].t ELSE fl[n].f])
  IN  from[1]
DeadWays(fl) ==
  {way \in (DOMAIN fl) \X {0, 1} : \A env \in HalfEnvs : ConditionOf(fl[way[1]], env) = way[2] => ~ReachedIn(fl, way[1], env)}
Alone == {{1}}
Idle == {{}}
\* Two equality tests, the high halves first or the low ones.
Bounds == {Literal(0, Half), Literal(1, Half), Literal(3, Half)}
HighIns == Both(highHalf, highHalf2) \cup {<<highHalf, k>> : k \in Bounds}
LowIns == Both(lowHalf, lowHalf2) \cup {<<lowHalf, k>> : k \in Bounds}
EqualFlows ==
  {<<a, b>> : a \in Tested(EqualityTests, HighIns, BOOLEAN, 2, 5), b \in Tested(EqualityTests, LowIns, {FALSE}, 4, 5)}
  \cup
  {<<a, b>> : a \in Tested(EqualityTests, LowIns, {FALSE}, 2, 5), b \in Tested(EqualityTests, HighIns, BOOLEAN, 4, 5)}
InitEqual == InitOf(EqualFlows, {{1}, {1, 2}}, SUBSET {1, 2})
\* Three tests of two values.
ThreeWayFlows ==
  {<<a, b, c>> : a \in Tested(Lesses, Both(highHalf, highHalf2), {FALSE}, 2, 4), b \in Tested({"INT_EQUAL", "INT_NOTEQUAL", "INT_LESSEQUAL", "INT_SLESS"}, Both(highHalf2, highHalf), {FALSE}, 3, 5),
                 c \in Tested({"INT_LESS", "INT_LESSEQUAL"}, Both(lowHalf, lowHalf2), {TRUE}, 4, 5)}
BusyFlows ==
  {<<a, b, c>> : a \in Tested({"INT_LESS"}, Both(highHalf, highHalf2), BOOLEAN, 2, 4), b \in Tested({"INT_EQUAL"}, {<<highHalf, highHalf2>>}, BOOLEAN, 3, 5), c \in Tested({"INT_LESS"}, {<<lowHalf, lowHalf2>>}, BOOLEAN, 4, 5)}
\* Three tests of a value and a constant.
BoundFlows ==
  {<<a, b, c>> : a \in Tested(Lesses, UNION {{<<wholeVn, Literal(k, Whole)>>, <<Literal(k, Whole), wholeVn>>} : k \in {3, 4, 5, 7, 8, 11}}, {FALSE}, 2, 4),
                 b \in Tested(EqualityTests \cup Lesses, {<<highHalf, Literal(k, Half)>> : k \in HalfValues} \cup {<<Literal(1, Half), highHalf>>, <<wholeVn, Literal(7, Whole)>>}, {FALSE}, 3, 5),
                 c \in Tested({"INT_LESS", "INT_LESSEQUAL"}, {<<lowHalf, Literal(1, Half)>>, <<Literal(1, Half), lowHalf>>}, {FALSE}, 4, 5) \cup Tested({"INT_EQUAL"}, {<<lowHalf, Literal(0, Half)>>}, {FALSE}, 4, 5)}
InitThree ==
  /\ \/ InitOf(ThreeWayFlows, Alone, Idle)
     \/ InitOf(BusyFlows, {{1}, {1, 2}, {1, 3}}, {{}, {1}, {2}, {3}})
  /\ DeadWays(flow) = {}
InitBound == InitOf(BoundFlows, Alone, Idle) /\ ENABLED CompareNext /\ DeadWays(flow) = {}
CompareInit == InitEqual \/ InitThree \/ InitBound
----------------------------------------------------------------------------
\* Recovering a comparison changes neither the block that is reached, from any
\* block the flow can be entered at and for any values of the halves, nor the
\* other operations that are executed on the way (Equal1Form, LessThreeWay).
SameBlockReached ==
  flow # original => \A env \in HalfEnvs : LET now == Outcome(flow, env) before == Outcome(original, env) IN \A b \in entries : now[b] = before[b]
\* The most tests that depend on values a path from the first block can make.
TestsAhead(fl) ==
  LET ahead[b \in Tests \cup Exits] ==
        IF b \notin DOMAIN fl THEN 0
        ELSE IF fl[b].code = "COPY" THEN ahead[IF (fl[b].in[1].k = 1) # fl[b].flip THEN fl[b].t ELSE fl[b].f]
        ELSE 1 + (IF ahead[fl[b].t] > ahead[fl[b].f] THEN ahead[fl[b].t] ELSE ahead[fl[b].f])
  IN  ahead[1]
\* Recovering a comparison shortens the longest chain of tests: the branch that
\* got a constant condition (lobool, hieqbool) makes the tests behind it dead.
TestsFewer == flow # original => TestsAhead(flow) < TestsAhead(original)
=============================================================================
