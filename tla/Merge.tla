------------------------------- MODULE Merge -------------------------------
(***************************************************************************)
(* Merging varnodes into variables (src/merge.rs and the actions that      *)
(* drive it): the passes that take a function out of SSA form.  Varnodes   *)
(* that must share a variable (the same fixed address, the ends of a       *)
(* MULTIEQUAL or an INDIRECT) are made to, by inserting COPYs where their  *)
(* live ranges collide; then expressions are folded into their readers,    *)
(* and variables are merged wherever that is merely possible.              *)
(*                                                                         *)
(* The program pr is that of Cover; a varnode also has its address         *)
(* loc (0 for a temporary), tied, force and persist flags, the symbol sym  *)
(* it is linked to (0 for none) and whether it is explicit, and an         *)
(* operation whether it prints.  All varnodes have one size (groups of     *)
(* overlapping variables are the subject of HighVariables) and one type.   *)
(* hi[v] is the variable of v, named by one of its instances; copy_trims   *)
(* and err are the list of inserted COPYs and whether a forced merge       *)
(* raised its error.                                                       *)
(***************************************************************************)
EXTENDS Cover

CONSTANTS Loops          \* how often a path may come back to a block

VARIABLES s,             \* [pr, hi, copy_trims, err]
          phase,         \* the pass that runs
          todo           \* what the pass still has to visit

vars == <<s, phase, todo>>

Passes == <<"tied", "marker", "explicit", "implied", "multientry", "copy", "dominant",
            "adjacent", "type", "shadow", "mark", "done">>

-----------------------------------------------------------------------------
\* Operations and variables

\* a sequence given by its elements
Valued(f) == FoldLeft(Append, <<>>, f)

Code(pr, o) == pr.op[o].code
IsMarker(pr, o) == Code(pr, o) \in {"MULTIEQUAL", "INDIRECT"}
IsCall(pr, o) == Code(pr, o) = "CALL"
IsDead(pr, o) == Code(pr, o) = "DEAD"
Live(pr) == {v \in DOMAIN pr.vn : pr.vn[v].def >= 0}
Instances(st, h) == {v \in Live(st.pr) : st.hi[v] = h}
Highs(st) == {st.hi[v] : v \in Live(st.pr)}
AddrTied(st, h) == \E v \in Instances(st, h) : st.pr.vn[v].tied
IsInput(st, h) == \E v \in Instances(st, h) : st.pr.vn[v].def = 0
Persist(st, h) == \E v \in Instances(st, h) : st.pr.vn[v].persist
TiedLoc(st, h) == (CHOOSE v \in {x \in Live(st.pr) : st.pr.vn[x].tied /\ st.hi[x] = h} : TRUE)
Symbols(st, h) == {st.pr.vn[v].sym : v \in Instances(st, h)} \ {0}

InsertOp(pr, o, b, i) == [pr EXCEPT !.blk[b] = InsertAt(@, i, o)]
\* a COPY never comes between an INDIRECT and the operation it stands for
op_insert_before(pr, o, follow) ==
    LET b == BlockOf(pr, follow)
        before(i) == \A j \in i..(Order(pr, follow) - 1) : Code(pr, pr.blk[b][j]) = "INDIRECT"
    IN  InsertOp(pr, o, b, CHOOSE i \in 1..Order(pr, follow) :
                             before(i) /\ (i = 1 \/ ~before(i - 1)))
\* nor before a MULTIEQUAL
AfterPhis(pr, b, i) ==
    CHOOSE j \in i..(Len(pr.blk[b]) + 1) :
        /\ \A k \in i..(j - 1) : Code(pr, pr.blk[b][k]) = "MULTIEQUAL"
        /\ j <= Len(pr.blk[b]) => Code(pr, pr.blk[b][j]) # "MULTIEQUAL"
op_insert_after(pr, o, prev) ==
    LET p == IF Code(pr, prev) = "INDIRECT" THEN pr.op[prev].aff ELSE prev
        b == BlockOf(pr, p)
    IN  InsertOp(pr, o, b, AfterPhis(pr, b, Order(pr, p) + 1))
op_insert_begin(pr, o, b) == InsertOp(pr, o, b, AfterPhis(pr, b, 1))
op_insert_end(pr, o, b) ==
    LET n == Len(pr.blk[b])
    IN  InsertOp(pr, o, b, IF n > 0 /\ Code(pr, pr.blk[b][n]) = "BRANCH" THEN n ELSE n + 1)

op_set_input(pr, o, v, slot) == [pr EXCEPT !.op[o].ins[slot] = v]
op_destroy(pr, o) ==
    [pr EXCEPT !.vn[pr.op[o].out].def = -1,
               !.op[o] = [@ EXCEPT !.code = "DEAD", !.ins = <<>>, !.out = 0],
               !.blk[BlockOf(pr, o)] = SelectSeq(@, LAMBDA x : x # o),
               !.alive = SelectSeq(@, LAMBDA x : x # o)]

\* a new COPY of v into a new temporary, alive but not yet placed
NewCopy(st, v) ==
    LET o == Len(st.pr.op) + 1
        u == Len(st.pr.vn) + 1
    IN  [st EXCEPT
           !.pr = [@ EXCEPT !.op = Append(@, [code |-> "COPY", out |-> u, ins |-> <<v>>, aff |-> 0,
                                              prints |-> TRUE]),
                            !.vn = Append(@, [def |-> o, implied |-> FALSE, explicit |-> FALSE,
                                              loc |-> 0, tied |-> FALSE, force |-> FALSE,
                                              persist |-> FALSE, sym |-> 0]),
                            !.alive = Append(@, o)],
           !.hi = Append(@, u)]
LastOp(st) == Len(st.pr.op)
LastVn(st) == Len(st.pr.vn)
allocate_copy_trim(st, v) ==
    [NewCopy(st, v) EXCEPT !.copy_trims = Append(@, LastOp(st) + 1)]

-----------------------------------------------------------------------------
\* Whether two variables may be merged

\* the varnode v was copied from, step by step
RECURSIVE Sources(_, _)
Sources(pr, v) ==
    LET def == pr.vn[v].def
    IN  {v} \cup (IF def > 0 /\ Code(pr, def) = "COPY" THEN Sources(pr, pr.op[def].ins[1]) ELSE {})
vn_copy_shadow(pr, v, w) == Sources(pr, v) \cap Sources(pr, w) # {}

HighCover(st, h) ==
    FoldOver(LAMBDA c, v : CoverMerge(st.pr, c, rebuild(st.pr, v)), EmptyCover,
             Ascending(Instances(st, h)))

\* a variable at an address must not be merged with one that lives across a
\* call which could change what is at the address
test_untied_call_intersection(st, tied, untied) ==
    /\ ~Persist(st, tied)
    /\ intersect_op_set(st.pr, HighCover(st, untied),
                        {o \in DOMAIN st.pr.op : Code(st.pr, o) \in {"CALL", "STORE"}})

RangesCollide(pr, vs, ws) ==
    With([v \in vs |-> rebuild(pr, v)], LAMBDA vcover :
      With([w \in ws |-> rebuild(pr, w)], LAMBDA wcover :
        \E v \in vs, w \in ws :
            CoverIntersect(pr, vcover[v], wcover[w]) = 2 /\ ~vn_copy_shadow(pr, v, w)))
intersection(st, h1, h2) ==
    /\ h1 # h2
    /\ \/ RangesCollide(st.pr, Instances(st, h1), Instances(st, h2))
       \/ \E tied, untied \in {h1, h2} :
             /\ AddrTied(st, tied) /\ ~AddrTied(st, untied)
             /\ test_untied_call_intersection(st, tied, untied)

HighMerge(st, h1, h2) == [st EXCEPT !.hi = Valued([v \in DOMAIN @ |-> IF @[v] = h2 THEN h1 ELSE @[v]])]

\* merge: ok tells whether the ranges allowed it
merge(st, h1, h2) ==
    IF intersection(st, h1, h2) THEN [ok |-> FALSE, st |-> st]
    ELSE [ok |-> TRUE, st |-> HighMerge(st, h1, h2)]

\* an input may not become part of a variable at another address
InputAllows(st, input, other) ==
    IsInput(st, input) => /\ ~Persist(st, other)
                          /\ AddrTied(st, other) => AddrTied(st, input)

merge_test_required(st, out, in) ==
    \/ in = out
    \/ /\ AddrTied(st, out) /\ AddrTied(st, in) =>
            st.pr.vn[TiedLoc(st, out)].loc = st.pr.vn[TiedLoc(st, in)].loc
       /\ InputAllows(st, in, out)
       /\ InputAllows(st, out, in)
       /\ Cardinality(Symbols(st, in) \cup Symbols(st, out)) <= 1

merge_test_adjacent(st, out, in) ==
    /\ merge_test_required(st, out, in)
    /\ Symbols(st, in) = {} \/ Symbols(st, out) = {}

merge_test_speculative(st, out, in) ==
    /\ merge_test_adjacent(st, out, in)
    /\ \A h \in {out, in} : ~Persist(st, h) /\ ~IsInput(st, h) /\ ~AddrTied(st, h)

merge_test_basic(pr, v) == v # 0 /\ ~pr.vn[v].implied

-----------------------------------------------------------------------------
\* Varnodes at one address: every read that another definition at the address
\* comes between is made to read a copy taken at the definition.

\* Does the definition of w lie within the range from v's definition to o?
\* bound tells where (contain_varnode_def): strictly inside, where the range
\* starts, or where it stops.
Blocks(pr, v, o, w, bound, vdef, wdef) ==
    CASE bound = 0 -> FALSE
      [] bound = 1 -> TRUE
      [] bound = 2 -> IF wdef = 0 THEN vdef = 0 /\ v >= w
                      ELSE vdef # 0 => Order(pr, wdef) >= Order(pr, vdef)
      [] bound = 3 -> /\ pr.vn[w].force /\ wdef # 0
                      /\ Code(pr, wdef) = "INDIRECT" /\ pr.op[wdef].aff = o
                      /\ ~vn_copy_shadow(pr, v, pr.op[wdef].ins[1])
Interferes(pr, v, o, isect) ==
    With(add_ref_point(pr, add_def_point(pr, v), o, v), LAMBDA single :
        \E w \in isect \ {v} :
            Blocks(pr, v, o, w, contain_varnode_def(pr, single, w), pr.vn[v].def, pr.vn[w].def))

\* a varnode is listed as read once for each slot that reads it
ReadInstead(pr, ops, v, w) ==
    [pr EXCEPT !.op = Valued([o \in DOMAIN @ |->
        IF o \notin ops THEN @[o]
        ELSE [@[o] EXCEPT !.ins = [i \in DOMAIN @ |-> IF @[i] = v THEN w ELSE @[i]]]])]
snip_reads(st, v, marked) ==
    IF marked = {} THEN st
    ELSE [allocate_copy_trim(st, v) EXCEPT !.pr =
            ReadInstead(IF st.pr.vn[v].def = 0 THEN op_insert_begin(@, LastOp(st) + 1, 1)
                        ELSE op_insert_after(@, LastOp(st) + 1, st.pr.vn[v].def),
                        marked, v, LastVn(st) + 1)]

eliminate_intersect(st, v, isect) ==
    snip_reads(st, v, {o \in Readers(st.pr, v) : Interferes(st.pr, v, o, isect)})

AtLoc(pr, l) == Ascending({v \in Live(pr) : pr.vn[v].loc = l})

unify_address(st, vns) ==
    FoldOver(LAMBDA t, v : eliminate_intersect(t, v, ToSet(vns)), st, vns)

Forced(m, error) == IF m.ok THEN m.st ELSE [m.st EXCEPT !.err = error]

\* "Forced merge caused intersection"
merge_range_must(st, vns) ==
    FoldOver(LAMBDA t, v :
               IF t.err # "" THEN t ELSE Forced(merge(t, t.hi[vns[1]], t.hi[v]), "range"),
             st, vns)

\* merge_addr_tied: one address
TiedAddress(st, l) ==
    LET vns == AtLoc(st.pr, l)
    IN  IF \E v \in ToSet(vns) : st.pr.vn[v].tied
        THEN merge_range_must(unify_address(st, vns), vns)
        ELSE st

-----------------------------------------------------------------------------
\* Markers: the output and the inputs become one variable

\* a COPY of the input, at the end of the block it comes from
trim_op_input(st, o, slot) ==
    LET copyop == LastOp(st) + 1
        place(pr) == IF Code(pr, o) = "MULTIEQUAL"
                     THEN op_insert_end(pr, copyop, pr.pred[BlockOf(pr, o)][slot])
                     ELSE op_insert_before(pr, copyop, o)
    IN  [allocate_copy_trim(st, st.pr.op[o].ins[slot]) EXCEPT !.pr =
           place(op_set_input(@, o, LastVn(st) + 1, slot))]

\* the output is defined by a COPY of a new temporary the marker defines
trim_op_output(st, o) ==
    LET v == st.pr.op[o].out
        copyop == LastOp(st) + 1
        u == LastVn(st) + 1
    IN  [NewCopy(st, v) EXCEPT !.pr =
           op_insert_after([@ EXCEPT !.op[o].out = u, !.vn[u].def = o, !.op[copyop].out = v,
                                     !.op[copyop].ins = <<u>>, !.vn[v].def = copyop],
                           copyop, o)]

OutHigh(st, o) == st.hi[st.pr.op[o].out]
InHigh(st, o, i) == st.hi[st.pr.op[o].ins[i]]
Slots(pr, o) == IF Code(pr, o) = "INDIRECT" THEN <<1>> ELSE [i \in DOMAIN pr.op[o].ins |-> i]

\* trim the inputs that may not be merged whatever their range
TrimRestricted(st, o) ==
    FoldOver(LAMBDA t, i :
               IF \A h \in {OutHigh(st, o)} \cup {InHigh(t, o, j) : j \in 1..(i - 1)} :
                     merge_test_required(t, h, InHigh(t, o, i))
               THEN t ELSE trim_op_input(t, o, i),
             st, Slots(st.pr, o))

\* merge_test over the output and all inputs: no two of them intersect
NoneIntersect(st, all) == \A i, j \in DOMAIN all : i < j => ~intersection(st, all[i], all[j])
AllMergeable(st, o, out) ==
    NoneIntersect(st, <<out>> \o [i \in DOMAIN Slots(st.pr, o) |-> InHigh(st, o, i)])

TrimInputs(st, o, out) ==
    FoldOver(LAMBDA t, i : IF AllMergeable(t, o, out) THEN t ELSE trim_op_input(t, o, i),
             st, Slots(st.pr, o))
MutTrimUntilMergeable(st, o, out) == TrimInputs(st, o, out)
\* trim the inputs one by one until the rest fits, then the output
TrimUntilMergeable(st, o, out) ==
    With(TrimInputs(st, o, out), LAMBDA t :
        IF AllMergeable(t, o, out) THEN t ELSE trim_op_output(t, o))

\* "Non-cover related merge restriction violated, despite trims",
\* "Unable to force merge of op"
merge_op(st, o) ==
    FoldOver(LAMBDA t, i :
               IF t.err # "" THEN t
               ELSE IF ~merge_test_required(t, OutHigh(t, o), InHigh(t, o, i))
               THEN [t EXCEPT !.err = "restriction"]
               ELSE Forced(merge(t, OutHigh(t, o), InHigh(t, o, i)), "op"),
             TrimUntilMergeable(TrimRestricted(st, o), o, OutHigh(st, o)), Slots(st.pr, o))

\* the reads of variable h by o and by the INDIRECTs just before it
collect_inputs(st, h, o) ==
    LET b == BlockOf(st.pr, o)
        n == Order(st.pr, o)
        near == {i \in 1..n : \A j \in i..(n - 1) : Code(st.pr, st.pr.blk[b][j]) = "INDIRECT"}
    IN  {p \in {st.pr.blk[b][i] : i \in near} : \E k \in DOMAIN st.pr.op[p].ins : InHigh(st, p, k) = h}

\* one COPY of the variable, before them, takes its place
SnipInputs(st, h, correctable, first) ==
    IF correctable = {} THEN st
    ELSE [allocate_copy_trim(st, CHOOSE v \in ToSet(st.pr.op[first].ins) : st.hi[v] = h) EXCEPT !.pr =
            [op_insert_before(@, LastOp(st) + 1, first) EXCEPT !.op = Valued([p \in DOMAIN @ |->
                IF p \notin correctable THEN @[p]
                ELSE [@[p] EXCEPT !.ins = [k \in DOMAIN @ |->
                         IF st.hi[@[k]] = h THEN LastVn(st) + 1 ELSE @[k]]]])]]
snip_output_interference(st, indop) ==
    LET o == st.pr.op[indop].aff
    IN  With(collect_inputs(st, OutHigh(st, indop), o), LAMBDA correctable :
            SnipInputs(st, OutHigh(st, indop), correctable,
                       IF o \in correctable THEN o ELSE CHOOSE p \in correctable : TRUE))

TryMerge(st, out, in) ==
    IF merge_test_required(st, out, in) THEN merge(st, in, out) ELSE [ok |-> FALSE, st |-> st]

\* a COPY of the input right before the operation
\* ("Unable to merge address forced indirect")
CopyInput(st, indop, invn0) ==
    With([allocate_copy_trim(st, invn0) EXCEPT !.pr =
            op_insert_before(op_set_input(@, indop, LastVn(st) + 1, 1), LastOp(st) + 1, indop)],
         LAMBDA t : Forced(TryMerge(t, OutHigh(t, indop), InHigh(t, indop, 1)), "indirect"))

ForcedIndirect(st, indop, outvn, invn0) ==
    With(TryMerge(st, st.hi[outvn], st.hi[invn0]), LAMBDA direct :
        IF direct.ok THEN direct.st
        ELSE With(snip_output_interference(st, indop), LAMBDA snipped :
               With(IF snipped = st THEN direct ELSE TryMerge(snipped, snipped.hi[outvn], snipped.hi[invn0]),
                    LAMBDA again : IF again.ok THEN again.st ELSE CopyInput(snipped, indop, invn0))))

\* merge_indirect for an INDIRECT whose output is forced to its address
merge_marker(st, o) ==
    IF Code(st.pr, o) = "INDIRECT" /\ st.pr.vn[st.pr.op[o].out].force
    THEN ForcedIndirect(st, o, st.pr.op[o].out, st.pr.op[o].ins[1])
    ELSE merge_op(st, o)

-----------------------------------------------------------------------------
\* Explicit and implied varnodes

\* what must have a statement of its own; the rest is counted by its reads
base_explicit(st, v) ==
    LET pr == st.pr
        def == pr.vn[v].def
    IN  \/ def = 0
        \/ IsMarker(pr, def) \/ IsCall(pr, def)
        \/ Cardinality(Instances(st, st.hi[v])) > 1
        \/ pr.vn[v].tied
        \/ pr.vn[v].sym # 0
        \/ Readers(pr, v) = {}
        \/ \E o \in Readers(pr, v) : IsMarker(pr, o)

\* would v's variable collide with another one if v lived as long as h?
MutInflateTest(st, v, h) == FALSE
inflate_test(st, v, h) ==
    \E w \in Instances(st, st.hi[v]) :
        /\ ~vn_copy_shadow(st.pr, w, v)
        /\ CoverIntersect(st.pr, rebuild(st.pr, w), HighCover(st, h)) = 2

\* a value read from memory, or returned by a call, stays where it is if memory
\* may change before it is used
check_implied_cover(st, v) ==
    LET pr == st.pr
        def == pr.vn[v].def
        crosses(codes) == \E o \in DOMAIN pr.op : /\ Code(pr, o) \in codes
                                                  /\ CoverContain(pr, rebuild(pr, v), o, 2)
    IN  /\ Code(pr, def) = "LOAD" => ~crosses({"STORE"})
        /\ Code(pr, def) \in {"LOAD", "CALL"} => ~crosses({"CALL"})
        /\ \A i \in DOMAIN pr.op[def].ins : ~inflate_test(st, pr.op[def].ins[i], st.hi[v])

-----------------------------------------------------------------------------
\* COPYs of one varnode into a variable

\* find_all_into_copies: by the varnode they copy, then by position
IntoCopies(st, h, temps) ==
    {o \in DOMAIN st.pr.op : /\ Code(st.pr, o) = "COPY"
                             /\ OutHigh(st, o) = h /\ InHigh(st, o, 1) # h
                             /\ temps => st.pr.vn[st.pr.op[o].out].loc = 0}
InOrder(place) ==
    [i \in 1..Cardinality(DOMAIN place) |->
        CHOOSE x \in DOMAIN place : Cardinality({y \in DOMAIN place : place[y] < place[x]}) = i - 1]
InPosition(pr, ops) == InOrder([o \in ops |-> UMax * BlockOf(pr, o) + Order(pr, o)])
CopiesOf(st, ops, v) == {o \in ops : st.pr.op[o].ins[1] = v}
CopiedSeveralTimes(st, ops) ==
    {v \in {st.pr.op[o].ins[1] : o \in ops} : Cardinality(CopiesOf(st, ops, v)) > 1}

RECURSIVE ReachAvoiding(_, _, _)
ReachAvoiding(pred, found, avoid) ==
    LET more == {b \in DOMAIN pred : b # avoid /\ ToSet(pred[b]) \cap found # {}} \ found
    IN  IF more = {} THEN found ELSE ReachAvoiding(pred, found \cup more, avoid)
Dominates(pr, a, b) == a = b \/ a = 1 \/ b \notin ReachAvoiding(pr.pred, {1}, a)
\* block_find_common_block_set
CommonDominator(pr, blocks) ==
    LET common == {a \in DOMAIN pr.blk : \A b \in blocks : Dominates(pr, a, b)}
    IN  CHOOSE a \in common : \A c \in common : Dominates(pr, c, a)

\* Replace the COPYs by one in a block that dominates them, as far as no other
\* instance of the variable is live between it and their reads.
Fits(st, h, root, domvn, op) ==
    LET pr == st.pr
        out == pr.op[op].out
        others == {v \in Instances(st, h) :
                     ~(/\ pr.vn[v].def > 0 /\ Code(pr, pr.vn[v].def) = "COPY"
                       /\ vn_copy_shadow(pr, pr.op[pr.vn[v].def].ins[1], root))}
        bcover == FoldOver(LAMBDA c, v : CoverMerge(pr, c, rebuild(pr, v)), EmptyCover, Ascending(others))
        acover == FoldOver(LAMBDA c, o : add_ref_point(pr, c, o, out), add_def_point(pr, domvn),
                           Ascending(Readers(pr, out)))
    IN  CoverIntersect(pr, bcover, acover) <= 1

total_replace(pr, v, w) == ReadInstead(pr, DOMAIN pr.op, v, w)

\* st already has the dominating COPY domcopy; isnew if it was put there
JoinCopies(st, h, copies, domcopy, isnew) ==
    With({o \in copies : o = domcopy \/ Fits(st, h, st.pr.op[domcopy].ins[1], st.pr.op[domcopy].out, o)},
         LAMBDA fits :
            IF Cardinality(fits) <= 1
            THEN IF isnew THEN [st EXCEPT !.pr = op_destroy(@, domcopy)] ELSE st
            ELSE [st EXCEPT
                    !.pr = FoldOver(LAMBDA p, o : op_destroy(total_replace(p, p.op[o].out, p.op[domcopy].out), o),
                                    @, Ascending(fits \ {domcopy})),
                    !.hi = [@ EXCEPT ![st.pr.op[domcopy].out] = h]])
build_dominant_copy(st, h, copies) ==
    With(InPosition(st.pr, copies)[1], LAMBDA first :
      With(CommonDominator(st.pr, {BlockOf(st.pr, o) : o \in copies}), LAMBDA dombl :
        IF dombl = BlockOf(st.pr, first) THEN JoinCopies(st, h, copies, first, FALSE)
        ELSE JoinCopies([NewCopy(st, st.pr.op[first].ins[1]) EXCEPT
                           !.pr = op_insert_end(@, LastOp(st) + 1, dombl)],
                        h, copies, LastOp(st) + 1, TRUE)))

process_high_dominant_copy(st, h) ==
    With(IntoCopies(st, h, TRUE), LAMBDA copies :
        FoldOver(LAMBDA t, v : build_dominant_copy(t, h, CopiesOf(st, copies, v)), st,
                 Ascending(CopiedSeveralTimes(st, copies))))

process_copy_trims(st) ==
    LET trims == ToSet(st.copy_trims)
        into(h) == {o \in trims : OutHigh(st, o) = h}
    IN  FoldOver(LAMBDA t, h : process_high_dominant_copy(t, h), [st EXCEPT !.copy_trims = <<>>],
                 Ascending({h \in Highs(st) : Cardinality(into(h)) > 1}))

\* The later of two COPYs of one varnode repeats the earlier, unless the
\* variable is assigned something else in between.
check_copy_pair(st, h, dom, sub) ==
    LET pr == st.pr
        values == {pr.vn[v].def : v \in Instances(st, h)} \ {0}
        same(def) == Code(pr, def) = "COPY" /\ pr.op[def].ins[1] = pr.op[dom].ins[1]
    IN  /\ Dominates(pr, BlockOf(pr, dom), BlockOf(pr, sub))
        /\ With(add_ref_point(pr, add_def_point(pr, pr.op[dom].out), sub, pr.op[sub].ins[1]),
                LAMBDA range : \A def \in values : same(def) \/ ~CoverContain(pr, range, def, 1))

\* mark_redundant_copies
Redundant(st, h, copies) ==
    With(InPosition(st.pr, copies), LAMBDA order :
        {order[j] : j \in {k \in DOMAIN order : \E i \in 1..(k - 1) :
                              check_copy_pair(st, h, order[i], order[k])}})

shadowed_varnode(st, v) ==
    \E w \in Instances(st, st.hi[v]) \ {v} :
        CoverIntersect(st.pr, rebuild(st.pr, v), rebuild(st.pr, w)) = 2

\* the COPYs mark_internal_copies hides
InternalCopies(st) ==
    LET pr == st.pr
        copies == {o \in DOMAIN pr.op : Code(pr, o) = "COPY"}
        internal == {o \in copies : OutHigh(st, o) = InHigh(st, o, 1)}
        unread == {o \in copies \ internal : /\ Readers(pr, pr.op[o].out) = {}
                                             /\ shadowed_varnode(st, pr.op[o].out)}
        redundantin(h, into) == UNION {Redundant(st, h, CopiesOf(st, into, v)) :
                                         v \in CopiedSeveralTimes(st, into)}
        redundant == UNION {redundantin(h, IntoCopies(st, h, FALSE)) : h \in Highs(st)}
    IN  internal \cup unread \cup redundant

\* two COPYs of one value into a variable: the later copies from the earlier
hide_shadows(st, h) ==
    LET single == Ascending({st.pr.op[o].out : o \in IntoCopies(st, h, FALSE)})
        n == Len(single)
        pairs == FlattenSeq([i \in 1..n |-> [j \in 1..(n - i) |-> <<i, i + j>>]])
        visit(a, p) ==
            LET v1 == single[p[1]]
                v2 == single[p[2]]
                pr == a.pr
            IN  IF {v1, v2} \cap a.gone # {} \/ p[1] \in a.skip \/ ~vn_copy_shadow(pr, v1, v2) THEN a
                ELSE IF contain_varnode_def(pr, rebuild(pr, v2), v1) = 1
                THEN [a EXCEPT !.pr = op_set_input(@, pr.vn[v1].def, v2, 1), !.skip = @ \cup {p[1]}]
                ELSE IF contain_varnode_def(pr, rebuild(pr, v1), v2) = 1
                THEN [a EXCEPT !.pr = op_set_input(@, pr.vn[v2].def, v1, 1), !.gone = @ \cup {v2}]
                ELSE a
    IN  [st EXCEPT !.pr = FoldOver(visit, [pr |-> @, gone |-> {}, skip |-> {}], pairs).pr]

-----------------------------------------------------------------------------
\* The passes

\* a varnode comes after the outputs of its readers, none that is explicit
RECURSIVE ReadersFirst(_, _, _)
ReadersFirst(pr, list, v) ==
    IF v \in ToSet(list) \/ pr.vn[v].explicit THEN list
    ELSE LET outs == {pr.op[o].out : o \in Readers(pr, v)} \ {0}
         IN  Append(FoldOver(LAMBDA l, w : ReadersFirst(pr, l, w), list, Ascending(outs)), v)

Enter(st, p) ==
    /\ s' = st
    /\ phase' = Passes[p]
    /\ todo' = CASE Passes[p] = "tied" ->
                      Ascending({st.pr.vn[v].loc : v \in Live(st.pr)} \ {0})
                 [] Passes[p] = "marker" -> SelectSeq(st.pr.alive, LAMBDA o : IsMarker(st.pr, o))
                 [] Passes[p] = "adjacent" ->
                      SelectSeq(st.pr.alive, LAMBDA o : ~IsCall(st.pr, o) /\ st.pr.op[o].out # 0)
                 [] Passes[p] = "implied" ->
                      FoldOver(LAMBDA l, v : ReadersFirst(st.pr, l, v), <<>>, Ascending(Live(st.pr)))
                 [] Passes[p] = "multientry" ->
                      Ascending({st.pr.vn[v].sym : v \in Live(st.pr)} \ {0})
                 [] Passes[p] = "copy" ->
                      SelectSeq(FlattenSeq(st.pr.blk), LAMBDA o : Code(st.pr, o) = "COPY")
                 [] Passes[p] = "shadow" -> Ascending(Highs(st))
                 [] OTHER -> <<>>
PassIndex == CHOOSE p \in DOMAIN Passes : Passes[p] = phase
\* the pass has visited everything (an error ends the whole function)
NextPass ==
    /\ todo = <<>> /\ s.err = ""
    /\ phase \notin {"explicit", "dominant", "type", "mark", "done"}
    /\ Enter(s, PassIndex + 1)

Visit(st) == s' = st /\ todo' = Tail(todo) /\ UNCHANGED phase
Visiting(p) == phase = p /\ todo # <<>> /\ s.err = ""

MergeAddrTied == Visiting("tied") /\ Visit(TiedAddress(s, Head(todo)))

MergeMarker == Visiting("marker") /\ Visit(merge_marker(s, Head(todo)))

\* Among the varnodes read several times, any set is made explicit: that
\* depends on how often the terms below them would be printed.
ActionMarkExplicit ==
    /\ phase = "explicit"
    /\ LET based == {v \in Live(s.pr) : base_explicit(s, v)}
       IN  \E purge \in SUBSET {v \in Live(s.pr) \ based : Cardinality(Readers(s.pr, v)) > 1} :
             Enter([s EXCEPT !.pr.vn = [v \in DOMAIN @ |->
                       [@[v] EXCEPT !.explicit = v \in based \cup purge]]], PassIndex + 1)

ActionMarkImplied ==
    /\ Visiting("implied")
    /\ Visit(IF check_implied_cover(s, Head(todo))
             THEN [s EXCEPT !.pr.vn[Head(todo)].implied = TRUE]
             ELSE [s EXCEPT !.pr.vn[Head(todo)].explicit = TRUE])

\* the instances of one symbol; what cannot be merged is left apart
MergeMultiEntry ==
    /\ Visiting("multientry")
    /\ LET list == Ascending({v \in Live(s.pr) : s.pr.vn[v].sym = Head(todo)})
       IN  Visit(FoldOver(LAMBDA t, v :
                            IF merge_test_required(t, t.hi[list[1]], t.hi[v])
                            THEN merge(t, t.hi[list[1]], t.hi[v]).st ELSE t,
                          s, list))

MergeOpcode ==
    /\ Visiting("copy")
    /\ LET o == Head(todo)
       IN  Visit(IF /\ merge_test_basic(s.pr, s.pr.op[o].out)
                    /\ merge_test_basic(s.pr, s.pr.op[o].ins[1])
                    /\ merge_test_required(s, OutHigh(s, o), InHigh(s, o, 1))
                 THEN merge(s, OutHigh(s, o), InHigh(s, o, 1)).st ELSE s)

ActionDominantCopy == phase = "dominant" /\ Enter(process_copy_trims(s), PassIndex + 1)

MergeAdjacent ==
    /\ Visiting("adjacent")
    /\ LET o == Head(todo)
       IN  Visit(IF ~merge_test_basic(s.pr, s.pr.op[o].out) THEN s
                 ELSE FoldOver(LAMBDA t, v :
                                 IF /\ merge_test_basic(t.pr, v)
                                    /\ merge_test_adjacent(t, OutHigh(t, o), t.hi[v])
                                 THEN merge(t, OutHigh(t, o), t.hi[v]).st ELSE t,
                               s, s.pr.op[o].ins))

\* merge_linear, over the variables in the order of their first block, then of
\* their address: each joins the first of those kept apart that it may
FirstBlock(cov) == CHOOSE b \in DOMAIN cov : \A c \in DOMAIN cov : b <= c
Printed(st) == {h \in Highs(st) : \E v \in Instances(st, h) : merge_test_basic(st.pr, v)}
ByFirstBlock(st) ==
    InOrder([h \in Printed(st) |-> UMax * FirstBlock(HighCover(st, h)) + Ascending(Instances(st, h))[1]])
JoinFirst(a, h) ==
    With({i \in DOMAIN a.stack : /\ merge_test_speculative(a.st, a.stack[i], h)
                                 /\ merge(a.st, a.stack[i], h).ok}, LAMBDA fit :
        IF fit = {} THEN [a EXCEPT !.stack = Append(@, h)]
        ELSE [a EXCEPT !.st = HighMerge(@, a.stack[CHOOSE i \in fit : \A j \in fit : i <= j], h)])
MergeByDatatype ==
    /\ phase = "type"
    /\ Enter(FoldOver(JoinFirst, [st |-> s, stack |-> <<>>], ByFirstBlock(s)).st, PassIndex + 1)

ActionHideShadow == Visiting("shadow") /\ Visit(hide_shadows(s, Head(todo)))

ActionCopyMarker ==
    /\ phase = "mark"
    /\ \E hidden \in {InternalCopies(s)} :
           Enter([s EXCEPT !.pr.op = [o \in DOMAIN @ |->
                     [@[o] EXCEPT !.prints = @ /\ o \notin hidden]]], PassIndex + 1)

Next == \/ NextPass
        \/ MergeAddrTied \/ MergeMarker
        \/ ActionMarkExplicit \/ ActionMarkImplied \/ MergeMultiEntry
        \/ MergeOpcode \/ ActionDominantCopy \/ MergeAdjacent
        \/ MergeByDatatype \/ ActionHideShadow \/ ActionCopyMarker

InitFrom(pr) ==
    /\ s = [pr |-> pr, hi |-> [v \in DOMAIN pr.vn |-> v], copy_trims |-> <<>>, err |-> ""]
    /\ phase = "tied"
    /\ todo = Ascending({pr.vn[v].loc : v \in DOMAIN pr.vn} \ {0})

-----------------------------------------------------------------------------
\* Running the program along a path of blocks, in SSA form and with one cell
\* per variable.

\* the paths from the entry that visit no block more than Loops times
RECURSIVE PathsFrom(_, _)
PathsFrom(pr, path) ==
    LET on == {c \in DOMAIN pr.blk : /\ path[Len(path)] \in ToSet(pr.pred[c])
                                     /\ Cardinality({i \in DOMAIN path : path[i] = c}) < Loops}
    IN  IF on = {} THEN {path} ELSE UNION {PathsFrom(pr, Append(path, b)) : b \in on}

Wrong == -1000
\* what printing v would show: a variable, or an expression over variables
RECURSIVE Shown(_, _, _)
Shown(pr, m, v) ==
    IF ~pr.vn[v].implied THEN m.cell[m.hi[v]]
    ELSE LET def == pr.op[pr.vn[v].def]
         IN  IF /\ \A i \in DOMAIN def.ins : Shown(pr, m, def.ins[i]) = m.used[v][i]
                /\ def.code = "LOAD" => m.loaded[v] = m.memory
             THEN m.env[v] ELSE Wrong

\* One operation.  An operation's result is a new value; a call leaves what is
\* stored where an INDIRECT of it points either as it is or at a new value.
Execute(pr, m, o, changes) ==
    LET op == pr.op[o]
        out == op.out
        inputs == Valued([i \in DOMAIN op.ins |-> m.env[op.ins[i]]])
        read == (out # 0 => ~pr.vn[out].implied) /\ op.prints
        right == read => \A i \in DOMAIN op.ins : Shown(pr, m, op.ins[i]) = m.env[op.ins[i]]
        value == IF op.code = "COPY" THEN inputs[1] ELSE m.clock
        ticked == [m EXCEPT !.ok = @ /\ right, !.clock = @ + 1]
        written == IF out = 0 THEN ticked
                   ELSE [ticked EXCEPT !.env[out] = value,
                                       !.used[out] = inputs, !.loaded[out] = m.memory,
                                       !.cell[m.hi[out]] = IF read THEN value ELSE @]
        affected == {i \in DOMAIN pr.op : pr.op[i].code = "INDIRECT" /\ pr.op[i].aff = o}
        touch(a, i) == IF changes
                       THEN [a EXCEPT !.env[pr.op[i].out] = m.clock + i,
                                      !.cell[m.hi[pr.op[i].out]] = m.clock + i]
                       ELSE [a EXCEPT !.env[pr.op[i].out] = m.env[pr.op[i].ins[1]]]
    IN  IF op.code \in {"MULTIEQUAL", "INDIRECT"} THEN m
        ELSE LET done == FoldOver(touch, written, Ascending(affected))
             IN  [done EXCEPT !.clock = @ + 20,
                              !.memory = IF op.code \in {"CALL", "STORE"} THEN m.clock ELSE @]

\* Entering a block along one of its edges: its MULTIEQUALs take their values
\* all at once, and nothing is assigned.
EnterBlock(pr, m, b, from) ==
    LET phis == SelectSeq(pr.blk[b], LAMBDA o : Code(pr, o) = "MULTIEQUAL")
        slot == CHOOSE i \in DOMAIN pr.pred[b] : pr.pred[b][i] = from
    IN  [m EXCEPT !.env = FoldOver(LAMBDA e, o : [e EXCEPT ![pr.op[o].out] = m.env[pr.op[o].ins[slot]]],
                                   @, phis)]

RunPath(st, path, changes) ==
    LET pr == st.pr
        inputs(h) == {v \in Instances(st, h) : pr.vn[v].def = 0}
        start == [env |-> Valued([v \in DOMAIN pr.vn |-> -v]), hi |-> st.hi,
                  cell |-> Valued([h \in DOMAIN pr.vn |->
                              IF inputs(h) = {} THEN Wrong ELSE -(CHOOSE v \in inputs(h) : TRUE)]),
                  used |-> Valued([v \in DOMAIN pr.vn |-> <<>>]),
                  loaded |-> Valued([v \in DOMAIN pr.vn |-> 0]),
                  memory |-> 0, clock |-> 1, ok |-> TRUE]
        block(m, i) ==
            FoldOver(LAMBDA a, o : Execute(pr, a, o, changes),
                     IF i = 1 THEN m ELSE EnterBlock(pr, m, path[i], path[i - 1]),
                     pr.blk[path[i]])
    IN  FoldOver(block, start, [i \in DOMAIN path |-> i])

-----------------------------------------------------------------------------
\* Properties

\* Out of SSA form the program still computes what it did: from the end of the
\* forced merges on (merge_addr_tied and merge_marker, merge.rs:1380-1446),
\* whenever a pass has visited everything, whatever path is taken and whatever
\* the calls change, every operation that is printed reads from the variables,
\* or from the expressions folded into it, the value its varnode has in SSA
\* form.
ReadsSeeTheirValues ==
    phase \notin {"tied", "marker"} /\ todo = <<>> /\ s.err = "" =>
        \A path \in PathsFrom(s.pr, <<1>>), changes \in BOOLEAN : RunPath(s, path, changes).ok

\* The COPYs that are inserted always make the forced merges possible: none of
\* the errors "Forced merge caused intersection", "Unable to force merge of
\* op", "Non-cover related merge restriction violated, despite trims" and
\* "Unable to merge address forced indirect" is raised (merge.rs:801-932).
ForcedMergesSucceed == s.err = ""

\* Merging never joins two varnodes at different fixed addresses, nor an input
\* with a variable that lives at an address the input is not at
\* (merge_test_required, merge.rs:191).
VariablesHaveOneHome ==
    \A h \in Highs(s) :
        /\ \A v, w \in Instances(s, h) : s.pr.vn[v].tied /\ s.pr.vn[w].tied => s.pr.vn[v].loc = s.pr.vn[w].loc
        /\ Cardinality(Symbols(s, h)) <= 1
        /\ IsInput(s, h) /\ AddrTied(s, h) =>
             \E v \in Instances(s, h) : s.pr.vn[v].def = 0 /\ s.pr.vn[v].tied
=============================================================================
