------------------------------ MODULE Heritage ------------------------------
(***************************************************************************)
(* The function that heritage works on: p-code operations in the blocks of *)
(* a control-flow graph, reading and writing ranges of a byte-addressed    *)
(* space.  f is the function, a record of                                  *)
(*   vn   the varnodes: [off, size, space, kind, mask, active, force]      *)
(*   ops  the operations: [code, in, out, x]; x is the truncation of a     *)
(*        SUBPIECE or the operation an INDIRECT belongs to                 *)
(*   blk  for each block the operations in order                           *)
(* The first operations are those of the program, described by src, and    *)
(* the others are made by heritage.  Varnode 0 is no varnode or, in an     *)
(* INDIRECT, the constant of an INDIRECT creation.                         *)
(***************************************************************************)
EXTENDS FlowStructure, FiniteSetsExt

NoVn == 0
With(x, F(_)) == F(x)

Vn(off, size, space) ==
    [off |-> off, size |-> size, space |-> space, kind |-> "free", mask |-> FALSE, active |-> FALSE, force |-> FALSE]
Op(code, in, x) == [code |-> code, in |-> in, out |-> NoVn, x |-> x]

Varnodes(f) == DOMAIN f.vn
Lives(f, o) == \E b \in DOMAIN f.blk : o \in Range(f.blk[b])
Alive(f) == UNION {Range(f.blk[b]) : b \in DOMAIN f.blk}
Readers(f, v) == {o \in Alive(f) : v \in Range(f.ops[o].in)}
Def(f, v) == CHOOSE o \in Alive(f) : f.ops[o].out = v
LastVn(f) == Len(f.vn)
LastOp(f) == Len(f.ops)

new_varnode(f, off, size) == [f EXCEPT !.vn = Append(@, Vn(off, size, "mem"))]
new_unique(f, size) == [f EXCEPT !.vn = Append(@, Vn(0, size, "unique"))]
set_active(f, v) == [f EXCEPT !.vn[v].active = TRUE]
new_op(f, code, in, x) == [f EXCEPT !.ops = Append(@, Op(code, in, x))]
op_set_output(f, o, v) == [f EXCEPT !.ops[o].out = v, !.vn[v].kind = "written"]
OutputLast(f, o) == op_set_output(f, o, LastVn(f))
new_varnode_out(f, off, size, o) == OutputLast(new_varnode(f, off, size), o)
ActiveLast(f) == set_active(f, LastVn(f))
\* the newest operation gets a new output
OutLast(f, off, size) == new_varnode_out(f, off, size, LastOp(f))
op_set_input(f, o, v, slot) == [f EXCEPT !.ops[o].in[slot] = v]

BlockOf(f, o) == CHOOSE b \in DOMAIN f.blk : o \in Range(f.blk[b])
PlaceOf(s, o) == CHOOSE i \in DOMAIN s : s[i] = o
PutAt(f, b, i, o) == [f EXCEPT !.blk[b] = InsertAt(@, i, o)]

\* the first place from i on in s that does not hold one of these codes, and
\* the last place up to i that is not preceded by one of them
SkipForward(f, s, i, code) ==
    Min({j \in i..(Len(s) + 1) : j = Len(s) + 1 \/ f.ops[s[j]].code # code})
SkipBack(f, s, i, code) ==
    Max({j \in 1..i : j = 1 \/ f.ops[s[j - 1]].code # code})

\* an operation other than an INDIRECT goes before the INDIRECTs of the one it precedes
InsertBeforePlace(f, o, b, i) ==
    PutAt(f, b, IF f.ops[o].code = "INDIRECT" THEN i ELSE SkipBack(f, f.blk[b], i, "INDIRECT"), o)
InsertIn(f, o, b, at) == InsertBeforePlace(f, o, b, PlaceOf(f.blk[b], at))
op_insert_before(f, o, at) == InsertIn(f, o, BlockOf(f, at), at)
LastBefore(f, at) == op_insert_before(f, LastOp(f), at)

PutAfter(f, o, b, at) == PutAt(f, b, SkipForward(f, f.blk[b], PlaceOf(f.blk[b], at) + 1, "MULTIEQUAL"), o)
op_insert_after(f, o, at) ==
    With(IF f.ops[at].code = "INDIRECT" /\ Lives(f, f.ops[at].x) THEN f.ops[at].x ELSE at,
         LAMBDA prev : PutAfter(f, o, BlockOf(f, prev), prev))
LastAfter(f, at) == op_insert_after(f, LastOp(f), at)

op_uninsert(f, o) == [f EXCEPT !.blk[BlockOf(f, o)] = SelectSeq(@, LAMBDA x : x # o)]
op_unlink(f, o) ==
    [op_uninsert(f, o) EXCEPT !.vn[f.ops[o].out].kind = "free", !.ops[o].in = <<>>, !.ops[o].out = NoVn]

\* an operation that reads the newest varnode
OfLast(f, code, x) == new_op(f, code, <<LastVn(f)>>, x)
new_indirect_op(f, effect, off, size) ==
    LastBefore(OutLast(OfLast(new_varnode(f, off, size), "INDIRECT", effect), off, size), effect)
new_indirect_creation(f, effect, off, size) ==
    LastBefore(OutLast(new_op(f, "INDIRECT", <<NoVn>>, effect), off, size), effect)

delete_varnode(f, v) == [f EXCEPT !.vn[v].kind = "gone"]
DropIfUnread(f, v) == IF Readers(f, v) = {} THEN delete_varnode(f, v) ELSE f
total_replace(f, old, new) ==
    LET Replaced(op) == [op EXCEPT !.in = [s \in DOMAIN @ |-> IF @[s] = old THEN new ELSE @[s]]]
    IN  [f EXCEPT !.ops = FoldLeft(LAMBDA acc, op : Append(acc, Replaced(op)), <<>>, @)]

\* set_input_varnode on the newest varnode; an input with the same storage is
\* used instead, one that overlaps it otherwise is an error
InputAt(f, off, size) ==
    {v \in Varnodes(f) : f.vn[v].kind = "input" /\ f.vn[v].off < off + size /\ off < f.vn[v].off + f.vn[v].size}
SetInput(f, met, new) ==
    LET same == {v \in met : f.vn[v].off = new.off /\ f.vn[v].size = new.size}
    IN  IF same # {} THEN [f |-> f, v |-> CHOOSE v \in same : TRUE]
        ELSE [f |-> [f EXCEPT !.vn[LastVn(f)].kind = "input", !.err = @ \/ met # {}], v |-> LastVn(f)]
set_input_varnode(f) ==
    With(f.vn[LastVn(f)], LAMBDA new : SetInput(f, InputAt(f, new.off, new.size), new))
NewInput(f, off, size) == set_input_varnode(new_varnode(f, off, size))

-----------------------------------------------------------------------------
\* What the program does.  A byte is known by what put it there: <<o, n, a>>
\* is what the n-th execution of o puts at address a.  A value is a sequence of
\* bytes, the least significant first.

Addresses == 0..7
AddressOf(f, off, size, i) == IF f.big THEN off + size - i ELSE off + i - 1
ValueAt(f, mem, off, size) == [i \in 1..size |-> mem[AddressOf(f, off, size, i)]]
FreshValue(f, o, n, off, size) == [i \in 1..size |-> <<o, n, AddressOf(f, off, size, i)>>]

Unset == <<-1, 0, 0>>
Slice(value, from, size) ==
    [i \in 1..size |-> IF from + i \in DOMAIN value THEN value[from + i] ELSE Unset]

\* the addresses an operation of the program changes
Changes(f, o) ==
    LET s == f.src[o]
    IN  CASE s.code \in {"WRITE", "STORE"} -> s.off..(s.off + s.size - 1)
          [] s.code = "CALL" -> {a \in Addresses : s.eff[a] # "unaffected"} \cup s.off..(s.off + s.size - 1)
          [] OTHER -> {}
RECURSIVE Effective(_, _)
Effective(f, o) == IF o > Len(f.src) /\ f.ops[o].code = "INDIRECT" THEN Effective(f, f.ops[o].x) ELSE o

\* m is [mem, env, n, ok]: memory, the values of varnodes, how often each
\* operation of the program ran, and whether every read saw what memory held
Expect(m, value, f, off, size) == [m EXCEPT !.ok = @ /\ value = ValueAt(f, m.mem, off, size)]
Let(m, v, value) == [m EXCEPT !.env[v] = value]
Value(f, m, v) == IF f.vn[v].kind = "input" THEN [i \in 1..f.vn[v].size |-> <<0, 0, AddressOf(f, f.vn[v].off, f.vn[v].size, i)>>]
                  ELSE m.env[v]

RunSource(f, m, o) ==
    LET s == f.src[o]
        seen == FoldLeft(LAMBDA acc, e : Expect(acc, Value(f, acc, f.ops[o].in[e.slot]), f, e.off, e.size), m, f.reads[o])
        n == seen.n[o] + 1
        done == [seen EXCEPT !.n[o] = n, !.mem = [a \in Addresses |-> IF a \in Changes(f, o) THEN <<o, n, a>> ELSE @[a]]]
    IN  IF f.ops[o].out = NoVn THEN done ELSE Let(done, f.ops[o].out, FreshValue(f, o, n, s.off, s.size))

RunMade(f, m, o) ==
    LET p == f.ops[o]
        out == f.vn[p.out]
        In(i) == Value(f, m, p.in[i])
    IN  CASE p.code = "COPY" -> Expect(Let(m, p.out, In(1)), In(1), f, out.off, out.size)
          [] p.code = "PIECE" -> Let(m, p.out, In(2) \o In(1))
          [] p.code = "SUBPIECE" -> Let(m, p.out, Slice(In(1), p.x, out.size))
          [] p.code = "INDIRECT" ->
               LET by == Effective(f, p.x)
                   new == FreshValue(f, by, m.n[by] + 1, out.off, out.size)
               IN  Let(m, p.out, [i \in 1..out.size |->
                       IF p.in[1] = NoVn \/ AddressOf(f, out.off, out.size, i) \in Changes(f, by) THEN new[i] ELSE In(1)[i]])

\* run a block entered through its slot-th edge; the MULTIEQUALs at its start
\* read their inputs before any of them is written
RunBlock(f, m, b, slot) ==
    LET phis == SelectSeq(f.blk[b], LAMBDA o : f.ops[o].code = "MULTIEQUAL")
        entered == FoldLeft(LAMBDA acc, o : Let(acc, f.ops[o].out, Value(f, m, f.ops[o].in[slot])), m, phis)
    IN  FoldLeft(LAMBDA acc, o : CASE f.ops[o].code = "MULTIEQUAL" -> acc
                                   [] o <= Len(f.src) -> RunSource(f, acc, o)
                                   [] OTHER -> RunMade(f, acc, o),
                 entered, f.blk[b])

SlotOf(g, e) == CHOOSE i \in DOMAIN g.in[Target(g, e)] : g.in[Target(g, e)][i] = e

\* every path from block b of at most steps further blocks keeps m.ok
RECURSIVE PathsAgree(_, _, _, _, _)
PathsAgree(f, m, b, slot, steps) ==
    LET done == RunBlock(f, m, b, slot)
    IN  /\ done.ok
        /\ steps > 0 => \A i \in DOMAIN graph.out[b] :
               PathsAgree(f, done, graph.out[b][i], SlotOf(graph, <<b, i>>), steps - 1)

Start(f) ==
    [mem |-> [a \in Addresses |-> <<0, 0, a>>], env |-> [v \in Varnodes(f) |-> [i \in 1..f.vn[v].size |-> Unset]],
     n |-> [o \in DOMAIN f.src |-> 0], ok |-> TRUE]
-----------------------------------------------------------------------------
(***************************************************************************)
(* Heritage (heritage.rs): putting the ranges of an address space into     *)
(* static single assignment form, pass after pass, as simplification turns *)
(* more LOADs and STOREs into reads and writes of known ranges.  A pass    *)
(* gathers the ranges to process, then for each cuts it up or widens the   *)
(* accesses to it, guards it against calls, stores and returns and places  *)
(* MULTIEQUALs, and finally links every read to the write it sees.         *)
(*                                                                         *)
(* func is the function (see above) and prog the function as it was        *)
(* disassembled, cover the disjoint ranges of globaldisjoint with      *)
(* their first pass (a set here, see LocationMap) and info the record of   *)
(* the space; LOADs and STOREs whose address becomes known, removal of     *)
(* dead code and restarts happen between passes.                           *)
(***************************************************************************)

VARIABLES func, cover, pass, info, prog
vars == <<graph, loops, dom, func, cover, pass, info, prog>>

\* varnodes of the space in location order
LocBefore(f, v, w) ==
    \/ f.vn[v].off < f.vn[w].off
    \/ f.vn[v].off = f.vn[w].off /\ f.vn[v].size < f.vn[w].size
    \/ f.vn[v].off = f.vn[w].off /\ f.vn[v].size = f.vn[w].size /\ v < w
InOrder(f, set) ==
    [i \in 1..Cardinality(set) |-> CHOOSE v \in set : Cardinality({w \in set : LocBefore(f, w, v)}) = i - 1]
InSpace(f) == {v \in Varnodes(f) : f.vn[v].space = "mem" /\ f.vn[v].kind # "gone"}

HeritageKnown(f, v) == f.vn[v].kind \in {"written", "input"}

\* Address::justified_contain and Varnode::overlap_addr: how far a range is from
\* the least significant end of the one that holds it
justified_contain(f, off, size, in, insize) == IF f.big THEN off + size - (in + insize) ELSE in - off
overlap_addr(f, v, off, size) == justified_contain(f, off, size, f.vn[v].off, f.vn[v].size)

-----------------------------------------------------------------------------
\* gathering the ranges

\* LocationMap::add: the ranges met become one, of the first of their passes;
\* prev is 0 for a range new in this pass, 2 for one inside an old range
Added(c, met, whole, now) ==
    [cover |-> (c \ met) \cup {whole}, range |-> whole,
     prev |-> IF whole.pass = now THEN 0 ELSE IF whole \in met THEN 2 ELSE 1]
AddRange(c, off, size, now) ==
    With({r \in c : r.lo < off + size /\ off < r.hi}, LAMBDA met :
        Added(c, met, [lo |-> Min({off} \cup {r.lo : r \in met}), hi |-> Max({off + size} \cup {r.hi : r \in met}),
                       pass |-> Min({now} \cup {r.pass : r \in met})], now))

\* TaskList::add: only the last range can be extended
AddTask(list, lo, hi, flags) ==
    IF list # <<>> /\ Last(list).lo <= lo /\ lo < Last(list).hi
    THEN [list EXCEPT ![Len(list)] = [lo |-> @.lo, hi |-> Max({@.hi, hi}), flags |-> @.flags \cup flags]]
    ELSE Append(list, [lo |-> lo, hi |-> hi, flags |-> flags])

\* bump_deadcode_delay asks for one restart, with dead code removed later
Bump(i) == IF i.override THEN i ELSE [i EXCEPT !.override = TRUE, !.restart = TRUE]
MutLateFor(st) == st
LateFor(st) == IF st.info.deadremoved THEN [st EXCEPT !.info = [Bump(@) EXCEPT !.warned = TRUE]] ELSE st

Task(st, range, flags) == [st EXCEPT !.tasks = AddTask(@, range.lo, range.hi, flags)]
NoteRange(f, v, st, added) ==
    CASE added.prev = 0 -> Task(st, added.range, {"new"})
      [] added.prev = 2 -> IF HeritageKnown(f, v) \/ Readers(f, v) = {} THEN st
                           ELSE Task(LateFor(st), added.range, {"old"})
      [] OTHER -> Task(IF HeritageKnown(f, v) THEN st ELSE LateFor(st), added.range, {"old", "new"})
Gather1(f, now, st, v) ==
    With(AddRange(st.cover, f.vn[v].off, f.vn[v].size, now),
         LAMBDA added : NoteRange(f, v, [st EXCEPT !.cover = added.cover], added))

\* the ranges to process, in st.tasks
Gather(st, now) ==
    LET f == st.f
        wanted == {v \in InSpace(f) : ~f.vn[v].mask /\ (HeritageKnown(f, v) \/ Readers(f, v) # {})}
    IN  FoldLeft(LAMBDA acc, v : Gather1(f, now, acc, v), st, InOrder(f, wanted))

-----------------------------------------------------------------------------
\* sorting the varnodes of a range: [read, write, input, remove, max, new]

IsMarker(f, v) == f.ops[Def(f, v)].code \in {"MULTIEQUAL", "INDIRECT", "COPY"}
collect(f, r) ==
    LET there == InOrder(f, {v \in InSpace(f) : f.vn[v].off \in r.lo..(r.hi - 1) /\ ~f.vn[v].mask})
        Written(v) == f.vn[v].kind = "written"
        Small(v) == Written(v) /\ IsMarker(f, v) /\ f.vn[v].size < r.hi - r.lo
    IN  [remove |-> SelectSeq(there, Small),
         write |-> SelectSeq(there, LAMBDA v : Written(v) /\ ~Small(v)),
         read |-> SelectSeq(there, LAMBDA v : f.vn[v].kind = "free" /\ Readers(f, v) # {}),
         input |-> SelectSeq(there, LAMBDA v : f.vn[v].kind = "input"),
         max |-> Max({0} \cup {f.vn[v].size : v \in {x \in Range(there) : Written(x) /\ ~Small(x)}}),
         new |-> "new" \in r.flags
                   /\ \A v \in Range(there) : ~(Written(v) /\ IsMarker(f, v) /\ ~Small(v))]

-----------------------------------------------------------------------------
\* joining and cutting pieces

\* pieces in address order become one value, final, before operation at or,
\* when that is 0, at the start of the function
JoinedAt(f, at, n) ==
    IF at = 0 THEN PutAt(f, 1, n, LastOp(f))
    ELSE With(BlockOf(f, at), LAMBDA b : PutAt(f, b, PlaceOf(f.blk[b], at), LastOp(f)))
concat_pieces(f, list, at, final) ==
    LET Piece(g, have, v) ==
            IF v = Last(list) THEN op_set_output(g, LastOp(g), final)
            ELSE OutputLast(new_unique(g, g.vn[have].size + g.vn[v].size), LastOp(g))
        Join(st, v) ==
            With(JoinedAt(Piece(new_op(st.f, "PIECE", IF f.big THEN <<st.have, v>> ELSE <<v, st.have>>, 0), st.have, v),
                          at, st.n),
                 LAMBDA g : [f |-> g, have |-> g.ops[LastOp(g)].out, n |-> st.n + 1])
    IN  FoldLeft(Join, [f |-> f, have |-> list[1], n |-> 1], Tail(list)).f

\* whole, of the given range, is cut into the pieces after operation at or, when
\* that is 0, at the start of the function
split_pieces(f, list, at, off, size, whole) ==
    LET Cut(acc, v, b, place) ==
            With(new_op(acc, "SUBPIECE", <<whole>>, overlap_addr(acc, v, off, size)),
                 LAMBDA g : PutAt(op_set_output(g, LastOp(g), v), b, place, LastOp(g)))
        All(b, place) == FoldLeft(LAMBDA acc, v : Cut(acc, v, b, place), f, Reverse(list))
    IN  IF at = 0 THEN All(1, 1) ELSE With(BlockOf(f, at), LAMBDA b : All(b, PlaceOf(f.blk[b], at) + 1))

-----------------------------------------------------------------------------
\* refinement: a large range that nothing writes as a whole is cut up

Cuts(f, r, list) ==
    UNION {{f.vn[list[i]].off - r.lo, f.vn[list[i]].off + f.vn[list[i]].size - r.lo} : i \in DOMAIN list}
Pieces(size, cuts) ==
    LET starts == {0} \cup (cuts \cap 1..(size - 1))
    IN  [c \in starts |-> Min({size} \cup {d \in starts : d > c}) - c]

\* remove13_refinement: a piece of 1 beside a piece of 3 is a piece of 4
RECURSIVE Merge13(_, _, _)
Merge13(ref, last, pos) ==
    IF pos \notin DOMAIN ref THEN ref
    ELSE IF {last, ref[pos]} = {1, 3} THEN Merge13([ref EXCEPT ![pos - last] = 4], 4, pos + ref[pos])
    ELSE Merge13(ref, ref[pos], pos + ref[pos])
remove13_refinement(ref) == Merge13(ref, ref[0], ref[0])

\* split_by_refinement: the sizes v is cut into, <<>> when it is not cut
RECURSIVE CutSizes(_, _, _, _)
CutSizes(ref, lo, off, left) ==
    IF left = 0 THEN <<>>
    ELSE LET cut == Min({left, ref[off - lo]}) IN <<cut>> \o CutSizes(ref, lo, off + cut, left - cut)
split_by_refinement(f, v, lo, ref) ==
    IF f.vn[v].size <= ref[f.vn[v].off - lo] THEN [f |-> f, list |-> <<>>]
    ELSE FoldLeft(LAMBDA st, size :
                      [f |-> new_varnode(st.f, st.off, size), off |-> st.off + size,
                       list |-> Append(st.list, LastVn(st.f) + 1)],
                  [f |-> f, off |-> f.vn[v].off, list |-> <<>>],
                  CutSizes(ref, lo, f.vn[v].off, f.vn[v].size))

ReplaceRead(f, v, op, list) ==
    delete_varnode(op_set_input(concat_pieces(f, list, op, LastVn(f)), op, LastVn(f), PlaceOf(f.ops[op].in, v)), v)
refine_read(f, v, lo, ref) ==
    With(split_by_refinement(f, v, lo, ref), LAMBDA cut :
        IF cut.list = <<>> THEN f
        ELSE ReplaceRead(new_unique(cut.f, f.vn[v].size), v, CHOOSE o \in Readers(f, v) : TRUE, cut.list))

ReplaceWrite(f, v, def, list) ==
    delete_varnode(total_replace(split_pieces(OutputLast(f, def), list, def, f.vn[v].off, f.vn[v].size, LastVn(f)),
                                 v, LastVn(f)), v)
refine_write(f, v, lo, ref) ==
    With(split_by_refinement(f, v, lo, ref), LAMBDA cut :
        IF cut.list = <<>> THEN f ELSE ReplaceWrite(new_unique(cut.f, f.vn[v].size), v, Def(f, v), cut.list))

refine_input(f, v, lo, ref) ==
    With(split_by_refinement(f, v, lo, ref), LAMBDA cut :
        IF cut.list = <<>> THEN f
        ELSE [split_pieces(cut.f, cut.list, 0, f.vn[v].off, f.vn[v].size, v) EXCEPT !.vn[v].mask = TRUE])

RECURSIVE CutTask(_, _, _)
CutTask(r, ref, at) ==
    IF at >= r.hi - r.lo THEN <<>>
    ELSE <<[lo |-> r.lo + at, hi |-> r.lo + at + ref[at], flags |-> r.flags]>> \o CutTask(r, ref, at + ref[at])

\* the function with its accesses to the range cut, and the ranges it becomes
RefineAll(f, c, lo, ref) ==
    FoldLeft(LAMBDA g, v : refine_input(g, v, lo, ref),
             FoldLeft(LAMBDA g, v : refine_write(g, v, lo, ref),
                      FoldLeft(LAMBDA g, v : refine_read(g, v, lo, ref), f, c.read), c.write), c.input)
Recut(st, i, cut, whole) ==
    [st EXCEPT !.tasks = SubSeq(@, 1, i - 1) \o cut \o SubSeq(@, i + 1, Len(@)),
               !.cover = (@ \ {whole}) \cup {[lo |-> p.lo, hi |-> p.hi, pass |-> whole.pass] : p \in Range(cut)}]
Refined(st, i, c, r, ref) ==
    Recut([st EXCEPT !.f = RefineAll(@, c, r.lo, ref)], i, CutTask(r, ref, 0), CHOOSE w \in st.cover : w.lo = r.lo)
refinement(st, i, c) ==
    LET r == st.tasks[i]
    IN  With(Pieces(r.hi - r.lo, Cuts(st.f, r, c.read) \cup Cuts(st.f, r, c.write) \cup Cuts(st.f, r, c.input)),
             LAMBDA raw : IF DOMAIN raw = {0} THEN st ELSE Refined(st, i, c, r, remove13_refinement(raw)))

-----------------------------------------------------------------------------
\* making every access to a range as large as the range

\* markers for a part of the range become parts of the whole, return copies go
PlaceOfRest(f, b, op) ==
    IF f.ops[op].code = "INDIRECT" THEN PlaceOf(f.blk[b], IF Lives(f, f.ops[op].x) THEN f.ops[op].x ELSE op) + 1
    ELSE SkipForward(f, f.blk[b], PlaceOf(f.blk[b], op), "MULTIEQUAL")
MoveMarker(f, b, from, to, op, v, x) ==
    [f EXCEPT !.blk[b] = RemoveAt(InsertAt(@, to, op), from), !.vn[v].mask = TRUE, !.vn[v].force = FALSE,
              !.ops[op] = [code |-> "SUBPIECE", in |-> <<LastVn(f)>>, out |-> v, x |-> x]]
RemoveMarker(f, r, v) ==
    With(Def(f, v), LAMBDA op :
        IF f.ops[op].code = "COPY" THEN op_unlink(f, op)
        ELSE With(BlockOf(f, op), LAMBDA b :
                 MoveMarker(ActiveLast(new_varnode(f, r.lo, r.hi - r.lo)), b, PlaceOf(f.blk[b], op), PlaceOfRest(f, b, op),
                            op, v, overlap_addr(f, v, r.lo, r.hi - r.lo))))
remove_revisited_markers(st, r, remove) ==
    [LateFor(st) EXCEPT !.f = FoldLeft(LAMBDA g, v : RemoveMarker(g, r, v), @, remove)]

\* inputs that cover the range in part are completed and joined
RECURSIVE InputPieces(_, _, _, _, _)
InputPieces(st, input, i, cur, end) ==
    LET here == i <= Len(input) /\ st.f.vn[input[i]].off <= cur
        next == IF i <= Len(input) THEN st.f.vn[input[i]].off ELSE end
    IN  IF cur >= end THEN st
        ELSE IF here THEN InputPieces([st EXCEPT !.list = Append(@, input[i])], input, i + 1,
                                      cur + st.f.vn[input[i]].size, end)
        ELSE With(NewInput(st.f, cur, next - cur),
                  LAMBDA new : InputPieces([f |-> new.f, list |-> Append(st.list, new.v)], input, i, next, end))
guard_input(f, r, input) ==
    IF input = <<>> \/ (Len(input) = 1 /\ f.vn[input[1]].size = r.hi - r.lo) THEN f
    ELSE With(InputPieces([f |-> f, list |-> <<>>], input, 1, r.lo, r.hi), LAMBDA all :
             IF Len(all.list) = 1 THEN all.f
             ELSE With(ActiveLast(new_varnode(all.f, r.lo, r.hi - r.lo)), LAMBDA g :
                      concat_pieces(g, all.list, 0, LastVn(g))))

\* a read of part of the range reads the whole and takes the part
WholeVn(f, lo, size) == ActiveLast(new_varnode(f, lo, size))
MaskedOut(f, v) == [op_set_output(f, LastOp(f), v) EXCEPT !.vn[v].mask = TRUE]
normalize_read_size(f, v, op, lo, size) ==
    LastBefore(MaskedOut(OfLast(WholeVn(f, lo, size), "SUBPIECE", overlap_addr(f, v, lo, size)), v), op)

\* has_effect of the bytes of a range: what they agree on
EffectOn(f, call, off, size) ==
    LET kinds == {f.src[call].eff[a] : a \in off..(off + size - 1)}
    IN  IF Cardinality(kinds) = 1 THEN CHOOSE k \in kinds : TRUE ELSE "unknown"
call_op_indirect_effect(f, op, off, size) ==
    /\ op <= Len(f.src)
    /\ f.src[op].code = "CALL"
    /\ EffectOn(f, op, off, size) # "unaffected"

\* the value of the rest of the range at a write of a part of it
RestOf(f, op, lo, size, off, n) ==
    IF call_op_indirect_effect(f, op, off, n) THEN new_indirect_creation(f, op, off, n)
    ELSE LastBefore(OutLast(OfLast(WholeVn(f, lo, size), "SUBPIECE", justified_contain(f, lo, size, off, n)), off, n), op)
JoinedAfter(f, most, least, off, at) ==
    LastAfter(OutLast(new_op(f, "PIECE", <<most, least>>, 0), off, f.vn[most].size + f.vn[least].size), at)

\* the part of v with what is less significant in the range, then with the rest
AddLeast(f, v, op, lo, size, least) ==
    IF least = 0 THEN [f |-> f, v |-> v]
    ELSE With(RestOf(f, op, lo, size, IF f.big THEN lo + size - least ELSE lo, least), LAMBDA g :
             With(JoinedAfter(g, v, g.ops[LastOp(g)].out, IF f.big THEN f.vn[v].off ELSE lo, op),
                  LAMBDA h : [f |-> h, v |-> h.ops[LastOp(h)].out]))
AddMost(st, lo, most) == IF most = NoVn THEN st.f ELSE JoinedAfter(st.f, most, st.v, lo, Def(st.f, st.v))
NormalizeWrite(f, v, op, lo, size, least, most) ==
    IF most = 0 THEN AddMost(AddLeast(f, v, op, lo, size, least), lo, NoVn)
    ELSE With(RestOf(f, op, lo, size, IF f.big THEN lo ELSE lo + size - most, most), LAMBDA g :
             AddMost(AddLeast(g, v, op, lo, size, least), lo, g.ops[LastOp(g)].out))
normalize_write_size(f, v, lo, size) ==
    With(overlap_addr(f, v, lo, size), LAMBDA least :
        [NormalizeWrite(f, v, Def(f, v), lo, size, least, size - (least + f.vn[v].size)) EXCEPT !.vn[v].mask = TRUE])

-----------------------------------------------------------------------------
\* guards: where a call, a store or a return may change or use the range.
\* st is [f, write] from here on

Sources(f, code) == SelectSeq([o \in DOMAIN f.src |-> o], LAMBDA o : f.src[o].code = code)
Wrote(f, write) == [f |-> set_active(f, f.ops[LastOp(f)].out), write |-> Append(write, f.ops[LastOp(f)].out)]
ActiveIn(f) == set_active(f, f.ops[LastOp(f)].in[1])
Guarded(st, effect, r) == Wrote(ActiveIn(new_indirect_op(st.f, effect, r.lo, r.hi - r.lo)), st.write)
Created(st, effect, r) == Wrote(new_indirect_creation(st.f, effect, r.lo, r.hi - r.lo), st.write)

\* how a range lies to the storage of a parameter or return value
Character(f, e, off, size) ==
    CASE e.size > 0 /\ e.off <= off /\ off + size <= e.off + e.size ->
            IF justified_contain(f, e.off, e.size, off, size) = 0 THEN "justified" ELSE "unjustified"
      [] e.size > 0 /\ off <= e.off /\ e.off + e.size <= off + size -> "contained"
      [] OTHER -> "none"
which_trial(trials, off, size) ==
    \E t \in trials : off \in t[1]..(t[1] + t[2] - 1) \/ (off + size - 1) \in t[1]..(t[1] + t[2] - 1)

\* the operation gets one more input, what is at off when it runs
AddInput(f, o, v, off, size) ==
    [f EXCEPT !.ops[o].in = Append(@, v), !.reads[o] = Append(@, [slot |-> Len(f.ops[o].in) + 1, off |-> off, size |-> size])]
InputLast(f, o, off, size) == AddInput(f, o, LastVn(f), off, size)
WholeInput(f, o, r) == InputLast(WholeVn(f, r.lo, r.hi - r.lo), o, r.lo, r.hi - r.lo)
PartInput(f, o, r, e) ==
    InputLast(LastBefore(OutLast(OfLast(WholeVn(f, r.lo, r.hi - r.lo), "SUBPIECE",
                                        justified_contain(f, r.lo, r.hi - r.lo, e.off, e.size)), e.off, e.size), o),
              o, e.off, e.size)

\* the return value of the call and what lies before and after it in the range
Ordered(f, low, high, lo, at) == IF f.big THEN JoinedAfter(f, low, high, lo, at) ELSE JoinedAfter(f, high, low, lo, at)
WithFront(f, call, r, front) ==
    IF front = 0 THEN [f |-> f, at |-> call]
    ELSE With(new_indirect_creation(f, LastOp(f), r.lo, front), LAMBDA g :
             With(Ordered(g, LastVn(g), LastVn(f), r.lo, call), LAMBDA h : [f |-> h, at |-> LastOp(h)]))
WithBack(s, call, r, off) ==
    IF off = r.hi THEN s.f
    ELSE With(new_indirect_creation(s.f, call, off, r.hi - off),
              LAMBDA g : Ordered(g, LastVn(s.f), LastVn(g), r.lo, s.at))
guard_output_overlap(st, call, r, e) ==
    Wrote(WithBack(WithFront(new_indirect_creation(st.f, call, e.off, e.size), call, r, e.off - r.lo),
                   call, r, e.off + e.size), st.write)

\* the state and what the call still does to the range
OutputTrial(st, call, r, e, how, eff) ==
    LET part == how = "contained"
        noted == [st EXCEPT !.f.outs[call] = @ \cup {IF part THEN <<e.off, e.size>> ELSE <<r.lo, r.hi - r.lo>>}]
    IN  CASE which_trial(st.f.outs[call], IF part THEN e.off ELSE r.lo, r.hi - r.lo) -> [st |-> st, eff |-> eff]
          [] part -> [st |-> guard_output_overlap(noted, call, r, e), eff |-> "unaffected"]
          [] OTHER -> [st |-> noted, eff |-> eff]
\* the place of a return value is killed if the prototype says so (is_auto_killed_by_call)
GuardOutput(st, call, r, eff) ==
    LET s == st.f.src[call]
    IN  With(Character(st.f, s.ret, r.lo, r.hi - r.lo), LAMBDA how :
            IF how = "none" THEN [st |-> st, eff |-> eff]
            ELSE OutputTrial(st, call, r, s.ret, how, IF s.auto THEN "killed" ELSE eff))

GuardInput(f, call, r, e, how) ==
    CASE how = "justified" /\ ~which_trial(f.trials[call], r.lo, r.hi - r.lo) ->
            [WholeInput(f, call, r) EXCEPT !.trials[call] = @ \cup {<<r.lo, r.hi - r.lo>>}]
      [] how = "contained" /\ ~which_trial(f.trials[call], e.off, r.hi - r.lo) ->
            [PartInput(f, call, r, e) EXCEPT !.trials[call] = @ \cup {<<e.off, e.size>>}]
      [] OTHER -> f

Hold(st) == [st EXCEPT !.f.vn[Last(st.write)].force = st.f.persist]
GuardEffect(st, call, r, eff) ==
    CASE eff = "unknown" -> Hold(Guarded(st, call, r)) [] eff = "killed" -> Created(st, call, r) [] OTHER -> st
GuardCall(st, call, r) ==
    LET out == st.f.ops[call].out
        par == st.f.src[call].par
    IN  IF out # NoVn /\ st.f.vn[out].off = r.lo /\ st.f.vn[out].size = r.hi - r.lo THEN st
        ELSE With(GuardOutput(st, call, r, EffectOn(st.f, call, r.lo, r.hi - r.lo)), LAMBDA o :
                 GuardEffect([o.st EXCEPT !.f = GuardInput(@, call, r, par, Character(@, par, r.lo, r.hi - r.lo))],
                             call, r, o.eff))
guard_calls(st, r) == FoldLeft(LAMBDA acc, o : GuardCall(acc, o, r), st, Sources(st.f, "CALL"))

guard_stores(st, r) == FoldLeft(LAMBDA acc, o : Guarded(acc, o, r), st, Sources(st.f, "STORE"))

\* a return value is an input of every RETURN; what lives on after the function
\* is copied to its place before it
Forced(f) == [f EXCEPT !.vn[LastVn(f)].active = TRUE, !.vn[LastVn(f)].force = TRUE]
ReturnCopy(f, o, r) ==
    LastBefore(Forced(OutLast(OfLast(WholeVn(f, r.lo, r.hi - r.lo), "COPY", 0), r.lo, r.hi - r.lo)), o)
ReturnValue(f, o, r, how) ==
    CASE how = "none" -> f [] how = "contained" -> PartInput(f, o, r, f.ret) [] OTHER -> WholeInput(f, o, r)
guard_returns(f, r) ==
    With(Character(f, f.ret, r.lo, r.hi - r.lo), LAMBDA how :
        FoldLeft(LAMBDA g, o : IF f.persist THEN ReturnCopy(g, o, r) ELSE g,
                 FoldLeft(LAMBDA g, o : ReturnValue(g, o, r, how), f, Sources(f, "RETURN")), Sources(f, "RETURN")))

\* all accesses to the range; a free varnode has one reader
GuardRead(f, r, v) ==
    IF f.vn[v].size < r.hi - r.lo THEN normalize_read_size(f, v, CHOOSE o \in Readers(f, v) : TRUE, r.lo, r.hi - r.lo)
    ELSE set_active(f, v)
GuardWrite(st, r, v) ==
    IF st.f.vn[v].size >= r.hi - r.lo THEN [f |-> set_active(st.f, v), write |-> Append(st.write, v)]
    ELSE Wrote(normalize_write_size(st.f, v, r.lo, r.hi - r.lo), st.write)
GuardReads(f, r, c) ==
    FoldLeft(LAMBDA g, v : GuardRead(g, r, v),
             [f EXCEPT !.err = @ \/ \E v \in Range(c.read) : Cardinality(Readers(f, v)) > 1], c.read)
GuardRest(st, r) == With(guard_calls(st, r), LAMBDA s : guard_stores([s EXCEPT !.f = guard_returns(@, r)], r))
guard(f, r, c) ==
    With(FoldLeft(LAMBDA acc, v : GuardWrite(acc, r, v), [f |-> GuardReads(f, r, c), write |-> <<>>], c.write),
         LAMBDA st : IF c.new THEN GuardRest(st, r) ELSE st)

-----------------------------------------------------------------------------
\* MULTIEQUALs where writes meet, and a link from every read to its write

PlacePhi(f, r, b) ==
    LET n == Len(InEdges(graph, b))
        ins == FoldLeft(LAMBDA g, i : new_varnode(g, r.lo, r.hi - r.lo), f, [i \in 1..n |-> i])
    IN  With(ActiveLast(OutLast(new_op(ins, "MULTIEQUAL", [i \in 1..n |-> LastVn(f) + i], 0), r.lo, r.hi - r.lo)),
             LAMBDA g : PutAt(g, b, 1, LastOp(g)))
MergeBlocks(st) == Joins(Closure({1} \cup {BlockOf(st.f, Def(st.f, v)) : v \in Range(st.write)}))
PlacePhis(st, r) ==
    With(MergeBlocks(st), LAMBDA blocks :
        FoldLeft(LAMBDA g, b : PlacePhi(g, r, b), st.f, SelectSeq(loops.order, LAMBDA b : b \in blocks)))

\* one range of the list
Skipped(r, c) == c.read = <<>> /\ ((c.write = <<>> /\ c.input = <<>>) \/ "old" \in r.flags)
MarkersFirst(st, r, c) == IF c.remove = <<>> THEN st ELSE remove_revisited_markers(st, r, c.remove)
PlaceGuarded(st, r, c) ==
    IF Skipped(r, c) THEN st
    ELSE With(MarkersFirst(st, r, c),
              LAMBDA s : [s EXCEPT !.f = PlacePhis(guard(guard_input(@, r, c.input), r, c), r)])
PlaceCut(st, i) == PlaceGuarded(st, st.tasks[i], collect(st.f, st.tasks[i]))
TooLarge(r, c) == r.hi - r.lo > 4 /\ c.max < r.hi - r.lo
PlaceRange(st, i) ==
    With(collect(st.f, st.tasks[i]), LAMBDA c :
        PlaceCut(IF TooLarge(st.tasks[i], c)
                 THEN refinement([st EXCEPT !.tasks[i].flags = IF c.new THEN @ ELSE @ \ {"new"}], i, c) ELSE st, i))
RECURSIVE place_multiequals(_, _)
place_multiequals(st, i) == IF i > Len(st.tasks) THEN st ELSE place_multiequals(PlaceRange(st, i), i + 1)

\* s is [f, stack]: for each address the writes seen on the way down
Top(s, v) ==
    LET vn == s.f.vn[v]
    IN  IF s.stack[vn.off] # <<>> THEN s
        ELSE With(NewInput(s.f, vn.off, vn.size),
                  LAMBDA new : [f |-> new.f, stack |-> [s.stack EXCEPT ![vn.off] = <<new.v>>]])
OwnIndirect(f, v, o) == f.vn[v].kind = "written" /\ With(f.ops[Def(f, v)], LAMBDA p : p.code = "INDIRECT" /\ p.x = o)
LinkTo(s, o, slot, v, new) == [s EXCEPT !.f = DropIfUnread(op_set_input(@, o, new, slot), v)]
\* the value before the operation, when the last one is of its own INDIRECT
LinkBelow(s, o, slot, v, off) ==
    IF Len(s.stack[off]) > 1 THEN LinkTo(s, o, slot, v, s.stack[off][Len(s.stack[off]) - 1])
    ELSE With(NewInput(s.f, off, s.f.vn[v].size), LAMBDA new :
             LinkTo([f |-> new.f, stack |-> [s.stack EXCEPT ![off] = <<new.v>> \o @]], o, slot, v, new.v))
LinkTop(s, o, slot, v, off) ==
    IF OwnIndirect(s.f, Last(s.stack[off]), o) THEN LinkBelow(s, o, slot, v, off)
    ELSE LinkTo(s, o, slot, v, Last(s.stack[off]))
Link(s, o, slot) ==
    With(s.f.ops[o].in[slot], LAMBDA v :
        IF v = NoVn \/ s.f.vn[v].kind # "free" \/ ~s.f.vn[v].active THEN s
        ELSE LinkTop(Top(s, v), o, slot, v, s.f.vn[v].off))
PushOut(s, out) ==
    IF out = NoVn \/ ~s.f.vn[out].active THEN s
    ELSE [s EXCEPT !.f.vn[out].active = FALSE, !.stack[s.f.vn[out].off] = Append(@, out)]
LinkOp(s, o) ==
    PushOut(IF s.f.ops[o].code = "MULTIEQUAL" THEN s
            ELSE FoldLeft(LAMBDA acc, slot : Link(acc, o, slot), s, [i \in DOMAIN s.f.ops[o].in |-> i]),
            s.f.ops[o].out)
LinkPhi(s, o, slot) ==
    With(s.f.ops[o].in[slot], LAMBDA v :
        IF s.f.vn[v].kind # "free" THEN s
        ELSE With(Top(s, v), LAMBDA top : LinkTo(top, o, slot, v, Last(top.stack[s.f.vn[v].off]))))
Phis(f, b) == SelectSeq(f.blk[b], LAMBDA o : f.ops[o].code = "MULTIEQUAL")

LinkSuccessor(s, b, i) ==
    FoldLeft(LAMBDA acc, o : LinkPhi(acc, o, SlotOf(graph, <<b, i>>)), s, Phis(s.f, graph.out[b][i]))
RECURSIVE rename_recurse(_, _)
rename_recurse(s, b) ==
    LET Written(a) == Cardinality({o \in Range(s.f.blk[b]) : /\ s.f.ops[o].out # NoVn
                                                             /\ s.f.vn[s.f.ops[o].out].active
                                                             /\ s.f.vn[s.f.ops[o].out].off = a})
        next == FoldLeft(LAMBDA acc, i : LinkSuccessor(acc, b, i), FoldLeft(LinkOp, s, s.f.blk[b]),
                         [i \in DOMAIN graph.out[b] |-> i])
        below == FoldLeft(rename_recurse, next, SelectSeq(loops.order, LAMBDA c : dom[c] = b))
    IN  [below EXCEPT !.stack = [a \in Addresses |-> SubSeq(@[a], 1, Len(@[a]) - Written(a))]]

-----------------------------------------------------------------------------
\* one pass of heritage
rename(f) == rename_recurse([f |-> f, stack |-> [a \in Addresses |-> <<>>]], 1).f
heritage ==
    /\ ~info.restart
    /\ \E found \in {Gather([f |-> func, cover |-> cover, info |-> info, tasks |-> <<>>], pass)} :
       \E placed \in {place_multiequals(found, 1)} :
          /\ func' = IF found.tasks = <<>> THEN func ELSE rename(placed.f)
          /\ cover' = placed.cover
          /\ info' = [placed.info EXCEPT !.ready = TRUE]
    /\ pass' = pass + 1
    /\ UNCHANGED <<graph, loops, dom, prog>>

-----------------------------------------------------------------------------
\* what the rest of the decompiler does between passes

\* the address of a LOAD becomes known: it reads a varnode
RuleLoadVarnode(o) ==
    /\ ~info.restart /\ func.src[o].code = "LOAD"
    /\ LET s == func.src[o]
           made == new_varnode(func, s.off, s.size)
       IN  func' = [AddInput(made, o, LastVn(made), s.off, s.size) EXCEPT !.src[o].code = "READ"]
    /\ info' = [info EXCEPT !.ready = FALSE]
    /\ UNCHANGED <<graph, loops, dom, cover, pass, prog>>

\* the address of a STORE becomes known: it writes a varnode
RuleStoreVarnode(o) ==
    /\ ~info.restart /\ func.src[o].code = "STORE"
    /\ func' = [new_varnode_out(func, func.src[o].off, func.src[o].size, o) EXCEPT !.src[o].code = "WRITE"]
    /\ info' = [info EXCEPT !.ready = FALSE]
    /\ UNCHANGED <<graph, loops, dom, cover, pass, prog>>

\* writes that nothing reads go, once the space has had its passes
Unread(f) == {o \in Alive(f) : f.ops[o].out # NoVn /\ ~f.vn[f.ops[o].out].force /\ Readers(f, f.ops[o].out) = {}}
RECURSIVE WithoutDead(_)
WithoutDead(f) ==
    IF Unread(f) = {} THEN f
    ELSE LET o == CHOOSE x \in Unread(f) : TRUE
         IN  WithoutDead(IF o > Len(f.src) THEN delete_varnode(op_unlink(f, o), f.ops[o].out)
                         ELSE [delete_varnode(f, f.ops[o].out) EXCEPT !.ops[o].out = NoVn])
dead_removal_allowed == pass > info.delay
ActionDeadCode ==
    /\ ~info.restart /\ info.ready /\ dead_removal_allowed /\ Unread(func) # {}
    /\ func' = WithoutDead(func)
    /\ info' = [info EXCEPT !.deadremoved = TRUE]
    /\ UNCHANGED <<graph, loops, dom, cover, pass, prog>>

NoInfo == [deadremoved |-> FALSE, warned |-> FALSE, ready |-> FALSE, delay |-> 0, override |-> FALSE, restart |-> FALSE]

\* everything starts again, with dead code removed one pass later
ActionRestart ==
    /\ info.restart
    /\ func' = prog /\ cover' = {} /\ pass' = 0
    /\ info' = [NoInfo EXCEPT !.delay = 1, !.override = TRUE]
    /\ UNCHANGED <<graph, loops, dom, prog>>

-----------------------------------------------------------------------------
CONSTANT Steps

\* Once every read is linked, each operation gets what memory held when it ran:
\* along every path, whatever the order in which LOADs and STOREs became known
\* and dead code was removed, the READs, the inputs given to calls and returns
\* and the copies made for globals before a RETURN see the bytes of the last
\* write, store or call that changed them, unless a warning (with the first one
\* a restart) says that heritage came after dead code removal.
Linked(f) == \A v \in InSpace(f) : f.vn[v].kind = "free" => Readers(f, v) = {}
ReadsSeeMemory == (Linked(func) /\ ~info.warned) => PathsAgree(func, Start(func), 1, 1, Steps)

\* No input of the function is made twice for one byte ("Overlapping input
\* varnodes") and no free varnode has two readers when a range is guarded.
NoHeritageError == ~func.err
=============================================================================
