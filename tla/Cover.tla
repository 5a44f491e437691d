------------------------------- MODULE Cover --------------------------------
(***************************************************************************)
(* The live range of a varnode (src/cover.rs): one interval of operations  *)
(* per basic block, found by walking back from every read to the           *)
(* definition, and the tests the merge phase makes on such ranges.         *)
(*                                                                         *)
(* A program pr is a record: pr.blk[b] is the sequence of the operations   *)
(* of block b, pr.pred[b] the sequence of the blocks it is entered from    *)
(* (in the order of the inputs of its MULTIEQUALs), pr.op[o] the operation *)
(* [code, out, ins, aff] (aff is the operation an INDIRECT stands for) and *)
(* pr.vn[v] the varnode [def, implied], def being 0 for an input.          *)
(* Blocks are numbered from 1; block 1 is the entry.                       *)
(***************************************************************************)
EXTENDS Integers, Sequences, FiniteSets, SequencesExt

\* CoverPoint: the operations of a program are positive numbers.
Begin == 0
End == -1
Input == -2

\* u32::MAX, beyond the position of every operation of a block
UMax == 99

\* F of a value, worked out once
With(x, F(_)) == F(x)
\* FoldLeft, each result worked out before the next step is taken
FoldOver(op(_, _), base, seq) ==
    FoldLeft(LAMBDA acc, x : CHOOSE r \in {op(a, x) : a \in {acc}} : TRUE, base, seq)
\* the elements of a set of numbers in increasing order
Ascending(set) ==
    [i \in 1..Cardinality(set) |-> CHOOSE x \in set : Cardinality({y \in set : y < x}) = i - 1]

BlockOf(pr, o) == CHOOSE b \in DOMAIN pr.blk : \E i \in DOMAIN pr.blk[b] : pr.blk[b][i] = o
Order(pr, o) == LET s == pr.blk[BlockOf(pr, o)] IN CHOOSE i \in DOMAIN s : s[i] = o
Readers(pr, v) == {o \in DOMAIN pr.op : \E i \in DOMAIN pr.op[o].ins : pr.op[o].ins[i] = v}
IsPhi(pr, p) == p > 0 /\ pr.op[p].code = "MULTIEQUAL"

get_u_index(pr, p) ==
    CASE p = Begin -> 0
      [] p = End -> UMax
      [] p = Input -> 0
      [] p > 0 /\ pr.op[p].code = "MULTIEQUAL" -> 0
      [] p > 0 /\ pr.op[p].code = "INDIRECT" -> Order(pr, pr.op[p].aff)
      [] OTHER -> Order(pr, p)

-----------------------------------------------------------------------------
\* CoverBlock

EmptyBlock == [start |-> Begin, stop |-> Begin]
IsEmpty(cb) == cb = EmptyBlock
AllBlock == [start |-> Begin, stop |-> End]

\* A block's interval wraps round when it starts after it stops: the range
\* leaves the block at its end and comes back in at its beginning.
ContainIndex(ustart, ustop, u) ==
    IF ustart <= ustop THEN u >= ustart /\ u <= ustop ELSE u <= ustop \/ u >= ustart

BlockContain(pr, cb, p) ==
    /\ ~IsEmpty(cb)
    /\ ContainIndex(get_u_index(pr, cb.start), get_u_index(pr, cb.stop), get_u_index(pr, p))

BlockBoundary(pr, cb, p) ==
    CASE IsEmpty(cb) -> 0
      [] get_u_index(pr, cb.start) = get_u_index(pr, p) /\ cb.start # Begin -> 2
      [] get_u_index(pr, cb.stop) = get_u_index(pr, p) -> 1
      [] OTHER -> 0

intersect_indices(ustart, ustop, u2start, u2stop) ==
    LET touch(a, b) == IF a THEN IF b THEN 1 ELSE 0 ELSE 2
    IN  CASE ustart <= ustop /\ u2start <= u2stop ->
               touch(ustop <= u2start \/ u2stop <= ustart, ustart = u2stop \/ ustop = u2start)
          [] ustart <= ustop /\ u2start > u2stop ->
               touch(ustart >= u2stop /\ ustop <= u2start, ustart = u2stop \/ ustop = u2start)
          [] ustart > ustop /\ u2start <= u2stop ->
               touch(u2start >= ustop /\ u2stop <= ustart, u2start = ustop \/ u2stop = ustart)
          [] OTHER -> 2

BlockIntersect(pr, cb, cb2) ==
    IF IsEmpty(cb) \/ IsEmpty(cb2) THEN 0
    ELSE intersect_indices(get_u_index(pr, cb.start), get_u_index(pr, cb.stop),
                           get_u_index(pr, cb2.start), get_u_index(pr, cb2.stop))

MergeRanges(pr, cb, cb2, ustart, u2start, internal3, internal4, in1, in2) ==
    LET internal1 == internal4 \/ in1
        internal2 == internal3 \/ in2
        started == IF internal1 THEN [cb EXCEPT !.start = cb2.start] ELSE cb
    IN  CASE internal1 /\ internal2 /\ (ustart # u2start \/ internal3 \/ internal4) -> AllBlock
          [] ~internal1 /\ ~internal2 /\ ustart < u2start -> [cb EXCEPT !.stop = cb2.stop]
          [] ~internal1 /\ ~internal2 /\ ustart >= u2start -> [cb EXCEPT !.start = cb2.start]
          [] OTHER -> IF internal3 \/ BlockContain(pr, cb2, cb.stop)
                      THEN [started EXCEPT !.stop = cb2.stop] ELSE started
BlockMerge(pr, cb, cb2) ==
    IF IsEmpty(cb2) THEN cb
    ELSE IF IsEmpty(cb) THEN cb2
    ELSE With(get_u_index(pr, cb.start), LAMBDA ustart :
           With(get_u_index(pr, cb2.start), LAMBDA u2start :
             MergeRanges(pr, cb, cb2, ustart, u2start, u2start = 0 /\ cb.stop = End,
                         ustart = 0 /\ cb2.stop = End, BlockContain(pr, cb2, cb.start),
                         BlockContain(pr, cb, cb2.start))))

-----------------------------------------------------------------------------
\* Cover: a function from some of the blocks to intervals

EmptyCover == <<>>
get_cover_block(cov, b) == IF b \in DOMAIN cov THEN cov[b] ELSE EmptyBlock
SetBlock(cov, b, cb) ==
    [c \in DOMAIN cov \cup {b} |-> IF c = b THEN cb ELSE cov[c]]
\* a block whose interval already stops at a MULTIEQUAL at its beginning has
\* not been walked through yet
StopsAtPhi(pr, cb) == cb.start = Begin /\ IsPhi(pr, cb.stop)

RECURSIVE add_ref_recurse(_, _, _)
MutAddRefRecurse(pr, cov, b) ==
    LET cb == get_cover_block(cov, b)
    IN  IF IsEmpty(cb)
        THEN FoldOver(LAMBDA c, p : add_ref_recurse(pr, c, p), SetBlock(cov, b, AllBlock), pr.pred[b])
        ELSE IF get_u_index(pr, cb.stop) >= get_u_index(pr, cb.start)
             THEN SetBlock(cov, b, [cb EXCEPT !.stop = End])
             ELSE cov

add_ref_recurse(pr, cov, b) ==
    LET cb == get_cover_block(cov, b)
        ustop == get_u_index(pr, cb.stop)
        through(c) == FoldOver(LAMBDA d, p : add_ref_recurse(pr, d, p), c, pr.pred[b])
    IN  IF IsEmpty(cb) THEN through(SetBlock(cov, b, AllBlock))
        ELSE LET ended == IF ustop # UMax /\ ustop >= get_u_index(pr, cb.start)
                          THEN SetBlock(cov, b, [cb EXCEPT !.stop = End]) ELSE cov
             IN  IF StopsAtPhi(pr, cb) THEN through(ended) ELSE ended

\* A read of v by o: extend the block of o down to o, and unless the range
\* already began in this block walk back into the blocks before it (for a
\* MULTIEQUAL, only into those whose value it takes).
RefPoint(pr, cov, o, v, b, cb, inside) ==
    LET slots == [i \in DOMAIN pr.pred[b] |-> i]
        later == ~inside /\ ~IsEmpty(cb) /\ get_u_index(pr, o) >= get_u_index(pr, cb.start)
        taken(i) == later \/ (IsPhi(pr, o) => pr.op[o].ins[i] = v)
        ended == IF inside THEN cov ELSE SetBlock(cov, b, [cb EXCEPT !.stop = o])
    IN  IF (inside /\ ~IsPhi(pr, o)) \/ (later /\ ~StopsAtPhi(pr, cb)) THEN ended
        ELSE FoldOver(LAMBDA d, i : IF taken(i) THEN add_ref_recurse(pr, d, pr.pred[b][i]) ELSE d,
                      ended, slots)
add_ref_point(pr, cov, o, v) ==
    With(BlockOf(pr, o), LAMBDA b :
        With(get_cover_block(cov, b), LAMBDA cb :
            RefPoint(pr, cov, o, v, b, cb, ~IsEmpty(cb) /\ BlockContain(pr, cb, o))))

add_def_point(pr, v) ==
    IF pr.vn[v].def = 0 THEN SetBlock(EmptyCover, 1, [start |-> Input, stop |-> Input])
    ELSE SetBlock(EmptyCover, BlockOf(pr, pr.vn[v].def),
                  [start |-> pr.vn[v].def, stop |-> pr.vn[v].def])

\* An implied varnode is printed where it is read: its inputs must live as
\* long as it does.
RECURSIVE Path(_, _)
Path(pr, v) ==
    {v} \cup UNION {Path(pr, pr.op[o].out) :
                      o \in {r \in Readers(pr, v) : /\ pr.op[r].out # 0
                                                    /\ pr.vn[pr.op[r].out].implied}}

rebuild(pr, v) ==
    FoldOver(LAMBDA c, o : add_ref_point(pr, c, o, v), add_def_point(pr, v),
             Ascending(UNION {Readers(pr, w) : w \in Path(pr, v)}))

CoverIntersect(pr, c1, c2) ==
    LET found == {BlockIntersect(pr, c1[b], c2[b]) : b \in DOMAIN c1 \cap DOMAIN c2}
    IN  IF 2 \in found THEN 2 ELSE IF 1 \in found THEN 1 ELSE 0

intersect_list(pr, c1, c2, level) ==
    {b \in DOMAIN c1 \cap DOMAIN c2 : BlockIntersect(pr, c1[b], c2[b]) >= level}

intersect_by_block(pr, b, c1, c2) ==
    BlockIntersect(pr, get_cover_block(c1, b), get_cover_block(c2, b))

\* some operation of the set lies strictly inside the cover
intersect_op_set(pr, cov, ops) ==
    \E o \in ops : LET cb == get_cover_block(cov, BlockOf(pr, o))
                   IN  BlockContain(pr, cb, o) /\ BlockBoundary(pr, cb, o) = 0

CoverContain(pr, cov, o, max) ==
    LET cb == get_cover_block(cov, BlockOf(pr, o))
    IN  BlockContain(pr, cb, o) /\ (max = 1 \/ BlockBoundary(pr, cb, o) = 0)

\* 0 outside, 1 strictly inside, 2 where the cover starts, 3 where it stops
contain_varnode_def(pr, cov, v) ==
    LET def == pr.vn[v].def
        p == IF def = 0 THEN Input ELSE def
        cb == get_cover_block(cov, IF def = 0 THEN 1 ELSE BlockOf(pr, def))
        bound == BlockBoundary(pr, cb, p)
    IN  IF ~BlockContain(pr, cb, p) THEN 0
        ELSE IF bound = 0 THEN 1 ELSE IF bound = 2 THEN 2 ELSE 3

CoverMerge(pr, c1, c2) ==
    [b \in DOMAIN c1 \cup DOMAIN c2 |->
        BlockMerge(pr, get_cover_block(c1, b), get_cover_block(c2, b))]
-----------------------------------------------------------------------------
(***************************************************************************)
(* Covers being built, read by read (src/cover.rs, Cover::rebuild): the    *)
(* readers of a varnode come in whatever order they were added to its list *)
(* of descendants, and the walk back from one read stops where the walks   *)
(* of the earlier ones have been.  The cover must be the live range of the *)
(* varnode whatever that order was, and the tests made on two covers must  *)
(* say how the two live ranges meet.                                       *)
(***************************************************************************)

VARIABLES program, cover, pending
covervars == <<program, cover, pending>>

Varnodes == DOMAIN program.vn
AllReaders(v) == UNION {Readers(program, w) : w \in Path(program, v)}

CoverFrom(p) ==
    /\ program = p
    /\ cover = [v \in Varnodes |-> add_def_point(program, v)]
    /\ pending = [v \in Varnodes |-> AllReaders(v)]

AddRef(v, o) ==
    /\ o \in pending[v]
    /\ \A w \in Varnodes : w < v => pending[w] = {}
    /\ cover' = [cover EXCEPT ![v] = add_ref_point(program, @, o, v)]
    /\ pending' = [pending EXCEPT ![v] = @ \ {o}]
    /\ UNCHANGED program

CoverNext == \E v \in Varnodes : \E o \in pending[v] : AddRef(v, o)

-----------------------------------------------------------------------------
(* Programs: every block has a MULTIEQUAL, a pair of an INDIRECT and the    *)
(* operation it stands for, and another operation; the definition and the   *)
(* reads of the varnodes are at any of these.                               *)

\* straight line, diamond, loop on one block, loop on two, loop in a loop
Straight == <<<<>>, <<1>>, <<2>>>>
Diamond == <<<<>>, <<1>>, <<1>>, <<2, 3>>>>
SelfLoop == <<<<>>, <<1, 2>>, <<2>>>>
TwoLoop == <<<<>>, <<1, 3>>, <<2>>>>
Nested == <<<<>>, <<1, 3>>, <<2, 3>>>>

OpId(b, i) == 4 * (b - 1) + i
Order4 == [i \in 1..4 |-> i]

RECURSIVE ReachedAvoiding(_, _, _)
ReachedAvoiding(pred, found, avoid) ==
    LET more == {b \in DOMAIN pred : b # avoid /\ ToSet(pred[b]) \cap found # {}} \ found
    IN  IF more = {} THEN found ELSE ReachedAvoiding(pred, found \cup more, avoid)
DominatesIn(pred, a, b) == a = b \/ a = 1 \/ b \notin ReachedAvoiding(pred, {1}, a)

\* Where a definition may be (0: an input) and the reads it dominates; a read
\* is <<operation, slot>>, slot being the edge for a MULTIEQUAL.
CodeAt(i) == CASE i = 1 -> "MULTIEQUAL" [] i = 2 -> "INDIRECT" [] OTHER -> "OP"
BlockAt(o) == ((o - 1) \div 4) + 1
PlaceAt(o) == ((o - 1) % 4) + 1
RankAt(o) == CASE PlaceAt(o) = 1 -> 0 [] PlaceAt(o) = 2 -> 3 [] OTHER -> PlaceAt(o)
DefsFor(pred) == {0} \cup {o \in 1..(4 * Len(pred)) : PlaceAt(o) = 1 => Len(pred[BlockAt(o)]) > 1}
ReadsFor(pred, def) ==
    LET defblock == IF def = 0 THEN 1 ELSE BlockAt(def)
        defrank == IF def = 0 THEN -1 ELSE RankAt(def)
        after(o) == IF BlockAt(o) = defblock THEN RankAt(o) > defrank
                    ELSE DominatesIn(pred, defblock, BlockAt(o))
    IN  {<<o, i>> \in (1..(4 * Len(pred))) \X (0..2) :
            IF PlaceAt(o) = 1
            THEN /\ Len(pred[BlockAt(o)]) > 1
                 /\ i \in DOMAIN pred[BlockAt(o)]
                 /\ DominatesIn(pred, defblock, pred[BlockAt(o)][i])
            ELSE i = 0 /\ after(o)}

PointProgram(pred, defs, reads) ==
    [blk |-> [b \in DOMAIN pred |-> [i \in 1..4 |-> OpId(b, i)]],
     pred |-> pred,
     op |-> [o \in 1..(4 * Len(pred)) |->
               [code |-> CodeAt(PlaceAt(o)), out |-> 0, aff |-> o + 1,
                ins |-> IF PlaceAt(o) = 1
                        THEN [i \in DOMAIN pred[BlockAt(o)] |->
                                IF \E v \in DOMAIN reads : <<o, i>> \in reads[v]
                                THEN CHOOSE v \in DOMAIN reads : <<o, i>> \in reads[v] ELSE 0]
                        ELSE [v \in DOMAIN reads |-> IF <<o, 0>> \in reads[v] THEN v ELSE 0]]],
     vn |-> [v \in DOMAIN defs |-> [def |-> defs[v], implied |-> FALSE]]]

\* One varnode with up to three reads; two varnodes with a read each.
CoverSingle ==
    \E pred \in {Straight, SelfLoop, TwoLoop, Nested, Diamond} : \E d \in DefsFor(pred) :
        \E reads \in {ReadsFor(pred, d)} : \E r \in {{x, y, z} : x, y, z \in reads} :
            CoverFrom(PointProgram(pred, <<d>>, <<r>>))
CoverPair ==
    \E d, e \in DefsFor(SelfLoop) : \E r \in ReadsFor(SelfLoop, d) : \E s \in ReadsFor(SelfLoop, e) :
        d # e /\ r # s /\ CoverFrom(PointProgram(SelfLoop, <<d, e>>, <<{r}, {s}>>))

-----------------------------------------------------------------------------
Built(v) == pending[v] = {}

-----------------------------------------------------------------------------
(* The reference: points of a program, and the points from which a read of *)
(* the varnode can be reached without passing its definition again.        *)

Positions(b) == 0..Len(program.blk[b]) \cup {UMax}
Points == {<<b, u>> : b \in DOMAIN program.blk, u \in 0..UMax}
Before(pt) ==
    LET b == pt[1] u == pt[2]
    IN  IF u = 0 THEN {<<c, UMax>> : c \in ToSet(program.pred[b])}
        ELSE IF u = UMax THEN {<<b, Len(program.blk[b])>>}
        ELSE {<<b, u - 1>>}
PointOf(p) == <<BlockOf(program, p), get_u_index(program, p)>>
DefPoint(v) == IF program.vn[v].def = 0 THEN <<1, 0>> ELSE PointOf(program.vn[v].def)

RECURSIVE BackFrom(_, _, _)
BackFrom(found, frontier, stop) ==
    IF frontier = {} THEN found
    ELSE LET more == (UNION {Before(pt) : pt \in frontier \ {stop}}) \ found
         IN  BackFrom(found \cup more, more, stop)

PhiEdges(v) ==
    {<<program.pred[BlockOf(program, o)][i], UMax>> :
        <<o, i>> \in {e \in AllReaders(v) \X (1..3) :
                        /\ IsPhi(program, e[1])
                        /\ e[2] \in DOMAIN program.op[e[1]].ins
                        /\ program.op[e[1]].ins[e[2]] = v}}

LiveRange(v) ==
    LET reads == {PointOf(o) : o \in {r \in AllReaders(v) : ~IsPhi(program, r)}}
        phis == {PointOf(o) : o \in {r \in AllReaders(v) : IsPhi(program, r)}}
        seeds == reads \cup PhiEdges(v)
    IN  BackFrom(seeds, seeds, DefPoint(v)) \cup phis \cup {DefPoint(v)}

CoverPoints(cov) ==
    {<<b, u>> \in UNION {{b} \X Positions(b) : b \in DOMAIN cov} :
        /\ ~IsEmpty(cov[b])
        /\ ContainIndex(get_u_index(program, cov[b].start), get_u_index(program, cov[b].stop), u)}

\* Once every read has been added, in whatever order, the cover of a varnode
\* (Cover::rebuild) holds exactly the points between its definition and its
\* reads: the point where an interval stops early is revisited when a later
\* read needs the block to be walked through.
CoverIsLiveRange ==
    \A v \in Varnodes : Built(v) => CoverPoints(cover[v]) = LiveRange(v)

\* The points and the gaps between them that an interval takes up.
Extent(b, cb) ==
    LET ustart == get_u_index(program, cb.start)
        ustop == get_u_index(program, cb.stop)
    IN  IF IsEmpty(cb) THEN {}
        ELSE IF ustart <= ustop THEN (2 * ustart)..(2 * ustop)
        ELSE 0..(2 * ustop) \cup (2 * ustart)..(2 * UMax)

Meeting(x, y) ==
    LET common == x \cap y
        inside(p, s) == p - 1 \in s /\ p + 1 \in s
    IN  IF common = {} THEN 0
        ELSE IF \E p \in common : p % 2 = 1 \/ inside(p, x) \/ inside(p, y) THEN 2
        ELSE 1

Pairs == {p \in Varnodes \X Varnodes : p[1] # p[2] /\ Built(p[1]) /\ Built(p[2])}

\* CoverBlock::intersect tells apart two ranges of a block that are disjoint,
\* that only touch where one ends and the other begins, and that overlap,
\* for ranges that wrap round the block too.
IntersectIsExact ==
    \A p \in Pairs : \A b \in DOMAIN cover[p[1]] \cap DOMAIN cover[p[2]] :
        BlockIntersect(program, cover[p[1]][b], cover[p[2]][b])
          = Meeting(Extent(b, cover[p[1]][b]), Extent(b, cover[p[2]][b]))

\* Merging two covers loses no point of either, and takes in nothing that is
\* not between them: when the two ranges of a block overlap the result is
\* their union.
MergeKeepsBoth ==
    \A p \in Pairs : \A b \in DOMAIN program.blk :
        LET c1 == get_cover_block(cover[p[1]], b)
            c2 == get_cover_block(cover[p[2]], b)
            x == Extent(b, c1)
            y == Extent(b, c2)
            merged == Extent(b, BlockMerge(program, c1, c2))
        IN  /\ x \cup y \subseteq merged
            /\ x = {} \/ y = {} \/ x \cap y # {} => merged = x \cup y
=============================================================================
