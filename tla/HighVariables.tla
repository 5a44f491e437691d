--------------------------- MODULE HighVariables ---------------------------
(***************************************************************************)
(* Variables of the decompiled source (src/variable.rs): each HighVariable *)
(* holds the varnodes merged into it, caches the union of their covers,    *)
(* and may be a piece of a VariableGroup, a bigger variable with           *)
(* overlapping parts, in which case it also caches the covers of the parts *)
(* it overlaps.  HighIntersectTest caches which variables conflict.  The   *)
(* caches are invalidated by dirty flags and by purging.                   *)
(*                                                                         *)
(* A cover is a set of program points: how ranges are built and compared   *)
(* is the subject of Cover.  Grouping (Merge::merge_addr_tied,             *)
(* Merge::group_partials) comes before the merges that consult the groups, *)
(* as in ActionMergeRequired; a range only grows when an expression is     *)
(* made implied, after Merge::inflate_test has allowed it.                 *)
(***************************************************************************)
EXTENDS Integers, FiniteSets, Functions

CONSTANTS Vns,          \* the varnodes, 1..n
          SizeOf,       \* bytes of each
          Shadow,       \* <<v, w>>: one is a copy (or a part) of the other
          Tied,         \* address tied varnodes, whose storage a call may change
          CallPoints,   \* points where a call or an aliasing store is
          Places,       \* <<v, off, w>>: v is stored off bytes into w
          Starts,       \* the covers the varnodes may have at first
          MaxEdits      \* bound on the edits that change a cover

VARIABLES cover,    \* varnode -> the points where it is live
          mergegroup, high, group, edge,
          stage,    \* "grouping" the parts, "merging", or "merged"
          edits
vars == <<cover, mergegroup, high, group, edge, stage, edits>>

NoPiece == [group |-> 0]
Highs == DOMAIN high
Groups == DOMAIN group
HighOf(v) == CHOOSE h \in Highs : v \in high[h].inst
Attached == UNION {high[h].inst : h \in Highs}
HasPiece(hs, h) == hs[h].piece.group # 0
PieceKey(p) == <<p.off, p.size>>
Union(f, s) == UNION {f[x] : x \in s}
IsShadow(v, w) == v = w \/ <<v, w>> \in Shadow \/ <<w, v>> \in Shadow
Drop(f, s) == Restrict(f, DOMAIN f \ s)
Put(f, x, y) == [z \in DOMAIN f \cup {x} |-> IF z = x THEN y ELSE f[z]]

-----------------------------------------------------------------------------
(* VariableGroup and VariablePiece.  The operators take and return the     *)
(* state s = [hs |-> high, gs |-> group].                                  *)

\* every piece of a group must look for the pieces it overlaps again
mark_intersection_dirty(s, g) ==
    [s EXCEPT !.hs = [h \in DOMAIN s.hs |->
        IF s.hs[h].piece.group = g THEN [s.hs[h] EXCEPT !.intersectdirty = TRUE, !.extenddirty = TRUE]
        ELSE s.hs[h]]]

MutMarkExtendCoverDirty(hs, h) == [hs EXCEPT ![h].extenddirty = TRUE]

\* the cover of h changed: so did the extended covers of those overlapping it
mark_extend_cover_dirty(hs, h) ==
    IF hs[h].intersectdirty THEN hs
    ELSE [x \in DOMAIN hs |->
            IF x = h \/ x \in hs[h].piece.intersection THEN [hs[x] EXCEPT !.extenddirty = TRUE] ELSE hs[x]]

cover_dirty(hs, h) ==
    LET dirty == [hs EXCEPT ![h].coverdirty = TRUE]
    IN  IF HasPiece(hs, h) THEN mark_extend_cover_dirty(dirty, h) ELSE dirty

\* VariablePiece::create and VariableGroup::add_piece
add_piece(s, g, h, off) ==
    LET size == SizeOf[CHOOSE v \in s.hs[h].inst : TRUE]
        old == IF g \in DOMAIN s.gs THEN s.gs[g] ELSE [pieces |-> <<>>, size |-> 0]
        end == off + size
    IN  [s EXCEPT
           !.hs = [@ EXCEPT ![h].piece = [group |-> g, off |-> off, size |-> size,
                                          intersection |-> {}, cover |-> {}]],
           !.gs = Put(@, g, [pieces |-> Put(old.pieces, <<off, size>>, h),
                             size |-> IF end > old.size THEN end ELSE old.size])]

adjust_offsets(s, g, amt) ==
    LET pieces == s.gs[g].pieces
    IN  [s EXCEPT
           !.hs = [h \in DOMAIN @ |->
                     IF @[h].piece.group = g THEN [@[h] EXCEPT !.piece.off = @ + amt] ELSE @[h]],
           !.gs = [@ EXCEPT ![g] =
                     [pieces |-> [k \in {<<j[1] + amt, j[2]>> : j \in DOMAIN pieces} |->
                                     pieces[<<k[1] - amt, k[2]>>]],
                      size |-> @.size + amt]]]

\* take a piece out of its group, which goes when it is empty
Leave(gs, g, key) ==
    IF DOMAIN gs[g].pieces = {key} THEN Drop(gs, {g})
    ELSE [gs EXCEPT ![g].pieces = Drop(@, {key})]

Removed(s, h, p) ==
    [s EXCEPT !.hs = [@ EXCEPT ![h].piece = NoPiece], !.gs = Leave(@, p.group, PieceKey(p))]
MarkRest(s, g) == IF g \in DOMAIN s.gs THEN mark_intersection_dirty(s, g) ELSE s
release(s, h) == MarkRest(Removed(s, h, s.hs[h].piece), s.hs[h].piece.group)

\* move the piece p of variable h to the group g
Transferred(s, h, g, p) ==
    [s EXCEPT !.hs = [@ EXCEPT ![h].piece.group = g],
              !.gs = [Leave(@, p.group, PieceKey(p)) EXCEPT ![g] =
                        [pieces |-> Put(@.pieces, PieceKey(p), h),
                         size |-> IF p.off + p.size > @.size THEN p.off + p.size ELSE @.size]]]
transfer_group(s, h, g) == Transferred(s, h, g, s.hs[h].piece)

update_intersections(hs, gs, h) ==
    LET p == hs[h].piece
        meets(o) == p.off + p.size > o.off /\ p.off < o.off + o.size
    IN  IF ~hs[h].intersectdirty THEN hs
        ELSE [hs EXCEPT ![h].intersectdirty = FALSE,
                        ![h].piece.intersection =
                            {x \in Range(gs[p.group].pieces) \ {h} : meets(hs[x].piece)}]

high_update_internal_cover(hs, h) ==
    IF ~hs[h].coverdirty THEN hs
    ELSE [hs EXCEPT ![h].coverdirty = FALSE, ![h].internal = Union(cover, hs[h].inst)]

UpdateAll(hs, s) ==
    [x \in DOMAIN hs |-> IF x \in s /\ hs[x].coverdirty
                         THEN [hs[x] EXCEPT !.coverdirty = FALSE, !.internal = Union(cover, hs[x].inst)]
                         ELSE hs[x]]

\* VariablePiece::update_cover
update_cover(hs, h) ==
    IF ~hs[h].coverdirty /\ ~hs[h].extenddirty THEN hs
    ELSE LET parts == {h} \cup hs[h].piece.intersection
             fresh == UpdateAll(hs, parts)
         IN  [fresh EXCEPT ![h].extenddirty = FALSE,
                           ![h].piece.cover = UNION {fresh[x].internal : x \in parts}]

high_update_cover(hs, gs, h) ==
    IF HasPiece(hs, h) THEN update_cover(update_intersections(hs, gs, h), h)
    ELSE high_update_internal_cover(hs, h)

get_cover(hs, h) == IF HasPiece(hs, h) THEN hs[h].piece.cover ELSE hs[h].internal
is_cover_dirty(hs, h) == hs[h].coverdirty \/ hs[h].extenddirty

-----------------------------------------------------------------------------
\* HighIntersectTest

purge_high(es, h) == Drop(es, {e \in DOMAIN es : e[1] = h \/ e[2] = h})

\* s = [hs, gs, es]
update_high(s, h) ==
    IF ~is_cover_dirty(s.hs, h) THEN s
    ELSE [s EXCEPT !.hs = high_update_cover(s.hs, s.gs, h), !.es = purge_high(s.es, h)]

Instances(hs, h, p) == {v \in hs[h].inst : p \in cover[v]}
ClashAt(hs, a, b, p) ==
    \E v \in Instances(hs, a, p), w \in Instances(hs, b, p) : ~IsShadow(v, w)

MutBlockIntersection(hs, a, b, p) == ClashAt(hs, a, b, p)

\* at a point: the two variables, each with the parts overlapping the other,
\* and those parts with one another where they overlap once aligned
block_intersection(hs, a, b, p) ==
    LET parts(h) == IF HasPiece(hs, h) THEN hs[h].piece.intersection ELSE {}
        off(x, h) == hs[x].piece.off - hs[h].piece.off
        apart(x, y) == LET d == off(x, a) - off(y, b)
                       IN  d >= hs[y].piece.size \/ -d >= hs[x].piece.size
    IN  \/ ClashAt(hs, a, b, p)
        \/ \E x \in parts(a) : ClashAt(hs, x, b, p)
        \/ \E y \in parts(b) : ClashAt(hs, a, y, p)
        \/ \E x \in parts(a), y \in parts(b) : ~apart(x, y) /\ ClashAt(hs, x, y, p)

IsTied(hs, h) == hs[h].inst \cap Tied # {}
test_untied_call_intersection(hs, untied) == get_cover(hs, untied) \cap CallPoints # {}

Intersects(hs, a, b) ==
    \/ \E p \in get_cover(hs, a) \cap get_cover(hs, b) : block_intersection(hs, a, b, p)
    \/ IsTied(hs, a) /\ ~IsTied(hs, b) /\ test_untied_call_intersection(hs, b)
    \/ IsTied(hs, b) /\ ~IsTied(hs, a) /\ test_untied_call_intersection(hs, a)

Answered(s, a, b, answer) == [s EXCEPT !.es = Put(Put(@, <<a, b>>, answer), <<b, a>>, answer)]
\* the state after the test; its answer is es[<<a, b>>]
AskUnlessKnown(s, clean, a, b) ==
    IF clean /\ <<a, b>> \in DOMAIN s.es THEN s ELSE Answered(s, a, b, Intersects(s.hs, a, b))
UpdateSecond(s, clean, a, b) ==
    AskUnlessKnown(update_high(s, b), clean /\ ~is_cover_dirty(s.hs, b), a, b)
intersection(s, a, b) == UpdateSecond(update_high(s, a), ~is_cover_dirty(s.hs, a), a, b)

\* b is merged into a: a conflicts with what either conflicts with, and is
\* known not to conflict with what neither does
move_intersect_tests(es, a, b) ==
    LET tested(t, h, answer) == {e[2] : e \in {d \in DOMAIN t : d[1] = h /\ t[d] = answer}}
        yes == tested(es, b, TRUE) \ {a}
        no == tested(es, b, FALSE) \ {a}
        kept == purge_high(es, b)
        doubt == tested(kept, a, FALSE) \ no
        left == Drop(kept, ({a} \X doubt) \cup (doubt \X {a}))
        new == ({a} \X yes) \cup (yes \X {a})
    IN  [e \in DOMAIN left \cup new |-> IF e \in new THEN TRUE ELSE left[e]]

-----------------------------------------------------------------------------
\* HighVariable

\* s = [hs, gs, es, mg]; the variable b goes
Joined(hs, a, b, clean, speculative) ==
    [hs EXCEPT ![a].inst = @ \cup hs[b].inst,
               ![a].coverdirty = ~clean,
               ![a].internal = IF clean THEN @ \cup hs[b].internal ELSE @,
               ![a].classes = IF speculative THEN @ + hs[b].classes ELSE @]
Vanish(s, b) == [s EXCEPT !.hs = Drop(@, {b})]
Released(s, b) == IF HasPiece(s.hs, b) THEN release(s, b) ELSE s
high_destroy(s, b) == Vanish(Released(s, b), b)
high_merge_internal(s, a, b, speculative) ==
    high_destroy([s EXCEPT !.hs = Joined(@, a, b, ~@[a].coverdirty /\ ~@[b].coverdirty, speculative),
                              !.mg = [v \in Vns |-> IF speculative /\ v \in s.hs[b].inst
                                                    THEN @[v] + s.hs[a].classes ELSE @[v]]], b)

high_transfer_piece(hs, gs, a, b) ==
    LET p == hs[b].piece
        swap(x) == IF x = b THEN a ELSE x
        moved == [hs EXCEPT ![a].piece = p, ![b].piece = NoPiece,
                            ![a].intersectdirty = @ \/ hs[b].intersectdirty,
                            ![a].extenddirty = @ \/ hs[b].extenddirty,
                            ![b].intersectdirty = FALSE, ![b].extenddirty = FALSE]
    IN  [hs |-> [x \in DOMAIN hs |->
                    IF moved[x].piece.group = p.group
                    THEN [moved[x] EXCEPT !.piece.intersection = {swap(y) : y \in @}]
                    ELSE moved[x]],
         gs |-> [gs EXCEPT ![p.group].pieces[PieceKey(p)] = a]]

\* Align the two groups; pieces in the same place are paired, the others move.
\* s also has from, the pieces that are left to visit, and pairs.
RECURSIVE MovePieces(_, _)
MovePieces(s, g) ==
    IF s.from = <<>> THEN s
    ELSE LET k == CHOOSE x \in DOMAIN s.from : TRUE
             t == [s EXCEPT !.from = Drop(@, {k})]
         IN  MovePieces(IF k \in DOMAIN s.gs[g].pieces
                        THEN release([t EXCEPT !.pairs = @ \cup {<<s.gs[g].pieces[k], s.from[k]>>}], s.from[k])
                        ELSE transfer_group(t, s.from[k], g), g)
\* the pieces of group g join group h
Combine(s, g, h) == MovePieces([s EXCEPT !.from = s.gs[g].pieces], h)
Align(s, ga, gb, diff) ==
    IF diff > 0 THEN adjust_offsets(s, gb, diff)
    ELSE IF diff < 0 THEN adjust_offsets(s, ga, -diff) ELSE s

merge_groups(s, a, b) ==
    Combine(Align(s, s.hs[a].piece.group, s.hs[b].piece.group, s.hs[a].piece.off - s.hs[b].piece.off),
            s.hs[b].piece.group, s.hs[a].piece.group)

RECURSIVE MergePairs(_)
MergePairs(s) ==
    IF s.pairs = {} THEN s
    ELSE LET p == CHOOSE x \in s.pairs : TRUE
         IN  MergePairs(high_merge_internal([s EXCEPT !.es = move_intersect_tests(@, p[1], p[2]),
                                                      !.pairs = @ \ {p}],
                                            p[1], p[2], FALSE))

TakeOver(s, taken, a) == [s EXCEPT !.hs = mark_extend_cover_dirty(taken.hs, a), !.gs = taken.gs]
\* a has, or takes over, the one piece there is
OnePiece(s, a, b) ==
    IF HasPiece(s.hs, a) THEN [s EXCEPT !.hs = mark_extend_cover_dirty(@, a)]
    ELSE IF HasPiece(s.hs, b) THEN TakeOver(s, high_transfer_piece(s.hs, s.gs, a, b), a) ELSE s
MarkGroup(s, a) == mark_intersection_dirty(s, s.hs[a].piece.group)
MergeMoved(s, a, b, speculative) ==
    IF HasPiece(s.hs, a) /\ HasPiece(s.hs, b) THEN MarkGroup(MergePairs(merge_groups(s, a, b)), a)
    ELSE high_merge_internal(OnePiece(s, a, b), a, b, speculative)
high_merge(s, a, b, speculative) ==
    MergeMoved([s EXCEPT !.es = move_intersect_tests(@, a, b)], a, b, speculative)

-----------------------------------------------------------------------------
(* The operations.                                                         *)

State == [hs |-> high, gs |-> group, es |-> edge, mg |-> mergegroup, from |-> <<>>, pairs |-> {}]
Becomes(s) ==
    /\ high' = s.hs
    /\ group' = s.gs
    /\ edge' = s.es
    /\ mergegroup' = s.mg

\* Funcdata::high_create for every varnode (ActionAssignHigh)
Init ==
    /\ cover \in Starts
    /\ mergegroup = [v \in Vns |-> 0]
    /\ high = [v \in Vns |->
                 [inst |-> {v}, classes |-> 1, coverdirty |-> TRUE, intersectdirty |-> FALSE,
                  extenddirty |-> FALSE, internal |-> {}, piece |-> NoPiece]]
    /\ group = <<>>
    /\ edge = <<>>
    /\ stage = "grouping"
    /\ edits = 0

NewGroup == CHOOSE g \in 1..(Cardinality(Groups) + 1) : g \notin Groups

\* no two overlapping parts of a group conflict: Merge::unify_address has
\* seen to that before the parts are grouped
Compatible(hs, gs) ==
    \A x, y \in DOMAIN hs :
        /\ x # y
        /\ HasPiece(hs, x)
        /\ hs[x].piece.group = hs[y].piece.group
        /\ hs[x].piece.off < hs[y].piece.off + hs[y].piece.size
        /\ hs[y].piece.off < hs[x].piece.off + hs[x].piece.size
        => \A p \in Union(cover, hs[x].inst) : ~ClashAt(hs, x, y, p)

\* Funcdata::high_group_with: h lies off bytes into h2
GroupState(s, h, off, h2) ==
    LET hasH == HasPiece(s.hs, h)
        has2 == HasPiece(s.hs, h2)
        flagged(t, x) == [t EXCEPT !.hs[x].intersectdirty = TRUE, !.hs[x].extenddirty = TRUE]
    IN  CASE ~hasH /\ ~has2 ->
               LET t == add_piece(add_piece(s, NewGroup, h2, 0), NewGroup, h, off)
               IN  mark_intersection_dirty(t, NewGroup)
          [] ~hasH /\ has2 ->
               LET g == s.hs[h2].piece.group
                   t == IF s.hs[h2].intersectdirty THEN s ELSE mark_intersection_dirty(s, g)
               IN  add_piece(flagged(t, h), g, h, off + s.hs[h2].piece.off)
          [] hasH /\ ~has2 ->
               LET g == s.hs[h].piece.group
                   at == s.hs[h].piece.off - off
                   t == IF at < 0 THEN adjust_offsets(s, g, -at) ELSE s
                   u == IF t.hs[h].intersectdirty THEN t ELSE mark_intersection_dirty(t, g)
               IN  add_piece(flagged(u, h2), g, h2, IF at < 0 THEN 0 ELSE at)
          [] OTHER ->
               LET ga == s.hs[h].piece.group
                   gb == s.hs[h2].piece.group
                   diff == s.hs[h2].piece.off + off - s.hs[h].piece.off
                   t == IF diff # 0 THEN adjust_offsets(s, ga, diff) ELSE s
               IN  mark_intersection_dirty(Combine(t, ga, gb), gb)

Duplicate(s, h, off, h2) ==
    \* VariableGroup::add_piece refuses a second piece in the same place
    LET at2 == IF HasPiece(s.hs, h2) THEN s.hs[h2].piece.off ELSE 0
        atH == IF HasPiece(s.hs, h) THEN s.hs[h].piece.off ELSE off
        key(x, o) == <<o, SizeOf[CHOOSE v \in s.hs[x].inst : TRUE]>>
        keys(x, o) == IF HasPiece(s.hs, x)
                      THEN {<<k[1] + o - s.hs[x].piece.off, k[2]>> :
                              k \in DOMAIN s.gs[s.hs[x].piece.group].pieces}
                      ELSE {key(x, o)}
    IN  keys(h, at2 + off) \cap keys(h2, at2) # {}

high_group_with(h, off, h2) ==
    /\ stage = "grouping"
    /\ h # h2
    /\ HasPiece(high, h) /\ HasPiece(high, h2) => high[h].piece.group # high[h2].piece.group
    /\ ~Duplicate(State, h, off, h2)
    /\ \E t \in {GroupState(State, h, off, h2)} :
          /\ Compatible(t.hs, t.gs)
          /\ high' = t.hs
          /\ group' = t.gs
    /\ UNCHANGED <<cover, mergegroup, edge, stage, edits>>

\* the parts are grouped; the merging starts
StartMerging ==
    /\ stage = "grouping"
    /\ stage' = "merging"
    /\ UNCHANGED <<cover, mergegroup, high, group, edge, edits>>

\* the last action that merges is over; what follows only destroys varnodes
\* that are no longer live, if there are any
EndMerging ==
    /\ stage = "merging" /\ \E v \in Attached : cover[v] = {}
    /\ stage' = "merged"
    /\ UNCHANGED <<cover, mergegroup, high, group, edge, edits>>

\* Merge::merge_test_required on groups: not within one group, and not a part
\* of one variable with a part of another
MayMerge(a, b) ==
    /\ SizeOf[CHOOSE v \in high[a].inst : TRUE] = SizeOf[CHOOSE v \in high[b].inst : TRUE]
    /\ HasPiece(high, a) /\ HasPiece(high, b) =>
         /\ high[a].piece.group # high[b].piece.group
         /\ \/ high[a].piece.size = group[high[a].piece.group].size
            \/ high[b].piece.size = group[high[b].piece.group].size

\* Merge::merge; before the groups are complete only variables outside them
Refreshed(s, a) == [s EXCEPT !.hs = high_update_cover(@, s.gs, a)]
merge(a, b, speculative) ==
    /\ a # b
    /\ stage # "merged"
    /\ stage = "grouping" => ~HasPiece(high, a) /\ ~HasPiece(high, b)
    /\ MayMerge(a, b)
    /\ speculative => ~(HasPiece(high, a) /\ HasPiece(high, b))
    /\ ~speculative => high[a].classes = 1 /\ high[b].classes = 1
    /\ \E s \in {intersection(State, a, b)} :
          \E t \in {IF s.es[<<a, b>>] THEN s ELSE Refreshed(high_merge(s, a, b, speculative), a)} : Becomes(t)
    /\ UNCHANGED <<cover, stage, edits>>

\* Merge::merge_test, and merge_adjacent before it merges
TestPair(a, b) ==
    /\ stage = "merging"
    /\ a < b
    /\ \E s \in {intersection(State, a, b)} : Becomes(s)
    /\ UNCHANGED <<cover, stage, edits>>

\* a read of v is snipped, trimmed away or removed
Shrink(v, p) ==
    /\ stage # "merged"
    /\ p \in cover[v]
    /\ edits < MaxEdits
    /\ cover' = [cover EXCEPT ![v] = @ \ {p}]
    /\ high' = cover_dirty(high, HighOf(v))
    /\ edits' = edits + 1
    /\ UNCHANGED <<mergegroup, group, edge, stage>>

\* Merge::inflate_test: would v, living as long as variable h, conflict with
\* what it has been merged with
InflateTest(hs, v, h) ==
    LET a == HighOf(v)
        parts == IF HasPiece(hs, a) THEN hs[a].piece.intersection ELSE {}
    IN  \E x \in {a} \cup parts : \E w \in hs[x].inst :
            ~IsShadow(w, v) /\ cover[w] \cap hs[h].internal # {}

\* ActionMarkImplied: the expression held in h is computed from v where it is
\* read, so v lives as long as h
MarkImplied(v, h) ==
    /\ stage = "merging"
    /\ edits < MaxEdits
    /\ HighOf(v) # h
    /\ Cardinality(high[h].inst) = 1
    /\ LET s == update_high(State, h)
           a == HighOf(v)
           hs == IF HasPiece(s.hs, a) THEN update_intersections(s.hs, s.gs, a) ELSE s.hs
           inflated == ~InflateTest(hs, v, h)
       IN  /\ cover' = IF inflated THEN [cover EXCEPT ![v] = @ \cup hs[h].internal] ELSE cover
           /\ Becomes([s EXCEPT !.hs = IF inflated THEN cover_dirty(hs, a) ELSE hs])
    /\ edits' = edits + 1
    /\ UNCHANGED stage

\* No test of h is cached, and h is no part of a group.
Untested(h) == ~HasPiece(high, h) /\ \A e \in DOMAIN edge : h \notin {e[1], e[2]}

\* Funcdata::vn_destroy: the varnode goes, and its variable with its last one.
\* The tests cached of a variable that goes stay behind.  While variables are
\* merged, the one place that destroys the last varnode of a variable is
\* Merge::build_dominant_copy, which gives up a COPY it has just made
\* (merge.rs:1097-1099); the varnodes it replaces leave others in their variable.
\* The actions after the merges (ActionLateDoNothing, ActionSetCasts) destroy any.
Destroy(v) ==
    /\ cover[v] = {}
    /\ LET h == HighOf(v)
           removed == [high EXCEPT ![h].inst = @ \ {v}, ![h].coverdirty = TRUE]
           left == IF HasPiece(high, h) THEN mark_extend_cover_dirty(removed, h) ELSE removed
           unattached == left[h].inst = {}
       IN  /\ unattached /\ stage # "merged" => Untested(h)
           /\ \E t \in {IF unattached THEN high_destroy([hs |-> left, gs |-> group], h)
                                      ELSE [hs |-> left, gs |-> group]} :
                 high' = t.hs /\ group' = t.gs
    /\ UNCHANGED <<cover, mergegroup, edge, stage, edits>>

Next ==
    \/ \E p \in Places : p[1] \in Attached /\ p[3] \in Attached
                          /\ high_group_with(HighOf(p[1]), p[2], HighOf(p[3]))
    \/ StartMerging \/ EndMerging
    \/ \E a, b \in Highs, speculative \in BOOLEAN : merge(a, b, speculative)
    \/ \E a, b \in Highs : TestPair(a, b)
    \/ \E v \in Attached : \E p \in cover[v] : Shrink(v, p)
    \/ \E v \in Attached : \E h \in Highs : MarkImplied(v, h)
    \/ \E v \in Attached : Destroy(v)

Spec == Init /\ [][Next]_vars

-----------------------------------------------------------------------------
\* No variable holds two varnodes that are live at the same point and are not
\* copies of one another (what Funcdata::high_verify_cover calls an internal
\* intersection), and no two overlapping parts of a group do: the cached
\* covers and test results never let a conflicting merge through.
NoInternalIntersection ==
    /\ \A h \in Highs : \A v, w \in high[h].inst : cover[v] \cap cover[w] # {} => IsShadow(v, w)
    /\ Compatible(high, group)

\* A cover that is not marked dirty holds every point where one of the
\* variable's varnodes, or of the parts it overlaps, is live: no change of a
\* varnode is missed by the flags (it may hold more, see the README).
CleanCoversHold ==
    \A h \in Highs :
        /\ ~high[h].coverdirty => Union(cover, high[h].inst) \subseteq high[h].internal
        /\ HasPiece(high, h) /\ ~is_cover_dirty(high, h) =>
             \A x \in {h} \cup update_intersections([high EXCEPT ![h].intersectdirty = TRUE], group, h)
                                  [h].piece.intersection :
                 Union(cover, high[x].inst) \subseteq high[h].piece.cover

\* The two ends of a group agree: each piece is listed in its group under its
\* place, every listed variable has that piece, the group reaches as far as
\* its last piece and no group is empty.
GroupsAgree ==
    /\ \A h \in Highs : HasPiece(high, h) =>
         /\ high[h].piece.group \in Groups
         /\ PieceKey(high[h].piece) \in DOMAIN group[high[h].piece.group].pieces
         /\ group[high[h].piece.group].pieces[PieceKey(high[h].piece)] = h
    /\ \A g \in Groups :
         /\ DOMAIN group[g].pieces # {}
         /\ \A k \in DOMAIN group[g].pieces :
              /\ group[g].pieces[k] \in Highs
              /\ high[group[g].pieces[k]].piece.group = g
              /\ k[1] + k[2] <= group[g].size

\* As long as variables are tested and merged, no cached test is about a
\* variable that is gone (move_intersect_tests would look it up and panic), and a
\* cached "no conflict" between two variables whose covers are up to date is
\* what the test would say now.
CachedTestsHold ==
    stage # "merged" =>
      \A e \in DOMAIN edge :
        /\ e[1] \in Highs /\ e[2] \in Highs
        /\ ~edge[e] /\ ~is_cover_dirty(high, e[1]) /\ ~is_cover_dirty(high, e[2])
             => ~Intersects(high, e[1], e[2])
=============================================================================
