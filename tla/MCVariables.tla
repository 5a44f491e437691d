---------------------------- MODULE MCVariables ----------------------------
(***************************************************************************)
(* Part "ranges" builds the covers of one varnode with up to three reads,  *)
(* "pairs" those of two.  Part "highs" has two variables of two bytes (1   *)
(* and 3) and two of one byte (2 and 4), which become the first byte of 1, *)
(* or a byte of 3, so two groups can be formed and merged; 3 is a copy of  *)
(* 1, 1 is address tied, and there is a call at point 3.  Part "merge"     *)
(* takes small programs through the merge passes: each shape fixes the     *)
(* blocks and what the operations are, and which varnodes they read is any *)
(* choice among those whose definition reaches them, so that the programs  *)
(* copy propagation leaves behind (crossed MULTIEQUALs, a value read after *)
(* the next one of its address is defined) are among them.                 *)
(***************************************************************************)
EXTENDS Merge

CONSTANTS MaxEdits, Parts
VARIABLES part, mergegroup, high, group, edge, stage, edits

MCVns == 1..4
MCSize == <<2, 1, 2, 1>>
MCShadow == {<<1, 3>>}
MCTied == {1}
MCCalls == {3}
MCPlaces == {<<2, 0, 1>>, <<4, 1, 1>>, <<4, 0, 3>>}
MCStarts == {<<{1}, {1}, {2}, {2}>>, <<{1}, {2}, {1}, {2}>>, <<{1}, {2}, {2}, {1}>>, <<{1}, {2}, {3}, {2}>>}
Vars == INSTANCE HighVariables WITH Vns <- MCVns, SizeOf <- MCSize, Shadow <- MCShadow, Tied <- MCTied,
                                    CallPoints <- MCCalls, Places <- MCPlaces, Starts <- MCStarts
-----------------------------------------------------------------------------
Op(code, out, ins, aff) == [code |-> code, out |-> out, ins |-> ins, aff |-> aff, prints |-> TRUE]

\* a varnode: kind "t" is a temporary, "a" tied to address 1, "f" also forced,
\* "b" tied to address 2, "r" there but not tied, "s" a temporary of symbol 1
Vn(kind, def) ==
    [def |-> def, implied |-> FALSE, explicit |-> FALSE,
     loc |-> CASE kind \in {"a", "f"} -> 1 [] kind \in {"b", "r"} -> 2 [] OTHER -> 0,
     tied |-> kind \in {"a", "b", "f"}, force |-> kind = "f", persist |-> FALSE,
     sym |-> IF kind = "s" THEN 1 ELSE 0]

Defs(op, v) == {o \in DOMAIN op : op[o].out = v}
Program(blk, pred, op, kinds, alive) ==
    [blk |-> blk, pred |-> pred, op |-> op, alive |-> alive,
     vn |-> [v \in DOMAIN kinds |->
               Vn(kinds[v], IF Defs(op, v) = {} THEN 0 ELSE CHOOSE o \in Defs(op, v) : TRUE)]]

\* A loop on block 2, left for block 3: two MULTIEQUALs that may be crossed,
\* a value computed in the loop, a branch on one of them, reads after it.
InitLoop ==
    \E b \in {1, 2} : \E c \in {2, 4, 5} : \E d \in 3..5 : \E e \in 3..4 : \E code \in {"OP", "COPY"} :
    \E x \in {3, 5} :
        InitFrom(Program(<<<<1, 2>>, <<3, 4, 5, 6>>, <<7>>>>, <<<<>>, <<1, 2>>, <<2>>>>,
            <<Op("OP", 1, <<>>, 0), Op("OP", 2, <<>>, 0),
              Op("MULTIEQUAL", 3, <<1, c>>, 0), Op("MULTIEQUAL", 4, <<b, d>>, 0),
              Op(code, 5, <<e>>, 0), Op("BRANCH", 0, <<x>>, 0), Op("STORE", 0, <<8 - x, 4>>, 0)>>,
            <<"t", "t", "t", "t", "t">>, <<1, 2, 5, 6, 7, 4, 3>>))

\* The same loop over an address: v1, v2, v3 and perhaps v4 are its values (v4
\* may be at another address), and a call in the loop may change it.
InitAddress ==
    \E kind \in {"t", "a", "b"} : \E p \in {3, 4} : \E q \in {1, 2} : \E e \in 1..3 : \E code \in {"OP", "COPY"} :
    \E y \in 1..4 :
        InitFrom(Program(<<<<1>>, <<2, 3, 4, 5, 6>>, <<7>>>>, <<<<>>, <<1, 2>>, <<2>>>>,
            <<Op("OP", 1, <<>>, 0), Op("MULTIEQUAL", 2, <<1, p>>, 0), Op("INDIRECT", 3, <<q>>, 4),
              Op("CALL", 0, <<3 - q>>, 0), Op(code, 4, <<e>>, 0), Op("BRANCH", 0, <<2>>, 0),
              Op("STORE", 0, <<y>>, 0)>>,
            <<"a", "a", "f", kind>>, <<1, 4, 5, 6, 7, 3, 2>>))

\* Two branches that meet: values common to both, COPYs on either side.
InitBranch ==
    \E k \in {"t", "s"} : \E code \in {"OP", "COPY"} : \E a \in {1, 2} :
    \E d \in {1, 4} : \E e \in {1, 3} : \E f \in {2, 4} : \E y \in {2, 5} :
        InitFrom(Program(<<<<1, 2>>, <<3>>, <<4>>, <<5, 6, 7>>>>, <<<<>>, <<1>>, <<1>>, <<2, 3>>>>,
            <<Op("OP", 1, <<>>, 0), Op("OP", 2, <<>>, 0), Op(code, 3, <<a>>, 0), Op("COPY", 4, <<3 - a>>, 0),
              Op("MULTIEQUAL", 5, <<3, d>>, 0), Op("MULTIEQUAL", 6, <<e, f>>, 0),
              Op("STORE", 0, <<y, 6>>, 0)>>,
            <<"t", "t", k, k, "t", "t">>, <<1, 2, 3, 4, 7, 5, 6>>))

\* A straight line: an input at the address, values loaded and computed from
\* it, and operations that may change what they were made from before they
\* are used.
InitStraight ==
    \E k \in {"t", "a", "r"} : \E code \in {"LOAD", "OP", "COPY"} : \E c \in 1..2 : \E d \in 1..3 :
    \E between \in {"STORE", "CALL"} : \E x \in 1..2 : \E y \in {2, 4} :
        InitFrom(Program(<<<<1, 2, 3, 4>>, <<5>>>>, <<<<>>, <<1>>>>,
            <<Op(code, 2, <<1>>, 0), Op("OP", 3, <<c>>, 0),
              Op(between, 0, <<x>>, 0), Op("COPY", 4, <<d>>, 0), Op("STORE", 0, <<x, y>>, 0)>>,
            <<k, "t", "t", "a">>, <<1, 2, 3, 4, 5>>))

-----------------------------------------------------------------------------
NoCover == program = <<>> /\ cover = <<>> /\ pending = <<>>
NoHighs == mergegroup = <<>> /\ high = <<>> /\ group = <<>> /\ edge = <<>> /\ stage = "none" /\ edits = 0
NoMerge == s = <<>> /\ phase = "none" /\ todo = <<>>
MCInit ==
    /\ part \in Parts
    /\ \/ part = "ranges" /\ CoverSingle /\ NoHighs /\ NoMerge
       \/ part = "pairs" /\ CoverPair /\ NoHighs /\ NoMerge
       \/ part = "highs" /\ Vars!Init /\ program = <<>> /\ pending = <<>> /\ NoMerge
       \/ part = "merge" /\ (InitLoop \/ InitAddress \/ InitBranch \/ InitStraight) /\ NoCover /\ NoHighs

highs == <<mergegroup, high, group, edge, stage, edits>>
Ranges == part \in {"ranges", "pairs"} /\ CoverNext /\ UNCHANGED <<part, highs, vars>>
Highly == part = "highs" /\ Vars!Next /\ UNCHANGED <<part, program, pending, vars>>
Merges == part = "merge" /\ Next /\ UNCHANGED <<part, highs, covervars>>

MCNext == Ranges \/ Highly \/ Merges

MCSpec == MCInit /\ [][MCNext]_<<part, highs, covervars, vars>>
-----------------------------------------------------------------------------
\* Covers are the sets of points they stand for: the cover of a varnode whose
\* reads are all in is its live range (CoverIsLiveRange of Cover, cover.rs:400-560),
\* the comparison of two covers finds each kind of overlap (IntersectIsExact,
\* cover.rs:130-180), and their union holds the points of both and no other
\* (MergeKeepsBoth, cover.rs:290-340).
CoversExact ==
  /\ part = "ranges" => CoverIsLiveRange
  /\ part = "pairs" => IntersectIsExact /\ MergeKeepsBoth

\* No variable, and no two overlapping pieces of a group, hold varnodes that are
\* live together and differ, and a group and its pieces name each other
\* (NoInternalIntersection and GroupsAgree of HighVariables).
NoInternalIntersection == part = "highs" => Vars!GroupsAgree /\ Vars!NoInternalIntersection

\* Nothing cached is stale: a cover that is not marked dirty misses no point
\* where one of its varnodes is live, and a cached "no conflict" between clean
\* covers is what the test says now (CleanCoversHold and CachedTestsHold of
\* HighVariables).
CachesHold == part = "highs" => Vars!CleanCoversHold /\ Vars!CachedTestsHold

\* The COPYs that are inserted always make the forced merges possible
\* (ForcedMergesSucceed of Merge: merge.rs:801-932).
MergesSucceed == part = "merge" => ForcedMergesSucceed

\* Out of SSA form the program computes what it did, and no variable joins
\* varnodes of different homes (ReadsSeeTheirValues and VariablesHaveOneHome of
\* Merge: merge.rs:1380-1446, merge_test_required).
ReadsKept == part = "merge" => VariablesHaveOneHome /\ ReadsSeeTheirValues
=============================================================================
