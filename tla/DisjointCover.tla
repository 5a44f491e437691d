---------------------------- MODULE DisjointCover ----------------------------
(***************************************************************************)
(* What heritage needs of the record of the ranges it has processed: a set *)
(* of disjoint ranges [lo, hi, pass], each with the first pass in which    *)
(* one of its bytes was processed.  Adding a range joins every range it    *)
(* meets into one.  answer is what the last operation returned.            *)
(***************************************************************************)
EXTENDS Integers, FiniteSetsExt

CONSTANTS Offsets, MaxPass
VARIABLES cover, answer, pass

Meets(r, lo, hi) == r.lo < hi /\ lo < r.hi

Init == cover = {} /\ answer = <<"none">> /\ pass = 0

Join(lo, hi, p, met) ==
    [lo |-> Min({lo} \cup {r.lo : r \in met}), hi |-> Max({hi} \cup {r.hi : r \in met}),
     pass |-> Min({p} \cup {r.pass : r \in met})]

\* the last component tells how the range relates to earlier passes: 0 it does
\* not, 1 it is partly new, 2 it lies within a range of an earlier pass
Add(lo, hi, p) ==
    LET met == {r \in cover : Meets(r, lo, hi)}
        holder == {r \in met : r.lo <= lo /\ hi <= r.hi}
        older == {r \in met : r.pass < p}
    IN  /\ cover' = IF holder # {} THEN cover ELSE (cover \ met) \cup {Join(lo, hi, p, met)}
        /\ answer' = <<"added", Join(lo, hi, p, met).lo, IF older = {} THEN 0 ELSE IF holder # {} THEN 2 ELSE 1>>
        /\ UNCHANGED pass

Find(at) ==
    /\ answer' = <<"found", UNION {{<<r.lo, r.pass>>} : r \in {x \in cover : x.lo <= at /\ at < x.hi}}>>
    /\ UNCHANGED <<cover, pass>>

Erase(r) == cover' = cover \ {r} /\ answer' = <<"erased">> /\ UNCHANGED pass

NextPass == pass < MaxPass /\ pass' = pass + 1 /\ answer' = <<"pass">> /\ UNCHANGED cover

Next ==
    \/ \E lo, hi \in Offsets, p \in 0..pass : lo < hi /\ Add(lo, hi, p)
    \/ \E at \in Offsets : Find(at)
    \/ \E r \in cover : Erase(r)
    \/ NextPass
=============================================================================
