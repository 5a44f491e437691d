---------------------------- MODULE DoubleMemory ----------------------------
(***************************************************************************)
(* RuleDoubleLoad and RuleDoubleStore (double.rs): two loads of adjacent   *)
(* memory put together by a PIECE become one load, and two stores of the   *)
(* halves of a value one store, at the place of the later one.  INDIRECT   *)
(* operations in front of a store say what it may do to a variable in      *)
(* memory; they move with it.                                              *)
(*                                                                         *)
(* A block is a sequence of operations.  Values are sequences of bytes,    *)
(* least significant first, and bytes are names: what is shown holds for   *)
(* every value they may have.  Pointers are a base and an offset, where    *)
(* the base is any address.                                                *)
(***************************************************************************)
EXTENDS Integers, Sequences, FiniteSets, SequencesExt

CONSTANTS
  Addresses,    \* the number of addresses of a space
  Location      \* the address of the variable in memory that INDIRECTs are about

VARIABLES
  ops,          \* the operations of the block
  original,     \* ops before any rule was applied
  bigendian     \* the order of bytes in memory
vars == <<ops, original, bigendian>>

None == [base |-> "none", off |-> 0]
\* The value whose halves are lo and hi, and other values made before the block.
\* A byte in memory is at first named by its address; v is the variable.
Given == [W |-> <<Addresses, Addresses + 1>>, lo |-> <<Addresses>>, hi |-> <<Addresses + 1>>, x |-> <<Addresses + 2>>, v |-> <<Location>>]
Index(id) == CHOOSE i \in DOMAIN ops : ops[i].id = id
At(id) == ops[Index(id)]
DefOf(name) == {o \in ToSet(ops) : o.out = name}
Reading(name) == {o \in ToSet(ops) : name \in ToSet(o.in)}
Indirects(store) == {o \in ToSet(ops) : o.code = "INDIRECT" /\ o.aff = store}
NewId == 1 + CHOOSE n \in {o.id : o \in ToSet(ops)} : \A o \in ToSet(ops) : o.id <= n
Drop(seq, ids) == SelectSeq(seq, LAMBDA o : o.id \notin ids)
Blocking == {"CALL", "RETURN", "CBRANCH"}
----------------------------------------------------------------------------
\* The pointers are apart by the size of what the first accesses.
adjacent_offsets(ptr1, ptr2, size1) == ptr1.base = ptr2.base /\ ptr1.off + size1 = ptr2.off
\* test_contiguous_pointers: the accesses in the order of their addresses; a
\* constant pointer is a free varnode.
Contiguous(most, least) ==
  LET first == IF bigendian THEN most ELSE least
      second == IF bigendian THEN least ELSE most
  IN  /\ most.space = least.space /\ first.ptr.base # "const"
      /\ adjacent_offsets(first.ptr, second.ptr, first.size)
First(most, least) == IF bigendian THEN most ELSE least
Earlier(a, b) == IF Index(b.id) < Index(a.id) THEN b ELSE a
Later(a, b) == IF Index(b.id) < Index(a.id) THEN a ELSE b
\* no_write_conflict: the operations from the first access, or from the
\* INDIRECTs in front of it when it is a store, to the last.
StartIndex(first) ==
  IF first.code # "STORE" THEN Index(first.id)
  ELSE CHOOSE i \in 1..Index(first.id) :
         /\ \A j \in i..(Index(first.id) - 1) : ops[j].code = "INDIRECT"
         /\ i > 1 => ops[i - 1].code # "INDIRECT"
Between(first, last) == {ops[i] : i \in StartIndex(first)..(Index(last.id) - 1)} \ {first}
MutConflicts(o, first, last) == o.code \in Blocking    \* mutant: other stores are not looked at
Conflicts(o, first, last) ==
  CASE o.code = "STORE" -> o.space = first.space
    [] o.code = "INDIRECT" -> o.aff \notin {first.id, last.id} /\ o.space = first.space
    [] OTHER -> o.code \in Blocking \/ (o.code = "COPY" /\ o.space = first.space)
no_write_conflict(first, last) == \A o \in Between(first, last) : ~Conflicts(o, first, last)
Collected(first, last) == {o \in Between(first, last) : o.code = "INDIRECT" /\ o.aff \in {first.id, last.id}}

RuleDoubleLoad(piece) ==
  \E hi, lo \in ToSet(ops) :
    LET cut == {o \in DefOf(piece.in[1]) : o.code = "SUBPIECE"}
        name == IF cut = {} THEN piece.in[1] ELSE (CHOOSE o \in cut : TRUE).in[1]
        offset == IF cut = {} THEN 0 ELSE hi.size - 1
        last == Later(hi, lo)
        first == First(hi, lo)
        new == [id |-> NewId, code |-> "LOAD", space |-> hi.space, size |-> (IF cut = {} THEN hi.size ELSE 1) + lo.size, in |-> <<>>,
                out |-> "whole", aff |-> 0, off |-> 0,
                ptr |-> IF bigendian THEN [first.ptr EXCEPT !.off = @ + offset] ELSE first.ptr]
    IN  /\ piece.code = "PIECE"
        /\ \A o \in cut : o.off = 0
        /\ hi \in DefOf(name) /\ hi.code = "LOAD" /\ lo \in DefOf(piece.in[2]) /\ lo.code = "LOAD"
        /\ Contiguous(hi, lo) /\ no_write_conflict(Earlier(hi, lo), last)
        /\ ops' = [InsertAt(ops, Index(last.id) + 1, new) EXCEPT
                     ![Index(piece.id) + 1] = [piece EXCEPT !.code = "COPY", !.in = <<"whole">>]]
        /\ UNCHANGED <<original, bigendian>>
----------------------------------------------------------------------------
\* test_indirect_use: what an INDIRECT of the first store gives is read between
\* the stores by one INDIRECT of the last at most, and then by nothing else.
test_indirect_use(first, last, indirects) ==
  \A ind \in indirects :
    LET uses == Reading(ind.out)
        inside == {o \in uses : Index(o.id) >= Index(first.id) /\ Index(o.id) <= Index(last.id)}
        bylast == {o \in inside : o.code = "INDIRECT" /\ o.aff = last.id}
    IN  /\ inside = bylast
        /\ bylast # {} => uses = bylast
        /\ Cardinality(bylast) <= 1
\* reassign_indirects: chains of two INDIRECTs become one; all move in front of
\* the new store.
Absorbed(indirects) == {o \in indirects : \E p \in indirects : o.out \in ToSet(p.in)}
Reassigned(o, new, indirects) ==
  LET early == {e \in indirects : e.out = o.in[1]}
  IN  [o EXCEPT !.aff = new, !.in = IF early = {} THEN @ ELSE (CHOOSE e \in early : TRUE).in]
Moved(new, indirects) ==
  LET kept == SelectSeq(ops, LAMBDA o : o \in indirects \ Absorbed(indirects))
  IN  [i \in DOMAIN kept |-> Reassigned(kept[i], new, indirects)]
RuleDoubleStore(low) ==
  \E high \in ToSet(ops) :
    LET first == Earlier(low, high)
        last == Later(low, high)
        indirects == Collected(first, last)
        new == [First(high, low) EXCEPT !.id = NewId, !.size = low.size + high.size, !.in = <<"W">>]
        gone == {low.id, high.id} \cup {o.id : o \in indirects}
    IN  /\ low.code = "STORE" /\ low.in = <<"lo">> /\ high.code = "STORE" /\ high.in = <<"hi">>
        /\ Contiguous(high, low) /\ no_write_conflict(first, last) /\ test_indirect_use(first, last, indirects)
        /\ ops' = Drop(SubSeq(ops, 1, Index(last.id)), gone) \o Moved(new.id, indirects) \o <<new>>
                  \o Drop(SubSeq(ops, Index(last.id) + 1, Len(ops)), gone)
        /\ UNCHANGED <<original, bigendian>>
Next ==
  \/ \E o \in ToSet(ops) : RuleDoubleLoad(o)
  \/ \E o \in ToSet(ops) : RuleDoubleStore(o)
----------------------------------------------------------------------------
\* Two accesses with other operations in front, between and behind.

Op(id, code, space, ptr, size, in, out, aff) ==
  [id |-> id, code |-> code, space |-> space, ptr |-> ptr, size |-> size, in |-> in, out |-> out, aff |-> aff, off |-> 0]
P(off) == [base |-> "p", off |-> off]
Q == [base |-> "q", off |-> 0]
Const == [base |-> "const", off |-> 0]
Store(id, ptr, val) == Op(id, "STORE", "ram", ptr, 1, <<val>>, "none", 0)
Load(id, ptr, size, out) == Op(id, "LOAD", "ram", ptr, size, <<>>, out, 0)
Indirect(id, in, out, aff) == Op(id, "INDIRECT", "ram", None, 1, <<in>>, out, aff)
Use(id, in) == Op(id, "USE", "none", None, 1, <<in>>, "none", 0)
\* Other operations an access may meet.
Others ==
  {Op(7, "STORE", "ram", Q, 1, <<"x">>, "none", 0), Op(7, "STORE", "io", Q, 1, <<"x">>, "none", 0), Op(7, "CALL", "none", None, 1, <<>>, "none", 0),
   Op(7, "COPY", "ram", None, 1, <<"x">>, "none", 0), Op(7, "COPY", "none", None, 1, <<"x">>, "y", 0)}
\* INDIRECTs stay right in front of their store.
Places(seq, new) == {InsertAt(seq, i, new) : i \in {j \in 1..(Len(seq) + 1) : j > 1 => seq[j - 1].code # "INDIRECT"}}
\* A load anywhere in the block, and a use of what it read behind it.
WithLoad(seq) == {Append(x, Use(8, "z")) : x \in Places(seq, Load(7, Q, 1, "z"))}
Halves == {<<Store(1, a, "lo"), Store(2, b, "hi")>> : a \in {P(0), P(1), Const}, b \in {P(0), P(1), P(2), Const}}
Pairs == Halves \cup {<<s[2], s[1]>> : s \in Halves}
\* INDIRECTs of the first store, of the last, of both, with their uses.
Guarded(pair) ==
  LET a == pair[1]
      b == pair[2]
      one == Indirect(3, "v", "v1", a.id)
      two == Indirect(4, "v1", "v2", b.id)
  IN  {<<one, a, b, Use(5, "v1")>>, <<a, Indirect(4, "v", "v2", b.id), b, Use(5, "v2")>>,
       <<one, a, two, b, Use(5, "v2")>>, <<one, a, Use(6, "v1"), two, b, Use(5, "v2")>>, <<one, a, two, b, Use(5, "v2"), Use(6, "v1")>>}
StoreBlocks == UNION {Places(s, o) : s \in Pairs, o \in Others} \cup UNION {WithLoad(s) : s \in Pairs} \cup UNION {Guarded(s) \cup UNION {Places(x, o) : x \in Guarded(s), o \in {Op(7, "STORE", "io", Q, 1, <<"x">>, "none", 0)}} : s \in {t \in Pairs : Const \notin {t[1].ptr, t[2].ptr}}}
LoadPairs ==
  {<<Load(1, a, 1, "l"), Load(2, b, n, "h")>> : a \in {P(0), P(1), P(2), Const}, b \in {P(0), P(1), P(2), Const}, n \in {1, 2}}
Cut(pair) ==
  LET wide == \E o \in ToSet(pair) : o.size = 2
      piece(in) == Op(5, "PIECE", "none", None, 2, <<in, "l">>, "w", 0)
  IN  IF wide THEN pair \o <<Op(4, "SUBPIECE", "none", None, 1, <<"h">>, "h1", 0), piece("h1"), Use(6, "w")>> ELSE pair \o <<piece("h"), Use(6, "w")>>
LoadBlocks ==
  LET blocks == {Cut(s) : s \in LoadPairs \cup {<<t[2], t[1]>> : t \in LoadPairs}}
  IN  UNION {Places(s, o) : s \in blocks, o \in Others} \cup UNION {WithLoad(s) : s \in blocks}
Init == /\ ops \in StoreBlocks \cup LoadBlocks /\ original = ops /\ bigendian \in BOOLEAN
----------------------------------------------------------------------------
\* What a block does for the bases of its pointers: the memory and the values.
AddressOf(env, ptr) == (env[ptr.base] + ptr.off) % Addresses
Cell(a, size, i) == (IF bigendian THEN a + size - i ELSE a + i - 1) % Addresses
Read(mem, a, size) == [i \in 1..size |-> mem[Cell(a, size, i)]]
Stored(mem, a, val) ==
  [c \in DOMAIN mem |-> LET hit == {i \in DOMAIN val : Cell(a, Len(val), i) = c} IN IF hit = {} THEN mem[c] ELSE val[CHOOSE i \in hit : TRUE]]
Covers(a, size) == \E i \in 1..size : Cell(a, size, i) = Location
SetVal(vals, name, val) == [n \in DOMAIN vals \cup {name} |-> IF n = name THEN val ELSE vals[n]]
\* A store gives their values to the INDIRECTs about it.
AfterStore(st, o, env, block) ==
  LET a == AddressOf(env, o.ptr)
      mem == IF o.space = "ram" THEN Stored(st.mem, a, st.vals[o.in[1]]) ELSE st.mem
      about == {i \in ToSet(block) : i.code = "INDIRECT" /\ i.aff = o.id}
      hit == o.space = "ram" /\ Covers(a, o.size)
  IN  [st EXCEPT !.mem = mem,
                 !.vals = [n \in DOMAIN @ \cup {i.out : i \in about} |->
                             IF \E i \in about : i.out = n
                             THEN (IF hit THEN <<mem[Location]>> ELSE st.vals[(CHOOSE i \in about : i.out = n).in[1]])
                             ELSE st.vals[n]],
                 !.other = IF o.space = "ram" THEN @ ELSE Append(@, <<a, st.vals[o.in[1]]>>)]
After(st, o, env, block) ==
  CASE o.code = "STORE" -> AfterStore(st, o, env, block)
    [] o.code = "LOAD" -> [st EXCEPT !.vals = SetVal(@, o.out, Read(st.mem, AddressOf(env, o.ptr), o.size))]
    [] o.code = "PIECE" -> [st EXCEPT !.vals = SetVal(@, o.out, st.vals[o.in[2]] \o st.vals[o.in[1]])]
    [] o.code = "SUBPIECE" -> [st EXCEPT !.vals = SetVal(@, o.out, <<st.vals[o.in[1]][1 + o.off]>>)]
    [] o.code = "COPY" /\ o.space = "ram" -> [st EXCEPT !.mem = [@ EXCEPT ![Location] = st.vals[o.in[1]][1]]]
    [] o.code = "COPY" /\ o.space # "ram" -> [st EXCEPT !.vals = SetVal(@, o.out, st.vals[o.in[1]])]
    [] o.code = "CALL" -> [st EXCEPT !.seen = Append(@, <<o.id, st.mem>>), !.mem = [a \in DOMAIN @ |-> Addresses + 3]]
    [] o.code = "USE" -> [st EXCEPT !.seen = Append(@, <<o.id, st.vals[o.in[1]]>>)]
    [] OTHER -> st
RunOf(block, env) ==
  FoldLeft(LAMBDA st, o : After(st, o, env, block),
           [mem |-> [a \in 0..(Addresses - 1) |-> a], vals |-> Given, other |-> <<>>, seen |-> <<>>], block)
Observed(block, env, except) ==
  LET end == RunOf(block, env) IN <<end.mem, end.other, SelectSeq(end.seen, LAMBDA s : s[1] \notin except)>>
\* The uses of what a LOAD read that stood between two stores, both of which are
\* gone, and reads a byte the earlier one wrote.
Overtaken(env) ==
  LET Gone(o) == o.code = "STORE" /\ \A p \in ToSet(ops) : p.id # o.id
      late == {k \in DOMAIN original :
                 /\ original[k].code = "LOAD"
                 /\ \E i \in 1..(k - 1), j \in (k + 1)..Len(original) :
                      /\ Gone(original[i]) /\ Gone(original[j])
                      /\ AddressOf(env, original[i].ptr) = AddressOf(env, original[k].ptr)}
  IN  {o.id : o \in {u \in ToSet(original) : u.code = "USE" /\ \E k \in late : u.in = <<original[k].out>>}}
\* A store in front of which there is no INDIRECT was found not to touch the
\* variable, when there are INDIRECTs about it at all.
Possible(env) ==
  (\E o \in ToSet(original) : o.code = "INDIRECT") =>
    \A o \in ToSet(original) :
      (o.code = "STORE" /\ o.space = "ram" /\ ~(\E i \in ToSet(original) : i.code = "INDIRECT" /\ i.aff = o.id)) =>
        ~Covers(AddressOf(env, o.ptr), o.size)
Envs == [{"p", "q", "const"} -> 0..(Addresses - 1)]
\* Joining two accesses changes neither what memory holds in the end, what any
\* operation reads, nor what a call finds in memory, wherever the pointers
\* point to (RuleDoubleLoad, RuleDoubleStore), with one exception: a LOAD between
\* two stores does not keep them from being joined (no_write_conflict), and no
\* longer reads what the earlier one wrote.
SameEffect ==
  ops # original =>
    \A env \in Envs : Possible(env) =>
      LET overtaken == Overtaken(env)
      IN  Observed(ops, env, overtaken) = Observed(original, env, overtaken)
\* Every INDIRECT is about a store that is still in the block and behind it, and
\* every operation reads what is there before it (reassign_indirects).
WellPlaced ==
  \A i \in DOMAIN ops :
    /\ ops[i].code = "INDIRECT" => \E j \in (i + 1)..Len(ops) : ops[j].id = ops[i].aff /\ ops[j].code = "STORE"
    /\ \A name \in ToSet(ops[i].in) : name \in DOMAIN Given \/ \E j \in 1..(i - 1) : ops[j].out = name
=============================================================================
