----------------------------- MODULE PcodeGraph -----------------------------
(***************************************************************************)
(* The data-flow graph of one function: the p-code ops and varnodes of     *)
(* Funcdata, the two ordered trees of VarnodeBank, and every primitive     *)
(* edit a rule or an action may make of them (funcdata_op.rs and           *)
(* funcdata_varnode.rs).  The edits are operators from graph to graph,     *)
(* composed as the code composes them; an edit that can fail also says     *)
(* what it leaves behind when it fails.                                    *)
(*                                                                         *)
(* Abstraction.  A storage location is an interval <<first, size>>.  A     *)
(* varnode's flags are the two that decide how it is indexed, and the one  *)
(* that marks a base register or a constant that stands for one.  Ids and  *)
(* create_index are handed out once in the code; here a destroyed id may   *)
(* be handed out again, which keeps the instance small (an op whose inputs *)
(* and output are all gone is as good as a new one), and a varnode's id    *)
(* stands for create_index (only its uniqueness among live ones matters).  *)
(* Types, covers and high variables are left out; of the properties of a   *)
(* symbol it matters only that applying them can fail.                     *)
(***************************************************************************)
EXTENDS Integers, SequencesExt, FiniteSets

CONSTANTS
  Ops,        \* ids of p-code ops that may be live at once
  Vns,        \* ids of varnodes that may be live at once
  Storage,    \* storage locations <<first, size>>
  Bases,      \* those of them that are base registers
  SpaceSize,  \* the addresses of their space are 0 .. SpaceSize - 1
  MaxInputs   \* bound on the inputs of one op

Nil == 0      \* None, for an id

VARIABLE fd   \* [op, vn, loc_tree, def_tree, half]: half is a varnode whose
              \* definition an error has left half made, or Nil

NoKey == <<>>              \* None, for a lociter or defiter
Constant == <<-1, 0>>      \* the location of every constant

(***************************************************************************)
(* Varnodes and their keys.                                                *)
(***************************************************************************)
Varnode(l) == [loc |-> l, flags |-> {}, def |-> Nil, descend |-> <<>>,
               lociter |-> NoKey, defiter |-> NoKey]

IsFree(n) == n.flags \cap {"INPUT", "WRITTEN"} = {}
IsInput(n) == "INPUT" \in n.flags
IsConstant(n) == n.loc = Constant
IsSpacebase(n) == "SPACEBASE" \in n.flags

\* loc_key and def_key hold the same fields and differ in their order only.
LocKey(f, v) ==
  LET n == f.vn[v]
      class == CASE IsInput(n) -> "input"
                 [] ~IsInput(n) /\ "WRITTEN" \in n.flags -> "written"
                 [] OTHER -> "free"
  IN <<n.loc, class, IF class = "written" THEN n.def ELSE Nil,
                     IF class = "free" THEN v ELSE Nil>>

Overlaps(a, b) == a[1] < b[1] + b[2] /\ b[1] < a[1] + a[2]

Put(t, k, v) == [x \in DOMAIN t \cup {k} |-> IF x = k THEN v ELSE t[x]]
Without(t, k) == [x \in DOMAIN t \ {k} |-> t[x]]

(***************************************************************************)
(* VarnodeBank.                                                            *)
(***************************************************************************)
EraseKeys(f, v) ==
  [f EXCEPT !.loc_tree = Without(@, f.vn[v].lociter),
            !.def_tree = Without(@, f.vn[v].defiter),
            !.vn[v].lociter = NoKey, !.vn[v].defiter = NoKey]

InsertKeys(f, v) ==
  LET k == LocKey(f, v)
  IN [f EXCEPT !.loc_tree = Put(@, k, v), !.def_tree = Put(@, k, v),
               !.vn[v].lociter = k, !.vn[v].defiter = k]

GetSlot(o, v) ==
  CHOOSE s \in DOMAIN o.ins : o.ins[s] = v /\ \A t \in 1..(s-1) : o.ins[t] # v

\* Move the readers of old to new, except an op that new is the output of.
Replace(f, old, new) ==
  LET Move(g, o) ==
        IF g.op[o].out = new THEN g
        ELSE [g EXCEPT !.vn[old].descend = RemoveFirst(@, o),
                       !.vn[new].descend = Append(@, o),
                       !.op[o].ins[GetSlot(g.op[o], old)] = new]
  IN FoldLeft(Move, f, f.vn[old].descend)

\* Index v, or merge it into the varnode that already holds its key.
Xref(f, v) ==
  LET k == LocKey(f, v)
  IN IF k \in DOMAIN f.loc_tree
     THEN LET g == Replace(f, v, f.loc_tree[k])
          IN [fd |-> [g EXCEPT !.vn = Without(@, v)], ret |-> f.loc_tree[k]]
     ELSE [fd |-> InsertKeys(f, v), ret |-> v]

FreshVn(f) == CHOOSE v \in Vns \ DOMAIN f.vn : \A w \in Vns \ DOMAIN f.vn : v <= w

Create(f, l) ==
  LET v == FreshVn(f)
  IN [fd |-> InsertKeys([f EXCEPT !.vn = Put(@, v, Varnode(l))], v), ret |-> v]

CreateDef(f, l, o) ==
  LET v == FreshVn(f)
      n == [Varnode(l) EXCEPT !.def = o, !.flags = {"WRITTEN"}]
  IN Xref([f EXCEPT !.vn = Put(@, v, n)], v)

SetInput(f, v) ==
  IF ~IsFree(f.vn[v]) \/ IsConstant(f.vn[v])
  THEN [fd |-> f, ret |-> Nil]
  ELSE Xref([EraseKeys(f, v) EXCEPT !.vn[v].flags = @ \cup {"INPUT"}], v)

SetDef(f, v, o) ==
  IF ~IsFree(f.vn[v]) \/ IsConstant(f.vn[v])
  THEN [fd |-> f, ret |-> Nil]
  ELSE Xref([EraseKeys(f, v) EXCEPT !.vn[v].flags = @ \cup {"WRITTEN"},
                                    !.vn[v].def = o], v)

MakeFree(f, v) ==
  InsertKeys([EraseKeys(f, v) EXCEPT !.vn[v].flags = @ \ {"INPUT", "WRITTEN"},
                            !.vn[v].def = Nil], v)

CheckDestroy(f, v) == f.vn[v].def = Nil /\ f.vn[v].descend = <<>>

\* delete_varnode: refused while the varnode is still defined or read.
DeleteVarnode(f, v) ==
  IF CheckDestroy(f, v)
  THEN [EraseKeys(f, v) EXCEPT !.vn = Without(@, v)]
  ELSE f

\* What verify_integrity reports as an error is its negation.
VerifyIntegrity(f) ==
  /\ \A k \in DOMAIN f.loc_tree :
       LET d == f.vn[f.loc_tree[k]].defiter
       IN d \in DOMAIN f.def_tree /\ f.def_tree[d] = f.loc_tree[k]
  /\ \A k \in DOMAIN f.def_tree :
       LET l == f.vn[f.def_tree[k]].lociter
       IN l \in DOMAIN f.loc_tree /\ f.loc_tree[l] = f.def_tree[k]

(***************************************************************************)
(* Funcdata: the edits of one op.                                          *)
(***************************************************************************)
OpUnsetOutput(f, o) ==
  LET v == f.op[o].out
  IN IF v = Nil THEN f ELSE MakeFree([f EXCEPT !.op[o].out = Nil], v)

\* When v is a constant or an input, set_def fails after o lost its output.  When
\* the properties of a symbol cannot be applied (~props), the call ends before o is
\* given the output that already names it.
OpSetOutput(f, o, v, props) ==
  IF v = f.op[o].out THEN f
  ELSE LET a == OpUnsetOutput(f, o)
           d == a.vn[v].def
           b == IF d # Nil THEN OpUnsetOutput(a, d) ELSE a
           r == SetDef(b, v, o)
       IN CASE r.ret = Nil -> r.fd
            [] r.ret # Nil /\ props -> [r.fd EXCEPT !.op[o].out = r.ret]
            [] r.ret # Nil /\ ~props -> [r.fd EXCEPT !.half = r.ret]

OpUnsetInput(f, o, s) ==
  [f EXCEPT !.vn[f.op[o].ins[s]].descend = RemoveFirst(@, o),
            !.op[o].ins[s] = Nil]

\* The read of v by slot s, refused when v is free and already read; a spacebase
\* may be read any number of times.
AddDescend(f, o, v, s) ==
  IF IsFree(f.vn[v]) /\ ~IsSpacebase(f.vn[v]) /\ f.vn[v].descend # <<>>
  THEN [fd |-> f, ok |-> FALSE]
  ELSE [fd |-> [f EXCEPT !.vn[v].descend = Append(@, o), !.op[o].ins[s] = v],
        ok |-> TRUE]

\* A constant that is read elsewhere is duplicated first, unless it is a spacebase;
\* when add_descend refuses, the slot has already lost what it held.
OpSetInput(f, o, v, s) ==
  IF f.op[o].ins[s] = v THEN [fd |-> f, ok |-> TRUE]
  ELSE LET n == f.vn[v]
           c == IF IsConstant(n) /\ n.descend # <<>> /\ ~IsSpacebase(n)
                THEN Create(f, Constant) ELSE [fd |-> f, ret |-> v]
           g == IF f.op[o].ins[s] # Nil THEN OpUnsetInput(c.fd, o, s) ELSE c.fd
       IN AddDescend(g, o, c.ret, s)

OpSwapInput(f, o, s, t) ==
  [f EXCEPT !.op[o].ins[s] = f.op[o].ins[t], !.op[o].ins[t] = f.op[o].ins[s]]

OpRemoveInput(f, o, s) ==
  LET g == OpUnsetInput(f, o, s) IN [g EXCEPT !.op[o].ins = RemoveAt(@, s)]

OpInsertInput(f, o, v, s) ==
  OpSetInput([f EXCEPT !.op[o].ins = InsertAt(@, s, Nil)], o, v, s)

UnsetAll(f, o) ==
  LET Unset(g, s) == IF g.op[o].ins[s] # Nil THEN OpUnsetInput(g, o, s) ELSE g
  IN FoldLeft(Unset, f, [s \in DOMAIN f.op[o].ins |-> s])

\* The first input that is refused ends the call; the later slots stay empty.
OpSetAllInput(f, o, vvec) ==
  LET g == UnsetAll(f, o)
      h == [g EXCEPT !.op[o].ins = [s \in DOMAIN vvec |-> Nil]]
      Fill(r, s) == IF r.ok THEN OpSetInput(r.fd, o, vvec[s], s) ELSE r
  IN FoldLeft(Fill, [fd |-> h, ok |-> TRUE], [s \in DOMAIN vvec |-> s])

\* Every reader's slot is cleared, the defining op loses its output.
DestroyVarnode(f, v) ==
  LET Clear(g, o) == [g EXCEPT !.op[o].ins[GetSlot(g.op[o], v)] = Nil]
      a == FoldLeft(Clear, f, f.vn[v].descend)
      d == f.vn[v].def
      b == IF d # Nil THEN [a EXCEPT !.op[d].out = Nil, !.vn[v].def = Nil] ELSE a
  IN DeleteVarnode([b EXCEPT !.vn[v].descend = <<>>], v)

OpDestroy(f, o) ==
  LET g == IF f.op[o].out # Nil THEN DestroyVarnode(f, f.op[o].out) ELSE f
  IN UnsetAll(g, o)

MutOpUnlink(f, o) ==   \* the inputs go on listing the op as a reader
  [OpUnsetOutput(f, o) EXCEPT !.op[o].ins = [s \in DOMAIN @ |-> Nil]]

OpUnlink(f, o) == UnsetAll(OpUnsetOutput(f, o), o)

OpDestroyRaw(f, o) ==
  LET Kill(g, s) == DestroyVarnode(g, f.op[o].ins[s])
      g == FoldLeft(Kill, f, [s \in DOMAIN f.op[o].ins |-> s])
  IN IF g.op[o].out # Nil THEN DestroyVarnode(g, g.op[o].out) ELSE g

MutLoneDescend(n) == n.descend # <<>>   \* any reader will do

LoneDescend(n) == Len(n.descend) = 1

\* op_destroy_recursive: scratch is the worklist; the op at pos is destroyed
\* after the definitions only it reads were added.  Keep is the set of ops that
\* are calls or indirect sources or whose output is auto live.
DestroyWalk(f, o, keep) ==
  LET Dies(g, v) == /\ v # Nil /\ "WRITTEN" \in g.vn[v].flags
                    /\ LoneDescend(g.vn[v]) /\ g.vn[v].def \notin keep
      Defs(g, p) ==
        LET ins == g.op[p].ins
            Push(defs, s) == IF Dies(g, ins[s]) THEN Append(defs, g.vn[ins[s]].def) ELSE defs
        IN FoldLeft(Push, <<>>, [s \in DOMAIN ins |-> s])
      Walk[pos \in 0..Cardinality(Ops)] ==
        IF pos = 0 THEN [fd |-> f, scratch |-> <<o>>]
        ELSE LET w == Walk[pos - 1]
             IN IF pos > Len(w.scratch) THEN w
                ELSE [fd |-> OpDestroy(w.fd, w.scratch[pos]),
                      scratch |-> w.scratch \o Defs(w.fd, w.scratch[pos])]
  IN Walk[Cardinality(Ops)]

OpDestroyRecursive(f, o, keep) == DestroyWalk(f, o, keep).fd

TotalReplace(f, v, new) ==
  LET Step(r, o) == IF r.ok THEN OpSetInput(r.fd, o, new, GetSlot(r.fd.op[o], v)) ELSE r
  IN FoldLeft(Step, [fd |-> f, ok |-> TRUE], f.vn[v].descend)

\* The inputs that start last among those that start below end.
LastInputBelow(f, end) ==
  LET S == {k \in DOMAIN f.def_tree : k[2] = "input" /\ k[1][1] < end}
      Follows(k, m) == m[1][1] < k[1][1] \/ (m[1][1] = k[1][1] /\ m[1][2] <= k[1][2])
  IN {f.def_tree[k] : k \in {k \in S : \A m \in S : Follows(k, m)}}

MutPrevious(f, l) ==   \* searched from the start of l, not from its end
  LastInputBelow(f, l[1] + 1)

\* The predecessor of begin_def_addr(INPUT, l + size), when that is an input.  The
\* sum wraps: after a location at the top of its space the search starts at 0.
Previous(f, l) == LastInputBelow(f, (l[1] + l[2]) % SpaceSize)

SetInputVarnode(f, v) ==
  IF IsInput(f.vn[v]) \/ \E w \in Previous(f, f.vn[v].loc) : Overlaps(f.vn[v].loc, f.vn[w].loc)
  THEN [fd |-> f, ret |-> Nil]
  ELSE SetInput(f, v)

(***************************************************************************)
(* One action per edit.  A guard on an op's slots states where the code    *)
(* would panic instead ("missing p-code op input").                        *)
(***************************************************************************)
Room(n) == Cardinality(Vns \ DOMAIN fd.vn) >= n
Filled(o) == \A s \in DOMAIN fd.op[o].ins : fd.op[o].ins[s] # Nil
Slots(o) == DOMAIN fd.op[o].ins
Blank(o) == fd.op[o].out = Nil /\ \A s \in Slots(o) : fd.op[o].ins[s] = Nil

Empty == [op |-> [o \in Ops |-> [ins |-> <<>>, out |-> Nil]],
          vn |-> <<>>, loc_tree |-> <<>>, def_tree |-> <<>>, half |-> Nil]

Init == fd = Empty

NewOp == \E o \in Ops, n \in 0..MaxInputs :
  /\ Blank(o)
  /\ fd' = [fd EXCEPT !.op[o].ins = [s \in 1..n |-> Nil]]

NewVarnode == \E l \in Storage \cup {Constant} : Room(1) /\ fd' = Create(fd, l).fd

\* The callers give an output only to an op that has none.
NewVarnodeOut == \E o \in Ops, l \in Storage :
  /\ Room(1) /\ fd.op[o].out = Nil
  /\ LET r == CreateDef(fd, l, o) IN fd' = [r.fd EXCEPT !.op[o].out = r.ret]

\* construct_const_spacebase
NewSpacebase ==
  /\ Bases # {} /\ Room(1)
  /\ LET r == Create(fd, Constant) IN fd' = [r.fd EXCEPT !.vn[r.ret].flags = {"SPACEBASE"}]

\* Funcdata::spacebase, for a base register.  A marked varnode that an
\* INT_ADD defines has its uses split as well: here no op is one.
Spacebase == \E l \in Bases :
  fd' = [fd EXCEPT !.vn = [v \in DOMAIN @ |->
           IF @[v].loc = l /\ ~IsFree(@[v])
           THEN [@[v] EXCEPT !.flags = @ \cup {"SPACEBASE"}] ELSE @[v]]]

SetOutput == \E o \in Ops, v \in DOMAIN fd.vn, props \in BOOLEAN :
  fd' = OpSetOutput(fd, o, v, props)

UnsetOutput == \E o \in Ops : fd' = OpUnsetOutput(fd, o)

ReadBy == \E o \in Ops, v \in DOMAIN fd.vn : \E s \in Slots(o) :
  Room(1) /\ fd' = OpSetInput(fd, o, v, s).fd

UnsetInput == \E o \in Ops : \E s \in Slots(o) :
  fd.op[o].ins[s] # Nil /\ fd' = OpUnsetInput(fd, o, s)

SwapInput == \E o \in Ops : \E s, t \in Slots(o) : s < t /\ fd' = OpSwapInput(fd, o, s, t)

RemoveInput == \E o \in Ops : \E s \in Slots(o) :
  fd.op[o].ins[s] # Nil /\ fd' = OpRemoveInput(fd, o, s)

InsertInput == \E o \in Ops, v \in DOMAIN fd.vn : \E s \in 1..(Len(fd.op[o].ins) + 1) :
  /\ Room(1) /\ Len(fd.op[o].ins) < MaxInputs
  /\ fd' = OpInsertInput(fd, o, v, s).fd

SetAllInput == \E o \in Ops, n \in 1..MaxInputs : \E vvec \in [1..n -> DOMAIN fd.vn] :
  Room(n) /\ fd' = OpSetAllInput(fd, o, vvec).fd

Unlink == \E o \in Ops : Filled(o) /\ fd' = OpUnlink(fd, o)

Destroy == \E o \in Ops : fd' = OpDestroy(fd, o)

\* Every caller starts from an op without an output, or whose output nothing reads.
Unread(o) == fd.op[o].out # Nil => fd.vn[fd.op[o].out].descend = <<>>

DestroyRecursive == \E o \in Ops : \E keep \in SUBSET (Ops \ {o}) :
  /\ Unread(o) /\ \A p \in Ops : Filled(p)
  /\ fd' = OpDestroyRecursive(fd, o, keep)

\* Raw p-code, whose inputs are pairwise distinct.
DestroyRaw == \E o \in Ops :
  /\ Filled(o) /\ \A s, t \in Slots(o) : fd.op[o].ins[s] = fd.op[o].ins[t] => s = t
  /\ \A s \in Slots(o) : fd.op[o].ins[s] # fd.op[o].out
  /\ fd' = OpDestroyRaw(fd, o)

DestroyVn == \E v \in DOMAIN fd.vn : fd' = DestroyVarnode(fd, v)

DeleteVn == \E v \in DOMAIN fd.vn : fd' = DeleteVarnode(fd, v)

MakeInput == \E v \in DOMAIN fd.vn : fd' = SetInputVarnode(fd, v).fd

MoveReaders == \E v, new \in DOMAIN fd.vn :
  v # new /\ Room(Len(fd.vn[v].descend)) /\ fd' = TotalReplace(fd, v, new).fd

Edit == NewOp \/ NewVarnode \/ NewVarnodeOut \/ NewSpacebase \/ Spacebase
        \/ SetOutput \/ UnsetOutput \/ ReadBy
        \/ UnsetInput \/ SwapInput \/ RemoveInput \/ InsertInput \/ SetAllInput
        \/ Unlink \/ Destroy \/ DestroyRecursive \/ DestroyRaw \/ DestroyVn \/ DeleteVn
        \/ MakeInput \/ MoveReaders

\* Funcdata::clear, before a function is analysed again.
Clear == fd' = Empty

\* The error that leaves a definition half made ends the analysis of the function:
\* no caller handles it.
Next == (fd.half = Nil /\ Edit) \/ Clear

Spec == Init /\ [][Next]_fd
-----------------------------------------------------------------------------
\* Every op and varnode record has its fields, and ids stay in range.
TypeOK ==
  /\ fd.op \in [Ops -> [ins : UNION {[1..n -> Vns \cup {Nil}] : n \in 0..MaxInputs},
                        out : Vns \cup {Nil}]]
  /\ DOMAIN fd.vn \subseteq Vns
  /\ \A v \in DOMAIN fd.vn :
       /\ fd.vn[v].loc \in Storage \cup {Constant}
       /\ fd.vn[v].flags \subseteq {"INPUT", "WRITTEN", "SPACEBASE"}
       /\ fd.vn[v].def \in Ops \cup {Nil}
       /\ \A i \in DOMAIN fd.vn[v].descend : fd.vn[v].descend[i] \in Ops

\* The two ends of a definition agree after every edit, failed edits included:
\* an op's output exists and names that op as its definition, a varnode's
\* definition has it as its output, and WRITTEN is set exactly when there is
\* one (op_set_output, op_unset_output, set_def, make_free, destroy_varnode).  One
\* failure alone leaves a definition that its op does not know of: that of
\* set_varnode_properties in op_set_output (funcdata_op.rs:168-170).
DefinitionsAgree ==
  /\ \A o \in Ops : fd.op[o].out # Nil =>
       fd.op[o].out \in DOMAIN fd.vn /\ fd.vn[fd.op[o].out].def = o
  /\ \A v \in DOMAIN fd.vn :
       /\ fd.vn[v].def # Nil => fd.op[fd.vn[v].def].out = IF v = fd.half THEN Nil ELSE v
       /\ ("WRITTEN" \in fd.vn[v].flags) = (fd.vn[v].def # Nil)
       /\ ~({"INPUT", "WRITTEN"} \subseteq fd.vn[v].flags)

\* Readers and slots agree with multiplicity: op o is in v's descend list as
\* often as v is in o's slots, so no slot names a destroyed varnode and no list
\* names an op that reads something else (op_set_input, op_unset_input,
\* op_set_all_input, total_replace, destroy_varnode).
ReadersAgree ==
  /\ \A o \in Ops : \A s \in DOMAIN fd.op[o].ins :
       fd.op[o].ins[s] \in DOMAIN fd.vn \cup {Nil}
  /\ \A v \in DOMAIN fd.vn, o \in Ops :
       Cardinality({i \in DOMAIN fd.vn[v].descend : fd.vn[v].descend[i] = o})
         = Cardinality({s \in DOMAIN fd.op[o].ins : fd.op[o].ins[s] = v})

\* The trees of the bank are an index of the live varnodes under the keys their
\* present flags and definition give, and verify_integrity has nothing to report
\* (erase_keys, insert_keys, xref, make_free).
BankIndexed ==
  /\ \A v \in DOMAIN fd.vn :
       /\ fd.vn[v].lociter = LocKey(fd, v) /\ fd.vn[v].defiter = LocKey(fd, v)
       /\ LocKey(fd, v) \in DOMAIN fd.loc_tree /\ fd.loc_tree[LocKey(fd, v)] = v
  /\ \A k \in DOMAIN fd.loc_tree : fd.loc_tree[k] \in DOMAIN fd.vn
  /\ Cardinality(DOMAIN fd.loc_tree) = Cardinality(DOMAIN fd.vn)
  /\ VerifyIntegrity(fd)

AtTop(n) == n.loc[1] + n.loc[2] = SpaceSize

\* set_input_varnode looks at one neighbour only, and still no two inputs of the
\* function ever overlap, unless one of them ends at the top of its space: there the
\* address after it wraps to 0 and no neighbour is looked at (address.rs:142-148).
InputsDisjoint ==
  \A v, w \in DOMAIN fd.vn :
    /\ v # w /\ IsInput(fd.vn[v]) /\ IsInput(fd.vn[w])
    /\ ~AtTop(fd.vn[v]) /\ ~AtTop(fd.vn[w])
    => ~Overlaps(fd.vn[v].loc, fd.vn[w].loc)

\* op_destroy_recursive reaches every op at most once (a second visit would meet the
\* slots it has emptied and panic), takes nothing from an op that stays, and leaves no
\* op behind that only destroyed ops read, one slot each (funcdata_op.rs:243-267).
ChainDestroyed ==
  \A o \in Ops : \A keep \in SUBSET (Ops \ {o}) :
    Unread(o) /\ (\A p \in Ops : Filled(p)) =>
      LET w == DestroyWalk(fd, o, keep)
          gone == ToSet(w.scratch)
          Readers(p) == fd.vn[fd.op[p].out].descend
      IN /\ IsInjective(w.scratch)
         /\ \A p \in Ops \ gone :
              /\ w.fd.op[p] = fd.op[p]
              /\ p \notin keep /\ fd.op[p].out # Nil /\ IsInjective(Readers(p))
                   => Readers(p) = <<>> \/ ~(ToSet(Readers(p)) \subseteq gone)
=============================================================================
