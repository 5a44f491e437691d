------------------------------- MODULE OpBank -------------------------------
(***************************************************************************)
(* The order numbers of the ops of one basic block (block_insert_op,       *)
(* block_set_order, block_remove_op of block.rs).  Covers, merging, alias  *)
(* tests and loop printing compare two ops of a block by these u32 numbers *)
(* instead of walking the list.  An insertion takes the midpoint of its    *)
(* neighbours' numbers and renumbers the whole block only when it sees no  *)
(* gap.  ord[i] is the number of the i-th op; which op it is plays no role.*)
(***************************************************************************)
EXTENDS Naturals, Integers, Sequences

CONSTANTS
  MaxOrder,   \* u32::MAX
  Gap,        \* 0x1000000, the room left after the last op
  MaxLen      \* bound on the ops of a block

ASSUME OrderAssumption ==
  /\ MaxOrder \in Nat /\ Gap \in Nat /\ MaxLen \in Nat \ {0}
  /\ 4 <= Gap /\ Gap < MaxOrder
  /\ 4 * MaxLen <= MaxOrder

VARIABLE ord

Wrap(x) == x % (MaxOrder + 1)

\* block_set_order for a block of n ops.
BlockSetOrder(n) ==
  LET step == (MaxOrder \div n) - 1 IN [i \in 1..n |-> i * step]

OrdBefore(s, i) == IF i = 1 THEN 2 ELSE s[i - 1]

MutOrdAfter(s, i) ==   \* the wrapped candidate is used as it is
  IF i = Len(s) + 1 THEN Wrap(OrdBefore(s, i) + Gap) ELSE s[i]

OrdAfter(s, i) ==
  IF i = Len(s) + 1
  THEN LET candidate == Wrap(OrdBefore(s, i) + Gap)
       IN IF candidate <= OrdBefore(s, i) THEN MaxOrder ELSE candidate
  ELSE s[i]

NoRoom(s, i) == Wrap(OrdAfter(s, i) - OrdBefore(s, i)) <= 1

Midpoint(s, i) == (OrdAfter(s, i) \div 2) + (OrdBefore(s, i) \div 2)

Inserted(s, i, x) ==
  [j \in 1..(Len(s) + 1) |-> IF j < i THEN s[j] ELSE IF j = i THEN x ELSE s[j - 1]]

\* block_insert_op: the new op becomes the i-th.
BlockInsertOp(s, i) ==
  IF NoRoom(s, i) THEN BlockSetOrder(Len(s) + 1) ELSE Inserted(s, i, Midpoint(s, i))

BlockRemoveOp(s, i) == [j \in 1..(Len(s) - 1) |-> IF j < i THEN s[j] ELSE s[j + 1]]

Init == ord = <<>>

Insert == \E i \in 1..(Len(ord) + 1) : Len(ord) < MaxLen /\ ord' = BlockInsertOp(ord, i)

Remove == \E i \in 1..Len(ord) : ord' = BlockRemoveOp(ord, i)

\* splice_block_basic: a final branch is destroyed, the m ops of the successor
\* are appended, and the whole block is renumbered.  (An empty successor, or one
\* that is refused for its MULTIEQUAL, leaves only the removal.)
Splice == \E branch \in {0, 1}, m \in 1..MaxLen :
  /\ branch <= Len(ord) /\ (Len(ord) - branch) + m <= MaxLen
  /\ ord' = BlockSetOrder((Len(ord) - branch) + m)

Next == Insert \/ Remove \/ Splice

Spec == Init /\ [][Next]_ord
-----------------------------------------------------------------------------
\* A block is a sequence of u32 numbers, none of them below the 2 that an
\* insertion at the head takes for its left neighbour.
TypeOK ==
  /\ ord \in Seq(Nat) /\ Len(ord) <= MaxLen
  /\ \A i \in 1..Len(ord) : 2 <= ord[i] /\ ord[i] <= MaxOrder

\* The numbers never decrease along the block, through any series of insertions
\* at any place, removals and renumberings: "order(a) < order(b)" is never true
\* of two ops in the wrong order (block_insert_op, block_set_order).
OrderNeverDecreases ==
  \A i \in 1..(Len(ord) - 1) : ord[i] <= ord[i + 1]

\* Two neighbours can share a number, but only an odd one: the midpoint of two
\* odd numbers two apart rounds down to the left one.  Between neighbours whose
\* left number is even the order is strict (block_insert_op).
TiesAreOdd ==
  \A i \in 1..(Len(ord) - 1) : ord[i] = ord[i + 1] => ord[i] % 2 = 1

\* The order numbers of a block tell which of two ops comes first: they stay in
\* range and in order, and only odd ones are shared (the three properties above).
OrderKept == TypeOK /\ OrderNeverDecreases /\ TiesAreOdd
-----------------------------------------------------------------------------
(***************************************************************************)
(* PcodeOpBank (op.rs) and the placement of ops in basic blocks (op_insert *)
(* and its callers in funcdata_op.rs).  The bank indexes an op in one of   *)
(* two trees, keeps it on the dead or the alive list, and keeps STORE,     *)
(* LOAD, RETURN and CALLOTHER ops on a list of their own; all lists are    *)
(* intrusive, so an op taken off a list it is not on corrupts the list.    *)
(* Placement keeps MULTIEQUALs at the head of their block and INDIRECTs    *)
(* right before the op whose effect they stand for.                        *)
(*                                                                         *)
(* Abstraction.  "Store" stands for an op with indirect effects and a code *)
(* list, "Branch" for every flow break, "Copy" for every other op.  The    *)
(* dead, alive and code lists are sets: their order plays no role here.    *)
(* An id that the bank destroyed may be used again, unless an INDIRECT     *)
(* still names it (the code never uses an id twice).                       *)
(***************************************************************************)

CONSTANTS Ops, Blocks

Nil == 0

ASSUME BankAssumption == Nil \notin Ops \cup Blocks

VARIABLE bank

Codes == {"Blank", "Copy", "Store", "Branch", "Multiequal", "Indirect"}

Existing(b) == {o \in Ops : b.status[o] # "gone"}

(***************************************************************************)
(* PcodeOpBank.                                                            *)
(***************************************************************************)
AddToCodeList(b, o) ==
  IF b.code[o] = "Store" THEN [b EXCEPT !.codelist = @ \cup {o}] ELSE b

RemoveFromCodeList(b, o) ==
  IF b.code[o] = "Store" THEN [b EXCEPT !.codelist = @ \ {o}] ELSE b

\* A new op is blank and dead; it goes to the tree its caller names.
CreateDead(b, o) ==
  [b EXCEPT !.status[o] = "dead", !.code[o] = "Blank", !.target[o] = Nil,
            !.optree = @ \cup {o}, !.deadlist = @ \cup {o}]

CreateDeadAlt(b, o) ==
  [b EXCEPT !.status[o] = "dead", !.code[o] = "Blank", !.target[o] = Nil,
            !.alttree = @ \cup {o}, !.deadlist = @ \cup {o}]

\* The op leaves its tree and its list; its record is not looked at again.
Forget(b, o) ==
  [b EXCEPT !.status[o] = "gone", !.code[o] = "Blank", !.target[o] = Nil,
            !.optree = IF b.code[o] = "Indirect" THEN @ ELSE @ \ {o},
            !.alttree = IF b.code[o] = "Indirect" THEN @ \ {o} ELSE @,
            !.deadlist = @ \ {o}]

\* destroy: an op that is not dead is refused.
Destroy(b, o) == IF b.status[o] # "dead" THEN b ELSE Forget(RemoveFromCodeList(b, o), o)

\* destroy_dead destroys the ops of the dead list one after the other; no two of
\* them touch the same entries.
DestroyDead(b) ==
  LET dead     == b.deadlist
      indirect == {o \in dead : b.code[o] = "Indirect"}
      stores   == {o \in dead : b.code[o] = "Store"}
  IN  [b EXCEPT !.status = [o \in Ops |-> IF o \in dead THEN "gone" ELSE @[o]],
                !.code   = [o \in Ops |-> IF o \in dead THEN "Blank" ELSE @[o]],
                !.target = [o \in Ops |-> IF o \in dead THEN Nil ELSE @[o]],
                !.optree = @ \ (dead \ indirect), !.alttree = @ \ indirect,
                !.codelist = @ \ stores, !.deadlist = {}]

MutChangeOpcode(b, o, c) ==   \* an INDIRECT stays in its tree
  AddToCodeList([RemoveFromCodeList(b, o) EXCEPT !.code[o] = c], o)

ChangeOpcode(b, o, c) ==
  LET r == IF b.code[o] = "Blank" THEN b ELSE RemoveFromCodeList(b, o)
      t == IF b.code[o] = "Indirect"
           THEN [r EXCEPT !.alttree = @ \ {o}, !.optree = @ \cup {o}] ELSE r
  IN AddToCodeList([t EXCEPT !.code[o] = c], o)

MarkAlive(b, o) == [b EXCEPT !.deadlist = @ \ {o}, !.status[o] = "alive",
                             !.alivelist = @ \cup {o}]

MarkDead(b, o) == [b EXCEPT !.alivelist = @ \ {o}, !.status[o] = "dead",
                            !.deadlist = @ \cup {o}]

(***************************************************************************)
(* Placement.  A position p is the index the op gets in its block.         *)
(***************************************************************************)
PlacedAt(s, p, o) ==
  [i \in 1..(Len(s) + 1) |-> IF i < p THEN s[i] ELSE IF i = p THEN o ELSE s[i - 1]]

TakenFrom(s, p) == [i \in 1..(Len(s) - 1) |-> IF i < p THEN s[i] ELSE s[i + 1]]

Position(b, o) ==
  CHOOSE p \in DOMAIN b.block[b.parent[o]] : b.block[b.parent[o]][p] = o

OpInsert(b, o, bl, p) ==
  [MarkAlive(b, o) EXCEPT !.parent[o] = bl, !.block[bl] = PlacedAt(@, p, o)]

OpUninsert(b, o) ==
  [MarkDead(b, o) EXCEPT !.parent[o] = Nil,
                         !.block[b.parent[o]] = TakenFrom(@, Position(b, o))]

\* The first position at or after p whose op is no MULTIEQUAL.
PastMultiequals(b, bl, p) ==
  CHOOSE q \in p..(Len(b.block[bl]) + 1) :
    /\ \A r \in p..(q - 1) : b.code[b.block[bl][r]] = "Multiequal"
    /\ q <= Len(b.block[bl]) => b.code[b.block[bl][q]] # "Multiequal"

\* The position of the first of the INDIRECTs that run up to position p.
BeforeIndirects(b, bl, p) ==
  CHOOSE q \in 1..p :
    /\ \A r \in q..(p - 1) : b.code[b.block[bl][r]] = "Indirect"
    /\ q > 1 => b.code[b.block[bl][q - 1]] # "Indirect"

MutInsertBefore(b, o, follow) ==   \* right before follow, whatever precedes it
  OpInsert(b, o, b.parent[follow], Position(b, follow))

InsertBefore(b, o, follow) ==
  LET p == Position(b, follow)
      bl == b.parent[follow]
  IN OpInsert(b, o, bl, IF b.code[o] # "Indirect" THEN BeforeIndirects(b, bl, p) ELSE p)

\* After an INDIRECT means after the op it stands for, unless that is dead.
InsertAfter(b, o, prev) ==
  LET t == b.target[prev]
      at == IF b.code[prev] = "Indirect" /\ b.status[t] = "alive" THEN t ELSE prev
      p == Position(b, at) + 1
      bl == b.parent[at]
  IN OpInsert(b, o, bl, IF b.code[o] # "Multiequal" THEN PastMultiequals(b, bl, p) ELSE p)

InsertBegin(b, o, bl) ==
  OpInsert(b, o, bl, IF b.code[o] # "Multiequal" THEN PastMultiequals(b, bl, 1) ELSE 1)

InsertEnd(b, o, bl) ==
  LET n == Len(b.block[bl])
  IN OpInsert(b, o, bl, IF n > 0 /\ b.code[b.block[bl][n]] = "Branch" THEN n ELSE n + 1)

(***************************************************************************)
(* The actions.  The guards state what the callers keep to: an INDIRECT is *)
(* made only by new_indirect, for an op in a block, and inserted before    *)
(* it; a MULTIEQUAL is inserted at the beginning; nothing is inserted      *)
(* before a MULTIEQUAL or after a branch; an op with INDIRECTs is not      *)
(* moved.                                                                  *)
(***************************************************************************)
HasIndirects(o) == \E i \in Existing(bank) : bank.code[i] = "Indirect" /\ bank.target[i] = o
Unused(o) == bank.status[o] = "gone" /\ ~HasIndirects(o)
Ready(o, codes) == bank.status[o] = "dead" /\ bank.code[o] \in codes /\ ~HasIndirects(o)
Alive(o, codes) == bank.status[o] = "alive" /\ bank.code[o] \in codes

BankInit == bank =
  [status |-> [o \in Ops |-> "gone"], code |-> [o \in Ops |-> "Blank"],
   target |-> [o \in Ops |-> Nil], parent |-> [o \in Ops |-> Nil],
   optree |-> {}, alttree |-> {}, deadlist |-> {}, alivelist |-> {}, codelist |-> {},
   block |-> [bl \in Blocks |-> <<>>]]

NewOp == \E o \in Ops : Unused(o) /\ bank' = CreateDead(bank, o)

NewIndirect == \E o, t \in Ops :
  /\ Unused(o) /\ Alive(t, {"Store"})
  /\ LET n == ChangeOpcode(CreateDeadAlt(bank, o), o, "Indirect")
     IN bank' = [n EXCEPT !.target[o] = t]

\* A dead op may become anything but an INDIRECT; in a block, an ordinary op
\* only another ordinary one.
OpSetOpcode == \E o \in Existing(bank), c \in Codes \ {"Blank", "Indirect"} :
  /\ bank.status[o] = "alive" => {bank.code[o], c} \subseteq {"Copy", "Store"}
  /\ bank' = ChangeOpcode(bank, o, c)

OpInsertBefore == \E o, follow \in Ops :
  /\ \/ Ready(o, {"Copy", "Store"}) /\ Alive(follow, Codes \ {"Multiequal"})
     \/ Ready(o, {"Indirect"}) /\ follow = bank.target[o] /\ Alive(follow, Codes)
  /\ bank' = InsertBefore(bank, o, follow)

OpInsertAfter == \E o, prev \in Ops :
  /\ Ready(o, {"Copy", "Store"}) /\ Alive(prev, Codes \ {"Branch"})
  /\ bank' = InsertAfter(bank, o, prev)

OpInsertBegin == \E o \in Ops, bl \in Blocks :
  Ready(o, {"Copy", "Store", "Multiequal"}) /\ bank' = InsertBegin(bank, o, bl)

OpInsertEnd == \E o \in Ops, bl \in Blocks :
  /\ Ready(o, {"Copy", "Store", "Branch"})
  /\ bank.code[o] = "Branch" =>
       \A p \in DOMAIN bank.block[bl] : bank.code[bank.block[bl][p]] # "Branch"
  /\ bank' = InsertEnd(bank, o, bl)

\* op_uninsert, and the end of op_unlink and op_destroy.
Uninsert == \E o \in Ops : Alive(o, Codes) /\ bank' = OpUninsert(bank, o)

DestroyOp == \E o \in Existing(bank) : bank' = Destroy(bank, o)

DestroyAllDead == bank' = DestroyDead(bank)

\* A MULTIEQUAL left with one input becomes a COPY behind the other ones.
MultiToCopy == \E o \in Ops :
  /\ Alive(o, {"Multiequal"})
  /\ bank' = InsertBegin(ChangeOpcode(OpUninsert(bank, o), o, "Copy"), o, bank.parent[o])

\* branch_remove_internal leaves a block one way in: op_zero_multi turns each of
\* its MULTIEQUALs, which all have as many inputs, into a COPY in place.
Multiequals(bl) ==
  {o \in Ops : \E p \in DOMAIN bank.block[bl] :
     bank.block[bl][p] = o /\ bank.code[o] = "Multiequal"}

BranchRemoved == \E bl \in Blocks :
  /\ Multiequals(bl) # {}
  /\ bank' = [bank EXCEPT !.code = [o \in Ops |-> IF o \in Multiequals(bl) THEN "Copy" ELSE @[o]]]

BankNext == NewOp \/ NewIndirect \/ OpSetOpcode \/ OpInsertBefore \/ OpInsertAfter
        \/ OpInsertBegin \/ OpInsertEnd \/ Uninsert \/ DestroyOp \/ DestroyAllDead
        \/ MultiToCopy \/ BranchRemoved

BankSpec == BankInit /\ [][BankNext]_bank
-----------------------------------------------------------------------------
\* An op's list and block follow from its state: the dead and the alive list
\* hold the dead and the alive ops, an alive op is once in the block it names
\* as its parent and in no other, and the code lists hold the existing ops of
\* their opcode.  No intrusive list ever loses an op twice.
ListsAgree ==
  /\ bank.deadlist = {o \in Ops : bank.status[o] = "dead"}
  /\ bank.alivelist = {o \in Ops : bank.status[o] = "alive"}
  /\ bank.codelist = {o \in Existing(bank) : bank.code[o] = "Store"}
  /\ \A bl \in Blocks : \A p, q \in DOMAIN bank.block[bl] :
       bank.block[bl][p] = bank.block[bl][q] => p = q
  /\ \A o \in Ops, bl \in Blocks :
       (bank.status[o] = "alive" /\ bank.parent[o] = bl)
         <=> \E p \in DOMAIN bank.block[bl] : bank.block[bl][p] = o
  /\ \A o \in Ops : (bank.status[o] = "alive") = (bank.parent[o] # Nil)

\* Every existing op is in exactly one of the two trees, the INDIRECTs in
\* alttree and all others in optree, whatever opcodes they had before, and a
\* destroyed op is in neither (change_opcode, destroy).
TreesAgree ==
  /\ bank.alttree = {o \in Existing(bank) : bank.code[o] = "Indirect"}
  /\ bank.optree = {o \in Existing(bank) : bank.code[o] # "Indirect"}

\* Lists, blocks and trees describe the same ops: the two properties above.
BankAgrees == ListsAgree /\ TreesAgree

\* MULTIEQUALs stay at the head of their block, and nothing but INDIRECTs comes
\* between an INDIRECT and the op it stands for, whatever is inserted before,
\* after, at the beginning or at the end (op_insert_before, op_insert_after,
\* op_insert_begin, op_insert_end).
MarkersPlaced ==
  \A bl \in Blocks : \A p, q \in DOMAIN bank.block[bl] :
    LET o == bank.block[bl][p]
        r == bank.block[bl][q]
    IN /\ p < q /\ bank.code[r] = "Multiequal" => bank.code[o] = "Multiequal"
       /\ bank.code[o] = "Indirect" /\ r = bank.target[o]
            => p < q /\ \A m \in p..(q - 1) : bank.code[bank.block[bl][m]] = "Indirect"
=============================================================================
