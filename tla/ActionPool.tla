----------------------------- MODULE ActionPool -----------------------------
(***************************************************************************)
(* src/action.rs: an ActionPool applies its rules to every operation of    *)
(* the function, walking the tree of operations by their keys while the    *)
(* rules it runs insert, rewrite and destroy operations of that same tree. *)
(* It holds no pointer into the tree, only the key it has reached          *)
(* (op_state) and the position in the rule list (rule_index); both outlive *)
(* the call when a breakpoint on a rule interrupts it.                     *)
(*                                                                         *)
(* An operation is reduced to its key, its opcode and whether it is dead;  *)
(* a rule either finds nothing to do or makes one edit.  `perform` is the  *)
(* one of ActionTree, for a pool that repeats while it reports changes.    *)
(***************************************************************************)
EXTENDS Naturals, Sequences, FiniteSetsExt

CONSTANTS Keys,                  \* keys of operations, numbers in tree order
          InitialKeys,           \* those the function starts with
          OpCodes,
          Rules,
          perop,                 \* perop[c]: the rules of opcode c, in order
          Disabled,              \* rules switched off
          RepeatLimit,           \* MAXIMUM_REPEAT_COUNT of perform
          MaxChanges             \* bound: edits made by rules in one visit of an operation

ASSUME PoolAssumption ==
  /\ Keys \subseteq Nat \ {0} /\ InitialKeys \subseteq Keys
  /\ perop \in [OpCodes -> Seq(Rules)]
  /\ Disabled \subseteq Rules
  /\ RepeatLimit \in Nat \ {0} /\ MaxChanges \in Nat

VARIABLES optree,       \* key -> operation, for the operations in the tree
          used,         \* keys given out so far: a key is never given twice
          op_state, rule_index,
          opc,          \* the opcode process_op has read
          pc, repeat,
          count,        \* 1 when the pass has made changes (lcount < count in perform), else 0
          streak,       \* edits since the cursor reached its operation
          breakpoint,   \* rules with a breakpoint
          tested        \* what has been tested since the last change

vars == <<optree, used, op_state, rule_index, opc, pc, repeat, count, streak,
          breakpoint, tested>>

End == 0                \* the iterator past the last operation

Op(c) == [opc |-> c, status |-> "alive"]
Alive(t) == {k \in DOMAIN t : t[k].status = "alive"}

tree_first(t) == IF DOMAIN t = {} THEN End ELSE Min(DOMAIN t)

\* The first key after k: k itself need not be in the tree any more.

MutTreeNextFromFirst(t, k) ==
  LET after == {j \in DOMAIN t : j > k \/ k \notin DOMAIN t}
  IN  IF after = {} THEN End ELSE Min(after)

tree_next(t, k) ==
  LET after == {j \in DOMAIN t : j > k}
  IN  IF after = {} THEN End ELSE Min(after)

Init ==
  /\ optree \in [InitialKeys -> {Op(c) : c \in OpCodes}]
  /\ used = InitialKeys
  /\ op_state = End /\ rule_index = 0
  /\ opc \in OpCodes
  /\ pc = "start" /\ repeat = 0 /\ count = 0 /\ streak = 0
  /\ breakpoint \in SUBSET Rules
  /\ tested = {}
-----------------------------------------------------------------------------
\* The rule to begin with at the operation the cursor moves on to.
MutNextRuleIndex == rule_index

NextRuleIndex == 0

\* apply, when it is not resumed: start at the first operation.
StartPass ==
  /\ pc = "start"
  /\ count' = 0 /\ streak' = 0
  /\ op_state' = tree_first(optree) /\ rule_index' = 0
  /\ pc' = "walk"
  /\ UNCHANGED <<optree, used, opc, repeat, breakpoint, tested>>

\* The operation at the cursor has gone from the tree: on to the next.
Gone ==
  /\ pc = "walk" /\ op_state # End /\ op_state \notin DOMAIN optree
  /\ op_state' = tree_next(optree, op_state) /\ rule_index' = NextRuleIndex
  /\ streak' = 0
  /\ UNCHANGED <<optree, used, opc, pc, repeat, count, breakpoint, tested>>

Removed(k) == [j \in DOMAIN optree \ {k} |-> optree[j]]

\* process_op of a dead operation: destroy it for good.
Reclaim ==
  /\ pc = "walk" /\ op_state \in DOMAIN optree /\ op_state \notin Alive(optree)
  /\ op_state' = tree_next(optree, op_state) /\ rule_index' = NextRuleIndex
  /\ optree' = Removed(op_state) /\ streak' = 0
  /\ UNCHANGED <<used, opc, pc, repeat, count, breakpoint, tested>>

\* process_op of a live one: read its opcode, go through that opcode's rules.
ProcessOp ==
  /\ pc = "walk" /\ op_state \in Alive(optree)
  /\ opc' = optree[op_state].opc
  /\ pc' = "rules"
  /\ UNCHANGED <<optree, used, op_state, rule_index, repeat, count, streak, breakpoint, tested>>

HasRule == pc = "rules" /\ rule_index < Len(perop[opc])
Rule == perop[opc][rule_index + 1]

SkipDisabled ==
  /\ HasRule /\ Rule \in Disabled
  /\ rule_index' = rule_index + 1
  /\ UNCHANGED <<optree, used, op_state, opc, pc, repeat, count, streak, breakpoint, tested>>

NothingToDo ==
  /\ HasRule /\ Rule \notin Disabled
  /\ rule_index' = rule_index + 1
  /\ tested' = tested \cup {<<op_state, Rule>>}
  /\ UNCHANGED <<optree, used, op_state, opc, pc, repeat, count, streak, breakpoint>>

\* What one application of a rule may do to the tree: rewrite an operation,
\* kill it, take it out altogether, or insert a new one.
Rewritten(k, c) == [optree EXCEPT ![k].opc = c]
Killed(k) == [optree EXCEPT ![k].status = "dead"]
Inserted(k, c) == [j \in DOMAIN optree \cup {k} |-> IF j = k THEN Op(c) ELSE optree[j]]

Edits ==
  {Rewritten(k, c) : k \in Alive(optree), c \in OpCodes}
    \cup {Killed(k) : k \in Alive(optree)}
    \cup {Removed(k) : k \in Alive(optree)}
    \cup {Inserted(k, c) : k \in Keys \ used, c \in OpCodes}

\* After a change: stop at a breakpoint, leave a dead operation, or follow a
\* change of opcode to the rules of the new one.

AfterChange(t) ==
  IF op_state \notin Alive(t)
  THEN /\ pc' = "walk" /\ rule_index' = 0 /\ op_state' = tree_next(t, op_state)
       /\ UNCHANGED opc
  ELSE /\ opc' = t[op_state].opc
       /\ rule_index' = IF opc' = opc THEN rule_index + 1 ELSE 0
       /\ UNCHANGED <<pc, op_state>>

RuleChanges ==
  /\ HasRule /\ Rule \notin Disabled /\ streak < MaxChanges
  /\ \E t \in Edits :
       /\ optree' = t
       /\ used' = used \cup DOMAIN t
       /\ IF Rule \in breakpoint
          THEN /\ pc' = "broken" /\ rule_index' = rule_index + 1
               /\ UNCHANGED <<opc, op_state>>
          ELSE AfterChange(t)
  /\ count' = 1
  /\ streak' = IF op_state' = op_state THEN streak + 1 ELSE 0
  /\ tested' = {}
  /\ UNCHANGED <<repeat, breakpoint>>

NextOp ==
  /\ pc = "rules" /\ rule_index >= Len(perop[opc])
  /\ op_state' = tree_next(optree, op_state) /\ rule_index' = NextRuleIndex
  /\ pc' = "walk" /\ streak' = 0
  /\ UNCHANGED <<optree, used, opc, repeat, count, breakpoint, tested>>

\* perform, after apply: again while there were changes, up to the limit.
Again == count = 1

MutRepeatCount == 1

RepeatCount == repeat + 1

EndPass ==
  /\ pc = "walk" /\ op_state = End
  /\ repeat' = IF Again THEN RepeatCount ELSE repeat
  /\ pc' = CASE ~Again -> "done"
             [] Again /\ RepeatCount >= RepeatLimit -> "capped"
             [] OTHER -> "start"
  /\ UNCHANGED <<optree, used, op_state, rule_index, opc, count, streak, breakpoint, tested>>

\* A later perform: it resumes after a breakpoint, else starts afresh.
Continue ==
  /\ pc = "broken"
  /\ pc' = "walk" /\ repeat' = 0 /\ streak' = 0
  /\ UNCHANGED <<optree, used, op_state, rule_index, opc, count, breakpoint, tested>>

PerformAgain ==
  /\ pc \in {"done", "capped"}
  /\ pc' = "start" /\ repeat' = 0 /\ tested' = {}
  /\ UNCHANGED <<optree, used, op_state, rule_index, opc, count, streak, breakpoint>>

Pass ==
  \/ StartPass \/ Gone \/ Reclaim \/ ProcessOp \/ SkipDisabled \/ NothingToDo
  \/ RuleChanges \/ NextOp \/ EndPass

Next == Pass \/ Continue \/ PerformAgain

Spec == Init /\ [][Next]_vars

\* A call of perform in progress goes on.
FairSpec == Spec /\ WF_vars(Pass)
-----------------------------------------------------------------------------
\* The cursor is a key that was given out, and the keys in the tree were too.
TypeOK ==
  /\ \A k \in DOMAIN optree : optree[k] \in [opc : OpCodes, status : {"alive", "dead"}]
  /\ DOMAIN optree \subseteq used /\ used \subseteq Keys
  /\ op_state \in used \cup {End}
  /\ opc \in OpCodes
  /\ rule_index \in Nat
  /\ pc \in {"start", "walk", "rules", "broken", "done", "capped"}
  /\ count \in {0, 1} /\ streak \in 0 .. MaxChanges

\* When a rule is applied, its operation is in the tree, alive, and has an
\* opcode the rule is registered for, whatever earlier rules did to that or to
\* other operations, also across a breakpoint (action.rs:920-957).
RuleMeetsItsOpcode ==
  pc = "rules" => op_state \in Alive(optree) /\ optree[op_state].opc = opc

\* A pool that stops by itself has reached a fixpoint: since the last change
\* every enabled rule was tested on every live operation of its opcodes and
\* found nothing to do, and no dead operation is left in the tree.  Holds for
\* inserted and rewritten operations and in spite of a rule list resumed at
\* the index of another opcode's list (action.rs:1016-1036, 920-960).
Fixpoint ==
  pc = "done" =>
    /\ Alive(optree) = DOMAIN optree
    /\ \A k \in Alive(optree) :
         \A i \in 1 .. Len(perop[optree[k].opc]) :
           perop[optree[k].opc][i] \notin Disabled
             => <<k, perop[optree[k].opc][i]>> \in tested

\* Within a pass the cursor only moves forward, so an operation is not visited
\* twice and the pass ends even when rules insert operations (action.rs:916-918).
CursorMovesForward ==
  [][pc # "start" /\ op_state' # op_state => op_state' = End \/ op_state' > op_state]_vars

\* Every perform of the pool ends: done, stopped at its limit of repeats, or
\* interrupted by a breakpoint.  The changes of a pass, and of all passes, are
\* without number; what ends a call whose rules undo each other's work from pass
\* to pass is the limit (action.rs:296-300).  It rests on the bound MaxChanges
\* of one visit: process_op itself has no limit (action.rs:927-955).
PassesEnd == pc \in {"start", "walk", "rules"} ~> pc \in {"done", "capped", "broken"}
=============================================================================
