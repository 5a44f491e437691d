------------------------- MODULE Actions_proofs --------------------------
(***************************************************************************)
(* For every set of keys, of opcodes and of rules, every rule table, every *)
(* limit of repeats and every bound of changes: a rule only meets          *)
(* operations of its opcodes, a pool that stops by itself is at a          *)
(* fixpoint, and the cursor moves forward.                                 *)
(***************************************************************************)
EXTENDS ActionPool, TLAPS, WellFoundedInduction

\* A nonempty set of naturals has a least element, and Min picks it.
LEMMA MinIsLeast ==
  ASSUME NEW S \in SUBSET Nat, S # {}
  PROVE  Min(S) \in S /\ \A i \in S : Min(S) <= i
<1>. DEFINE R == OpToRel(<, Nat)
<1>1. \A i, j \in Nat : i < j => <<i, j>> \in R
  BY Zenon DEF OpToRel
<1>. HIDE DEF R
<1>2. IsWellFoundedOn(R, Nat)
  BY NatLessThanWellFounded DEF R
<1>3. PICK x \in S : \A y \in S : ~ (<<y, x>> \in R)
  BY <1>2, WFMin, Zenon
<1>4. \A y \in S : x <= y
  <2>. SUFFICES ASSUME NEW y \in S PROVE ~ (y < x)
    OBVIOUS
  <2>. QED  BY <1>1, <1>3
<1>. QED  BY <1>4 DEF Min

\* tree_next finds the least key after k, or reports that there is none.
LEMMA TreeNext ==
  ASSUME NEW t, DOMAIN t \subseteq Nat \ {0}, NEW k \in Nat,
         NEW n, n = tree_next(t, k)
  PROVE  \/ n = End /\ \A j \in DOMAIN t : j <= k
         \/ n \in DOMAIN t /\ n > k /\ \A j \in DOMAIN t : j > k => n <= j
<1>. DEFINE after == {j \in DOMAIN t : j > k}
<1>1. n = IF after = {} THEN End ELSE Min(after)
  BY DEF tree_next
<1>2. after \in SUBSET Nat
  OBVIOUS
<1>3. CASE after = {}
  <2>1. \A j \in DOMAIN t : j \in Nat /\ ~(j > k)
    BY <1>3
  <2>. QED  BY <1>1, <1>3, <2>1
<1>4. CASE after # {}
  <2>1. Min(after) \in after /\ \A i \in after : Min(after) <= i
    BY <1>2, <1>4, MinIsLeast
  <2>. HIDE DEF after
  <2>2. n = Min(after)
    BY <1>1, <1>4
  <2>. QED  BY <2>1, <2>2 DEF after
<1>. QED  BY <1>3, <1>4

\* tree_first finds the least key.
LEMMA TreeFirst ==
  ASSUME NEW t, DOMAIN t \subseteq Nat \ {0}, NEW n, n = tree_first(t)
  PROVE  \/ n = End /\ DOMAIN t = {}
         \/ n \in DOMAIN t /\ \A j \in DOMAIN t : n <= j
BY MinIsLeast DEF tree_first
-----------------------------------------------------------------------------
\* The rules of k's opcode up to the i-th were tested on k or are disabled.
TestedUpTo(k, i) ==
  \A n \in 1 .. Len(perop[optree[k].opc]) :
    n <= i => \/ perop[optree[k].opc][n] \in Disabled
              \/ <<k, perop[optree[k].opc][n]>> \in tested

\* k is alive and every rule of its opcode has been tested on it.
Settled(k) == optree[k].status = "alive" /\ TestedUpTo(k, Len(perop[optree[k].opc]))

\* In a pass without changes so far, everything the cursor has passed is
\* settled, and so are the rules already tried at the cursor.
PassSoFar ==
  count = 0 =>
    /\ pc # "broken"
    /\ pc \in {"walk", "rules"} =>
         \A k \in DOMAIN optree : op_state = End \/ k < op_state => Settled(k)
    /\ pc = "walk" => rule_index = 0
    /\ pc = "rules" => TestedUpTo(op_state, rule_index)
    /\ pc = "done" => \A k \in DOMAIN optree : Settled(k)

\* What makes Fixpoint inductive.
IInv ==
  /\ TypeOK
  /\ RuleMeetsItsOpcode
  /\ PassSoFar
  /\ pc = "done" => count = 0

\* A sequence has a length.
LEMMA LenInNat ==
  ASSUME NEW S, NEW q \in Seq(S) PROVE Len(q) \in Nat
OBVIOUS

\* Facts about the types used below.
LEMMA Types ==
  ASSUME TypeOK
  PROVE  /\ DOMAIN optree \subseteq Nat \ {0}
         /\ op_state \in Nat
         /\ \A k \in DOMAIN optree : optree[k].opc \in OpCodes
         /\ \A c \in OpCodes : Len(perop[c]) \in Nat
<1>1. perop \in [OpCodes -> Seq(Rules)]
  BY PoolAssumption
<1>0. Keys \subseteq Nat \ {0}
  BY PoolAssumption
<1>2. \A c \in OpCodes : Len(perop[c]) \in Nat
  <2>. TAKE c \in OpCodes
  <2>1. perop[c] \in Seq(Rules)
    BY <1>1
  <2>. HIDE <1>1
  <2>. QED  BY <2>1, LenInNat
<1>3. DOMAIN optree \subseteq Nat \ {0} /\ op_state \in Nat
  <2>1. DOMAIN optree \subseteq used /\ used \subseteq Keys /\ op_state \in used \cup {0}
    BY DEF TypeOK, End
  <2>2. \A k \in used : k \in Nat \ {0}
    BY <1>0, <2>1, Zenon
  <2>3. 0 \in Nat
    OBVIOUS
  <2>. QED  BY <2>1, <2>2, <2>3, Zenon
<1>4. \A k \in DOMAIN optree : optree[k].opc \in OpCodes
  BY DEF TypeOK
<1>. QED  BY <1>2, <1>3, <1>4

\* The start is one: nothing has been passed yet.
LEMMA InitIInv == Init => IInv
<1>. SUFFICES ASSUME Init PROVE IInv
  OBVIOUS
<1>1. \A k \in InitialKeys : optree[k] \in {Op(c) : c \in OpCodes}
  BY DEF Init
<1>2. DOMAIN optree = InitialKeys
  BY DEF Init
<1>3. opc \in OpCodes
  BY DEF Init
<1>4. \A k \in DOMAIN optree : optree[k] \in [opc : OpCodes, status : {"alive", "dead"}]
  <2>. SUFFICES ASSUME NEW k \in InitialKeys
                PROVE  optree[k] \in [opc : OpCodes, status : {"alive", "dead"}]
    BY <1>2
  <2>1. PICK c \in OpCodes : optree[k] = [opc |-> c, status |-> "alive"]
    BY <1>1 DEF Op
  <2>. QED  BY <2>1
<1>5. TypeOK
  BY <1>2, <1>3, <1>4, PoolAssumption DEF Init, TypeOK
<1>6. pc = "start"
  BY DEF Init
<1>. QED
  BY <1>5, <1>6 DEF IInv, RuleMeetsItsOpcode, PassSoFar

\* The invariant gives the fixpoint.
LEMMA IInvFixpoint == IInv => Fixpoint
<1>. SUFFICES ASSUME IInv, pc = "done" PROVE Fixpoint
  BY DEF Fixpoint
<1>1. \A k \in DOMAIN optree : Settled(k)
  BY DEF IInv, PassSoFar
<1>2. Alive(optree) = DOMAIN optree
  BY <1>1 DEF Alive, Settled
<1>3. ASSUME NEW k \in DOMAIN optree, NEW i \in 1 .. Len(perop[optree[k].opc]),
             perop[optree[k].opc][i] \notin Disabled
      PROVE  <<k, perop[optree[k].opc][i]>> \in tested
  <2>1. Len(perop[optree[k].opc]) \in Nat
    BY Types DEF IInv
  <2>2. i <= Len(perop[optree[k].opc])
    BY <2>1
  <2>. QED  BY <1>1, <1>3, <2>2 DEF Settled, TestedUpTo
<1>. QED  BY <1>2, <1>3 DEF Fixpoint

\* Moving the cursor on from k in a pass without changes: if k is settled or
\* leaves the tree, all that the new cursor has passed is settled.
LEMMA Advance ==
  ASSUME TypeOK, NEW n, n = tree_next(optree, op_state), op_state # End,
         \A k \in DOMAIN optree : k < op_state => Settled(k)
  PROVE  /\ n \in used \cup {End}
         /\ n = End \/ n > op_state
         /\ \A k \in DOMAIN optree : (n = End \/ k < n) /\ k # op_state => Settled(k)
<1>1. /\ DOMAIN optree \subseteq Nat \ {0}
      /\ op_state \in Nat
  BY Types
<1>2. \/ n = End /\ \A j \in DOMAIN optree : j <= op_state
      \/ n \in DOMAIN optree /\ n > op_state /\ \A j \in DOMAIN optree : j > op_state => n <= j
  BY <1>1, TreeNext
<1>3. \A k \in DOMAIN optree : (n = End \/ k < n) /\ k # op_state => k < op_state
  BY <1>1, <1>2 DEF End
<1>. QED  BY <1>2, <1>3 DEF TypeOK

\* A new pass has passed nothing.
LEMMA StartPassStep ==
  ASSUME IInv, StartPass PROVE IInv'
<1>1. \/ op_state' = End /\ DOMAIN optree = {}
      \/ op_state' \in DOMAIN optree /\ \A j \in DOMAIN optree : op_state' <= j
  BY TreeFirst, Types DEF StartPass, IInv
<1>2. TypeOK'
  BY <1>1, PoolAssumption DEF StartPass, IInv, TypeOK
<1>3. \A k \in DOMAIN optree : ~(op_state' = End \/ k < op_state')
  BY <1>1, Types DEF IInv, End
<1>. QED
  BY <1>2, <1>3 DEF StartPass, IInv, RuleMeetsItsOpcode, PassSoFar

\* What has been tested stays so while the tree is not edited.
LEMMA Kept ==
  ASSUME UNCHANGED optree, tested \subseteq tested', NEW k, NEW i
  PROVE  /\ TestedUpTo(k, i) => TestedUpTo(k, i)'
         /\ Settled(k) => Settled(k)'
BY DEF TestedUpTo, Settled

\* The cursor leaves an operation that has gone from the tree.
LEMMA GoneStep ==
  ASSUME IInv, Gone PROVE IInv'
<1>. USE DEF Gone
<1>1. TypeOK /\ op_state # End /\ op_state' = tree_next(optree, op_state)
  BY DEF IInv
<1>2. TypeOK'
  <2>1. op_state' \in used \cup {End}
    BY <1>1, TreeNext, Types DEF TypeOK
  <2>. QED  BY <1>1, <2>1, PoolAssumption DEF TypeOK, NextRuleIndex
<1>3. ASSUME count = 0, NEW k \in DOMAIN optree, op_state' = End \/ k < op_state'
      PROVE  Settled(k)'
  <2>1. \A j \in DOMAIN optree : j < op_state => Settled(j)
    BY <1>3 DEF IInv, PassSoFar
  <2>2. Settled(k)
    BY <1>1, <1>3, <2>1, Advance
  <2>. QED  BY <2>2, Kept
<1>. QED
  BY <1>2, <1>3 DEF IInv, RuleMeetsItsOpcode, PassSoFar, NextRuleIndex

\* A dead operation is taken out of the tree and the cursor leaves it.
LEMMA ReclaimStep ==
  ASSUME IInv, Reclaim PROVE IInv'
<1>. USE DEF Reclaim
<1>1. TypeOK /\ op_state \in DOMAIN optree /\ op_state' = tree_next(optree, op_state)
  BY DEF IInv
<1>0. op_state # End
  BY <1>1, Types DEF End
<1>2. /\ DOMAIN optree' = DOMAIN optree \ {op_state}
      /\ \A k \in DOMAIN optree' : optree'[k] = optree[k]
  BY DEF Removed
<1>3. TypeOK'
  <2>1. op_state' \in used \cup {End}
    BY <1>1, TreeNext, Types DEF TypeOK
  <2>. QED  BY <1>1, <1>2, <2>1, PoolAssumption DEF TypeOK, NextRuleIndex
<1>4. ASSUME count = 0, NEW k \in DOMAIN optree', op_state' = End \/ k < op_state'
      PROVE  Settled(k)'
  <2>1. \A j \in DOMAIN optree : j < op_state => Settled(j)
    BY <1>4 DEF IInv, PassSoFar
  <2>2. Settled(k)
    BY <1>0, <1>1, <1>2, <1>4, <2>1, Advance
  <2>. QED  BY <2>2, <1>2 DEF Settled, TestedUpTo
<1>. QED
  BY <1>3, <1>4 DEF IInv, RuleMeetsItsOpcode, PassSoFar, NextRuleIndex

\* The opcode is read from the operation the rules are then applied to.
LEMMA ProcessOpStep ==
  ASSUME IInv, ProcessOp PROVE IInv'
<1>. USE DEF ProcessOp
<1>1. op_state \in DOMAIN optree /\ op_state # End
  BY Types DEF IInv, Alive, End
<1>2. TypeOK'
  BY <1>1, Types DEF IInv, TypeOK
<1>3. RuleMeetsItsOpcode'
  BY DEF RuleMeetsItsOpcode, Alive
<1>4. ASSUME count = 0 PROVE TestedUpTo(op_state, rule_index)'
  <2>1. rule_index = 0
    BY <1>4 DEF IInv, PassSoFar
  <2>. QED  BY <2>1 DEF TestedUpTo
<1>5. ASSUME count = 0, NEW k \in DOMAIN optree, op_state = End \/ k < op_state
      PROVE  Settled(k)'
  BY <1>5, Kept DEF IInv, PassSoFar
<1>. QED
  BY <1>2, <1>3, <1>4, <1>5 DEF IInv, PassSoFar

\* A rule is skipped because it is disabled, or finds nothing to do.
LEMMA NoChangeStep ==
  ASSUME IInv, SkipDisabled \/ NothingToDo PROVE IInv'
<1>1. /\ HasRule /\ rule_index' = rule_index + 1
      /\ tested \subseteq tested'
      /\ Rule \in Disabled \/ <<op_state, Rule>> \in tested'
      /\ UNCHANGED <<optree, used, op_state, opc, pc, repeat, count, streak, breakpoint>>
  BY DEF SkipDisabled, NothingToDo
<1>. USE <1>1
<1>2. TypeOK'
  BY DEF IInv, TypeOK
<1>3. RuleMeetsItsOpcode'
  BY DEF IInv, RuleMeetsItsOpcode, Alive
<1>4. ASSUME count = 0 PROVE TestedUpTo(op_state, rule_index)'
  <2>1. TestedUpTo(op_state, rule_index) /\ optree[op_state].opc = opc /\ rule_index \in Nat
    BY <1>4 DEF HasRule, IInv, PassSoFar, RuleMeetsItsOpcode, TypeOK
  <2>. SUFFICES ASSUME NEW n \in 1 .. Len(perop[opc]), n <= rule_index + 1
                PROVE  perop[opc][n] \in Disabled \/ <<op_state, perop[opc][n]>> \in tested'
    BY <2>1 DEF TestedUpTo
  <2>2. CASE n <= rule_index
    BY <2>1, <2>2 DEF TestedUpTo
  <2>3. CASE n = rule_index + 1
    BY <2>3 DEF Rule
  <2>. QED  BY <2>1, <2>2, <2>3
<1>5. ASSUME count = 0, NEW k \in DOMAIN optree, op_state = End \/ k < op_state
      PROVE  Settled(k)'
  BY <1>5, Kept DEF IInv, PassSoFar, HasRule
<1>. QED
  BY <1>2, <1>3, <1>4, <1>5 DEF IInv, PassSoFar, HasRule

\* Every edit keeps the tree well formed.
LEMMA EditType ==
  ASSUME TypeOK, NEW t \in Edits
  PROVE  /\ \A k \in DOMAIN t : t[k] \in [opc : OpCodes, status : {"alive", "dead"}]
         /\ DOMAIN t \subseteq Keys
<1>. DEFINE Ops == [opc : OpCodes, status : {"alive", "dead"}]
<1>1. \A k \in DOMAIN optree : optree[k] \in Ops
  BY DEF TypeOK
<1>2. DOMAIN optree \subseteq Keys
  BY DEF TypeOK
<1>3. ASSUME NEW k \in Alive(optree), NEW c \in OpCodes, t = Rewritten(k, c)
      PROVE  (\A i \in DOMAIN t : t[i] \in Ops) /\ DOMAIN t \subseteq Keys
  BY <1>1, <1>2, <1>3 DEF Alive, Rewritten
<1>4. ASSUME NEW k \in Alive(optree), t = Killed(k)
      PROVE  (\A i \in DOMAIN t : t[i] \in Ops) /\ DOMAIN t \subseteq Keys
  BY <1>1, <1>2, <1>4 DEF Alive, Killed
<1>5. ASSUME NEW k \in Alive(optree), t = Removed(k)
      PROVE  (\A i \in DOMAIN t : t[i] \in Ops) /\ DOMAIN t \subseteq Keys
  BY <1>1, <1>2, <1>5 DEF Removed
<1>6. ASSUME NEW k \in Keys \ used, NEW c \in OpCodes, t = Inserted(k, c)
      PROVE  (\A i \in DOMAIN t : t[i] \in Ops) /\ DOMAIN t \subseteq Keys
  BY <1>1, <1>2, <1>6 DEF Inserted, Op
<1>. HIDE DEF Ops
<1>7. (\A i \in DOMAIN t : t[i] \in Ops) /\ DOMAIN t \subseteq Keys
  BY <1>3, <1>4, <1>5, <1>6 DEF Edits
<1>. QED  BY <1>7 DEF Ops

\* A rule makes a change: the pass is no longer one without changes, and the
\* opcode is read again or the operation is left.
LEMMA ChangeStep ==
  ASSUME IInv, RuleChanges PROVE IInv'
<1>1. PICK t \in Edits :
        /\ optree' = t
        /\ used' = used \cup DOMAIN t
        /\ IF Rule \in breakpoint
           THEN /\ pc' = "broken" /\ rule_index' = rule_index + 1
                /\ UNCHANGED <<opc, op_state>>
           ELSE AfterChange(t)
  BY DEF RuleChanges
<1>2. /\ pc = "rules" /\ streak < MaxChanges /\ count' = 1
      /\ streak' = IF op_state' = op_state THEN streak + 1 ELSE 0
  BY DEF RuleChanges, HasRule
<1>3. /\ TypeOK
      /\ streak \in 0 .. MaxChanges /\ MaxChanges \in Nat
      /\ rule_index \in Nat
  BY PoolAssumption DEF IInv, TypeOK
<1>4. /\ \A k \in DOMAIN t : t[k] \in [opc : OpCodes, status : {"alive", "dead"}]
      /\ DOMAIN t \subseteq Keys
  BY <1>3, EditType
<1>5. DOMAIN t \subseteq Nat \ {0} /\ op_state \in Nat
  BY <1>3, <1>4, Types, PoolAssumption
<1>6. /\ op_state' \in used' \cup {End}
      /\ opc' \in OpCodes
      /\ rule_index' \in Nat
      /\ pc' \in {"walk", "rules", "broken"}
      /\ pc' = "rules" => op_state' \in Alive(t) /\ opc' = t[op_state'].opc
  <2>1. CASE Rule \in breakpoint
    BY <1>1, <1>3, <2>1 DEF TypeOK
  <2>2. CASE Rule \notin breakpoint /\ op_state \notin Alive(t)
    <3>1. /\ pc' = "walk" /\ rule_index' = 0 /\ op_state' = tree_next(t, op_state)
          /\ opc' = opc
      BY <1>1, <2>2 DEF AfterChange
    <3>2. op_state' \in DOMAIN t \cup {End}
      BY <1>5, <3>1, TreeNext
    <3>. QED  BY <1>1, <1>3, <3>1, <3>2 DEF TypeOK
  <2>3. CASE Rule \notin breakpoint /\ op_state \in Alive(t)
    <3>1. /\ opc' = t[op_state].opc
          /\ rule_index' = IF opc' = opc THEN rule_index + 1 ELSE 0
          /\ pc' = "rules" /\ op_state' = op_state
      BY <1>1, <1>2, <2>3 DEF AfterChange
    <3>2. op_state \in DOMAIN t /\ t[op_state].opc \in OpCodes
      BY <1>4, <2>3 DEF Alive
    <3>. QED  BY <1>1, <1>3, <2>3, <3>1, <3>2
  <2>. QED  BY <2>1, <2>2, <2>3
<1>7. TypeOK'
  <2>1. DOMAIN optree' \subseteq used' /\ used' \subseteq Keys
    BY <1>1, <1>3, <1>4 DEF TypeOK
  <2>2. count' \in {0, 1} /\ streak' \in 0 .. MaxChanges
    BY <1>2, <1>3
  <2>. QED  BY <1>1, <1>4, <1>6, <2>1, <2>2 DEF TypeOK
<1>8. RuleMeetsItsOpcode'
  BY <1>1, <1>6 DEF RuleMeetsItsOpcode, Alive
<1>9. count' # 0 /\ pc' # "done"
  BY <1>2, <1>6
<1>. QED  BY <1>7, <1>8, <1>9 DEF IInv, PassSoFar

\* The rules of the operation's opcode are exhausted: it is settled.
LEMMA NextOpStep ==
  ASSUME IInv, NextOp PROVE IInv'
<1>. USE DEF NextOp
<1>1. /\ TypeOK /\ op_state \in DOMAIN optree /\ op_state' = tree_next(optree, op_state)
      /\ optree[op_state].opc = opc /\ optree[op_state].status = "alive"
  BY DEF IInv, RuleMeetsItsOpcode, Alive
<1>2. op_state # End
  BY <1>1, Types DEF End
<1>3. TypeOK'
  <2>1. op_state' \in used \cup {End}
    BY <1>1, TreeNext, Types DEF TypeOK
  <2>. QED  BY <1>1, <2>1, PoolAssumption DEF TypeOK, NextRuleIndex
<1>4. ASSUME count = 0, NEW k \in DOMAIN optree, op_state' = End \/ k < op_state'
      PROVE  Settled(k)'
  <2>1. \A j \in DOMAIN optree : j < op_state => Settled(j)
    BY <1>4 DEF IInv, PassSoFar
  <2>2. CASE k # op_state
    <3>1. Settled(k)
      BY <1>1, <1>2, <1>4, <2>1, <2>2, Advance
    <3>. QED  BY <3>1, Kept
  <2>3. CASE k = op_state
    <3>1. TestedUpTo(op_state, rule_index)
      BY <1>4 DEF IInv, PassSoFar
    <3>2. rule_index \in Nat /\ Len(perop[opc]) \in Nat /\ rule_index >= Len(perop[opc])
      BY <1>1, Types DEF TypeOK
    <3>3. TestedUpTo(op_state, Len(perop[opc]))
      BY <1>1, <3>1, <3>2 DEF TestedUpTo
    <3>4. Settled(k)
      BY <1>1, <2>3, <3>3 DEF Settled
    <3>. QED  BY <3>4, Kept
  <2>. QED  BY <2>2, <2>3
<1>. QED
  BY <1>3, <1>4 DEF IInv, RuleMeetsItsOpcode, PassSoFar, NextRuleIndex

\* A pass without changes that reaches the end has settled everything.
LEMMA EndPassStep ==
  ASSUME IInv, EndPass PROVE IInv'
<1>. USE DEF EndPass
<1>1. pc' \in {"done", "capped", "start"} /\ (pc' = "done" => count # 1)
  BY DEF Again
<1>2. TypeOK'
  BY <1>1 DEF IInv, TypeOK
<1>3. ASSUME pc' = "done" PROVE count = 0
  BY <1>1, <1>3 DEF IInv, TypeOK
<1>4. ASSUME count = 0, NEW k \in DOMAIN optree PROVE Settled(k)'
  BY <1>4, Kept DEF IInv, PassSoFar
<1>. QED
  BY <1>1, <1>2, <1>3, <1>4 DEF IInv, RuleMeetsItsOpcode, PassSoFar

\* Resuming, and a later perform.
LEMMA CallStep ==
  ASSUME IInv, Continue \/ PerformAgain PROVE IInv'
<1>1. CASE Continue
  <2>1. TypeOK' /\ count' # 0
    BY <1>1, PoolAssumption DEF Continue, IInv, TypeOK, PassSoFar
  <2>. QED  BY <1>1, <2>1 DEF Continue, IInv, RuleMeetsItsOpcode, PassSoFar
<1>2. CASE PerformAgain
  <2>1. TypeOK'
    BY <1>2 DEF PerformAgain, IInv, TypeOK
  <2>. QED  BY <1>2, <2>1 DEF PerformAgain, IInv, RuleMeetsItsOpcode, PassSoFar
<1>. QED  BY <1>1, <1>2

\* One step per action.
LEMMA NextIInv == IInv /\ [Next]_vars => IInv'
<1>. SUFFICES ASSUME IInv, [Next]_vars PROVE IInv'
  OBVIOUS
<1>1. CASE UNCHANGED vars
  BY <1>1 DEF vars, IInv, TypeOK, RuleMeetsItsOpcode, PassSoFar, Alive, Settled, TestedUpTo
<1>2. CASE Next
  BY <1>2, StartPassStep, GoneStep, ReclaimStep, ProcessOpStep, NoChangeStep, ChangeStep,
     NextOpStep, EndPassStep, CallStep DEF Next, Pass
<1>. QED  BY <1>1, <1>2

\* A rule is only ever applied to a live operation whose opcode it is
\* registered for, and a pool that stops by itself is at a fixpoint, for every
\* rule table and every way the rules edit the tree (ActionPool::apply,
\* process_op).
THEOREM PoolInvariant == Spec => [](TypeOK /\ RuleMeetsItsOpcode /\ Fixpoint)
<1>1. IInv => TypeOK /\ RuleMeetsItsOpcode /\ Fixpoint
  BY IInvFixpoint DEF IInv
<1>. QED  BY InitIInv, NextIInv, <1>1, PTL DEF Spec

\* Within a pass the cursor only moves forward (advance_op_state).
THEOREM CursorForward == Spec => CursorMovesForward
<1>1. ASSUME IInv, [Next]_vars, pc # "start", op_state' # op_state
      PROVE  op_state' = End \/ op_state' > op_state
  <2>1. DOMAIN optree \subseteq Nat \ {0} /\ op_state \in Nat
    BY <1>1, Types DEF IInv
  <2>2. CASE op_state' = tree_next(optree, op_state)
    BY <2>1, <2>2, TreeNext
  <2>3. CASE RuleChanges
    <3>1. PICK t \in Edits : op_state' = tree_next(t, op_state)
      BY <1>1, <2>3 DEF RuleChanges, AfterChange
    <3>2. DOMAIN t \subseteq Nat \ {0}
      BY <1>1, EditType, PoolAssumption DEF IInv
    <3>. QED  BY <2>1, <3>1, <3>2, TreeNext
  <2>. QED
    BY <1>1, <2>2, <2>3 DEF Next, Pass, vars, StartPass, Gone, Reclaim, ProcessOp,
       SkipDisabled, NothingToDo, NextOp, EndPass, Continue, PerformAgain
<1>2. IInv /\ [Next]_vars
        => [pc # "start" /\ op_state' # op_state => op_state' = End \/ op_state' > op_state]_vars
  BY <1>1
<1>. QED  BY InitIInv, NextIInv, <1>2, PTL DEF Spec, CursorMovesForward
=============================================================================
