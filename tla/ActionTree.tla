----------------------------- MODULE ActionTree -----------------------------
(***************************************************************************)
(* src/action.rs: the tree of actions that transforms a function, and how  *)
(* `perform` runs it.  An action is repeated while it reports changes (up  *)
(* to MAXIMUM_REPEAT_COUNT times in one call), may be limited to one run   *)
(* per function, and may be interrupted by a breakpoint: the call stack    *)
(* then unwinds with -1 and every action on it keeps, in its status and    *)
(* child index, what it needs for a later `perform` to go on from there.   *)
(* The root is an ActionRestartGroup.                                      *)
(*                                                                         *)
(* The call stack of nested `perform` calls is explicit.  A leaf stands    *)
(* for any action whose apply is not that of a group; what it does to the  *)
(* function is reduced to how many changes it reports, to whether it asks  *)
(* for a restart and to whether it fails.                                  *)
(***************************************************************************)
EXTENDS Integers, Sequences, SequencesExt

CONSTANTS Node,                  \* the actions of the tree
          Root,                  \* the ActionRestartGroup at its root
          Children,              \* Children[n]: the list of a group, <<>> for a leaf
          Flags,                 \* Flags[n] \subseteq {"repeat", "once", "oneact"}
          MaxRestarts,           \* maxrestarts of the restart group
          MAXIMUM_REPEAT_COUNT,
          MaxMade,               \* bound: changes of a run the code does not limit
          MaxBreaks,             \* bound: breakpoints set by the user
          MaxDecompiles,         \* bound: runs started by the user
          JumptableRecovery      \* may the function be a jump table's partial clone?

Groups == {n \in Node : Children[n] # <<>>}
Leaves == Node \ Groups

ASSUME TreeAssumption ==
  /\ Root \in Groups
  /\ Children \in [Node -> Seq(Node \ {Root})]
  /\ Flags \in [Node -> SUBSET {"repeat", "once", "oneact"}]
  /\ MaxRestarts \in Nat
  /\ MAXIMUM_REPEAT_COUNT \in Nat \ {0}

\* No action that repeats is limited to one run or to one change.
ASSUME LimitsAssumption == \A n \in Node : "repeat" \in Flags[n] => Flags[n] = {"repeat"}

VARIABLES base,        \* ActionBase of every action: status, counts, breakpoints
          state,       \* position of a group in its list, from 1
          curstart,    \* restarts of the root so far, -1 when it is finished
          restart_pending, jumptable_recovery_on,   \* flags of the function
          stack,       \* the nested perform calls, outermost first
          ret,         \* what a nested perform has just returned, or NotReturned
          outcome,     \* what the latest call from outside returned
          user,        \* how many runs and breakpoints the user has asked for
          history      \* what has happened since the run was started

treevars == <<base, state, curstart, restart_pending, jumptable_recovery_on, stack,
          ret, outcome, user, history>>

NotReturned == -2    \* no nested perform has returned; perform itself returns -1 or a count
Outcome(kind, v) == [kind |-> kind, value |-> v]
StartBreaks  == {"BREAK_START", "TMPBREAK_START"}
ActionBreaks == {"BREAK_ACTION", "TMPBREAK_ACTION"}

TreeInit ==
  /\ base = [n \in Node |-> [status |-> "START", count |-> 0, lcount |-> 0,
                             breakpoint |-> {}]]
  /\ state = [n \in Groups |-> 0]
  /\ curstart = 0
  /\ restart_pending = FALSE
  /\ jumptable_recovery_on \in {FALSE, JumptableRecovery}
  /\ stack = <<>> /\ ret = NotReturned /\ outcome = Outcome("idle", 0)
  /\ user = [decompiles |-> 0, breaks |-> 0]
  /\ history = [made |-> 0, restarts |-> 0, failed |-> FALSE,
                spent |-> [n \in Leaves |-> 0], done |-> [n \in Groups |-> 0]]
-----------------------------------------------------------------------------
\* The innermost perform call, and the action it runs.
Top == Last(stack)
Act == Top.node

At(pc) == stack # <<>> /\ Top.pc = pc

Goto(pc, res) == [stack EXCEPT ![Len(stack)].pc = pc, ![Len(stack)].res = res]

Frame(n) == [node |-> n, pc |-> "loop", repeat |-> 0, res |-> 0]

\* Return v from the innermost perform: to the group that called it, or out.
Return(v) ==
  /\ stack' = Front(stack)
  /\ ret' = IF Len(stack) = 1 THEN NotReturned ELSE v
  /\ outcome' = IF Len(stack) = 1 THEN Outcome("returned", v) ELSE outcome

NoData == UNCHANGED <<curstart, restart_pending, jumptable_recovery_on>>

check_start_break(n) == base[n].breakpoint \cap StartBreaks # {}
check_action_break(n) == base[n].breakpoint \cap ActionBreaks # {}

\* perform, at the top of its loop: what the status asks for.
MutStartHit == [base EXCEPT ![Act].count = 0, ![Act].breakpoint = @ \ {"TMPBREAK_START"}]

StartHit == [base EXCEPT ![Act].count = 0,
                         ![Act].breakpoint = @ \ {"TMPBREAK_START"},
                         ![Act].status = "BREAKSTARTHIT"]

PerformStart ==
  /\ At("loop") /\ base[Act].status = "START"
  /\ IF check_start_break(Act)
     THEN base' = StartHit /\ Return(-1)
     ELSE /\ base' = [base EXCEPT ![Act].count = 0, ![Act].lcount = 0]
          /\ stack' = Goto("apply", 0)
          /\ UNCHANGED <<ret, outcome>>
  /\ NoData /\ UNCHANGED <<state, user, history>>

PerformRepeat ==
  /\ At("loop") /\ base[Act].status \in {"BREAKSTARTHIT", "REPEAT"}
  /\ base' = [base EXCEPT ![Act].lcount = base[Act].count]
  /\ stack' = Goto("apply", 0)
  /\ NoData /\ UNCHANGED <<state, ret, outcome, user, history>>

PerformMid ==
  /\ At("loop") /\ base[Act].status = "MID"
  /\ stack' = Goto("apply", 0)
  /\ NoData /\ UNCHANGED <<base, state, ret, outcome, user, history>>

PerformEnd ==
  /\ At("loop") /\ base[Act].status = "END"
  /\ Return(0)
  /\ NoData /\ UNCHANGED <<base, state, user, history>>

\* After a break the changes were already reported: nothing is applied.

PerformActionBreak ==
  /\ At("loop") /\ base[Act].status = "ACTIONBREAK"
  /\ stack' = Goto("finish", 0)
  /\ NoData /\ UNCHANGED <<base, state, ret, outcome, user, history>>
-----------------------------------------------------------------------------
\* The history counts no further than its properties look.
Atmost(bound, k) == IF k > bound THEN bound ELSE k

\* A breakpoint that is not temporary interrupts a run as often as it is met, an
\* error as often as it occurs, and each time the run is resumed perform counts its
\* repeats from 0 again: only then does the code itself not limit a run's changes.
Unlimited ==
  \/ history.failed
  \/ \E n \in Node : base[n].breakpoint \cap {"BREAK_START", "BREAK_ACTION"} # {}

\* apply of a leaf: it reports some changes, and may leave a restart pending.
LeafApply(changes, restart) ==
  /\ At("apply") /\ Act \in Leaves
  /\ Unlimited /\ history.made >= MaxMade => changes = 0
  /\ base' = [base EXCEPT ![Act].count = @ + changes]
  /\ restart_pending' = (restart_pending \/ restart)
  /\ stack' = Goto("applied", 0)
  /\ history' = [history EXCEPT !.made = @ + changes, 
       !.spent[Act] = IF changes > 0 \/ "once" \in Flags[Act] THEN Atmost(2, @ + 1) ELSE @]
  /\ UNCHANGED <<state, curstart, jumptable_recovery_on, ret, outcome, user>>

\* apply fails: the error leaves every perform on the stack as it stands.
LeafFails ==
  /\ At("apply") /\ Act \in Leaves
  /\ stack' = <<>> /\ outcome' = Outcome("error", 0)
  /\ history' = [history EXCEPT !.failed = TRUE]
  /\ NoData /\ UNCHANGED <<base, state, ret, user>>

\* apply of a group, up to its loop.
MutRewound(g) == TRUE

Rewound(g) == base[g].status # "MID"

GroupApply ==
  /\ At("apply") /\ Act \in Groups
  /\ IF Act = Root /\ curstart = -1
     THEN stack' = Goto("applied", 0) /\ UNCHANGED <<state, history>>
     ELSE /\ stack' = Goto("children", 0)
          /\ state' = IF Rewound(Act) THEN [state EXCEPT ![Act] = 1] ELSE state
          /\ history' = IF base[Act].status # "MID" THEN [history EXCEPT !.done[Act] = 0]
                                        ELSE history
  /\ NoData /\ UNCHANGED <<base, ret, outcome, user>>

PerformChild ==
  /\ At("children") /\ ret = NotReturned /\ state[Act] <= Len(Children[Act])
  /\ stack' = Append(stack, Frame(Children[Act][state[Act]]))
  /\ NoData /\ UNCHANGED <<base, state, ret, outcome, user, history>>

MutChildChangedLosesCount(res) == [base EXCEPT
  ![Act].count = IF check_action_break(Act) THEN @ ELSE @ + res,
  ![Act].breakpoint = @ \ {"TMPBREAK_ACTION"}]

ChildChanged(res) == [base EXCEPT ![Act].count = @ + res,
                                  ![Act].breakpoint = @ \ {"TMPBREAK_ACTION"}]

ChildReturned ==
  /\ At("children") /\ ret # NotReturned
  /\ ret' = NotReturned
  /\ base' = IF ret > 0 THEN ChildChanged(ret) ELSE base
  /\ state' = IF ret < 0 THEN state ELSE [state EXCEPT ![Act] = @ + 1]
  /\ history' = IF ret < 0 THEN history ELSE [history EXCEPT !.done[Act] = @ + 1]
  /\ stack' = IF ret < 0 \/ (ret > 0 /\ check_action_break(Act))
              THEN Goto("applied", -1) ELSE stack
  /\ NoData /\ UNCHANGED <<outcome, user>>

ListDone == At("children") /\ ret = NotReturned /\ state[Act] > Len(Children[Act])

GroupDone ==
  /\ ListDone /\ Act # Root
  /\ stack' = Goto("applied", 0)
  /\ NoData /\ UNCHANGED <<base, state, ret, outcome, user, history>>

\* The root has run its list: it is finished, or it starts over.
RestartGroupDone ==
  /\ ListDone /\ Act = Root
  /\ ~restart_pending \/ jumptable_recovery_on \/ curstart + 1 > MaxRestarts
  /\ curstart' = IF ~restart_pending \/ ~jumptable_recovery_on THEN -1 ELSE curstart
  /\ stack' = Goto("applied", 0)
  /\ UNCHANGED <<base, state, restart_pending, jumptable_recovery_on, ret, outcome,
                 user, history>>

Reset(n) == [base[n] EXCEPT !.status = "START"]

RestartCount == curstart + 1

Restart ==
  /\ ListDone /\ Act = Root
  /\ restart_pending /\ ~jumptable_recovery_on /\ curstart + 1 <= MaxRestarts
  /\ curstart' = RestartCount
  /\ restart_pending' = FALSE
  /\ base' = [n \in Node |-> Reset(n)]
  /\ state' = [state EXCEPT ![Root] = 1]
  /\ history' = [history EXCEPT !.restarts = Atmost(MaxRestarts + 1, @ + 1), !.done[Root] = 0,
                                !.spent = [n \in Leaves |-> 0]]
  /\ UNCHANGED <<jumptable_recovery_on, stack, ret, outcome, user>>
-----------------------------------------------------------------------------
\* perform, after apply.
Changed(n) == base[n].lcount < base[n].count

Suspend ==
  /\ At("applied") /\ Top.res < 0
  /\ base' = [base EXCEPT ![Act].status = "MID"]
  /\ Return(Top.res)
  /\ NoData /\ UNCHANGED <<state, user, history>>

ActionBreak ==
  /\ At("applied") /\ Top.res = 0 /\ Changed(Act) /\ check_action_break(Act)
  /\ base' = [base EXCEPT ![Act].status = "ACTIONBREAK",
                          ![Act].breakpoint = @ \ {"TMPBREAK_ACTION"}]
  /\ Return(-1)
  /\ NoData /\ UNCHANGED <<state, user, history>>

NoBreak ==
  /\ At("applied") /\ Top.res = 0 /\ ~(Changed(Act) /\ check_action_break(Act))
  /\ stack' = Goto("finish", 0)
  /\ NoData /\ UNCHANGED <<base, state, ret, outcome, user, history>>

Repeats(n) == Changed(n) /\ "repeat" \in Flags[n] /\ Top.repeat + 1 < MAXIMUM_REPEAT_COUNT

FinalStatus(n) ==
  IF "once" \in Flags[n] \/ ("oneact" \in Flags[n] /\ base[n].count > 0)
  THEN "END" ELSE "START"

Finish ==
  /\ At("finish")
  /\ IF Repeats(Act)
     THEN /\ base' = [base EXCEPT ![Act].status = "REPEAT"]
          /\ stack' = [stack EXCEPT ![Len(stack)].pc = "loop",
                                    ![Len(stack)].repeat = @ + 1]
          /\ UNCHANGED <<ret, outcome>>
     ELSE /\ base' = [base EXCEPT ![Act].status = FinalStatus(Act)]
          /\ Return(base[Act].count)
  /\ NoData /\ UNCHANGED <<state, user, history>>

Perform ==
  \/ PerformStart \/ PerformRepeat \/ PerformMid \/ PerformEnd \/ PerformActionBreak
  \/ \E changes \in 0 .. 1, restart \in BOOLEAN : LeafApply(changes, restart)
  \/ GroupApply \/ PerformChild \/ ChildReturned \/ GroupDone
  \/ RestartGroupDone \/ Restart
  \/ Suspend \/ ActionBreak \/ NoBreak \/ Finish
-----------------------------------------------------------------------------
\* The console: decompile clears the function, resets the tree and runs it.
Decompile ==
  /\ stack = <<>> /\ user.decompiles < MaxDecompiles
  /\ user' = [user EXCEPT !.decompiles = @ + 1]
  /\ base' = [n \in Node |-> Reset(n)]
  /\ curstart' = 0 /\ restart_pending' = FALSE
  /\ stack' = <<Frame(Root)>> /\ ret' = NotReturned /\ outcome' = Outcome("running", 0)
  /\ history' = [history EXCEPT !.made = 0, !.restarts = 0, !.failed = FALSE,
                                !.spent = [n \in Leaves |-> 0]]
  /\ UNCHANGED <<state, jumptable_recovery_on>>

\* continue is refused before the run has started and after it has ended.
ContinueRun ==
  /\ stack = <<>> /\ base[Root].status \notin {"START", "END"}
  /\ stack' = <<Frame(Root)>> /\ ret' = NotReturned /\ outcome' = Outcome("running", 0)
  /\ NoData /\ UNCHANGED <<base, state, user, history>>

set_break_point(n, tp) ==
  /\ stack = <<>> /\ user.breaks < MaxBreaks
  /\ user' = [user EXCEPT !.breaks = @ + 1]
  /\ base' = [base EXCEPT ![n].breakpoint = @ \cup {tp}]
  /\ NoData /\ UNCHANGED <<state, stack, ret, outcome, history>>

clear_break_points ==
  /\ stack = <<>>
  /\ base' = [n \in Node |-> [base[n] EXCEPT !.breakpoint = {}]]
  /\ NoData /\ UNCHANGED <<state, stack, ret, outcome, user, history>>

TreeNext ==
  \/ Perform \/ LeafFails
  \/ Decompile \/ ContinueRun \/ clear_break_points
  \/ \E n \in Node, tp \in StartBreaks \cup ActionBreaks : set_break_point(n, tp)

TreeSpec == TreeInit /\ [][TreeNext]_treevars

\* A perform call in progress goes on, and a user who sees a break continues.
FairTree == TreeSpec /\ WF_treevars(Perform) /\ WF_treevars(ContinueRun)
-----------------------------------------------------------------------------
Statuses == {"START", "BREAKSTARTHIT", "REPEAT", "MID", "END", "ACTIONBREAK"}

\* The fields of every action stay in their ranges, and a group never looks
\* past the end of its list (action.rs:523).
TreeTypeOK ==
  /\ \A n \in Node : /\ base[n].status \in Statuses
                     /\ base[n].lcount \in Nat /\ base[n].count \in Nat
                     /\ base[n].breakpoint \subseteq StartBreaks \cup ActionBreaks
  /\ \A g \in Groups : state[g] \in 0 .. Len(Children[g]) + 1
  /\ curstart \in -1 .. MaxRestarts
  /\ ret \in Nat \cup {NotReturned, -1}
  /\ outcome.kind \in {"idle", "running", "returned", "error"}
  /\ stack # <<>> => Top.pc \in {"loop", "apply", "children", "applied", "finish"}

Suspended == outcome = Outcome("returned", -1)
Completed == outcome.kind = "returned" /\ outcome.value >= 0

\* The result of a completed run is the number of changes its leaves made,
\* however often it was interrupted and resumed and whether or not it was
\* restarted: no break loses a count or reports one twice (action.rs:518-536,
\* 243-315).
CountsAgree == Completed /\ ~history.failed => outcome.value = history.made

\* A break leaves exactly one way to go on.  From the root down, each action
\* that is MID leads to the child it stopped in, until one that stopped at its
\* own breakpoint; every other action is at START or END, so none is left half
\* done (action.rs:274-290, 518-536); a completed run leaves no action so.
Interrupted == {n \in Node : base[n].status \in {"MID", "BREAKSTARTHIT", "ACTIONBREAK"}}
Inside(n) == {m \in Interrupted : \E i \in 1 .. Len(Children[n]) : Children[n][i] = m}
ResumePath ==
  /\ Completed /\ ~history.failed => Interrupted = {}
  /\ Suspended /\ ~history.failed =>
    /\ Root \in Interrupted
    /\ \A n \in Node : base[n].status # "REPEAT"
    /\ \A n \in Interrupted :
         IF base[n].status = "MID"
         THEN Inside(n) \in {{}, {Children[n][i] : i \in {state[n]} \cap DOMAIN Children[n]}}
         ELSE Inside(n) = {}
    /\ \A m \in Interrupted \ {Root} : \E n \in Interrupted : m \in Inside(n)

\* In every pass over its list a group takes each child to completion exactly
\* once, also when a break and a later call separate two children
\* (action.rs:519-535).
EachChildOncePerPass ==
  \A i \in 1 .. Len(stack) :
    LET g == stack[i].node
    IN  stack[i].pc = "children" => history.done[g] = state[g] - 1

\* Between two resets an action limited to one run per function
\* (RULE_ONCEPERFUNC) is applied at most once, and one limited to a single
\* change (RULE_ONEACTPERFUNC) reports changes at most once, however often the
\* group around it repeats (action.rs:305-307).
OncePerFunction ==
  ~history.failed =>
    \A n \in Leaves : Flags[n] \cap {"once", "oneact"} # {} => history.spent[n] <= 1

\* The function is cleared and started over at most maxrestarts times in a run
\* (action.rs:705-710).
RestartsBounded == history.restarts <= MaxRestarts

\* Nothing runs more often than it may: the three properties above together.
ChildrenRunOnce == EachChildOncePerPass /\ OncePerFunction /\ RestartsBounded

\* Every call of perform returns: repeats and restarts are limited
\* (action.rs:296-300, 705-710), and nothing else limits what the leaves change.
EveryPerformReturns == stack # <<>> ~> stack = <<>>

\* However many temporary breakpoints interrupt a run, continuing finishes it: none
\* stops it twice (action.rs:250-254, 526-531), and a resumed action goes on behind
\* the point where it stopped.
ContinuingFinishes ==
  Suspended /\ user.decompiles = MaxDecompiles
    ~> Completed \/ outcome.kind = "error" \/ Unlimited
=============================================================================
