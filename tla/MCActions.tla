----------------------------- MODULE MCActions -----------------------------
(***************************************************************************)
(* The three machines of src/action.rs for model checking: the tree of     *)
(* actions, a pool of rules and the database the actions are taken from.   *)
(* They share no state, so a behaviour runs one of them (part) and leaves  *)
(* the others at rest.                                                     *)
(***************************************************************************)
EXTENDS ActionTree, ActionPool, ActionDatabase

CONSTANT Parts         \* the machines to run

VARIABLE part

\* A tree with every kind of action: a restart group over a leaf that runs once
\* and a repeating group whose leaves carry the other limits.
MCNode == {"root", "once", "loop", "rewrite", "oneact"}

MCChildren == [n \in MCNode |->
  CASE n = "root" -> <<"once", "loop">>
    [] n = "loop" -> <<"rewrite", "oneact">>
    [] OTHER -> <<>>]

MCFlags == [n \in MCNode |->
  CASE n \in {"root", "once"} -> {"once"}
    [] n = "loop"   -> {"repeat"}
    [] n = "oneact" -> {"oneact"}
    [] OTHER -> {}]

\* add is registered for one opcode only, collapse for both; off is disabled.
MCperop == [c \in {"INT_ADD", "COPY"} |->
              IF c = "INT_ADD" THEN <<"add", "collapse">>
                               ELSE <<"off", "collapse", "copy">>]

MCDefaultGroups == [g \in {"decompile", "jumptable"} |->
                      IF g = "decompile" THEN {"base", "deadcode"} ELSE {"base"}]

\* A pool between two calls, on a function without operations.
PoolAtRest ==
  /\ optree = [k \in {} |-> Op("COPY")] /\ used = {} /\ op_state = End /\ rule_index = 0
  /\ opc = "COPY" /\ pc = "done" /\ repeat = 0 /\ count = 0 /\ streak = 0
  /\ breakpoint = {} /\ tested = {}

MCInit ==
  /\ part \in Parts
  /\ TreeInit /\ (part = "tree" \/ ~jumptable_recovery_on)
  /\ IF part = "pool" THEN Init ELSE PoolAtRest
  /\ DatabaseInit

TreeStep == part = "tree" /\ TreeNext /\ UNCHANGED <<part, vars, databasevars>>
PoolStep == part = "pool" /\ Next /\ UNCHANGED <<part, treevars, databasevars>>
DatabaseStep == part = "database" /\ DatabaseNext /\ UNCHANGED <<part, treevars, vars>>

MCNext == TreeStep \/ PoolStep \/ DatabaseStep

MCSpec ==
  /\ MCInit /\ [][MCNext]_<<part, treevars, vars, databasevars>>
  /\ WF_treevars(Perform) /\ WF_treevars(ContinueRun)
  /\ WF_vars(Pass)
-----------------------------------------------------------------------------
\* Every call returns: each pass of a pool ends (PassesEnd), so does each call of
\* perform, whatever repeats and restarts it meets (EveryPerformReturns), and
\* a run that is interrupted is finished by continuing it (ContinuingFinishes).
CallsReturn == PassesEnd /\ EveryPerformReturns /\ ContinuingFinishes
=============================================================================
