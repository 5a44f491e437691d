--------------------------- MODULE ActionDatabase ---------------------------
(***************************************************************************)
(* src/action.rs, src/architecture.rs, src/funcdata/funcdata_block.rs: the *)
(* database of actions, the options that edit it, and a decompile call     *)
(* that borrows from it.  The call takes the current action out of the map *)
(* while it runs.  Recovering a jump table inside the call selects the     *)
(* "jumptable" action, moves the whole database out of the architecture    *)
(* while that action runs on a partial clone of the function, and selects  *)
(* the previous action again by name.                                      *)
(*                                                                         *)
(* An action is reduced to the base groups it was derived from and to      *)
(* whether the user has put breakpoints on it.                             *)
(***************************************************************************)
EXTENDS Naturals, Functions

CONSTANTS Name,            \* names of groups and of the actions derived from them
          Base,            \* base groups: what the actions of a group belong to
          DefaultGroups,   \* the groups build_default_groups sets up
          MaxEdits         \* bound: option and breakpoint commands

UNIVERSALNAME == "universal"

ASSUME DatabaseAssumption ==
  /\ {"universal", "decompile", "jumptable"} \subseteq Name
  /\ DOMAIN DefaultGroups \subseteq Name \ {"universal"}
  /\ {"decompile", "jumptable"} \subseteq DOMAIN DefaultGroups
  /\ DefaultGroups \in [DOMAIN DefaultGroups -> SUBSET Base]

Unset == "none"

VARIABLES allacts,     \* the database of the architecture
          frame,       \* the local variables of the decompile call in progress
          before,      \* the database and the current action when it began
          lost,        \* has a panic inside a recovery been seen?
          edits

databasevars == <<allacts, frame, before, lost, edits>>

Action(parts) == [parts |-> parts, breakpoints |-> FALSE]

\* [key |-> value] added to, and k removed from, a map.
With(f, k, v) == [j \in DOMAIN f \cup {k} |-> IF j = k THEN v ELSE f[j]]
Without(f, k) == Restrict(f, DOMAIN f \ {k})
Has(f, k) == k \in DOMAIN f

NoMap == [k \in {} |-> Unset]
EmptyDatabase == [currentact |-> Unset, currentactname |-> Unset, groupmap |-> NoMap,
                  actionmap |-> NoMap, is_default_groups |-> FALSE]

\* clone_action yields nothing when no action belongs to the group.
Clone(act, grp) == act.parts \cap grp

CanDerive(db, grp) ==
  Has(db.actionmap, grp) \/ (Has(db.groupmap, grp) /\ Has(db.actionmap, UNIVERSALNAME))

\* derive_action, when it succeeds: the action under that name if there is one.
derive_action(db, grp) ==
  IF Has(db.actionmap, grp) THEN [db EXCEPT !.currentact = grp]
  ELSE LET parts == Clone(db.actionmap[UNIVERSALNAME], db.groupmap[grp])
       IN  IF parts = {} THEN [db EXCEPT !.currentact = Unset]
           ELSE [db EXCEPT !.currentact = grp,
                           !.actionmap = With(db.actionmap, grp, Action(parts))]

\* set_current: the name changes first, also when the derivation then fails.
set_current(db, name) ==
  LET named == [db EXCEPT !.currentactname = name]
  IN  IF CanDerive(db, name) THEN derive_action(named, name) ELSE named

build_default_groups(db) ==
  IF db.is_default_groups THEN db
  ELSE [db EXCEPT !.groupmap = DefaultGroups, !.is_default_groups = TRUE]

reset_defaults(db) ==
  set_current(build_default_groups([db EXCEPT
      !.actionmap = Restrict(db.actionmap, DOMAIN db.actionmap \cap {UNIVERSALNAME})]),
    "decompile")

\* add_to_group and remove_from_group create the group if need be.
Members(db, grp) == IF Has(db.groupmap, grp) THEN db.groupmap[grp] ELSE {}

Regrouped(db, grp, base, val) == [db EXCEPT
  !.is_default_groups = FALSE,
  !.groupmap = With(db.groupmap, grp, IF val THEN Members(db, grp) \cup {base}
                                             ELSE Members(db, grp) \ {base})]

toggle_action(db0, grp, base, val) ==
  LET db == Regrouped(db0, grp, base, val)
      parts == Clone(db.actionmap[UNIVERSALNAME], db.groupmap[grp])
  IN  [db EXCEPT
        !.actionmap = IF parts = {} THEN Without(db.actionmap, grp)
                      ELSE With(db.actionmap, grp, Action(parts)),
        !.currentact = CASE grp # db.currentactname -> @
                         [] parts = {} -> Unset
                         [] OTHER -> grp]

clone_group(db, old, new) == [db EXCEPT
  !.is_default_groups = FALSE, !.groupmap = With(db.groupmap, new, db.groupmap[old])]
-----------------------------------------------------------------------------
NoCall == [pc |-> "idle", name |-> Unset, action |-> Action({}),
           oldactname |-> Unset, allacts |-> EmptyDatabase]

\* build_action_base: the universal action is registered, the rest derived.
DatabaseInit ==
  /\ allacts = reset_defaults([EmptyDatabase EXCEPT
                 !.actionmap = With(NoMap, UNIVERSALNAME, Action(Base))])
  /\ frame = NoCall /\ before = <<>> /\ lost = FALSE /\ edits = 0

\* The user is taken not to regroup the universal action itself: that would
\* leave a part of it, or nothing, to derive the others from.
Editable == Name \ {UNIVERSALNAME}

Idle == frame.pc = "idle"
Edit == Idle /\ edits < MaxEdits /\ edits' = edits + 1 /\ before' = <<>>

ResetDefaults ==
  /\ Edit
  /\ allacts' = reset_defaults(allacts)
  /\ UNCHANGED <<frame, lost>>

\* The option "setaction", with one name and with two.
SetAction(p1) ==
  /\ Edit
  /\ allacts' = set_current(allacts, p1)
  /\ UNCHANGED <<frame, lost>>

SetActionClone(p1, p2) ==
  /\ Edit /\ Has(allacts.groupmap, p1)
  /\ allacts' = set_current(clone_group(allacts, p1, p2), p2)
  /\ UNCHANGED <<frame, lost>>

\* The option "currentaction", with the name of the action and without.
CurrentAction(p1, base, val) ==
  /\ Edit
  /\ LET db == set_current(allacts, p1)
     IN  allacts' = IF CanDerive(allacts, p1) /\ Has(db.actionmap, UNIVERSALNAME)
                    THEN toggle_action(db, p1, base, val) ELSE db
  /\ UNCHANGED <<frame, lost>>

ToggleCurrent(base, val) ==
  /\ Edit /\ Has(allacts.actionmap, UNIVERSALNAME)
  /\ allacts.currentactname \in Editable
  /\ allacts' = toggle_action(allacts, allacts.currentactname, base, val)
  /\ UNCHANGED <<frame, lost>>

SetBreakPoint ==
  /\ Edit
  /\ Has(allacts.actionmap, allacts.currentact)
  /\ allacts' = [allacts EXCEPT !.actionmap[allacts.currentact].breakpoints = TRUE]
  /\ UNCHANGED <<frame, lost>>
-----------------------------------------------------------------------------
\* with_current_action: take the action out of the map and run it.
CallBegins ==
  /\ Idle /\ Has(allacts.actionmap, allacts.currentact)
  /\ frame' = [NoCall EXCEPT !.pc = "running", !.name = allacts.currentact,
                             !.action = allacts.actionmap[allacts.currentact]]
  /\ before' = <<allacts>>
  /\ allacts' = [allacts EXCEPT !.actionmap = Without(@, allacts.currentact)]
  /\ UNCHANGED <<lost, edits>>

\* Without an action to run the call is refused.
CallRefused ==
  /\ Idle /\ ~Has(allacts.actionmap, allacts.currentact)
  /\ before' = <<>>
  /\ UNCHANGED <<allacts, frame, lost, edits>>

\* It returns, fails or panics: the action is put back in every case.

PutBack(db) == [db EXCEPT !.actionmap = With(@, frame.name, frame.action)]

CallReturns ==
  /\ frame.pc = "running"
  /\ allacts' = PutBack(allacts)
  /\ frame' = NoCall
  /\ UNCHANGED <<before, lost, edits>>

\* stage_jump_table, run_jumptable_action: select "jumptable" and move the
\* database out, or give up at once and select the old name again.
StageJumpTable ==
  /\ frame.pc = "running"
  /\ LET old == allacts.currentactname
         db == set_current(allacts, "jumptable")
     IN  IF CanDerive(allacts, "jumptable")
         THEN /\ allacts' = EmptyDatabase
              /\ frame' = [frame EXCEPT !.pc = "recovering", !.oldactname = old,
                                        !.allacts = db]
         ELSE allacts' = set_current(db, old) /\ UNCHANGED frame
  /\ UNCHANGED <<before, lost, edits>>

\* The nested perform has returned: put the database back, select the old
\* action.  If that fails after a success, the error ends the call as well.
MutReselect(db, old) == [db EXCEPT !.currentactname = old]

Reselect(db, old) == set_current(db, old)

Recovered(ok) ==
  /\ frame.pc = "recovering"
  /\ LET db == Reselect(frame.allacts, frame.oldactname)
     IN  IF ok /\ ~CanDerive(frame.allacts, frame.oldactname)
         THEN allacts' = PutBack(db) /\ frame' = NoCall
         ELSE allacts' = db /\ frame' = [frame EXCEPT !.pc = "running",
                                           !.oldactname = Unset, !.allacts = EmptyDatabase]
  /\ UNCHANGED <<before, lost, edits>>

\* The nested perform panics: the database on the unwound stack is dropped.
RecoveryPanics ==
  /\ frame.pc = "recovering"
  /\ allacts' = PutBack(allacts)
  /\ frame' = NoCall /\ lost' = TRUE
  /\ UNCHANGED <<before, edits>>

DatabaseNext ==
  \/ ResetDefaults \/ SetBreakPoint
  \/ \E p1 \in Name : SetAction(p1)
  \/ \E p1, p2 \in Editable : SetActionClone(p1, p2)
  \/ \E p1 \in Editable, b \in Base, val \in BOOLEAN : CurrentAction(p1, b, val)
  \/ \E b \in Base, val \in BOOLEAN : ToggleCurrent(b, val)
  \/ CallBegins \/ CallRefused \/ CallReturns \/ StageJumpTable
  \/ \E ok \in BOOLEAN : Recovered(ok)
  \/ RecoveryPanics

DatabaseSpec == DatabaseInit /\ [][DatabaseNext]_databasevars
-----------------------------------------------------------------------------
\* Every database maps names to groups and to actions, none of them empty.
DatabaseOK(db) ==
  /\ db.currentact \in Name \cup {Unset} /\ db.currentactname \in Name \cup {Unset}
  /\ DOMAIN db.groupmap \subseteq Name /\ DOMAIN db.actionmap \subseteq Name
  /\ \A g \in DOMAIN db.groupmap : db.groupmap[g] \subseteq Base
  /\ \A n \in DOMAIN db.actionmap : db.actionmap[n].parts \in SUBSET Base \ {{}}

DatabaseTypeOK ==
  /\ DatabaseOK(allacts) /\ DatabaseOK(frame.allacts)
  /\ frame.pc \in {"idle", "running", "recovering"}
  /\ edits \in 0 .. MaxEdits

\* Between calls the universal action is there to derive others from, and the
\* selected action is in the map, so that the next call has one to run
\* (architecture.rs:1806-1820, action.rs:1302-1388).
Usable ==
  Idle => /\ Has(allacts.actionmap, UNIVERSALNAME)
          /\ allacts.currentact # Unset => Has(allacts.actionmap, allacts.currentact)

\* The same, whenever no panic has struck inside a jump table recovery.
UsableUnlessLost == ~lost => Usable

\* A name that was selected successfully, of a group an action can be derived
\* from: the universal action, and one that outlived its emptied group, cannot
\* be selected again while they are out of the map.
Selected(db) ==
  db.currentact = db.currentactname /\ Members(db, db.currentactname) # {}

\* A call leaves the selection as it was, however many jump tables it recovers
\* and however those recoveries end (funcdata_block.rs:451-462).
CallKeepsSelection ==
  Idle /\ ~lost /\ before # <<>> /\ Selected(before[1]) =>
    /\ allacts.currentact = before[1].currentact
    /\ allacts.currentactname = before[1].currentactname

\* A call leaves the action it ran in the map, not the copy that selecting its
\* name again derived meanwhile: the user's breakpoints survive
\* (architecture.rs:1817).
CallKeepsAction ==
  Idle /\ before # <<>> =>
    LET name == before[1].currentact
    IN  Has(allacts.actionmap, name) /\ allacts.actionmap[name] = before[1].actionmap[name]

\* Whatever happens inside a call, short of a panic in a nested recovery, the
\* database is then as the next call needs it: the three properties above.
CallsKeepTheDatabase == UsableUnlessLost /\ CallKeepsSelection /\ CallKeepsAction
=============================================================================
