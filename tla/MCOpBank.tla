------------------------------ MODULE MCOpBank ------------------------------
(***************************************************************************)
(* The bank of ops, and the order numbers of the ops of a block, for model *)
(* checking.  They share no state: a behaviour runs one of them (part).    *)
(***************************************************************************)
EXTENDS OpBank, TLC

VARIABLE part

Symmetry == Permutations(Ops)

MCInit == part \in {"order", "bank"} /\ Init /\ BankInit

OrderStep == part = "order" /\ Next /\ UNCHANGED <<part, bank>>
BankStep  == part = "bank" /\ BankNext /\ UNCHANGED <<part, ord>>

MCNext == OrderStep \/ BankStep

MCSpec == MCInit /\ [][MCNext]_<<part, ord, bank>>
=============================================================================
