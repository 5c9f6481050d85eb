----------------------------- MODULE MCSession ------------------------------
(***************************************************************************)
(* Small instances of Session for TLC.                                     *)
(***************************************************************************)
EXTENDS Session, TLC

Symmetry == Permutations(Slots) \cup Permutations(Devices)

(* Answers that cannot be told apart by what comes back of their tokens.   *)
AllAlike == [t \in Tokens |-> CHOOSE n \in Numbers : TRUE]

=============================================================================
