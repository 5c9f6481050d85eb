----------------------------- MODULE MCRegistry -----------------------------
(***************************************************************************)
(* Registry for TLC.  The IMEIs have two digits: "12" and "21".            *)
(***************************************************************************)
EXTENDS Registry, TLC

Imeis == {18, 33}

(* Nothing depends on which address or connection it is.                   *)
Symmetry == Permutations(Objs) \cup Permutations(Conns)

=============================================================================
