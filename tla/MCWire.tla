------------------------------- MODULE MCWire -------------------------------
(***************************************************************************)
(* Wire with shorts of seven bits: every command code and every sequence   *)
(* number, and data sizes on both sides of what a header can count.        *)
(***************************************************************************)
EXTENDS Wire

AllWords == 0 .. Word - 1
EdgePayloads == {0, 3, 120, 121}
=============================================================================
