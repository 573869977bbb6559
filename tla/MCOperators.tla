---------------------------- MODULE MCOperators -----------------------------
(***************************************************************************)
(* Two operators and two requests at a time, over three TOTP steps and two *)
(* secrets.                                                                *)
(***************************************************************************)
EXTENDS Operators, TLC

OperatorSymmetry == Permutations(Requests) \cup Permutations(Operators)
=============================================================================
