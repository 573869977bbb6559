----------------------------- MODULE MCAccounts -----------------------------
(***************************************************************************)
(* One account and two requests at a time: signed up or invited, with two  *)
(* addresses and two passwords.                                            *)
(***************************************************************************)
EXTENDS Accounts, TLC

\* Requests are interchangeable, and so are passwords.
AccountSymmetry == Permutations(Requests) \cup Permutations(Passwords)
=============================================================================
