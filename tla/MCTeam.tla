------------------------------- MODULE MCTeam -------------------------------
(***************************************************************************)
(* The founder and two colleagues over four addresses, with at most two    *)
(* access tokens alive at once.                                            *)
(***************************************************************************)
EXTENDS Team, TLC

CONSTANT ann

\* The colleagues are interchangeable, and so are the other addresses.
TeamSymmetry ==
    Permutations(Members \ {Founder}) \cup Permutations(Addresses \ {FirstAddress})
=============================================================================
