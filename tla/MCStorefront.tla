---------------------------- MODULE MCStorefront ------------------------------
(***************************************************************************)
(* Two sessions of one store beside an erasure.                            *)
(***************************************************************************)
EXTENDS Storefront, TLC

CONSTANTS ann, ben

\* An erasure among requests; among writes; two turns around one.
MCBudgets == {[starts |-> 3, writes |-> 0, faults |-> 1],
              [starts |-> 2, writes |-> 3, faults |-> 1],
              [starts |-> 3, writes |-> 1, faults |-> 0]}
MCSessions == {ann, ben}
SessionSymmetry == Permutations(MCSessions)

=============================================================================
