----------------------------- MODULE MCIndices -----------------------------
(* Two index operations crossing the sync tasks of one document.           *)
EXTENDS Indices, TLC

CONSTANTS r1, r2, d1

MCRequests == {r1, r2}
MCDocs == {d1}
\* The store's two changes beside one reindex; one change beside two and a failed read.
MCScopes == {[indices |-> 2, versions |-> 2, faults |-> 0],
             [indices |-> 3, versions |-> 1, faults |-> 1]}
IndexSymmetry == Permutations(MCRequests)
=============================================================================
