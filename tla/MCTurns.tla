------------------------------ MODULE MCTurns ------------------------------
(***************************************************************************)
(* Assistant turns on a small instance: a browse query, a hard one that   *)
(* prefers the frontier, and the chain the environment configures.         *)
(***************************************************************************)
EXTENDS TurnLadder, TLC

CONSTANT browse

MCSimilar == [q \in Queries |-> Queries]
MCTier == [q \in Queries |-> IF q = browse THEN "search" ELSE "hard"]
MCEndpoints == {[local |-> FALSE, name |-> "other"], [local |-> TRUE, name |-> "local"]}
MCPrice == [cache |-> {0}, search |-> {0}, local |-> {1}, frontier |-> {0, 2}]

Scope(before, turns, edits, grants, fails, erases) ==
    [before |-> before, turns |-> turns, edits |-> edits, grants |-> grants, faults |-> fails,
     erasures |-> erases]

\* What a turn buys depends on the catalogue in nothing, and what a cached answer was
\* written from on the money in nothing. Three turns over the money, two of them at once,
\* below the cap and at it; and at the cap one turn over the caches with an erasure, and
\* two with an erasure, a failing store or more writes.
MCScopes ==
    {Scope(before, 3, 0, 1, 1, 0) : before \in {1, 2}}
      \cup {Scope(2, 1, 3, 0, 1, 1), Scope(2, 2, 1, 0, 0, 1), Scope(2, 2, 1, 0, 1, 0),
            Scope(2, 2, 2, 0, 0, 0)}

TurnSymmetry == Permutations(Turns)

=============================================================================
