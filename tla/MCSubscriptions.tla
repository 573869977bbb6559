-------------------------- MODULE MCSubscriptions --------------------------
(***************************************************************************)
(* Renewal runs on a small instance: one store, the trial plan and one    *)
(* paid plan, and two runs that may overlap. Stores share nothing but the  *)
(* runs, whose rows the run handles one after the other.                   *)
(***************************************************************************)
EXTENDS Subscriptions

=============================================================================
