---------------------------- MODULE MCSettlement ----------------------------
(***************************************************************************)
(* Settlement on a small instance: one store, the free and the pro plan, a *)
(* pro order and a top-up order.                                           *)
(***************************************************************************)
EXTENDS Settlement, TLC

CONSTANTS t1, free, pro, plan1, topup1

OneTenant == [o \in Orders |-> t1]
Kinds == [o \in Orders |-> IF o = topup1 THEN "topup" ELSE "subscription"]
ProPlan == [o \in Orders |-> pro]

\* Handlers are interchangeable requests.
HandlerSymmetry == Permutations(Handlers)
=============================================================================
