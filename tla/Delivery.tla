------------------------------- MODULE Delivery -------------------------------
(***************************************************************************)
(* What settling an order promises to its store and to the platform's      *)
(* books, whoever reports it paid, how often and through how many requests *)
(* at once: credits and an invoice come only after somebody vouched for    *)
(* the order, once each unless it is excused, and no invoice comes before  *)
(* its credits. Settlement implements it.                                  *)
(***************************************************************************)
EXTENDS Naturals

CONSTANTS
    Orders,
    Credited, \* orders whose delivery grants credits
    AtOnce    \* of those, the ones whose credits and invoice are one transaction

VARIABLES
    vouched,  \* orders the shopper paid or the operator confirmed
    excused,  \* orders that may be delivered again
    granted,  \* grants an order caused
    invoiced  \* invoices it caused

deliveryVars == <<vouched, excused, granted, invoiced>>

DeliveryInit ==
    /\ vouched = {}
    /\ excused = {}
    /\ granted = [o \in Orders |-> 0]
    /\ invoiced = [o \in Orders |-> 0]

Vouch(o) == vouched' = vouched \cup {o} /\ UNCHANGED <<excused, granted, invoiced>>

Excuse(o) == excused' = excused \cup {o} /\ UNCHANGED <<vouched, granted, invoiced>>

\* Order o may have one more of what is counted.
Due(o, counted) == o \in vouched /\ (counted[o] = 0 \/ o \in excused)

Grant(o) ==
    /\ o \in Credited \ AtOnce
    /\ Due(o, granted)
    /\ granted' = [granted EXCEPT ![o] = @ + 1]
    /\ UNCHANGED <<vouched, excused, invoiced>>

Invoice(o) ==
    /\ o \notin AtOnce
    /\ Due(o, invoiced)
    /\ o \in Credited => invoiced[o] < granted[o]
    /\ invoiced' = [invoiced EXCEPT ![o] = @ + 1]
    /\ UNCHANGED <<vouched, excused, granted>>

GrantWithInvoice(o) ==
    /\ o \in AtOnce
    /\ Due(o, granted) /\ Due(o, invoiced)
    /\ granted' = [granted EXCEPT ![o] = @ + 1]
    /\ invoiced' = [invoiced EXCEPT ![o] = @ + 1]
    /\ UNCHANGED <<vouched, excused>>

DeliveryNext ==
    \E o \in Orders : Vouch(o) \/ Excuse(o) \/ Grant(o) \/ Invoice(o) \/ GrantWithInvoice(o)

DeliverySpec == DeliveryInit /\ [][DeliveryNext]_deliveryVars

=============================================================================
