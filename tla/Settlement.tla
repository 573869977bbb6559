----------------------------- MODULE Settlement -----------------------------
(***************************************************************************)
(* Orders and how they are settled. A checkout inserts a pending order and *)
(* may attach a hosted payment to it. Three routes report it paid: the     *)
(* shopper's browser coming back from the payment provider (verified with  *)
(* the provider first), the provider's signed webhook, and the operator.   *)
(* All three call mark_order_paid, whose statements commit one by one:     *)
(*                                                                         *)
(*   read status -> UPDATE paid -> fulfil (top-up grant and invoice, or    *)
(*   plan activation) -> invoice of a plan order                           *)
(*                                                                         *)
(* A handler is one request; it does its steps once and ends or dies.      *)
(* ledger[h] and invoices[h] count the credit_ledger and invoices rows     *)
(* handler h inserted, so the rows an order caused are those of the        *)
(* handlers that worked on it.                                             *)
(***************************************************************************)
EXTENDS Subscriptions, FiniteSets

CONSTANTS
    Orders,       \* order ids
    OrderTenant,  \* orders.tenant_id
    OrderKind,    \* orders.kind, "subscription" or "topup"
    OrderPlan,    \* the plan of orders.plan_id (any plan for a top-up, which has none)
    CreditPlans,  \* plans with credits_per_month > 0
    Handlers,     \* requests that report an order paid
    NoOrder,      \* a handler that has not started
    MaxDead       \* bound: handlers that die half-way

ASSUME SettlementAssumption ==
    /\ OrderTenant \in [Orders -> Tenants]
    /\ OrderKind \in [Orders -> {"subscription", "topup"}]
    /\ OrderPlan \in [Orders -> Plans]
    /\ CreditPlans \subseteq Plans
    /\ NoOrder \notin Orders
    /\ MaxDead \in Nat

VARIABLES
    status,    \* orders.status, "none" before the INSERT
    payment,   \* the hosted payment: none, requested at the provider, stored as provider_ref
    money,     \* external: orders the shopper really paid
    confirmed, \* external: orders the operator vouched for
    pc,        \* where each handler stands
    ord,       \* the order it works on
    ledger,    \* credit_ledger rows it inserted
    invoices,  \* invoices rows it inserted
    raced,     \* ghost: orders two handlers read as unpaid before either wrote
    refunded,  \* ghost: orders the operator ever refunded
    dead       \* ghost: handlers that died

tableVars == <<status, payment>>
worldVars == <<money, confirmed>>
handlerVars == <<pc, ord, ledger, invoices>>
ghostVars == <<raced, refunded, dead>>
orderVars == <<tableVars, worldVars, handlerVars, ghostVars>>
vars == <<subVars, orderVars>>

OrderStatus == {"none", "pending", "paid", "failed", "refunded"}
HandlerStep == {"idle", "verify", "reject", "read", "update", "fulfil", "invoice", "done", "dead"}

\* Tables, handlers and ghosts are well formed; a started handler has an order.
OrderTypeOK ==
    /\ status \in [Orders -> OrderStatus]
    /\ payment \in [Orders -> {"none", "requested", "stored"}]
    /\ money \in SUBSET Orders
    /\ confirmed \in SUBSET Orders
    /\ pc \in [Handlers -> HandlerStep]
    /\ ord \in [Handlers -> Orders \cup {NoOrder}]
    /\ \A h \in Handlers : pc[h] = "idle" <=> ord[h] = NoOrder
    /\ ledger \in [Handlers -> Nat]
    /\ invoices \in [Handlers -> Nat]
    /\ raced \in SUBSET Orders
    /\ refunded \in SUBSET Orders
    /\ dead \in Nat

OrderInit ==
    /\ status = [o \in Orders |-> "none"]
    /\ payment = [o \in Orders |-> "none"]
    /\ money = {}
    /\ confirmed = {}
    /\ pc = [h \in Handlers |-> "idle"]
    /\ ord = [h \in Handlers |-> NoOrder]
    /\ ledger = [h \in Handlers |-> 0]
    /\ invoices = [h \in Handlers |-> 0]
    /\ raced = {}
    /\ refunded = {}
    /\ dead = 0

Goto(h, step) == pc' = [pc EXCEPT ![h] = step]

\* Mutant of Start: the request forgets which order it is about.
StartUnbound(h, o, step) ==
    /\ pc[h] = "idle"
    /\ Goto(h, step)
    /\ UNCHANGED <<ord, ledger, invoices>>

\* A request about order o reaches a free handler.
Start(h, o, step) ==
    /\ pc[h] = "idle"
    /\ Goto(h, step)
    /\ ord' = [ord EXCEPT ![h] = o]
    /\ UNCHANGED <<ledger, invoices>>

-----------------------------------------------------------------------------
(* Checkout and the shopper.                                               *)

\* create_order / create_topup_order: one INSERT, status 'pending'.
CreateOrder(o) ==
    /\ status[o] = "none"
    /\ status' = [status EXCEPT ![o] = "pending"]
    /\ UNCHANGED <<subVars, payment, worldVars, handlerVars, ghostVars>>

\* POST /tenant/billing/checkout: a plan the catalogue resolves, by the store's owner.
Checkout(o) ==
    /\ OrderKind[o] = "subscription"
    /\ OrderPlan[o] \in Offered
    /\ CreateOrder(o)

\* POST /tenant/billing/topup: credits at the configured rate.
Topup(o) == OrderKind[o] = "topup" /\ CreateOrder(o)

\* _start_hosted_payment: the provider opens a payment; when it refuses or cannot
\* be reached the order stays pending, which is the step not taken.
RequestPayment(o) ==
    /\ status[o] # "none"
    /\ payment[o] = "none"
    /\ payment' = [payment EXCEPT ![o] = "requested"]
    /\ UNCHANGED <<subVars, status, worldVars, handlerVars, ghostVars>>

\* UPDATE orders SET provider_ref: unconditional, whatever happened to the order
\* meanwhile. Only now does the shopper get the redirect.
StoreReference(o) ==
    /\ payment[o] = "requested"
    /\ payment' = [payment EXCEPT ![o] = "stored"]
    /\ UNCHANGED <<subVars, status, worldVars, handlerVars, ghostVars>>

\* The shopper pays, at the provider or against the manual instructions.
ShopperPays(o) ==
    /\ status[o] # "none"
    /\ o \notin money
    /\ money' = money \cup {o}
    /\ UNCHANGED <<subVars, tableVars, confirmed, handlerVars, ghostVars>>

-----------------------------------------------------------------------------
(* The three routes to mark_order_paid.                                    *)

\* GET /billing/callback: found by provider_ref; a paid order ends the request.
Callback(h, o) ==
    /\ payment[o] = "stored"
    /\ Start(h, o, IF status[o] = "paid" THEN "done" ELSE "verify")
    /\ UNCHANGED <<subVars, tableVars, worldVars, ghostVars>>

\* psp.verify: settled only for a payment the provider received (codes 100, 101);
\* a NOK redirect or an unreachable provider counts as not verified.
Verify(h) ==
    /\ pc[h] = "verify"
    /\ \/ ord[h] \in money /\ Goto(h, "read")
       \/ Goto(h, "reject")
    /\ UNCHANGED <<subVars, tableVars, worldVars, ord, ledger, invoices, ghostVars>>

\* Mutant of Reject: AND status = 'pending' is missing.
RejectAny(h) ==
    /\ pc[h] = "reject"
    /\ Goto(h, "done")
    /\ status' = [status EXCEPT ![ord[h]] = "failed"]
    /\ UNCHANGED <<subVars, payment, worldVars, ord, ledger, invoices, ghostVars>>

\* UPDATE orders SET status = 'failed' WHERE ... AND status = 'pending'.
Reject(h) ==
    /\ pc[h] = "reject"
    /\ Goto(h, "done")
    /\ status' = [status EXCEPT ![ord[h]] = IF @ = "pending" THEN "failed" ELSE @]
    /\ UNCHANGED <<subVars, payment, worldVars, ord, ledger, invoices, ghostVars>>

\* POST /billing/webhook with a valid signature: the provider reports a payment it
\* received, any number of times.
Webhook(h, o) ==
    /\ o \in money
    /\ Start(h, o, "read")
    /\ UNCHANGED <<subVars, tableVars, worldVars, ghostVars>>

\* POST /admin/orders/{id}/mark-paid: nothing but the operator's word.
OperatorConfirms(h, o) ==
    /\ status[o] # "none"
    /\ Start(h, o, "read")
    /\ confirmed' = confirmed \cup {o}
    /\ UNCHANGED <<subVars, tableVars, money, ghostVars>>

-----------------------------------------------------------------------------
(* mark_order_paid.                                                        *)

\* Handlers that read order o as not paid and have not written it yet.
InWindow(o) == {h \in Handlers : pc[h] = "update" /\ ord[h] = o}

\* Mutant of ReadOrder: a paid order is not recognised.
ReadOrderBlindly(h) ==
    /\ pc[h] = "read"
    /\ Goto(h, "update")
    /\ raced' = IF InWindow(ord[h]) # {} THEN raced \cup {ord[h]} ELSE raced
    /\ UNCHANGED <<subVars, tableVars, worldVars, ord, ledger, invoices, refunded, dead>>

\* SELECT the order; 'paid' returns already=True and does nothing.
ReadOrder(h) ==
    /\ pc[h] = "read"
    /\ \/ /\ status[ord[h]] = "paid"
          /\ Goto(h, "done")
          /\ UNCHANGED raced
       \/ /\ status[ord[h]] # "paid"
          /\ Goto(h, "update")
          /\ raced' = IF InWindow(ord[h]) # {} THEN raced \cup {ord[h]} ELSE raced
    /\ UNCHANGED <<subVars, tableVars, worldVars, ord, ledger, invoices, refunded, dead>>

\* Mutant of MarkPaid: the function returns after the UPDATE.
MarkPaidOnly(h) ==
    /\ pc[h] = "update"
    /\ Goto(h, "done")
    /\ status' = [status EXCEPT ![ord[h]] = "paid"]
    /\ UNCHANGED <<subVars, payment, worldVars, ord, ledger, invoices, ghostVars>>

\* UPDATE orders SET status = 'paid' WHERE id: the status is not tested again.
MarkPaid(h) ==
    /\ pc[h] = "update"
    /\ Goto(h, "fulfil")
    /\ status' = [status EXCEPT ![ord[h]] = "paid"]
    /\ UNCHANGED <<subVars, payment, worldVars, ord, ledger, invoices, ghostVars>>

\* Mutant of FulfilTopup: the invoice without the grant.
InvoiceTopupOnly(h) ==
    /\ pc[h] = "fulfil"
    /\ OrderKind[ord[h]] = "topup"
    /\ Goto(h, "done")
    /\ invoices' = [invoices EXCEPT ![h] = @ + 1]
    /\ UNCHANGED <<subVars, tableVars, worldVars, ord, ledger, ghostVars>>

\* A top-up: grant and invoice in one transaction.
FulfilTopup(h) ==
    /\ pc[h] = "fulfil"
    /\ OrderKind[ord[h]] = "topup"
    /\ Goto(h, "done")
    /\ ledger' = [ledger EXCEPT ![h] = @ + 1]
    /\ invoices' = [invoices EXCEPT ![h] = @ + 1]
    /\ UNCHANGED <<subVars, tableVars, worldVars, ord, ghostVars>>

\* Mutant of FulfilPlan: no invoice follows the activation.
FulfilPlanUnbilled(h) ==
    /\ pc[h] = "fulfil"
    /\ OrderKind[ord[h]] = "subscription"
    /\ Goto(h, "done")
    /\ ActivatePlan(OrderTenant[ord[h]], OrderPlan[ord[h]])
    /\ ledger' = [ledger EXCEPT ![h] = IF OrderPlan[ord[h]] \in CreditPlans THEN @ + 1 ELSE @]
    /\ UNCHANGED <<trialOffered, runnerVars, elapsed, trialGrants, asked, crashes>>
    /\ UNCHANGED <<tableVars, worldVars, ord, invoices, ghostVars>>

\* A plan order: activate_plan's transaction, with the plan's credits if it has any.
FulfilPlan(h) ==
    /\ pc[h] = "fulfil"
    /\ OrderKind[ord[h]] = "subscription"
    /\ Goto(h, "invoice")
    /\ ActivatePlan(OrderTenant[ord[h]], OrderPlan[ord[h]])
    /\ ledger' = [ledger EXCEPT ![h] = IF OrderPlan[ord[h]] \in CreditPlans THEN @ + 1 ELSE @]
    /\ UNCHANGED <<trialOffered, runnerVars, elapsed, trialGrants, asked, crashes>>
    /\ UNCHANGED <<tableVars, worldVars, ord, invoices, ghostVars>>

\* The invoice of a plan order, on a connection of its own.
IssueInvoice(h) ==
    /\ pc[h] = "invoice"
    /\ Goto(h, "done")
    /\ invoices' = [invoices EXCEPT ![h] = @ + 1]
    /\ UNCHANGED <<subVars, tableVars, worldVars, ord, ledger, ghostVars>>

\* The process dies or a statement raises: committed statements stay, the rest of
\* the handler never happens.
HandlerDies(h) ==
    /\ pc[h] \notin {"idle", "done", "dead"}
    /\ dead < MaxDead
    /\ Goto(h, "dead")
    /\ dead' = dead + 1
    /\ UNCHANGED <<subVars, tableVars, worldVars, ord, ledger, invoices, raced, refunded>>

\* POST /admin/orders/{id}/refund: whatever the status is; nothing else moves.
Refund(o) ==
    /\ status[o] # "none"
    /\ status' = [status EXCEPT ![o] = "refunded"]
    /\ refunded' = refunded \cup {o}
    /\ UNCHANGED <<subVars, payment, worldVars, handlerVars, raced, dead>>

-----------------------------------------------------------------------------
HandlerProgress(h) ==
    \/ Verify(h)
    \/ Reject(h)
    \/ ReadOrder(h)
    \/ MarkPaid(h)
    \/ FulfilTopup(h)
    \/ FulfilPlan(h)
    \/ IssueInvoice(h)

OrderNext ==
    \/ \E o \in Orders : Checkout(o) \/ Topup(o)
    \/ \E o \in Orders : RequestPayment(o)
    \/ \E o \in Orders : StoreReference(o)
    \/ \E o \in Orders : ShopperPays(o)
    \/ \E o \in Orders : Refund(o)
    \/ \E h \in Handlers, o \in Orders : Callback(h, o)
    \/ \E h \in Handlers, o \in Orders : Webhook(h, o)
    \/ \E h \in Handlers, o \in Orders : OperatorConfirms(h, o)
    \/ \E h \in Handlers : HandlerProgress(h)
    \/ \E h \in Handlers : HandlerDies(h)

OrdersReferToTrial ==
    \E o \in Orders : /\ status[o] # "none"
                      /\ OrderKind[o] = "subscription"
                      /\ OrderPlan[o] = TrialPlan

\* Billing as a whole: settlement beside the owners, the operator and the renewal
\* runs of module Subscriptions.
Next ==
    \/ OrderNext
    \/ SubStep /\ UNCHANGED orderVars
    \/ DeleteTrialPlan(OrdersReferToTrial) /\ UNCHANGED orderVars

Init == SubInit /\ OrderInit
Spec == Init /\ [][Next]_vars

\* Settlement alone: no owner, operator or renewal run touches subscriptions.
OrderSpec == Init /\ [][OrderNext]_vars

\* A request that was accepted runs on: the event loop schedules every handler.
OrderFairSpec == OrderSpec /\ \A h \in Handlers : WF_vars(HandlerProgress(h))

-----------------------------------------------------------------------------
(* Properties.                                                             *)

Worked(h, o) == ord[h] = o /\ (ledger[h] > 0 \/ invoices[h] > 0)

\* "The redirect alone activates NOTHING": credits and invoices exist only for an
\* order the shopper paid or the operator confirmed.
NothingWithoutPayment ==
    \A h \in Handlers, o \in Orders : Worked(h, o) => o \in money \cup confirmed

\* An order that caused a grant or an invoice is shown paid or refunded for ever: a
\* late failed callback never takes the paid status back.
WorkedStaysPaid ==
    \A h \in Handlers, o \in Orders : Worked(h, o) => status[o] \in {"paid", "refunded"}

\* An order is worked by one handler only, once, unless two handlers read it as
\* unpaid before either wrote, or the operator refunded it.
OnceUnlessRacedOrRefunded ==
    \A o \in Orders \ (raced \cup refunded) :
        \A h1, h2 \in Handlers :
            /\ Worked(h1, o) /\ Worked(h2, o) => h1 = h2
            /\ Worked(h1, o) => ledger[h1] <= 1 /\ invoices[h1] <= 1

\* A top-up's grant and its invoice are both there or both missing, and a plan
\* invoice comes after the plan's grant.
InvoiceHasGrant ==
    \A h \in Handlers : ord[h] # NoOrder =>
        /\ OrderKind[ord[h]] = "topup" => invoices[h] = ledger[h]
        /\ OrderPlan[ord[h]] \in CreditPlans => invoices[h] <= ledger[h]

\* The rows that the handlers of order o inserted, as their counters say.
RowsOf(o, inserted) ==
    UNION {{h} \X (1..inserted[h]) : h \in {g \in Handlers : ord[g] = o}}

\* An order is delivered as Delivery promises: paid or confirmed first, once unless
\* raced or refunded, credits before the invoice.
Promise == INSTANCE Delivery
    WITH Credited <- {o \in Orders : OrderKind[o] = "topup" \/ OrderPlan[o] \in CreditPlans},
         AtOnce <- {o \in Orders : OrderKind[o] = "topup"},
         vouched <- money \cup confirmed,
         excused <- raced \cup refunded,
         granted <- [o \in Orders |-> Cardinality(RowsOf(o, ledger))],
         invoiced <- [o \in Orders |-> Cardinality(RowsOf(o, invoices))]

PromiseKept == Promise!DeliverySpec

Delivered(o) == \E h \in Handlers : ord[h] = o /\ invoices[h] > 0
OnTheWay(o) == \E h \in Handlers : ord[h] = o /\ pc[h] \in {"fulfil", "invoice"}
Abandoned(o) == \E h \in Handlers : ord[h] = o /\ pc[h] = "dead"

\* A paid order has its invoice, or the handler that marked it paid is about to
\* issue it, or a handler of the order died: nothing else loses a delivery.
PaidIsCovered ==
    \A o \in Orders : status[o] = "paid" => Delivered(o) \/ OnTheWay(o) \/ Abandoned(o)

\* Every order that is marked paid gets its invoice, and the grant before it, unless a
\* handler of it dies.
PaidIsDelivered == \A o \in Orders : status[o] = "paid" ~> Delivered(o) \/ Abandoned(o)

=============================================================================
