--------------------------- MODULE Subscriptions ---------------------------
(***************************************************************************)
(* One subscription row per tenant, and the actors that write it: the      *)
(* store owner (cancel, resume), the platform operator (plan change, plan  *)
(* deletion) and the period-end renewal runs, which the daily beat task    *)
(* and the operator's "run renewals" button start independently.           *)
(* Every database statement that commits on its own is one action; a       *)
(* statement group inside conn.transaction() is one action too.            *)
(* Module Settlement extends this one with orders and payments.            *)
(***************************************************************************)
EXTENDS Naturals

CONSTANTS
    Tenants,    \* stores
    Plans,      \* plan codes of the catalogue
    TrialPlan,  \* settings.trial_plan_code: the plan a cancelled store falls back to
    NoPlan,     \* tenants.plan_id IS NULL
    NoTenant,   \* a renewal run is between two rows
    Runners,    \* activities that can execute process_renewals
    Scheduled,  \* those that start by themselves for ever: Celery beat's daily task
    MaxPeriods, \* bound: period ends per tenant
    MaxCrashes  \* bound: renewal runs that die half-way

ASSUME SubscriptionsAssumption ==
    /\ TrialPlan \in Plans
    /\ NoPlan \notin Plans
    /\ NoTenant \notin Tenants
    /\ Scheduled \subseteq Runners
    /\ MaxPeriods \in Nat
    /\ MaxCrashes \in Nat

VARIABLES
    sub,          \* the subscriptions table, keyed by tenant (UNIQUE(tenant_id))
    tenantPlan,   \* tenants.plan_id
    trialOffered, \* the plans table has a row for TrialPlan
    rpc,          \* where each renewal run stands
    due,          \* the rows its SELECT returned and it has not finished
    cur,          \* the row it is working on
    elapsed,      \* ghost: how many periods of the tenant have ended
    trialGrants,  \* credit_ledger rows 'plan_grant' of the trial plan (it has credits),
                  \* per activity whose renewal run wrote them and per tenant
    asked,        \* ghost: tenants whose owner ever scheduled a cancellation
    crashes       \* ghost: renewal runs that died

subVars == <<sub, tenantPlan, trialOffered, rpc, due, cur, elapsed, trialGrants, asked, crashes>>
runnerVars == <<rpc, due, cur>>

SubStatus == {"none", "trialing", "active", "past_due", "canceled"}

\* status "none" stands for a tenant without a subscription row. over is
\* current_period_end <= now().
Subscription ==
    [status: SubStatus, plan: Plans \cup {NoPlan}, over: BOOLEAN, cancel: BOOLEAN]

NoSubscription == [status |-> "none", plan |-> NoPlan, over |-> FALSE, cancel |-> FALSE]
Fresh(p, status) == [status |-> status, plan |-> p, over |-> FALSE, cancel |-> FALSE]

\* Rows of the credit ledger, by who wrote them and for which tenant.
GrantCounts == [Runners -> [Tenants -> Nat]]

\* A run holds a row exactly while it is between the two writes of that row, and
\* an idle run holds none.
RunnerPosition(r) ==
    /\ rpc[r] = "clear" <=> cur[r] # NoTenant
    /\ rpc[r] = "clear" => cur[r] \in due[r]
    /\ rpc[r] = "idle" => due[r] = {}

\* The tables and the runs' positions are well formed.
SubTypeOK ==
    /\ sub \in [Tenants -> Subscription]
    /\ tenantPlan \in [Tenants -> Plans \cup {NoPlan}]
    /\ trialOffered \in BOOLEAN
    /\ rpc \in [Runners -> {"idle", "mark", "loop", "clear"}]
    /\ due \in [Runners -> SUBSET Tenants]
    /\ cur \in [Runners -> Tenants \cup {NoTenant}]
    /\ \A r \in Runners : RunnerPosition(r)
    /\ elapsed \in [Tenants -> Nat]
    /\ trialGrants \in GrantCounts
    /\ asked \in SUBSET Tenants
    /\ crashes \in Nat

\* A tenant either signed up (a trialing subscription in the same transaction)
\* or was provisioned by the operator, with no plan and no subscription.
SubInit ==
    /\ sub \in [Tenants -> {NoSubscription, Fresh(TrialPlan, "trialing")}]
    /\ tenantPlan = [t \in Tenants |-> sub[t].plan]
    /\ trialOffered = TRUE
    /\ rpc = [r \in Runners |-> "idle"]
    /\ due = [r \in Runners |-> {}]
    /\ cur = [r \in Runners |-> NoTenant]
    /\ elapsed = [t \in Tenants |-> 0]
    /\ trialGrants = [r \in Runners |-> [t \in Tenants |-> 0]]
    /\ asked = {}
    /\ crashes = 0

-----------------------------------------------------------------------------
(* Single-transaction writers.                                             *)

\* The plans the catalogue can resolve now.
Offered == IF trialOffered THEN Plans ELSE Plans \ {TrialPlan}

\* Mutant of ActivatePlan: tenants.plan_id is forgotten.
ActivateSubOnly(t, p) ==
    /\ sub' = [sub EXCEPT ![t] = Fresh(p, "active")]
    /\ UNCHANGED tenantPlan

\* activate_plan's transaction: the tenant's plan pointer and the subscription
\* row move together; the grant it also writes is counted by the callers.
ActivatePlan(t, p) ==
    /\ sub' = [sub EXCEPT ![t] = Fresh(p, "active")]
    /\ tenantPlan' = [tenantPlan EXCEPT ![t] = p]

\* The clock passes current_period_end.
PeriodEnds(t) ==
    /\ sub[t].status # "none"
    /\ ~sub[t].over
    /\ elapsed[t] < MaxPeriods
    /\ sub' = [sub EXCEPT ![t].over = TRUE]
    /\ elapsed' = [elapsed EXCEPT ![t] = @ + 1]
    /\ UNCHANGED <<tenantPlan, trialOffered, runnerVars, trialGrants, asked, crashes>>

\* POST /tenant/billing/cancel and /resume: one UPDATE, whatever the status is.
SetCancel(t, flag) ==
    /\ sub[t].status # "none"
    /\ sub' = [sub EXCEPT ![t].cancel = flag]
    /\ asked' = IF flag THEN asked \cup {t} ELSE asked
    /\ UNCHANGED <<tenantPlan, trialOffered, runnerVars, elapsed, trialGrants, crashes>>

Cancel(t) == SetCancel(t, TRUE)
Resume(t) == SetCancel(t, FALSE)

\* PATCH /admin/tenants/{id}/plan: the operator chooses the status too, no grant.
ChangeTenantPlan(t, p, status) ==
    /\ p \in Offered
    /\ status \in SubStatus \ {"none"}
    /\ sub' = [sub EXCEPT ![t] = Fresh(p, status)]
    /\ tenantPlan' = [tenantPlan EXCEPT ![t] = p]
    /\ UNCHANGED <<trialOffered, runnerVars, elapsed, trialGrants, asked, crashes>>

\* DELETE /admin/plans/{id} of the trial plan: refused while a tenant, a
\* subscription or an order refers to it.
DeleteTrialPlan(ordered) ==
    /\ trialOffered
    /\ ~ordered
    /\ \A t \in Tenants : TrialPlan \notin {tenantPlan[t], sub[t].plan}
    /\ trialOffered' = FALSE
    /\ UNCHANGED <<sub, tenantPlan, runnerVars, elapsed, trialGrants, asked, crashes>>

\* POST /admin/plans with the trial plan's code: refused while the code is taken.
CreateTrialPlan ==
    /\ ~trialOffered
    /\ trialOffered' = TRUE
    /\ UNCHANGED <<sub, tenantPlan, runnerVars, elapsed, trialGrants, asked, crashes>>

-----------------------------------------------------------------------------
(* process_renewals, statement by statement.                               *)

\* Mutant of Lapsed: the period end is not compared with now().
ActiveOnly(s) == s.status = "active"

Lapsed(s) == s.status = "active" /\ s.over

\* Mutants of ToCancel and ToMarkPastDue: the cancel flag is not read, or swapped.
AnyLapsed(s) == Lapsed(s)
LapsedToCancel(s) == Lapsed(s) /\ s.cancel

ToCancel(s) == Lapsed(s) /\ s.cancel
ToMarkPastDue(s) == Lapsed(s) /\ ~s.cancel

\* SELECT the lapsed subscriptions scheduled to cancel.
SelectDue(r) ==
    /\ rpc[r] = "idle"
    /\ rpc' = [rpc EXCEPT ![r] = "mark"]
    /\ due' = [due EXCEPT ![r] = {t \in Tenants : ToCancel(sub[t])}]
    /\ UNCHANGED <<sub, tenantPlan, trialOffered, cur, elapsed, trialGrants, asked, crashes>>

\* UPDATE the other lapsed subscriptions to past_due: a second statement, which
\* reads the table again.
MarkPastDue(r) ==
    /\ rpc[r] = "mark"
    /\ rpc' = [rpc EXCEPT ![r] = "loop"]
    /\ sub' = [t \in Tenants |->
                 IF ToMarkPastDue(sub[t]) THEN [sub[t] EXCEPT !.status = "past_due"] ELSE sub[t]]
    /\ UNCHANGED <<tenantPlan, trialOffered, due, cur, elapsed, trialGrants, asked, crashes>>

\* activate_plan(trial plan) for one of the selected rows. The row is not read
\* again; an unknown plan makes activate_plan return False, which is ignored.
DowngradeRow(r, t) ==
    /\ rpc[r] = "loop"
    /\ t \in due[r]
    /\ rpc' = [rpc EXCEPT ![r] = "clear"]
    /\ cur' = [cur EXCEPT ![r] = t]
    /\ \/ /\ trialOffered
          /\ ActivatePlan(t, TrialPlan)
          /\ trialGrants' = [trialGrants EXCEPT ![r][t] = @ + 1]
       \/ /\ ~trialOffered
          /\ UNCHANGED <<sub, tenantPlan, trialGrants>>
    /\ UNCHANGED <<trialOffered, due, elapsed, asked, crashes>>

\* UPDATE ... SET cancel_at_period_end = FALSE for that row.
ClearCancel(r) ==
    /\ rpc[r] = "clear"
    /\ rpc' = [rpc EXCEPT ![r] = "loop"]
    /\ sub' = [sub EXCEPT ![cur[r]].cancel = FALSE]
    /\ due' = [due EXCEPT ![r] = @ \ {cur[r]}]
    /\ cur' = [cur EXCEPT ![r] = NoTenant]
    /\ UNCHANGED <<tenantPlan, trialOffered, elapsed, trialGrants, asked, crashes>>

FinishRun(r) ==
    /\ rpc[r] = "loop"
    /\ due[r] = {}
    /\ rpc' = [rpc EXCEPT ![r] = "idle"]
    /\ UNCHANGED <<sub, tenantPlan, trialOffered, due, cur, elapsed, trialGrants, asked, crashes>>

\* Mutant of CrashRun: a restarted run believes it still has a row.
CrashKeepsRow(r) ==
    /\ rpc[r] # "idle"
    /\ crashes < MaxCrashes
    /\ rpc' = [rpc EXCEPT ![r] = "idle"]
    /\ due' = [due EXCEPT ![r] = {}]
    /\ crashes' = crashes + 1
    /\ UNCHANGED <<sub, tenantPlan, trialOffered, cur, elapsed, trialGrants, asked>>

\* The worker dies or a statement raises: nothing of the run's position is kept.
CrashRun(r) ==
    /\ rpc[r] # "idle"
    /\ crashes < MaxCrashes
    /\ rpc' = [rpc EXCEPT ![r] = "idle"]
    /\ due' = [due EXCEPT ![r] = {}]
    /\ cur' = [cur EXCEPT ![r] = NoTenant]
    /\ crashes' = crashes + 1
    /\ UNCHANGED <<sub, tenantPlan, trialOffered, elapsed, trialGrants, asked>>

RunnerStep(r) ==
    \/ SelectDue(r)
    \/ MarkPastDue(r)
    \/ \E t \in Tenants : DowngradeRow(r, t)
    \/ ClearCancel(r)
    \/ FinishRun(r)

\* Everything that writes this module's tables except plan deletion, which the
\* orders table can refuse.
SubStep ==
    \/ \E t \in Tenants : PeriodEnds(t)
    \/ \E t \in Tenants : Cancel(t) \/ Resume(t)
    \/ \E t \in Tenants, p \in Plans, status \in SubStatus : ChangeTenantPlan(t, p, status)
    \/ CreateTrialPlan
    \/ \E r \in Runners : RunnerStep(r)
    \/ \E r \in Runners : CrashRun(r)

SubNext == SubStep \/ DeleteTrialPlan(FALSE)
SubSpec == SubInit /\ [][SubNext]_subVars

\* Celery beat starts the task every day and a worker executes what it starts. The
\* operator's button need never be pressed, and a run it started may never go on.
SubFairness == \A r \in Scheduled : WF_subVars(RunnerStep(r))
SubFairSpec == SubSpec /\ SubFairness

-----------------------------------------------------------------------------
(* Properties.                                                             *)

\* The tenant row and the subscription row never disagree about the plan: every
\* writer moves both in one transaction, in any interleaving of owner, operator
\* and renewal runs.
PlanPointersAgree == \A t \in Tenants : tenantPlan[t] = sub[t].plan

\* Only a store whose owner once asked to cancel is ever moved to the trial plan
\* by a renewal run, however long the run's SELECT is out of date.
DowngradeWasAsked ==
    [][\A r \in Runners, t \in Tenants : DowngradeRow(r, t) => t \in asked]_subVars

\* However often its runs die and are started again, and whatever the runs of the
\* other activities do meanwhile, one activity writes at most one trial grant per
\* ended period of a tenant. (Two activities whose runs overlap can write one each:
\* the row is not read again between the SELECT and the grant.)
OneGrantPerPeriod ==
    \A r \in Runners, t \in Tenants : trialGrants[r][t] <= elapsed[t]

\* No subscription stays active past its period for ever: the runs mark it
\* past_due or downgrade it (or its owner or the operator renews it). The cancel
\* flag is split out because an owner who toggles it inside every run's
\* SELECT/UPDATE gap makes that run skip the row.
LapsedIsProcessed ==
    \A t \in Tenants, flag \in BOOLEAN :
        []<>~(sub[t].status = "active" /\ sub[t].over /\ sub[t].cancel = flag)

=============================================================================
