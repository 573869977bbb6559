--------------------------- MODULE BillingProofs ---------------------------
(***************************************************************************)
(* What billing keeps for every set of stores, plans, renewal runs, orders *)
(* and payment handlers.                                                   *)
(*                                                                         *)
(* The subscriptions come first, by themselves; the facts about one step   *)
(* are stated without the temporal frame, so that the steps settlement     *)
(* adds can use them. Then settlement, in any interleaving and with any    *)
(* handler dying anywhere. Its safety properties are not inductive: they   *)
(* say what rows an order caused, and a handler half-way through has not   *)
(* caused them yet. The invariants here speak of such handlers too. Last,  *)
(* the two together, and the refinement of Delivery.                       *)
(***************************************************************************)
EXTENDS Settlement, FiniteSetTheorems, TLAPS

\* Every pending cancellation, and every row a renewal run still holds, belongs to
\* an owner who asked: what a run selected stays true of the past.
PendingWasAsked ==
    /\ \A t \in Tenants : sub[t].cancel => t \in asked
    /\ \A r \in Runners : due[r] \subseteq asked

SubInv == SubTypeOK /\ PlanPointersAgree /\ PendingWasAsked

\* A row that activate_plan or the operator writes is a subscription.
LEMMA FreshIsSubscription ==
    ASSUME NEW p \in Plans \cup {NoPlan}, NEW s \in SubStatus
    PROVE  Fresh(p, s) \in Subscription
  BY DEF Fresh, Subscription

\* A signed-up or provisioned store starts with agreeing plan pointers.
LEMMA SubInitInv == SubInit => SubInv
  <1> SUFFICES ASSUME SubInit PROVE SubInv
    OBVIOUS
  <1> USE SubscriptionsAssumption
  <1>1. NoSubscription \in Subscription /\ Fresh(TrialPlan, "trialing") \in Subscription
    BY DEF NoSubscription, Fresh, Subscription, SubStatus
  <1>2. sub \in [Tenants -> Subscription]
    BY <1>1 DEF SubInit
  <1>3. tenantPlan \in [Tenants -> Plans \cup {NoPlan}] /\ PlanPointersAgree
    BY <1>2 DEF SubInit, Subscription, PlanPointersAgree
  <1>4. trialGrants \in GrantCounts
    BY DEF SubInit, GrantCounts
  <1>5. SubTypeOK
    BY <1>2, <1>3, <1>4 DEF SubInit, SubTypeOK, RunnerPosition
  <1>6. PendingWasAsked
    BY DEF SubInit, PendingWasAsked, NoSubscription, Fresh
  <1> QED
    BY <1>3, <1>5, <1>6 DEF SubInv

\* The edits of one column that the statements make.
LEMMA OverEdit ==
    ASSUME NEW s \in Subscription
    PROVE  LET row == [s EXCEPT !.over = TRUE]
           IN row \in Subscription /\ row.plan = s.plan /\ row.cancel = s.cancel
  BY DEF Subscription

LEMMA CancelEdit ==
    ASSUME NEW s \in Subscription, NEW flag \in BOOLEAN
    PROVE  LET row == [s EXCEPT !.cancel = flag]
           IN row \in Subscription /\ row.plan = s.plan /\ row.cancel = flag
  BY DEF Subscription

LEMMA StatusEdit ==
    ASSUME NEW s \in Subscription
    PROVE  LET row == [s EXCEPT !.status = "past_due"]
           IN row \in Subscription /\ row.plan = s.plan /\ row.cancel = s.cancel
  BY DEF Subscription, SubStatus

\* A row that keeps its plan, and its cancellation or lack of one, keeps the table sound.
LEMMA RowUpdate ==
    ASSUME sub \in [Tenants -> Subscription], NEW t \in Tenants, NEW row \in Subscription,
           sub' = [sub EXCEPT ![t] = row],
           row.plan = sub[t].plan,
           row.cancel => sub[t].cancel
    PROVE  /\ sub' \in [Tenants -> Subscription]
           /\ \A u \in Tenants : /\ sub'[u].plan = sub[u].plan
                                 /\ sub'[u].cancel => sub[u].cancel
  <1>1. sub' \in [Tenants -> Subscription]
    OBVIOUS
  <1>2. ASSUME NEW u \in Tenants
        PROVE  sub'[u].plan = sub[u].plan /\ (sub'[u].cancel => sub[u].cancel)
    <2>1. CASE u = t
      BY <2>1
    <2>2. CASE u # t
      BY <2>2
    <2> QED
      BY <2>1, <2>2
  <1> QED
    BY <1>1, <1>2

\* One more row of one activity for one tenant.
LEMMA GrantCounted ==
    ASSUME trialGrants \in GrantCounts, NEW r \in Runners, NEW t \in Tenants,
           trialGrants' = [trialGrants EXCEPT ![r][t] = @ + 1]
    PROVE  /\ trialGrants' \in GrantCounts
           /\ trialGrants'[r][t] = trialGrants[r][t] + 1
           /\ \A q \in Runners, u \in Tenants :
                 q # r \/ u # t => trialGrants'[q][u] = trialGrants[q][u]
  <1> DEFINE row == [trialGrants[r] EXCEPT ![t] = @ + 1]
  <1>1. trialGrants' = [trialGrants EXCEPT ![r] = row]
    OBVIOUS
  <1>2. trialGrants[r] \in [Tenants -> Nat]
    BY DEF GrantCounts
  <1>3. /\ row \in [Tenants -> Nat]
        /\ row[t] = trialGrants[r][t] + 1
        /\ \A u \in Tenants : u # t => row[u] = trialGrants[r][u]
    BY <1>2
  <1> HIDE DEF row
  <1>4. /\ trialGrants' \in GrantCounts
        /\ trialGrants'[r] = row
        /\ \A q \in Runners : q # r => trialGrants'[q] = trialGrants[q]
    BY <1>1, <1>3 DEF GrantCounts
  <1> QED
    BY <1>3, <1>4

\* One step of an owner, the operator, the clock or a renewal run.
LEMMA SubStepInv == SubInv /\ SubStep => SubInv'
  <1> SUFFICES ASSUME SubInv, SubStep PROVE SubInv'
    OBVIOUS
  <1> USE SubscriptionsAssumption DEF SubInv, SubTypeOK, runnerVars
  <1>1. ASSUME NEW t \in Tenants, PeriodEnds(t) PROVE SubInv'
    <2> DEFINE row == [sub[t] EXCEPT !.over = TRUE]
    <2>1. row \in Subscription /\ row.plan = sub[t].plan /\ row.cancel = sub[t].cancel
      BY OverEdit
    <2>2. sub' = [sub EXCEPT ![t] = row]
      BY <1>1 DEF PeriodEnds
    <2> HIDE DEF row
    <2>3. /\ sub' \in [Tenants -> Subscription]
          /\ \A u \in Tenants : /\ sub'[u].plan = sub[u].plan
                                /\ sub'[u].cancel => sub[u].cancel
      BY <2>1, <2>2, RowUpdate
    <2> QED
      BY <1>1, <2>3 DEF PeriodEnds, RunnerPosition, PlanPointersAgree, PendingWasAsked
  <1>2. ASSUME NEW t \in Tenants, NEW flag \in BOOLEAN, SetCancel(t, flag) PROVE SubInv'
    <2> DEFINE row == [sub[t] EXCEPT !.cancel = flag]
    <2>1. row \in Subscription /\ row.plan = sub[t].plan /\ row.cancel = flag
      BY CancelEdit
    <2>2. sub' = [sub EXCEPT ![t] = row]
      BY <1>2 DEF SetCancel
    <2> HIDE DEF row
    <2>3. SubTypeOK'
      BY <1>2, <2>1, <2>2 DEF SetCancel, RunnerPosition
    <2>4. PlanPointersAgree' /\ PendingWasAsked'
      BY <1>2, <2>1, <2>2 DEF SetCancel, PlanPointersAgree, PendingWasAsked
    <2> QED
      BY <2>3, <2>4
  <1>3. ASSUME NEW t \in Tenants, NEW p \in Plans, NEW s \in SubStatus, ChangeTenantPlan(t, p, s)
        PROVE SubInv'
    BY <1>3, FreshIsSubscription
    DEF ChangeTenantPlan, Fresh, RunnerPosition, PlanPointersAgree, PendingWasAsked
  <1>4. ASSUME CreateTrialPlan PROVE SubInv'
    BY <1>4 DEF CreateTrialPlan, RunnerPosition, PlanPointersAgree, PendingWasAsked
  <1>5. ASSUME NEW r \in Runners, SelectDue(r) PROVE SubInv'
    BY <1>5 DEF SelectDue, ToCancel, RunnerPosition, PlanPointersAgree, PendingWasAsked
  <1>6. ASSUME NEW r \in Runners, MarkPastDue(r) PROVE SubInv'
    <2>1. /\ sub' \in [Tenants -> Subscription]
          /\ \A t \in Tenants : sub'[t].plan = sub[t].plan /\ sub'[t].cancel = sub[t].cancel
      BY <1>6, StatusEdit DEF MarkPastDue
    <2> QED
      BY <1>6, <2>1 DEF MarkPastDue, RunnerPosition, PlanPointersAgree, PendingWasAsked
  <1>7. ASSUME NEW r \in Runners, NEW t \in Tenants, DowngradeRow(r, t) PROVE SubInv'
    <2>1. /\ sub' \in [Tenants -> Subscription]
          /\ tenantPlan' \in [Tenants -> Plans \cup {NoPlan}]
      BY <1>7, FreshIsSubscription DEF DowngradeRow, ActivatePlan, SubStatus
    <2>2. trialGrants' \in GrantCounts
      BY <1>7, GrantCounted DEF DowngradeRow
    <2>3. SubTypeOK'
      BY <1>7, <2>1, <2>2 DEF DowngradeRow, RunnerPosition
    <2>4. /\ due' = due
          /\ asked' = asked
          /\ \A u \in Tenants : u # t => sub'[u] = sub[u] /\ tenantPlan'[u] = tenantPlan[u]
          /\ \/ sub'[t] = sub[t] /\ tenantPlan'[t] = tenantPlan[t]
             \/ sub'[t] = Fresh(TrialPlan, "active") /\ tenantPlan'[t] = TrialPlan
      BY <1>7 DEF DowngradeRow, ActivatePlan
    <2>5. PlanPointersAgree' /\ PendingWasAsked'
      BY <2>4 DEF Fresh, PlanPointersAgree, PendingWasAsked
    <2> QED
      BY <2>3, <2>5
  <1>8. ASSUME NEW r \in Runners, ClearCancel(r) PROVE SubInv'
    <2>1. cur[r] \in Tenants
      BY <1>8 DEF ClearCancel, RunnerPosition
    <2> DEFINE row == [sub[cur[r]] EXCEPT !.cancel = FALSE]
    <2>5. row \in Subscription /\ row.plan = sub[cur[r]].plan /\ ~row.cancel
      BY <2>1, CancelEdit
    <2>6. sub' = [sub EXCEPT ![cur[r]] = row]
      BY <1>8 DEF ClearCancel
    <2> HIDE DEF row
    <2>2. /\ sub' \in [Tenants -> Subscription]
          /\ \A u \in Tenants : /\ sub'[u].plan = sub[u].plan
                                /\ sub'[u].cancel => sub[u].cancel
      BY <2>1, <2>5, <2>6, RowUpdate
    <2>3. PlanPointersAgree' /\ PendingWasAsked'
      BY <1>8, <2>2 DEF ClearCancel, PlanPointersAgree, PendingWasAsked
    <2>4. \A q \in Runners : RunnerPosition(q)'
      BY <1>8, <2>1 DEF ClearCancel, RunnerPosition
    <2> QED
      BY <1>8, <2>2, <2>3, <2>4 DEF ClearCancel
  <1>9. ASSUME NEW r \in Runners, FinishRun(r) PROVE SubInv'
    BY <1>9 DEF FinishRun, RunnerPosition, PlanPointersAgree, PendingWasAsked
  <1>10. ASSUME NEW r \in Runners, CrashRun(r) PROVE SubInv'
    BY <1>10 DEF CrashRun, RunnerPosition, PlanPointersAgree, PendingWasAsked
  <1> QED
    BY <1>1, <1>2, <1>3, <1>4, <1>5, <1>6, <1>7, <1>8, <1>9, <1>10 DEF SubStep, Cancel, Resume, RunnerStep

\* Deleting the trial plan leaves every row that names a plan alone.
LEMMA DeleteTrialPlanInv ==
    ASSUME NEW ordered \in BOOLEAN
    PROVE  SubInv /\ DeleteTrialPlan(ordered) => SubInv'
  BY DEF DeleteTrialPlan, runnerVars, SubInv, SubTypeOK, RunnerPosition, PlanPointersAgree,
         PendingWasAsked

\* activate_plan, called for a tenant by a transaction that writes nothing else of
\* this module.
LEMMA ActivatePlanInv ==
    ASSUME NEW t \in Tenants, NEW p \in Plans
    PROVE  /\ SubInv
           /\ ActivatePlan(t, p)
           /\ UNCHANGED <<trialOffered, runnerVars, elapsed, trialGrants, asked, crashes>>
           => SubInv'
  <1> SUFFICES ASSUME SubInv, ActivatePlan(t, p),
                      UNCHANGED <<trialOffered, runnerVars, elapsed, trialGrants, asked, crashes>>
               PROVE  SubInv'
    OBVIOUS
  <1> USE DEF SubInv, SubTypeOK, runnerVars
  <1>1. sub' \in [Tenants -> Subscription] /\ tenantPlan' \in [Tenants -> Plans \cup {NoPlan}]
    BY FreshIsSubscription DEF ActivatePlan, SubStatus
  <1> QED
    BY <1>1 DEF ActivatePlan, Fresh, RunnerPosition, PlanPointersAgree, PendingWasAsked

\* Steps that leave the tables of Subscriptions alone keep the invariant.
LEMMA SubStutterInv == SubInv /\ UNCHANGED subVars => SubInv'
  BY DEF subVars, SubInv, SubTypeOK, RunnerPosition, PlanPointersAgree, PendingWasAsked

\* The tables stay well formed, the two plan pointers agree and every pending
\* cancellation was asked for.
THEOREM SubInvariant == SubSpec => []SubInv
  <1>1. SubInv /\ [SubNext]_subVars => SubInv'
    BY SubStepInv, DeleteTrialPlanInv, SubStutterInv DEF SubNext
  <1> QED
    BY SubInitInv, <1>1, PTL DEF SubSpec

\* Tables and runs stay well formed: a run that holds a row holds one it selected, and
\* a run that is not under way holds none, through crashes too.
THEOREM SubscriptionsAreTyped == SubSpec => []SubTypeOK
  <1>1. SubInv => SubTypeOK
    BY DEF SubInv
  <1> QED
    BY SubInvariant, <1>1, PTL

\* tenants.plan_id and the subscription's plan never disagree.
THEOREM PlanPointersAlwaysAgree == SubSpec => []PlanPointersAgree
  <1>1. SubInv => PlanPointersAgree
    BY DEF SubInv
  <1> QED
    BY SubInvariant, <1>1, PTL

\* A run only downgrades a store whose owner asked to cancel, however many runs
\* overlap and however stale what they selected is.
THEOREM DowngradesWereAsked == SubSpec => DowngradeWasAsked
  <1>1. SubInv =>
          [\A r \in Runners, t \in Tenants : DowngradeRow(r, t) => t \in asked]_subVars
    BY DEF SubInv, PendingWasAsked, DowngradeRow
  <1> QED
    BY SubInvariant, <1>1, PTL DEF DowngradeWasAsked

-----------------------------------------------------------------------------
(* One grant per activity and period.                                      *)

\* The row is selected and its downgrade has not happened yet.
Unprocessed(r, t) == t \in due[r] /\ cur[r] # t

\* A grant an activity can still write is covered by a period end for which it has
\* written none.
GrantsCovered ==
    \A r \in Runners, t \in Tenants :
        /\ trialGrants[r][t] <= elapsed[t]
        /\ sub[t].over => trialGrants[r][t] < elapsed[t]
        /\ Unprocessed(r, t) => trialGrants[r][t] < elapsed[t]

\* No period has ended and nothing is granted at first.
LEMMA GrantsCoveredInit == SubInit => GrantsCovered
  <1> SUFFICES ASSUME SubInit PROVE GrantsCovered
    OBVIOUS
  <1>1. \A t \in Tenants : sub[t] \in {NoSubscription, Fresh(TrialPlan, "trialing")}
    BY DEF SubInit
  <1>2. ASSUME NEW t \in Tenants PROVE sub[t].over = FALSE
    <2>1. NoSubscription.over = FALSE /\ Fresh(TrialPlan, "trialing").over = FALSE
      BY DEF NoSubscription, Fresh
    <2> QED
      BY <1>1, <2>1
  <1>3. \A t \in Tenants, r \in Runners : ~Unprocessed(r, t)
    BY DEF SubInit, Unprocessed
  <1>4. \A t \in Tenants, r \in Runners : trialGrants[r][t] = 0 /\ elapsed[t] = 0
    BY DEF SubInit
  <1>5. ASSUME NEW t \in Tenants, NEW r \in Runners PROVE trialGrants[r][t] <= elapsed[t]
    <2>1. trialGrants[r][t] = 0 /\ elapsed[t] = 0 /\ 0 <= 0
      BY <1>4
    <2> QED
      BY <2>1
  <1> QED
    BY <1>2, <1>3, <1>5, Zenon DEF GrantsCovered

\* A step grants only for a period end its activity has not granted for yet, whatever
\* the runs of the others do with the same row.
LEMMA GrantsCoveredStep == SubInv /\ GrantsCovered /\ SubStep => GrantsCovered'
  <1> SUFFICES ASSUME SubInv, GrantsCovered, SubStep PROVE GrantsCovered'
    OBVIOUS
  <1> USE SubscriptionsAssumption DEF SubInv, SubTypeOK, runnerVars, GrantsCovered, Unprocessed
  <1>1. ASSUME NEW t \in Tenants, PeriodEnds(t) PROVE GrantsCovered'
    <2>1. \A r \in Runners, u \in Tenants : trialGrants[r][u] \in Nat
      BY DEF GrantCounts
    <2>2. /\ elapsed'[t] = elapsed[t] + 1
          /\ \A u \in Tenants : u # t => sub'[u] = sub[u] /\ elapsed'[u] = elapsed[u]
          /\ trialGrants' = trialGrants
          /\ due' = due
          /\ cur' = cur
      BY <1>1 DEF PeriodEnds
    <2> QED
      BY <2>1, <2>2
  <1>2. ASSUME NEW t \in Tenants, NEW flag \in BOOLEAN, SetCancel(t, flag) PROVE GrantsCovered'
    BY <1>2 DEF SetCancel, Subscription
  <1>3. ASSUME NEW t \in Tenants, NEW p \in Plans, NEW s \in SubStatus, ChangeTenantPlan(t, p, s)
        PROVE GrantsCovered'
    BY <1>3 DEF ChangeTenantPlan, Fresh
  <1>4. ASSUME CreateTrialPlan PROVE GrantsCovered'
    BY <1>4 DEF CreateTrialPlan
  <1>5. ASSUME NEW r \in Runners, SelectDue(r) PROVE GrantsCovered'
    <2>1. \A q \in Runners, t \in Tenants :
             Unprocessed(q, t)' => Unprocessed(q, t) \/ sub[t].over
      BY <1>5 DEF SelectDue, ToCancel, Lapsed
    <2> QED
      BY <1>5, <2>1 DEF SelectDue
  <1>6. ASSUME NEW r \in Runners, MarkPastDue(r) PROVE GrantsCovered'
    <2>1. \A t \in Tenants : sub'[t].over = sub[t].over
      BY <1>6 DEF MarkPastDue, Subscription
    <2> QED
      BY <1>6, <2>1 DEF MarkPastDue
  <1>7. ASSUME NEW r \in Runners, NEW t \in Tenants, DowngradeRow(r, t) PROVE GrantsCovered'
    <2>1. cur[r] = NoTenant
      BY <1>7 DEF DowngradeRow, RunnerPosition
    <2>2. Unprocessed(r, t)
      BY <1>7, <2>1 DEF DowngradeRow
    <2>3. ~Unprocessed(r, t)'
      BY <1>7 DEF DowngradeRow
    <2>4. \A q \in Runners, u \in Tenants : Unprocessed(q, u)' => Unprocessed(q, u)
      BY <1>7, <2>1 DEF DowngradeRow
    <2>5. CASE trialOffered
      <3>1. trialGrants' = [trialGrants EXCEPT ![r][t] = @ + 1]
        BY <1>7, <2>5 DEF DowngradeRow
      <3>2. /\ trialGrants'[r][t] = trialGrants[r][t] + 1
            /\ trialGrants[r][t] \in Nat
            /\ \A q \in Runners, u \in Tenants :
                  q # r \/ u # t => trialGrants'[q][u] = trialGrants[q][u]
        BY <3>1, GrantCounted DEF GrantCounts
      <3>3. ~sub'[t].over /\ \A u \in Tenants : u # t => sub'[u] = sub[u]
        BY <1>7, <2>5 DEF DowngradeRow, ActivatePlan, Fresh
      <3>4. elapsed' = elapsed
        BY <1>7 DEF DowngradeRow
      <3> QED
        BY <2>2, <2>3, <2>4, <3>2, <3>3, <3>4
    <2>6. CASE ~trialOffered
      BY <1>7, <2>4, <2>6 DEF DowngradeRow
    <2> QED
      BY <2>5, <2>6
  <1>8. ASSUME NEW r \in Runners, ClearCancel(r) PROVE GrantsCovered'
    <2>1. cur[r] \in Tenants /\ \A t \in Tenants : sub'[t].over = sub[t].over
      BY <1>8 DEF ClearCancel, RunnerPosition, Subscription
    <2>2. \A q \in Runners, t \in Tenants : Unprocessed(q, t)' => Unprocessed(q, t)
      BY <1>8, <2>1 DEF ClearCancel
    <2> QED
      BY <1>8, <2>1, <2>2 DEF ClearCancel
  <1>9. ASSUME NEW r \in Runners, FinishRun(r) PROVE GrantsCovered'
    BY <1>9 DEF FinishRun
  <1>10. ASSUME NEW r \in Runners, CrashRun(r) PROVE GrantsCovered'
    <2>1. \A q \in Runners, t \in Tenants : Unprocessed(q, t)' => Unprocessed(q, t)
      BY <1>10 DEF CrashRun
    <2> QED
      BY <1>10, <2>1 DEF CrashRun
  <1> QED
    BY <1>1, <1>2, <1>3, <1>4, <1>5, <1>6, <1>7, <1>8, <1>9, <1>10
    DEF SubStep, Cancel, Resume, RunnerStep

\* A deleted plan changes no count.
LEMMA GrantsCoveredDeletion ==
    ASSUME GrantsCovered, NEW ordered, DeleteTrialPlan(ordered)
    PROVE  GrantsCovered'
  BY DEF GrantsCovered, Unprocessed, DeleteTrialPlan, runnerVars

\* Nor does a step of another part.
LEMMA GrantsCoveredStutter == GrantsCovered /\ UNCHANGED subVars => GrantsCovered'
  BY DEF GrantsCovered, Unprocessed, subVars, runnerVars

\* A bought plan starts a period that has not ended, so that its end uses up no grant.
LEMMA GrantsCoveredActivation ==
    ASSUME SubTypeOK, GrantsCovered, NEW t \in Tenants, NEW p \in Plans, ActivatePlan(t, p),
           UNCHANGED <<trialOffered, runnerVars, elapsed, trialGrants, asked, crashes>>
    PROVE  GrantsCovered'
  <1>1. ASSUME NEW u \in Tenants, sub'[u].over PROVE sub[u].over
    BY <1>1 DEF SubTypeOK, ActivatePlan, Fresh
  <1> QED
    BY <1>1 DEF GrantsCovered, Unprocessed, runnerVars

\* However often the runs of an activity die and start again and overlap with those of
\* the others, the activity grants a store at most once per ended period.
THEOREM ActivitiesGrantOnce == SubSpec => []OneGrantPerPeriod
  <1>1. SubInit => GrantsCovered
    BY GrantsCoveredInit
  <1>2. SubInv /\ GrantsCovered /\ [SubNext]_subVars => GrantsCovered'
    BY GrantsCoveredStep, GrantsCoveredDeletion, GrantsCoveredStutter DEF SubNext
  <1>3. GrantsCovered => OneGrantPerPeriod
    BY DEF GrantsCovered, OneGrantPerPeriod
  <1> QED
    BY SubInvariant, <1>1, <1>2, <1>3, PTL DEF SubSpec

-----------------------------------------------------------------------------
(* Settlement.                                                             *)

\* Handlers past the point where an order was vouched for.
Trusted(h) == pc[h] \in {"read", "update", "fulfil", "invoice"} \/ ledger[h] > 0 \/ invoices[h] > 0

\* Handlers that marked their order paid.
Marked(h) == pc[h] \in {"fulfil", "invoice"} \/ ledger[h] > 0 \/ invoices[h] > 0

\* Handlers that will cause rows or have caused them.
Engaged(h) == pc[h] = "update" \/ Marked(h)

\* What each handler has written, by where it stands.
RowsByPosition(h) ==
    /\ pc[h] \in {"idle", "verify", "reject", "read", "update", "fulfil"}
         => ledger[h] = 0 /\ invoices[h] = 0
    /\ pc[h] = "invoice" =>
         /\ OrderKind[ord[h]] = "subscription"
         /\ invoices[h] = 0
         /\ OrderPlan[ord[h]] \in CreditPlans => ledger[h] = 1
    /\ ledger[h] <= 1
    /\ invoices[h] <= 1
    /\ ord[h] # NoOrder =>
         /\ OrderKind[ord[h]] = "topup" => invoices[h] = ledger[h]
         /\ OrderPlan[ord[h]] \in CreditPlans => invoices[h] <= ledger[h]

RowsInv == \A h \in Handlers : RowsByPosition(h)
TrustInv == \A h \in Handlers : Trusted(h) => ord[h] \in money \cup confirmed
MarkInv ==
    /\ \A h \in Handlers : Marked(h) => status[ord[h]] \in {"paid", "refunded"}
    /\ \A o \in Orders : status[o] = "refunded" => o \in refunded
OnceInv ==
    \A h1, h2 \in Handlers :
        /\ Engaged(h1) /\ Engaged(h2)
        /\ ord[h1] = ord[h2]
        /\ ord[h1] \notin raced \cup refunded
        => h1 = h2

IInv == OrderTypeOK /\ RowsInv /\ TrustInv /\ MarkInv /\ OnceInv /\ PaidIsCovered

-----------------------------------------------------------------------------
\* A handler past its start knows its order.
LEMMA EngagedHasOrder ==
    ASSUME OrderTypeOK, RowsInv, NEW h \in Handlers, Trusted(h) \/ Engaged(h)
    PROVE  pc[h] # "idle" /\ ord[h] \in Orders
  <1>1. pc[h] # "idle"
    BY DEF OrderTypeOK, RowsInv, RowsByPosition, Trusted, Engaged, Marked
  <1> QED
    BY <1>1 DEF OrderTypeOK

\* No order, no handler, no row at first.
LEMMA OrderInitInv == OrderInit => IInv
  <1> SUFFICES ASSUME OrderInit PROVE IInv
    OBVIOUS
  <1> USE SettlementAssumption
  <1>1. OrderTypeOK
    BY DEF OrderInit, OrderTypeOK, OrderStatus, HandlerStep
  <1>2. \A h \in Handlers : /\ pc[h] = "idle" /\ ord[h] = NoOrder
                            /\ ledger[h] = 0 /\ invoices[h] = 0
    BY DEF OrderInit
  <1>3. \A h \in Handlers : RowsByPosition(h) /\ ~Trusted(h) /\ ~Engaged(h) /\ ~Marked(h)
    BY <1>2 DEF RowsByPosition, Trusted, Engaged, Marked
  <1>4. \A o \in Orders : status[o] = "none"
    BY DEF OrderInit
  <1> QED
    BY <1>1, <1>3, <1>4
    DEF IInv, RowsInv, TrustInv, MarkInv, OnceInv, PaidIsCovered

\* A step that leaves the orders side alone keeps its invariant.
LEMMA OrderStutterInv == IInv /\ UNCHANGED orderVars => IInv'
  <1> SUFFICES ASSUME IInv, UNCHANGED orderVars PROVE IInv'
    OBVIOUS
  <1> USE DEF orderVars, tableVars, worldVars, handlerVars, ghostVars, IInv
  <1>1. OrderTypeOK'
    BY DEF OrderTypeOK
  <1>2. RowsInv' /\ TrustInv'
    BY DEF RowsInv, RowsByPosition, TrustInv, Trusted
  <1>3. MarkInv' /\ OnceInv'
    BY DEF MarkInv, OnceInv, Engaged, Marked
  <1>4. PaidIsCovered'
    BY DEF PaidIsCovered, Delivered, OnTheWay, Abandoned
  <1> QED
    BY <1>1, <1>2, <1>3, <1>4

-----------------------------------------------------------------------------
(* Steps that touch no handler: checkout, the shopper, a refund.           *)

\* The only status such a step ever takes away from a paid order is "refunded",
\* and it notes the order as refunded.
LEMMA TableStepInv ==
    ASSUME IInv,
           UNCHANGED handlerVars,
           OrderTypeOK',
           money \subseteq money', confirmed \subseteq confirmed',
           raced \subseteq raced', refunded \subseteq refunded',
           \A o \in Orders :
             \/ status'[o] = status[o]
             \/ status[o] = "none" /\ status'[o] = "pending"
             \/ status'[o] = "refunded" /\ o \in refunded'
    PROVE  IInv'
  <1> USE DEF handlerVars, IInv
  <1>1. RowsInv'
    BY DEF RowsInv, RowsByPosition
  <1>2. TrustInv'
    BY DEF TrustInv, Trusted
  <1>3. MarkInv'
    <2>1. ASSUME NEW h \in Handlers, Marked(h)' PROVE status'[ord'[h]] \in {"paid", "refunded"}
      <3>1. Marked(h) /\ ord'[h] = ord[h]
        BY <2>1 DEF Marked
      <3>2. ord[h] \in Orders
        BY <3>1, EngagedHasOrder DEF Engaged
      <3> QED
        BY <3>1, <3>2 DEF MarkInv
    <2> QED
      BY <2>1 DEF MarkInv
  <1>4. OnceInv'
    BY DEF OnceInv, Engaged, Marked
  <1>5. PaidIsCovered'
    BY DEF PaidIsCovered, Delivered, OnTheWay, Abandoned
  <1> QED
    BY <1>1, <1>2, <1>3, <1>4, <1>5

\* Checkout, the shopper, the provider and refunds leave what handlers wrote alone.
LEMMA TableStepsInv ==
    ASSUME IInv, NEW o \in Orders,
           \/ CreateOrder(o) \/ RequestPayment(o) \/ StoreReference(o)
           \/ ShopperPays(o) \/ Refund(o)
    PROVE  IInv'
  <1> USE DEF handlerVars, tableVars, worldVars, ghostVars
  <1>1. OrderTypeOK'
    BY DEF IInv, OrderTypeOK, OrderStatus, CreateOrder, RequestPayment, StoreReference,
           ShopperPays, Refund
  <1>2. /\ money \subseteq money' /\ confirmed \subseteq confirmed'
        /\ raced \subseteq raced' /\ refunded \subseteq refunded'
        /\ UNCHANGED handlerVars
    BY DEF CreateOrder, RequestPayment, StoreReference, ShopperPays, Refund
  <1>3. \A p \in Orders :
          \/ status'[p] = status[p]
          \/ status[p] = "none" /\ status'[p] = "pending"
          \/ status'[p] = "refunded" /\ p \in refunded'
    BY DEF IInv, OrderTypeOK, CreateOrder, RequestPayment, StoreReference, ShopperPays, Refund
  <1> QED
    BY <1>1, <1>2, <1>3, TableStepInv

-----------------------------------------------------------------------------
(* Steps of one handler. Everything about the other handlers is unchanged, *)
(* so each conjunct is shown for the handler that moved.                   *)

\* A request starts: it has written nothing and is trusted only when the route
\* itself is the evidence.
LEMMA StartInv ==
    ASSUME IInv, NEW h \in Handlers, NEW o \in Orders,
           Callback(h, o) \/ Webhook(h, o) \/ OperatorConfirms(h, o)
    PROVE  IInv'
  <1> USE SettlementAssumption DEF IInv, Start, Goto, tableVars, worldVars, ghostVars
  <1>1. /\ pc[h] = "idle" /\ ledger[h] = 0 /\ invoices[h] = 0
        /\ pc'[h] \in {"done", "verify", "read"}
        /\ pc'[h] = "read" => o \in money' \cup confirmed'
        /\ \A g \in Handlers : g # h => pc'[g] = pc[g] /\ ord'[g] = ord[g]
        /\ ord'[h] = o
        /\ UNCHANGED <<status, payment, ledger, invoices, raced, refunded, dead>>
        /\ money \subseteq money' /\ confirmed \subseteq confirmed'
    BY DEF Callback, Webhook, OperatorConfirms, OrderTypeOK, RowsInv, RowsByPosition
  <1>2. OrderTypeOK'
    BY DEF Callback, Webhook, OperatorConfirms, OrderTypeOK, HandlerStep
  <1>3. RowsInv'
    BY <1>1 DEF RowsInv, RowsByPosition
  <1>4. TrustInv'
    BY <1>1 DEF TrustInv, Trusted
  <1>5. ~Engaged(h)' /\ ~Marked(h)'
    BY <1>1 DEF Engaged, Marked
  <1>6. MarkInv'
    BY <1>1, <1>5 DEF MarkInv, Marked
  <1>7. OnceInv'
    BY <1>1, <1>5 DEF OnceInv, Engaged, Marked
  <1>8. PaidIsCovered'
    BY <1>1 DEF PaidIsCovered, Delivered, OnTheWay, Abandoned
  <1> QED
    BY <1>2, <1>3, <1>4, <1>6, <1>7, <1>8

\* verify and its refusal: the refusal only touches a pending order, which no
\* handler has marked.
LEMMA VerifyInv ==
    ASSUME IInv, NEW h \in Handlers, Verify(h) \/ Reject(h)
    PROVE  IInv'
  <1> USE SettlementAssumption DEF IInv, Goto, tableVars, worldVars, ghostVars
  <1>1. /\ pc[h] \in {"verify", "reject"} /\ ledger[h] = 0 /\ invoices[h] = 0
        /\ ord[h] \in Orders
        /\ pc'[h] \in {"done", "reject", "read"}
        /\ pc'[h] = "read" => ord[h] \in money
        /\ \A g \in Handlers : g # h => pc'[g] = pc[g]
        /\ UNCHANGED <<payment, ord, ledger, invoices, money, confirmed, raced, refunded, dead>>
    <2>1. /\ ledger[h] = 0 /\ invoices[h] = 0
          /\ pc[h] \in {"verify", "reject"}
      BY DEF Verify, Reject, RowsInv, RowsByPosition
    <2>2. ord[h] \in Orders
      BY <2>1 DEF OrderTypeOK
    <2>3. CASE Verify(h)
      BY <2>1, <2>2, <2>3 DEF Verify, OrderTypeOK
    <2>4. CASE Reject(h)
      BY <2>1, <2>2, <2>4 DEF Reject, OrderTypeOK
    <2> QED
      BY <2>3, <2>4
  <1>2. \A o \in Orders :
          \/ status'[o] = status[o]
          \/ status[o] = "pending" /\ status'[o] = "failed"
    BY DEF Verify, Reject, OrderTypeOK
  <1>3. OrderTypeOK'
    BY DEF Verify, Reject, OrderTypeOK, HandlerStep, OrderStatus
  <1>4. RowsInv'
    BY <1>1 DEF RowsInv, RowsByPosition
  <1>5. TrustInv'
    BY <1>1 DEF TrustInv, Trusted
  <1>6. ~Engaged(h)' /\ ~Marked(h)'
    BY <1>1 DEF Engaged, Marked
  <1>7. MarkInv'
    <2>1. ASSUME NEW g \in Handlers, Marked(g)' PROVE status'[ord'[g]] \in {"paid", "refunded"}
      <3>1. Marked(g) /\ ord'[g] = ord[g]
        BY <1>1, <1>6, <2>1 DEF Marked
      <3>2. ord[g] \in Orders
        BY <3>1, EngagedHasOrder DEF Engaged
      <3> QED
        BY <1>2, <3>1, <3>2 DEF MarkInv
    <2> QED
      BY <1>1, <1>2, <2>1 DEF MarkInv
  <1>8. OnceInv'
    BY <1>1, <1>6 DEF OnceInv, Engaged, Marked
  <1>9. PaidIsCovered'
    BY <1>1, <1>2 DEF PaidIsCovered, Delivered, OnTheWay, Abandoned
  <1> QED
    BY <1>3, <1>4, <1>5, <1>7, <1>8, <1>9

\* The read: a handler enters the window of an order only while nobody has marked
\* it paid, and if someone is already in the window the order is noted as raced.
LEMMA ReadInv ==
    ASSUME IInv, NEW h \in Handlers, ReadOrder(h)
    PROVE  IInv'
  <1> USE SettlementAssumption DEF IInv, Goto, tableVars, worldVars, ghostVars
  <1>1. /\ pc[h] = "read" /\ ledger[h] = 0 /\ invoices[h] = 0
        /\ ord[h] \in Orders
        /\ pc'[h] \in {"done", "update"}
        /\ \A g \in Handlers : g # h => pc'[g] = pc[g]
        /\ UNCHANGED <<status, payment, ord, ledger, invoices, money, confirmed, refunded, dead>>
        /\ raced \subseteq raced'
    BY DEF ReadOrder, OrderTypeOK, RowsInv, RowsByPosition
  <1>2. OrderTypeOK'
    BY DEF ReadOrder, OrderTypeOK, HandlerStep
  <1>3. RowsInv'
    BY <1>1 DEF RowsInv, RowsByPosition
  <1>4. TrustInv'
    BY <1>1 DEF TrustInv, Trusted
  <1>5. MarkInv'
    BY <1>1 DEF MarkInv, Marked
  <1>6. ASSUME NEW g \in Handlers, g # h, Engaged(g)', Engaged(h)', ord'[g] = ord'[h]
        PROVE  ord'[h] \in raced' \cup refunded'
    <2>1. Engaged(g) /\ ord[g] = ord[h]
      BY <1>1, <1>6 DEF Engaged, Marked
    <2>2. pc'[h] = "update"
      BY <1>1, <1>6 DEF Engaged, Marked
    <2>3. status[ord[h]] # "paid"
      BY <2>2, <1>1 DEF ReadOrder, OrderTypeOK
    <2>4. CASE pc[g] = "update"
      <3>1. g \in InWindow(ord[h])
        BY <2>1, <2>4 DEF InWindow
      <3>2. ord[h] \in raced'
        BY <2>2, <2>3, <3>1 DEF ReadOrder, OrderTypeOK
      <3> QED
        BY <3>2, <1>1
    <2>5. CASE Marked(g)
      <3>1. status[ord[h]] = "refunded"
        BY <2>1, <2>3, <2>5 DEF MarkInv
      <3> QED
        BY <3>1, <1>1 DEF MarkInv
    <2> QED
      BY <2>1, <2>4, <2>5 DEF Engaged
  <1>7. OnceInv'
    <2>1. ASSUME NEW g1 \in Handlers, NEW g2 \in Handlers, g1 # h, g2 # h,
                 Engaged(g1)', Engaged(g2)', ord'[g1] = ord'[g2],
                 ord'[g1] \notin raced' \cup refunded'
          PROVE  g1 = g2
      BY <1>1, <2>1 DEF OnceInv, Engaged, Marked
    <2> QED
      BY <1>6, <2>1 DEF OnceInv
  <1>8. PaidIsCovered'
    BY <1>1 DEF PaidIsCovered, Delivered, OnTheWay, Abandoned
  <1> QED
    BY <1>2, <1>3, <1>4, <1>5, <1>7, <1>8

\* UPDATE ... 'paid': the handler goes from the window to the work.
LEMMA MarkPaidInv ==
    ASSUME IInv, NEW h \in Handlers, MarkPaid(h)
    PROVE  IInv'
  <1> USE SettlementAssumption DEF IInv, Goto, tableVars, worldVars, ghostVars
  <1>1. /\ pc[h] = "update" /\ pc'[h] = "fulfil"
        /\ ord[h] \in Orders
        /\ \A g \in Handlers : g # h => pc'[g] = pc[g]
        /\ \A o \in Orders : o # ord[h] => status'[o] = status[o]
        /\ status'[ord[h]] = "paid"
        /\ UNCHANGED <<payment, ord, ledger, invoices, money, confirmed, raced, refunded, dead>>
    BY DEF MarkPaid, OrderTypeOK
  <1>2. OrderTypeOK'
    BY DEF MarkPaid, OrderTypeOK, HandlerStep, OrderStatus
  <1>3. RowsInv'
    BY <1>1 DEF RowsInv, RowsByPosition
  <1>4. TrustInv'
    BY <1>1 DEF TrustInv, Trusted
  <1>5. MarkInv'
    <2>1. ASSUME NEW g \in Handlers, Marked(g)' PROVE status'[ord'[g]] \in {"paid", "refunded"}
      <3>1. CASE ord[g] = ord[h]
        BY <1>1, <3>1
      <3>2. CASE ord[g] # ord[h]
        <4>1. Marked(g)
          BY <1>1, <2>1, <3>2 DEF Marked
        <4>2. ord[g] \in Orders
          BY <4>1, EngagedHasOrder DEF Engaged
        <4> QED
          BY <1>1, <3>2, <4>1, <4>2 DEF MarkInv
      <3> QED
        BY <3>1, <3>2
    <2> QED
      BY <1>1, <2>1 DEF MarkInv
  <1>6. OnceInv'
    BY <1>1 DEF OnceInv, Engaged, Marked
  <1>7. PaidIsCovered'
    BY <1>1 DEF PaidIsCovered, Delivered, OnTheWay, Abandoned
  <1> QED
    BY <1>2, <1>3, <1>4, <1>5, <1>6, <1>7

\* The three writes of the work.
LEMMA WorkInv ==
    ASSUME IInv, NEW h \in Handlers, FulfilTopup(h) \/ FulfilPlan(h) \/ IssueInvoice(h)
    PROVE  IInv'
  <1> USE SettlementAssumption DEF IInv, Goto, tableVars, worldVars, ghostVars
  <1>1. /\ pc[h] \in {"fulfil", "invoice"}
        /\ pc[h] = "invoice" => pc'[h] = "done" /\ invoices'[h] = 1
        /\ pc'[h] # "invoice" => pc'[h] = "done" /\ invoices'[h] = 1
        /\ ord[h] \in Orders
        /\ \A g \in Handlers : g # h => /\ pc'[g] = pc[g]
                                       /\ ledger'[g] = ledger[g]
                                       /\ invoices'[g] = invoices[g]
        /\ UNCHANGED <<status, payment, ord, money, confirmed, raced, refunded, dead>>
    <2>1. pc[h] \in {"fulfil", "invoice"} /\ invoices[h] = 0
      BY DEF FulfilTopup, FulfilPlan, IssueInvoice, RowsInv, RowsByPosition
    <2>2. ord[h] \in Orders
      BY <2>1 DEF OrderTypeOK
    <2>3. CASE FulfilTopup(h)
      BY <2>1, <2>2, <2>3 DEF FulfilTopup, OrderTypeOK
    <2>4. CASE FulfilPlan(h)
      BY <2>1, <2>2, <2>4 DEF FulfilPlan, OrderTypeOK
    <2>5. CASE IssueInvoice(h)
      BY <2>1, <2>2, <2>5 DEF IssueInvoice, OrderTypeOK
    <2> QED
      BY <2>3, <2>4, <2>5
  <1>2. OrderTypeOK'
    BY DEF FulfilTopup, FulfilPlan, IssueInvoice, OrderTypeOK, HandlerStep
  <1>3. RowsByPosition(h)'
    <2>1. CASE FulfilTopup(h)
      BY <2>1 DEF FulfilTopup, OrderTypeOK, RowsInv, RowsByPosition
    <2>2. CASE FulfilPlan(h)
      BY <2>2 DEF FulfilPlan, OrderTypeOK, RowsInv, RowsByPosition
    <2>3. CASE IssueInvoice(h)
      BY <2>3 DEF IssueInvoice, OrderTypeOK, RowsInv, RowsByPosition
    <2> QED
      BY <2>1, <2>2, <2>3
  <1>4. RowsInv'
    <2>1. ASSUME NEW g \in Handlers, g # h PROVE RowsByPosition(g)'
      BY <1>1, <2>1 DEF RowsInv, RowsByPosition
    <2> QED
      BY <1>3, <2>1 DEF RowsInv
  <1>5. Trusted(h) /\ Marked(h) /\ Engaged(h)
    BY <1>1 DEF Trusted, Marked, Engaged
  <1>6. TrustInv'
    BY <1>1, <1>5 DEF TrustInv, Trusted
  <1>7. MarkInv'
    BY <1>1, <1>5 DEF MarkInv, Marked
  <1>8. OnceInv'
    BY <1>1, <1>5 DEF OnceInv, Engaged, Marked
  <1>9. PaidIsCovered'
    <2>1. ASSUME NEW o \in Orders, status[o] = "paid"
          PROVE  (Delivered(o) \/ OnTheWay(o) \/ Abandoned(o))'
      <3>1. CASE o = ord[h]
        BY <1>1, <3>1 DEF Delivered, OnTheWay
      <3>2. CASE o # ord[h]
        BY <1>1, <2>1, <3>2 DEF PaidIsCovered, Delivered, OnTheWay, Abandoned
      <3> QED
        BY <3>1, <3>2
    <2> QED
      BY <1>1, <2>1 DEF PaidIsCovered
  <1> QED
    BY <1>2, <1>4, <1>6, <1>7, <1>8, <1>9

\* A handler that dies takes back nothing it wrote.
LEMMA DiesInv ==
    ASSUME IInv, NEW h \in Handlers, HandlerDies(h)
    PROVE  IInv'
  <1> USE SettlementAssumption DEF IInv, Goto, tableVars, worldVars, ghostVars
  <1>1. /\ pc[h] # "idle" /\ pc'[h] = "dead"
        /\ ord[h] \in Orders
        /\ \A g \in Handlers : g # h => pc'[g] = pc[g]
        /\ UNCHANGED <<status, payment, ord, ledger, invoices, money, confirmed, raced, refunded>>
    BY DEF HandlerDies, OrderTypeOK
  <1>2. OrderTypeOK'
    BY DEF HandlerDies, OrderTypeOK, HandlerStep
  <1>3. RowsInv'
    BY <1>1 DEF RowsInv, RowsByPosition
  <1>4. TrustInv'
    BY <1>1 DEF TrustInv, Trusted
  <1>5. MarkInv'
    BY <1>1 DEF MarkInv, Marked
  <1>6. OnceInv'
    BY <1>1 DEF OnceInv, Engaged, Marked
  <1>7. PaidIsCovered'
    BY <1>1 DEF PaidIsCovered, Delivered, OnTheWay, Abandoned
  <1> QED
    BY <1>2, <1>3, <1>4, <1>5, <1>6, <1>7

-----------------------------------------------------------------------------
(* The whole of billing.                                                   *)

\* Every step of settlement, action by action.
LEMMA OrderNextInv == IInv /\ OrderNext => IInv'
  BY TableStepsInv, StartInv, VerifyInv, ReadInv, MarkPaidInv, WorkInv, DiesInv
  DEF OrderNext, Checkout, Topup, HandlerProgress

\* Steps of the rest of billing do not touch orders.
LEMMA NextInv == IInv /\ [Next]_vars => IInv'
  BY OrderNextInv, OrderStutterInv DEF Next, vars

\* What the handlers wrote, what vouches for it and which status it left, in every
\* reachable state of billing as a whole.
THEOREM SettlementInvariant == Spec => []IInv
  <1>1. Init => IInv
    BY OrderInitInv DEF Init
  <1> QED
    BY <1>1, NextInv, PTL DEF Spec

\* Orders, requests and the rows they insert stay well formed: a request that has
\* started knows its order.
THEOREM OrdersAreTyped == Spec => []OrderTypeOK
  <1>1. IInv => OrderTypeOK
    BY DEF IInv
  <1> QED
    BY SettlementInvariant, <1>1, PTL

\* Credits and invoices exist only for orders the shopper paid or the operator
\* confirmed: the provider's redirect alone activates nothing.
THEOREM NothingIsFree == Spec => []NothingWithoutPayment
  <1>1. IInv => NothingWithoutPayment
    BY DEF IInv, TrustInv, Trusted, NothingWithoutPayment, Worked
  <1> QED
    BY SettlementInvariant, <1>1, PTL

\* No late failed callback takes the paid status of an order that caused rows.
THEOREM PaidIsNeverUndone == Spec => []WorkedStaysPaid
  <1>1. IInv => WorkedStaysPaid
    BY DEF IInv, MarkInv, Marked, WorkedStaysPaid, Worked
  <1> QED
    BY SettlementInvariant, <1>1, PTL

\* Duplicate work needs two handlers in one order's read/write window, or a refund.
THEOREM DuplicatesAreRacesOrRefunds == Spec => []OnceUnlessRacedOrRefunded
  <1>1. IInv => OnceUnlessRacedOrRefunded
    BY DEF IInv, RowsInv, RowsByPosition, OnceInv, Engaged, Marked, OnceUnlessRacedOrRefunded,
           Worked
  <1> QED
    BY SettlementInvariant, <1>1, PTL

\* An invoice never exists without the grant it bills.
THEOREM InvoicesHaveGrants == Spec => []InvoiceHasGrant
  <1>1. IInv => InvoiceHasGrant
    BY DEF IInv, RowsInv, RowsByPosition, InvoiceHasGrant
  <1> QED
    BY SettlementInvariant, <1>1, PTL

\* Only a handler that dies loses the delivery of a paid order.
THEOREM OnlyDeathLosesDeliveries == Spec => []PaidIsCovered
  <1>1. IInv => PaidIsCovered
    BY DEF IInv
  <1> QED
    BY SettlementInvariant, <1>1, PTL

-----------------------------------------------------------------------------
(* The subscription side, with settlement as one more writer.              *)

\* Settlement touches subscriptions only through activate_plan.
LEMMA OrderNextOnSubscriptions ==
    ASSUME IInv, OrderNext
    PROVE  \/ UNCHANGED subVars
           \/ \E t \in Tenants, p \in Plans :
                 /\ ActivatePlan(t, p)
                 /\ UNCHANGED <<trialOffered, runnerVars, elapsed, trialGrants, asked, crashes>>
  <1>1. ASSUME NEW h \in Handlers, FulfilPlan(h)
        PROVE \E t \in Tenants, p \in Plans :
                 /\ ActivatePlan(t, p)
                 /\ UNCHANGED <<trialOffered, runnerVars, elapsed, trialGrants, asked, crashes>>
    <2>1. ord[h] \in Orders
      BY <1>1 DEF FulfilPlan, IInv, OrderTypeOK
    <2>2. OrderTenant[ord[h]] \in Tenants /\ OrderPlan[ord[h]] \in Plans
      BY <2>1, SettlementAssumption
    <2> QED
      BY <1>1, <2>2 DEF FulfilPlan
  <1>2. ASSUME NEW o \in Orders,
               \/ CreateOrder(o) \/ RequestPayment(o) \/ StoreReference(o)
               \/ ShopperPays(o) \/ Refund(o)
        PROVE UNCHANGED subVars
    BY <1>2 DEF CreateOrder, RequestPayment, StoreReference, ShopperPays, Refund
  <1>3. ASSUME NEW h \in Handlers, NEW o \in Orders,
               Callback(h, o) \/ Webhook(h, o) \/ OperatorConfirms(h, o)
        PROVE UNCHANGED subVars
    BY <1>3 DEF Callback, Webhook, OperatorConfirms
  <1>4. ASSUME NEW h \in Handlers,
               \/ Verify(h) \/ Reject(h) \/ ReadOrder(h) \/ MarkPaid(h)
               \/ FulfilTopup(h) \/ IssueInvoice(h) \/ HandlerDies(h)
        PROVE UNCHANGED subVars
    BY <1>4 DEF Verify, Reject, ReadOrder, MarkPaid, FulfilTopup, IssueInvoice, HandlerDies
  <1> QED
    BY <1>1, <1>2, <1>3, <1>4 DEF OrderNext, Checkout, Topup, HandlerProgress

\* The plan pointers and the pending cancellations stay sound with settlement,
\* owners, the operator and the renewal runs interleaved.
THEOREM BillingKeepsSubscriptions == Spec => []SubInv
  <1>1. Init => IInv /\ SubInv
    BY OrderInitInv, SubInitInv DEF Init
  <1>2. IInv /\ SubInv /\ [Next]_vars => SubInv'
    <2> SUFFICES ASSUME IInv, SubInv, [Next]_vars PROVE SubInv'
      OBVIOUS
    <2>1. CASE OrderNext
      BY <2>1, OrderNextOnSubscriptions, ActivatePlanInv, SubStutterInv
    <2>2. CASE SubStep
      BY <2>2, SubStepInv
    <2>3. CASE DeleteTrialPlan(OrdersReferToTrial)
      BY <2>3, DeleteTrialPlanInv DEF OrdersReferToTrial
    <2>4. CASE UNCHANGED vars
      BY <2>4, SubStutterInv DEF vars
    <2> QED
      BY <2>1, <2>2, <2>3, <2>4 DEF Next
  <1> QED
    BY <1>1, <1>2, SettlementInvariant, PTL DEF Spec

\* tenants.plan_id and the subscription's plan agree in billing as a whole.
THEOREM BillingPlanPointersAgree == Spec => []PlanPointersAgree
  <1>1. SubInv => PlanPointersAgree
    BY DEF SubInv
  <1> QED
    BY BillingKeepsSubscriptions, <1>1, PTL

\* No settlement step makes a renewal run downgrade a store nobody asked for.
THEOREM BillingDowngradesWereAsked == Spec => DowngradeWasAsked
  <1>1. SubInv /\ [Next]_vars =>
          [\A r \in Runners, t \in Tenants : DowngradeRow(r, t) => t \in asked]_subVars
    BY DEF SubInv, PendingWasAsked, DowngradeRow
  <1> QED
    BY BillingKeepsSubscriptions, <1>1, PTL DEF DowngradeWasAsked, Spec

\* And in billing as a whole, with bought plans and deleted ones between the
\* statements of the runs.
THEOREM BillingGrantsOnce == Spec => []OneGrantPerPeriod
  <1>1. Init => GrantsCovered
    BY GrantsCoveredInit DEF Init
  <1>2. IInv /\ SubInv /\ GrantsCovered /\ [Next]_vars => GrantsCovered'
    <2> SUFFICES ASSUME IInv, SubInv, GrantsCovered, [Next]_vars PROVE GrantsCovered'
      OBVIOUS
    <2>1. CASE OrderNext
      BY <2>1, OrderNextOnSubscriptions, GrantsCoveredActivation, GrantsCoveredStutter DEF SubInv
    <2>2. CASE SubStep
      BY <2>2, GrantsCoveredStep
    <2>3. CASE DeleteTrialPlan(OrdersReferToTrial)
      BY <2>3, GrantsCoveredDeletion DEF OrdersReferToTrial
    <2>4. CASE UNCHANGED vars
      BY <2>4, GrantsCoveredStutter DEF vars
    <2> QED
      BY <2>1, <2>2, <2>3, <2>4 DEF Next
  <1>3. GrantsCovered => OneGrantPerPeriod
    BY DEF GrantsCovered, OneGrantPerPeriod
  <1> QED
    BY SettlementInvariant, BillingKeepsSubscriptions, <1>1, <1>2, <1>3, PTL DEF Spec

-----------------------------------------------------------------------------
(* Settlement implements Delivery. Rows are counted by their handlers, each *)
(* of which inserts one row of a kind at most.                             *)

Granters(o) == {h \in Handlers : ord[h] = o /\ ledger[h] = 1}
Invoicers(o) == {h \in Handlers : ord[h] = o /\ invoices[h] = 1}

\* One row of each of some handlers: as many rows as handlers.
LEMMA OneRowEach ==
    ASSUME IsFiniteSet(Handlers), NEW G \in SUBSET Handlers
    PROVE  Cardinality(G \X {1}) = Cardinality(G)
  <1>1. IsFiniteSet(G)
    BY FS_Subset
  <1>2. Cardinality(G \X {1}) = Cardinality(G) * Cardinality({1})
    BY <1>1, FS_Product, FS_Singleton
  <1>3. Cardinality({1}) = 1
    BY FS_Singleton
  <1>4. Cardinality(G) * 1 = Cardinality(G)
    BY <1>1, FS_CardinalityType
  <1> QED
    BY <1>2, <1>3, <1>4

\* So the rows of an order are as many as its handlers with a row.
LEMMA RowsCounted ==
    ASSUME IsFiniteSet(Handlers), IInv, NEW o \in Orders
    PROVE  /\ Cardinality(RowsOf(o, ledger)) = Cardinality(Granters(o))
           /\ Cardinality(RowsOf(o, invoices)) = Cardinality(Invoicers(o))
  <1>1. \A h \in Handlers : ledger[h] \in {0, 1} /\ invoices[h] \in {0, 1}
    BY DEF IInv, OrderTypeOK, RowsInv, RowsByPosition
  <1>2. \A h \in Handlers : {h} \X (1..ledger[h]) = IF ledger[h] = 1 THEN {<<h, 1>>} ELSE {}
    BY <1>1
  <1>3. \A h \in Handlers : {h} \X (1..invoices[h]) = IF invoices[h] = 1 THEN {<<h, 1>>} ELSE {}
    BY <1>1
  <1>4. RowsOf(o, ledger) = Granters(o) \X {1}
    BY <1>2 DEF RowsOf, Granters
  <1>5. RowsOf(o, invoices) = Invoicers(o) \X {1}
    BY <1>3 DEF RowsOf, Invoicers
  <1>6. Granters(o) \in SUBSET Handlers /\ Invoicers(o) \in SUBSET Handlers
    BY DEF Granters, Invoicers
  <1> QED
    BY <1>4, <1>5, <1>6, OneRowEach

\* The same for the tables that Delivery sees.
Granted == [o \in Orders |-> Cardinality(RowsOf(o, ledger))]
Invoiced == [o \in Orders |-> Cardinality(RowsOf(o, invoices))]

TablesCounted ==
    /\ Granted = [o \in Orders |-> Cardinality(Granters(o))]
    /\ Invoiced = [o \in Orders |-> Cardinality(Invoicers(o))]
    /\ \A o \in Orders : IsFiniteSet(Granters(o)) /\ IsFiniteSet(Invoicers(o))

LEMMA TablesAreCounted == IsFiniteSet(Handlers) /\ IInv => TablesCounted
  <1> SUFFICES ASSUME IsFiniteSet(Handlers), IInv PROVE TablesCounted
    OBVIOUS
  <1>1. \A o \in Orders : Granters(o) \in SUBSET Handlers /\ Invoicers(o) \in SUBSET Handlers
    BY DEF Granters, Invoicers
  <1>2. \A o \in Orders : IsFiniteSet(Granters(o)) /\ IsFiniteSet(Invoicers(o))
    BY <1>1, FS_Subset
  <1> QED
    BY <1>2, RowsCounted DEF TablesCounted, Granted, Invoiced

\* A step that inserts no row, for no order.
LEMMA NoRowInserted ==
    ASSUME TablesCounted, TablesCounted', UNCHANGED <<ledger, invoices>>,
           \A h \in Handlers : ord'[h] = ord[h] \/ (ledger[h] = 0 /\ invoices[h] = 0)
    PROVE  UNCHANGED <<Granted, Invoiced>>
  <1>1. \A o \in Orders : Granters(o)' = Granters(o) /\ Invoicers(o)' = Invoicers(o)
    BY DEF Granters, Invoicers
  <1> QED
    BY <1>1 DEF TablesCounted

\* A handler that inserts its grant adds one to its order's.
LEMMA GrantInserted ==
    ASSUME TablesCounted, TablesCounted', NEW h \in Handlers, ord[h] \in Orders, ledger[h] = 0,
           OrderTypeOK, ledger' = [ledger EXCEPT ![h] = @ + 1], UNCHANGED ord
    PROVE  Granted' = [Granted EXCEPT ![ord[h]] = @ + 1]
  <1>1. Granters(ord[h])' = Granters(ord[h]) \cup {h} /\ h \notin Granters(ord[h])
    BY DEF Granters, OrderTypeOK
  <1>2. \A o \in Orders \ {ord[h]} : Granters(o)' = Granters(o)
    BY DEF Granters, OrderTypeOK
  <1>3. Cardinality(Granters(ord[h]))' = Cardinality(Granters(ord[h])) + 1
    BY <1>1, FS_AddElement DEF TablesCounted
  <1> QED
    BY <1>2, <1>3 DEF TablesCounted

\* And so does one that inserts its invoice.
LEMMA InvoiceInserted ==
    ASSUME TablesCounted, TablesCounted', NEW h \in Handlers, ord[h] \in Orders, invoices[h] = 0,
           OrderTypeOK, invoices' = [invoices EXCEPT ![h] = @ + 1], UNCHANGED ord
    PROVE  Invoiced' = [Invoiced EXCEPT ![ord[h]] = @ + 1]
  <1>1. Invoicers(ord[h])' = Invoicers(ord[h]) \cup {h} /\ h \notin Invoicers(ord[h])
    BY DEF Invoicers, OrderTypeOK
  <1>2. \A o \in Orders \ {ord[h]} : Invoicers(o)' = Invoicers(o)
    BY DEF Invoicers, OrderTypeOK
  <1>3. Cardinality(Invoicers(ord[h]))' = Cardinality(Invoicers(ord[h])) + 1
    BY <1>1, FS_AddElement DEF TablesCounted
  <1> QED
    BY <1>2, <1>3 DEF TablesCounted

\* A handler about to work finds its order vouched for and, unless the order was raced
\* or refunded, without a row of anybody else.
LEMMA WorkerIsFirst ==
    ASSUME IInv, TablesCounted, NEW h \in Handlers, pc[h] \in {"fulfil", "invoice"}
    PROVE  /\ ord[h] \in Orders
           /\ ord[h] \in money \cup confirmed
           /\ ord[h] \notin raced \cup refunded =>
                /\ ledger[h] = 0 => Granted[ord[h]] = 0
                /\ invoices[h] = 0 => Invoiced[ord[h]] = 0
  <1>1. ord[h] \in Orders /\ Engaged(h) /\ Trusted(h)
    BY EngagedHasOrder DEF IInv, Engaged, Marked, Trusted
  <1>2. ord[h] \in money \cup confirmed
    BY <1>1 DEF IInv, TrustInv
  <1>3. ASSUME ord[h] \notin raced \cup refunded, NEW g \in Handlers,
               g \in Granters(ord[h]) \/ g \in Invoicers(ord[h])
        PROVE  g = h
    <2>1. Engaged(g) /\ ord[g] = ord[h]
      BY <1>3 DEF Granters, Invoicers, Engaged, Marked
    <2> QED
      BY <1>1, <1>3, <2>1 DEF IInv, OnceInv
  <1>4. ASSUME ord[h] \notin raced \cup refunded, ledger[h] = 0 PROVE Granted[ord[h]] = 0
    <2>1. Granters(ord[h]) = {}
      BY <1>3, <1>4 DEF Granters
    <2> QED
      BY <1>1, <2>1, FS_EmptySet DEF TablesCounted
  <1>5. ASSUME ord[h] \notin raced \cup refunded, invoices[h] = 0 PROVE Invoiced[ord[h]] = 0
    <2>1. Invoicers(ord[h]) = {}
      BY <1>3, <1>5 DEF Invoicers
    <2> QED
      BY <1>1, <2>1, FS_EmptySet DEF TablesCounted
  <1> QED
    BY <1>1, <1>2, <1>4, <1>5

\* Invoices of a credited order are behind its grants while one of its handlers has
\* its grant and not its invoice.
LEMMA InvoicesAreBehind ==
    ASSUME IInv, TablesCounted, NEW h \in Handlers, ord[h] \in Orders,
           OrderPlan[ord[h]] \in CreditPlans, ledger[h] = 1, invoices[h] = 0
    PROVE  Invoiced[ord[h]] < Granted[ord[h]]
  <1> DEFINE o == ord[h]
  <1>1. Invoicers(o) \in SUBSET Granters(o)
    BY DEF IInv, OrderTypeOK, RowsInv, RowsByPosition, Invoicers, Granters
  <1>2. h \in Granters(o) /\ h \notin Invoicers(o)
    BY DEF Invoicers, Granters
  <1>3. IsFiniteSet(Granters(o))
    BY DEF TablesCounted
  <1>4. /\ Cardinality(Invoicers(o)) <= Cardinality(Granters(o))
        /\ Cardinality(Invoicers(o)) = Cardinality(Granters(o)) => Invoicers(o) = Granters(o)
        /\ IsFiniteSet(Invoicers(o))
    BY <1>1, <1>3, FS_Subset
  <1>5. Cardinality(Invoicers(o)) \in Nat /\ Cardinality(Granters(o)) \in Nat
    BY <1>3, <1>4, FS_CardinalityType
  <1>6. Cardinality(Invoicers(o)) < Cardinality(Granters(o))
    BY <1>2, <1>4, <1>5
  <1> QED
    BY <1>6 DEF TablesCounted

\* Every step of billing is a step of Delivery or none.
PromiseStep == [Promise!DeliveryNext]_(Promise!deliveryVars)

\* Somebody pays, confirms or is excused, and no row is inserted.
LEMMA VouchOrExcuse ==
    ASSUME UNCHANGED <<Granted, Invoiced>>, NEW o \in Orders,
           \/ /\ money' \cup confirmed' = money \cup confirmed \cup {o}
              /\ UNCHANGED <<raced, refunded>>
           \/ /\ raced' \cup refunded' = raced \cup refunded \cup {o}
              /\ UNCHANGED <<money, confirmed>>
           \/ UNCHANGED <<money, confirmed, raced, refunded>>
    PROVE  PromiseStep
  <1>1. \/ Promise!Vouch(o)
        \/ Promise!Excuse(o)
        \/ UNCHANGED Promise!deliveryVars
    BY DEF Promise!Vouch, Promise!Excuse, Promise!deliveryVars, Granted, Invoiced
  <1> QED
    BY <1>1 DEF PromiseStep, Promise!DeliveryNext

\* A top-up is delivered at once.
LEMMA TopupDelivers ==
    ASSUME IInv, TablesCounted, TablesCounted', NEW h \in Handlers, FulfilTopup(h)
    PROVE  PromiseStep
  <1> DEFINE o == ord[h]
  <1>1. o \in Orders /\ ledger[h] = 0 /\ invoices[h] = 0 /\ OrderTypeOK /\ OrderKind[o] = "topup"
    BY WorkerIsFirst DEF FulfilTopup, IInv, RowsInv, RowsByPosition
  <1>2. /\ Granted' = [Granted EXCEPT ![o] = @ + 1]
        /\ Invoiced' = [Invoiced EXCEPT ![o] = @ + 1]
    BY <1>1, GrantInserted, InvoiceInserted DEF FulfilTopup
  <1>3. /\ o \in money \cup confirmed
        /\ Granted[o] = 0 \/ o \in raced \cup refunded
        /\ Invoiced[o] = 0 \/ o \in raced \cup refunded
    BY <1>1, WorkerIsFirst DEF FulfilTopup
  <1>4. UNCHANGED <<money, confirmed, raced, refunded>>
    BY DEF FulfilTopup, worldVars, ghostVars
  <1>5. Promise!GrantWithInvoice(o)
    BY <1>1, <1>2, <1>3, <1>4 DEF Promise!GrantWithInvoice, Promise!Due, Granted, Invoiced
  <1> QED
    BY <1>1, <1>5 DEF PromiseStep, Promise!DeliveryNext

\* A plan is activated, with its credits if it has any.
LEMMA PlanDelivers ==
    ASSUME IInv, TablesCounted, TablesCounted', NEW h \in Handlers, FulfilPlan(h)
    PROVE  PromiseStep
  <1> DEFINE o == ord[h]
  <1>1. o \in Orders /\ ledger[h] = 0 /\ OrderTypeOK /\ OrderKind[o] = "subscription"
    BY WorkerIsFirst DEF FulfilPlan, IInv, RowsInv, RowsByPosition
  <1>2. UNCHANGED <<money, confirmed, raced, refunded>>
    BY DEF FulfilPlan, worldVars, ghostVars
  <1>3. Invoiced' = Invoiced
    <2>1. \A u \in Orders : Invoicers(u)' = Invoicers(u)
      BY DEF FulfilPlan, Invoicers
    <2> QED
      BY <2>1 DEF TablesCounted
  <1>4. CASE OrderPlan[o] \in CreditPlans
    <2>1. Granted' = [Granted EXCEPT ![o] = @ + 1]
      BY <1>1, <1>4, GrantInserted DEF FulfilPlan
    <2>2. o \in money \cup confirmed /\ (Granted[o] = 0 \/ o \in raced \cup refunded)
      BY <1>1, WorkerIsFirst DEF FulfilPlan
    <2>3. Promise!Grant(o)
      BY <1>1, <1>2, <1>3, <1>4, <2>1, <2>2 DEF Promise!Grant, Promise!Due, Granted, Invoiced
    <2> QED
      BY <1>1, <2>3 DEF PromiseStep, Promise!DeliveryNext
  <1>5. CASE OrderPlan[o] \notin CreditPlans
    <2>1. UNCHANGED <<ledger, ord>>
      BY <1>1, <1>5 DEF FulfilPlan, OrderTypeOK
    <2>2. \A u \in Orders : Granters(u)' = Granters(u)
      BY <2>1 DEF Granters
    <2>3. UNCHANGED <<Granted, Invoiced>>
      BY <1>3, <2>2 DEF TablesCounted
    <2> QED
      BY <1>1, <1>2, <2>3, VouchOrExcuse
  <1> QED
    BY <1>4, <1>5

\* The invoice of a plan order follows its credits.
LEMMA InvoiceFollows ==
    ASSUME IInv, TablesCounted, TablesCounted', NEW h \in Handlers, IssueInvoice(h)
    PROVE  PromiseStep
  <1> DEFINE o == ord[h]
  <1>1. /\ o \in Orders /\ invoices[h] = 0 /\ OrderTypeOK /\ OrderKind[o] = "subscription"
        /\ OrderPlan[o] \in CreditPlans => ledger[h] = 1
    BY WorkerIsFirst DEF IssueInvoice, IInv, RowsInv, RowsByPosition
  <1>2. Invoiced' = [Invoiced EXCEPT ![o] = @ + 1]
    BY <1>1, InvoiceInserted DEF IssueInvoice
  <1>3. Granted' = Granted
    <2>1. \A u \in Orders : Granters(u)' = Granters(u)
      BY DEF IssueInvoice, Granters
    <2> QED
      BY <2>1 DEF TablesCounted
  <1>4. o \in money \cup confirmed /\ (Invoiced[o] = 0 \/ o \in raced \cup refunded)
    BY <1>1, WorkerIsFirst DEF IssueInvoice
  <1>5. OrderPlan[o] \in CreditPlans => Invoiced[o] < Granted[o]
    BY <1>1, InvoicesAreBehind
  <1>6. UNCHANGED <<money, confirmed, raced, refunded>>
    BY DEF IssueInvoice, worldVars, ghostVars
  <1>7. Promise!Invoice(o)
    BY <1>1, <1>2, <1>3, <1>4, <1>5, <1>6 DEF Promise!Invoice, Promise!Due, Granted, Invoiced
  <1> QED
    BY <1>1, <1>7 DEF PromiseStep, Promise!DeliveryNext

\* The steps before the rows, and those outside settlement, at most vouch or excuse.
LEMMA OtherStepsDeliverNothing ==
    ASSUME IInv, TablesCounted, TablesCounted',
           \/ \E o \in Orders :
                 \/ Checkout(o) \/ Topup(o) \/ RequestPayment(o) \/ StoreReference(o)
                 \/ ShopperPays(o) \/ Refund(o)
           \/ \E h \in Handlers, o \in Orders :
                 Callback(h, o) \/ Webhook(h, o) \/ OperatorConfirms(h, o)
           \/ \E h \in Handlers :
                 Verify(h) \/ Reject(h) \/ ReadOrder(h) \/ MarkPaid(h) \/ HandlerDies(h)
           \/ UNCHANGED orderVars
    PROVE  PromiseStep
  <1> USE DEF tableVars, worldVars, handlerVars, ghostVars
  <1>1. ASSUME NEW o \in Orders,
               \/ Checkout(o) \/ Topup(o) \/ RequestPayment(o) \/ StoreReference(o)
               \/ ShopperPays(o) \/ Refund(o)
        PROVE  PromiseStep
    <2>1. UNCHANGED <<ledger, invoices, ord>>
      BY <1>1 DEF Checkout, Topup, CreateOrder, RequestPayment, StoreReference, ShopperPays, Refund
    <2>2. UNCHANGED <<Granted, Invoiced>>
      BY <2>1, NoRowInserted
    <2>3. \/ /\ money' \cup confirmed' = money \cup confirmed \cup {o}
             /\ UNCHANGED <<raced, refunded>>
          \/ /\ raced' \cup refunded' = raced \cup refunded \cup {o}
             /\ UNCHANGED <<money, confirmed>>
          \/ UNCHANGED <<money, confirmed, raced, refunded>>
      BY <1>1 DEF Checkout, Topup, CreateOrder, RequestPayment, StoreReference, ShopperPays, Refund
    <2> QED
      BY <2>2, <2>3, VouchOrExcuse
  <1>2. ASSUME NEW h \in Handlers, NEW o \in Orders,
               Callback(h, o) \/ Webhook(h, o) \/ OperatorConfirms(h, o)
        PROVE  PromiseStep
    <2>1. /\ pc[h] = "idle" /\ UNCHANGED <<ledger, invoices>>
          /\ ord' = [ord EXCEPT ![h] = o]
      BY <1>2 DEF Callback, Webhook, OperatorConfirms, Start
    <2>2. ledger[h] = 0 /\ invoices[h] = 0
      BY <2>1 DEF IInv, RowsInv, RowsByPosition
    <2>3. \A g \in Handlers : ord'[g] = ord[g] \/ (ledger[g] = 0 /\ invoices[g] = 0)
      BY <2>1, <2>2 DEF IInv, OrderTypeOK
    <2>4. UNCHANGED <<Granted, Invoiced>>
      BY <2>1, <2>3, NoRowInserted
    <2>5. \/ /\ money' \cup confirmed' = money \cup confirmed \cup {o}
             /\ UNCHANGED <<raced, refunded>>
          \/ UNCHANGED <<money, confirmed, raced, refunded>>
      BY <1>2 DEF Callback, Webhook, OperatorConfirms
    <2> QED
      BY <2>4, <2>5, VouchOrExcuse
  <1>3. ASSUME NEW h \in Handlers,
               Verify(h) \/ Reject(h) \/ ReadOrder(h) \/ MarkPaid(h) \/ HandlerDies(h)
        PROVE  PromiseStep
    <2>1. pc[h] # "idle" /\ UNCHANGED <<ledger, invoices, ord>>
      BY <1>3 DEF Verify, Reject, ReadOrder, MarkPaid, HandlerDies
    <2>2. ord[h] \in Orders
      BY <2>1 DEF IInv, OrderTypeOK
    <2>3. UNCHANGED <<Granted, Invoiced>>
      BY <2>1, NoRowInserted
    <2>4. \/ /\ raced' \cup refunded' = raced \cup refunded \cup {ord[h]}
             /\ UNCHANGED <<money, confirmed>>
          \/ UNCHANGED <<money, confirmed, raced, refunded>>
      BY <1>3 DEF Verify, Reject, ReadOrder, MarkPaid, HandlerDies
    <2> QED
      BY <2>2, <2>3, <2>4, VouchOrExcuse
  <1>4. ASSUME UNCHANGED orderVars PROVE PromiseStep
    <2>1. UNCHANGED <<Granted, Invoiced>> /\ UNCHANGED <<money, confirmed, raced, refunded>>
      BY <1>4, NoRowInserted DEF orderVars
    <2> QED
      BY <2>1 DEF PromiseStep, Promise!deliveryVars, Granted, Invoiced
  <1> QED
    BY <1>1, <1>2, <1>3, <1>4

\* Every step of billing, whoever takes it, is a step of Delivery or none.
LEMMA PromiseStepTaken ==
    IInv /\ TablesCounted /\ TablesCounted' /\ [Next]_vars => PromiseStep
  <1> SUFFICES ASSUME IInv, TablesCounted, TablesCounted', [Next]_vars PROVE PromiseStep
    OBVIOUS
  <1>1. CASE OrderNext
    BY <1>1, OtherStepsDeliverNothing, TopupDelivers, PlanDelivers, InvoiceFollows
    DEF OrderNext, HandlerProgress
  <1>2. CASE UNCHANGED orderVars
    BY <1>2, OtherStepsDeliverNothing
  <1> QED
    BY <1>1, <1>2 DEF Next, vars

\* Nothing is vouched for, excused or inserted at first.
LEMMA PromiseInit == TablesCounted /\ Init => Promise!DeliveryInit
  <1> SUFFICES ASSUME TablesCounted, Init PROVE Promise!DeliveryInit
    OBVIOUS
  <1>1. \A o \in Orders : Granters(o) = {} /\ Invoicers(o) = {}
    BY DEF Init, OrderInit, Granters, Invoicers
  <1>2. /\ Granted = [o \in Orders |-> 0]
        /\ Invoiced = [o \in Orders |-> 0]
    BY <1>1, FS_EmptySet DEF TablesCounted
  <1> QED
    BY <1>2 DEF Promise!DeliveryInit, Init, OrderInit, Granted, Invoiced

\* mark_order_paid and its callers, with requests of any number over the same orders,
\* renewals, refunds and deaths beside them, deliver as Delivery promises.
THEOREM SettlementDeliversAsPromised ==
    ASSUME IsFiniteSet(Handlers)
    PROVE  Spec => PromiseKept
  <1>1. IInv => TablesCounted
    BY TablesAreCounted
  <1>2. PromiseStep <=> [Promise!DeliveryNext]_(Promise!deliveryVars)
    BY DEF PromiseStep
  <1>3. Init => IInv
    BY OrderInitInv DEF Init
  <1> QED
    BY <1>1, <1>2, <1>3, NextInv, PromiseInit, PromiseStepTaken, PTL
    DEF Spec, PromiseKept, Promise!DeliverySpec

=============================================================================
