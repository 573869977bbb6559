# Verification of the AI shopping-assistant platform

TLA+ models of the platform's core: what it sells and bills
(`packages/acip_billing`, the billing routes), how a store's catalogue reaches
the search index (`packages/acip_sync`, `services/worker`, the store plugins,
`packages/acip_search/index_admin.py`), how an assistant turn is answered and paid
for (`packages/acip_gateway`, `packages/acip_cache`, `packages/acip_assistant`), who
may sign in (`packages/acip_auth` and its routers), and how the public API admits
requests and forgets what they left (`api/deps.py`, `acip_core/ratelimit.py`, the
governance routers). Each model is checked by TLC on small instances; every safety
property the runs check is also proved with TLAPS, for every value of the constants
that the named assumptions allow (section 4).

## 1. The system

| part | state | operations | talks to |
|---|---|---|---|
| subscriptions and renewals (`acip_billing/subscription.py`) | `subscriptions`, `tenants.plan_id`, `credit_ledger` in PostgreSQL | signup, cancel, resume, operator plan change, plan create/delete, `process_renewals` | Celery beat, operator button, settlement |
| order settlement (`mark_order_paid`, `billing_webhooks.py`) | `orders`, `invoices`, `credit_ledger` | checkout, hosted payment, callback, webhook, operator mark-paid, refund | payment provider over HTTP, subscriptions |
| catalogue sync (`acip_sync`, `worker/tasks.py`, plugins) | the store's own database, Celery queue, Elasticsearch index, `sync_state` watermark, dead-letter list, data version in Redis | product hooks, webhook, bulk import, reconciliation sweep, "sync now" | plugins over HTTP, Elasticsearch, Redis |
| assistant turns (`acip_gateway/router.py`, `rag.py`) | exact and semantic cache, data version, budget counter, kill switches, cached wallet in Redis; ledger in PostgreSQL | one turn, grants, kill switch, expiry | Elasticsearch, the provider chain, sync (through the data version) |
| provider registry (`acip_gateway/registry.py`, `admin_ai_*.py`, `acip_embedding/chained.py`) | `ai_models`, `ai_providers`, `ai_routes`, the failover switch; per process a snapshot of them with a time to live; cached vectors in Redis | load, invalidate, order the chain, walk it with retries and failover; edit models, providers, routes, switch | administration, turns, indexing |
| accounts and team (`api/routers/auth*.py`, `tenant_team.py`, `admin_users.py`, `acip_auth`) | `users`, `auth_sessions`, `password_resets`, `email_verifications`; access tokens outside the database | signup, invitation, login and lockout, refresh, logout, reset, verification, password and address change, roles, removal, suspension | mail |
| operator accounts (`admin_auth*.py`, `admin_operators.py`) | `admin_users` with TOTP secret and last step, `admin_sessions` | login, second factor on and off, create, suspend, restore, delete | every operator page |
| index lifecycle and order sync (`acip_search/index_admin.py`, `admin_es.py`, `acip_sync/order_ingest.py`) | indices, aliases, document versions in Elasticsearch | bootstrap, reindex and swap, alias, delete; order events | startup of every API worker, sync tasks, searches |
| public API gate, erasure (`api/deps.py`, `acip_core/ratelimit.py`, `admin_governance.py`) | API keys, fixed-window counters; session memory, caches, synonyms, leads, documents | issue and revoke keys, admit, serve, erase | turns, sync, searches |
| tools, search ranking, analytics, mail, front ends, infrastructure | see `PROJECT.json` | | |

Where it is hard:

* **almost nothing is locked** (one row while an operator is removed): PostgreSQL
  statements commit one by one unless a handler opens a transaction, and every `await`
  lets another request or worker in (settlement, renewals, the ladder);
* **Redis failures are swallowed** wherever they happen, so each counter, cache
  and version can silently miss an update;
* **Celery acknowledges late** and retries, the plugins' posts get lost, and
  reconciliation reads a store that changes under it;
* **a handler reads, hashes a password or calls a service, and then writes** what it
  computed from the reading (logins, refreshes, links, second factors, deletions,
  alias swaps), in a later statement that does not look again;
* **access tokens outlive what they say**: role and address are believed for a
  quarter of an hour;
* **caches of three kinds** (answers, wallet balance, provider snapshot) are used
  after what they copy has changed.

What makes each part correct is stated as properties in the modules; the hazards
they are aimed at are listed, each at its line, in `PROJECT.json`.

## 2. Modules

| module | models | composed with |
|---|---|---|
| `Subscriptions` | the subscription row, plan pointer, owners, operator, renewal runs | |
| `Settlement` | orders, payments and the requests that settle them | extends `Subscriptions`; `Next` is billing as a whole; implements `Delivery` |
| `CatalogSync` | store, plugin posts, worker tasks, index, reconciliation, data version | |
| `TurnLadder` | concurrent turns, caches, budget, wallet, catalogue revisions | |
| `ProviderRegistry` | provider tables, snapshots, calls that walk a chain, operator requests | |
| `Accounts` | one user's row, sessions, links and the requests about them | |
| `Team` | the people of one store and their access tokens | |
| `Operators` | operator accounts, their second factor, who may remove whom | |
| `Indices` | indices behind an alias, index operations call by call, order tasks | |
| `Storefront` | keys, limiter, what requests leave behind, erasure | implements `FixedWindow` |
| `FixedWindow` | what a fixed-window limiter promises | |
| `Delivery` | what settling an order promises | |
| `BillingProofs`, `RegistryProofs`, `AccountsProofs`, `PeopleProofs`, `StorefrontProofs`, `IndicesProofs`, `LadderProofs`, `SyncProofs` | theorems (section 4) | the modules they are about, and `TLAPS` |
| `MC...` | constants for TLC | |

### Subscriptions
`sub` is the `subscriptions` table (status `none`: no row), `tenantPlan` is
`tenants.plan_id`. `process_renewals` is four actions because it is four
statements outside any transaction: `SelectDue` (lines 291-295), `MarkPastDue`
(296-301), and per row `DowngradeRow` (`activate_plan`, one transaction) and
`ClearCancel`. `CrashRun` is a worker that dies or a statement that raises.
`over` abstracts `current_period_end <= now()`; period lengths, prices and
proration are left out. `trialOffered` is whether the trial plan's code resolves:
deleting it makes `activate_plan` return `False`, which the run ignores. Runs are of
activities, `Runners`, of which any number overlap: beat's daily task (`Scheduled`)
and the operator's button. `trialGrants` counts the grants of each by itself, since two
runs that selected one row before either downgraded it write one grant each.

### Settlement
A handler is one request. `mark_order_paid` is `ReadOrder`, `MarkPaid`, then
`FulfilTopup` (grant and invoice in one transaction) or `FulfilPlan` and
`IssueInvoice`; each is one commit. `Callback`, `Webhook` and `OperatorConfirms`
are the three ways in. `HandlerDies` stops a request between two commits.
`raced`, `refunded`, `dead` record history, so that the properties can say
exactly when duplicates and losses are possible.

`Delivery` is the abstract settlement: an order is vouched for, perhaps excused, and
credits and invoice follow, once each unless it is excused, never the invoice before
its credits. `PromiseKept` maps the rows of an order's handlers to its counters, money
and confirmations to `vouched`, races and refunds to `excused`.

### CatalogSync
A revision number stands for a product's content. A task's write and its bump
are two steps (`Deliver`, `Finish`), as are a run's pages, upserts, bump and
watermark record. `Upserted` is Elasticsearch's `external_gte` rule on the
product's modification second, `Tombstoned` the unversioned delete. The export lists
the ids of a page (`ListPage`) and reads each product and its date later, by queries of
their own (`ReadProduct`), while the merchant goes on. `shop` is the kind of shop:
whether its export looks past the page for more, and by how much a push dates a change
later than a pull (`NewTask`: `to_canonical` sends the local digits, which the receiver
takes for UTC; a pull sends GMT). `tied`, `overtaken`, `skewed` and `removed` name the
products for which the code makes no promise (section 5 shows why each exception is
needed).

### TurnLadder
One action per await of `answer_turn`, in its order. An answer is the catalogue
revision it was written from and whether the guardrail accepts it. `Works` lets
any Redis, PostgreSQL or Elasticsearch operation fail, with the handling the code
has at that place. `shown[d]` is the revision that searches saw when the data
version became `d`. An erasure deletes the documents, the semantic cache and the version
(`EraseCatalogue`, `EraseL2`, `EraseVersion`), which counts from 0 again: exact entries of
before are `outlived`, and so are those stored by turns that had read the version earlier
(`late`). What a turn costs (`charge_for_turn`) is any element of the
rung's `Price` set, chosen when it is metered: the tokens a provider reports are its
own affair, and with a price sheet an answer without a token count costs nothing.
`Found` is `SearchService.search`, with the query's vector or without it.

### ProviderRegistry
`_load` is three actions for its queries of routes and switch (`FetchChat`,
`FetchEmbedding`, `FetchSwitch`), which no transaction holds together, and
`LoadFails`; the snapshot is installed in the last. Tasks "chat" and "analyst"
follow the same code and are one here; rerank chains and prices are read by the
same load and left out. `Toggled` is `_apply_failover_toggle`, `ChatChain` and
`EmbeddingChain` are `endpoints` and `embedding_endpoints`, with the environment's
local endpoint behind a chat chain that does not end in a local one. A call walks
its chain by `Answer`, `Retry`, `FailOver`, `GiveUp`; `embed_one` resolves the chain
twice, so its cache key (`key`) is chosen in another action than its chain. An
operator's request commits, and invalidates in a later step (`Invalidate`), one
process only: the one that serves it. `delete_model` is `CheckUse` and
`DeleteModel`, `delete_provider` is `CountModels` and `DeleteProvider`; `Doomed` and
`Cascades` are the foreign keys, which take a provider's models and a model's route
positions along. Ghosts: `torn` (a table changed during the load, or none was read),
`version`, `putAt`, `tried`.

### Accounts, Team, Operators
`Accounts` is one `users` row with its sessions and links, which are numbered in the
order of their rows. A handler is two actions: the one named for its reading
(`LoginReads`, `RefreshReads`, `ResetOpened`, ...) keeps in `req` what the code keeps
in locals, and the one named for its transaction (`LoginSucceeds`, `RefreshRotates`,
`ResetConfirmed`, ...) writes from it. Handlers of one statement are one action.
`weak` is `needs_rehash`; `RoundsRaised` is a release that raises the rounds.
A link records its user and no address, as its row does. The
ghosts (`mark`, `slipped`, `chosen`, `undone`, and `late` in a session row)
name exactly the crossings in which the code loses a property, so that what the
properties say of all the other behaviours is as strong as the code allows.

`Team` is the `users` rows of one store and the access tokens minted from them; a
token carries role and address as the row had them. `TeamRole` and `TeamRemove` look
at the token and change a row in one statement; `OperatorRole` and `OperatorStatus`
are the operators' pages. `excused` becomes true when a token that is out of date is
used, or when an operator steps in.

`Operators` names a TOTP code by its 30-second step. `LoginReads`, `CodeAccepted`
and `LoginSucceeds` are the three statements of a login with a second factor;
`RemovalReads` holds the target's row (`SELECT ... FOR UPDATE`) and counts the
others, which are not locked. `mixed` and `overtaken` name the crossings. Refresh
rotation is `Accounts`' subject and is one bit here (`signedIn`).

### Indices
One action per Elasticsearch call of `create_index`, `point_alias`,
`reindex_and_swap`, `ensure_catalogue_index` and the operator's delete; between the
calls other operations and sync tasks run. `guard` is a document's version as
Elasticsearch compares it: the second of a dated change, which several changes may share
(`dates`), or a number that Elasticsearch counted up itself (an undated payload, or the
copies of a reindex). `shown` is what the index's last `Refresh` made visible, which is
all a reindex copies (`Copies`). `excused` grows with every document that is put at risk:
by a copy of an index that is not the live one, by one made before a refresh showed a
write (`Unrefreshed`), by a write between copy and swap, by a guard that cannot tell a
write's age (`Misjudged`). `Target` is where a name leads; without an alias a write
makes an index of the alias's own name (`TaskMakesIndex`), after which
`update_aliases` is refused. A reindex whose target was deleted meanwhile makes it anew,
unless it has nothing to copy (`Copy`). Orders and products share the code path; dates are of
orders (`order_ingest.py`), the products' data version is `CatalogSync`'s.

### Storefront and FixedWindow
A request arrives with a key (`Arrive`), is counted (`Incr`, `Expire`, `FailOpen`: the
two Redis commands and the exception handler) and served; a chat turn leaves words,
perhaps a cached answer, a reply and perhaps a lead behind, each in an await of its own;
a search that finds nothing leaves its words (`log_zero_result`), whether the widget, a
turn or the dashboard (`TrySearch`) asked for it; a sync call leaves a task that writes
a document or an order (`WriteDocument`, `OrderTask`). `Kinds` is what is stored of shop
and shoppers; of these no step of an erasure names the orders and the query log
(`Unnamed`). `EraseStep` is one store of `erase_tenant_data`, in its order, which may
fail half-way and is then skipped. `fresh` is a document that the index's last refresh
does not show and `delete_by_query` does not see.

`FixedWindow` is the abstract limiter: it counts, admits at most `Limit` by the count
and refuses only beyond it, minute by minute. `LimitHolds` maps `count[minute]` to
its count: every step of the Redis limiter, with counters that never expire and
requests that are counted in a minute that is over, is one of its steps or none.

## 3. Runs

Every passing run checks deadlock except `team`, `indices` and `storefront`. In the
last two the bounded number of starts is used up in the end; in `team` a store may
come to have nobody left, once an outdated token was used.

| run | instance | question |
|---|---|---|
| `renewals` | 1 store, 2 plans, 2 renewal activities of which 1 is scheduled, 2 period ends, 1 crash | types; does an activity grant twice; who is downgraded; does every lapsed subscription get processed |
| `billing` | 1 store, 1 plan order, 2 requests, 1 renewal activity, 2 periods, 1 crash | the composition: plan pointers, grants |
| `settlement` | 2 orders (plan, top-up), 2 requests, 1 death | what settlement promises: once, in order, as `Delivery` says, and in the end |
| `sync` | 2 products, pages of 1, 1 retry; an OpenCart shop with 3 edits and faults, a WooCommerce shop off UTC with 2; at most 2 of either | watermark, no write that takes a change back, convergence, cache bumps |
| `turns` | 2 concurrent turns, 2 queries, cap 2, semantic cache of 1, prices 0 and 2, global kill switch; 3 turns, 1 grant and 1 failure below the cap and at it; 1 turn, 3 writes, 1 failure and 1 erasure, or 2 turns and 1 or 2 of them | cache freshness, the cap, the two books |
| `registry` | 1 model listed and not routed yet, 1 process, 1 call, 2 operators, 2 edits, chains of up to 2, 1 failed load | a local endpoint as last resort, snapshots beside edits, deletion beside routing, calls catch up |
| `accounts` | 1 account, 2 requests at a time and 5 in all, 2 passwords, 2 addresses, 3 sessions, 3 links, lockout at 2 | rotation, revocation, lockout, which password is stored |
| `team` | 3 people, 4 addresses, 2 tokens | can a store lose its last owner |
| `operators` | 2 operators, 2 requests at a time and 6 in all, 3 TOTP steps, 2 secrets | can the platform lose its last operator; does the second factor hold |
| `indices` | 1 document, 2 waiting tasks, 2 operations at a time and 3 in all; 2 versions over 2 seconds and 2 indices, or 1 version, 3 indices and 1 failed read | one index behind the alias, nothing written is lost |
| `storefront` | 2 sessions, limit 2, 2 minutes; 3 starts with 1 failure or 1 write, or 2 starts with 3 writes and 1 failure | erasure is complete; the limiter is a fixed window |
| `sync_pages` | 2 products, pages of 1, 1 edit | section 5 |

Why the bounds are enough: the races modelled are between two actors over one row (two
requests, two runs, two turns), so two of each and one store, order pair or product pair
show them; the second crash, fault or edit only repeats the first in another place, and
the first may fall anywhere. Two period ends are what a double trial grant needs; pages
of one with two products are what paging needs. In `sync` two errors of a task are what
takes it through its only retry to its loss, and an edit beside them is what it loses;
and three events of an OpenCart shop give an edit between a page's list and the reading
of its products. In `turns` three paid answers would cost six credits against a bound of
four when the budget stands one below the cap of two (more when a charge is lost), and
any at all is too much when it stands at the cap; caches and money do not look at each
other, so that each is explored with its own scopes. In the registry a load needs one
edit to be torn and a deletion of a model one route written beside it, so two edits by
two operators show both; a provider deleted while a model is created under it and routed
needs three, which is too large an instance: that case rests on the theorem
`DeletionsSpareRoutes`, which has no bound. The environment's endpoint makes a second,
local element of the one routed model's chain. In `accounts` a linear history of three
sessions holds a token, its successor and a second successor; five requests are what a
reset, a login, two crossing refreshes and the reuse of a rotated token take. In
`operators` two operators are the least that can remove each other. In `indices` three
operations are a bootstrap, a reindex and a third one that crosses it, and three indices
what they make; two versions are what a tie and an old event need. In `storefront` a
limit of two is passed by three requests. The bounds are `MaxPeriods`, `MaxCrashes`,
`MaxDead`, `MaxEdits`, `MaxFaults`, `MaxEvents` (by kind of shop, `Shops`),
`MaxOutages`, `MaxWrong`, `MaxSessions`, `MaxLinks`, `MaxStarts`, `MaxTokens`,
`MaxStep`, `MaxSecrets`, `MaxIndices`, `MaxVersion`, `LastSecond`, `MaxTasks`,
`MaxMinute`; `TurnLadder` and `Indices` take combinations of bounds (`Scopes`), and so
does `Storefront` (`Budgets`), of which a behaviour follows one. The safety properties
do not depend on their values: they are proved (section 4). `MaxChain` is the code's own
limit of ten, cut to two in the runs.

Fairness: `SubFairness` (Celery beat starts the renewal task every day and a worker
executes it; the operator's button need never be pressed, and a run it began may stop
anywhere), `OrderFairSpec` (an accepted request runs on in the event loop),
`SyncFairness` (workers empty the queue, the sweep starts every 15 minutes),
`FairRegSpec` (calls keep coming, an accepted call goes on in the event loop, and a
snapshot's time to live runs out). No environment action is fair: shoppers need not pay,
merchants need not edit, operators need not act, crashes need not happen. The properties
of the ladder, accounts, team, operators, indices and storefront are safety properties
(a refinement among them), and their specifications have no fairness.

## 4. Proofs

Eight modules hold the theorems. Each has the same shape: an inductive invariant
that joins the type invariant, the properties and what they need of work in progress;
a lemma that the initial states have it; lemmas that every action keeps it; and theorems
that read the properties off it. They assume the named `ASSUME`s of the modules they
are about, and where a theorem needs more it says so in its statement.

| module | invariant | properties proved |
|---|---|---|
| `BillingProofs` | `SubInv`, `GrantsCovered`, `IInv` | `SubTypeOK`, `PlanPointersAgree`, `DowngradeWasAsked`, `OneGrantPerPeriod`, `OrderTypeOK`, `WorkedStaysPaid`, `PaidIsCovered`, `PromiseKept` |
| `SyncProofs` | `SyncInv` | `SyncTypeOK`, `WatermarkCovers`, `WritesNeverSetBack` |
| `LadderProofs` | `LadderInv` | `LadderTypeOK`, `L1IsOfItsVersion`, `FrontierWithinCap`, `BooksAgree` |
| `RegistryProofs` | `ChainInv`, `DeleteInv`, `FreshInv`, `LoadsInv` | `RegTypeOK`, `LocalIsTheLastResort`, `DeleteSparesRouted`, `SnapshotIsCurrent` (one process) |
| `AccountsProofs` | `AccInv` | `AccTypeOK`, `RotationIsLinear`, `RevocationHolds`, `LockoutCounts`, `PasswordIsTheChosenOne` |
| `PeopleProofs` | `OpInv`, `TeamInv` | `OpTypeOK`, `OperatorRemains`, `SecondFactorHolds`, `OwnerRemains` |
| `IndicesProofs` | `IdxInv` | `IdxTypeOK`, `AliasNamesOneIndex`, `LiveHasEverything` |
| `StorefrontProofs` | `StoreInv` | `StoreTypeOK`, `Forgotten`, `LimitHolds` |

`BillingProofs`, subscriptions: `SubInv` joins the type invariant, the agreement of the
plan pointers and `PendingWasAsked` (every cancel flag, and every row a run still
holds, belongs to an owner who asked). The last is what makes "only who asked is
downgraded" inductive: a run's stale selection stays true of the past. `GrantsCovered`
sets aside, for every renewal activity, an ended period of the store for each grant that
the activity can still write: for a row that is over and for one the activity has
selected and not processed (`Unprocessed`). It needs no assumption about overlapping
runs, because it counts each activity's grants by themselves; that overlapping
activities grant one each is what the code does.

Settlement: `IInv` says of every handler, by the step it stands before,
which rows it has inserted (`RowsInv`), that someone vouched for its order
(`TrustInv`), which status its order has (`MarkInv`) and that two handlers are
engaged with one order only after a race or a refund (`OnceInv`). The properties
of the runs speak only of rows; they are not inductive because a handler half-way
through has not inserted its rows yet. `BillingKeepsSubscriptions` and
`BillingGrantsOnce` carry the invariants of the subscriptions through the composition,
in which activating a bought plan is one more writer.

`SettlementDeliversAsPromised` is the refinement of `Delivery`, step by step: a step
that inserts no row vouches, excuses or stutters; `FulfilTopup`, `FulfilPlan` and
`IssueInvoice` are `GrantWithInvoice`, `Grant` (or a stutter, for a plan without
credits) and `Invoice`. Their guards are `IInv`'s: a handler that stands before its rows
is engaged, so that nobody else has inserted one unless the order is excused
(`WorkerIsFirst`), and among the handlers of a credited order those with an invoice are
fewer than those with a grant while it stands there (`InvoicesAreBehind`). Counting
needs the set of handlers to be finite, which the theorem assumes.

`SyncProofs`: tasks and pages arrive in any order, so `SyncInv` follows every pair of
a revision and a date on its way to the index: it is one the product had (`Genuine`),
and what date an entry has tells whether it is up to date (`IndexInv`). Of a run that is
still reading it says that the pages read so far hold what stands before their end *now*
(`PagesHold`, by a product's rank in the list that the next page is cut from): an edit
can only move a product to the end of that list, behind everything, and the products
for which that goes wrong are the ones the property excepts. What a page has listed and
not read yet counts as held, since it is read as it will be then; a product that changes
while it waits may carry the watermark past changes that are not listed, which
`overtaken` names. Products of a shop off UTC are `skewed` once they are pushed: of their
pairs nothing is claimed. `NothingMissed` and
`SinceCovers` carry it through the last page and into the next run. `WritesNeverSetBack`
is an action property read off two states of the invariant: versions only grow but for
deleted products (`VersionsGrow`), none passes its product's date, and the two are equal
when the entry is up to date. Products are
numbered (`CatalogSyncAssumption`: they are compared as the catalogue's order does) and
finitely many.

`LadderProofs`: `FreshInv` extends the promise of the exact cache to the answers on
their way into it, of turns that read their version after the last erasure. The cap is a
budget of turns: those let through below it and not bought yet (`MayBuy`, each worth the
dearest answer), those that have bought and not been charged (`ChargeInv`), and what the
counter says. `BooksAgree` compares sums over turns. A sum is written as the cardinality
of a set of single credits (`Credits`), because a sum by recursion or by a fold needs an
induction the prover cannot do. That a finite price set has a dearest member is shown
with the library's theorem that the proper subsets of a finite set are well ordered.

`RegistryProofs`: `ChainInv` says that the positions of a task's routes, of every
snapshot and of every load under way are distinct and before the environment's,
and that a chat call stands at an eligible endpoint of its chain, has a local one
in reach and has given up every eligible one before. `LocalIsTheLastResort` speaks
only of calls that failed, so the walk has to be carried. Least and greatest
elements of a chain are shown without induction: a chain has at most eleven
positions. `DeleteInv` ties a pending deletion to the last edit of each route that
names one of the models it will take along, which for a provider rests on routes
naming only models that exist (`RoutedAreLive`) and on what the request had counted
(`CheckedFirst`); `FreshInv` and `LoadsInv` tie snapshots and half-done loads to the
tables, or to a request that still has to invalidate. With several processes a
snapshot may be old (section 5), so `SnapshotIsCurrent` is proved for one.

`AccountsProofs`: a part per table. A request that has read and will write holds numbers
of rows that exist (`RequestsInv`): nothing deletes them. `ChainInv` makes the history
of sessions a forest that points backwards; `BlankInv` says that before the account
there is nothing about it.

`PeopleProofs`: an operator being removed leaves somebody (`RemovalsInv`), which the row
lock alone does not give: two removals that look before either writes are what
`overtaken` excepts. Accepted codes are at or before the recorded step (`CodesInv`), which
is why none is accepted twice. For a store, `OwnerRemains` is inductive with its types.

`IndicesProofs`: of every document nobody put at risk, the index behind the alias, and
each copy that is complete, holds the last version acknowledged (`ContentInv`); a copy
is complete when the source's documents were all refreshed, so that those that were not
are put at risk by `Copy` itself; the guard of such a document is compared with the second of
its newest change, and later changes have no earlier second (`DatesInv`); reindexes
own the indices they made (`RequestsInv`), so that no two fill one.

`StorefrontProofs`: `StoreInv` relates counter, requests at the gate and admissions of
the running minute; `EraseInv` says that what an erasure still has to delete is of a
kind that comes later in its order, and visible to it, or of the two kinds that have no
step. `LimitHolds` follows step by step: of each action, that it is a step of
`FixedWindow` or none.

Attempts that failed changed two models where no run had shown anything: a reindex
whose index was deleted meanwhile now makes it anew when it copies something (`Copy` in
`Indices`: Elasticsearch creates the index it is told to copy into), and TOTP steps begin
at one, since zero stands for "no step accepted yet" (`Operators`).

Only model-checked: liveness (`LapsedIsProcessed`, `PaidIsDelivered`,
`ListedIsIndexed`, `CachesCatchUp`, `CallsCatchUp`), which the prover cannot treat.
`NothingWithoutPayment`, `OnceUnlessRacedOrRefunded` and `InvoiceHasGrant` of
`Settlement` are proved and no run checks them by themselves: `PromiseKept`, which one
does, says what they say, and more.

## 5. Where code and documents disagree

Shown by a run:

* Reconciliation is said to make lost webhooks harmless; offset paging over a list
  that edits reorder can skip a product for good (`PullConverges`). Nor does it
  ever remove a document: the model's convergence properties are about listed
  products.

Read off the modelled code, without a run of their own:

* `mark_order_paid` is called idempotent (`subscription.py:202`); two requests that
  read the order before either writes it both deliver, and so does a report after a
  refund. `PromiseKept` says that nothing else does.
* A run is said to pull "everything changed since the watermark" (`fetch.py:3-5`); the
  OpenCart export reads a product's date after it has cut the page (`acip.php:74-84`), so
  that one edited in between carries the watermark past changes that are not listed
  (`overtaken`).
* Writes are said to be "guarded against out-of-order writes" (`ingest.py:3-6`) by the
  source's date; a WooCommerce push sends local digits that are read as UTC
  (`class-acip-sync.php:107-108`), a pull GMT (`normalize.py:124`). East of Greenwich a
  pushed version refuses the pulls of later changes, and a late push overwrites them, for as
  long as the offset; west of it a push of a newer change is refused after a pull
  (`skewed`). Two changes of one second are equal to the guard, and the one that arrives
  last stays (`tied`; `Misjudged` in `Indices`).
* `process_renewals` runs of the operator's button and of beat that overlap grant a trial
  period once each (`subscription.py:302`); nothing excludes them, and an owner who resumes
  between a run's SELECT and its downgrade is downgraded all the same.
* Reindexing is said to be without loss for readers ("zero downtime"); `es.reindex` copies
  what the source's last refresh shows (`index_admin.py:77-80`), and documents
  acknowledged within the second before are missing behind the alias after the swap.
* Repeatedly failing events are said to be parked, "never silently dropped"
  (`acip_sync/dlq.py:3`); after the last retry a webhook task is dropped, because
  `self.retry(exc=exc)` raises `exc` and not the error the handler waits for.
* A bump is said to invalidate every cached answer (`data_version.py:3-5`); the
  semantic cache's key has no version. `L1IsOfItsVersion` is about the exact cache.
* The guardrail is said to reject unsupported answers (`guardrails.py:9-11`); they
  are cached before it looks, and a hit is not looked at.
* An embedding failover is said to miss the cache "rather than corrupting it"
  (`acip_embedding/chained.py:52-54`); the vector of the endpoint that answered is
  stored under the key of the first one.
* A turn answered by the local endpoint is said never to be charged as frontier
  (`tests/test_gateway.py`); the router recognises it by the name "local", and the
  registry lets an operator name it otherwise.
* A paid turn of a model with a price sheet costs nothing when its provider reports
  no token counts, so that the budget cap never comes to bite
  (`FrontierWithinCap` counts credits, not answers).
* Registry edits are said to be visible immediately (`admin_ai_common.py`);
  `invalidate` reaches the process that served the request, and production runs
  several. The others follow when their snapshot expires (`CallsCatchUp`).
* `RegistrySnapshot` is called one consistent read (`registry.py:69`); it is six
  queries outside a transaction (`SnapshotIsCurrent` excepts the torn ones).
* With failover off, the administration's text promises the primary and no retry;
  the code keeps the primary's retries and a local endpoint behind it.
* `max_retries` has no effect on embeddings: `EmbeddingUnavailable` is not among
  the errors that are retried.
* `put_route` insists on models of the task's modality; `update_model` can change
  the modality of a model that is routed, and the loader then skips it.
* Refresh tokens are called single-use; two refreshes that cross both succeed
  (`late` in `RotationIsLinear`), and one that crosses a password reset stays signed
  in (`RevocationHolds`).
* Weak hashes are upgraded "transparently"; a login that crosses a change of password
  writes the old one back (`undone` in `PasswordIsTheChosenOne`).
* An address that was changed is verified by a link mailed to the one before: the
  link's row names the user and no address (`VerifyConfirmed` in `Accounts`).
* An invited colleague who has set a password stays pending and cannot log in until an
  operator activates the account; the invitation mail (`templates.py:88-89`) promises
  otherwise.
* "You cannot remove yourself" compares addresses: an owner whose address changed
  since the token was minted can (`excused` in `OwnerRemains`).
* "The last active admin can never be suspended or deleted": two operators who do it
  to each other at once both succeed (`overtaken` in `OperatorRemains`). A login that
  crosses a suspension signs the suspended operator in; the next refresh is refused.
* `ensure_catalogue_index` is called idempotent and a no-op if the alias resolves; a
  failed or crossed reading swaps the alias to an empty index
  (`excused` in `LiveHasEverything`). Order payloads without a time of change are
  written without a version and overwrite newer ones.
* The switch that suspends a store says its assistant stops at once (front end text
  `admin.json:113`); `set_tenant_status` writes `tenants.status`, which
  `resolve_principal` does not read. `tracking_enabled` is written and read nowhere.
* An erasure is said to reach "index, memory, and logs" (`admin_governance.py:25`). It
  leaves the orders index, with the customers' names and addresses (`orders.py:37-38`),
  and the log of queries without results (`zero_result.py:23`): `Forgotten` is about the
  kinds its steps name. It also leaves an index that is not behind the alias, and the
  reconciliation watermark, so that an erased catalogue is not pulled anew. A turn in
  progress may store an answer written from what was just erased.
* An erasure deletes the data version but not the exact cache's entries, which become
  hits again as the version counts up, for their hour (`outlived` in `L1IsOfItsVersion`).
* A crossing of confirmation and disabling can leave a second factor enforced without a
  secret (`mixed` in `SecondFactorHolds`); login then checks codes of `str(None)`
  (`admin_auth.py:106`), and `LoginReads` in `Operators` has such codes.
* `create_tenant` accepts a key scope "admin" that opens no endpoint.

## 6. Not modelled, and the plan

Left out for good: user interfaces, query building and ranking, reports and exports,
mail (the dunning task, which only sends it), deployment: no protocol of their own.
The circuit breaker and bulkhead (`acip_core/resilience.py`), the tool registry
(`acip_assistant/tools.py`) and the assistant's long-term memory have no caller, so
that there is nothing to say how they are used. Real time, so how long a stale wallet
or an expired lock lasts; amounts in money beyond a price per rung. Rerank chains and
price sheets of the registry are loaded like the chains that are modelled.

Planned: the registry's chain as the ladder's `Endpoints`. The ladder takes any chain
with a local endpoint, which `LocalIsTheLastResort` justifies only for chat. And amounts:
what a proration credit computed at checkout is worth when the order is paid later
(`subscription.py:96`).
