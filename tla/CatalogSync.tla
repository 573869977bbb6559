---------------------------- MODULE CatalogSync ----------------------------
(***************************************************************************)
(* How one store's catalogue reaches the search index. Two paths write it: *)
(*                                                                         *)
(*   push  the store plugin posts each change to the API, which queues it  *)
(*         for a worker; the post may be lost, tasks run in any order, are *)
(*         retried after an error and delivered again after a crash        *)
(*   pull  reconciliation runs (the periodic sweep, "sync now") read every *)
(*         listed product modified since the watermark, page by page       *)
(*                                                                         *)
(* Both upsert with the product's modification second as external version; *)
(* a WooCommerce push gives it in the shop's local digits marked as UTC, a *)
(* pull in UTC.                                                            *)
(* After a write the worker bumps the tenant's data version, which is what *)
(* makes cached answers about the old document unreachable.                *)
(*                                                                         *)
(* A revision number stands for a product's content; edits are numbered    *)
(* through the whole catalogue.                                            *)
(***************************************************************************)
EXTENDS Integers, FiniteSets

CONSTANTS
    Products,   \* product ids, numbers: the store breaks ties between dates by id
    Runs,       \* reconciliation runs that can be in progress at once
    PageSize,   \* products per page of the store's export
    MaxRetries, \* retries of a webhook task
    Shops,      \* kinds of shops: whether the export looks past the page for more (OpenCart's
                \* does), and how much later than a pull a push dates a change (the UTC offset
                \* of a WooCommerce shop, 0 for OpenCart)
    MaxEdits,   \* bound: changes and bulk imports the merchant makes
    MaxFaults,  \* bound: errors, crashes, redeliveries and lost bumps
    MaxEvents   \* bound: edits and faults together, by kind of shop

ASSUME CatalogSyncAssumption ==
    /\ Products \subseteq Nat /\ IsFiniteSet(Products)
    /\ PageSize \in Nat \ {0}
    /\ MaxRetries \in Nat
    /\ Shops \subseteq [looksAhead: BOOLEAN, offset: Int]
    /\ MaxEdits \in Nat
    /\ MaxFaults \in Nat
    /\ MaxEvents \in [Shops -> Nat]

VARIABLES
    store,     \* the merchant's catalogue
    edits,     \* changes and bulk imports so far, the state of the shop at first counting as one
    clock,     \* the store's clock, in seconds
    shop,      \* what kind of shop it is
    queue,     \* webhook and bulk-import tasks not acknowledged yet
    index,     \* the search index
    stale,     \* products whose index entry changed after the data version's last bump
    parked,    \* the dead-letter queue
    watermark, \* sync_state.high_watermark, 0 for NULL
    step,      \* where each reconciliation run stands
    since,     \* the watermark it started from
    page,      \* the page it is on
    ids,       \* the products of that page the export has listed and not read yet
    rows,      \* what is left of that page to be applied
    more,      \* the store has another page
    high,      \* the latest modification it has repaired, 0 for none
    faults,    \* ghost: faults so far
    lastRead,  \* ghost: the second in which a run last read the store
    tied,      \* ghost: products whose last change shares its second with a read or a change
    overtaken, \* ghost: products the export list moved under a run
    skewed,    \* ghost: products ever pushed with a date other than a pull's
    removed,   \* ghost: products ever taken off the shop
    dropped,   \* ghost: products with a task that failed for good and was not parked
    muted      \* ghost: products whose bump was lost

storeVars == <<store, edits, clock, shop, tied, overtaken, removed, skewed>>
taskVars == <<queue, parked, dropped>>
indexVars == <<index, stale, muted>>
pullVars == <<watermark, step, since, page, ids, rows, more, high, lastRead>>
syncVars == <<storeVars, taskVars, indexVars, pullVars, faults>>

Task == [kind: {"upsert", "delete", "bulk"}, product: Products, rev: Nat, at: Int,
         tries: Nat, applied: BOOLEAN]
Row == [product: Products, rev: Nat, at: Nat]
ParkedRow == [product: Products, rev: Nat, at: Int]
RunStep == {"idle", "fetch", "apply", "bump", "record"}

\* The tables, the tasks and the runs are well formed; an idle run holds no rows.
SyncTypeOK ==
    /\ store \in [Products -> [rev: Nat, at: Nat, listed: BOOLEAN]]
    /\ edits \in Nat
    /\ clock \in Nat
    /\ shop \in [looksAhead: BOOLEAN, offset: Int]
    /\ queue \in SUBSET Task
    /\ index \in [Products -> [rev: Nat, version: Int]]
    /\ parked \in SUBSET ParkedRow
    /\ watermark \in Nat
    /\ step \in [Runs -> RunStep]
    /\ since \in [Runs -> Nat]
    /\ page \in [Runs -> Nat]
    /\ ids \in [Runs -> SUBSET Products]
    /\ rows \in [Runs -> SUBSET Row]
    /\ more \in [Runs -> BOOLEAN]
    /\ high \in [Runs -> Nat]
    /\ \A r \in Runs : step[r] # "apply" => rows[r] = {} /\ ids[r] = {}
    /\ \A r \in Runs : step[r] = "idle" => since[r] = 0 /\ page[r] = 0 /\ high[r] = 0 /\ ~more[r]
    /\ faults \in Nat
    /\ lastRead \in Nat
    /\ stale \cup muted \cup tied \cup overtaken \cup removed \cup skewed \cup dropped \subseteq Products

\* The shop had products before the store was connected.
SyncInit ==
    /\ store \in [Products -> {[rev |-> 0, at |-> 0, listed |-> FALSE],
                              [rev |-> 1, at |-> 1, listed |-> TRUE]}]
    /\ index = [p \in Products |-> [rev |-> 0, version |-> 0]]
    /\ edits = 1 /\ clock = 1 /\ faults = 0
    /\ shop \in Shops
    /\ queue = {} /\ parked = {} /\ dropped = {}
    /\ stale = {} /\ muted = {} /\ tied = {} /\ overtaken = {} /\ removed = {} /\ skewed = {}
    /\ watermark = 0 /\ lastRead = 0
    /\ step = [r \in Runs |-> "idle"]
    /\ since = [r \in Runs |-> 0]
    /\ page = [r \in Runs |-> 0]
    /\ ids = [r \in Runs |-> {}]
    /\ rows = [r \in Runs |-> {}]
    /\ more = [r \in Runs |-> FALSE]
    /\ high = [r \in Runs |-> 0]

Fault == faults < MaxFaults /\ edits + faults <= MaxEvents[shop] /\ faults' = faults + 1
Edit == edits <= MaxEdits /\ edits + faults <= MaxEvents[shop] /\ edits' = edits + 1

-----------------------------------------------------------------------------
(* The index. version is what Elasticsearch remembers of an id: a deleted  *)
(* id keeps its version for a while, and rev 0 stands for "no document".   *)

\* Mutant of Upserted: no external version.
UpsertedUnguarded(p, rev, at) == [index EXCEPT ![p] = [rev |-> rev, version |-> at]]

\* upsert_product with version_type external_gte: an older version is refused,
\* which the code takes for success.
Upserted(p, rev, at) ==
    IF at >= index[p].version
    THEN [index EXCEPT ![p] = [rev |-> rev, version |-> at]]
    ELSE index

\* tombstone_product: a delete without a version, whatever is there.
Tombstoned(p) ==
    [index EXCEPT ![p] = [rev |-> 0, version |-> IF @.version = 0 THEN 0 ELSE @.version + 1]]

\* What executing a task does to the index.
Effect(m) ==
    IF m.kind = "delete" THEN Tombstoned(m.product) ELSE Upserted(m.product, m.rev, m.at)

\* A write of the index entry of p.
Write(p, new) ==
    /\ index' = new
    /\ stale' = IF new = index THEN stale ELSE stale \cup {p}

\* bump_data_version: INCR; an error of Redis is swallowed.
Bump ==
    \/ stale' = {} /\ UNCHANGED <<muted, faults>>
    \/ Fault /\ muted' = muted \cup stale /\ UNCHANGED stale

\* Elasticsearch forgets the version of a deleted id.
ForgetTombstone(p) ==
    /\ index[p].rev = 0
    /\ index[p].version # 0
    /\ index' = [index EXCEPT ![p].version = 0]
    /\ UNCHANGED <<storeVars, taskVars, stale, muted, pullVars, faults>>

-----------------------------------------------------------------------------
(* The merchant's store and its plugin.                                    *)

\* The export's list for run r: listed products modified after the watermark, oldest first.
Changed(r) == {p \in Products : store[p].listed /\ store[p].at > since[r]}

Earlier(p, q) ==
    \/ store[p].at < store[q].at
    \/ store[p].at = store[q].at /\ p <= q

Rank(p, set) == Cardinality({q \in set : Earlier(q, p)})

\* Products that may change place in that list when p changes: p itself goes to the
\* end, unless it shares the second with another product.
Moved(p, tick, r) == IF tick = 0 THEN Changed(r) \cup {p} ELSE Changed(r) \ {p}

\* Products that run r may miss when p changes, unless they are to be read yet. More
\* pages follow, and the list moves; or p waits to be read, with a date now that is later
\* than changes r has not listed; or p itself, which r has not listed, changes in the
\* second of a product that waits.
Overtaken(p, tick, r) ==
    ((IF more[r] \/ p \in ids[r] THEN Moved(p, tick, r) ELSE {})
        \cup {q \in {p} : tick = 0 /\ \E x \in ids[r] : store[x].at = clock})
      \ ids[r]

\* The plugin's canonical payload: a push dates the change by the shop's clock.
NewTask(kind, p, rev, at) ==
    [kind |-> kind, product |-> p, rev |-> rev, at |-> at + shop.offset, tries |-> 0,
     applied |-> FALSE]

Pushed(p) == IF shop.offset = 0 THEN skewed ELSE skewed \cup {p}

\* A change of product p in the current or the next second, and the plugin's post
\* about it, which is lost when the API does not answer within its timeout.
Change(p, listed, kind, tick, delivered) ==
    /\ Edit
    /\ clock' = clock + tick
    /\ store' = [store EXCEPT ![p] = [rev |-> edits', at |-> clock', listed |-> listed]]
    /\ tied' = IF clock' \in {lastRead, store[p].at} THEN tied \cup {p} ELSE tied \ {p}
    /\ overtaken' = (overtaken \ {p}) \cup UNION {Overtaken(p, tick, r) : r \in Runs}
    /\ removed' = IF listed THEN removed ELSE removed \cup {p}
    /\ \/ /\ delivered
          /\ queue' = queue \cup {NewTask(kind, p, edits', clock')}
          /\ skewed' = Pushed(p)
       \/ /\ ~delivered
          /\ UNCHANGED <<queue, skewed>>
    /\ UNCHANGED <<shop, parked, dropped, indexVars, pullVars, faults>>

\* A product is added, edited or put back on sale.
Save(p, tick, delivered) == Change(p, TRUE, "upsert", tick, delivered)

\* It is disabled or made a draft: still an upsert for the plugin, but the export
\* leaves it out.
Hide(p, tick, delivered) == store[p].listed /\ Change(p, FALSE, "upsert", tick, delivered)

\* It is deleted or trashed.
Remove(p, tick, delivered) == store[p].listed /\ Change(p, FALSE, "delete", tick, delivered)

\* The merchant presses "bulk import": a task with the product as it is now. (The
\* products of one import share a task, which handles each of them by itself.)
BulkImport(p) ==
    /\ store[p].listed
    /\ Edit
    /\ queue' = queue \cup {NewTask("bulk", p, store[p].rev, store[p].at)}
    /\ skewed' = Pushed(p)
    /\ UNCHANGED <<store, clock, shop, tied, overtaken, removed, parked, dropped, indexVars,
                   pullVars, faults>>

-----------------------------------------------------------------------------
(* The worker's tasks. Tasks wait out a retry delay, several workers run   *)
(* them, and a task is acknowledged only after it ends (task_acks_late).   *)

\* The write of process_webhook_event or bulk_import.
Deliver(m) ==
    /\ ~m.applied
    /\ queue' = (queue \ {m}) \cup {[m EXCEPT !.applied = TRUE]}
    /\ Write(m.product, Effect(m))
    /\ UNCHANGED <<storeVars, parked, dropped, muted, pullVars, faults>>

\* Its bump; then the task is acknowledged.
Finish(m) ==
    /\ m.applied
    /\ queue' = queue \ {m}
    /\ Bump
    /\ UNCHANGED <<storeVars, parked, dropped, index, pullVars>>

\* The worker dies after the write, before or after the bump, and the broker
\* delivers the task again.
Redeliver(m) ==
    /\ m.applied
    /\ Fault
    /\ queue' = (queue \ {m}) \cup {[m EXCEPT !.applied = FALSE]}
    /\ stale' \in {stale, {}}
    /\ UNCHANGED <<storeVars, parked, dropped, index, muted, pullVars>>

\* The write raises, with or without having been done. A webhook task is retried;
\* after its last retry self.retry raises the write's own exception, so that the
\* branch that parks the event is not reached. A bulk import parks at once.
Fail(m) ==
    /\ ~m.applied
    /\ Fault
    /\ Write(m.product, index) \/ Write(m.product, Effect(m))
    /\ \/ /\ m.kind # "bulk"
          /\ m.tries < MaxRetries
          /\ queue' = (queue \ {m}) \cup {[m EXCEPT !.tries = @ + 1]}
          /\ UNCHANGED <<parked, dropped>>
       \/ /\ m.kind # "bulk"
          /\ m.tries = MaxRetries
          /\ queue' = queue \ {m}
          /\ dropped' = dropped \cup {m.product}
          /\ UNCHANGED parked
       \/ /\ m.kind = "bulk"
          /\ queue' = queue \ {m}
          /\ parked' = parked \cup {[product |-> m.product, rev |-> m.rev, at |-> m.at]}
          /\ UNCHANGED dropped
    /\ UNCHANGED <<storeVars, muted, pullVars>>

-----------------------------------------------------------------------------
(* Reconciliation: _reconcile_one and reconcile.                           *)

GoOn(r, s) == step' = [step EXCEPT ![r] = s]

\* Mutant of Return: a failed run keeps its rows.
ReturnKeepingRows(r) ==
    /\ GoOn(r, "idle")
    /\ since' = [since EXCEPT ![r] = 0]
    /\ page' = [page EXCEPT ![r] = 0]
    /\ more' = [more EXCEPT ![r] = FALSE]
    /\ ids' = [ids EXCEPT ![r] = {}]
    /\ high' = [high EXCEPT ![r] = 0]
    /\ UNCHANGED rows

\* The run ends, and its local variables with it.
Return(r) ==
    /\ GoOn(r, "idle")
    /\ since' = [since EXCEPT ![r] = 0]
    /\ page' = [page EXCEPT ![r] = 0]
    /\ ids' = [ids EXCEPT ![r] = {}]
    /\ rows' = [rows EXCEPT ![r] = {}]
    /\ more' = [more EXCEPT ![r] = FALSE]
    /\ high' = [high EXCEPT ![r] = 0]

\* The run reads its watermark.
BeginPull(r) ==
    /\ step[r] = "idle"
    /\ GoOn(r, "fetch")
    /\ since' = [since EXCEPT ![r] = watermark]
    /\ page' = [page EXCEPT ![r] = 1]
    /\ UNCHANGED <<storeVars, taskVars, indexVars, watermark, ids, rows, more, high, lastRead, faults>>

\* The periodic sweep reaches this store.
Sweep(r) == BeginPull(r)

\* POST /sync/trigger: a run of its own, which a worker takes beside the sweep's. When
\* the broker is down the request is recorded and no run comes of it.
SyncNow(r) == BeginPull(r)

\* normalize_product of what a pull reads: from the fields of either platform come the
\* id, the content and the date of the last change, which becomes the version of the
\* document.
Normalized(p) == [product |-> p, rev |-> store[p].rev, at |-> store[p].at]

\* The export lists the ids of one page of the list as it is now: the page number counts
\* from the front of the list, whatever happened to it since the previous page. OpenCart's
\* looks one product further to tell whether there is more; of WooCommerce the pull asks
\* for another page whenever this one is full.
ListPage(r) ==
    LET first == (page[r] - 1) * PageSize
        last == page[r] * PageSize
        length == Cardinality(Changed(r))
    IN  /\ step[r] = "fetch"
        /\ GoOn(r, "apply")
        /\ ids' = [ids EXCEPT ![r] =
                     {q \in Changed(r) : Rank(q, Changed(r)) \in (first + 1) .. last}]
        /\ more' = [more EXCEPT ![r] = IF shop.looksAhead THEN length > last ELSE length >= last]
        /\ lastRead' = clock
        /\ UNCHANGED <<storeVars, taskVars, indexVars, watermark, since, page, rows, high, faults>>

\* It reads one of them, by a query of its own: as it is by now, and with the date it has
\* by now. One that has been hidden meanwhile is exported all the same, one that has been
\* deleted may be left out.
ReadProduct(r, p) ==
    /\ p \in ids[r]
    /\ ids' = [ids EXCEPT ![r] = @ \ {p}]
    /\ \/ rows' = [rows EXCEPT ![r] = @ \cup {Normalized(p)}]
       \/ ~store[p].listed /\ UNCHANGED rows
    /\ lastRead' = clock
    /\ UNCHANGED <<storeVars, taskVars, indexVars, watermark, step, since, page, more, high, faults>>

\* The page has arrived; one product of it is upserted.
ApplyRow(r, row) ==
    /\ step[r] = "apply"
    /\ ids[r] = {}
    /\ row \in rows[r]
    /\ rows' = [rows EXCEPT ![r] = @ \ {row}]
    /\ high' = [high EXCEPT ![r] = IF row.at > @ THEN row.at ELSE @]
    /\ Write(row.product, Upserted(row.product, row.rev, row.at))
    /\ UNCHANGED <<storeVars, taskVars, muted, watermark, step, since, page, ids, more,
                   lastRead, faults>>

\* Mutant of EndPage: repairs are not announced.
EndPageQuietly(r) ==
    /\ step[r] = "apply"
    /\ ids[r] = {} /\ rows[r] = {}
    /\ \/ /\ more[r]
          /\ GoOn(r, "fetch")
          /\ page' = [page EXCEPT ![r] = @ + 1]
       \/ /\ ~more[r]
          /\ GoOn(r, "record")
          /\ UNCHANGED page
    /\ UNCHANGED <<storeVars, taskVars, indexVars, watermark, since, ids, rows, more, high, lastRead,
                   faults>>

\* The page is done: the next page, or the end. A run that repaired nothing does
\* not bump.
EndPage(r) ==
    /\ step[r] = "apply"
    /\ ids[r] = {} /\ rows[r] = {}
    /\ \/ /\ more[r]
          /\ GoOn(r, "fetch")
          /\ page' = [page EXCEPT ![r] = @ + 1]
       \/ /\ ~more[r]
          /\ GoOn(r, IF high[r] > 0 THEN "bump" ELSE "record")
          /\ UNCHANGED page
    /\ UNCHANGED <<storeVars, taskVars, indexVars, watermark, since, ids, rows, more, high, lastRead,
                   faults>>

Announce(r) ==
    /\ step[r] = "bump"
    /\ GoOn(r, "record")
    /\ Bump
    /\ UNCHANGED <<storeVars, taskVars, index, watermark, since, page, ids, rows, more, high,
                   lastRead>>

\* Mutant of RecordSync: the watermark is the time the run ends.
RecordNow(r) ==
    /\ step[r] = "record"
    /\ Return(r)
    /\ watermark' = clock
    /\ UNCHANGED <<storeVars, taskVars, indexVars, lastRead, faults>>

\* _record_sync(ok): COALESCE(new, old), so nothing repaired changes nothing.
RecordSync(r) ==
    /\ step[r] = "record"
    /\ Return(r)
    /\ watermark' = IF high[r] > 0 THEN high[r] ELSE watermark
    /\ UNCHANGED <<storeVars, taskVars, indexVars, lastRead, faults>>

\* The store, the index or the database fails, or the worker dies: the run is
\* recorded as an error or not at all, and the watermark stays.
AbortPull(r) ==
    /\ step[r] # "idle"
    /\ Fault
    /\ Return(r)
    /\ UNCHANGED <<storeVars, taskVars, indexVars, watermark, lastRead>>

-----------------------------------------------------------------------------
PullStep(r) ==
    \/ Sweep(r) \/ SyncNow(r)
    \/ ListPage(r)
    \/ \E p \in ids[r] : ReadProduct(r, p)
    \/ \E row \in rows[r] : ApplyRow(r, row)
    \/ EndPage(r)
    \/ Announce(r)
    \/ RecordSync(r)

WorkerStep == \E m \in queue : Deliver(m) \/ Finish(m)

SyncNext ==
    \/ \E p \in Products, tick \in {0, 1}, delivered \in BOOLEAN : Save(p, tick, delivered)
    \/ \E p \in Products, tick \in {0, 1}, delivered \in BOOLEAN : Hide(p, tick, delivered)
    \/ \E p \in Products, tick \in {0, 1}, delivered \in BOOLEAN : Remove(p, tick, delivered)
    \/ \E p \in Products : BulkImport(p)
    \/ \E p \in Products : ForgetTombstone(p)
    \/ WorkerStep
    \/ \E m \in queue : Redeliver(m)
    \/ \E m \in queue : Fail(m)
    \/ \E r \in Runs : PullStep(r)
    \/ \E r \in Runs : AbortPull(r)

SyncSpec == SyncInit /\ [][SyncNext]_syncVars

\* The workers execute what is queued, and the sweep starts a run every 15 minutes.
SyncFairness == WF_syncVars(WorkerStep) /\ \A r \in Runs : WF_syncVars(PullStep(r))
SyncFairSpec == SyncSpec /\ SyncFairness

-----------------------------------------------------------------------------
(* Properties.                                                             *)

UpToDate(p) == index[p].rev = store[p].rev

\* No write takes back what the index has of a product's last change: neither a task
\* that is late or comes again nor the page of a slow run. Excepted are products ever
\* taken off the shop, whose deletion has no version, two changes in one second, and
\* products pushed with another date than a pull gives them.
WritesNeverSetBack ==
    [][\A p \in Products \ (removed \cup tied \cup skewed)' :
          UpToDate(p) /\ UNCHANGED store[p] => UpToDate(p)']_syncVars

\* Products whose last change the pull may have missed.
Missable == removed \cup tied \cup overtaken \cup skewed

\* The watermark never passes a change the index has not seen: what the runs skip
\* from now on is in the index, whatever tasks and runs interleave with it and fail.
\* The exceptions are a product that was ever taken off the shop, a change that
\* shares its second with a read of the store or another change of the product, a
\* product listed while the catalogue changed between two pages of a run, a change not
\* listed yet when a product of the page being read changed after it, and a product
\* pushed with another date than a pull gives it.
WatermarkCovers ==
    \A p \in Products \ Missable :
        store[p].listed /\ store[p].at <= watermark => UpToDate(p)

\* With the same exceptions, every listed product ends up in the index as it is in
\* the store, even if every webhook is lost or late.
ListedIsIndexed ==
    \A p \in Products : <>[](store[p].listed /\ p \notin Missable => UpToDate(p))

\* Whatever changed in the index, the data version is bumped after it, sooner or
\* later, unless the bump itself or the task was lost.
CachesCatchUp ==
    []<>(stale \subseteq muted \cup dropped \cup Missable
                         \cup {row.product : row \in parked})

\* "The index converges even if every webhook is lost", for listed products with no
\* two changes or reads in one second.
PullConverges ==
    \A p \in Products :
        <>[](store[p].listed /\ p \notin removed \cup tied => UpToDate(p))

=============================================================================
