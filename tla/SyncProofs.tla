----------------------------- MODULE SyncProofs ------------------------------
(***************************************************************************)
(* What module CatalogSync keeps for every catalogue, page size and number *)
(* of reconciliation runs: a watermark passes no change that the index has *)
(* not seen. Neither the tasks nor the pages can be trusted to come in     *)
(* order, so the invariant follows every pair of a revision and a date     *)
(* that is on its way to the index, and every page of every run.           *)
(***************************************************************************)
EXTENDS CatalogSync, FiniteSetTheorems, TLAPS

StoreInv ==
    /\ clock > 0
    /\ \A p \in Products :
          /\ store[p].rev <= edits /\ store[p].at <= clock
          /\ store[p].listed => store[p].rev > 0 /\ store[p].at > 0

\* x, a task or a row, is of a state its product was in, unless pushes of the product
\* are dated by another clock than its pulls.
Genuine(x) ==
    LET p == x.product
    IN  p \notin skewed =>
          /\ x.rev > 0 /\ x.rev <= edits /\ x.at <= store[p].at
          /\ x.rev = store[p].rev => x.at = store[p].at
          /\ x.at = store[p].at /\ p \notin tied => x.rev = store[p].rev

TasksInv == \A m \in queue : Genuine(m) /\ (m.kind = "delete" => m.product \in removed)
RowsInv == \A r \in Runs : \A row \in rows[r] : Genuine(row) /\ row.at <= lastRead

\* What is to be read was in the shop when it was listed.
ListInv == \A r \in Runs : \A p \in ids[r] : store[p].rev > 0

\* Unless its product was ever taken off the shop, or pushed with another date than a
\* pull's, the version of an entry tells whether it is up to date.
IndexInv ==
    \A p \in Products \ (removed \cup skewed) :
        /\ index[p].rev <= edits /\ index[p].version <= store[p].at
        /\ index[p].rev = 0 => index[p].version = 0
        /\ p \notin tied => (UpToDate(p) <=> index[p].version = store[p].at)

\* The dates the runs go by are of products they have read.
ReadInv ==
    /\ lastRead <= clock /\ watermark <= lastRead
    /\ \A r \in Runs : since[r] <= lastRead /\ high[r] <= lastRead

StepsInv ==
    \A r \in Runs :
        /\ more[r] => step[r] \in {"fetch", "apply"}
        /\ step[r] = "fetch" => more[r] \/ page[r] = 1
        /\ step[r] # "idle" => page[r] > 0

\* Listed products whose last change no run can have missed.
Sure(p) == p \in Products \ Missable /\ store[p].listed

Covered(r, p) == UpToDate(p) \/ Normalized(p) \in rows[r] \/ p \in ids[r]

\* p changed later than all that run r has repaired, holds or is about to read.
After(r, p) ==
    /\ store[p].at > high[r]
    /\ \A row \in rows[r] : store[p].at > row.at
    /\ \A q \in ids[r] : store[p].at > store[q].at

PagesRead(r) == IF step[r] = "apply" THEN page[r] ELSE page[r] - 1

\* The pages that r has read hold, unless the index does, what stands before their end
\* now; only a product that has moved to the end of the list since may be missing.
PagesHold(r) ==
    more[r] => \A p \in Products :
        Sure(p) /\ p \in Changed(r) /\ Rank(p, Changed(r)) <= PagesRead(r) * PageSize
          => Covered(r, p) \/ (After(r, p) /\ \A q \in Changed(r) : Earlier(q, p))

\* After the last page nothing is missing but later changes.
NothingMissed(r) ==
    ~more[r] /\ step[r] \in {"apply", "bump", "record"} =>
        \A p \in Products : Sure(p) => Covered(r, p) \/ After(r, p)

\* What r does not ask for is in the index.
SinceCovers(r) == \A p \in Products : Sure(p) /\ store[p].at <= since[r] => UpToDate(p)

RunInv(r) == PagesHold(r) /\ NothingMissed(r) /\ SinceCovers(r)

SyncInv ==
    /\ SyncTypeOK /\ StoreInv /\ TasksInv /\ RowsInv /\ ListInv /\ IndexInv /\ ReadInv
    /\ StepsInv
    /\ \A r \in Runs : RunInv(r)
    /\ WatermarkCovers

-----------------------------------------------------------------------------
(* Types.                                                                  *)

StoreTyped ==
    /\ store \in [Products -> [rev: Nat, at: Nat, listed: BOOLEAN]]
    /\ edits \in Nat /\ clock \in Nat
    /\ shop \in [looksAhead: BOOLEAN, offset: Int]
    /\ tied \subseteq Products /\ overtaken \subseteq Products
    /\ removed \subseteq Products /\ skewed \subseteq Products
TasksTyped == queue \subseteq Task /\ parked \subseteq ParkedRow /\ dropped \subseteq Products
IndexTyped ==
    /\ index \in [Products -> [rev: Nat, version: Int]]
    /\ stale \subseteq Products /\ muted \subseteq Products
PullTyped ==
    /\ watermark \in Nat /\ lastRead \in Nat
    /\ step \in [Runs -> RunStep] /\ since \in [Runs -> Nat] /\ page \in [Runs -> Nat]
    /\ ids \in [Runs -> SUBSET Products] /\ rows \in [Runs -> SUBSET Row] /\ more \in [Runs -> BOOLEAN] /\ high \in [Runs -> Nat]
    /\ \A r \in Runs : step[r] # "apply" => rows[r] = {} /\ ids[r] = {}
    /\ \A r \in Runs : step[r] = "idle" => since[r] = 0 /\ page[r] = 0 /\ high[r] = 0 /\ ~more[r]

FaultsTyped == faults \in Nat

LEMMA Typed ==
    SyncTypeOK <=> StoreTyped /\ TasksTyped /\ IndexTyped /\ PullTyped /\ FaultsTyped
  BY DEF SyncTypeOK, StoreTyped, TasksTyped, IndexTyped, PullTyped, FaultsTyped

LEMMA TypedNext ==
    SyncTypeOK' <=> StoreTyped' /\ TasksTyped' /\ IndexTyped' /\ PullTyped' /\ FaultsTyped'
  BY Typed, PTL

LEMMA ProductsTyped ==
    /\ IsFiniteSet(Products) /\ PageSize \in Nat
    /\ \A p \in Products : p \in Nat
  BY CatalogSyncAssumption

\* The fields of a product's state, of its entry and of pairs.
LEMMA Fields ==
    ASSUME SyncTypeOK
    PROVE  /\ \A p \in Products :
                 /\ store[p].rev \in Nat /\ store[p].at \in Nat /\ store[p].listed \in BOOLEAN
                 /\ index[p].rev \in Nat /\ index[p].version \in Int
           /\ \A m \in queue : m \in Task /\ m.product \in Products /\ m.rev \in Nat /\ m.at \in Int
           /\ \A r \in Runs : \A row \in rows[r] :
                 row \in Row /\ row.product \in Products /\ row.rev \in Nat /\ row.at \in Nat
           /\ \A r \in Runs :
                 since[r] \in Nat /\ page[r] \in Nat /\ high[r] \in Nat /\ ids[r] \subseteq Products
           /\ clock \in Nat /\ edits \in Nat /\ lastRead \in Nat /\ watermark \in Nat
  <1>1. StoreTyped /\ TasksTyped /\ IndexTyped /\ PullTyped
    BY Typed
  <1>2. \A r \in Runs : rows[r] \subseteq Row
    BY <1>1 DEF PullTyped
  <1> QED
    BY <1>1, <1>2 DEF StoreTyped, TasksTyped, IndexTyped, PullTyped, Task, Row

LEMMA FaultTyped ==
    ASSUME FaultsTyped, Fault
    PROVE  FaultsTyped'
  BY DEF Fault, FaultsTyped

LEMMA BumpTyped ==
    ASSUME IndexTyped, FaultsTyped, Bump, UNCHANGED index
    PROVE  IndexTyped' /\ FaultsTyped'
  BY FaultTyped DEF Bump, IndexTyped, FaultsTyped

-----------------------------------------------------------------------------
(* The index.                                                              *)

\* What the index holds of the last changes it keeps.
Kept == \A p \in Products : Sure(p) /\ UpToDate(p) => UpToDate(p)'

shopVars == <<store, clock, shop, tied, overtaken, removed, skewed>>

\* A pair that was true once: older ones are refused, the last one is written.
LEMMA UpsertKeeps ==
    ASSUME SyncTypeOK, IndexInv, NEW x, x.product \in Products, x.rev \in Nat, x.at \in Int,
           Genuine(x), UNCHANGED shopVars, edits' = edits,
           index' = Upserted(x.product, x.rev, x.at)
    PROVE  /\ index' \in [Products -> [rev: Nat, version: Int]] /\ IndexInv' /\ Kept
           /\ Sure(x.product) /\ x = Normalized(x.product) => UpToDate(x.product)'
  <1> DEFINE p == x.product
  <1>1. index \in [Products -> [rev: Nat, version: Int]]
    BY Typed DEF IndexTyped
  <1>2. UNCHANGED <<store, clock, shop, tied, overtaken, removed, skewed>>
    BY DEF shopVars
  <1>3. /\ \A q \in Products \ {p} : index'[q] = index[q]
        /\ x.at >= index[p].version => index'[p].rev = x.rev /\ index'[p].version = x.at
        /\ ~(x.at >= index[p].version) => index'[p] = index[p]
        /\ index' \in [Products -> [rev: Nat, version: Int]]
    BY <1>1 DEF Upserted
  <1>4. \A q \in Products \ {p} : UpToDate(q)' <=> UpToDate(q)
    BY <1>2, <1>3 DEF UpToDate
  <1>5. p \notin skewed =>
          /\ x.rev > 0 /\ x.rev <= edits /\ x.at <= store[p].at
          /\ x.rev = store[p].rev => x.at = store[p].at
          /\ x.at = store[p].at /\ p \notin tied => x.rev = store[p].rev
    BY DEF Genuine
  <1>6. /\ store[p].rev \in Nat /\ store[p].at \in Nat
        /\ index[p].rev \in Nat /\ index[p].version \in Int
    BY Fields
  <1>7. IndexInv'
    <2> SUFFICES ASSUME NEW q \in Products \ (removed \cup skewed)
                 PROVE  /\ index'[q].rev <= edits /\ index'[q].version <= store[q].at
                        /\ index'[q].rev = 0 => index'[q].version = 0
                        /\ q \notin tied => (UpToDate(q)' <=> index'[q].version = store[q].at)
      BY <1>2 DEF IndexInv
    <2>1. CASE q # p
      BY <1>3, <1>4, <2>1 DEF IndexInv
    <2>2. CASE q = p /\ x.at >= index[p].version
      BY <1>2, <1>3, <1>5, <1>6, <2>2 DEF UpToDate
    <2>3. CASE q = p /\ ~(x.at >= index[p].version)
      BY <1>2, <1>3, <2>3 DEF IndexInv, UpToDate
    <2> QED
      BY <2>1, <2>2, <2>3
  <1>8. Kept
    <2> SUFFICES ASSUME NEW q \in Products, Sure(q), UpToDate(q) PROVE UpToDate(q)'
      BY DEF Kept
    <2>1. q \notin removed /\ q \notin tied /\ q \notin skewed
      BY DEF Sure, Missable
    <2>2. index[q].version = store[q].at
      BY <2>1 DEF IndexInv
    <2>3. CASE q # p
      BY <1>4, <2>3
    <2>4. CASE q = p /\ x.at >= index[p].version
      BY <1>2, <1>3, <1>5, <1>6, <2>1, <2>2, <2>4 DEF UpToDate
    <2>5. CASE q = p /\ ~(x.at >= index[p].version)
      BY <1>2, <1>3, <2>5 DEF UpToDate
    <2> QED
      BY <2>3, <2>4, <2>5
  <1>9. ASSUME Sure(p), x = Normalized(p) PROVE UpToDate(p)'
    <2>1. p \notin removed /\ p \notin skewed /\ x.rev = store[p].rev /\ x.at = store[p].at
      BY <1>9 DEF Sure, Missable, Normalized
    <2>2. x.at >= index[p].version
      BY <1>6, <2>1 DEF IndexInv
    <2> QED
      BY <1>2, <1>3, <2>1, <2>2 DEF UpToDate
  <1> QED
    BY <1>3, <1>7, <1>8, <1>9

\* A deletion is of a product that was taken off the shop.
LEMMA TombstoneKeeps ==
    ASSUME SyncTypeOK, IndexInv, NEW p \in Products, p \in removed,
           UNCHANGED shopVars, edits' = edits, index' = Tombstoned(p)
    PROVE  index' \in [Products -> [rev: Nat, version: Int]] /\ IndexInv' /\ Kept
  <1>1. index \in [Products -> [rev: Nat, version: Int]]
    BY Typed DEF IndexTyped
  <1>2. UNCHANGED <<store, clock, shop, tied, overtaken, removed, skewed>>
    BY DEF shopVars
  <1>3. index[p].version \in Int
    BY Fields
  <1> DEFINE old == IF index[p].version = 0 THEN 0 ELSE index[p].version + 1
  <1>4. old \in Int /\ index' = [index EXCEPT ![p] = [rev |-> 0, version |-> old]]
    BY <1>3 DEF Tombstoned
  <1> HIDE DEF old
  <1>5. /\ \A q \in Products \ {p} : index'[q] = index[q]
        /\ index' \in [Products -> [rev: Nat, version: Int]]
    BY <1>1, <1>4
  <1>6. \A q \in Products \ {p} : UpToDate(q)' <=> UpToDate(q)
    BY <1>2, <1>5 DEF UpToDate
  <1>7. IndexInv'
    BY <1>2, <1>5, <1>6 DEF IndexInv
  <1>8. Kept
    BY <1>2, <1>6 DEF Kept, Sure, Missable
  <1> QED
    BY <1>5, <1>7, <1>8

LEMMA IndexLeft ==
    ASSUME SyncTypeOK, IndexInv, UNCHANGED shopVars, edits' \in Nat, edits' >= edits,
           \A p \in Products : index'[p] = index[p]
    PROVE  IndexInv' /\ Kept
  <1>1. UNCHANGED <<store, tied, removed, skewed>>
    BY DEF shopVars
  <1>2. \A p \in Products : UpToDate(p)' <=> UpToDate(p)
    BY <1>1 DEF UpToDate
  <1>3. \A p \in Products : index[p].rev \in Nat /\ edits \in Nat
    BY Fields
  <1>4. IndexInv'
    BY <1>1, <1>2, <1>3 DEF IndexInv
  <1> QED
    BY <1>2, <1>4 DEF Kept

-----------------------------------------------------------------------------
(* Steps beside the runs.                                                  *)

LEMMA GenuineStays ==
    ASSUME NEW x, x.rev \in Nat, Genuine(x), UNCHANGED shopVars,
           edits \in Nat, edits' \in Nat, edits' >= edits
    PROVE  Genuine(x)'
  BY DEF Genuine, shopVars

\* Run r stands still.
SameRun(r) ==
    /\ step'[r] = step[r] /\ since'[r] = since[r] /\ page'[r] = page[r]
    /\ ids'[r] = ids[r] /\ rows'[r] = rows[r] /\ more'[r] = more[r] /\ high'[r] = high[r]

LEMMA SameShop ==
    ASSUME UNCHANGED shopVars
    PROVE  \A p \in Products :
              /\ store'[p] = store[p] /\ Normalized(p)' = Normalized(p)
              /\ Sure(p)' <=> Sure(p)
              /\ \A q \in Products : Earlier(p, q)' <=> Earlier(p, q)
  BY DEF shopVars, Normalized, Sure, Missable, Earlier

LEMMA SameList ==
    ASSUME NEW r \in Runs, UNCHANGED shopVars, since'[r] = since[r]
    PROVE  /\ Changed(r)' = Changed(r)
           /\ \A p \in Products : Rank(p, Changed(r))' = Rank(p, Changed(r))
  BY DEF shopVars, Changed, Rank, Earlier

LEMMA CoveredStays ==
    ASSUME NEW r \in Runs, NEW p \in Products, Sure(p), Covered(r, p),
           UNCHANGED shopVars, Kept, rows'[r] = rows[r], ids'[r] = ids[r]
    PROVE  Covered(r, p)'
  BY SameShop DEF Covered, Kept

LEMMA AfterStays ==
    ASSUME NEW r \in Runs, NEW p \in Products, After(r, p), UNCHANGED shopVars,
           ids'[r] = ids[r], rows'[r] = rows[r], high'[r] = high[r]
    PROVE  After(r, p)'
  BY DEF After, shopVars

LEMMA RunKept ==
    ASSUME NEW r \in Runs, RunInv(r), Kept, UNCHANGED shopVars, SameRun(r)
    PROVE  RunInv(r)'
  <1>1. /\ Changed(r)' = Changed(r) /\ PagesRead(r)' = PagesRead(r)
        /\ \A p \in Products : Rank(p, Changed(r))' = Rank(p, Changed(r))
    BY SameList DEF SameRun, PagesRead
  <1>2. \A p \in Products : (Sure(p)' <=> Sure(p)) /\ store'[p] = store[p]
    BY SameShop
  <1>3. \A p \in Products : Sure(p) /\ Covered(r, p) => Covered(r, p)'
    BY CoveredStays DEF SameRun
  <1>4. \A p \in Products : After(r, p) => After(r, p)'
    BY AfterStays DEF SameRun
  <1>5. Changed(r) \subseteq Products
    BY DEF Changed
  <1>6. \A p, q \in Products : Earlier(q, p)' <=> Earlier(q, p)
    BY SameShop
  <1>7. PagesHold(r)'
    BY <1>1, <1>2, <1>3, <1>4, <1>5, <1>6 DEF RunInv, PagesHold, SameRun
  <1>8. NothingMissed(r)'
    BY <1>2, <1>3, <1>4 DEF RunInv, NothingMissed, SameRun
  <1>9. SinceCovers(r)'
    BY <1>2 DEF RunInv, SinceCovers, SameRun, Kept
  <1> QED
    BY <1>7, <1>8, <1>9 DEF RunInv

LEMMA WatermarkKept ==
    ASSUME WatermarkCovers, Kept, UNCHANGED shopVars, watermark' = watermark
    PROVE  WatermarkCovers'
  <1>1. \A p \in Products : (Sure(p)' <=> Sure(p)) /\ store'[p] = store[p]
    BY SameShop
  <1>2. \A p \in Products : Sure(p) /\ store[p].at <= watermark => UpToDate(p)
    BY DEF WatermarkCovers, Sure
  <1>3. \A p \in Products : Sure(p)' /\ store'[p].at <= watermark' => UpToDate(p)'
    BY <1>1, <1>2 DEF Kept
  <1> QED
    BY <1>3 DEF WatermarkCovers, Sure

\* What tasks do to the queue and the index.
LEMMA BesideRuns ==
    ASSUME SyncInv, UNCHANGED <<shopVars, pullVars>>, edits' \in Nat, edits' >= edits,
           TasksTyped', IndexTyped', FaultsTyped', TasksInv', IndexInv', Kept
    PROVE  SyncInv'
  <1>1. /\ UNCHANGED <<store, clock, shop, tied, overtaken, removed, skewed>>
        /\ UNCHANGED <<watermark, step, since, page, ids, rows, more, high, lastRead>>
    BY DEF shopVars, pullVars
  <1>2. SyncTypeOK /\ StoreTyped /\ PullTyped
    BY Typed DEF SyncInv
  <1>3. SyncTypeOK'
    <2>1. StoreTyped' /\ PullTyped'
      BY <1>1, <1>2 DEF StoreTyped, PullTyped
    <2> QED
      BY <2>1, TypedNext
  <1>4. StoreInv' /\ ListInv' /\ ReadInv' /\ StepsInv'
    <2>1. edits \in Nat /\ \A p \in Products : store[p].rev \in Nat
      BY <1>2, Fields
    <2>2. StoreInv'
      BY <1>1, <2>1 DEF SyncInv, StoreInv
    <2> QED
      BY <1>1, <2>2 DEF SyncInv, ListInv, ReadInv, StepsInv
  <1>5. RowsInv'
    <2>1. /\ edits \in Nat
          /\ \A r \in Runs : \A row \in rows[r] : row.rev \in Nat /\ Genuine(row)
      BY <1>2, Fields DEF SyncInv, RowsInv
    <2>2. \A r \in Runs : \A row \in rows[r] : Genuine(row)'
      BY <2>1, GenuineStays
    <2> QED
      BY <1>1, <2>2 DEF SyncInv, RowsInv
  <1>6. \A r \in Runs : RunInv(r)'
    BY <1>1, RunKept DEF SyncInv, SameRun
  <1>7. WatermarkCovers'
    BY <1>1, WatermarkKept DEF SyncInv
  <1> QED
    BY <1>3, <1>4, <1>5, <1>6, <1>7 DEF SyncInv

\* A task takes the place of another of the same change.
LEMMA TaskReplaced ==
    ASSUME SyncInv, NEW m \in queue, NEW n \in Task, UNCHANGED <<shopVars, edits>>,
           n.product = m.product /\ n.rev = m.rev /\ n.at = m.at /\ n.kind = m.kind,
           queue' \subseteq queue \cup {n}
    PROVE  queue' \subseteq Task /\ TasksInv'
  <1>1. /\ edits \in Nat /\ queue \subseteq Task
        /\ \A x \in queue : x.rev \in Nat /\ Genuine(x) /\ (x.kind = "delete" => x.product \in removed)
    BY Fields, Typed DEF SyncInv, TasksInv, TasksTyped
  <1>2. \A x \in queue : Genuine(x)'
    BY <1>1, GenuineStays
  <1>3. Genuine(n)'
    BY <1>2 DEF Genuine
  <1>4. removed' = removed
    BY DEF shopVars
  <1> QED
    BY <1>1, <1>2, <1>3, <1>4 DEF TasksInv

LEMMA TriedAgain ==
    ASSUME NEW m \in Task, NEW k \in Nat
    PROVE  LET n == [m EXCEPT !.tries = k]
           IN  /\ n \in Task
               /\ n.product = m.product /\ n.rev = m.rev /\ n.at = m.at /\ n.kind = m.kind
  BY DEF Task

LEMMA AppliedOrNot ==
    ASSUME NEW m \in Task, NEW b \in BOOLEAN
    PROVE  LET n == [m EXCEPT !.applied = b]
           IN  /\ n \in Task
               /\ n.product = m.product /\ n.rev = m.rev /\ n.at = m.at /\ n.kind = m.kind
  BY DEF Task

\* What a task's write, done or not, does to the index.
LEMMA EffectKeeps ==
    ASSUME SyncInv, NEW m \in queue, UNCHANGED <<shopVars, edits, muted>>,
           Write(m.product, Effect(m)) \/ Write(m.product, index)
    PROVE  IndexTyped' /\ IndexInv' /\ Kept
  <1>1. SyncTypeOK /\ IndexTyped /\ IndexInv
    BY Typed DEF SyncInv
  <1>2. /\ m.product \in Products /\ m.rev \in Nat /\ m.at \in Int
        /\ Genuine(m) /\ (m.kind = "delete" => m.product \in removed) /\ edits \in Nat
    BY <1>1, Fields DEF SyncInv, TasksInv
  <1>3. stale' \subseteq Products /\ muted' \subseteq Products
    BY <1>1, <1>2 DEF Write, IndexTyped
  <1>4. CASE index' = index
    BY <1>1, <1>2, <1>3, <1>4, IndexLeft DEF IndexTyped
  <1>5. CASE index' = Effect(m) /\ m.kind = "delete"
    BY <1>1, <1>2, <1>3, <1>5, TombstoneKeeps DEF Effect, IndexTyped
  <1>6. CASE index' = Effect(m) /\ m.kind # "delete"
    BY <1>1, <1>2, <1>3, <1>6, UpsertKeeps DEF Effect, IndexTyped
  <1> QED
    BY <1>4, <1>5, <1>6 DEF Write

LEMMA DeliverKeeps ==
    ASSUME SyncInv, NEW m \in queue, Deliver(m)
    PROVE  SyncInv'
  <1>1. /\ UNCHANGED <<shopVars, edits, muted, pullVars, parked, dropped, faults>>
        /\ queue' \subseteq queue \cup {[m EXCEPT !.applied = TRUE]}
        /\ Write(m.product, Effect(m))
    BY DEF Deliver, storeVars, shopVars
  <1>2. m \in Task /\ TasksTyped /\ FaultsTyped /\ edits \in Nat
    BY Typed, Fields DEF SyncInv
  <1>3. queue' \subseteq Task /\ TasksInv'
    BY <1>1, <1>2, AppliedOrNot, TaskReplaced
  <1>4. TasksTyped' /\ FaultsTyped'
    BY <1>1, <1>2, <1>3 DEF TasksTyped, FaultsTyped
  <1>5. IndexTyped' /\ IndexInv' /\ Kept
    BY <1>1, EffectKeeps
  <1> QED
    BY <1>1, <1>2, <1>3, <1>4, <1>5, BesideRuns

LEMMA FailKeeps ==
    ASSUME SyncInv, NEW m \in queue, Fail(m)
    PROVE  SyncInv'
  <1>1. /\ UNCHANGED <<shopVars, edits, muted, pullVars>> /\ Fault
        /\ queue' \subseteq queue \cup {[m EXCEPT !.tries = m.tries + 1]}
        /\ dropped' \subseteq dropped \cup {m.product}
        /\ parked' \subseteq parked \cup {[product |-> m.product, rev |-> m.rev, at |-> m.at]}
        /\ Write(m.product, Effect(m)) \/ Write(m.product, index)
    BY DEF Fail, storeVars, shopVars
  <1>2. /\ m \in Task /\ m.tries + 1 \in Nat /\ m.product \in Products
        /\ TasksTyped /\ FaultsTyped /\ edits \in Nat
        /\ [product |-> m.product, rev |-> m.rev, at |-> m.at] \in ParkedRow
    BY Typed, Fields DEF SyncInv, Task, ParkedRow
  <1>3. queue' \subseteq Task /\ TasksInv'
    <2> DEFINE n == [m EXCEPT !.tries = m.tries + 1]
    <2>1. /\ n \in Task
          /\ n.product = m.product /\ n.rev = m.rev /\ n.at = m.at /\ n.kind = m.kind
      BY <1>2, TriedAgain
    <2>2. queue' \subseteq queue \cup {n}
      BY <1>1
    <2> HIDE DEF n
    <2> QED
      BY <1>1, <2>1, <2>2, TaskReplaced
  <1>4. TasksTyped' /\ FaultsTyped'
    BY <1>1, <1>2, <1>3, FaultTyped DEF TasksTyped
  <1>5. IndexTyped' /\ IndexInv' /\ Kept
    BY <1>1, EffectKeeps
  <1> QED
    BY <1>1, <1>2, <1>3, <1>4, <1>5, BesideRuns

LEMMA RedeliverKeeps ==
    ASSUME SyncInv, NEW m \in queue, Redeliver(m)
    PROVE  SyncInv'
  <1>1. /\ UNCHANGED <<shopVars, edits, muted, pullVars, parked, dropped, index>> /\ Fault
        /\ queue' \subseteq queue \cup {[m EXCEPT !.applied = FALSE]}
        /\ stale' \subseteq stale
    BY DEF Redeliver, storeVars, shopVars
  <1>2. /\ m \in Task /\ TasksTyped /\ FaultsTyped /\ IndexTyped /\ edits \in Nat
        /\ SyncTypeOK /\ IndexInv
    BY Typed, Fields DEF SyncInv
  <1>3. queue' \subseteq Task /\ TasksInv'
    BY <1>1, <1>2, AppliedOrNot, TaskReplaced
  <1>4. TasksTyped' /\ FaultsTyped' /\ IndexTyped'
    BY <1>1, <1>2, <1>3, FaultTyped DEF TasksTyped, IndexTyped
  <1>5. IndexInv' /\ Kept
    BY <1>1, <1>2, IndexLeft
  <1> QED
    BY <1>1, <1>2, <1>3, <1>4, <1>5, BesideRuns

LEMMA FinishKeeps ==
    ASSUME SyncInv, NEW m \in queue, Finish(m)
    PROVE  SyncInv'
  <1>1. /\ UNCHANGED <<shopVars, edits, pullVars, parked, dropped, index>> /\ Bump
        /\ queue' \subseteq queue \cup {m}
    BY DEF Finish, storeVars, shopVars
  <1>2. /\ m \in Task /\ TasksTyped /\ FaultsTyped /\ IndexTyped /\ edits \in Nat
        /\ SyncTypeOK /\ IndexInv
    BY Typed, Fields DEF SyncInv
  <1>3. queue' \subseteq Task /\ TasksInv'
    BY <1>1, <1>2, TaskReplaced
  <1>4. TasksTyped' /\ FaultsTyped' /\ IndexTyped'
    BY <1>1, <1>2, <1>3, BumpTyped DEF TasksTyped
  <1>5. IndexInv' /\ Kept
    BY <1>1, <1>2, IndexLeft
  <1> QED
    BY <1>1, <1>2, <1>3, <1>4, <1>5, BesideRuns

\* Only an id that was deleted is forgotten.
LEMMA ForgetTombstoneKeeps ==
    ASSUME SyncInv, NEW p \in Products, ForgetTombstone(p)
    PROVE  SyncInv'
  <1>1. /\ UNCHANGED <<shopVars, edits, pullVars, taskVars, stale, muted, faults>>
        /\ index[p].rev = 0 /\ index[p].version # 0
        /\ index' = [index EXCEPT ![p].version = 0]
    BY DEF ForgetTombstone, storeVars, shopVars
  <1>2. /\ TasksTyped /\ FaultsTyped /\ IndexTyped /\ edits \in Nat
        /\ SyncTypeOK /\ IndexInv /\ TasksInv /\ \A m \in queue : m.rev \in Nat
    BY Typed, Fields DEF SyncInv
  <1>3. /\ index' \in [Products -> [rev: Nat, version: Int]]
        /\ index'[p].rev = index[p].rev
        /\ \A q \in Products \ {p} : index'[q] = index[q]
    BY <1>1, <1>2 DEF IndexTyped
  <1>4. p \in removed \cup skewed
    BY <1>1, <1>2, Fields DEF IndexInv
  <1>5. UNCHANGED <<store, tied, removed, skewed, queue>>
    BY <1>1 DEF shopVars, taskVars
  <1>6. \A q \in Products : UpToDate(q)' <=> UpToDate(q)
    BY <1>3, <1>5 DEF UpToDate
  <1>7. IndexInv' /\ Kept
    BY <1>1, <1>2, <1>3, <1>4, <1>5, <1>6 DEF IndexInv, Kept, Sure, Missable
  <1>8. TasksTyped' /\ FaultsTyped' /\ IndexTyped'
    BY <1>1, <1>2, <1>3 DEF TasksTyped, FaultsTyped, IndexTyped, taskVars
  <1>9. TasksInv'
    BY <1>1, <1>2, <1>5, GenuineStays DEF TasksInv
  <1> QED
    BY <1>1, <1>2, <1>7, <1>8, <1>9, BesideRuns

\* Products may only become unsure: what is claimed of the others stays.
LEMMA SkewGrows ==
    ASSUME SyncInv, UNCHANGED <<store, clock, shop, tied, overtaken, removed, pullVars>>,
           UNCHANGED <<index, stale, muted, faults>>, edits' \in Nat, edits' >= edits,
           skewed \subseteq skewed', skewed' \subseteq Products, TasksTyped', TasksInv'
    PROVE  SyncInv'
  <1>1. UNCHANGED <<watermark, step, since, page, ids, rows, more, high, lastRead>>
    BY DEF pullVars
  <1>2. /\ SyncTypeOK /\ StoreTyped /\ PullTyped /\ IndexTyped /\ FaultsTyped /\ edits \in Nat
        /\ StoreInv /\ ListInv /\ RowsInv /\ IndexInv /\ ReadInv /\ StepsInv
        /\ \A p \in Products : store[p].rev \in Nat /\ index[p].rev \in Nat
        /\ \A q \in Runs : \A row \in rows[q] : row.rev \in Nat
    BY Typed, Fields DEF SyncInv
  <1>3. SyncTypeOK'
    BY <1>1, <1>2, TypedNext DEF StoreTyped, PullTyped, IndexTyped, FaultsTyped
  <1>4. StoreInv' /\ ListInv' /\ ReadInv' /\ StepsInv'
    BY <1>1, <1>2 DEF StoreInv, ListInv, ReadInv, StepsInv
  <1>5. RowsInv' /\ IndexInv'
    BY <1>1, <1>2 DEF RowsInv, IndexInv, Genuine, UpToDate
  <1>6. \A p \in Products :
           /\ Sure(p)' => Sure(p)
           /\ \A q \in Runs : /\ Covered(q, p)' <=> Covered(q, p)
                              /\ After(q, p)' <=> After(q, p)
           /\ UpToDate(p)' <=> UpToDate(p)
           /\ \A q \in Products : Earlier(q, p)' <=> Earlier(q, p)
    BY <1>1 DEF Sure, Missable, Covered, After, UpToDate, Normalized, Earlier
  <1>7. ASSUME NEW r \in Runs PROVE RunInv(r)'
    <2>1. RunInv(r) /\ Changed(r)' = Changed(r) /\ PagesRead(r)' = PagesRead(r)
          /\ \A p \in Products : Rank(p, Changed(r))' = Rank(p, Changed(r))
      BY <1>1 DEF SyncInv, Changed, PagesRead, Rank, Earlier
    <2>2. Changed(r) \subseteq Products
      BY DEF Changed
    <2>3. PagesHold(r)'
      BY <1>1, <1>6, <2>1, <2>2 DEF RunInv, PagesHold
    <2>4. NothingMissed(r)' /\ SinceCovers(r)'
      BY <1>1, <1>6, <2>1 DEF RunInv, NothingMissed, SinceCovers
    <2> QED
      BY <2>3, <2>4 DEF RunInv
  <1>8. WatermarkCovers'
    BY <1>1, <1>6 DEF SyncInv, WatermarkCovers, Sure
  <1> QED
    BY <1>3, <1>4, <1>5, <1>7, <1>8 DEF SyncInv

\* A push of p that is dated as a pull would date it, or p is skewed.
LEMMA PushMeans ==
    ASSUME SyncTypeOK, NEW p \in Products, NEW kind \in {"upsert", "delete", "bulk"},
           NEW rev \in Nat, NEW at \in Nat, skewed' = Pushed(p)
    PROVE  /\ NewTask(kind, p, rev, at) \in Task
           /\ NewTask(kind, p, rev, at).kind = kind
           /\ NewTask(kind, p, rev, at).product = p /\ NewTask(kind, p, rev, at).rev = rev
           /\ p \notin skewed' => NewTask(kind, p, rev, at).at = at
           /\ skewed \subseteq skewed' /\ skewed' \subseteq Products
  <1>1. shop.offset \in Int /\ skewed \subseteq Products
    BY DEF SyncTypeOK
  <1> QED
    BY <1>1 DEF NewTask, Task, Pushed

\* The product as it is now is of a state it is in.
LEMMA BulkImportKeeps ==
    ASSUME SyncInv, NEW p \in Products, BulkImport(p)
    PROVE  SyncInv'
  <1>1. /\ UNCHANGED <<store, clock, shop, tied, overtaken, removed, pullVars>>
        /\ UNCHANGED <<parked, dropped, index, stale, muted, faults>>
        /\ store[p].listed /\ edits' = edits + 1
        /\ queue' = queue \cup {NewTask("bulk", p, store[p].rev, store[p].at)}
        /\ skewed' = Pushed(p)
    BY DEF BulkImport, Edit, indexVars
  <1>2. /\ TasksTyped /\ edits \in Nat /\ SyncTypeOK /\ TasksInv /\ StoreInv
        /\ \A x \in queue : x.rev \in Nat
        /\ store[p].rev \in Nat /\ store[p].at \in Nat
    BY Typed, Fields DEF SyncInv
  <1>3. PICK m \in Task :
          /\ queue' = queue \cup {m} /\ m.kind = "bulk" /\ m.product = p
          /\ m.rev = store[p].rev /\ (p \notin skewed' => m.at = store[p].at)
    <2> DEFINE n == NewTask("bulk", p, store[p].rev, store[p].at)
    <2>1. /\ n \in Task /\ n.kind = "bulk" /\ n.product = p /\ n.rev = store[p].rev
          /\ p \notin skewed' => n.at = store[p].at
      BY <1>1, <1>2, PushMeans
    <2> QED
      BY <1>1, <2>1
  <1>4. skewed \subseteq skewed' /\ skewed' \subseteq Products
    BY <1>1, <1>2, PushMeans
  <1>5. Genuine(m)'
    <2>1. store'[p] = store[p] /\ edits' = edits + 1
      BY <1>1
    <2>2. store[p].rev > 0 /\ store[p].rev <= edits
      BY <1>1, <1>2 DEF StoreInv
    <2> QED
      BY <1>2, <1>3, <2>1, <2>2 DEF Genuine
  <1>6. TasksInv'
    <2>1. \A x \in queue : Genuine(x)' /\ (x.kind = "delete" => x.product \in removed')
      BY <1>1, <1>2, <1>4 DEF TasksInv, Genuine
    <2> QED
      BY <1>3, <1>5, <2>1 DEF TasksInv
  <1>7. TasksTyped'
    BY <1>1, <1>2, <1>3 DEF TasksTyped
  <1> QED
    BY <1>1, <1>2, <1>4, <1>6, <1>7, SkewGrows

-----------------------------------------------------------------------------
(* The merchant changes a product.                                         *)

\* What a change of c does to the shop: c is dated now, which is later than anything
\* that was read unless it is tied, and runs between two pages may miss what it moved.
Changes(c, tick) ==
    /\ edits' = edits + 1 /\ clock' = clock + tick /\ tick \in {0, 1}
    /\ store'[c].rev = edits + 1 /\ store'[c].at = clock'
    /\ \A p \in Products \ {c} : store'[p] = store[p]
    /\ c \notin tied' => clock' # lastRead /\ clock' # store[c].at
    /\ \A p \in Products \ {c} : p \in tied' <=> p \in tied
    /\ removed \subseteq removed' /\ (~store'[c].listed => c \in removed')
    /\ skewed \subseteq skewed'
    /\ \A r \in Runs :
          /\ more[r] \/ c \in ids[r] => Changed(r) \ ({c} \cup ids[r]) \subseteq overtaken'
          /\ tick = 0 /\ c \notin ids[r] =>
                (~more[r] /\ \A q \in ids[r] : store[q].at # clock) \/ c \in overtaken'
    /\ overtaken \ {c} \subseteq overtaken'

LEMMA ChangeMeans ==
    ASSUME SyncTypeOK, NEW c \in Products, NEW listed \in BOOLEAN, NEW kind,
           NEW tick \in {0, 1}, NEW delivered, Change(c, listed, kind, tick, delivered)
    PROVE  StoreTyped' /\ Changes(c, tick) /\ store'[c].listed = listed
  <1>1. StoreTyped /\ edits + 1 \in Nat /\ clock + tick \in Nat
    BY Typed DEF StoreTyped
  <1>2. /\ edits' = edits + 1 /\ clock' = clock + tick
        /\ store' = [store EXCEPT ![c] = [rev |-> edits', at |-> clock', listed |-> listed]]
        /\ tied' = IF clock' \in {lastRead, store[c].at} THEN tied \cup {c} ELSE tied \ {c}
        /\ overtaken' = (overtaken \ {c}) \cup UNION {Overtaken(c, tick, r) : r \in Runs}
        /\ removed' = IF listed THEN removed ELSE removed \cup {c}
        /\ skewed' \in {skewed, Pushed(c)} /\ shop' = shop
    BY DEF Change, Edit
  <1>3. /\ store'[c] = [rev |-> edits + 1, at |-> clock', listed |-> listed]
        /\ \A p \in Products \ {c} : store'[p] = store[p]
        /\ store' \in [Products -> [rev: Nat, at: Nat, listed: BOOLEAN]]
    BY <1>1, <1>2 DEF StoreTyped
  <1>4. \A r \in Runs : Overtaken(c, tick, r) \subseteq Products
    BY DEF Overtaken, Moved, Changed
  <1>5. ASSUME NEW r \in Runs
        PROVE  /\ more[r] \/ c \in ids[r] => Changed(r) \ ({c} \cup ids[r]) \subseteq overtaken'
               /\ tick = 0 /\ c \notin ids[r] =>
                     (~more[r] /\ \A q \in ids[r] : store[q].at # clock) \/ c \in overtaken'
    <2>1. Overtaken(c, tick, r) \subseteq overtaken'
      BY <1>2
    <2> QED
      BY <2>1 DEF Overtaken, Moved
  <1>6. skewed \subseteq skewed' /\ skewed' \subseteq Products
    BY <1>1, <1>2 DEF Pushed, StoreTyped
  <1>7. StoreTyped'
    <2>1. tied' \subseteq Products /\ overtaken' \subseteq Products /\ removed' \subseteq Products
      BY <1>1, <1>2, <1>4 DEF StoreTyped
    <2> QED
      BY <1>1, <1>2, <1>3, <1>6, <2>1 DEF StoreTyped
  <1> QED
    BY <1>2, <1>3, <1>5, <1>6, <1>7 DEF Changes

\* Products that others' changes leave sure are as they were.
LEMMA OthersStay ==
    ASSUME NEW c \in Products, NEW tick, Changes(c, tick), UNCHANGED index
    PROVE  \A p \in Products \ {c} :
              /\ Sure(p)' => Sure(p)
              /\ store'[p] = store[p] /\ Normalized(p)' = Normalized(p)
              /\ UpToDate(p)' <=> UpToDate(p)
  BY DEF Changes, Sure, Missable, Normalized, UpToDate

\* What is still sure of c is that its change is later than any read.
LEMMA SureIsLater ==
    ASSUME SyncTypeOK, ReadInv, NEW c \in Products, NEW tick, Changes(c, tick), Sure(c)'
    PROVE  store'[c].at > lastRead /\ (\A r \in Runs : more[r] => tick = 1 \/ c \in ids[r])
  <1>1. clock \in Nat /\ lastRead \in Nat
    BY Fields
  <1>2. clock' >= clock /\ clock' # lastRead /\ store'[c].at = clock' /\ lastRead <= clock
    BY <1>1 DEF Changes, Sure, Missable, ReadInv
  <1>3. \A r \in Runs : more[r] => tick = 1 \/ c \in ids[r]
    BY DEF Changes, Sure, Missable
  <1> QED
    BY <1>1, <1>2, <1>3 DEF Changes

LEMMA RunSurvivesChange ==
    ASSUME SyncInv, NEW c \in Products, NEW tick, Changes(c, tick), UNCHANGED <<index, pullVars>>,
           StoreTyped', NEW r \in Runs
    PROVE  RunInv(r)'
  <1>1. UNCHANGED <<index, watermark, step, since, page, ids, rows, more, high, lastRead>>
    BY DEF pullVars
  <1>2. SyncTypeOK /\ ReadInv /\ RowsInv /\ RunInv(r) /\ StoreInv
    BY DEF SyncInv
  <1>3. /\ since[r] \in Nat /\ high[r] \in Nat /\ lastRead \in Nat /\ clock \in Nat
        /\ since[r] <= lastRead /\ high[r] <= lastRead /\ ids[r] \subseteq Products
        /\ \A row \in rows[r] : row.at \in Nat /\ row.at <= lastRead
        /\ \A p \in Products : store[p].at \in Nat /\ store[p].at <= clock
    BY <1>2, Fields DEF ReadInv, RowsInv, StoreInv
  <1>4. store'[c].at \in Nat
    BY DEF StoreTyped
  <1>5. ASSUME Sure(c)'
        PROVE  /\ store'[c].at > lastRead /\ (more[r] => tick = 1 \/ c \in ids[r])
               /\ Covered(r, c)' \/ (c \notin ids[r] /\ After(r, c)')
    <2>1. store'[c].at > lastRead /\ (more[r] => tick = 1 \/ c \in ids[r])
      BY <1>2, <1>5, SureIsLater
    <2>2. CASE c \in ids[r]
      BY <1>1, <2>1, <2>2 DEF Covered
    <2>3. CASE c \notin ids[r]
      <3>1. ASSUME NEW q \in ids[r] PROVE store'[c].at > store'[q].at
        <4>1. q \in Products /\ q # c /\ store'[q] = store[q] /\ store[q].at <= clock
          BY <1>3, <2>3, <3>1 DEF Changes
        <4>2. tick = 0 => store[q].at # clock
          BY <1>5, <2>3 DEF Changes, Sure, Missable
        <4>3. store'[c].at = clock + tick /\ tick \in {0, 1} /\ store[q].at \in Nat
          BY <1>3, <4>1 DEF Changes
        <4> QED
          BY <1>3, <4>1, <4>2, <4>3
      <3>2. store'[c].at > high[r] /\ \A row \in rows[r] : store'[c].at > row.at
        BY <1>3, <1>4, <2>1
      <3> QED
        BY <1>1, <2>1, <2>3, <3>1, <3>2 DEF After
    <2> QED
      BY <2>1, <2>2, <2>3
  <1>6. ASSUME NEW p \in Products \ {c}
        PROVE  /\ Covered(r, p) => Covered(r, p)'
               /\ After(r, p) /\ Sure(p)' => Covered(r, p)' \/ After(r, p)'
               /\ Sure(p)' /\ more[r] /\ p \in Changed(r)' => Covered(r, p)'
    <2>1. Covered(r, p) => Covered(r, p)'
      BY <1>1, OthersStay DEF Covered
    <2>2. ASSUME Sure(p)', more[r] \/ c \in ids[r], p \in Changed(r)' PROVE Covered(r, p)'
      <3>1. p \in Changed(r)
        BY <1>1, <2>2, OthersStay DEF Changed
      <3>2. p \in ids[r]
        BY <2>2, <3>1 DEF Changes, Sure, Missable
      <3> QED
        BY <1>1, <3>2 DEF Covered
    <2>3. ASSUME After(r, p), Sure(p)' PROVE Covered(r, p)' \/ After(r, p)'
      <3>1. CASE c \notin ids[r]
        <4>1. store'[p] = store[p] /\ \A q \in ids[r] : store'[q] = store[q]
          BY <1>3, <3>1 DEF Changes
        <4> QED
          BY <1>1, <2>3, <4>1 DEF After
      <3>2. CASE c \in ids[r] /\ p \in Changed(r)'
        BY <2>2, <2>3, <3>2
      <3>3. CASE p \notin Changed(r)'
        <4>1. Sure(p) /\ store'[p] = store[p] /\ store[p].listed
          BY <2>3, OthersStay DEF Sure
        <4>2. store[p].at <= since[r]
          BY <1>1, <1>3, <3>3, <4>1 DEF Changed
        <4>3. UpToDate(p)
          BY <1>2, <4>1, <4>2 DEF RunInv, SinceCovers
        <4> QED
          BY <1>1, <2>1, <4>3 DEF Covered
      <3> QED
        BY <3>1, <3>2, <3>3
    <2> QED
      BY <2>1, <2>2, <2>3
  <1>7. PagesHold(r)'
    <2>1. ASSUME tick = 1, NEW q \in Changed(r)' PROVE Earlier(q, c)'
      <3>1. store'[c].at = clock + 1
        BY <2>1 DEF Changes
      <3>2. q \in Products
        BY DEF Changed
      <3>3. CASE q = c
        BY <1>4, <3>3, ProductsTyped DEF Earlier
      <3>4. CASE q # c
        <4>1. store'[q].at = store[q].at /\ store[q].at <= clock
          BY <1>3, <3>2, <3>4, OthersStay
        <4> QED
          BY <1>3, <3>1, <3>2, <4>1 DEF Earlier
      <3> QED
        BY <3>3, <3>4
    <2>2. ASSUME Sure(c)', more[r]
          PROVE  Covered(r, c)' \/ (After(r, c)' /\ \A q \in Changed(r)' : Earlier(q, c)')
      BY <1>5, <2>1, <2>2
    <2> QED
      BY <1>1, <1>6, <2>2 DEF PagesHold
  <1>8. NothingMissed(r)'
    BY <1>1, <1>2, <1>5, <1>6, OthersStay DEF RunInv, NothingMissed
  <1>9. SinceCovers(r)'
    <2> SUFFICES ASSUME NEW p \in Products, Sure(p)', store'[p].at <= since[r] PROVE UpToDate(p)'
      BY <1>1 DEF SinceCovers
    <2>1. p # c
      BY <1>3, <1>4, <1>5
    <2> QED
      BY <1>2, <2>1, OthersStay DEF RunInv, SinceCovers
  <1> QED
    BY <1>7, <1>8, <1>9 DEF RunInv

\* Pairs on their way are of earlier states of c now.
LEMMA GenuineSurvives ==
    ASSUME SyncTypeOK, StoreInv, NEW c \in Products, NEW tick, Changes(c, tick),
           NEW x, x.product \in Products, x.rev \in Nat, x.at \in Int, Genuine(x)
    PROVE  Genuine(x)'
  <1>1. /\ edits \in Nat /\ clock \in Nat /\ store[c].at \in Nat /\ store[c].at <= clock
        /\ edits' = edits + 1 /\ clock' >= clock /\ clock' \in Nat
    BY Fields DEF Changes, StoreInv
  <1>2. CASE x.product # c
    BY <1>1, <1>2 DEF Genuine, Changes
  <1>3. CASE x.product = c
    BY <1>1, <1>3 DEF Genuine, Changes
  <1> QED
    BY <1>2, <1>3

LEMMA ChangeKeeps ==
    ASSUME SyncInv, NEW c \in Products, NEW listed \in BOOLEAN,
           NEW kind \in {"upsert", "delete"}, kind = "delete" => ~listed,
           NEW tick \in {0, 1}, NEW delivered \in BOOLEAN, Change(c, listed, kind, tick, delivered)
    PROVE  SyncInv'
  <1>1. /\ UNCHANGED <<parked, dropped, index, stale, muted, faults, pullVars>>
        /\ UNCHANGED <<watermark, step, since, page, ids, rows, more, high, lastRead>>
        /\ \/ queue' = queue \cup {NewTask(kind, c, edits', clock')} /\ skewed' = Pushed(c)
           \/ queue' = queue
    BY DEF Change, indexVars, pullVars
  <1>2. SyncTypeOK /\ StoreInv /\ ListInv /\ ReadInv /\ IndexInv /\ StepsInv
    BY DEF SyncInv
  <1>3. StoreTyped' /\ Changes(c, tick) /\ store'[c].listed = listed
    BY <1>2, ChangeMeans
  <1>4. /\ edits \in Nat /\ clock \in Nat /\ lastRead \in Nat
        /\ edits' = edits + 1 /\ clock' >= clock /\ clock' \in Nat /\ edits' \in Nat
        /\ clock > 0 /\ lastRead <= clock
        /\ \A p \in Products :
              /\ store[p].at \in Nat /\ store[p].rev \in Nat
              /\ index[p].rev \in Nat /\ index[p].version \in Int
              /\ store[p].at <= clock
    BY <1>2, <1>3, Fields DEF Changes, StoreInv, ReadInv
  <1>5. store'[c].rev = edits + 1 /\ store'[c].at = clock'
    BY <1>3 DEF Changes
  <1>6. StoreInv'
    <2> SUFFICES ASSUME NEW p \in Products
                 PROVE  /\ store'[p].rev <= edits' /\ store'[p].at <= clock'
                        /\ store'[p].listed => store'[p].rev > 0 /\ store'[p].at > 0
      BY <1>4 DEF StoreInv
    <2>1. CASE p = c
      BY <1>4, <1>5, <2>1
    <2>2. CASE p # c
      <3>1. store'[p] = store[p]
        BY <1>3, <2>2 DEF Changes
      <3> QED
        BY <1>2, <1>4, <3>1 DEF StoreInv
    <2> QED
      BY <2>1, <2>2
  <1>7. \/ queue' = queue
        \/ \E n \in Task :
              /\ queue' = queue \cup {n} /\ n.kind = kind /\ n.product = c
              /\ n.rev = edits' /\ (c \notin skewed' => n.at = clock')
    <2> DEFINE n == NewTask(kind, c, edits', clock')
    <2>1. CASE queue' = queue \cup {n} /\ skewed' = Pushed(c)
      <3>1. /\ n \in Task /\ n.kind = kind /\ n.product = c /\ n.rev = edits'
            /\ c \notin skewed' => n.at = clock'
        BY <1>2, <1>4, <2>1, PushMeans
      <3> QED
        BY <2>1, <3>1
    <2> QED
      BY <1>1, <2>1
  <1>8. TasksInv'
    <2>1. ASSUME NEW n \in Task, n.product = c, n.rev = edits', c \notin skewed' => n.at = clock'
          PROVE  Genuine(n)'
      BY <1>4, <1>5, <2>1 DEF Genuine
    <2>2. \A x \in queue : Genuine(x)' /\ (x.kind = "delete" => x.product \in removed')
      <3> TAKE x \in queue
      <3>1. x.product \in Products /\ x.rev \in Nat /\ x.at \in Int
        BY <1>2, Fields
      <3>2. Genuine(x) /\ (x.kind = "delete" => x.product \in removed)
        BY DEF SyncInv, TasksInv
      <3> QED
        BY <1>2, <1>3, <3>1, <3>2, GenuineSurvives DEF Changes
    <2>3. kind = "delete" => c \in removed'
      BY <1>3 DEF Changes
    <2>4. CASE queue' = queue
      BY <2>2, <2>4 DEF TasksInv
    <2>5. ASSUME NEW n \in Task, queue' = queue \cup {n}, n.kind = kind, n.product = c,
                 n.rev = edits', c \notin skewed' => n.at = clock'
          PROVE  TasksInv'
      <3>1. Genuine(n)'
        BY <2>1, <2>5
      <3> QED
        BY <2>2, <2>3, <2>5, <3>1 DEF TasksInv
    <2> QED
      BY <1>7, <2>4, <2>5
  <1>9. RowsInv'
    <2>1. ASSUME NEW r \in Runs, NEW row \in rows[r] PROVE Genuine(row)' /\ row.at <= lastRead
      <3>1. row.product \in Products /\ row.rev \in Nat /\ row.at \in Nat
        BY <1>2, Fields
      <3>2. Genuine(row) /\ row.at <= lastRead
        BY DEF SyncInv, RowsInv
      <3> QED
        BY <1>2, <1>3, <3>1, <3>2, GenuineSurvives
    <2> QED
      BY <1>1, <2>1 DEF RowsInv
  <1>10. IndexInv'
    <2> SUFFICES ASSUME NEW p \in Products, p \notin removed', p \notin skewed'
                 PROVE  /\ index[p].rev <= edits' /\ index[p].version <= store'[p].at
                        /\ index[p].rev = 0 => index[p].version = 0
                        /\ p \notin tied' => (UpToDate(p)' <=> index[p].version = store'[p].at)
      BY <1>1 DEF IndexInv
    <2>1. /\ p \notin removed /\ p \notin skewed
          /\ index[p].rev <= edits /\ index[p].version <= store[p].at
          /\ index[p].rev = 0 => index[p].version = 0
      BY <1>2, <1>3 DEF Changes, IndexInv
    <2>2. CASE p = c
      <3>1. p \notin tied' => clock' # store[p].at
        BY <1>3, <2>2 DEF Changes
      <3> QED
        BY <1>1, <1>4, <1>5, <2>1, <2>2, <3>1 DEF UpToDate
    <2>3. CASE p # c
      <3>1. store'[p] = store[p] /\ (p \in tied' <=> p \in tied) /\ (UpToDate(p)' <=> UpToDate(p))
        BY <1>1, <1>3, <2>3, OthersStay DEF Changes
      <3> QED
        BY <1>2, <1>4, <2>1, <3>1 DEF IndexInv
    <2> QED
      BY <2>2, <2>3
  <1>11. SyncTypeOK'
    <2>1. TasksTyped /\ IndexTyped /\ PullTyped /\ FaultsTyped
      BY <1>2, Typed
    <2>2. TasksTyped' /\ IndexTyped' /\ PullTyped' /\ FaultsTyped'
      BY <1>1, <1>7, <2>1 DEF TasksTyped, IndexTyped, PullTyped, FaultsTyped
    <2> QED
      BY <1>3, <2>2, TypedNext
  <1>12. ReadInv' /\ StepsInv' /\ ListInv'
    <2>1. ASSUME NEW r \in Runs, NEW p \in ids[r] PROVE store'[p].rev > 0
      <3>1. p \in Products /\ store[p].rev > 0
        BY <1>2, Fields DEF ListInv
      <3> QED
        BY <1>3, <1>4, <1>5, <3>1 DEF Changes
    <2> QED
      BY <1>1, <1>2, <1>4, <2>1 DEF ReadInv, StepsInv, ListInv
  <1>13. \A r \in Runs : RunInv(r)'
    BY <1>1, <1>3, RunSurvivesChange
  <1>14. WatermarkCovers'
    <2> SUFFICES ASSUME NEW p \in Products, Sure(p)', store'[p].at <= watermark PROVE UpToDate(p)'
      BY <1>1 DEF WatermarkCovers, Sure
    <2>1. p # c
      <3>1. watermark <= lastRead /\ watermark \in Nat
        BY <1>2, Fields DEF ReadInv
      <3>2. Sure(c)' => store'[c].at > lastRead
        BY <1>2, <1>3, SureIsLater
      <3> QED
        BY <1>4, <1>5, <3>1, <3>2
    <2>2. Sure(p) /\ store[p].at <= watermark
      BY <1>1, <1>3, <2>1, OthersStay
    <2>3. UpToDate(p)
      BY <2>2 DEF SyncInv, WatermarkCovers, Sure
    <2> QED
      BY <1>1, <1>3, <2>1, <2>3, OthersStay
  <1> QED
    BY <1>6, <1>8, <1>9, <1>10, <1>11, <1>12, <1>13, <1>14 DEF SyncInv

-----------------------------------------------------------------------------
(* Reconciliation runs.                                                    *)

\* Run r alone moves; the shop and the tasks are left alone.
RunMoves(r) ==
    /\ UNCHANGED <<storeVars, taskVars>>
    /\ IndexTyped' /\ IndexInv' /\ Kept /\ FaultsTyped' /\ PullTyped'
    /\ \A q \in Runs \ {r} : SameRun(q)
    /\ lastRead' \in {lastRead, clock}

\* Its rows and dates are of products it has read.
RunReads(r) ==
    /\ \A row \in rows'[r] : Genuine(row) /\ row.at <= lastRead'
    /\ \A p \in ids'[r] : store[p].rev > 0
    /\ since'[r] <= lastRead' /\ high'[r] <= lastRead' /\ watermark' <= lastRead'
    /\ more'[r] => step'[r] \in {"fetch", "apply"}
    /\ step'[r] = "fetch" => more'[r] \/ page'[r] = 1
    /\ step'[r] # "idle" => page'[r] > 0

LEMMA RunMovesKeeps ==
    ASSUME SyncInv, NEW r \in Runs, RunMoves(r), RunReads(r), RunInv(r)', WatermarkCovers'
    PROVE  SyncInv'
  <1>1. /\ SyncTypeOK /\ StoreTyped /\ TasksTyped /\ StoreInv /\ TasksInv /\ RowsInv
        /\ ListInv /\ ReadInv /\ StepsInv
    BY Typed DEF SyncInv
  <1>2. UNCHANGED <<store, edits, clock, shop, tied, overtaken, removed, skewed, queue, parked, dropped, shopVars>>
    BY DEF RunMoves, storeVars, taskVars, shopVars
  <1>3. SyncTypeOK'
    <2>1. StoreTyped' /\ TasksTyped'
      BY <1>1, <1>2 DEF StoreTyped, TasksTyped
    <2> QED
      BY <2>1, TypedNext DEF RunMoves
  <1>4. StoreInv' /\ TasksInv'
    BY <1>1, <1>2 DEF StoreInv, TasksInv, Genuine
  <1>5. lastRead \in Nat /\ lastRead' \in Nat /\ clock \in Nat /\ lastRead <= lastRead' /\ lastRead' <= clock
    BY <1>1, Fields DEF RunMoves, ReadInv
  <1>6. RowsInv'
    <2> SUFFICES ASSUME NEW q \in Runs, NEW row \in rows'[q]
                 PROVE  Genuine(row)' /\ row.at <= lastRead'
      BY DEF RowsInv
    <2>1. Genuine(row) /\ row.at <= lastRead'
      <3>1. CASE q = r
        BY <3>1 DEF RunReads
      <3>2. CASE q # r
        <4>1. row \in rows[q]
          BY <3>2 DEF RunMoves, SameRun
        <4>2. Genuine(row) /\ row.at <= lastRead /\ row.at \in Nat
          BY <1>1, <4>1, Fields DEF RowsInv
        <4> QED
          BY <1>5, <4>2
      <3> QED
        BY <3>1, <3>2
    <2> QED
      BY <1>2, <2>1 DEF Genuine
  <1>7. ReadInv'
    <2>1. \A q \in Runs : since'[q] <= lastRead' /\ high'[q] <= lastRead'
      <3> TAKE q \in Runs
      <3>1. since[q] \in Nat /\ high[q] \in Nat /\ since[q] <= lastRead /\ high[q] <= lastRead
        BY <1>1, Fields DEF ReadInv
      <3>2. CASE q = r
        BY <3>2 DEF RunReads
      <3>3. CASE q # r
        BY <1>5, <3>1, <3>3 DEF RunMoves, SameRun
      <3> QED
        BY <3>2, <3>3
    <2> QED
      BY <1>2, <1>5, <2>1 DEF ReadInv, RunReads
  <1>8. StepsInv' /\ ListInv'
    BY <1>1, <1>2 DEF StepsInv, ListInv, RunMoves, RunReads, SameRun
  <1>9. \A q \in Runs : RunInv(q)'
    <2> TAKE q \in Runs
    <2>1. RunInv(q) /\ Kept
      BY DEF SyncInv, RunMoves
    <2>2. CASE q # r
      BY <1>2, <2>1, <2>2, RunKept DEF RunMoves
    <2> QED
      BY <2>2
  <1> QED
    BY <1>3, <1>4, <1>6, <1>7, <1>8, <1>9 DEF SyncInv, RunMoves

\* What is known of run r, and of the index when it is left alone.
LEMMA RunKnown ==
    ASSUME SyncInv, NEW r \in Runs
    PROVE  /\ SyncTypeOK /\ StoreTyped /\ IndexTyped /\ FaultsTyped /\ PullTyped
           /\ IndexInv /\ RunInv(r) /\ edits \in Nat /\ clock \in Nat
           /\ since[r] \in Nat /\ page[r] \in Nat /\ high[r] \in Nat /\ lastRead \in Nat
           /\ watermark \in Nat /\ rows[r] \subseteq Row /\ ids[r] \subseteq Products
           /\ since[r] <= lastRead /\ high[r] <= lastRead /\ watermark <= lastRead
           /\ lastRead <= clock
           /\ more[r] => step[r] \in {"fetch", "apply"}
           /\ step[r] = "fetch" => more[r] \/ page[r] = 1
           /\ step[r] # "idle" => page[r] > 0
           /\ step[r] # "apply" => rows[r] = {} /\ ids[r] = {}
           /\ step[r] = "idle" => ~more[r]
           /\ \A p \in ids[r] : store[p].rev > 0
           /\ \A row \in rows[r] : Genuine(row) /\ row.at <= lastRead
  BY Typed, Fields DEF SyncInv, RowsInv, ListInv, ReadInv, StepsInv, PullTyped

LEMMA IndexLeftByRun ==
    ASSUME SyncInv, UNCHANGED <<storeVars, index>>
    PROVE  IndexInv' /\ Kept
  <1>1. UNCHANGED shopVars /\ edits' = edits /\ edits \in Nat
    BY Fields DEF SyncInv, storeVars, shopVars
  <1> QED
    BY <1>1, IndexLeft DEF SyncInv

\* What is asked for later than some date of the past is in the index.
LEMMA NothingIsAskedForAtFirst ==
    ASSUME SyncInv, NEW p \in Products, Sure(p)
    PROVE  ~(store[p].at <= 0)
  BY Fields DEF SyncInv, StoreInv, Sure

\* Nothing is claimed of a run before its first page.
LEMMA FreshRun ==
    ASSUME NEW r \in Runs, ~more'[r], step'[r] \in {"idle", "fetch"}, SinceCovers(r)'
    PROVE  RunInv(r)'
  BY DEF RunInv, PagesHold, NothingMissed

LEMMA SinceStays ==
    ASSUME NEW r \in Runs, RunInv(r), Kept, UNCHANGED shopVars, since'[r] = since[r]
    PROVE  SinceCovers(r)'
  BY SameShop DEF RunInv, SinceCovers, Kept

\* The watermark covers what it covered, so the run may start from it.
LEMMA BeginPullKeeps ==
    ASSUME SyncInv, NEW r \in Runs, BeginPull(r)
    PROVE  SyncInv'
  <1>1. /\ step[r] = "idle" /\ step' = [step EXCEPT ![r] = "fetch"]
        /\ since' = [since EXCEPT ![r] = watermark] /\ page' = [page EXCEPT ![r] = 1]
        /\ UNCHANGED <<storeVars, taskVars, index, stale, muted, watermark, ids, rows, more, high,
                       lastRead, faults, shopVars>>
    BY DEF BeginPull, GoOn, indexVars, storeVars, shopVars
  <1>2. PullTyped'
    BY <1>1, RunKnown DEF PullTyped, RunStep
  <1>3. /\ step'[r] = "fetch" /\ since'[r] = watermark /\ page'[r] = 1
        /\ \A q \in Runs \ {r} : SameRun(q)
    BY <1>1, RunKnown DEF PullTyped, SameRun
  <1>4. RunMoves(r)
    BY <1>1, <1>2, <1>3, RunKnown, IndexLeftByRun DEF RunMoves, IndexTyped, FaultsTyped
  <1>5. RunReads(r)
    BY <1>1, <1>3, RunKnown DEF RunReads
  <1>6. WatermarkCovers'
    BY <1>1, <1>4, WatermarkKept DEF SyncInv, RunMoves
  <1>7. SinceCovers(r)'
    BY <1>1, <1>3, <1>6 DEF SinceCovers, WatermarkCovers, Sure
  <1>8. RunInv(r)'
    BY <1>1, <1>3, <1>7, RunKnown, FreshRun
  <1> QED
    BY <1>4, <1>5, <1>6, <1>8, RunMovesKeeps

LEMMA ReturnMeans ==
    ASSUME SyncInv, NEW r \in Runs, Return(r), UNCHANGED <<storeVars, lastRead>>,
           watermark' \in Nat
    PROVE  /\ PullTyped' /\ \A q \in Runs \ {r} : SameRun(q)
           /\ step'[r] = "idle" /\ since'[r] = 0 /\ ids'[r] = {} /\ rows'[r] = {} /\ ~more'[r] /\ high'[r] = 0
           /\ RunInv(r)'
  <1>1. /\ step' = [step EXCEPT ![r] = "idle"] /\ since' = [since EXCEPT ![r] = 0]
        /\ ids' = [ids EXCEPT ![r] = {}]
        /\ page' = [page EXCEPT ![r] = 0] /\ rows' = [rows EXCEPT ![r] = {}]
        /\ more' = [more EXCEPT ![r] = FALSE] /\ high' = [high EXCEPT ![r] = 0]
        /\ lastRead' = lastRead /\ UNCHANGED shopVars
    BY DEF Return, GoOn, storeVars, shopVars
  <1>2. PullTyped /\ lastRead \in Nat
    BY RunKnown
  <1>3. more' \in [Runs -> BOOLEAN] /\ ~more'[r] /\ \A q \in Runs \ {r} : more'[q] = more[q]
    BY <1>1, <1>2 DEF PullTyped
  <1>4. /\ step' \in [Runs -> RunStep] /\ since' \in [Runs -> Nat] /\ page' \in [Runs -> Nat]
        /\ rows' \in [Runs -> SUBSET Row] /\ high' \in [Runs -> Nat]
        /\ ids' \in [Runs -> SUBSET Products] /\ ids'[r] = {}
        /\ step'[r] = "idle" /\ since'[r] = 0 /\ page'[r] = 0 /\ rows'[r] = {} /\ high'[r] = 0
        /\ \A q \in Runs \ {r} : /\ step'[q] = step[q] /\ since'[q] = since[q]
                                 /\ page'[q] = page[q] /\ rows'[q] = rows[q]
                                 /\ high'[q] = high[q] /\ ids'[q] = ids[q]
    BY <1>1, <1>2 DEF PullTyped, RunStep
  <1>5. PullTyped'
    BY <1>1, <1>2, <1>3, <1>4 DEF PullTyped
  <1>6. SinceCovers(r)'
    BY <1>1, <1>4, SameShop, NothingIsAskedForAtFirst DEF SinceCovers
  <1> QED
    BY <1>3, <1>4, <1>5, <1>6, FreshRun DEF SameRun

LEMMA AbortPullKeeps ==
    ASSUME SyncInv, NEW r \in Runs, AbortPull(r)
    PROVE  SyncInv'
  <1>1. /\ Fault /\ Return(r)
        /\ UNCHANGED <<storeVars, taskVars, index, stale, muted, watermark, lastRead, shopVars>>
    BY DEF AbortPull, indexVars, storeVars, shopVars
  <1>2. RunMoves(r)
    BY <1>1, RunKnown, ReturnMeans, IndexLeftByRun, FaultTyped DEF RunMoves, IndexTyped
  <1>3. RunReads(r)
    BY <1>1, RunKnown, ReturnMeans DEF RunReads
  <1>4. WatermarkCovers'
    BY <1>1, <1>2, WatermarkKept DEF SyncInv, RunMoves
  <1> QED
    BY <1>1, <1>2, <1>3, <1>4, RunKnown, ReturnMeans, RunMovesKeeps

\* After its last page a run has missed nothing up to the last date it has repaired.
LEMMA RecordSyncKeeps ==
    ASSUME SyncInv, NEW r \in Runs, RecordSync(r)
    PROVE  SyncInv'
  <1>1. /\ step[r] = "record" /\ Return(r)
        /\ watermark' = IF high[r] > 0 THEN high[r] ELSE watermark
        /\ UNCHANGED <<storeVars, taskVars, index, stale, muted, lastRead, faults, shopVars>>
    BY DEF RecordSync, indexVars, storeVars, shopVars
  <1>2. watermark' \in Nat /\ watermark' <= lastRead
    BY <1>1, RunKnown
  <1>3. RunMoves(r)
    BY <1>1, <1>2, RunKnown, ReturnMeans, IndexLeftByRun DEF RunMoves, IndexTyped, FaultsTyped
  <1>4. RunReads(r)
    BY <1>1, <1>2, RunKnown, ReturnMeans DEF RunReads
  <1>5. WatermarkCovers'
    <2>1. CASE watermark' = watermark
      BY <1>1, <1>3, <2>1, WatermarkKept DEF SyncInv, RunMoves
    <2>2. CASE watermark' = high[r]
      <3> SUFFICES ASSUME NEW p \in Products, Sure(p)', store'[p].at <= high[r]
                   PROVE  UpToDate(p)'
        BY <2>2 DEF WatermarkCovers, Sure
      <3>1. Sure(p) /\ store[p].at <= high[r] /\ store[p].at \in Nat
        BY <1>1, SameShop, RunKnown, Fields
      <3>2. ~more[r] /\ rows[r] = {} /\ ids[r] = {}
        BY <1>1, RunKnown
      <3>3. Covered(r, p) \/ After(r, p)
        BY <1>1, <3>1, <3>2, RunKnown DEF RunInv, NothingMissed
      <3>4. UpToDate(p)
        BY <3>1, <3>2, <3>3, RunKnown DEF Covered, After
      <3> QED
        BY <1>3, <3>1, <3>4 DEF RunMoves, Kept
    <2> QED
      BY <1>1, <2>1, <2>2
  <1> QED
    BY <1>1, <1>2, <1>3, <1>4, <1>5, ReturnMeans, RunMovesKeeps

\* A page's products, and nothing of the list before it.
LEMMA Ranks ==
    ASSUME SyncTypeOK, NEW set \in SUBSET Products, NEW p \in set
    PROVE  /\ Rank(p, set) \in Nat /\ Cardinality(set) \in Nat
           /\ Rank(p, set) > 0 /\ Rank(p, set) <= Cardinality(set)
           /\ \A q \in set : Earlier(q, p) => Rank(q, set) <= Rank(p, set)
  <1> DEFINE UpTo(q) == {x \in set : Earlier(x, q)}
  <1>1. IsFiniteSet(set)
    BY ProductsTyped, FS_Subset
  <1>2. \A q \in set : /\ Rank(q, set) = Cardinality(UpTo(q))
                       /\ IsFiniteSet(UpTo(q)) /\ Cardinality(UpTo(q)) \in Nat
                       /\ Cardinality(UpTo(q)) <= Cardinality(set)
    BY <1>1, FS_Subset, FS_CardinalityType DEF Rank
  <1>3. \A x \in set : x \in Nat /\ store[x].at \in Nat
    BY Fields, ProductsTyped
  <1>4. p \in UpTo(p)
    BY <1>3 DEF Earlier
  <1>5. Cardinality(UpTo(p)) # 0
    BY <1>2, <1>4, FS_EmptySet
  <1>6. ASSUME NEW q \in set, Earlier(q, p)
        PROVE  Cardinality(UpTo(q)) <= Cardinality(UpTo(p))
    <2>1. UpTo(q) \subseteq UpTo(p)
      BY <1>3, <1>6 DEF Earlier
    <2> QED
      BY <1>2, <2>1, FS_Subset
  <1>7. Cardinality(set) \in Nat
    BY <1>1, FS_CardinalityType
  <1> HIDE DEF UpTo
  <1>8. Rank(p, set) = Cardinality(UpTo(p)) /\ Rank(p, set) \in Nat /\ Rank(p, set) <= Cardinality(set)
    BY <1>2
  <1>9. ASSUME NEW q \in set, Earlier(q, p) PROVE Rank(q, set) <= Rank(p, set)
    BY <1>2, <1>6, <1>8, <1>9
  <1> QED
    BY <1>5, <1>7, <1>8, <1>9

\* What stands on the page now is to be read; what stands before it the run has, but for a
\* change that is now the last of the list, and then the page is empty.
LEMMA ListPageKeeps ==
    ASSUME SyncInv, NEW r \in Runs, ListPage(r)
    PROVE  SyncInv'
  <1> DEFINE list == Changed(r)
             first == (page[r] - 1) * PageSize
             last == page[r] * PageSize
             got == {q \in list : Rank(q, list) \in (first + 1) .. last}
             goOn == IF shop.looksAhead THEN Cardinality(list) > last ELSE Cardinality(list) >= last
  <1>1. /\ step[r] = "fetch" /\ step' = [step EXCEPT ![r] = "apply"]
        /\ ids' = [ids EXCEPT ![r] = got]
        /\ more' = [more EXCEPT ![r] = goOn]
        /\ lastRead' = clock
        /\ UNCHANGED <<storeVars, taskVars, index, stale, muted, watermark, since, page, rows, high,
                       faults, shopVars>>
    BY DEF ListPage, GoOn, indexVars, storeVars, shopVars
  <1>2. list \subseteq Products /\ SyncTypeOK /\ SyncTypeOK'
    <2>1. list \subseteq Products /\ SyncTypeOK
      BY RunKnown DEF Changed
    <2>2. got \subseteq Products
      BY <2>1
    <2>3. goOn \in BOOLEAN
      <3>1. (Cardinality(list) > last) \in BOOLEAN /\ (Cardinality(list) >= last) \in BOOLEAN
        OBVIOUS
      <3> QED
        BY <3>1, Zenon
    <2> HIDE DEF got, list, last, goOn
    <2>4. more' \in [Runs -> BOOLEAN]
      BY <1>1, <2>3, RunKnown, Zenon DEF PullTyped
    <2>5. PullTyped'
      BY <1>1, <2>2, <2>4, RunKnown DEF PullTyped, RunStep
    <2>6. StoreTyped' /\ TasksTyped' /\ IndexTyped' /\ FaultsTyped'
      BY <1>1, RunKnown, Typed
         DEF StoreTyped, TasksTyped, IndexTyped, FaultsTyped, storeVars, taskVars
    <2> QED
      BY <2>1, <2>5, <2>6, TypedNext
  <1>3. PullTyped' /\ step'[r] = "apply" /\ ids'[r] = got
        /\ (more'[r] <=> goOn) /\ rows[r] = {} /\ rows'[r] = {}
        /\ since'[r] = since[r] /\ page'[r] = page[r] /\ high'[r] = high[r]
        /\ \A q \in Runs \ {r} : SameRun(q)
    <2>1. PullTyped'
      BY <1>2, TypedNext
    <2> HIDE DEF got, list, last, goOn
    <2> QED
      BY <1>1, <2>1, RunKnown DEF PullTyped, SameRun
  <1>4. RunMoves(r)
    BY <1>1, <1>3, RunKnown, IndexLeftByRun DEF RunMoves, IndexTyped, FaultsTyped
  <1>5. RunReads(r)
    <2>1. \A p \in got : store[p].rev > 0
      BY <1>2 DEF SyncInv, StoreInv, Changed
    <2> HIDE DEF got, list, last, goOn
    <2> QED
      BY <1>1, <1>3, <2>1, RunKnown DEF RunReads
  <1>6. first \in Int /\ last \in Nat /\ (page[r] = 1 => first = 0)
    BY RunKnown, ProductsTyped
  <1>7. ASSUME NEW p \in list, Sure(p), Rank(p, list) <= last
        PROVE  Covered(r, p)' \/ (After(r, p)' /\ \A q \in list : Earlier(q, p))
    <2>1. Rank(p, list) \in Nat /\ Rank(p, list) > 0
          /\ \A q \in list : Earlier(q, p) => Rank(q, list) <= Rank(p, list)
      BY <1>2, Ranks
    <2>2. CASE Rank(p, list) > first
      <3>1. p \in got
        BY <1>6, <1>7, <2>1, <2>2
      <3> QED
        BY <1>3, <3>1 DEF Covered
    <2>3. CASE ~(Rank(p, list) > first)
      <3>1. page[r] # 1
        BY <1>6, <2>1, <2>3
      <3>2. more[r] /\ PagesRead(r) = page[r] - 1 /\ rows[r] = {} /\ ids[r] = {}
        BY <1>1, <3>1, RunKnown DEF PagesRead
      <3>3. Rank(p, list) <= first
        BY <1>6, <2>1, <2>3
      <3>4. Covered(r, p) \/ (After(r, p) /\ \A q \in list : Earlier(q, p))
        BY <1>2, <1>7, <3>2, <3>3, RunKnown DEF RunInv, PagesHold
      <3>5. CASE Covered(r, p)
        BY <1>2, <1>4, <1>7, <3>2, <3>5 DEF Covered, RunMoves, Kept
      <3>6. CASE After(r, p) /\ \A q \in list : Earlier(q, p)
        <4>1. \A q \in list : ~(Rank(q, list) \in (first + 1) .. last)
          <5> TAKE q \in list
          <5>1. Rank(q, list) \in Nat
            BY <1>2, Ranks
          <5>2. Rank(q, list) <= Rank(p, list)
            BY <2>1, <3>6
          <5> QED
            BY <1>6, <2>1, <3>3, <5>1, <5>2
        <4>2. got = {}
          BY <4>1
        <4>3. store'[p] = store[p]
          BY <1>1, <1>2, SameShop
        <4> QED
          BY <1>3, <3>6, <4>2, <4>3 DEF After
      <3> QED
        BY <3>4, <3>5, <3>6
    <2> QED
      BY <2>2, <2>3
  <1>8. /\ Changed(r)' = list /\ PagesRead(r)' = page[r]
        /\ \A p \in Products : Rank(p, Changed(r))' = Rank(p, list)
        /\ \A p \in Products : Sure(p)' <=> Sure(p)
        /\ \A p, q \in Products : Earlier(q, p)' <=> Earlier(q, p)
        /\ \A p \in Products : store'[p] = store[p]
    BY <1>1, <1>3, SameList, SameShop DEF PagesRead
  <1>9. PagesHold(r)'
    <2> SUFFICES ASSUME NEW p \in Products, Sure(p)', p \in Changed(r)',
                        Rank(p, Changed(r))' <= PagesRead(r)' * PageSize
                 PROVE  Covered(r, p)' \/ (After(r, p)' /\ \A q \in Changed(r)' : Earlier(q, p)')
      BY DEF PagesHold
    <2>1. Sure(p) /\ p \in list /\ Rank(p, list) <= last
      BY <1>8
    <2> HIDE DEF list, last
    <2>2. Covered(r, p)' \/ (After(r, p)' /\ \A q \in list : Earlier(q, p))
      BY <1>7, <2>1
    <2> QED
      BY <1>2, <1>8, <2>2
  <1>10. NothingMissed(r)'
    <2> SUFFICES ASSUME ~more'[r], NEW p \in Products, Sure(p)'
                 PROVE  Covered(r, p)' \/ After(r, p)'
      BY DEF NothingMissed
    <2>1. Sure(p)
      BY <1>8
    <2>2. CASE p \in list
      <3>1. Rank(p, list) <= last
        <4>1. ~(Cardinality(list) > last)
          <5>1. Cardinality(list) \in Nat
            BY <1>2, <2>2, Ranks
          <5> QED
            BY <1>3, <1>6, <5>1
        <4>2. Rank(p, list) \in Nat /\ Cardinality(list) \in Nat /\ Rank(p, list) <= Cardinality(list)
          BY <1>2, <2>2, Ranks
        <4> QED
          BY <1>6, <4>1, <4>2
      <3> QED
        BY <1>7, <2>1, <2>2, <3>1
    <2>3. CASE p \notin list
      <3>1. store[p].at <= since[r]
        BY <1>2, <2>1, <2>3, Fields, RunKnown DEF Changed, Sure
      <3>2. UpToDate(p)
        BY <2>1, <3>1, RunKnown DEF RunInv, SinceCovers
      <3> QED
        BY <1>4, <2>1, <3>2 DEF RunMoves, Kept, Covered
    <2> QED
      BY <2>2, <2>3
  <1>11. SinceCovers(r)'
    BY <1>1, <1>3, <1>4, RunKnown, SinceStays DEF RunMoves
  <1>12. WatermarkCovers'
    BY <1>1, <1>4, WatermarkKept DEF SyncInv, RunMoves
  <1> QED
    BY <1>4, <1>5, <1>9, <1>10, <1>11, <1>12, RunMovesKeeps DEF RunInv

\* A product is read as it is by now: the row, and so the dates of the run, stay below what
\* the run may be missing.
LEMMA ReadProductKeeps ==
    ASSUME SyncInv, NEW r \in Runs, NEW c \in ids[r], ReadProduct(r, c)
    PROVE  SyncInv'
  <1>1. /\ ids' = [ids EXCEPT ![r] = ids[r] \ {c}]
        /\ lastRead' = clock
        /\ \/ rows' = [rows EXCEPT ![r] = rows[r] \cup {Normalized(c)}]
           \/ ~store[c].listed /\ rows' = rows
        /\ UNCHANGED <<storeVars, taskVars, index, stale, muted, watermark, step, since, page, more,
                       high, faults, shopVars, store>>
    BY DEF ReadProduct, indexVars, storeVars, shopVars
  <1>2. /\ c \in Products /\ SyncTypeOK /\ step[r] = "apply" /\ StoreInv /\ ids[r] \subseteq Products
        /\ store[c].rev \in Nat /\ store[c].at \in Nat /\ store[c].rev > 0
        /\ store[c].rev <= edits /\ store[c].at <= clock /\ PullTyped
    BY RunKnown, Fields DEF SyncInv, StoreInv
  <1>3. Normalized(c) \in Row /\ Genuine(Normalized(c)) /\ Normalized(c).at = store[c].at
    BY <1>2 DEF Normalized, Row, Genuine
  <1>4. /\ ids' \in [Runs -> SUBSET Products] /\ ids'[r] = ids[r] \ {c}
        /\ \A q \in Runs \ {r} : ids'[q] = ids[q]
    <2>1. ids[r] \ {c} \in SUBSET Products
      BY <1>2
    <2> HIDE DEF PullTyped
    <2>2. ids \in [Runs -> SUBSET Products]
      BY <1>2 DEF PullTyped
    <2> QED
      BY <1>1, <2>1, <2>2
  <1>5. /\ rows' \in [Runs -> SUBSET Row]
        /\ rows'[r] = rows[r] \cup {Normalized(c)} \/ (rows'[r] = rows[r] /\ ~store[c].listed)
        /\ \A q \in Runs \ {r} : rows'[q] = rows[q]
    <2> DEFINE new == rows[r] \cup {Normalized(c)}
    <2>1. rows \in [Runs -> SUBSET Row] /\ rows[r] \subseteq Row
      BY <1>2 DEF PullTyped
    <2>2. new \in SUBSET Row
      BY <1>3, <2>1
    <2>3. CASE rows' = [rows EXCEPT ![r] = new]
      <3> HIDE DEF new
      <3>1. /\ rows' \in [Runs -> SUBSET Row] /\ rows'[r] = new
            /\ \A q \in Runs \ {r} : rows'[q] = rows[q]
        BY <2>1, <2>2, <2>3
      <3> QED
        BY <3>1 DEF new
    <2>4. CASE ~store[c].listed /\ rows' = rows
      BY <2>1, <2>4
    <2> QED
      BY <1>1, <2>3, <2>4
  <1>6. PullTyped' /\ \A q \in Runs \ {r} : SameRun(q)
    <2>1. clock \in Nat /\ \A q \in Runs : step[q] # "apply" => q # r
      BY <1>2, Fields
    <2> QED
      BY <1>1, <1>2, <1>4, <1>5, <2>1 DEF PullTyped, SameRun
  <1>7. RunMoves(r)
    BY <1>1, <1>6, RunKnown, IndexLeftByRun DEF RunMoves, IndexTyped, FaultsTyped
  <1>8. RunReads(r)
    <2>1. \A row \in rows[r] : Genuine(row) /\ row.at <= clock
      <3> TAKE row \in rows[r]
      <3>1. row.at \in Nat
        BY <1>2, Fields
      <3> QED
        BY <3>1, RunKnown
    <2>2. since[r] <= clock /\ high[r] <= clock /\ watermark <= clock
      BY RunKnown
    <2> QED
      BY <1>1, <1>2, <1>3, <1>4, <1>5, <2>1, <2>2, RunKnown DEF RunReads
  <1>9. /\ Changed(r)' = Changed(r) /\ PagesRead(r)' = PagesRead(r) /\ Changed(r) \subseteq Products
        /\ \A p \in Products : Rank(p, Changed(r))' = Rank(p, Changed(r))
        /\ \A p \in Products : (Sure(p)' <=> Sure(p)) /\ Normalized(p)' = Normalized(p)
        /\ \A p, q \in Products : Earlier(q, p)' <=> Earlier(q, p)
    BY <1>1, SameList, SameShop DEF PagesRead, Changed
  <1>10. ASSUME NEW p \in Products, Sure(p), Covered(r, p)
         PROVE  Covered(r, p)'
    <2>1. CASE UpToDate(p)
      BY <1>7, <1>10, <2>1 DEF RunMoves, Kept, Covered
    <2>2. CASE Normalized(p) \in rows[r]
      BY <1>5, <1>9, <2>2 DEF Covered
    <2>3. CASE p = c
      BY <1>5, <1>9, <1>10, <2>3 DEF Covered, Sure
    <2>4. CASE p \in ids[r] \ {c}
      BY <1>4, <2>4 DEF Covered
    <2> QED
      BY <1>10, <2>1, <2>2, <2>3, <2>4 DEF Covered
  <1>11. \A p \in Products : After(r, p) => After(r, p)'
    BY <1>1, <1>3, <1>4, <1>5 DEF After
  <1>12. RunInv(r)
    BY RunKnown
  <1>13. PagesHold(r)'
    BY <1>1, <1>9, <1>10, <1>11, <1>12 DEF RunInv, PagesHold
  <1>14. NothingMissed(r)'
    BY <1>1, <1>9, <1>10, <1>11, <1>12 DEF RunInv, NothingMissed
  <1>15. SinceCovers(r)' /\ WatermarkCovers'
    BY <1>1, <1>7, <1>12, SinceStays, WatermarkKept DEF SyncInv, RunMoves
  <1> QED
    BY <1>7, <1>8, <1>13, <1>14, <1>15, RunMovesKeeps DEF RunInv

\* A row is written, or is older than what is there.
LEMMA ApplyRowKeeps ==
    ASSUME SyncInv, NEW r \in Runs, NEW row \in rows[r], ApplyRow(r, row)
    PROVE  SyncInv'
  <1>1. /\ step[r] = "apply" /\ ids[r] = {}
        /\ rows' = [rows EXCEPT ![r] = rows[r] \ {row}]
        /\ high' = [high EXCEPT ![r] = IF row.at > high[r] THEN row.at ELSE high[r]]
        /\ Write(row.product, Upserted(row.product, row.rev, row.at))
        /\ UNCHANGED <<storeVars, taskVars, muted, watermark, step, since, page, ids, more, lastRead,
                       faults, shopVars, edits>>
    BY DEF ApplyRow, storeVars, shopVars
  <1>2. /\ row \in Row /\ row.product \in Products /\ row.rev \in Nat /\ row.at \in Nat
        /\ Genuine(row) /\ row.at <= lastRead
    BY RunKnown, Fields
  <1>3. /\ index' \in [Products -> [rev: Nat, version: Int]] /\ IndexInv' /\ Kept
        /\ Sure(row.product) /\ row = Normalized(row.product) => UpToDate(row.product)'
    BY <1>1, <1>2, RunKnown, UpsertKeeps DEF Write
  <1>4. IndexTyped' /\ FaultsTyped'
    BY <1>1, <1>2, <1>3, RunKnown DEF Write, IndexTyped, FaultsTyped
  <1> DEFINE top == IF row.at > high[r] THEN row.at ELSE high[r]
  <1>5. top \in Nat /\ top \in {row.at, high[r]}
    BY <1>2, RunKnown
  <1>6. high' = [high EXCEPT ![r] = top]
    BY <1>1
  <1> HIDE DEF top
  <1>7. PullTyped' /\ rows'[r] = rows[r] \ {row} /\ high'[r] = top
        /\ \A q \in Runs \ {r} : SameRun(q)
    BY <1>1, <1>5, <1>6, RunKnown DEF PullTyped, SameRun
  <1>8. RunMoves(r)
    BY <1>1, <1>3, <1>4, <1>7 DEF RunMoves
  <1>9. RunReads(r)
    BY <1>1, <1>2, <1>5, <1>7, RunKnown DEF RunReads
  <1>10. /\ Changed(r)' = Changed(r) /\ PagesRead(r)' = PagesRead(r) /\ Changed(r) \subseteq Products
         /\ \A p \in Products : Rank(p, Changed(r))' = Rank(p, Changed(r))
         /\ \A p \in Products : (Sure(p)' <=> Sure(p)) /\ Normalized(p)' = Normalized(p)
         /\ \A p, q \in Products : Earlier(q, p)' <=> Earlier(q, p)
         /\ \A p \in Products : store'[p] = store[p]
    BY <1>1, SameList, SameShop DEF PagesRead, Changed
  <1>11. ASSUME NEW p \in Products, Sure(p), Covered(r, p)
         PROVE  Covered(r, p)'
    <2>1. CASE UpToDate(p)
      BY <1>3, <1>11, <2>1 DEF Kept, Covered
    <2>2. CASE Normalized(p) = row
      <3>1. row.product = p
        BY <2>2 DEF Normalized
      <3> QED
        BY <1>3, <1>11, <2>2, <3>1 DEF Covered
    <2>3. CASE Normalized(p) \in rows[r] \ {row}
      BY <1>7, <1>10, <2>3 DEF Covered
    <2> QED
      BY <1>1, <1>11, <2>1, <2>2, <2>3 DEF Covered
  <1>12. \A p \in Products : After(r, p) => After(r, p)'
    BY <1>1, <1>5, <1>7, <1>10 DEF After
  <1>13. RunInv(r) /\ more'[r] = more[r] /\ step'[r] = step[r]
    BY <1>1, RunKnown
  <1>14. PagesHold(r)'
    BY <1>10, <1>11, <1>12, <1>13 DEF RunInv, PagesHold
  <1>15. NothingMissed(r)'
    BY <1>10, <1>11, <1>12, <1>13 DEF RunInv, NothingMissed
  <1>16. SinceCovers(r)' /\ WatermarkCovers'
    BY <1>1, <1>3, <1>13, SinceStays, WatermarkKept DEF SyncInv
  <1> QED
    BY <1>8, <1>9, <1>14, <1>15, <1>16, RunMovesKeeps DEF RunInv

\* A run that goes on with all it knows.
LEMMA RunGoesOn ==
    ASSUME SyncInv, NEW r \in Runs, NEW s \in {"fetch", "bump", "record"}, NEW k \in Nat \ {0},
           step' = [step EXCEPT ![r] = s], page' = [page EXCEPT ![r] = k],
           UNCHANGED <<storeVars, taskVars, index, watermark, since, ids, rows, more, high, lastRead>>,
           IndexTyped', FaultsTyped',
           rows[r] = {}, ids[r] = {}, step[r] \in {"apply", "bump", "record"},
           IF more[r] THEN s = "fetch" /\ step[r] = "apply" /\ k = page[r] + 1
                      ELSE s # "fetch"
    PROVE  SyncInv'
  <1>1. UNCHANGED shopVars
    BY DEF storeVars, shopVars
  <1>2. /\ PullTyped' /\ step'[r] = s /\ page'[r] = k
        /\ \A q \in Runs \ {r} : SameRun(q)
    BY RunKnown DEF PullTyped, SameRun, RunStep
  <1>3. RunMoves(r)
    BY <1>2, IndexLeftByRun DEF RunMoves
  <1>4. RunReads(r)
    BY <1>2, RunKnown DEF RunReads
  <1>5. /\ Changed(r)' = Changed(r) /\ Changed(r) \subseteq Products
        /\ \A p \in Products : Rank(p, Changed(r))' = Rank(p, Changed(r))
        /\ \A p \in Products : (Sure(p)' <=> Sure(p)) /\ store'[p] = store[p]
        /\ \A p, q \in Products : Earlier(q, p)' <=> Earlier(q, p)
    BY <1>1, SameList, SameShop DEF Changed
  <1>6. \A p \in Products : Sure(p) /\ Covered(r, p) => Covered(r, p)'
    BY <1>1, <1>3, CoveredStays DEF RunMoves
  <1>7. \A p \in Products : After(r, p) => After(r, p)'
    BY <1>1, AfterStays
  <1>8. PagesHold(r)'
    <2>1. CASE more[r]
      <3>1. PagesRead(r) = page[r] /\ PagesRead(r)' = page[r]
        BY <1>2, <2>1, RunKnown DEF PagesRead
      <3> QED
        BY <1>5, <1>6, <1>7, <2>1, <3>1, RunKnown DEF RunInv, PagesHold
    <2>2. CASE ~more[r]
      BY <2>2 DEF PagesHold
    <2> QED
      BY <2>1, <2>2
  <1>9. NothingMissed(r)'
    BY <1>2, <1>5, <1>6, <1>7, RunKnown DEF RunInv, NothingMissed
  <1>10. SinceCovers(r)' /\ WatermarkCovers'
    BY <1>1, <1>3, RunKnown, SinceStays, WatermarkKept DEF SyncInv, RunMoves
  <1> QED
    BY <1>3, <1>4, <1>8, <1>9, <1>10, RunMovesKeeps DEF RunInv

LEMMA EndPageKeeps ==
    ASSUME SyncInv, NEW r \in Runs, EndPage(r)
    PROVE  SyncInv'
  <1>1. /\ step[r] = "apply" /\ rows[r] = {} /\ ids[r] = {}
        /\ UNCHANGED <<storeVars, taskVars, index, stale, muted, watermark, since, ids, rows, more,
                       high, lastRead, faults>>
    BY DEF EndPage, indexVars
  <1>2. IndexTyped' /\ FaultsTyped' /\ page[r] \in Nat \ {0} /\ page = [page EXCEPT ![r] = page[r]]
    BY <1>1, RunKnown DEF IndexTyped, FaultsTyped, PullTyped
  <1>3. CASE more[r] /\ GoOn(r, "fetch") /\ page' = [page EXCEPT ![r] = @ + 1]
    <2>1. page[r] + 1 \in Nat \ {0} /\ page' = [page EXCEPT ![r] = page[r] + 1]
      BY <1>2, <1>3
    <2> QED
      BY <1>1, <1>2, <1>3, <2>1, RunGoesOn DEF GoOn
  <1>4. CASE ~more[r] /\ GoOn(r, IF high[r] > 0 THEN "bump" ELSE "record") /\ UNCHANGED page
    <2>1. PICK s \in {"bump", "record"} : step' = [step EXCEPT ![r] = s]
      BY <1>4 DEF GoOn
    <2> QED
      BY <1>1, <1>2, <1>4, <2>1, RunGoesOn
  <1> QED
    BY <1>3, <1>4 DEF EndPage

LEMMA AnnounceKeeps ==
    ASSUME SyncInv, NEW r \in Runs, Announce(r)
    PROVE  SyncInv'
  <1>1. /\ step[r] = "bump" /\ step' = [step EXCEPT ![r] = "record"] /\ Bump
        /\ UNCHANGED <<storeVars, taskVars, index, watermark, since, page, ids, rows, more, high,
                       lastRead>>
    BY DEF Announce, GoOn
  <1>2. IndexTyped' /\ FaultsTyped' /\ page[r] \in Nat \ {0} /\ page' = [page EXCEPT ![r] = page[r]]
        /\ rows[r] = {} /\ ids[r] = {} /\ ~more[r]
    BY <1>1, RunKnown, BumpTyped DEF PullTyped
  <1> QED
    BY <1>1, <1>2, RunGoesOn

-----------------------------------------------------------------------------
(* The theorems.                                                           *)

LEMMA SyncStarts ==
    ASSUME SyncInit
    PROVE  SyncInv
  <1>1. StoreTyped /\ TasksTyped /\ IndexTyped /\ PullTyped /\ FaultsTyped
    <2>1. {[rev |-> 0, at |-> 0, listed |-> FALSE], [rev |-> 1, at |-> 1, listed |-> TRUE]}
            \subseteq [rev: Nat, at: Nat, listed: BOOLEAN]
      OBVIOUS
    <2>2. StoreTyped
      BY <2>1, CatalogSyncAssumption DEF SyncInit, StoreTyped
    <2>3. TasksTyped /\ IndexTyped /\ FaultsTyped
      BY DEF SyncInit, TasksTyped, IndexTyped, FaultsTyped
    <2>4. PullTyped
      BY DEF SyncInit, PullTyped, RunStep
    <2> QED
      BY <2>2, <2>3, <2>4
  <1>2. SyncTypeOK
    BY <1>1, Typed
  <1>3. \A p \in Products : \/ store[p] = [rev |-> 0, at |-> 0, listed |-> FALSE]
                            \/ store[p] = [rev |-> 1, at |-> 1, listed |-> TRUE]
    BY DEF SyncInit
  <1>4. StoreInv /\ IndexInv
    BY <1>3 DEF SyncInit, StoreInv, IndexInv, UpToDate
  <1>5. TasksInv /\ RowsInv /\ ListInv /\ ReadInv /\ StepsInv
    BY DEF SyncInit, TasksInv, RowsInv, ListInv, ReadInv, StepsInv
  <1>6. \A r \in Runs : RunInv(r)
    BY <1>3 DEF SyncInit, RunInv, PagesHold, NothingMissed, SinceCovers, Sure
  <1>7. WatermarkCovers
    BY <1>3 DEF SyncInit, WatermarkCovers
  <1> QED
    BY <1>2, <1>4, <1>5, <1>6, <1>7 DEF SyncInv

LEMMA SyncStutters ==
    ASSUME SyncInv, UNCHANGED syncVars
    PROVE  SyncInv'
  <1>1. /\ UNCHANGED <<shopVars, edits, pullVars, index>>
        /\ UNCHANGED <<queue, parked, dropped, stale, muted, faults>>
    BY DEF syncVars, storeVars, taskVars, indexVars, shopVars
  <1>2. /\ TasksTyped /\ IndexTyped /\ FaultsTyped /\ TasksInv /\ edits \in Nat /\ SyncTypeOK
        /\ IndexInv /\ \A m \in queue : m.rev \in Nat
    BY Typed, Fields DEF SyncInv
  <1>3. TasksTyped' /\ IndexTyped' /\ FaultsTyped'
    BY <1>1, <1>2 DEF TasksTyped, IndexTyped, FaultsTyped
  <1>4. TasksInv'
    BY <1>1, <1>2, GenuineStays DEF TasksInv, shopVars
  <1>5. IndexInv' /\ Kept
    BY <1>1, <1>2, IndexLeft
  <1> QED
    BY <1>1, <1>2, <1>3, <1>4, <1>5, BesideRuns

LEMMA SyncSteps ==
    ASSUME SyncInv, [SyncNext]_syncVars
    PROVE  SyncInv'
  <1>1. ASSUME NEW p \in Products, NEW tick \in {0, 1}, NEW delivered \in BOOLEAN,
               Save(p, tick, delivered) \/ Hide(p, tick, delivered) \/ Remove(p, tick, delivered)
        PROVE  SyncInv'
    BY <1>1, ChangeKeeps DEF Save, Hide, Remove
  <1>2. ASSUME NEW p \in Products, BulkImport(p) \/ ForgetTombstone(p)
        PROVE  SyncInv'
    BY <1>2, BulkImportKeeps, ForgetTombstoneKeeps
  <1>3. ASSUME NEW m \in queue, Deliver(m) \/ Finish(m) \/ Redeliver(m) \/ Fail(m)
        PROVE  SyncInv'
    BY <1>3, DeliverKeeps, FinishKeeps, RedeliverKeeps, FailKeeps
  <1>4. ASSUME NEW r \in Runs, PullStep(r) \/ AbortPull(r)
        PROVE  SyncInv'
    BY <1>4, BeginPullKeeps, ListPageKeeps, ReadProductKeeps, ApplyRowKeeps, EndPageKeeps, AnnounceKeeps,
       RecordSyncKeeps, AbortPullKeeps DEF PullStep, Sweep, SyncNow
  <1>5. CASE SyncNext
    BY <1>1, <1>2, <1>3, <1>4, <1>5 DEF SyncNext, WorkerStep
  <1> QED
    BY <1>5, SyncStutters

\* The inductive invariant: every pair on its way to the index was true once, and every
\* run has, or holds, all that stood before the end of its last page.
THEOREM SyncInvariance == SyncSpec => []SyncInv
  <1>1. SyncInit => SyncInv
    BY SyncStarts
  <1>2. SyncInv /\ [SyncNext]_syncVars => SyncInv'
    BY SyncSteps
  <1> QED
    BY <1>1, <1>2, PTL DEF SyncSpec

\* Queue, index, runs and ghosts are of their types, and an idle run holds no rows.
THEOREM SyncIsTyped == SyncSpec => []SyncTypeOK
  <1>1. SyncInv => SyncTypeOK
    BY DEF SyncInv
  <1> QED
    BY <1>1, SyncInvariance, PTL

\* However pushes and any number of pulls interleave, fail and are repeated, the watermark
\* passes no change that the index has not seen, but for the exceptions it names.
THEOREM NothingIsSkipped == SyncSpec => []WatermarkCovers
  <1>1. SyncInv => WatermarkCovers
    BY DEF SyncInv
  <1> QED
    BY <1>1, SyncInvariance, PTL

\* But for a product that was ever taken off the shop, no version goes back: a stale pair
\* is refused, a task that deletes is about such a product, and an entry without a
\* document has no version to forget.
LEMMA VersionsGrow ==
    ASSUME SyncInv, [SyncNext]_syncVars, NEW p \in Products \ (removed \cup skewed)
    PROVE  index'[p].version >= index[p].version
  <1>1. index \in [Products -> [rev: Nat, version: Int]] /\ index[p].version \in Int
    BY Fields DEF SyncInv, SyncTypeOK
  <1>2. ASSUME index' = index PROVE index'[p].version >= index[p].version
    BY <1>1, <1>2
  <1>3. ASSUME NEW q \in Products, NEW rev \in Nat, NEW at \in Int, index' = Upserted(q, rev, at)
        PROVE  index'[p].version >= index[p].version
    BY <1>1, <1>3 DEF Upserted
  <1>4. ASSUME NEW m \in queue, Deliver(m) \/ Fail(m)
        PROVE  index'[p].version >= index[p].version
    <2>1. /\ index' = index \/ index' = Effect(m)
          /\ m.product \in Products /\ m.rev \in Nat /\ m.at \in Int
      BY <1>4, Fields DEF Deliver, Fail, Write, SyncInv
    <2>2. CASE m.kind = "delete"
      <3>1. m.product # p
        BY <2>2 DEF SyncInv, TasksInv
      <3> QED
        BY <1>1, <1>2, <2>1, <2>2, <3>1 DEF Effect, Tombstoned
    <2>3. CASE m.kind # "delete"
      BY <1>2, <1>3, <2>1, <2>3 DEF Effect
    <2> QED
      BY <2>2, <2>3
  <1>5. ASSUME NEW q \in Products, ForgetTombstone(q)
        PROVE  index'[p].version >= index[p].version
    <2>1. q # p
      BY <1>5 DEF ForgetTombstone, SyncInv, IndexInv
    <2> QED
      BY <1>1, <1>5, <2>1 DEF ForgetTombstone
  <1>6. ASSUME NEW r \in Runs, NEW row \in rows[r], ApplyRow(r, row)
        PROVE  index'[p].version >= index[p].version
    <2>1. row.product \in Products /\ row.rev \in Nat /\ row.at \in Nat
      BY Fields DEF SyncInv
    <2> QED
      BY <1>3, <1>6, <2>1 DEF ApplyRow, Write
  <1>7. ASSUME NEW q \in Products, NEW tick \in {0, 1}, NEW delivered \in BOOLEAN,
               \/ Save(q, tick, delivered) \/ Hide(q, tick, delivered)
               \/ Remove(q, tick, delivered) \/ BulkImport(q)
        PROVE  index' = index
    BY <1>7 DEF Save, Hide, Remove, BulkImport, Change, indexVars
  <1>8. ASSUME NEW m \in queue, Finish(m) \/ Redeliver(m) PROVE index' = index
    BY <1>8 DEF Finish, Redeliver
  <1>9. ASSUME NEW r \in Runs,
               \/ BeginPull(r) \/ ListPage(r) \/ (\E c \in ids[r] : ReadProduct(r, c))
               \/ EndPage(r) \/ Announce(r) \/ RecordSync(r) \/ AbortPull(r)
        PROVE  index' = index
    BY <1>9 DEF BeginPull, ListPage, ReadProduct, EndPage, Announce, RecordSync, AbortPull, indexVars
  <1>10. ASSUME UNCHANGED syncVars PROVE index' = index
    BY <1>10 DEF syncVars, indexVars
  <1> QED
    BY <1>2, <1>4, <1>5, <1>6, <1>7, <1>8, <1>9, <1>10
    DEF SyncNext, WorkerStep, PullStep, Sweep, SyncNow

\* The exceptions of a product are those it had, unless it changes.
LEMMA SameExceptions ==
    ASSUME SyncInv, [SyncNext]_syncVars, NEW p \in Products, UNCHANGED store[p],
           p \notin removed', p \notin tied', p \notin skewed'
    PROVE  p \notin removed /\ p \notin tied /\ p \notin skewed
  <1>1. ASSUME NEW q \in Products, NEW tick \in {0, 1}, NEW delivered \in BOOLEAN,
               NEW listed \in BOOLEAN, NEW kind, Change(q, listed, kind, tick, delivered)
        PROVE  p \notin removed /\ p \notin tied /\ p \notin skewed
    <2>1. removed \subseteq removed' /\ skewed \subseteq skewed' /\ tied' \in {tied \cup {q}, tied \ {q}}
      BY <1>1 DEF Change, Pushed
    <2>2. q # p
      <3>1. edits' = edits + 1 /\ edits \in Nat /\ store[p].rev <= edits /\ store[p].rev \in Nat
        BY <1>1, Fields DEF Change, Edit, SyncInv, StoreInv
      <3>2. q = p => store'[p].rev = edits'
        BY <1>1 DEF Change, SyncInv, SyncTypeOK
      <3> QED
        BY <3>1, <3>2
    <2> QED
      BY <2>1, <2>2
  <1>2. ASSUME UNCHANGED <<removed, tied, skewed>> PROVE p \notin removed /\ p \notin tied /\ p \notin skewed
    BY <1>2
  <1>3. ASSUME NEW q \in Products, BulkImport(q) \/ ForgetTombstone(q)
        PROVE  UNCHANGED <<removed, tied>> /\ skewed \subseteq skewed'
    BY <1>3 DEF BulkImport, ForgetTombstone, storeVars, Pushed
  <1>4. ASSUME NEW m \in queue, Deliver(m) \/ Finish(m) \/ Redeliver(m) \/ Fail(m)
        PROVE  UNCHANGED <<removed, tied, skewed>>
    BY <1>4 DEF Deliver, Finish, Redeliver, Fail, storeVars
  <1>5. ASSUME NEW r \in Runs,
               \/ BeginPull(r) \/ ListPage(r) \/ (\E c \in ids[r] : ReadProduct(r, c))
               \/ (\E row \in rows[r] : ApplyRow(r, row))
               \/ EndPage(r) \/ Announce(r) \/ RecordSync(r) \/ AbortPull(r)
        PROVE  UNCHANGED <<removed, tied, skewed>>
    BY <1>5
    DEF BeginPull, ListPage, ReadProduct, ApplyRow, EndPage, Announce, RecordSync, AbortPull,
        storeVars
  <1>6. ASSUME UNCHANGED syncVars PROVE UNCHANGED <<removed, tied, skewed>>
    BY <1>6 DEF syncVars, storeVars
  <1> QED
    BY <1>1, <1>2, <1>3, <1>4, <1>5, <1>6
    DEF SyncNext, Save, Hide, Remove, WorkerStep, PullStep, Sweep, SyncNow

\* Posts that are late or come twice and pages of slow runs never take the last change of
\* a product out of the index again: its version is the change's date, which no write
\* lowers and none can pass.
THEOREM LastChangesStay == SyncSpec => WritesNeverSetBack
  <1>1. SyncInv /\ SyncInv' /\ [SyncNext]_syncVars =>
          [\A p \in Products \ (removed \cup tied \cup skewed)' :
             UpToDate(p) /\ UNCHANGED store[p] => UpToDate(p)']_syncVars
    <2> SUFFICES ASSUME SyncInv, SyncInv', [SyncNext]_syncVars,
                        NEW p \in Products, p \notin removed', p \notin tied', p \notin skewed',
                        UpToDate(p), UNCHANGED store[p]
                 PROVE  UpToDate(p)'
      OBVIOUS
    <2>1. p \notin removed /\ p \notin tied /\ p \notin skewed
      BY SameExceptions
    <2>2. index'[p].version >= index[p].version /\ index[p].version = store[p].at
      BY <2>1, VersionsGrow DEF SyncInv, IndexInv
    <2>3. /\ index'[p].version <= store'[p].at
          /\ index'[p].version = store'[p].at => UpToDate(p)'
      BY DEF SyncInv, IndexInv
    <2>4. index[p].version \in Int /\ index'[p].version \in Int
      <3>1. SyncTypeOK /\ SyncTypeOK'
        BY DEF SyncInv
      <3> QED
        BY <3>1, Fields DEF SyncTypeOK
    <2> QED
      BY <2>2, <2>3, <2>4
  <1>2. SyncInv /\ [SyncNext]_syncVars => SyncInv'
    BY SyncSteps
  <1> QED
    BY SyncInvariance, <1>1, <1>2, PTL DEF SyncSpec, WritesNeverSetBack

=============================================================================
