------------------------------ MODULE Indices -------------------------------
(***************************************************************************)
(* The search indices behind an alias: bootstrap by several workers at     *)
(* startup, the operator's reindex, alias and delete requests, and the     *)
(* sync tasks that write products and orders through the alias meanwhile.  *)
(* Elasticsearch is external; of it the module assumes that one call is    *)
(* atomic, that a reindex copies, without versions, what the source's last *)
(* refresh made visible, that a write through an alias of two indices is   *)
(* refused, that one through a name nobody made makes an index of it, that *)
(* a deleted document's version is forgotten with it (CatalogSync has the  *)
(* minute in which it is not), that the removal of an alias that is not    *)
(* there is passed over beside an addition, and that an index leaves its   *)
(* aliases when it is deleted.                                             *)
(***************************************************************************)
EXTENDS Integers, FiniteSets

CONSTANTS
    Docs,        \* document ids, "tenant:product" or "tenant:order"
    Requests,    \* concurrent index operations
    MaxIndices,  \* bound: concrete indices ever made
    MaxVersion,  \* bound: times the store changes a document
    LastSecond,  \* bound: the store's clock, in whole seconds
    MaxTasks,    \* bound: sync tasks waiting at once
    MaxFaults,   \* bound: alias reads that fail
    MaxStarts,   \* bound: index operations begun
    Scopes       \* the combinations of the first, second and fifth bound to explore

ASSUME IndicesAssumption ==
    /\ MaxIndices \in Nat /\ MaxVersion \in Nat /\ MaxTasks \in Nat
    /\ MaxFaults \in Nat /\ MaxStarts \in Nat /\ LastSecond \in Nat \ {0, 1}
    /\ Scopes \subseteq [indices: 0..MaxIndices, versions: 0..MaxVersion, faults: 0..MaxFaults]

\* Concrete indices in the order they were made; AliasName is the index that would
\* carry the alias's own name.
AliasName == 0
Index == 0..MaxIndices

\* Seconds of the store's clock: far above 1, the version of a document that was written
\* or copied without one.
FirstSecond == 2
Second == FirstSecond..LastSecond

\* A document as an index has it: its version (0 absent), the guard, which is the second
\* of the write or what was counted up from it, and the version the last refresh made
\* visible.
Document == [ver: 0..MaxVersion, guard: 0..(LastSecond + 1), shown: 0..MaxVersion]
Fresh == [ver |-> 0, guard |-> 0, shown |-> 0]
Empty == [d \in Docs |-> Fresh]

VARIABLES
    scope,   \* the combination of bounds explored
    exists,  \* concrete indices
    alias,   \* those the alias points at
    content, \* by index and document, what the index has of it
    made,    \* indices made so far
    source,  \* by document, the version in the store
    dates,   \* by document and version, the second in which the store changed it
    tasks,   \* sync tasks queued or to be redelivered; version 0 is a deletion
    req,     \* the index operations
    starts,  \* operations begun
    faults,  \* alias reads that failed
    acked,   \* history: by document, what the acknowledged writes amount to
    established, \* history: the alias has been set
    astray,  \* history: the alias was written, or its index deleted, on outdated grounds
    excused  \* history: documents that an operation has put at risk

outside == <<scope, source, dates>>
esVars == <<exists, alias, content, made>>
history == <<acked, established, astray, excused>>
idxVars == <<esVars, outside, tasks, req, starts, faults, history>>

Ops == {"idle", "ensure", "reindex", "point", "delete"}
Steps == {"idle", "create", "copy", "get", "update", "delete"}
\* target: the index to point at, delete, or copy from; new: the index made;
\* seen: what the alias read returned; failed: the read raised.
Request == [op: Ops, at: Steps, target: Index, new: Index, seen: SUBSET Index,
            failed: BOOLEAN]
Idle == [op |-> "idle", at |-> "idle", target |-> 0, new |-> 0, seen |-> {}, failed |-> FALSE]
Task == [doc: Docs, ver: 0..MaxVersion, dated: BOOLEAN]

Begin(r, request) ==
    /\ req[r].op = "idle" /\ starts < MaxStarts
    /\ starts' = starts + 1
    /\ req' = [req EXCEPT ![r] = request]
Goto(r, step) == req' = [req EXCEPT ![r].at = step]
Done(r) == req' = [req EXCEPT ![r] = Idle]

\* Where the name resolves to.
Target == IF alias # {} THEN alias ELSE exists \cap {AliasName}

\* What a read of the alias may return: an exception, a name nobody made and a concrete
\* index of that name all come back as nothing.
AliasReads ==
    {[seen |-> alias, failed |-> FALSE]}
      \cup {[seen |-> {}, failed |-> TRUE] : fault \in (faults + 1)..scope.faults}
Charged(read) == faults' = faults + IF read.failed THEN 1 ELSE 0

-----------------------------------------------------------------------------
(* Index operations, call by call.                                         *)

\* ensure_catalogue_index, ensure_orders_index: every API worker at startup, or the
\* operator's button. Nothing is done if the alias resolves.
EnsureStarts(r) ==
    /\ Begin(r, [Idle EXCEPT !.op = "ensure", !.at = "create"])
    /\ \E read \in AliasReads :
        /\ read.seen = {}
        /\ Charged(read)
    /\ UNCHANGED <<esVars, outside, tasks, history>>

ReindexStarts(r, i) ==
    /\ Begin(r, [Idle EXCEPT !.op = "reindex", !.at = "create", !.target = i])
    /\ i \in exists
    /\ UNCHANGED <<esVars, outside, tasks, faults, history>>

PointStarts(r, i) ==
    /\ Begin(r, [Idle EXCEPT !.op = "point", !.at = "get", !.new = i])
    /\ i \in exists \ {AliasName}
    /\ UNCHANGED <<esVars, outside, tasks, faults, history>>

\* The live indices are listed, and the request refused if its own is among them. A
\* listing that raises is an empty one.
DeleteStarts(r, i) ==
    /\ i \in exists
    /\ \E read \in AliasReads :
        /\ i \notin read.seen
        /\ Charged(read)
        /\ Begin(r, [op |-> "delete", at |-> "delete", target |-> i, new |-> 0,
                     seen |-> read.seen, failed |-> read.failed])
    /\ UNCHANGED <<esVars, outside, tasks, history>>

\* Names are made from the second: a second index of that second is refused.
CreateIndex(r) ==
    /\ req[r].at = "create"
    /\ made < scope.indices
    /\ made' = made + 1
    /\ exists' = exists \cup {made + 1}
    /\ content' = [content EXCEPT ![made + 1] = Empty]
    /\ req' = [req EXCEPT ![r].new = made + 1,
                          ![r].at = IF req[r].op = "reindex" THEN "copy" ELSE "get"]
    /\ UNCHANGED <<alias, outside, tasks, faults, history, starts>>

CreateRefused(r) ==
    /\ req[r].at = "create"
    /\ Done(r)
    /\ UNCHANGED <<esVars, outside, tasks, faults, history, starts>>

\* A reindex scrolls over what the last refresh made visible, and refreshes neither index.
\* The copies start versions of their own.
Copies(i) ==
    [d \in Docs |-> LET shown == content[i][d].shown
                    IN [ver |-> shown, guard |-> IF shown = 0 THEN 0 ELSE 1, shown |-> 0]]

\* Acknowledged, and not visible yet.
Unrefreshed(i) == {d \in Docs : content[i][d].ver # content[i][d].shown}

\* Documents copied into an index that was deleted meanwhile make it anew. Copying an
\* index that is not the live one puts every document at risk, copying one before a
\* refresh those written since the last.
Copy(r) ==
    /\ req[r].at = "copy"
    /\ req[r].target \in exists
    /\ content' = [content EXCEPT ![req[r].new] = Copies(req[r].target)]
    /\ exists' = exists \cup {i \in {req[r].new} :
                                \E d \in Docs : content[req[r].target][d].shown # 0}
    /\ excused' = IF Target = {req[r].target}
                     THEN excused \cup Unrefreshed(req[r].target) ELSE Docs
    /\ Goto(r, "get")
    /\ UNCHANGED <<alias, made, outside, tasks, faults, acked, established, astray, starts>>

\* The source is gone, or the client's five seconds are over.
CopyFails(r) ==
    /\ req[r].at = "copy"
    /\ Done(r)
    /\ UNCHANGED <<esVars, outside, tasks, faults, history, starts>>

GetAlias(r) ==
    /\ req[r].at = "get"
    /\ \E read \in AliasReads :
        /\ Charged(read)
        /\ req' = [req EXCEPT ![r].at = "update", ![r].seen = read.seen,
                              ![r].failed = read.failed]
    /\ UNCHANGED <<esVars, outside, tasks, history, starts>>

\* Mutant of Replaced: the indices that had the alias keep it.
ReplacedNothing(r) == {}

\* The indices update_aliases takes the alias from.
Replaced(r) == req[r].seen \ {req[r].new}

\* update_aliases is atomic but acts on what get_alias saw: an alias that is no longer
\* there to remove is passed over, and an index that is gone or has the alias's name
\* refuses the whole. Only a reindex vouches for the documents of the index it points
\* at.
UpdateAliases(r) ==
    LET old == Replaced(r)
    IN /\ req[r].at = "update"
       /\ old \subseteq exists /\ req[r].new \in exists /\ AliasName \notin exists
       /\ alias' = (alias \ old) \cup {req[r].new}
       /\ established' = TRUE
       /\ astray' = (astray \/ alias # req[r].seen)
       /\ excused' = IF ~established \/ req[r].op = "reindex" \/ alias = {req[r].new}
                      THEN excused ELSE Docs
       /\ Done(r)
       /\ UNCHANGED <<exists, content, made, outside, tasks, faults, acked, starts>>

UpdateRefused(r) ==
    LET old == Replaced(r)
    IN /\ req[r].at = "update"
       /\ ~(old \subseteq exists) \/ req[r].new \notin exists \/ AliasName \in exists
       /\ Done(r)
       /\ UNCHANGED <<esVars, outside, tasks, faults, history, starts>>

\* Mutant of Unaliased: the alias keeps naming an index that is gone.
StillAliased(i) == alias

Unaliased(i) == alias \ {i}

DeleteIndex(r) ==
    LET i == req[r].target
    IN /\ req[r].at = "delete"
       /\ exists' = exists \ {i}
       /\ alias' = Unaliased(i)
       /\ content' = [content EXCEPT ![i] = Empty]
       /\ astray' = (astray \/ (i \in alias /\ (req[r].failed \/ i \notin req[r].seen)))
       /\ excused' = IF i \in Target THEN Docs ELSE excused
       /\ Done(r)
       /\ UNCHANGED <<made, outside, tasks, faults, acked, established, starts>>

-----------------------------------------------------------------------------
(* The store changes documents; tasks carry the changes to the index.      *)

\* normalize_order: a payload without a time of change is an undated one.
Push(d, ver) ==
    /\ Cardinality(tasks) < MaxTasks
    /\ \E dated \in IF ver = 0 THEN {FALSE} ELSE BOOLEAN :
          tasks' = tasks \cup {[doc |-> d, ver |-> ver, dated |-> dated]}

\* The clock has moved on since the document's last change, or not by a second. Seconds
\* count from the document's first.
Change(d) ==
    /\ source[d] < scope.versions
    /\ source' = [source EXCEPT ![d] = @ + 1]
    /\ \E second \in dates[d][source[d]]..(IF source[d] = 0 THEN FirstSecond ELSE LastSecond) :
          dates' = [dates EXCEPT ![d] =
                      [v \in 0..MaxVersion |-> IF v <= source[d] THEN @[v] ELSE second]]
    /\ Push(d, 0) \/ Push(d, source[d] + 1)
    /\ UNCHANGED <<scope, esVars, req, faults, history, starts>>

\* sync_order_bulk, sync_bulk: the store sends what it has once more.
Backfill(d) ==
    /\ source[d] # 0
    /\ Push(d, source[d])
    /\ UNCHANGED <<esVars, outside, req, faults, history, starts>>

\* Elasticsearch refreshes an index about once a second, and nothing waits for it.
Refresh(i) ==
    /\ i \in exists
    /\ content' = [content EXCEPT ![i] =
                     [d \in Docs |-> [@[d] EXCEPT !.shown = content[i][d].ver]]]
    /\ UNCHANGED <<exists, alias, made, outside, tasks, req, faults, history, starts>>

\* A write without a date counts the version up. One that never had a date stays far
\* below the first second; beyond the last all are alike.
CountedUp(guard) ==
    IF guard < FirstSecond THEN 1 ELSE IF guard > LastSecond THEN guard ELSE guard + 1

\* _version_from: the date of change in whole seconds.
SecondOf(t) == dates[t.doc][t.ver]

\* Mutant of Written: the version of a write is not compared.
WrittenUnguarded(old, t) ==
    IF t.ver = 0 THEN [Fresh EXCEPT !.shown = old.shown]
    ELSE [old EXCEPT !.ver = t.ver, !.guard = SecondOf(t)]

\* What an index holds of a document after a write, which external_gte refuses if its
\* second is before the guard. A refresh shows it later.
Written(old, t) ==
    IF t.ver = 0 THEN [Fresh EXCEPT !.shown = old.shown]
    ELSE IF ~t.dated THEN [old EXCEPT !.ver = t.ver, !.guard = CountedUp(@)]
    ELSE IF SecondOf(t) < old.guard THEN old
    ELSE [old EXCEPT !.ver = t.ver, !.guard = SecondOf(t)]

\* A reindex that has copied and not yet swapped.
Copied == \E r \in Requests : req[r].op = "reindex" /\ req[r].at \in {"get", "update"}

\* The guard cannot tell the write's age: an older change without a date, or of the same
\* second as the newest, or beside a newest that came without one or whose second a copy
\* has lost; a newer change after undated writes have counted the guard past that second.
Misjudged(i, t) ==
    LET newest == acked[t.doc]
        guard == content[i][t.doc].guard
    IN \/ /\ t.ver \in 1..(newest - 1)
          /\ \/ ~t.dated
             \/ guard < dates[t.doc][newest] \/ SecondOf(t) = dates[t.doc][newest]
       \/ t.ver > newest /\ t.dated /\ guard > dates[t.doc][newest]

\* upsert_order, upsert_product and the tombstones: the version guard is the index's.
\* A task whose worker dies after the write is delivered again.
TaskWrites(t) ==
    \E i \in Index, again \in BOOLEAN :
        /\ Target = {i}
        /\ content' = [content EXCEPT ![i][t.doc] = Written(@, t)]
        /\ acked' = [acked EXCEPT ![t.doc] = IF t.ver = 0 \/ t.ver >= @ THEN t.ver ELSE @]
        /\ excused' = IF Copied \/ Misjudged(i, t) THEN excused \cup {t.doc} ELSE excused
        /\ tasks' = IF again THEN tasks ELSE tasks \ {t}
        /\ UNCHANGED <<exists, alias, made, outside, req, faults, established, astray, starts>>

\* Nobody has made the alias yet: Elasticsearch makes an index of its name. A deletion
\* does not.
TaskMakesIndex(t) ==
    /\ Target = {} /\ t.ver # 0
    /\ exists' = exists \cup {AliasName}
    /\ UNCHANGED <<alias, content, made, outside, tasks, req, faults, history, starts>>

\* Two indices behind the alias, or none to delete from: the task raises until its
\* retries are used up and is then gone.
TaskGivenUp(t) ==
    /\ Cardinality(Target) # 1
    /\ tasks' = tasks \ {t}
    /\ UNCHANGED <<esVars, outside, req, faults, history, starts>>

-----------------------------------------------------------------------------
IdxInit ==
    /\ scope \in Scopes
    /\ exists = {} /\ alias = {} /\ made = 0
    /\ content = [i \in Index |-> Empty]
    /\ source = [d \in Docs |-> 0]
    /\ dates = [d \in Docs |-> [v \in 0..MaxVersion |-> FirstSecond]]
    /\ tasks = {}
    /\ req = [r \in Requests |-> Idle]
    /\ starts = 0 /\ faults = 0
    /\ acked = [d \in Docs |-> 0]
    /\ established = FALSE /\ astray = FALSE /\ excused = {}

RequestStep(r) ==
    \/ EnsureStarts(r)
    \/ \E i \in exists : ReindexStarts(r, i) \/ PointStarts(r, i) \/ DeleteStarts(r, i)
    \/ CreateIndex(r) \/ CreateRefused(r) \/ Copy(r) \/ CopyFails(r)
    \/ GetAlias(r) \/ UpdateAliases(r) \/ UpdateRefused(r) \/ DeleteIndex(r)

IdxNext ==
    \/ \E r \in Requests : RequestStep(r)
    \/ \E i \in exists : Refresh(i)
    \/ \E d \in Docs : Change(d) \/ Backfill(d)
    \/ \E t \in tasks : TaskWrites(t) \/ TaskMakesIndex(t) \/ TaskGivenUp(t)

IdxSpec == IdxInit /\ [][IdxNext]_idxVars

-----------------------------------------------------------------------------
(* Properties.                                                             *)

IdxTypeOK ==
    /\ scope \in Scopes
    /\ alias \subseteq exists /\ exists \subseteq Index /\ AliasName \notin alias
    /\ content \in [Index -> [Docs -> Document]]
    /\ made \in Index /\ source \in [Docs -> 0..MaxVersion] /\ tasks \subseteq Task
    /\ dates \in [Docs -> [0..MaxVersion -> Second]]
    /\ req \in [Requests -> Request] /\ faults \in 0..scope.faults /\ starts \in 0..MaxStarts
    /\ acked \in [Docs -> 0..MaxVersion] /\ established \in BOOLEAN
    /\ astray \in BOOLEAN /\ excused \subseteq Docs

\* "Atomically point alias at to_index, removing it from any other", and "refuses to
\* delete an index that the read alias currently points at": once it is set the alias
\* names exactly one index, whatever operations cross, unless one of them acted on a
\* reading of the alias that failed or that another had outdated.
AliasNamesOneIndex == established => Cardinality(alias) = 1 \/ astray

\* "Zero downtime", "re-delivering an old event is a no-op": the index behind the alias
\* holds of every document the newest version written since its last deletion, through
\* any number of reindexes and swaps. Excused are the documents an operator or a race
\* put at risk: the alias pointed at an index that nobody copied from the live one, a
\* copy of another index, or one made before a refresh showed the write, a write between
\* the copy and the swap, and a write that the guard misjudges.
LiveHasEverything ==
    \A d \in Docs \ excused, i \in Index : Target = {i} => content[i][d].ver = acked[d]

=============================================================================
