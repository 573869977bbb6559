-------------------------- MODULE ProviderRegistry --------------------------
(***************************************************************************)
(* The provider registry: the ai_models / ai_providers / ai_routes tables  *)
(* the operator edits, each process's cached snapshot of them, and the     *)
(* calls that walk the chain of a task. A snapshot is loaded by the first  *)
(* call that finds none or an expired one, by several queries outside any  *)
(* transaction; calls of a process are coroutines that interleave at every *)
(* await. The operator's edits reach one process by invalidate() and the   *)
(* others only when their snapshot expires.                                *)
(* Task "chat" stands for chat and analyst, "embedding" for embedding.     *)
(***************************************************************************)
EXTENDS Integers

CONSTANTS
    Models,         \* ids of ai_models rows
    Providers,      \* ids of ai_providers rows
    ProviderOf,     \* ai_models.provider_id, which nothing changes
    Retries,        \* ai_providers.max_retries, by model served
    EnvLocalModel,  \* settings.llm_model at LLM_URL; the local embedding model likewise
    EnvFrontierModel, \* settings.frontier_model
    EnvFrontier,    \* settings.frontier_enabled and frontier_url set
    NoModel,        \* no cache key yet, nothing cached
    NoSnap,         \* ProviderRegistry._snap is None
    Procs,          \* processes, each with a registry of its own
    ApiProcs,       \* those that serve the operator's requests
    Callers,        \* concurrent calls
    ProcOf,         \* where each runs
    Admins,         \* concurrent operator requests
    Model0, Prov0, Route0, \* the tables of a deployment someone configured
    MaxChain,       \* bound of put_route: at most 10 model ids
    MaxEdits,       \* bound: committed edits
    MaxOutages      \* bound: loads that fail

Tasks == {"chat", "embedding"}
EnvModels == {EnvLocalModel, EnvFrontierModel}
ModelRow == [live: BOOLEAN, enabled: BOOLEAN, modality: Tasks]
ProviderRow == [enabled: BOOLEAN, local: BOOLEAN]
RouteRow == [at: 0..(MaxChain - 1), model: Models]

ASSUME RegistryAssumption ==
    /\ MaxChain \in 1..10
    /\ MaxEdits \in Nat /\ MaxOutages \in Nat
    /\ ProviderOf \in [Models -> Providers]
    /\ Retries \in [Models \cup EnvModels -> Nat]
    /\ EnvModels \cap Models = {}
    /\ EnvFrontier \in BOOLEAN
    /\ NoModel \notin Models \cup EnvModels
    /\ ApiProcs \subseteq Procs
    /\ ProcOf \in [Callers -> Procs]
    /\ Model0 \in [Models -> ModelRow]
    /\ Prov0 \in [Providers -> ProviderRow]
    /\ Route0 \in [Tasks -> SUBSET RouteRow]
    /\ \A t \in Tasks : \A r \in Route0[t] :
          Model0[r.model].live /\ \A q \in Route0[t] : q.at = r.at => q = r

VARIABLES
    model,    \* ai_models: exists, enabled, modality
    prov,     \* ai_providers: enabled, is_local
    route,    \* ai_routes: by task, a set of positions with their model
    switch,   \* ai_routing_settings.failover_enabled
    snap,     \* ProviderRegistry._snap, by process
    fresh,    \* its age is below the TTL
    cached,   \* Redis: by the model in the key, the model whose vector is stored
    pc,       \* where each call stands
    task,     \* the chain it is for
    load,     \* the rows a loading call has fetched
    chain,    \* the endpoints a call got
    at,       \* the position it tries
    tries,    \* retries of that endpoint so far
    prefer,   \* generate(prefer_local=...)
    key,      \* embed_one's cache key
    adm,      \* where each operator request stands
    version,  \* ghost: committed edits
    putAt,    \* ghost: the edit that last wrote a task's route
    tried,    \* ghost: the endpoints the call has attempted
    outages   \* ghost: loads that failed

tables == <<model, prov, route, switch>>
registry == <<snap, fresh, outages>>
callVars == <<pc, task, load, chain, at, tries, prefer, key, tried>>
adminVars == <<adm, version, putAt>>
regVars == <<tables, registry, cached, callVars, adminVars>>

\* One endpoint of a chain. Position MaxChain is behind every routed one.
Position == 0..MaxChain
Endpoint == [at: Position, model: Models \cup EnvModels, local: BOOLEAN]
Snapshot == [chat: SUBSET Endpoint, embedding: SUBSET Endpoint, switch: BOOLEAN,
             torn: BOOLEAN] \* ghost: a table changed during the load, or none was read

Fetching == {"chat_rows", "embedding_rows", "switch_row"}
IdleRequest == [pc |-> "idle", model |-> NoModel, provider |-> {}, at |-> 0]

\* The tables, the snapshots and the calls are well formed.
RegTypeOK ==
    /\ model \in [Models -> ModelRow]
    /\ prov \in [Providers -> ProviderRow]
    /\ route \in [Tasks -> SUBSET RouteRow]
    /\ switch \in BOOLEAN
    /\ snap \in [Procs -> Snapshot \cup {NoSnap}]
    /\ fresh \in [Procs -> BOOLEAN]
    /\ cached \in [Models \cup EnvModels -> Models \cup EnvModels \cup {NoModel}]
    /\ pc \in [Callers -> {"idle", "lookup", "try", "failed"} \cup Fetching]
    /\ task \in [Callers -> Tasks]
    /\ load \in [Callers -> Snapshot]
    /\ chain \in [Callers -> SUBSET Endpoint]
    /\ at \in [Callers -> Position]
    /\ tries \in [Callers -> Nat]
    /\ prefer \in [Callers -> BOOLEAN]
    /\ key \in [Callers -> Models \cup EnvModels \cup {NoModel}]
    /\ adm \in [Admins -> [pc: {"idle", "delete", "invalidate"}, model: Models \cup {NoModel},
                           provider: SUBSET Providers, at: Nat]]
    /\ version \in Nat
    /\ putAt \in [Tasks -> Nat]
    /\ tried \in [Callers -> SUBSET Endpoint]
    /\ outages \in Nat

-----------------------------------------------------------------------------
\* RegistrySnapshot(): what a process without a database works from.
EmptySnapshot(torn) == [chat |-> {}, embedding |-> {}, switch |-> TRUE, torn |-> torn]

\* The rows one of _load's queries returns for a task: the routed models of its
\* modality that are enabled, as is their provider.
Rows(t) ==
    {[at |-> r.at, model |-> r.model, local |-> prov[ProviderOf[r.model]].local] :
        r \in {r \in route[t] : /\ model[r.model].enabled
                                /\ model[r.model].modality = t
                                /\ prov[ProviderOf[r.model]].enabled}}

Lowest(E) == CHOOSE e \in E : \A f \in E : e.at <= f.at
Highest(E) == CHOOSE e \in E : \A f \in E : f.at <= e.at

EnvLocal == [at |-> MaxChain, model |-> EnvLocalModel, local |-> TRUE]
EnvChain ==
    {EnvLocal} \cup
    IF EnvFrontier THEN {[at |-> 0, model |-> EnvFrontierModel, local |-> FALSE]} ELSE {}

\* Mutant of Toggled: with the switch off there is no local endpoint behind the primary.
ToggledToPrimary(E, on) == IF on THEN E ELSE {Lowest(E)}

\* _apply_failover_toggle: with the switch off, the primary and, unless it is local,
\* the first local endpoint behind it.
Toggled(E, on) ==
    LET primary == Lowest(E)
        locals  == {e \in E \ {primary} : e.local}
    IN IF on THEN E
       ELSE {primary} \cup IF primary.local \/ locals = {} THEN {} ELSE {Lowest(locals)}

\* registry.endpoints and registry.embedding_endpoints.
ChatChain(s) ==
    IF s.chat = {} THEN EnvChain
    ELSE Toggled(IF Highest(s.chat).local THEN s.chat ELSE s.chat \cup {EnvLocal}, s.switch)

EmbeddingChain(s) == Toggled(IF s.embedding = {} THEN {EnvLocal} ELSE s.embedding, s.switch)

ChainOf(t, s) == IF t = "chat" THEN ChatChain(s) ELSE EmbeddingChain(s)

\* The endpoints generate() goes through: all of them, or the local ones.
Eligible(c, E) == {e \in E : prefer[c] => e.local}
Ahead(c) == {e \in Eligible(c, chain[c]) : e.at > at[c]}
IsFirst(e, E) == e \in E /\ \A f \in E : e.at <= f.at
Current(c) == CHOOSE e \in Eligible(c, chain[c]) : e.at = at[c]

RegInit ==
    /\ model = Model0
    /\ prov = Prov0
    /\ route = Route0
    /\ switch = TRUE
    /\ snap = [p \in Procs |-> NoSnap]
    /\ fresh = [p \in Procs |-> FALSE]
    /\ cached = [m \in Models \cup EnvModels |-> NoModel]
    /\ pc = [c \in Callers |-> "idle"]
    /\ task = [c \in Callers |-> "chat"]
    /\ load = [c \in Callers |-> EmptySnapshot(FALSE)]
    /\ chain = [c \in Callers |-> {}]
    /\ at = [c \in Callers |-> 0]
    /\ tries = [c \in Callers |-> 0]
    /\ prefer = [c \in Callers |-> FALSE]
    /\ key = [c \in Callers |-> NoModel]
    /\ tried = [c \in Callers |-> {}]
    /\ adm = [a \in Admins |-> IdleRequest]
    /\ version = 0
    /\ putAt = [t \in Tasks |-> 0]
    /\ outages = 0

-----------------------------------------------------------------------------
\* Calls. What a call does as soon as it has its snapshot: embed_one first names its
\* cache key after the primary endpoint; otherwise the walk of the chain begins.
UseAs(c, t, s, preferred) ==
    /\ task' = [task EXCEPT ![c] = t]
    /\ load' = [load EXCEPT ![c] = EmptySnapshot(FALSE)]
    /\ prefer' = [prefer EXCEPT ![c] = preferred]
    /\ IF t = "embedding" /\ key[c] = NoModel
       THEN /\ pc' = [pc EXCEPT ![c] = "lookup"]
            /\ key' = [key EXCEPT ![c] = Lowest(EmbeddingChain(s)).model]
            /\ UNCHANGED <<chain, at, tries, tried>>
       ELSE \E e \in ChainOf(t, s) :
               /\ IsFirst(e, {f \in ChainOf(t, s) : preferred => f.local})
               /\ pc' = [pc EXCEPT ![c] = "try"]
               /\ chain' = [chain EXCEPT ![c] = ChainOf(t, s)]
               /\ at' = [at EXCEPT ![c] = e.at]
               /\ tries' = [tries EXCEPT ![c] = 0]
               /\ tried' = [tried EXCEPT ![c] = {}]
               /\ UNCHANGED key

\* Mutant of AskSnapshot: the snapshot's age is not looked at.
AskUnaged(c, t, preferred) ==
    LET s == snap[ProcOf[c]] IN
    /\ IF s # NoSnap
       THEN UseAs(c, t, s, preferred)
       ELSE /\ pc' = [pc EXCEPT ![c] = "chat_rows"]
            /\ task' = [task EXCEPT ![c] = t]
            /\ prefer' = [prefer EXCEPT ![c] = preferred]
            /\ UNCHANGED <<load, chain, at, tries, key, tried>>
    /\ UNCHANGED <<tables, registry, cached, adminVars>>

\* snapshot(): the process's own if it is younger than the TTL, or else a load.
AskSnapshot(c, t, preferred) ==
    LET s == snap[ProcOf[c]] IN
    /\ IF s # NoSnap /\ fresh[ProcOf[c]]
       THEN UseAs(c, t, s, preferred)
       ELSE /\ pc' = [pc EXCEPT ![c] = "chat_rows"]
            /\ task' = [task EXCEPT ![c] = t]
            /\ prefer' = [prefer EXCEPT ![c] = preferred]
            /\ UNCHANGED <<load, chain, at, tries, key, tried>>
    /\ UNCHANGED <<tables, registry, cached, adminVars>>

\* A turn, an analyst question or a text to embed.
Begin(c) ==
    /\ pc[c] \in {"idle", "failed"}
    /\ \E t \in Tasks, preferred \in BOOLEAN :
          /\ preferred => t = "chat"
          /\ AskSnapshot(c, t, preferred)

\* The call returns, and with it its local variables.
Returns(c, failures) ==
    /\ pc' = [pc EXCEPT ![c] = IF failures = {} THEN "idle" ELSE "failed"]
    /\ task' = [task EXCEPT ![c] = IF failures = {} THEN "chat" ELSE @]
    /\ chain' = [chain EXCEPT ![c] = {}]
    /\ at' = [at EXCEPT ![c] = 0]
    /\ tries' = [tries EXCEPT ![c] = 0]
    /\ prefer' = [prefer EXCEPT ![c] = FALSE]
    /\ key' = [key EXCEPT ![c] = NoModel]
    /\ tried' = [tried EXCEPT ![c] = failures]

\* cache_get; a cache that does not answer is a miss.
Stored(k) == cached[k] # NoModel

\* embed_one finds its text in the cache, or asks for the chain once more.
CacheHit(c) ==
    /\ pc[c] = "lookup"
    /\ Stored(key[c])
    /\ Returns(c, {})
    /\ UNCHANGED <<tables, registry, cached, load, adminVars>>

CacheMiss(c) ==
    /\ pc[c] = "lookup"
    /\ AskSnapshot(c, task[c], FALSE)

\* _load, one query at a time.
FetchChat(c) ==
    /\ pc[c] = "chat_rows"
    /\ load' = [load EXCEPT ![c].chat = Rows("chat")]
    /\ pc' = [pc EXCEPT ![c] = "embedding_rows"]
    /\ UNCHANGED <<tables, registry, cached, chain, at, tries, prefer, key, tried, task, adminVars>>

FetchEmbedding(c) ==
    /\ pc[c] = "embedding_rows"
    /\ load' = [load EXCEPT ![c].embedding = Rows("embedding")]
    /\ pc' = [pc EXCEPT ![c] = "switch_row"]
    /\ UNCHANGED <<tables, registry, cached, chain, at, tries, prefer, key, tried, task, adminVars>>

\* The last query; the new snapshot replaces whatever the process has by now.
FetchSwitch(c) ==
    LET s == [load[c] EXCEPT !.switch = switch] IN
    /\ pc[c] = "switch_row"
    /\ snap' = [snap EXCEPT ![ProcOf[c]] = s]
    /\ fresh' = [fresh EXCEPT ![ProcOf[c]] = TRUE]
    /\ UseAs(c, task[c], s, prefer[c])
    /\ UNCHANGED <<tables, outages, cached, adminVars>>

\* A query fails: the process's snapshot serves on, whatever its age; a process that
\* has none keeps an empty one, for a full TTL.
LoadFails(c) ==
    LET p == ProcOf[c] IN
    /\ pc[c] \in Fetching
    /\ outages < MaxOutages
    /\ outages' = outages + 1
    /\ IF snap[p] # NoSnap
       THEN UseAs(c, task[c], snap[p], prefer[c]) /\ UNCHANGED <<snap, fresh>>
       ELSE /\ snap' = [snap EXCEPT ![p] = EmptySnapshot(TRUE)]
            /\ fresh' = [fresh EXCEPT ![p] = TRUE]
            /\ UseAs(c, task[c], EmptySnapshot(TRUE), prefer[c])
    /\ UNCHANGED <<tables, cached, adminVars>>

\* The endpoint answers. embed_one stores the vector under its key, if the cache
\* takes it; a batch (embed) neither looks there nor stores.
Answer(c) ==
    /\ pc[c] = "try"
    /\ \/ UNCHANGED cached
       \/ task[c] = "embedding" /\ cached' = [cached EXCEPT ![key[c]] = Current(c).model]
    /\ Returns(c, {})
    /\ UNCHANGED <<tables, registry, load, adminVars>>

\* EmbeddingClient.embed turns every error into EmbeddingUnavailable, which
\* is_retryable_error does not recognise.
MayBeTransient(c) == task[c] = "chat"

\* call_with_retry: a transient error, and retries left.
Retry(c) ==
    /\ pc[c] = "try"
    /\ MayBeTransient(c)
    /\ tries[c] < Retries[Current(c).model]
    /\ tries' = [tries EXCEPT ![c] = @ + 1]
    /\ UNCHANGED <<tables, registry, cached, pc, load, chain, at, prefer, key, tried, task,
                   adminVars>>

\* The endpoint is given up (retries spent, or an error no retry can fix) and the
\* next one of the chain is tried, or there is none.
FailOver(c) ==
    /\ pc[c] = "try"
    /\ tried' = [tried EXCEPT ![c] = @ \cup {Current(c)}]
    /\ \E e \in Ahead(c) :
          /\ IsFirst(e, Ahead(c))
          /\ at' = [at EXCEPT ![c] = e.at]
    /\ tries' = [tries EXCEPT ![c] = 0]
    /\ UNCHANGED <<tables, registry, cached, pc, load, chain, prefer, key, task, adminVars>>

GiveUp(c) ==
    /\ pc[c] = "try"
    /\ Ahead(c) = {}
    /\ Returns(c, tried[c] \cup {Current(c)})
    /\ UNCHANGED <<tables, registry, cached, load, adminVars>>

\* The snapshot outlives its TTL.
Expire(p) ==
    /\ fresh[p]
    /\ fresh' = [fresh EXCEPT ![p] = FALSE]
    /\ UNCHANGED <<tables, snap, outages, cached, callVars, adminVars>>

\* A cached vector outlives its day.
Evict(m) ==
    /\ cached[m] # NoModel
    /\ cached' = [cached EXCEPT ![m] = NoModel]
    /\ UNCHANGED <<tables, registry, callVars, adminVars>>

-----------------------------------------------------------------------------
\* The operator's requests. Each commits its statement, writes the audit log and
\* only then invalidates the registry of the process that serves it.
Routed(m) == \E t \in Tasks : \E r \in route[t] : r.model = m

\* Mutant of Commits: the handler forgets _invalidate_registry().
CommitsQuietly(a) ==
    /\ version < MaxEdits
    /\ tables' # tables
    /\ version' = version + 1
    /\ adm' = [adm EXCEPT ![a] = IdleRequest]
    /\ load' = [c \in Callers |->
                   IF pc[c] \in {"embedding_rows", "switch_row"}
                   THEN [load[c] EXCEPT !.torn = TRUE] ELSE load[c]]
    /\ UNCHANGED <<registry, cached, pc, chain, at, tries, prefer, key, tried, task>>

\* (An edit that changes no row is left out: it only empties the cache.)
Commits(a) ==
    /\ version < MaxEdits
    /\ tables' # tables
    /\ version' = version + 1
    /\ adm' = [adm EXCEPT ![a].pc = "invalidate"]
    /\ load' = [c \in Callers |->
                   IF pc[c] \in {"embedding_rows", "switch_row"}
                   THEN [load[c] EXCEPT !.torn = TRUE] ELSE load[c]]
    /\ UNCHANGED <<registry, cached, pc, chain, at, tries, prefer, key, tried, task>>

\* create_model, and an import of a discovered model.
CreateModel(a, m, enabled, modality) ==
    /\ adm[a].pc = "idle"
    /\ ~model[m].live
    /\ model' = [model EXCEPT ![m] = [live |-> TRUE, enabled |-> enabled, modality |-> modality]]
    /\ UNCHANGED <<prov, route, switch, putAt>>
    /\ Commits(a)

\* update_model does not look at the routes the model is in.
UpdateModel(a, m, enabled, modality) ==
    /\ adm[a].pc = "idle"
    /\ model[m].live
    /\ model' = [model EXCEPT ![m].enabled = enabled, ![m].modality = modality]
    /\ UNCHANGED <<prov, route, switch, putAt>>
    /\ Commits(a)

UpdateProvider(a, p, enabled, local) ==
    /\ adm[a].pc = "idle"
    /\ prov' = [prov EXCEPT ![p] = [enabled |-> enabled, local |-> local]]
    /\ UNCHANGED <<model, route, switch, putAt>>
    /\ Commits(a)

\* create_provider: a provider without models does not show in any chain, whether it is
\* there or not, so that its creation is the edit that says how it will show.
CreateProvider(a, p, enabled, local) ==
    /\ \A m \in Models : model[m].live => ProviderOf[m] # p
    /\ UpdateProvider(a, p, enabled, local)

CreateProviderFromTemplate(a, p) == CreateProvider(a, p, TRUE, FALSE)

\* Mutant of PutRoute: positions start at one.
PutRouteFromOne(a, t, s) ==
    /\ adm[a].pc = "idle"
    /\ \A i \in DOMAIN s : model[s[i]].live /\ model[s[i]].modality = t
    /\ route' = [route EXCEPT ![t] = {[at |-> i + 1, model |-> s[i]] : i \in DOMAIN s}]
    /\ putAt' = [putAt EXCEPT ![t] = version + 1]
    /\ UNCHANGED <<model, prov, switch>>
    /\ Commits(a)

\* put_route: the models must exist and be of the task's modality; the transaction
\* replaces the task's rows, and its foreign keys hold when it commits.
PutRoute(a, t, s) ==
    /\ adm[a].pc = "idle"
    /\ \A i \in DOMAIN s : model[s[i]].live /\ model[s[i]].modality = t
    /\ route' = [route EXCEPT ![t] = {[at |-> i, model |-> s[i]] : i \in DOMAIN s}]
    /\ putAt' = [putAt EXCEPT ![t] = version + 1]
    /\ UNCHANGED <<model, prov, switch>>
    /\ Commits(a)

PutRoutingSettings(a, enabled) ==
    /\ adm[a].pc = "idle"
    /\ switch' = enabled
    /\ UNCHANGED <<model, prov, route, putAt>>
    /\ Commits(a)

\* Mutant of CheckUse: the routes are not looked at.
CheckModelOnly(a, m) ==
    /\ \/ adm[a].pc = "idle"
       \/ adm[a].pc = "invalidate" /\ adm[a].model # NoModel
    /\ model[m].live
    /\ adm' = [adm EXCEPT ![a] = [pc |-> "delete", model |-> m, provider |-> {}, at |-> version]]
    /\ UNCHANGED <<tables, registry, cached, callVars, version, putAt>>

\* delete_model, and each id of bulk_delete_models, which invalidates once at its end:
\* the model must be in no route, and is deleted by a later statement.
CheckUse(a, m) ==
    /\ \/ adm[a].pc = "idle"
       \/ adm[a].pc = "invalidate" /\ adm[a].model # NoModel
    /\ model[m].live
    /\ ~Routed(m)
    /\ adm' = [adm EXCEPT ![a] = [pc |-> "delete", model |-> m, provider |-> {}, at |-> version]]
    /\ UNCHANGED <<tables, registry, cached, callVars, version, putAt>>

\* delete_provider counts the provider's models and deletes it by a later statement.
CountModels(a, p) ==
    /\ adm[a].pc = "idle"
    /\ \A m \in Models : ProviderOf[m] = p => ~model[m].live
    /\ adm' = [adm EXCEPT ![a] = [pc |-> "delete", model |-> NoModel, provider |-> {p},
                                 at |-> version]]
    /\ UNCHANGED <<tables, registry, cached, callVars, version, putAt>>

\* The models a request is about to delete.
Doomed(req) == {m \in Models : m = req.model \/ ProviderOf[m] \in req.provider}

\* ON DELETE CASCADE takes a provider's models along, and the route rows that name a
\* deleted model. Someone else may have deleted it meanwhile.
Cascades(a) ==
    LET gone == Doomed(adm[a]) IN
    /\ adm[a].pc = "delete"
    /\ \/ /\ \E m \in gone : model[m].live
          /\ model' = [m \in Models |-> IF m \in gone THEN [model[m] EXCEPT !.live = FALSE]
                                                    ELSE model[m]]
          /\ route' = [t \in Tasks |-> {r \in route[t] : r.model \notin gone}]
          /\ UNCHANGED <<prov, switch, putAt>>
          /\ Commits(a)
       \/ /\ \A m \in gone : ~model[m].live
          /\ adm' = [adm EXCEPT ![a].pc = "invalidate"]
          /\ UNCHANGED <<tables, registry, cached, callVars, version, putAt>>

DeleteModel(a) == adm[a].model # NoModel /\ Cascades(a)

DeleteProvider(a) == adm[a].model = NoModel /\ Cascades(a)

\* invalidate(): the snapshot goes; a load under way in the process does not.
Invalidate(a) ==
    /\ adm[a].pc = "invalidate"
    /\ adm' = [adm EXCEPT ![a] = IdleRequest]
    /\ \E p \in ApiProcs :
          /\ snap' = [snap EXCEPT ![p] = NoSnap]
          /\ fresh' = [fresh EXCEPT ![p] = FALSE]
    /\ UNCHANGED <<tables, outages, cached, callVars, version, putAt>>

-----------------------------------------------------------------------------
CallStep(c) ==
    \/ Begin(c) \/ CacheHit(c) \/ CacheMiss(c)
    \/ FetchChat(c) \/ FetchEmbedding(c) \/ FetchSwitch(c) \/ LoadFails(c)
    \/ Answer(c) \/ Retry(c) \/ FailOver(c) \/ GiveUp(c)

Chains == UNION {[0..(n - 1) -> Models] : n \in 0..MaxChain}

AdminStep(a) ==
    \/ \E m \in Models, enabled \in BOOLEAN, modality \in Tasks :
          CreateModel(a, m, enabled, modality) \/ UpdateModel(a, m, enabled, modality)
    \/ \E p \in Providers, enabled \in BOOLEAN, local \in BOOLEAN :
          UpdateProvider(a, p, enabled, local) \/ CreateProvider(a, p, enabled, local)
    \/ \E p \in Providers : CreateProviderFromTemplate(a, p)
    \/ \E t \in Tasks : \E s \in Chains : PutRoute(a, t, s)
    \/ \E enabled \in BOOLEAN : PutRoutingSettings(a, enabled)
    \/ \E m \in Models : CheckUse(a, m)
    \/ \E p \in Providers : CountModels(a, p)
    \/ DeleteModel(a) \/ DeleteProvider(a)
    \/ Invalidate(a)

RegNext ==
    \/ \E c \in Callers : CallStep(c)
    \/ \E p \in Procs : Expire(p)
    \/ \E m \in Models \cup EnvModels : Evict(m)
    \/ \E a \in Admins : AdminStep(a)

RegSpec == RegInit /\ [][RegNext]_regVars

\* Calls keep coming and go on, and time passes.
FairRegSpec ==
    /\ RegSpec
    /\ \A c \in Callers : WF_regVars(CallStep(c))
    /\ \A p \in Procs : WF_regVars(Expire(p))

-----------------------------------------------------------------------------
\* What a load would return that nothing disturbs.
Tables ==
    [chat |-> Rows("chat"), embedding |-> Rows("embedding"), switch |-> switch, torn |-> FALSE]

\* A chat call fails only after a local endpoint was tried: whatever the operator
\* routes, disables or switches off, and whichever snapshot the call got
\* (registry.py: "ALWAYS terminated by a local endpoint").
LocalIsTheLastResort ==
    \A c \in Callers :
        pc[c] = "failed" /\ task[c] = "chat" => \E e \in tried[c] : e.local

\* Where one process serves the operator, its snapshot is the tables' present state
\* between two requests, unless the state changed while it was being loaded (a load
\* under way survives invalidate()) or the database was away.
SnapshotIsCurrent ==
    \A p \in Procs :
        /\ ApiProcs = {p} /\ snap[p] # NoSnap /\ ~snap[p].torn
        /\ \A a \in Admins : adm[a].pc = "idle"
        => snap[p] = Tables

\* Deleting a model, or the provider it came to have in the meantime, empties a route
\* position only if the route was written after delete_model had checked that no route
\* uses the model, or delete_provider that there is none.
DeleteSparesRouted ==
    [][\A t \in Tasks : \A r \in route[t] :
          model[r.model].live /\ ~model'[r.model].live
             => \E a \in Admins : /\ adm[a].pc = "delete" /\ r.model \in Doomed(adm[a])
                                  /\ putAt[t] > adm[a].at]_regVars

\* Once the operator leaves the tables alone every call comes to walk the chain they
\* describe: a load that crossed an invalidate() and the empty snapshot of a process
\* that could not load one are given up in the end.
CallsCatchUp ==
    <>[](\A c \in Callers : pc[c] = "try" => chain[c] = ChainOf(task[c], Tables))

=============================================================================
