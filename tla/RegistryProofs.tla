---------------------------- MODULE RegistryProofs ----------------------------
(***************************************************************************)
(* Theorems about the provider registry, for any tables, processes, calls  *)
(* and operators.                                                          *)
(***************************************************************************)
EXTENDS ProviderRegistry, TLAPS

USE DEF Tasks, Position

\* No two endpoints of a chain stand at one position.
Distinct(E) == \A e \in E : \A f \in E : e.at = f.at => e = f

\* The routed endpoints of a task, all before the position of the environment's.
Placed(E) == Distinct(E) /\ \A e \in E : e.at < MaxChain

\* ai_routes' primary key is (task, position).
RoutesInv == \A t \in Tasks : Distinct(route[t])

SnapsInv ==
    /\ \A p \in Procs : snap[p] # NoSnap => Placed(snap[p].chat)
    /\ \A c \in Callers : Placed(load[c].chat)

\* A call that walks its chain stands at an endpoint of it; a chat call has given up
\* every one before and has a local one in reach.
WalkInv(c) ==
    /\ \E e \in Eligible(c, chain[c]) : e.at = at[c]
    /\ task[c] = "chat" =>
          /\ Distinct(chain[c])
          /\ \E e \in chain[c] : e.local
          /\ \A e \in Eligible(c, chain[c]) : e.at < at[c] => e \in tried[c]

WalksInv == \A c \in Callers : pc[c] = "try" => WalkInv(c)

ChainInv == RegTypeOK /\ RoutesInv /\ SnapsInv /\ WalksInv /\ LocalIsTheLastResort

-----------------------------------------------------------------------------
(* Chains.                                                                 *)

\* A chain has a first and a last endpoint (it has at most eleven).
LEMMA LowestIsFirst ==
  ASSUME NEW E \in SUBSET Endpoint, E # {}
  PROVE  Lowest(E) \in E /\ \A f \in E : Lowest(E).at <= f.at
<1>1. SUFFICES \E e \in E : \A f \in E : e.at <= f.at
  BY DEF Lowest
<1> SUFFICES ASSUME \A e \in E : \E f \in E : f.at < e.at
             PROVE  FALSE
  BY RegistryAssumption DEF Endpoint
<1>2. \A e \in E : e.at \in 0..10
  BY RegistryAssumption DEF Endpoint
<1>3. \A e \in E : e.at >= 2
  BY <1>2
<1>4. \A e \in E : e.at >= 4
  BY <1>2, <1>3
<1>5. \A e \in E : e.at >= 6
  BY <1>2, <1>4
<1>6. \A e \in E : e.at >= 8
  BY <1>2, <1>5
<1>7. \A e \in E : e.at >= 10
  BY <1>2, <1>6
<1> QED
  BY <1>2, <1>7

LEMMA HighestIsLast ==
  ASSUME NEW E \in SUBSET Endpoint, E # {}
  PROVE  Highest(E) \in E /\ \A f \in E : f.at <= Highest(E).at
<1>1. SUFFICES \E e \in E : \A f \in E : f.at <= e.at
  BY DEF Highest
<1> SUFFICES ASSUME \A e \in E : \E f \in E : f.at > e.at
             PROVE  FALSE
  BY RegistryAssumption DEF Endpoint
<1>2. \A e \in E : e.at \in 0..10
  BY RegistryAssumption DEF Endpoint
<1>3. \A e \in E : e.at <= 8
  BY <1>2
<1>4. \A e \in E : e.at <= 6
  BY <1>2, <1>3
<1>5. \A e \in E : e.at <= 4
  BY <1>2, <1>4
<1>6. \A e \in E : e.at <= 2
  BY <1>2, <1>5
<1>7. \A e \in E : e.at <= 0
  BY <1>2, <1>6
<1> QED
  BY <1>2, <1>7

\* The environment's endpoints.
LEMMA EnvEndpoints ==
  /\ EnvChain \in SUBSET Endpoint /\ EnvLocal \in EnvChain
  /\ EnvLocal \in Endpoint /\ EnvLocal.local /\ EnvLocal.at = MaxChain
  /\ Distinct(EnvChain)
<1> DEFINE frontier == [at |-> 0, model |-> EnvFrontierModel, local |-> FALSE]
<1>1. MaxChain \in Position /\ 0 \in Position /\ 0 # MaxChain
  BY RegistryAssumption
<1>2. EnvLocal \in Endpoint /\ EnvLocal.local /\ EnvLocal.at = MaxChain
  BY <1>1 DEF EnvLocal, Endpoint, EnvModels
<1>3. frontier \in Endpoint /\ frontier.at = 0
  BY <1>1 DEF Endpoint, EnvModels
<1>4. EnvChain = {EnvLocal} \/ EnvChain = {EnvLocal, frontier}
  BY RegistryAssumption DEF EnvChain
<1> HIDE DEF frontier
<1> QED
  BY <1>1, <1>2, <1>3, <1>4 DEF Distinct

\* The failover switch takes endpoints away, never the last local one.
LEMMA ToggleKeepsLocal ==
  ASSUME NEW E \in SUBSET Endpoint, E # {}, NEW on \in BOOLEAN
  PROVE  /\ Toggled(E, on) \subseteq E /\ Toggled(E, on) # {}
         /\ (\E e \in E : e.local) => \E e \in Toggled(E, on) : e.local
<1> DEFINE primary == Lowest(E)
           locals  == {e \in E \ {primary} : e.local}
<1>1. primary \in E
  BY LowestIsFirst
<1>2. locals # {} => Lowest(locals) \in locals
  <2>1. locals \in SUBSET Endpoint
    OBVIOUS
  <2> QED
    BY <2>1, LowestIsFirst
<1>3. CASE on
  BY <1>3 DEF Toggled
<1>4. CASE ~on /\ (primary.local \/ locals = {})
  <2>1. Toggled(E, on) = {primary}
    BY <1>4 DEF Toggled
  <2>2. (\E e \in E : e.local) => primary.local
    BY <1>4
  <2> QED
    BY <1>1, <2>1, <2>2
<1>5. CASE ~on /\ ~primary.local /\ locals # {}
  <2>1. Toggled(E, on) = {primary, Lowest(locals)}
    BY <1>5 DEF Toggled
  <2> QED
    BY <1>1, <1>2, <1>5, <2>1
<1> QED
  BY <1>3, <1>4, <1>5

LEMMA ChatChains ==
  ASSUME NEW s \in Snapshot, Placed(s.chat)
  PROVE  /\ ChatChain(s) \in SUBSET Endpoint
         /\ Distinct(ChatChain(s))
         /\ \E e \in ChatChain(s) : e.local
<1>1. CASE s.chat = {}
  BY <1>1, EnvEndpoints DEF ChatChain
<1>2. CASE s.chat # {}
  <2> DEFINE E == IF Highest(s.chat).local THEN s.chat ELSE s.chat \cup {EnvLocal}
  <2>1. /\ s.chat \in SUBSET Endpoint /\ s.switch \in BOOLEAN
    BY DEF Snapshot
  <2>2. Highest(s.chat) \in s.chat
    BY <1>2, <2>1, HighestIsLast
  <2>3. E \in SUBSET Endpoint /\ E # {} /\ \E e \in E : e.local
    BY <1>2, <2>1, <2>2, EnvEndpoints
  <2>4. Distinct(E)
    BY <2>1, EnvEndpoints, RegistryAssumption DEF Placed, Distinct, Endpoint
  <2>5. ChatChain(s) = Toggled(E, s.switch)
    BY <1>2 DEF ChatChain
  <2> HIDE DEF E
  <2>6. ChatChain(s) \subseteq E /\ \E e \in ChatChain(s) : e.local
    BY <2>1, <2>3, <2>5, ToggleKeepsLocal
  <2> QED
    BY <2>3, <2>4, <2>6 DEF Distinct
<1> QED
  BY <1>1, <1>2

LEMMA EmbeddingChains ==
  ASSUME NEW s \in Snapshot
  PROVE  EmbeddingChain(s) \in SUBSET Endpoint /\ EmbeddingChain(s) # {}
<1> DEFINE E == IF s.embedding = {} THEN {EnvLocal} ELSE s.embedding
<1>1. E \in SUBSET Endpoint /\ E # {} /\ s.switch \in BOOLEAN
  BY EnvEndpoints DEF Snapshot
<1>2. EmbeddingChain(s) = Toggled(E, s.switch)
  BY DEF EmbeddingChain
<1> HIDE DEF E
<1> QED
  BY <1>1, <1>2, ToggleKeepsLocal

-----------------------------------------------------------------------------
(* Loads.                                                                  *)

LEMMA NothingLoaded ==
  ASSUME NEW torn \in BOOLEAN
  PROVE  EmptySnapshot(torn) \in Snapshot /\ Placed(EmptySnapshot(torn).chat)
BY DEF EmptySnapshot, Snapshot, Placed, Distinct

\* What each query adds.
LEMMA Loading ==
  ASSUME NEW s \in Snapshot, NEW E \in SUBSET Endpoint, NEW on \in BOOLEAN
  PROVE  /\ [s EXCEPT !.chat = E] \in Snapshot /\ [s EXCEPT !.chat = E].chat = E
         /\ [s EXCEPT !.embedding = E] \in Snapshot /\ [s EXCEPT !.embedding = E].chat = s.chat
         /\ [s EXCEPT !.switch = on] \in Snapshot /\ [s EXCEPT !.switch = on].chat = s.chat
         /\ [s EXCEPT !.torn = on] \in Snapshot /\ [s EXCEPT !.torn = on].chat = s.chat
BY DEF Snapshot

\* A query returns endpoints, no two at one position.
LEMMA RowsArePlaced ==
  ASSUME RegTypeOK, RoutesInv, NEW t \in Tasks
  PROVE  Rows(t) \in SUBSET Endpoint /\ Placed(Rows(t))
<1> DEFINE row(r) == [at |-> r.at, model |-> r.model, local |-> prov[ProviderOf[r.model]].local]
<1>1. route[t] \in SUBSET RouteRow
  BY DEF RegTypeOK
<1>2. \A r \in route[t] : r.at \in Position /\ r.at < MaxChain /\ r.model \in Models
  BY <1>1, RegistryAssumption DEF RouteRow
<1>3. \A r \in route[t] : prov[ProviderOf[r.model]].local \in BOOLEAN
  BY <1>2, RegistryAssumption DEF RegTypeOK, ProviderRow
<1>4. \A r \in route[t] : row(r) \in Endpoint /\ row(r).at = r.at
  BY <1>2, <1>3 DEF Endpoint
<1>5. \A e \in Rows(t) : \E r \in route[t] : e = row(r)
  BY DEF Rows
<1> HIDE DEF row
<1>6. \A e \in Rows(t) : e \in Endpoint /\ e.at < MaxChain
  BY <1>2, <1>4, <1>5
<1>7. ASSUME NEW e \in Rows(t), NEW f \in Rows(t), e.at = f.at
      PROVE  e = f
  <2>1. PICK r \in route[t] : e = row(r)
    BY <1>5
  <2>2. PICK q \in route[t] : f = row(q)
    BY <1>5
  <2>3. r = q
    BY <1>4, <1>7, <2>1, <2>2 DEF RoutesInv, Distinct
  <2> QED
    BY <2>1, <2>2, <2>3
<1> QED
  BY <1>6, <1>7 DEF Placed, Distinct

-----------------------------------------------------------------------------
(* The parts of the type invariant.                                        *)

TablesTyped ==
    /\ model \in [Models -> ModelRow]
    /\ prov \in [Providers -> ProviderRow]
    /\ route \in [Tasks -> SUBSET RouteRow]
    /\ switch \in BOOLEAN

SnapsTyped ==
    /\ snap \in [Procs -> Snapshot \cup {NoSnap}]
    /\ fresh \in [Procs -> BOOLEAN]
    /\ outages \in Nat

CallsTyped ==
    /\ pc \in [Callers -> {"idle", "lookup", "try", "failed"} \cup Fetching]
    /\ task \in [Callers -> Tasks]
    /\ load \in [Callers -> Snapshot]
    /\ chain \in [Callers -> SUBSET Endpoint]
    /\ at \in [Callers -> Position]
    /\ tries \in [Callers -> Nat]
    /\ prefer \in [Callers -> BOOLEAN]
    /\ key \in [Callers -> Models \cup EnvModels \cup {NoModel}]
    /\ tried \in [Callers -> SUBSET Endpoint]

CacheTyped == cached \in [Models \cup EnvModels -> Models \cup EnvModels \cup {NoModel}]

AdminsTyped ==
    /\ adm \in [Admins -> [pc: {"idle", "delete", "invalidate"}, model: Models \cup {NoModel},
                           provider: SUBSET Providers, at: Nat]]
    /\ version \in Nat
    /\ putAt \in [Tasks -> Nat]

LEMMA TypeParts ==
  /\ RegTypeOK <=> TablesTyped /\ SnapsTyped /\ CallsTyped /\ CacheTyped /\ AdminsTyped
  /\ RegTypeOK' <=> TablesTyped' /\ SnapsTyped' /\ CallsTyped' /\ CacheTyped' /\ AdminsTyped'
BY DEF RegTypeOK, TablesTyped, SnapsTyped, CallsTyped, CacheTyped, AdminsTyped

-----------------------------------------------------------------------------
(* Steps of a call.                                                        *)

\* Where another call stands does not matter to a walk.
LEMMA OneCaller ==
  ASSUME WalksInv, LocalIsTheLastResort, NEW c \in Callers,
         \A d \in Callers \ {c} : /\ pc'[d] = pc[d] /\ task'[d] = task[d]
                                   /\ chain'[d] = chain[d] /\ at'[d] = at[d]
                                   /\ prefer'[d] = prefer[d] /\ tried'[d] = tried[d],
         pc'[c] = "try" => WalkInv(c)',
         pc'[c] = "failed" /\ task'[c] = "chat" => \E e \in tried'[c] : e.local
  PROVE  WalksInv' /\ LocalIsTheLastResort'
<1>1. ASSUME NEW d \in Callers \ {c}, pc'[d] = "try"
      PROVE  WalkInv(d)'
  <2>1. WalkInv(d)
    BY <1>1 DEF WalksInv
  <2>2. Eligible(d, chain[d])' = Eligible(d, chain[d])
    BY DEF Eligible
  <2> QED
    BY <2>1, <2>2 DEF WalkInv
<1> QED
  BY <1>1 DEF WalksInv, LocalIsTheLastResort

\* A call that has its snapshot looks its vector up or stands at the first endpoint.
LEMMA UseAsKeeps ==
  ASSUME RegTypeOK, WalksInv, LocalIsTheLastResort, SnapsInv,
         NEW c \in Callers, NEW t \in Tasks, NEW s \in Snapshot, NEW preferred \in BOOLEAN,
         Placed(s.chat), UseAs(c, t, s, preferred)
  PROVE  /\ CallsTyped' /\ WalksInv' /\ LocalIsTheLastResort'
         /\ \A d \in Callers : Placed(load'[d].chat)
<1> USE DEF RegTypeOK
<1>1. /\ task' = [task EXCEPT ![c] = t]
      /\ load' = [load EXCEPT ![c] = EmptySnapshot(FALSE)]
      /\ prefer' = [prefer EXCEPT ![c] = preferred]
  BY DEF UseAs
<1>2. load' \in [Callers -> Snapshot] /\ \A d \in Callers : Placed(load'[d].chat)
  BY <1>1, NothingLoaded DEF SnapsInv
<1>3. CASE t = "embedding" /\ key[c] = NoModel
  <2>1. /\ pc' = [pc EXCEPT ![c] = "lookup"]
        /\ key' = [key EXCEPT ![c] = Lowest(EmbeddingChain(s)).model]
        /\ UNCHANGED <<chain, at, tries, tried>>
    BY <1>3 DEF UseAs
  <2>2. Lowest(EmbeddingChain(s)).model \in Models \cup EnvModels
    BY EmbeddingChains, LowestIsFirst DEF Endpoint
  <2>3. CallsTyped'
    BY <1>1, <1>2, <2>1, <2>2 DEF CallsTyped
  <2> QED
    BY <1>1, <1>2, <2>1, <2>3, OneCaller
<1>4. CASE ~(t = "embedding" /\ key[c] = NoModel)
  <2> DEFINE E == ChainOf(t, s)
             Able == {f \in E : preferred => f.local}
  <2>1. PICK e \in E :
               /\ IsFirst(e, Able)
               /\ pc' = [pc EXCEPT ![c] = "try"]
               /\ chain' = [chain EXCEPT ![c] = E]
               /\ at' = [at EXCEPT ![c] = e.at]
               /\ tries' = [tries EXCEPT ![c] = 0]
               /\ tried' = [tried EXCEPT ![c] = {}]
               /\ UNCHANGED key
    BY <1>4 DEF UseAs
  <2>2. E \in SUBSET Endpoint
    BY ChatChains, EmbeddingChains DEF ChainOf
  <2>3. t = "chat" => Distinct(E) /\ \E f \in E : f.local
    BY ChatChains DEF ChainOf
  <2> HIDE DEF E
  <2>4. CallsTyped'
    BY <1>1, <1>2, <2>1, <2>2 DEF CallsTyped, Endpoint
  <2>5. WalkInv(c)'
    <3>1. /\ task'[c] = t /\ chain'[c] = E /\ at'[c] = e.at
          /\ tried'[c] = {} /\ prefer'[c] = preferred
      BY <1>1, <2>1
    <3>2. Eligible(c, chain[c])' = Able
      BY <3>1 DEF Eligible
    <3>3. e \in Able /\ \A f \in Able : ~(f.at < e.at)
      BY <2>1, <2>2 DEF IsFirst, Endpoint
    <3> QED
      BY <2>3, <3>1, <3>2, <3>3 DEF WalkInv
  <2>6. pc'[c] = "try"
    BY <2>1
  <2> QED
    BY <1>1, <1>2, <2>1, <2>4, <2>5, <2>6, OneCaller
<1> QED
  BY <1>3, <1>4

LEMMA AskSnapshotKeeps ==
  ASSUME ChainInv, NEW c \in Callers, pc[c] # "try", NEW t \in Tasks,
         NEW preferred \in BOOLEAN, AskSnapshot(c, t, preferred)
  PROVE  ChainInv'
<1> DEFINE s == snap[ProcOf[c]]
<1> USE RegistryAssumption DEF ChainInv
<1>1. TablesTyped' /\ SnapsTyped' /\ CacheTyped' /\ AdminsTyped'
  BY TypeParts DEF AskSnapshot, tables, registry, adminVars,
     TablesTyped, SnapsTyped, CacheTyped, AdminsTyped
<1>2. RoutesInv' /\ snap' = snap
  BY DEF AskSnapshot, tables, registry, RoutesInv
<1>3. CASE s # NoSnap /\ fresh[ProcOf[c]]
  <2>1. s \in Snapshot /\ Placed(s.chat)
    BY <1>3 DEF RegTypeOK, SnapsInv
  <2>2. UseAs(c, t, s, preferred)
    BY <1>3 DEF AskSnapshot
  <2> HIDE DEF s
  <2>3. /\ CallsTyped' /\ WalksInv' /\ LocalIsTheLastResort'
        /\ \A d \in Callers : Placed(load'[d].chat)
    BY <2>1, <2>2, UseAsKeeps
  <2> QED
    BY <1>1, <1>2, <2>3, TypeParts DEF SnapsInv
<1>4. CASE ~(s # NoSnap /\ fresh[ProcOf[c]])
  <2>1. /\ pc' = [pc EXCEPT ![c] = "chat_rows"]
        /\ task' = [task EXCEPT ![c] = t]
        /\ prefer' = [prefer EXCEPT ![c] = preferred]
        /\ UNCHANGED <<load, chain, at, tries, key, tried>>
    BY <1>4 DEF AskSnapshot
  <2>2. CallsTyped'
    BY <2>1 DEF RegTypeOK, CallsTyped, Fetching
  <2>3. WalksInv' /\ LocalIsTheLastResort'
    BY <2>1, OneCaller DEF RegTypeOK
  <2> QED
    BY <1>1, <1>2, <2>1, <2>2, <2>3, TypeParts DEF SnapsInv
<1> QED
  BY <1>3, <1>4

\* A call that returns has tried a local endpoint, or has not failed, or is not a chat.
LEMMA ReturnsKeeps ==
  ASSUME ChainInv, NEW c \in Callers, NEW failures \in SUBSET Endpoint, Returns(c, failures),
         UNCHANGED <<tables, registry, load, adminVars>>, CacheTyped',
         failures # {} /\ task[c] = "chat" => \E e \in failures : e.local
  PROVE  ChainInv'
<1> USE RegistryAssumption DEF ChainInv
<1>1. TablesTyped' /\ SnapsTyped' /\ AdminsTyped' /\ RoutesInv' /\ SnapsInv'
  BY TypeParts DEF tables, registry, adminVars,
     TablesTyped, SnapsTyped, AdminsTyped, RoutesInv, SnapsInv
<1>2. CallsTyped'
  BY RegistryAssumption DEF RegTypeOK, CallsTyped, Returns
<1>3. WalksInv' /\ LocalIsTheLastResort'
  BY OneCaller DEF RegTypeOK, Returns
<1> QED
  BY <1>1, <1>2, <1>3, TypeParts

\* The endpoint a walk stands at.
LEMMA CurrentIsThere ==
  ASSUME ChainInv, NEW c \in Callers, pc[c] = "try"
  PROVE  /\ Current(c) \in Eligible(c, chain[c]) /\ Current(c).at = at[c]
         /\ Current(c) \in Endpoint
BY DEF ChainInv, WalksInv, WalkInv, Current, Eligible, RegTypeOK

\* The two steps of a call that ask for its chain.
LEMMA AskingKeeps ==
  ASSUME ChainInv, NEW c \in Callers, Begin(c) \/ CacheMiss(c)
  PROVE  ChainInv'
<1>1. PICK t \in Tasks, preferred \in BOOLEAN : AskSnapshot(c, t, preferred)
  BY DEF Begin, CacheMiss, ChainInv, RegTypeOK
<1>2. pc[c] # "try"
  BY DEF Begin, CacheMiss
<1> QED
  BY <1>1, <1>2, AskSnapshotKeeps

LEMMA CallStepKeeps ==
  ASSUME ChainInv, NEW c \in Callers, CallStep(c)
  PROVE  ChainInv'
<1> USE RegistryAssumption DEF ChainInv
<1> DEFINE p == ProcOf[c]
<1>1. CASE Begin(c) \/ CacheMiss(c)
  BY <1>1, AskingKeeps
<1>2. CASE CacheHit(c)
  <2>1. CacheTyped'
    BY <1>2, TypeParts DEF CacheHit, CacheTyped
  <2> QED
    BY <1>2, <2>1, ReturnsKeeps DEF CacheHit
<1>3. CASE FetchChat(c)
  <2>1. Rows("chat") \in SUBSET Endpoint /\ Placed(Rows("chat"))
    BY RowsArePlaced
  <2>2. /\ load' = [load EXCEPT ![c].chat = Rows("chat")]
        /\ pc' = [pc EXCEPT ![c] = "embedding_rows"]
        /\ UNCHANGED <<tables, registry, cached, chain, at, tries, prefer, key, tried, task,
                       adminVars>>
    BY <1>3 DEF FetchChat
  <2>3. load' \in [Callers -> Snapshot] /\ SnapsInv'
    <3>1. load[c] \in Snapshot
      BY DEF RegTypeOK
    <3> DEFINE s == [load[c] EXCEPT !.chat = Rows("chat")]
    <3>2. s \in Snapshot /\ s.chat = Rows("chat")
      BY <2>1, <3>1, Loading
    <3>3. load' = [load EXCEPT ![c] = s] /\ snap' = snap
      BY <2>2 DEF registry
    <3> HIDE DEF s
    <3>4. Placed(s.chat)
      BY <2>1, <3>2 DEF SnapsInv
    <3> QED
      BY <3>2, <3>3, <3>4 DEF RegTypeOK, SnapsInv
  <2>4. RegTypeOK' /\ RoutesInv'
    BY <2>2, <2>3 DEF RegTypeOK, RoutesInv, tables, registry, adminVars, Fetching
  <2>5. WalksInv' /\ LocalIsTheLastResort'
    BY <2>2, OneCaller DEF RegTypeOK
  <2> QED
    BY <2>3, <2>4, <2>5
<1>4. CASE FetchEmbedding(c)
  <2>1. Rows("embedding") \in SUBSET Endpoint
    BY RowsArePlaced
  <2>2. /\ load' = [load EXCEPT ![c].embedding = Rows("embedding")]
        /\ pc' = [pc EXCEPT ![c] = "switch_row"]
        /\ UNCHANGED <<tables, registry, cached, chain, at, tries, prefer, key, tried, task,
                       adminVars>>
    BY <1>4 DEF FetchEmbedding
  <2>3. load' \in [Callers -> Snapshot] /\ SnapsInv'
    <3>1. load[c] \in Snapshot
      BY DEF RegTypeOK
    <3> DEFINE s == [load[c] EXCEPT !.embedding = Rows("embedding")]
    <3>2. s \in Snapshot /\ s.chat = load[c].chat
      BY <2>1, <3>1, Loading
    <3>3. load' = [load EXCEPT ![c] = s] /\ snap' = snap
      BY <2>2 DEF registry
    <3> HIDE DEF s
    <3>4. Placed(s.chat)
      BY <2>1, <3>2 DEF SnapsInv
    <3> QED
      BY <3>2, <3>3, <3>4 DEF RegTypeOK, SnapsInv
  <2>4. RegTypeOK' /\ RoutesInv'
    BY <2>2, <2>3 DEF RegTypeOK, RoutesInv, tables, registry, adminVars, Fetching
  <2>5. WalksInv' /\ LocalIsTheLastResort'
    BY <2>2, OneCaller DEF RegTypeOK
  <2> QED
    BY <2>3, <2>4, <2>5
<1>5. CASE FetchSwitch(c)
  <2> DEFINE s == [load[c] EXCEPT !.switch = switch]
  <2>1. s \in Snapshot /\ Placed(s.chat)
    <3>1. load[c] \in Snapshot /\ switch \in BOOLEAN
      BY DEF RegTypeOK
    <3>2. s.chat = load[c].chat /\ s \in Snapshot
      BY <3>1, Loading
    <3> QED
      BY <3>2 DEF SnapsInv
  <2>2. /\ snap' = [snap EXCEPT ![p] = s]
        /\ fresh' = [fresh EXCEPT ![p] = TRUE]
        /\ UseAs(c, task[c], s, prefer[c])
        /\ UNCHANGED <<tables, outages, cached, adminVars>>
    BY <1>5 DEF FetchSwitch
  <2>3. task[c] \in Tasks /\ prefer[c] \in BOOLEAN /\ p \in Procs
    BY DEF RegTypeOK
  <2> HIDE DEF s, p
  <2>4. /\ CallsTyped' /\ WalksInv' /\ LocalIsTheLastResort'
        /\ \A d \in Callers : Placed(load'[d].chat)
    BY <2>1, <2>2, <2>3, UseAsKeeps
  <2>5. SnapsTyped' /\ SnapsInv'
    BY <2>1, <2>2, <2>3, <2>4 DEF RegTypeOK, SnapsTyped, SnapsInv
  <2>6. TablesTyped' /\ CacheTyped' /\ AdminsTyped' /\ RoutesInv'
    BY <2>2, TypeParts DEF TablesTyped, CacheTyped, AdminsTyped, RoutesInv, tables, adminVars
  <2> QED
    BY <2>4, <2>5, <2>6, TypeParts
<1>6. CASE LoadFails(c)
  <2>1. /\ outages' = outages + 1
        /\ UNCHANGED <<tables, cached, adminVars>>
    BY <1>6 DEF LoadFails
  <2>2. task[c] \in Tasks /\ prefer[c] \in BOOLEAN /\ p \in Procs
    BY DEF RegTypeOK
  <2>3. PICK s \in Snapshot :
             /\ Placed(s.chat) /\ UseAs(c, task[c], s, prefer[c])
             /\ \/ UNCHANGED <<snap, fresh>>
                \/ snap' = [snap EXCEPT ![p] = s] /\ fresh' = [fresh EXCEPT ![p] = TRUE]
    <3>1. CASE snap[p] # NoSnap
      <4>1. snap[p] \in Snapshot /\ Placed(snap[p].chat)
        BY <2>2, <3>1 DEF RegTypeOK, SnapsInv
      <4> QED
        BY <1>6, <3>1, <4>1 DEF LoadFails
    <3>2. CASE snap[p] = NoSnap
      BY <1>6, <3>2, NothingLoaded DEF LoadFails
    <3> QED
      BY <3>1, <3>2
  <2> HIDE DEF p
  <2>4. /\ CallsTyped' /\ WalksInv' /\ LocalIsTheLastResort'
        /\ \A d \in Callers : Placed(load'[d].chat)
    BY <2>2, <2>3, UseAsKeeps
  <2>5. snap' \in [Procs -> Snapshot \cup {NoSnap}] /\ fresh' \in [Procs -> BOOLEAN]
    <3>1. snap \in [Procs -> Snapshot \cup {NoSnap}] /\ fresh \in [Procs -> BOOLEAN]
      BY DEF RegTypeOK
    <3>2. CASE UNCHANGED <<snap, fresh>>
      BY <3>1, <3>2
    <3>3. CASE snap' = [snap EXCEPT ![p] = s] /\ fresh' = [fresh EXCEPT ![p] = TRUE]
      BY <3>1, <3>3
    <3> QED
      BY <2>3, <3>2, <3>3
  <2>6. \A q \in Procs : snap'[q] # NoSnap => Placed(snap'[q].chat)
    BY <2>2, <2>3 DEF RegTypeOK, SnapsInv
  <2>7. SnapsTyped' /\ SnapsInv'
    BY <2>1, <2>4, <2>5, <2>6 DEF RegTypeOK, SnapsTyped, SnapsInv
  <2>8. TablesTyped' /\ CacheTyped' /\ AdminsTyped' /\ RoutesInv'
    BY <2>1, TypeParts DEF TablesTyped, CacheTyped, AdminsTyped, RoutesInv, tables, adminVars
  <2> QED
    BY <2>4, <2>7, <2>8, TypeParts
<1>7. CASE Answer(c)
  <2>1. Current(c).model \in Models \cup EnvModels
    BY <1>7, CurrentIsThere DEF Answer, Endpoint
  <2>2. CacheTyped'
    BY <1>7, <2>1 DEF Answer, RegTypeOK, CacheTyped
  <2> QED
    BY <1>7, <2>2, ReturnsKeeps DEF Answer
<1>8. CASE Retry(c)
  <2>1. tries' \in [Callers -> Nat]
    BY <1>8 DEF Retry, RegTypeOK
  <2>2. RegTypeOK' /\ RoutesInv' /\ SnapsInv'
    BY <1>8, <2>1 DEF Retry, RegTypeOK, RoutesInv, SnapsInv, tables, registry, adminVars
  <2>3. WalksInv' /\ LocalIsTheLastResort'
    BY <1>8, OneCaller DEF Retry, WalksInv, WalkInv, Eligible
  <2> QED
    BY <2>2, <2>3
<1>9. CASE FailOver(c)
  <2> DEFINE E == Eligible(c, chain[c])
  <2>1. PICK e \in Ahead(c) : IsFirst(e, Ahead(c)) /\ at' = [at EXCEPT ![c] = e.at]
    BY <1>9 DEF FailOver
  <2>2. /\ pc[c] = "try"
        /\ tried' = [tried EXCEPT ![c] = @ \cup {Current(c)}]
        /\ tries' = [tries EXCEPT ![c] = 0]
        /\ UNCHANGED <<tables, registry, cached, pc, load, chain, prefer, key, task, adminVars>>
    BY <1>9 DEF FailOver
  <2>3. E \in SUBSET Endpoint /\ E \in SUBSET chain[c] /\ at[c] \in Position
    BY DEF Eligible, RegTypeOK
  <2>4. Current(c) \in E /\ Current(c).at = at[c] /\ Current(c) \in Endpoint
    BY <2>2, CurrentIsThere
  <2>5. e \in E /\ e \in Endpoint
    BY <2>3 DEF Ahead
  <2>6. RegTypeOK' /\ RoutesInv' /\ SnapsInv'
    BY <2>1, <2>2, <2>4, <2>5
    DEF RegTypeOK, RoutesInv, SnapsInv, tables, registry, adminVars, Endpoint
  <2>7. WalkInv(c)'
    <3>1. /\ Eligible(c, chain[c])' = E /\ at'[c] = e.at /\ chain'[c] = chain[c]
          /\ tried'[c] = tried[c] \cup {Current(c)}
      BY <2>1, <2>2 DEF Eligible, RegTypeOK
    <3>2. WalkInv(c)
      BY <2>2 DEF WalksInv
    <3>3. ASSUME task[c] = "chat", NEW f \in E, f.at < e.at
          PROVE  f \in tried'[c]
      <4>1. ~(f.at > at[c])
        <5>1. f.at > at[c] => e.at <= f.at
          BY <2>1 DEF IsFirst, Ahead
        <5> QED
          BY <2>3, <2>5, <3>3, <5>1 DEF Endpoint
      <4>2. f.at < at[c] \/ f.at = at[c]
        BY <2>3, <4>1 DEF Endpoint
      <4>3. f.at < at[c] => f \in tried[c]
        BY <3>2, <3>3 DEF WalkInv
      <4>4. f.at = at[c] => f = Current(c)
        BY <2>3, <2>4, <3>2, <3>3 DEF WalkInv, Distinct
      <4> QED
        BY <3>1, <4>2, <4>3, <4>4
    <3> HIDE DEF E
    <3> QED
      BY <2>2, <2>5, <3>1, <3>2, <3>3 DEF WalkInv
  <2>8. WalksInv' /\ LocalIsTheLastResort'
    BY <2>1, <2>2, <2>7, OneCaller DEF RegTypeOK
  <2> QED
    BY <2>6, <2>8
<1>10. CASE GiveUp(c)
  <2>1. pc[c] = "try" /\ Ahead(c) = {} /\ Returns(c, tried[c] \cup {Current(c)})
    BY <1>10 DEF GiveUp
  <2>2. Current(c) \in Eligible(c, chain[c]) /\ Current(c).at = at[c] /\ Current(c) \in Endpoint
    BY <2>1, CurrentIsThere
  <2>3. task[c] = "chat" => \E e \in tried[c] \cup {Current(c)} : e.local
    <3>1. SUFFICES ASSUME task[c] = "chat" PROVE \E e \in tried[c] \cup {Current(c)} : e.local
      OBVIOUS
    <3>2. WalkInv(c)
      BY <2>1 DEF WalksInv
    <3>3. PICK e \in chain[c] : e.local
      BY <3>1, <3>2 DEF WalkInv
    <3>4. e \in Eligible(c, chain[c]) /\ e \in Endpoint /\ at[c] \in Position
      BY <3>3 DEF Eligible, RegTypeOK
    <3>5. ~(e.at > at[c])
      BY <2>1, <3>4 DEF Ahead
    <3>6. e.at < at[c] \/ e.at = at[c]
      BY <3>4, <3>5, RegistryAssumption DEF Endpoint
    <3>7. e.at < at[c] => e \in tried[c]
      BY <3>1, <3>2, <3>4 DEF WalkInv
    <3>8. e.at = at[c] => e = Current(c)
      BY <2>2, <3>1, <3>2, <3>3 DEF WalkInv, Distinct, Eligible
    <3> QED
      BY <3>3, <3>6, <3>7, <3>8
  <2>4. CacheTyped' /\ tried[c] \cup {Current(c)} \in SUBSET Endpoint
    BY <1>10, <2>2 DEF GiveUp, RegTypeOK, CacheTyped
  <2> QED
    BY <1>10, <2>1, <2>3, <2>4, ReturnsKeeps DEF GiveUp
<1> QED
  BY <1>1, <1>2, <1>3, <1>4, <1>5, <1>6, <1>7, <1>8, <1>9, <1>10 DEF CallStep

-----------------------------------------------------------------------------
(* Steps of the operator, of time and of the cache.                        *)

\* A step that no call makes leaves every walk as it is.
LEMMA NoCaller ==
  ASSUME WalksInv, LocalIsTheLastResort,
         UNCHANGED <<pc, task, chain, at, prefer, tried>>
  PROVE  WalksInv' /\ LocalIsTheLastResort'
BY DEF WalksInv, WalkInv, Eligible, LocalIsTheLastResort

\* A request whose statement has committed has its registry still to invalidate.
LEMMA CommittedIsTyped ==
  ASSUME AdminsTyped, NEW a \in Admins
  PROVE  LET Request == [pc: {"idle", "delete", "invalidate"}, model: Models \cup {NoModel},
                         provider: SUBSET Providers, at: Nat]
         IN  [adm EXCEPT ![a].pc = "invalidate"] \in [Admins -> Request]
<1> DEFINE Request == [pc: {"idle", "delete", "invalidate"}, model: Models \cup {NoModel},
                       provider: SUBSET Providers, at: Nat]
<1>1. \A r \in Request : [r EXCEPT !.pc = "invalidate"] \in Request
  OBVIOUS
<1>2. adm \in [Admins -> Request]
  BY DEF AdminsTyped
<1> HIDE DEF Request
<1>3. [adm EXCEPT ![a].pc = "invalidate"] \in [Admins -> Request]
  BY <1>1, <1>2
<1> QED
  BY <1>3 DEF Request

LEMMA CommitsKeeps ==
  ASSUME ChainInv, NEW a \in Admins, Commits(a), TablesTyped', RoutesInv',
         putAt' \in [Tasks -> Nat]
  PROVE  ChainInv'
<1> USE DEF ChainInv
<1>1. /\ version' = version + 1
      /\ adm' = [adm EXCEPT ![a].pc = "invalidate"]
      /\ UNCHANGED <<registry, cached, pc, chain, at, tries, prefer, key, tried, task>>
  BY DEF Commits
<1>2. AdminsTyped'
  <2>1. version \in Nat /\ AdminsTyped
    BY TypeParts DEF AdminsTyped
  <2> QED
    BY <1>1, <2>1, CommittedIsTyped DEF AdminsTyped
<1>3. \A c \in Callers : load'[c] \in Snapshot /\ load'[c].chat = load[c].chat
  <2> SUFFICES ASSUME NEW c \in Callers
               PROVE  load'[c] \in Snapshot /\ load'[c].chat = load[c].chat
    OBVIOUS
  <2>1. load[c] \in Snapshot
    BY DEF RegTypeOK
  <2>2. load'[c] = load[c] \/ load'[c] = [load[c] EXCEPT !.torn = TRUE]
    BY DEF Commits
  <2> QED
    BY <2>1, <2>2, Loading
<1>4. load' \in [Callers -> Snapshot]
  BY <1>3 DEF Commits
<1>5. SnapsTyped' /\ CacheTyped' /\ CallsTyped'
  BY <1>1, <1>4, TypeParts DEF SnapsTyped, CacheTyped, CallsTyped, registry
<1>6. SnapsInv'
  BY <1>1, <1>3 DEF SnapsInv, registry
<1>7. WalksInv' /\ LocalIsTheLastResort'
  BY <1>1, NoCaller
<1> QED
  BY <1>2, <1>5, <1>6, <1>7, TypeParts

LEMMA AdminStepKeeps ==
  ASSUME ChainInv, NEW a \in Admins, AdminStep(a)
  PROVE  ChainInv'
<1> USE DEF ChainInv
<1>1. ASSUME NEW m \in Models, NEW enabled \in BOOLEAN, NEW modality \in Tasks,
             CreateModel(a, m, enabled, modality) \/ UpdateModel(a, m, enabled, modality)
      PROVE  ChainInv'
  <2>1. model' \in [Models -> ModelRow] /\ UNCHANGED <<prov, route, switch, putAt>> /\ Commits(a)
    <3>1. model \in [Models -> ModelRow] /\ model[m] \in ModelRow
      BY DEF RegTypeOK
    <3>2. CASE CreateModel(a, m, enabled, modality)
      BY <3>1, <3>2 DEF CreateModel, ModelRow
    <3>3. CASE UpdateModel(a, m, enabled, modality)
      <4>1. model' = [model EXCEPT ![m] = [model[m] EXCEPT !.enabled = enabled,
                                                           !.modality = modality]]
        BY <3>1, <3>3 DEF UpdateModel
      <4>2. [model[m] EXCEPT !.enabled = enabled, !.modality = modality] \in ModelRow
        BY <3>1 DEF ModelRow
      <4> QED
        BY <3>1, <3>3, <4>1, <4>2 DEF UpdateModel
    <3> QED
      BY <1>1, <3>2, <3>3
  <2> QED
    BY <2>1, CommitsKeeps DEF RegTypeOK, TablesTyped, RoutesInv
<1>2. ASSUME NEW p \in Providers, NEW enabled \in BOOLEAN, NEW local \in BOOLEAN,
             UpdateProvider(a, p, enabled, local)
      PROVE  ChainInv'
  <2>1. /\ prov' \in [Providers -> ProviderRow]
        /\ UNCHANGED <<model, route, switch, putAt>> /\ Commits(a)
    BY <1>2 DEF UpdateProvider, RegTypeOK, ProviderRow
  <2> QED
    BY <2>1, CommitsKeeps DEF RegTypeOK, TablesTyped, RoutesInv
<1>3. ASSUME NEW t \in Tasks, NEW s \in Chains, PutRoute(a, t, s)
      PROVE  ChainInv'
  <2> DEFINE R == {[at |-> i, model |-> s[i]] : i \in DOMAIN s}
  <2>1. PICK n \in 0..MaxChain : s \in [0..(n - 1) -> Models]
    BY DEF Chains
  <2>2. DOMAIN s \subseteq 0..(MaxChain - 1)
    BY <2>1, RegistryAssumption
  <2>3. R \in SUBSET RouteRow
    BY <2>1, <2>2 DEF RouteRow
  <2>4. Distinct(R)
    BY DEF Distinct
  <2>5. /\ route' = [route EXCEPT ![t] = R] /\ putAt' = [putAt EXCEPT ![t] = version + 1]
        /\ UNCHANGED <<model, prov, switch>> /\ Commits(a)
    BY <1>3 DEF PutRoute
  <2> HIDE DEF R
  <2>6. TablesTyped' /\ RoutesInv' /\ putAt' \in [Tasks -> Nat]
    BY <2>3, <2>4, <2>5 DEF RegTypeOK, TablesTyped, RoutesInv
  <2> QED
    BY <2>5, <2>6, CommitsKeeps
<1>4. ASSUME NEW enabled \in BOOLEAN, PutRoutingSettings(a, enabled)
      PROVE  ChainInv'
  <2>1. switch' \in BOOLEAN /\ UNCHANGED <<model, prov, route, putAt>> /\ Commits(a)
    BY <1>4 DEF PutRoutingSettings
  <2> QED
    BY <2>1, CommitsKeeps DEF RegTypeOK, TablesTyped, RoutesInv
<1>5. ASSUME NEW req, req \in [pc: {"delete"}, model: Models \cup {NoModel},
                               provider: SUBSET Providers, at: Nat],
             adm' = [adm EXCEPT ![a] = req],
             UNCHANGED <<tables, registry, cached, callVars, version, putAt>>
      PROVE  ChainInv'
  <2>1. RegTypeOK' /\ RoutesInv' /\ SnapsInv'
    BY <1>5 DEF RegTypeOK, RoutesInv, SnapsInv, tables, registry, callVars
  <2> QED
    BY <1>5, <2>1, NoCaller DEF callVars
<1>6. ASSUME NEW m \in Models, CheckUse(a, m)
      PROVE  ChainInv'
  BY <1>5, <1>6 DEF CheckUse, RegTypeOK
<1>8. ASSUME NEW p \in Providers, CountModels(a, p)
      PROVE  ChainInv'
  BY <1>5, <1>8 DEF CountModels, RegTypeOK
<1>9. CASE Cascades(a)
  <2> DEFINE gone == Doomed(adm[a])
  <2>1. CASE \E m \in gone : model[m].live
    <3>1. /\ model' = [m \in Models |-> IF m \in gone THEN [model[m] EXCEPT !.live = FALSE]
                                                      ELSE model[m]]
          /\ route' = [t \in Tasks |-> {r \in route[t] : r.model \notin gone}]
          /\ UNCHANGED <<prov, switch, putAt>> /\ Commits(a)
      BY <1>9, <2>1 DEF Cascades
    <3> HIDE DEF gone
    <3>2. model' \in [Models -> ModelRow]
      <4>1. \A row \in ModelRow : [row EXCEPT !.live = FALSE] \in ModelRow
        BY DEF ModelRow
      <4> QED
        BY <3>1, <4>1 DEF RegTypeOK
    <3>3. \A t \in Tasks : route'[t] \subseteq route[t] /\ route' \in [Tasks -> SUBSET RouteRow]
      BY <3>1 DEF RegTypeOK
    <3>4. TablesTyped' /\ RoutesInv'
      <4>1. TablesTyped'
        BY <3>1, <3>2, <3>3 DEF RegTypeOK, TablesTyped
      <4>2. RoutesInv'
        BY <3>3 DEF RoutesInv, Distinct
      <4> QED
        BY <4>1, <4>2
    <3> QED
      BY <3>1, <3>4, CommitsKeeps DEF RegTypeOK
  <2>2. CASE ~\E m \in gone : model[m].live
    <3>1. /\ adm' = [adm EXCEPT ![a].pc = "invalidate"]
          /\ UNCHANGED <<tables, registry, cached, callVars, version, putAt>>
      BY <1>9, <2>2 DEF Cascades
    <3>2. AdminsTyped'
      BY <3>1, TypeParts, CommittedIsTyped DEF AdminsTyped
    <3>3. TablesTyped' /\ SnapsTyped' /\ CallsTyped' /\ CacheTyped' /\ RoutesInv' /\ SnapsInv'
      BY <3>1, TypeParts DEF TablesTyped, SnapsTyped, CallsTyped, CacheTyped, RoutesInv,
                             SnapsInv, tables, registry, callVars
    <3> QED
      BY <3>1, <3>2, <3>3, TypeParts, NoCaller DEF callVars
  <2> QED
    BY <2>1, <2>2
<1>7. CASE Invalidate(a)
  <2>1. PICK p \in ApiProcs : /\ snap' = [snap EXCEPT ![p] = NoSnap]
                              /\ fresh' = [fresh EXCEPT ![p] = FALSE]
    BY <1>7 DEF Invalidate
  <2>2. /\ adm' = [adm EXCEPT ![a] = IdleRequest]
        /\ UNCHANGED <<tables, outages, cached, callVars, version, putAt>>
    BY <1>7 DEF Invalidate
  <2>3. RegTypeOK' /\ RoutesInv' /\ SnapsInv'
    BY <2>1, <2>2 DEF RegTypeOK, RoutesInv, SnapsInv, IdleRequest, tables, callVars
  <2> QED
    BY <2>2, <2>3, NoCaller DEF callVars
<1> QED
  BY <1>1, <1>2, <1>3, <1>4, <1>6, <1>7, <1>8, <1>9
  DEF AdminStep, CreateProvider, CreateProviderFromTemplate, DeleteModel, DeleteProvider

LEMMA ChainInit == RegInit => ChainInv
<1> SUFFICES ASSUME RegInit PROVE ChainInv
  OBVIOUS
<1> USE RegistryAssumption DEF RegInit
<1>1. 0 \in Position /\ EmptySnapshot(FALSE) \in Snapshot /\ Placed(EmptySnapshot(FALSE).chat)
  <2>1. EmptySnapshot(FALSE) \in Snapshot /\ Placed(EmptySnapshot(FALSE).chat)
    BY NothingLoaded
  <2>2. 0 \in 0..MaxChain
    OBVIOUS
  <2> QED
    BY <2>1, <2>2
<1>2. TablesTyped /\ SnapsTyped /\ CacheTyped /\ AdminsTyped
  BY DEF TablesTyped, SnapsTyped, CacheTyped, AdminsTyped, IdleRequest
<1>3. CallsTyped
  BY <1>1 DEF CallsTyped
<1>4. RoutesInv /\ SnapsInv /\ WalksInv /\ LocalIsTheLastResort
  BY <1>1 DEF RoutesInv, Distinct, SnapsInv, WalksInv, LocalIsTheLastResort
<1> QED
  BY <1>2, <1>3, <1>4, TypeParts DEF ChainInv

LEMMA ChainStep == ChainInv /\ [RegNext]_regVars => ChainInv'
<1> SUFFICES ASSUME ChainInv, [RegNext]_regVars PROVE ChainInv'
  OBVIOUS
<1>1. ASSUME NEW c \in Callers, CallStep(c) PROVE ChainInv'
  BY <1>1, CallStepKeeps
<1>2. ASSUME NEW p \in Procs, Expire(p) PROVE ChainInv'
  <2>1. RegTypeOK' /\ RoutesInv' /\ SnapsInv'
    BY <1>2 DEF ChainInv, RegTypeOK, RoutesInv, SnapsInv, Expire, tables, callVars, adminVars
  <2> QED
    BY <1>2, <2>1, NoCaller DEF ChainInv, Expire, callVars
<1>3. ASSUME NEW m \in Models \cup EnvModels, Evict(m) PROVE ChainInv'
  <2>1. RegTypeOK' /\ RoutesInv' /\ SnapsInv'
    BY <1>3
    DEF ChainInv, RegTypeOK, RoutesInv, SnapsInv, Evict, tables, registry, callVars, adminVars
  <2> QED
    BY <1>3, <2>1, NoCaller DEF ChainInv, Evict, callVars
<1>4. ASSUME NEW a \in Admins, AdminStep(a) PROVE ChainInv'
  BY <1>4, AdminStepKeeps
<1>5. CASE UNCHANGED regVars
  <2>1. RegTypeOK' /\ RoutesInv' /\ SnapsInv'
    BY <1>5
    DEF ChainInv, RegTypeOK, RoutesInv, SnapsInv, regVars, tables, registry, callVars, adminVars
  <2> QED
    BY <1>5, <2>1, NoCaller DEF ChainInv, regVars, callVars
<1> QED
  BY <1>1, <1>2, <1>3, <1>4, <1>5 DEF RegNext

\* Routes, snapshots and walks keep their shape whatever interleaves.
THEOREM ChainInvariant == RegSpec => []ChainInv
BY ChainInit, ChainStep, PTL DEF RegSpec

\* The tables, the snapshots and the calls stay well formed.
THEOREM RegistryIsTyped == RegSpec => []RegTypeOK
<1>1. ChainInv => RegTypeOK
  BY DEF ChainInv
<1> QED
  BY <1>1, ChainInvariant, PTL

\* A chat call fails only after a local endpoint was tried, for any routes, switches and
\* failures (registry.endpoints, _apply_failover_toggle, DynamicProviderChain.generate).
THEOREM LocalIsAlwaysTried == RegSpec => []LocalIsTheLastResort
<1>1. ChainInv => LocalIsTheLastResort
  BY DEF ChainInv
<1> QED
  BY <1>1, ChainInvariant, PTL

-----------------------------------------------------------------------------
(* Deletions of models.                                                    *)

\* Routes hold models that exist (put_route's check, the foreign keys).
RoutedAreLive == \A t \in Tasks : \A r \in route[t] : model[r.model].live

\* A route that came to hold a model someone is about to delete was written after the
\* check that no route holds it, or that its provider has no model.
CheckedFirst ==
    \A a \in Admins : adm[a].pc = "delete" =>
        /\ adm[a].at <= version
        /\ \A t \in Tasks : \A r \in route[t] :
              r.model \in Doomed(adm[a]) => putAt[t] > adm[a].at

DeleteInv == RoutedAreLive /\ CheckedFirst

\* What a committed edit does to the requests and the clock of edits.
LEMMA CommitCounts ==
  ASSUME RegTypeOK, NEW a \in Admins, Commits(a)
  PROVE  /\ version' = version + 1
         /\ \A b \in Admins : adm'[b].pc = "delete" => adm'[b] = adm[b]
BY DEF RegTypeOK, Commits

\* Every step keeps the routed models alive.
LEMMA LiveStep ==
  ASSUME ChainInv, RoutedAreLive, [RegNext]_regVars
  PROVE  RoutedAreLive'
<1> USE DEF ChainInv
<1>1. model \in [Models -> ModelRow] /\ route \in [Tasks -> SUBSET RouteRow]
  BY DEF RegTypeOK
<1>2. ASSUME UNCHANGED <<model, route>> PROVE RoutedAreLive'
  BY <1>2 DEF RoutedAreLive
<1>3. ASSUME NEW c \in Callers, CallStep(c) PROVE RoutedAreLive'
  <2>1. UNCHANGED tables
    BY <1>3 DEF CallStep, Begin, AskSnapshot, CacheHit, CacheMiss, FetchChat, FetchEmbedding,
       FetchSwitch, LoadFails, Answer, Retry, FailOver, GiveUp
  <2> QED
    BY <1>2, <2>1 DEF tables
<1>4. ASSUME NEW p \in Procs, Expire(p) PROVE RoutedAreLive'
  BY <1>2, <1>4 DEF Expire, tables
<1>5. ASSUME NEW m \in Models \cup EnvModels, Evict(m) PROVE RoutedAreLive'
  BY <1>2, <1>5 DEF Evict, tables
<1>6. CASE UNCHANGED regVars
  BY <1>2, <1>6 DEF regVars, tables
<1>7. ASSUME NEW a \in Admins, AdminStep(a) PROVE RoutedAreLive'
  <2>1. ASSUME UNCHANGED route, \A m \in Models : model[m].live => model'[m].live
        PROVE  RoutedAreLive'
    BY <1>1, <2>1 DEF RoutedAreLive, RouteRow
  <2>2. ASSUME NEW m \in Models, NEW enabled \in BOOLEAN, NEW modality \in Tasks,
               CreateModel(a, m, enabled, modality) \/ UpdateModel(a, m, enabled, modality)
        PROVE  RoutedAreLive'
    <3>1. UNCHANGED route
      BY <2>2 DEF CreateModel, UpdateModel
    <3>2. ASSUME NEW n \in Models, model[n].live PROVE model'[n].live
      <4>1. CASE CreateModel(a, m, enabled, modality)
        BY <1>1, <3>2, <4>1 DEF CreateModel
      <4>2. CASE UpdateModel(a, m, enabled, modality)
        BY <1>1, <3>2, <4>2 DEF UpdateModel, ModelRow
      <4> QED
        BY <2>2, <4>1, <4>2
    <3> QED
      BY <2>1, <3>1, <3>2
  <2>3. ASSUME NEW t \in Tasks, NEW s \in Chains, PutRoute(a, t, s)
        PROVE  RoutedAreLive'
    <3>1. /\ route' = [route EXCEPT ![t] = {[at |-> i, model |-> s[i]] : i \in DOMAIN s}]
          /\ \A i \in DOMAIN s : model[s[i]].live
          /\ UNCHANGED model
      BY <2>3 DEF PutRoute
    <3>2. ASSUME NEW u \in Tasks, NEW r \in route'[u] PROVE model[r.model].live
      <4>1. CASE u = t
        BY <1>1, <3>1, <3>2, <4>1
      <4>2. CASE u # t
        BY <1>1, <3>1, <3>2, <4>2 DEF RoutedAreLive
      <4> QED
        BY <4>1, <4>2
    <3> QED
      BY <3>1, <3>2 DEF RoutedAreLive
  <2>4. CASE Cascades(a)
    <3>1. CASE UNCHANGED <<model, route>>
      BY <1>2, <3>1
    <3> DEFINE gone == Doomed(adm[a])
    <3>2. CASE /\ model' = [m \in Models |-> IF m \in gone THEN [model[m] EXCEPT !.live = FALSE]
                                                           ELSE model[m]]
               /\ route' = [t \in Tasks |-> {r \in route[t] : r.model \notin gone}]
      <4> HIDE DEF gone
      <4> QED
        BY <1>1, <3>2 DEF RoutedAreLive, RouteRow
    <3> QED
      BY <2>4, <3>1, <3>2 DEF Cascades, tables
  <2>5. ASSUME UNCHANGED <<model, route>> PROVE RoutedAreLive'
    BY <1>2, <2>5
  <2> QED
    BY <1>7, <2>2, <2>3, <2>4, <2>5
    DEF AdminStep, CreateProvider, CreateProviderFromTemplate, UpdateProvider,
        PutRoutingSettings, CheckUse, CountModels, DeleteModel, DeleteProvider, Invalidate, tables
<1> QED
  BY <1>3, <1>4, <1>5, <1>6, <1>7 DEF RegNext

\* Routes that only lose rows keep it.
LEMMA FewerRoutes ==
  ASSUME CheckedFirst, RegTypeOK, version' \in Nat, version <= version', putAt' = putAt,
         \A t \in Tasks : route'[t] \subseteq route[t],
         \A b \in Admins : adm'[b].pc = "delete" => adm'[b] = adm[b]
  PROVE  CheckedFirst'
<1> SUFFICES ASSUME NEW b \in Admins, adm'[b].pc = "delete"
             PROVE  /\ adm[b].at <= version'
                    /\ \A t \in Tasks : \A r \in route'[t] :
                          r.model \in Doomed(adm[b]) => putAt[t] > adm[b].at
  BY DEF CheckedFirst
<1>1. adm[b].pc = "delete" /\ adm[b].at \in Nat /\ version \in Nat
  BY DEF RegTypeOK
<1> QED
  BY <1>1 DEF CheckedFirst

LEMMA DeleteStep ==
  ASSUME ChainInv, DeleteInv, [RegNext]_regVars
  PROVE  CheckedFirst'
<1> USE DEF ChainInv, DeleteInv
<1>0. version \in Nat
  BY DEF RegTypeOK
<1>1. ASSUME UNCHANGED <<tables, adminVars>> PROVE CheckedFirst'
  BY <1>1 DEF CheckedFirst, tables, adminVars
<1>2. ASSUME NEW c \in Callers, CallStep(c) PROVE CheckedFirst'
  <2>1. UNCHANGED <<tables, adminVars>>
    BY <1>2 DEF CallStep, Begin, AskSnapshot, CacheHit, CacheMiss, FetchChat, FetchEmbedding,
       FetchSwitch, LoadFails, Answer, Retry, FailOver, GiveUp
  <2> QED
    BY <1>1, <2>1
<1>3. ASSUME NEW p \in Procs, Expire(p) PROVE CheckedFirst'
  BY <1>1, <1>3 DEF Expire
<1>4. ASSUME NEW m \in Models \cup EnvModels, Evict(m) PROVE CheckedFirst'
  BY <1>1, <1>4 DEF Evict
<1>5. CASE UNCHANGED regVars
  BY <1>1, <1>5 DEF regVars
<1>6. ASSUME NEW a \in Admins, AdminStep(a) PROVE CheckedFirst'
  <2>1. ASSUME Commits(a), putAt' = putAt, \A t \in Tasks : route'[t] \subseteq route[t]
        PROVE  CheckedFirst'
    BY <1>0, <2>1, CommitCounts, FewerRoutes
  <2>2. ASSUME NEW m \in Models, NEW enabled \in BOOLEAN, NEW modality \in Tasks,
               CreateModel(a, m, enabled, modality) \/ UpdateModel(a, m, enabled, modality)
        PROVE  CheckedFirst'
    BY <2>1, <2>2 DEF CreateModel, UpdateModel
  <2>3. ASSUME NEW p \in Providers, NEW enabled \in BOOLEAN, NEW local \in BOOLEAN,
               UpdateProvider(a, p, enabled, local)
        PROVE  CheckedFirst'
    BY <2>1, <2>3 DEF UpdateProvider
  <2>4. ASSUME NEW t \in Tasks, NEW s \in Chains, PutRoute(a, t, s)
        PROVE  CheckedFirst'
    <3>1. /\ \A u \in Tasks \ {t} : route'[u] = route[u] /\ putAt'[u] = putAt[u]
          /\ putAt'[t] = version + 1 /\ Commits(a)
      BY <2>4 DEF PutRoute, RegTypeOK
    <3>2. ASSUME NEW b \in Admins, adm'[b].pc = "delete"
          PROVE  /\ adm[b].pc = "delete" /\ adm'[b] = adm[b] /\ adm[b].at \in Nat
                 /\ adm[b].at <= version /\ version' = version + 1
      BY <3>1, <3>2, CommitCounts DEF RegTypeOK, CheckedFirst
    <3>3. ASSUME NEW b \in Admins, adm'[b].pc = "delete",
                 NEW u \in Tasks, NEW r \in route'[u], r.model \in Doomed(adm'[b])
          PROVE  putAt'[u] > adm'[b].at
      <4>1. CASE u = t
        BY <1>0, <3>1, <3>2, <3>3, <4>1
      <4>2. CASE u # t
        BY <3>1, <3>2, <3>3, <4>2 DEF CheckedFirst
      <4> QED
        BY <4>1, <4>2
    <3>4. ASSUME NEW b \in Admins, adm'[b].pc = "delete" PROVE adm'[b].at <= version'
      BY <1>0, <3>2, <3>4
    <3> QED
      BY <3>3, <3>4 DEF CheckedFirst
  <2>5. ASSUME NEW enabled \in BOOLEAN, PutRoutingSettings(a, enabled)
        PROVE  CheckedFirst'
    BY <2>1, <2>5 DEF PutRoutingSettings
  <2>6. ASSUME NEW req, adm' = [adm EXCEPT ![a] = req], req.at = version,
               UNCHANGED <<tables, version, putAt>>,
               \A t \in Tasks : \A r \in route[t] : r.model \notin Doomed(req)
        PROVE  CheckedFirst'
    <3>1. adm'[a] = req /\ \A b \in Admins \ {a} : adm'[b] = adm[b]
      BY <2>6 DEF RegTypeOK
    <3> QED
      BY <1>0, <2>6, <3>1 DEF CheckedFirst, tables
  <2>7. ASSUME NEW m \in Models, CheckUse(a, m)
        PROVE  CheckedFirst'
    <3> DEFINE req == [pc |-> "delete", model |-> m, provider |-> {}, at |-> version]
    <3>1. Doomed(req) = {m}
      BY DEF Doomed
    <3>2. adm' = [adm EXCEPT ![a] = req] /\ UNCHANGED <<tables, version, putAt>> /\ ~Routed(m)
      BY <2>7 DEF CheckUse
    <3>3. \A t \in Tasks : \A r \in route[t] : r.model \notin Doomed(req)
      BY <3>1, <3>2 DEF Routed
    <3>4. req.at = version
      OBVIOUS
    <3> HIDE DEF req
    <3> QED
      BY <2>6, <3>2, <3>3, <3>4
  <2>9. ASSUME NEW p \in Providers, CountModels(a, p)
        PROVE  CheckedFirst'
    <3> DEFINE req == [pc |-> "delete", model |-> NoModel, provider |-> {p}, at |-> version]
    <3>1. \A m \in Doomed(req) : ~model[m].live
      BY <2>9, RegistryAssumption DEF Doomed, CountModels
    <3>2. adm' = [adm EXCEPT ![a] = req] /\ UNCHANGED <<tables, version, putAt>>
      BY <2>9 DEF CountModels
    <3>3. \A t \in Tasks : \A r \in route[t] : r.model \notin Doomed(req)
      BY <3>1 DEF RoutedAreLive
    <3>4. req.at = version
      OBVIOUS
    <3> HIDE DEF req
    <3> QED
      BY <2>6, <3>2, <3>3, <3>4
  <2>10. CASE Cascades(a)
    <3>1. putAt' = putAt /\ \A t \in Tasks : route'[t] \subseteq route[t]
      BY <2>10 DEF Cascades, tables
    <3>2. CASE ~Commits(a)
      <4>1. adm' = [adm EXCEPT ![a].pc = "invalidate"] /\ version' = version
        BY <2>10, <3>2 DEF Cascades
      <4>2. \A b \in Admins : adm'[b].pc = "delete" => adm'[b] = adm[b]
        BY <4>1 DEF RegTypeOK
      <4> QED
        BY <1>0, <3>1, <4>1, <4>2, FewerRoutes
    <3> QED
      BY <2>1, <3>1, <3>2
  <2>8. CASE Invalidate(a)
    <3>1. adm' = [adm EXCEPT ![a] = IdleRequest] /\ UNCHANGED <<tables, version, putAt>>
      BY <2>8 DEF Invalidate
    <3>2. \A b \in Admins : adm'[b].pc = "delete" => adm'[b] = adm[b]
      BY <3>1 DEF RegTypeOK, IdleRequest
    <3> QED
      BY <1>0, <3>1, <3>2, FewerRoutes DEF tables
  <2> QED
    BY <1>6, <2>2, <2>3, <2>4, <2>5, <2>7, <2>8, <2>9, <2>10
    DEF AdminStep, CreateProvider, CreateProviderFromTemplate, DeleteModel, DeleteProvider
<1> QED
  BY <1>2, <1>3, <1>4, <1>5, <1>6 DEF RegNext

\* Only the second statement of a deletion takes a model away.
LEMMA OnlyDeletionKills ==
  ASSUME ChainInv, [RegNext]_regVars, NEW m \in Models, model[m].live, ~model'[m].live
  PROVE  \E a \in Admins : adm[a].pc = "delete" /\ m \in Doomed(adm[a])
<1> USE DEF ChainInv
<1>1. model \in [Models -> ModelRow]
  BY DEF RegTypeOK
<1>2. model' # model
  OBVIOUS
<1>3. \E a \in Admins : AdminStep(a)
  <2>1. ~\E c \in Callers : CallStep(c)
    BY <1>2 DEF CallStep, Begin, AskSnapshot, CacheHit, CacheMiss, FetchChat, FetchEmbedding,
       FetchSwitch, LoadFails, Answer, Retry, FailOver, GiveUp, tables
  <2>2. ~(UNCHANGED regVars)
    BY <1>2 DEF regVars, tables
  <2> QED
    BY <1>2, <2>1, <2>2 DEF RegNext, Expire, Evict, tables
<1>4. PICK a \in Admins : AdminStep(a)
  BY <1>3
<1>5. ASSUME NEW n \in Models, NEW enabled \in BOOLEAN, NEW modality \in Tasks,
             CreateModel(a, n, enabled, modality) \/ UpdateModel(a, n, enabled, modality)
      PROVE  FALSE
  <2>1. model'[m].live = model[m].live \/ model'[m].live = TRUE
    BY <1>1, <1>5 DEF CreateModel, UpdateModel, ModelRow
  <2> QED
    BY <2>1
<1>6. Cascades(a)
  BY <1>2, <1>4, <1>5
  DEF AdminStep, UpdateProvider, CreateProvider, CreateProviderFromTemplate, PutRoute,
      PutRoutingSettings, CheckUse, CountModels, DeleteModel, DeleteProvider, Invalidate, tables
<1>7. m \in Doomed(adm[a])
  BY <1>2, <1>6 DEF Cascades, tables
<1> QED
  BY <1>6, <1>7 DEF Cascades

\* A deletion empties a route position only when the route was written after the check
\* (delete_model, bulk_delete_models and delete_provider beside put_route).
THEOREM DeletionsSpareRoutes == RegSpec => DeleteSparesRouted
<1> DEFINE Spares ==
      \A t \in Tasks : \A r \in route[t] :
         model[r.model].live /\ ~model'[r.model].live
            => \E a \in Admins : /\ adm[a].pc = "delete" /\ r.model \in Doomed(adm[a])
                                 /\ putAt[t] > adm[a].at
<1>1. RegInit => DeleteInv
  BY RegistryAssumption DEF RegInit, DeleteInv, RoutedAreLive, CheckedFirst, IdleRequest
<1>2. ChainInv /\ DeleteInv /\ [RegNext]_regVars => DeleteInv'
  BY DeleteStep, LiveStep DEF DeleteInv
<1>3. ChainInv /\ DeleteInv /\ [RegNext]_regVars => [Spares]_regVars
  <2> SUFFICES ASSUME ChainInv, DeleteInv, [RegNext]_regVars,
                      NEW t \in Tasks, NEW r \in route[t],
                      model[r.model].live, ~model'[r.model].live
               PROVE  \E a \in Admins : /\ adm[a].pc = "delete" /\ r.model \in Doomed(adm[a])
                                        /\ putAt[t] > adm[a].at
    OBVIOUS
  <2>1. r.model \in Models
    BY DEF ChainInv, RegTypeOK, RouteRow
  <2>2. PICK a \in Admins : adm[a].pc = "delete" /\ r.model \in Doomed(adm[a])
    BY <2>1, OnlyDeletionKills
  <2> QED
    BY <2>2 DEF DeleteInv, CheckedFirst
<1> QED
  BY <1>1, <1>2, <1>3, ChainInvariant, PTL DEF RegSpec, DeleteSparesRouted

-----------------------------------------------------------------------------
(* Freshness.                                                              *)

\* What a load has read is what the tables hold, unless they changed meanwhile.
LoadsInv ==
    \A c \in Callers :
        /\ pc[c] \in {"embedding_rows", "switch_row"} /\ ~load[c].torn
              => load[c].chat = Rows("chat")
        /\ pc[c] = "switch_row" /\ ~load[c].torn => load[c].embedding = Rows("embedding")

FreshInv == LoadsInv /\ SnapshotIsCurrent

\* Tables that do not change keep their rows.
LEMMA SameTables ==
  ASSUME UNCHANGED tables
  PROVE  Tables' = Tables /\ Rows("chat")' = Rows("chat") /\ Rows("embedding")' = Rows("embedding")
BY DEF tables, Tables, Rows

\* Calls that do not load, or start to.
LEMMA OtherLoads ==
  ASSUME LoadsInv, UNCHANGED tables,
         \A c \in Callers : \/ pc'[c] = pc[c] /\ load'[c] = load[c]
                            \/ pc'[c] \notin {"embedding_rows", "switch_row"}
  PROVE  LoadsInv'
BY SameTables DEF LoadsInv

LEMMA CallStepIsFresh ==
  ASSUME RegTypeOK, FreshInv, NEW c \in Callers, CallStep(c)
  PROVE  FreshInv'
<1> USE DEF FreshInv
<1>1. UNCHANGED <<tables, adm>>
  BY DEF CallStep, Begin, AskSnapshot, CacheHit, CacheMiss, FetchChat, FetchEmbedding,
     FetchSwitch, LoadFails, Answer, Retry, FailOver, GiveUp, adminVars
<1>2. ASSUME UNCHANGED snap PROVE SnapshotIsCurrent'
  BY <1>1, <1>2, SameTables DEF SnapshotIsCurrent
<1>3. ASSUME NEW s \in Snapshot, snap' = [snap EXCEPT ![ProcOf[c]] = s], ~s.torn => s = Tables
      PROVE  SnapshotIsCurrent'
  <2>1. \A p \in Procs : snap'[p] = snap[p] \/ snap'[p] = s
    BY <1>3 DEF RegTypeOK
  <2> QED
    BY <1>1, <1>3, <2>1, SameTables DEF SnapshotIsCurrent
<1>4. /\ pc \in [Callers -> {"idle", "lookup", "try", "failed"} \cup Fetching]
      /\ load \in [Callers -> Snapshot]
  BY DEF RegTypeOK
<1>5. ASSUME NEW t, NEW s, NEW preferred, UseAs(c, t, s, preferred)
      PROVE  LoadsInv'
  <2>1. pc'[c] \notin {"embedding_rows", "switch_row"}
    BY <1>4, <1>5 DEF UseAs
  <2>2. \A d \in Callers \ {c} : pc'[d] = pc[d] /\ load'[d] = load[d]
    BY <1>4, <1>5 DEF UseAs
  <2> QED
    BY <1>1, <2>1, <2>2, OtherLoads
<1>6. ASSUME NEW t, NEW preferred, AskSnapshot(c, t, preferred)
      PROVE  FreshInv'
  <2>1. UNCHANGED snap
    BY <1>6 DEF AskSnapshot, registry
  <2>2. CASE UseAs(c, t, snap[ProcOf[c]], preferred)
    BY <1>2, <1>5, <2>1, <2>2
  <2>3. CASE pc' = [pc EXCEPT ![c] = "chat_rows"] /\ UNCHANGED load
    BY <1>1, <1>2, <1>4, <2>1, <2>3, OtherLoads
  <2> QED
    BY <1>6, <2>2, <2>3 DEF AskSnapshot
<1>7. CASE Begin(c) \/ CacheMiss(c)
  BY <1>6, <1>7 DEF Begin, CacheMiss
<1>8. CASE CacheHit(c) \/ Answer(c) \/ Retry(c) \/ FailOver(c) \/ GiveUp(c)
  <2>1. UNCHANGED <<snap, load>>
    BY <1>8 DEF CacheHit, Answer, Retry, FailOver, GiveUp, registry
  <2>2. \A d \in Callers : pc'[d] = pc[d] \/ pc'[d] \in {"idle", "failed"}
    BY <1>4, <1>8 DEF CacheHit, Answer, Retry, FailOver, GiveUp, Returns
  <2> QED
    BY <1>1, <1>2, <2>1, <2>2, OtherLoads
<1>9. CASE FetchChat(c)
  <2>1. load' = [load EXCEPT ![c] = [load[c] EXCEPT !.chat = Rows("chat")]]
    BY <1>9 DEF FetchChat
  <2>2. [load[c] EXCEPT !.chat = Rows("chat")].chat = Rows("chat")
    BY <1>4 DEF Snapshot
  <2>3. pc' = [pc EXCEPT ![c] = "embedding_rows"] /\ UNCHANGED snap
    BY <1>9 DEF FetchChat, registry
  <2>4. LoadsInv'
    BY <1>1, <1>4, <2>1, <2>2, <2>3, SameTables DEF LoadsInv
  <2> QED
    BY <1>2, <2>3, <2>4
<1>10. CASE FetchEmbedding(c)
  <2> DEFINE s == [load[c] EXCEPT !.embedding = Rows("embedding")]
  <2>1. load' = [load EXCEPT ![c] = s] /\ pc[c] = "embedding_rows"
    BY <1>10 DEF FetchEmbedding
  <2>2. s.embedding = Rows("embedding") /\ s.chat = load[c].chat /\ s.torn = load[c].torn
    BY <1>4 DEF Snapshot
  <2>3. pc' = [pc EXCEPT ![c] = "switch_row"] /\ UNCHANGED snap
    BY <1>10 DEF FetchEmbedding, registry
  <2> HIDE DEF s
  <2>4. LoadsInv'
    BY <1>1, <1>4, <2>1, <2>2, <2>3, SameTables DEF LoadsInv
  <2> QED
    BY <1>2, <2>3, <2>4
<1>11. CASE FetchSwitch(c)
  <2> DEFINE s == [load[c] EXCEPT !.switch = switch]
  <2>1. /\ pc[c] = "switch_row" /\ snap' = [snap EXCEPT ![ProcOf[c]] = s]
        /\ UseAs(c, task[c], s, prefer[c])
    BY <1>11 DEF FetchSwitch
  <2>2. load[c] \in Snapshot /\ switch \in BOOLEAN
    BY DEF RegTypeOK
  <2>3. s \in Snapshot
    BY <2>2, Loading
  <2>4. s = [chat |-> load[c].chat, embedding |-> load[c].embedding, switch |-> switch,
             torn |-> load[c].torn]
    BY <2>2 DEF Snapshot
  <2>5. ~s.torn => s = Tables
    <3>1. SUFFICES ASSUME ~s.torn PROVE s = Tables
      OBVIOUS
    <3>2. load[c].torn \in BOOLEAN
      BY <2>2 DEF Snapshot
    <3>3. ~load[c].torn /\ load[c].torn = FALSE
      BY <2>4, <3>1, <3>2
    <3>4. load[c].chat = Rows("chat") /\ load[c].embedding = Rows("embedding")
      BY <2>1, <3>3 DEF LoadsInv
    <3> QED
      BY <2>4, <3>3, <3>4 DEF Tables
  <2> HIDE DEF s
  <2> QED
    BY <1>3, <1>5, <2>1, <2>3, <2>5
<1>12. CASE LoadFails(c)
  <2>1. CASE snap[ProcOf[c]] # NoSnap
    BY <1>2, <1>5, <1>12, <2>1 DEF LoadFails
  <2>2. CASE snap[ProcOf[c]] = NoSnap
    <3>1. /\ snap' = [snap EXCEPT ![ProcOf[c]] = EmptySnapshot(TRUE)]
          /\ UseAs(c, task[c], EmptySnapshot(TRUE), prefer[c])
      BY <1>12, <2>2 DEF LoadFails
    <3>2. EmptySnapshot(TRUE) \in Snapshot /\ EmptySnapshot(TRUE).torn
      BY NothingLoaded DEF EmptySnapshot
    <3> QED
      BY <1>3, <1>5, <3>1, <3>2
  <2> QED
    BY <2>1, <2>2
<1> QED
  BY <1>7, <1>8, <1>9, <1>10, <1>11, <1>12 DEF CallStep

LEMMA AdminStepIsFresh ==
  ASSUME RegTypeOK, FreshInv, NEW a \in Admins, AdminStep(a)
  PROVE  FreshInv'
<1> USE DEF FreshInv
<1>1. adm \in [Admins -> [pc: {"idle", "delete", "invalidate"}, model: Models \cup {NoModel},
                         provider: SUBSET Providers, at: Nat]]
  BY DEF RegTypeOK
<1>2. ASSUME Commits(a) PROVE FreshInv'
  <2>1. adm'[a].pc = "invalidate"
    BY <1>1, <1>2 DEF Commits
  <2>2. /\ UNCHANGED pc
        /\ load' = [c \in Callers |->
                       IF pc[c] \in {"embedding_rows", "switch_row"}
                       THEN [load[c] EXCEPT !.torn = TRUE] ELSE load[c]]
    BY <1>2 DEF Commits
  <2>3. \A c \in Callers : load[c] \in Snapshot
    BY DEF RegTypeOK
  <2>4. LoadsInv'
    <3>1. ASSUME NEW c \in Callers, pc[c] \in {"embedding_rows", "switch_row"}
          PROVE  load'[c].torn
      <4>1. load'[c] = [load[c] EXCEPT !.torn = TRUE]
        BY <2>2, <3>1
      <4> QED
        BY <2>3, <4>1 DEF Snapshot
    <3> QED
      BY <2>2, <3>1 DEF LoadsInv
  <2> QED
    BY <2>1, <2>4 DEF SnapshotIsCurrent
<1>3. ASSUME UNCHANGED <<tables, callVars>> PROVE LoadsInv'
  BY <1>3, OtherLoads DEF callVars
<1>4. ASSUME UNCHANGED <<tables, callVars>>, adm'[a].pc # "idle" PROVE FreshInv'
  BY <1>3, <1>4 DEF SnapshotIsCurrent
<1>5. ASSUME NEW m \in Models, CheckUse(a, m) PROVE FreshInv'
  <2>1. adm'[a].pc = "delete" /\ UNCHANGED <<tables, callVars>>
    BY <1>1, <1>5 DEF CheckUse
  <2> QED
    BY <1>4, <2>1
<1>8. ASSUME NEW p \in Providers, CountModels(a, p) PROVE FreshInv'
  <2>1. adm'[a].pc = "delete" /\ UNCHANGED <<tables, callVars>>
    BY <1>1, <1>8 DEF CountModels
  <2> QED
    BY <1>4, <2>1
<1>6. CASE Cascades(a)
  <2>1. CASE ~Commits(a)
    <3>1. adm' = [adm EXCEPT ![a].pc = "invalidate"] /\ UNCHANGED <<tables, callVars>>
      BY <1>6, <2>1 DEF Cascades
    <3>2. adm'[a].pc = "invalidate"
      BY <1>1, <3>1
    <3> QED
      BY <1>4, <3>1, <3>2
  <2> QED
    BY <1>2, <2>1
<1>7. CASE Invalidate(a)
  <2>1. PICK q \in ApiProcs : snap' = [snap EXCEPT ![q] = NoSnap]
    BY <1>7 DEF Invalidate
  <2>2. \A p \in Procs : ApiProcs = {p} => snap'[p] = NoSnap
    BY <2>1 DEF RegTypeOK
  <2>3. UNCHANGED <<tables, callVars>>
    BY <1>7 DEF Invalidate
  <2> QED
    BY <1>3, <2>2, <2>3 DEF SnapshotIsCurrent
<1> QED
  BY <1>2, <1>5, <1>6, <1>7, <1>8
  DEF AdminStep, CreateModel, UpdateModel, UpdateProvider, CreateProvider,
      CreateProviderFromTemplate, PutRoute, PutRoutingSettings, DeleteModel, DeleteProvider

\* With one process behind the operator's requests, a snapshot that no edit crossed is the
\* tables' state whenever no request is half-way (registry.invalidate, _load).
THEOREM SnapshotsAreCurrent == RegSpec => []SnapshotIsCurrent
<1>1. RegInit => FreshInv
  BY DEF RegInit, FreshInv, LoadsInv, SnapshotIsCurrent
<1>2. RegTypeOK /\ FreshInv /\ [RegNext]_regVars => FreshInv'
  <2> SUFFICES ASSUME RegTypeOK, FreshInv, [RegNext]_regVars PROVE FreshInv'
    OBVIOUS
  <2>1. ASSUME UNCHANGED <<tables, snap, pc, load, adm>> PROVE FreshInv'
    <3>1. LoadsInv'
      BY <2>1, OtherLoads DEF FreshInv
    <3> QED
      BY <2>1, <3>1, SameTables DEF FreshInv, SnapshotIsCurrent
  <2>2. ASSUME NEW c \in Callers, CallStep(c) PROVE FreshInv'
    BY <2>2, CallStepIsFresh
  <2>3. ASSUME NEW a \in Admins, AdminStep(a) PROVE FreshInv'
    BY <2>3, AdminStepIsFresh
  <2>4. ASSUME NEW p \in Procs, Expire(p) PROVE FreshInv'
    BY <2>1, <2>4 DEF Expire, callVars, adminVars
  <2>5. ASSUME NEW m \in Models \cup EnvModels, Evict(m) PROVE FreshInv'
    BY <2>1, <2>5 DEF Evict, registry, callVars, adminVars
  <2>6. CASE UNCHANGED regVars
    BY <2>1, <2>6 DEF regVars, registry, callVars, adminVars
  <2> QED
    BY <2>2, <2>3, <2>4, <2>5, <2>6 DEF RegNext
<1>3. FreshInv => SnapshotIsCurrent
  BY DEF FreshInv
<1> QED
  BY <1>1, <1>2, <1>3, RegistryIsTyped, PTL DEF RegSpec

=============================================================================
