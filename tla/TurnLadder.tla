----------------------------- MODULE TurnLadder -----------------------------
(***************************************************************************)
(* One tenant's assistant turns going down the gateway's cost ladder, side *)
(* by side with the catalogue writes that make cached answers out of date  *)
(* and with erasures of the tenant's data, which take the version back.    *)
(*                                                                         *)
(*   version -> L1 exact cache -> L2 semantic cache -> budget and wallet   *)
(*           -> retrieval -> generation -> charge -> store -> guardrail    *)
(*                                                                         *)
(* Every arrow is an await, so turns interleave at each of them. A Redis   *)
(* operation that fails is swallowed where it happens.                     *)
(*                                                                         *)
(* An answer is abstracted to the revision of the catalogue it was written *)
(* from and to whether the output guardrail accepts it. The API's runtime  *)
(* passes no rule_match, so the rule rung is never taken.                  *)
(***************************************************************************)
EXTENDS Integers, Sequences, FiniteSets, FiniteSetsExt

CONSTANTS
    Turns,      \* turns that can be in progress at once
    Queries,    \* normalised texts
    Similar,    \* Similar[q]: queries whose vectors are within the threshold of q's
    Tier,       \* Tier[q]: what classify makes of q
    Endpoints,  \* the provider chain: [local : BOOLEAN, name : "local" or "other"]
    Price,      \* Price[r]: the credits a turn on rung r may come to, by its tokens
    Cap,        \* the tenant's budget cap, 0 for none
    L2Max,      \* entries the semantic cache keeps
    Switches,   \* kill switches an operator uses: "tenant", "global"
    GrantSize,  \* credits of one grant
    Scopes      \* what was spent before the first turn, and the bounds: how many turns are
                \* asked, writes of the catalogue made, grants given, store operations fail
                \* and erasures are asked for

Rungs == {"cache", "search", "local", "frontier"}
Tiers == {"rule", "search", "synthesis", "hard"}

\* A paid endpoint is not named "local": the router would bill it as one.
ASSUME TurnLadderAssumption ==
    /\ IsFiniteSet(Turns)
    /\ Queries # {}
    /\ Tier \in [Queries -> Tiers]
    /\ Similar \in [Queries -> SUBSET Queries]
    /\ Endpoints \subseteq [local : BOOLEAN, name : {"local", "other"}]
    /\ \E e \in Endpoints : e.local
    /\ Switches \subseteq {"tenant", "global"}
    /\ \A e \in Endpoints : ~e.local => e.name # "local"
    /\ Price \in [Rungs -> SUBSET Nat] /\ Price["cache"] = {0}
    /\ \A r \in Rungs : Price[r] # {} /\ IsFiniteSet(Price[r])
    /\ {Cap, L2Max, GrantSize} \subseteq Nat
    /\ Scopes \subseteq [before : Nat, turns : Nat, edits : Nat, grants : Nat, faults : Nat,
                         erasures : Nat]

VARIABLES
    pc,         \* the step each turn stands before
    query,      \* what it was asked
    ver,        \* the data version it read
    vectored,   \* it has the query's vector
    restricted, \* BudgetState.local_only as it read it
    ans,        \* its answer
    rung,       \* the rung it is billed for
    price,      \* what it costs in credits
    l1,         \* Redis: the exact cache
    l2,         \* Redis: the semantic cache, newest first
    dv,         \* Redis: the data version
    spent,      \* Redis: budget:spent
    kill,       \* Redis: the kill switches that are on
    cached,     \* Redis: the cached wallet balance, {} when there is none
    balance,    \* PostgreSQL: the sum of the credit ledger
    written,    \* Elasticsearch: revision of the catalogue written
    visible,    \* Elasticsearch: revision that searches see
    owed,       \* workers between a write and its bump
    erasing,    \* what a request that erases the tenant's data deletes next, "none" without one
    scope,      \* the scope of this behaviour
    asked,      \* ghost: turns so far
    granted,    \* ghost: credits granted so far
    faults,     \* ghost: failed operations so far
    erasures,   \* ghost: erasures so far
    shown,      \* ghost: shown[d] is what searches saw when the version became d
    outlived,   \* ghost: exact entries of a version that an erasure took back
    late,       \* ghost: turns that have read no version since
    bought,     \* ghost: credits of the answers of paid endpoints
    lostSpend,  \* ghost: credits whose charge to the budget failed
    lostLedger  \* ghost: credits whose ledger row failed

turnVars == <<pc, query, ver, vectored, restricted, ans, rung, price>>
cacheVars == <<l1, l2, outlived>>
moneyVars == <<spent, kill, cached, balance, granted, bought, lostSpend, lostLedger>>
catalogueVars == <<dv, written, visible, owed, shown, erasing, erasures, late>>
boundVars == <<asked, faults, scope>>
vars == <<turnVars, cacheVars, moneyVars, catalogueVars, boundVars>>

Answer == [seen : Nat, grounded : BOOLEAN]
NoAnswer == [seen |-> 0, grounded |-> TRUE]
Steps == {"l1", "l2", "budget", "wallet", "retrieve", "generate",
          "charge", "meter", "storeL1", "storeL2"}
Resting == {"idle", "replied", "down"}

Init ==
    /\ pc = [t \in Turns |-> "idle"]
    /\ query \in [Turns -> {CHOOSE q \in Queries : TRUE}]
    /\ ver = [t \in Turns |-> 0]
    /\ vectored = [t \in Turns |-> FALSE]
    /\ restricted = [t \in Turns |-> FALSE]
    /\ ans = [t \in Turns |-> NoAnswer]
    /\ rung = [t \in Turns |-> "cache"]
    /\ price = [t \in Turns |-> 0]
    /\ l1 = {} /\ l2 = <<>>
    /\ scope \in Scopes /\ spent = scope.before
    /\ kill = {} /\ cached = {}
    /\ granted = 0 /\ balance = 0
    /\ dv = 0 /\ written = 0 /\ visible = 0 /\ owed = 0
    /\ shown = [d \in {0} |-> 0]
    /\ erasing = "none" /\ outlived = {} /\ late = {}
    /\ asked = 0 /\ faults = 0 /\ erasures = 0
    /\ bought = 0 /\ lostSpend = 0 /\ lostLedger = 0

\* A store operation works, or fails at the cost of one of the bounded faults.
Works(ok) ==
    /\ faults' = IF ok THEN faults ELSE faults + 1
    /\ faults' <= scope.faults

Goto(t, s) == pc' = [pc EXCEPT ![t] = s]

\* RagAssistant.answer after the router returned: a generated answer that the
\* guardrail rejects gives way to a list of products. Cached ones are not looked at.
Guarded(r, a) ==
    IF r \in {"local", "frontier"} /\ ~a.grounded THEN [a EXCEPT !.grounded = TRUE] ELSE a

\* The turn is over; what only its later steps needed is forgotten.
Reply(t, r, a) ==
    /\ Goto(t, "replied")
    /\ ans' = [ans EXCEPT ![t] = Guarded(r, a)]
    /\ rung' = [rung EXCEPT ![t] = r]
    /\ vectored' = [vectored EXCEPT ![t] = FALSE]
    /\ restricted' = [restricted EXCEPT ![t] = FALSE]
    /\ price' = [price EXCEPT ![t] = 0]

replyVars == <<vectored, restricted, ans, rung, price>>

-----------------------------------------------------------------------------
(* A turn.                                                                 *)

\* The request arrives; the data version is read, as 0 when Redis fails.
Ask(t, q) ==
    /\ pc[t] \in Resting
    /\ asked < scope.turns
    /\ asked' = asked + 1
    /\ Goto(t, "l1")
    /\ query' = [query EXCEPT ![t] = q]
    /\ \E ok \in BOOLEAN :
          /\ Works(ok)
          /\ ver' = [ver EXCEPT ![t] = IF ok THEN dv ELSE 0]
    /\ vectored' = [vectored EXCEPT ![t] = FALSE]
    /\ restricted' = [restricted EXCEPT ![t] = FALSE]
    /\ ans' = [ans EXCEPT ![t] = NoAnswer]
    /\ rung' = [rung EXCEPT ![t] = "cache"]
    /\ price' = [price EXCEPT ![t] = 0]
    /\ late' = late \ {t}
    /\ UNCHANGED <<cacheVars, moneyVars, dv, written, visible, owed, shown, erasing, erasures,
                   scope>>

L1Hits(t) == {e \in l1 : e.query = query[t] /\ e.ver = ver[t]}

\* A hit costs nothing, so charge and ledger are left alone.
LookupL1(t) ==
    /\ pc[t] = "l1"
    /\ \E ok \in BOOLEAN :
          /\ Works(ok)
          /\ IF ok /\ L1Hits(t) # {}
             THEN \E e \in L1Hits(t) : Reply(t, "cache", e.ans)
             ELSE Goto(t, "l2") /\ UNCHANGED replyVars
    /\ UNCHANGED <<query, ver, cacheVars, moneyVars, catalogueVars, asked, scope>>

\* The first entry with the best score: the same text scores highest, and any
\* other similar one may.
L2Hits(t) ==
    LET same == {i \in DOMAIN l2 : l2[i].query = query[t]}
    IN IF same # {} THEN {Min(same)} ELSE {i \in DOMAIN l2 : l2[i].query \in Similar[query[t]]}

\* Without an embedding the layer is skipped, here and when the answer is stored.
LookupL2(t) ==
    /\ pc[t] = "l2"
    /\ \E embedded, ok \in BOOLEAN :
          /\ Works(ok)
          /\ IF embedded /\ ok /\ L2Hits(t) # {}
             THEN \E i \in L2Hits(t) : Reply(t, "cache", l2[i].ans)
             ELSE /\ Goto(t, "budget")
                  /\ vectored' = [vectored EXCEPT ![t] = embedded]
                  /\ UNCHANGED <<restricted, ans, rung, price>>
    /\ UNCHANGED <<query, ver, cacheVars, moneyVars, catalogueVars, asked, scope>>

\* Mutant of HardCapped: the turn that reaches the cap is not the last.
CappedBeyond == Cap > 0 /\ spent > Cap

HardCapped == Cap > 0 /\ spent >= Cap

\* BudgetGuard.state: a failed read restricts the turn, except that the global
\* switch counts as off when only its own read fails.
ReadBudget(t) ==
    /\ pc[t] = "budget"
    /\ \E ok \in BOOLEAN, readable \in SUBSET {"global"} :
          LET limited == \/ ~ok
                         \/ HardCapped
                         \/ kill \cap (readable \cup {"tenant"}) # {}
          IN /\ Works(ok /\ readable # {})
             /\ restricted' = [restricted EXCEPT ![t] = limited]
             /\ Goto(t, IF limited THEN "retrieve" ELSE "wallet")
    /\ UNCHANGED <<query, ver, vectored, ans, rung, price, cacheVars, moneyVars, catalogueVars,
                   asked, scope>>

\* WalletBudgetGuard.state: the balance cached in Redis, else the ledger's, which
\* is then cached. With PostgreSQL down the balance is unknown and limits nothing.
ReadWallet(t) ==
    /\ pc[t] = "wallet"
    /\ \/ /\ \E b \in cached : restricted' = [restricted EXCEPT ![t] = b <= 0]
          /\ UNCHANGED <<cached, faults>>
       \/ /\ cached = {}
          /\ restricted' = [restricted EXCEPT ![t] = balance <= 0]
          /\ cached' = {balance}
          /\ UNCHANGED faults
       \/ /\ Works(FALSE)
          /\ restricted' = [restricted EXCEPT ![t] = balance <= 0]
          /\ UNCHANGED cached
       \/ /\ Works(FALSE)
          /\ UNCHANGED <<restricted, cached>>
    /\ Goto(t, "retrieve")
    /\ UNCHANGED <<query, ver, vectored, ans, rung, price, cacheVars, spent, kill, balance,
                   granted, bought, lostSpend, lostLedger, catalogueVars, asked, scope>>

\* charge_for_turn: a turn's credits go by its rung and by the tokens the provider says
\* it used; a paid one that reports none may come to nothing.
Priced(t, r) ==
    /\ rung' = [rung EXCEPT ![t] = r]
    /\ \E credits \in Price[r] : price' = [price EXCEPT ![t] = credits]

\* SearchService.search: without a vector or a reranker the order of the products
\* suffers; which revision of them is found is up to the index.
Found == [seen |-> visible, grounded |-> TRUE]

\* Search is the answer of a browse query and the fallback of the others; when
\* Elasticsearch is down the request is answered 503.
Retrieve(t) ==
    /\ pc[t] = "retrieve"
    /\ \E ok \in BOOLEAN :
          /\ Works(ok)
          /\ IF ok
             THEN /\ ans' = [ans EXCEPT ![t] = Found]
                  /\ Priced(t, "search")
                  /\ Goto(t, IF Tier[query[t]] = "search" THEN "charge" ELSE "generate")
             ELSE Goto(t, "down") /\ UNCHANGED <<ans, rung, price>>
    /\ UNCHANGED <<query, ver, vectored, restricted, cacheVars, moneyVars, catalogueVars, asked,
                   scope>>

PreferLocal(t) == restricted[t] \/ Tier[query[t]] = "synthesis"

Candidates(t) == {e \in Endpoints : PreferLocal(t) => e.local}

BilledAs(t, e) == IF PreferLocal(t) \/ e.name = "local" THEN "local" ELSE "frontier"

\* The first endpoint of the chain that answers is any of them, as those before it
\* may all fail; what it writes may be grounded or not.
GenerateBy(t, e) ==
    /\ pc[t] = "generate"
    /\ e \in Candidates(t)
    /\ \E grounded \in BOOLEAN : ans' = [ans EXCEPT ![t].grounded = grounded]
    /\ Priced(t, BilledAs(t, e))
    /\ bought' = IF e.local THEN bought ELSE bought + price'[t]
    /\ Goto(t, "charge")
    /\ UNCHANGED <<query, ver, vectored, restricted, cacheVars, spent, kill, cached, balance,
                   granted, lostSpend, lostLedger, catalogueVars, boundVars>>

\* Every endpoint failed: the turn degrades to the search answer it has.
Degrade(t) ==
    /\ pc[t] = "generate"
    /\ Goto(t, "charge")
    /\ UNCHANGED <<query, ver, vectored, restricted, ans, rung, price, cacheVars, moneyVars,
                   catalogueVars, boundVars>>

\* BudgetGuard.charge, a failure swallowed.
Charge(t) ==
    /\ pc[t] = "charge"
    /\ \E ok \in BOOLEAN :
          /\ Works(ok)
          /\ price[t] = 0 => ok
          /\ spent' = IF ok THEN spent + price[t] ELSE spent
          /\ lostSpend' = IF ok THEN lostSpend ELSE lostSpend + price[t]
    /\ Goto(t, "meter")
    /\ UNCHANGED <<query, ver, vectored, restricted, ans, rung, price, cacheVars, kill, cached,
                   balance, granted, bought, lostLedger, catalogueVars, asked, scope>>

\* A search answer given in place of a generated one is not cached.
Degraded(t) == rung[t] = "search" /\ Tier[query[t]] # "search"

\* Mutant of Meter: the ledger is charged for the rung the turn was meant for.
MeterAsMeant(t) ==
    /\ pc[t] = "meter"
    /\ LET meant == IF rung[t] = "search" \/ PreferLocal(t) THEN rung[t] ELSE "frontier"
       IN \E credits \in Price[meant] : balance' = balance - credits
    /\ IF Degraded(t) THEN Reply(t, rung[t], ans[t])
                      ELSE Goto(t, "storeL1") /\ UNCHANGED replyVars
    /\ UNCHANGED <<query, ver, cacheVars, spent, kill, cached, granted, bought, lostSpend,
                   lostLedger, catalogueVars, boundVars>>

\* record_charge: a negative row of the ledger, unless there is nothing to charge; a
\* failure is swallowed.
RecordCharge(cost) ==
    \E ok \in BOOLEAN :
       /\ Works(ok)
       /\ cost = 0 => ok
       /\ balance' = IF ok THEN balance - cost ELSE balance
       /\ lostLedger' = IF ok THEN lostLedger ELSE lostLedger + cost

\* What the turn leaves behind: its usage record and its charge.
Meter(t) ==
    /\ pc[t] = "meter"
    /\ RecordCharge(price[t])
    /\ IF Degraded(t) THEN Reply(t, rung[t], ans[t])
                      ELSE Goto(t, "storeL1") /\ UNCHANGED replyVars
    /\ UNCHANGED <<query, ver, cacheVars, spent, kill, cached,
                   granted, bought, lostSpend, catalogueVars, asked, scope>>

\* Mutant of StoreL1: the key is made of the data version current by now.
StoreUnderCurrent(t) ==
    /\ pc[t] = "storeL1"
    /\ l1' = {e \in l1 : <<e.query, e.ver>> # <<query[t], dv>>}
               \cup {[query |-> query[t], ver |-> dv, ans |-> ans[t]]}
    /\ Reply(t, rung[t], ans[t])
    /\ UNCHANGED <<query, ver, l2, outlived, moneyVars, catalogueVars, boundVars>>

\* What the turn leaves in the exact cache, in place of what has its key.
L1Entry(t) == [query |-> query[t], ver |-> ver[t], ans |-> ans[t]]

StoreL1(t) ==
    /\ pc[t] = "storeL1"
    /\ \E ok \in BOOLEAN :
          /\ Works(ok)
          /\ IF ok
             THEN /\ l1' = (l1 \ L1Hits(t)) \cup {L1Entry(t)}
                  /\ outlived' = (outlived \ L1Hits(t))
                                   \cup (IF t \in late THEN {L1Entry(t)} ELSE {})
             ELSE UNCHANGED <<l1, outlived>>
    /\ IF vectored[t] THEN Goto(t, "storeL2") /\ UNCHANGED replyVars
                      ELSE Reply(t, rung[t], ans[t])
    /\ UNCHANGED <<query, ver, l2, moneyVars, catalogueVars, asked, scope>>

\* Mutant of Newest: LPUSH without LTRIM.
NewestUntrimmed(s) == s

Newest(s) == SubSeq(s, 1, Min({L2Max, Len(s)}))

\* LPUSH and LTRIM; entries carry no data version and never expire.
StoreL2(t) ==
    /\ pc[t] = "storeL2"
    /\ \E ok \in BOOLEAN :
          /\ Works(ok)
          /\ l2' = IF ok
                   THEN Newest(<<[query |-> query[t], ans |-> ans[t]]>> \o l2)
                   ELSE l2
    /\ Reply(t, rung[t], ans[t])
    /\ UNCHANGED <<query, ver, l1, outlived, moneyVars, catalogueVars, asked, scope>>

-----------------------------------------------------------------------------
(* Around the turns.                                                       *)

\* A sync worker writes the catalogue; searches see it at the next refresh.
WriteIndex ==
    /\ written < scope.edits + erasures
    /\ written' = written + 1
    /\ owed' = owed + 1
    /\ UNCHANGED <<turnVars, cacheVars, moneyVars, dv, visible, shown, erasing, erasures, late,
                   boundVars>>

RefreshIndex ==
    /\ visible < written
    /\ visible' = written
    /\ UNCHANGED <<turnVars, cacheVars, moneyVars, dv, written, owed, shown, erasing, erasures,
                   late, boundVars>>

\* bump_data_version, a failure swallowed.
BumpVersion ==
    /\ owed > 0
    /\ owed' = owed - 1
    /\ \E ok \in BOOLEAN :
          /\ Works(ok)
          /\ dv' = IF ok THEN dv + 1 ELSE dv
          /\ shown' = IF ok
                      THEN [d \in 0..(dv + 1) |-> IF d = dv + 1 THEN visible ELSE shown[d]]
                      ELSE shown
    /\ UNCHANGED <<turnVars, cacheVars, moneyVars, written, visible, erasing, erasures, late,
                   asked, scope>>

\* erase_tenant_data, the operator's or the owner's: the documents first. Nothing bumps the
\* version for them, and a step that fails is passed over.
EraseCatalogue ==
    /\ erasing = "none"
    /\ erasures < scope.erasures
    /\ erasures' = erasures + 1
    /\ erasing' = "l2"
    /\ \E ok \in BOOLEAN : Works(ok) /\ written' = IF ok THEN written + 1 ELSE written
    /\ UNCHANGED <<turnVars, cacheVars, moneyVars, dv, visible, owed, shown, late,
                   asked, scope>>

\* DEL l2:{tenant}.
EraseL2 ==
    /\ erasing = "l2"
    /\ erasing' = "version"
    /\ \E ok \in BOOLEAN : Works(ok) /\ l2' = IF ok THEN <<>> ELSE l2
    /\ UNCHANGED <<turnVars, l1, outlived, moneyVars, dv, written, visible, owed, shown, erasures,
                   late, asked, scope>>

\* DEL data_version:{tenant}: the version counts from 0 again. The exact entries stay until
\* they expire, and turns in progress still store under what they have read.
EraseVersion ==
    /\ erasing = "version"
    /\ erasing' = "none"
    /\ \E ok \in BOOLEAN :
          /\ Works(ok)
          /\ IF ok
             THEN /\ dv' = 0
                  /\ shown' = [d \in {0} |-> 0]
                  /\ outlived' = l1
                  /\ late' = Turns
             ELSE UNCHANGED <<dv, shown, outlived, late>>
    /\ UNCHANGED <<turnVars, l1, l2, moneyVars, written, visible, owed, erasures,
                   asked, scope>>

ExpireL1 ==
    /\ \E e \in l1 : l1' = l1 \ {e} /\ outlived' = outlived \ {e}
    /\ UNCHANGED <<turnVars, l2, moneyVars, catalogueVars, boundVars>>

\* The cached balance lives for cache_ttl_s; nothing else drops it.
ExpireWallet ==
    /\ cached # {}
    /\ cached' = {}
    /\ UNCHANGED <<turnVars, cacheVars, spent, kill, balance, granted, bought, lostSpend,
                   lostLedger, catalogueVars, boundVars>>

Grant ==
    /\ granted < scope.grants * GrantSize
    /\ granted' = granted + GrantSize
    /\ balance' = balance + GrantSize
    /\ UNCHANGED <<turnVars, cacheVars, spent, kill, cached, bought, lostSpend, lostLedger,
                   catalogueVars, boundVars>>

\* An operator turns a kill switch on or off.
SetKillSwitch(k) ==
    /\ kill' = IF k \in kill THEN kill \ {k} ELSE kill \cup {k}
    /\ UNCHANGED <<turnVars, cacheVars, spent, cached, balance, granted, bought, lostSpend,
                   lostLedger, catalogueVars, boundVars>>

-----------------------------------------------------------------------------
TurnStep(t) ==
    \/ LookupL1(t)
    \/ LookupL2(t)
    \/ ReadBudget(t)
    \/ ReadWallet(t)
    \/ Retrieve(t)
    \/ \E e \in Endpoints : GenerateBy(t, e)
    \/ Degrade(t)
    \/ Charge(t)
    \/ Meter(t)
    \/ StoreL1(t)
    \/ StoreL2(t)

Next ==
    \/ \E t \in Turns, q \in Queries : Ask(t, q)
    \/ \E t \in Turns : TurnStep(t)
    \/ WriteIndex
    \/ RefreshIndex
    \/ BumpVersion
    \/ EraseCatalogue
    \/ EraseL2
    \/ EraseVersion
    \/ ExpireL1
    \/ ExpireWallet
    \/ Grant
    \/ \E k \in Switches : SetKillSwitch(k)

Spec == Init /\ [][Next]_vars

-----------------------------------------------------------------------------
(* Properties.                                                             *)

LadderTypeOK ==
    /\ pc \in [Turns -> Steps \cup Resting]
    /\ query \in [Turns -> Queries]
    /\ ver \in [Turns -> Nat]
    /\ vectored \in [Turns -> BOOLEAN]
    /\ restricted \in [Turns -> BOOLEAN]
    /\ ans \in [Turns -> Answer]
    /\ rung \in [Turns -> Rungs]
    /\ price \in [Turns -> Nat]
    /\ l1 \subseteq [query : Queries, ver : Nat, ans : Answer] /\ outlived \subseteq l1
    /\ l2 \in Seq([query : Queries, ans : Answer]) /\ Len(l2) <= L2Max
    /\ spent \in Nat /\ kill \subseteq Switches
    /\ balance \in Int /\ cached \subseteq Int /\ Cardinality(cached) <= 1
    /\ dv \in Nat /\ owed \in Nat
    /\ visible \in 0..written /\ written \in 0..(scope.edits + erasures)
    /\ shown \in [0..dv -> 0..visible]
    /\ erasing \in {"none", "l2", "version"} /\ late \subseteq Turns
    /\ scope \in Scopes
    /\ asked \in 0..scope.turns /\ faults \in 0..scope.faults /\ erasures \in 0..scope.erasures
    /\ {granted, bought, lostSpend, lostLedger} \subseteq Nat

\* What the exact cache holds under a data version was written from documents at
\* least as recent as those searches saw when that version was announced, however a
\* slow turn and the catalogue's writes, refreshes and bumps interleave. An erasure takes
\* the version back to 0 and leaves the entries: as it counts up again, those of before it,
\* and those of the turns then in progress, pass for entries of the new versions until
\* they expire.
L1IsOfItsVersion ==
    \A e \in l1 \ outlived : e.ver <= dv /\ e.ans.seen >= shown[e.ver]

\* Once the cap is reached no paid endpoint is asked; until then what is bought from them
\* overruns the cap by at most one answer per turn in progress, at its highest price, and
\* by the charges that never reached the budget.
FrontierWithinCap ==
    Cap > 0 =>
        bought <= IF scope.before >= Cap THEN 0
                  ELSE Cap - scope.before - 1 + Cardinality(Turns) * Max(Price["frontier"]) + lostSpend

\* The credits of some turns, one by one.
Credits(turns, prices) == UNION {{t} \X (1..prices[t]) : t \in turns}

\* The budget and the ledger record the same credits, turn by turn, except for the
\* writes that failed and for the turns between the two.
BooksAgree ==
    (spent - scope.before) + lostSpend =
        (granted - balance) + lostLedger
          + Cardinality(Credits({t \in Turns : pc[t] = "meter"}, price))

=============================================================================
