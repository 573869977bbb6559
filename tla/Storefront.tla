----------------------------- MODULE Storefront -------------------------------
(***************************************************************************)
(* One store's public API and what it keeps of its shoppers. A request     *)
(* brings an API key, passes the per-minute limiter, and is served: a      *)
(* search that finds nothing leaves its words, a sync call queues a task,  *)
(* a chat turn leaves words, answers and perhaps a lead behind. An         *)
(* erasure, begun by the operator or the owner, deletes kind by kind what  *)
(* it names, while requests go on.                                         *)
(***************************************************************************)
EXTENDS Naturals, Sequences

CONSTANTS
    Sessions,   \* each has one request in progress at most
    Limit,      \* RateLimiter's default_per_min
    MaxMinute,  \* bound: minutes
    Budgets     \* the bounds: how many requests, keys and erasures are begun; how many
                \* writes (synonyms saved, sync tasks run, searches tried on the dashboard)
                \* come meanwhile; how many operations on a store fail

ASSUME StorefrontAssumption ==
    /\ Limit \in Nat \ {0}
    /\ MaxMinute \in Nat /\ Budgets \subseteq [starts : Nat, writes : Nat, faults : Nat]

VARIABLES
    budget,   \* the budget of this behaviour
    keys,     \* scopes some key that is not revoked has
    minute,   \* time.time() // 60
    count,    \* ratelimit:{tenant}:{minute}, 0 when there is no key
    timed,    \* minutes whose counter has a time to live
    stored,   \* what is stored of the shop and its shoppers
    fresh,    \* the document was written after the index's last refresh
    req,      \* requests
    erase,    \* the erasure
    starts,   \* begun so far
    writes,   \* written meanwhile so far
    faults,   \* operations that failed
    admitted, \* history: admitted by this minute's count
    refused   \* history: refused by it

gateVars == <<keys, minute, count, timed, admitted, refused>>
dataVars == <<budget, stored, fresh, writes>>
storeVars == <<gateVars, dataVars, req, erase, starts, faults>>

\* A third one, "admin", which create_tenant lets through, opens no endpoint.
Scopes == {"widget", "sync"}
\* Two no step of an erasure names: the shop's orders, with the customer's name and
\* address, and the words of searches that found nothing.
Unnamed == {"order", "searched"}
Kinds == {"memory", "cached", "synonyms", "lead", "document"} \cup Unnamed
Minutes == 0..MaxMinute

\* old: it was there when the last erasure began, and the step of its kind has not failed.
Item == [kind: Kinds, old: BOOLEAN]
NewItem(kind) == [kind |-> kind, old |-> FALSE]
Calls == {"search", "sync", "chat", "stream"}
Steps == {"idle", "count", "expire", "serve", "words", "ladder", "cache", "reply", "lead"}
Request == [call: Calls, at: Steps, minute: Minutes]
Idle == [call |-> "search", at |-> "idle", minute |-> 0]

\* Mutant of EraseSteps: leaves the control plane out.
EraseStepsNoLeads == <<"document", "memory", "cached", "synonyms">>

\* The index, then Redis, then the control plane; the data version, which goes before
\* the leads, is TurnLadder's.
EraseSteps == <<"document", "memory", "cached", "synonyms", "lead">>

Scope(call) == IF call = "sync" THEN "sync" ELSE "widget"

\* A request past the limiter has no use for its minute.
Goto(s, step) == req' = [req EXCEPT ![s].at = step, ![s].minute = 0]
Finish(s) == req' = [req EXCEPT ![s] = Idle]

\* An operation on a store may fail; most callers swallow the exception.
Fault == faults < budget.faults /\ faults' = faults + 1
Fine == UNCHANGED faults

-----------------------------------------------------------------------------
(* Keys.                                                                   *)

KeyIssued(scope) ==
    /\ starts < budget.starts /\ starts' = starts + 1
    /\ keys' = keys \cup {scope}
    /\ UNCHANGED <<minute, count, timed, admitted, refused, dataVars, req, erase, faults>>

\* The operator's: with a slug, new or known, and for a store.
CreateTenant == \E scope \in Scopes : KeyIssued(scope)
CreateTenantKey == \E scope \in Scopes : KeyIssued(scope)
\* The owner's own.
CreateKey == \E scope \in Scopes : KeyIssued(scope)

\* The last key of a scope is revoked, by the operator or the owner.
KeyRevoked ==
    /\ \E scope \in keys : keys' = keys \ {scope}
    /\ UNCHANGED <<minute, count, timed, admitted, refused, dataVars, req, erase, starts, faults>>
RevokeTenantKey == KeyRevoked
RevokeKey == KeyRevoked

-----------------------------------------------------------------------------
(* The gate.                                                               *)

\* resolve_principal and principal_allowed; then the limiter names its counter by the
\* minute it reads. Refused keys change nothing.
Arrive(s, call) ==
    /\ req[s].at = "idle" /\ starts < budget.starts
    /\ Scope(call) \in keys
    /\ starts' = starts + 1
    /\ req' = [req EXCEPT ![s] = [Idle EXCEPT !.call = call, !.at = "count",
                                              !.minute = minute]]
    /\ UNCHANGED <<gateVars, dataVars, erase, faults>>

\* Where a request that passed the gate goes on.
Admit(s) ==
    Goto(s, IF req[s].call \in {"chat", "stream"} THEN "words" ELSE "serve")

\* Admissions and refusals of the minute that is running.
Tally(s, verdict) ==
    LET now == IF req[s].minute = minute THEN 1 ELSE 0 IN
    /\ admitted' = admitted + IF verdict = "admit" THEN now ELSE 0
    /\ refused' = refused + IF verdict = "refuse" THEN now ELSE 0

\* Mutant of Within: compares the count before this request.
WithinBefore(n) == n - 1 <= Limit
Within(n) == n <= Limit

\* INCR; the first request of a minute goes on to set the time to live.
Incr(s) ==
    LET n == count[req[s].minute] + 1 IN
    /\ req[s].at = "count"
    /\ count' = [count EXCEPT ![req[s].minute] = n]
    /\ \/ n = 1 /\ req' = [req EXCEPT ![s].at = "expire"] /\ Tally(s, "later")
       \/ n > 1 /\ Within(n) /\ Admit(s) /\ Tally(s, "admit")
       \/ n > 1 /\ ~Within(n) /\ Finish(s) /\ Tally(s, "refuse")
    /\ UNCHANGED <<keys, minute, timed, dataVars, erase, starts, faults>>

\* EXPIRE, answered or failed: count was 1, and an exception admits as well.
Expire(s) ==
    /\ req[s].at = "expire"
    /\ \/ Fine /\ timed' = timed \cup {req[s].minute}
       \/ Fault /\ UNCHANGED timed
    /\ Admit(s) /\ Tally(s, "admit")
    /\ UNCHANGED <<keys, minute, count, dataVars, erase, starts>>

\* "Fails open (allows) if Redis is unavailable", before it has counted or after.
FailOpen(s) ==
    /\ req[s].at = "count"
    /\ Fault
    /\ \/ UNCHANGED count
       \/ count' = [count EXCEPT ![req[s].minute] = @ + 1]
    /\ Admit(s)
    /\ UNCHANGED <<keys, minute, timed, admitted, refused, dataVars, erase, starts>>

Tick ==
    /\ minute < MaxMinute
    /\ minute' = minute + 1
    /\ admitted' = 0 /\ refused' = 0
    /\ UNCHANGED <<keys, count, timed, dataVars, req, erase, starts, faults>>

\* Sixty seconds after its first request: in the next minute, or later.
CounterExpires(m) ==
    /\ m \in timed /\ m < minute
    /\ timed' = timed \ {m}
    /\ count' = [count EXCEPT ![m] = 0]
    /\ UNCHANGED <<keys, minute, admitted, refused, dataVars, req, erase, starts, faults>>

\* The process dies, or the client goes away, between two awaits.
RequestDies(s) ==
    /\ req[s].at # "idle"
    /\ Fault
    /\ Finish(s)
    /\ UNCHANGED <<gateVars, dataVars, erase, starts>>

-----------------------------------------------------------------------------
(* What is served.                                                         *)

\* search and suggest read the index; the sync endpoints queue a task, and a worker
\* will write the document (CatalogSync) or the order.
Served(s) ==
    /\ req[s].at = "serve"
    /\ Finish(s)
    /\ UNCHANGED <<gateVars, dataVars, erase, starts, faults>>
Sync(s) == req[s].call = "sync" /\ Served(s)

\* A write to a store; whoever makes it swallows its failure.
Keep(s, at, kind) ==
    /\ req[s].at = at
    /\ \/ Fine /\ stored' = stored \cup {NewItem(kind)}
       \/ Fault /\ UNCHANGED stored
    /\ UNCHANGED <<budget, gateVars, fresh, writes, erase, starts>>

\* log_zero_result keeps the words of a search that finds nothing.
Search(s) ==
    /\ req[s].call = "search"
    /\ Served(s) \/ (Keep(s, "serve", "searched") /\ Finish(s))

\* SessionMemory.append, of the shopper's words and then of the reply.
RememberWords(s) == Keep(s, "words", "memory") /\ Goto(s, "ladder")
RememberReply(s) ==
    /\ Keep(s, "reply", "memory")
    /\ IF req[s].call = "chat" THEN Goto(s, "lead") ELSE Finish(s)

\* The input guardrail refuses an empty or oversized message before anything is kept;
\* chat looks for a lead in it all the same.
Refuse(s) ==
    /\ req[s].at = "words"
    /\ IF req[s].call = "chat" THEN Goto(s, "lead") ELSE Finish(s)
    /\ UNCHANGED <<gateVars, dataVars, erase, starts, faults>>

\* A cached answer is not stored again, nor are the search results of a turn whose
\* generation is down; other answers are (TurnLadder has the ladder's steps). What the
\* cache does not hold is searched for.
Answer(s) ==
    /\ req[s].at = "ladder"
    /\ Goto(s, "reply") \/ Goto(s, "cache")
    /\ stored' = stored \/ stored' = stored \cup {NewItem("searched")}
    /\ UNCHANGED <<budget, gateVars, fresh, writes, erase, starts, faults>>

CacheAnswer(s) == Keep(s, "cache", "cached") /\ Goto(s, "reply")

\* The index is unreachable: 503.
NoAnswer(s) ==
    /\ req[s].at = "ladder"
    /\ Fault /\ Finish(s)
    /\ UNCHANGED <<gateVars, dataVars, erase, starts>>

\* capture_lead, if the words hold an address or a number; /chat/stream does not look.
CaptureLead(s) == Keep(s, "lead", "lead") /\ Finish(s)
NoLead(s) ==
    /\ req[s].at = "lead"
    /\ Finish(s)
    /\ UNCHANGED <<gateVars, dataVars, erase, starts, faults>>

\* An hour without a turn, or twelve newer entries.
SessionsEnd ==
    /\ \E i \in stored : i.kind = "memory"
    /\ stored' = {i \in stored : i.kind # "memory"}
    /\ UNCHANGED <<budget, gateVars, fresh, writes, req, erase, starts, faults>>

-----------------------------------------------------------------------------
(* What is written meanwhile.                                              *)

Written == writes < budget.writes /\ writes' = writes + 1
Replaces(kind, items) ==
    /\ Written
    /\ stored' = {i \in stored : i.kind # kind} \cup items

\* The owner's list of synonyms, or the operator's for a store; search does not read it.
SynonymsSaved ==
    /\ Replaces("synonyms", {NewItem("synonyms")})
    /\ UNCHANGED <<budget, gateVars, fresh, req, erase, starts, faults>>
SetSynonyms == SynonymsSaved
SetStoreSynonyms == SynonymsSaved

\* A sync task replaces the document.
WriteDocument ==
    /\ Replaces("document", {NewItem("document")})
    /\ fresh' = TRUE
    /\ UNCHANGED <<budget, gateVars, req, erase, starts, faults>>

\* process_order_webhook_event, bulk_import_orders: upsert_order or tombstone_order.
OrderTask ==
    /\ \E orders \in {{}, {NewItem("order")}} : Replaces("order", orders)
    /\ UNCHANGED <<budget, gateVars, fresh, req, erase, starts, faults>>

\* A search the owner or the operator tries out on the dashboard.
TrySearch ==
    /\ Written
    /\ stored' = stored \cup {NewItem("searched")}
    /\ UNCHANGED <<budget, gateVars, fresh, req, erase, starts, faults>>

Refresh ==
    /\ fresh
    /\ fresh' = FALSE
    /\ UNCHANGED <<budget, gateVars, stored, writes, req, erase, starts, faults>>

-----------------------------------------------------------------------------
(* Erasure: one kind after the other; a step that raises is "skipped".     *)

\* delete_by_query will work on the documents the last refresh made visible.
EraseStarts ==
    /\ erase = 0 /\ erase' = 1
    /\ starts < budget.starts /\ starts' = starts + 1
    /\ stored' = {[i EXCEPT !.old = ~(i.kind = "document" /\ fresh)] : i \in stored}
    /\ UNCHANGED <<budget, gateVars, fresh, writes, req, faults>>

Erased == {i \in stored : i.kind = EraseSteps[erase] /\ (i.kind = "document" => ~fresh)}

\* Mutant of StepAfter: goes one step beyond the last.
StepAfterTheLast(step) == IF step > Len(EraseSteps) THEN 0 ELSE step + 1
StepAfter(step) == IF step = Len(EraseSteps) THEN 0 ELSE step + 1

\* A scan that breaks off has deleted some of what it met.
EraseStep ==
    /\ erase # 0
    /\ erase' = StepAfter(erase)
    /\ \/ Fine /\ stored' = stored \ Erased
       \/ /\ Fault
          /\ \E part \in SUBSET Erased :
                stored' = {[i EXCEPT !.old = @ /\ i.kind # EraseSteps[erase]] :
                             i \in stored \ part}
    /\ UNCHANGED <<budget, gateVars, fresh, writes, req, starts>>

-----------------------------------------------------------------------------
StoreInit ==
    /\ budget \in Budgets
    /\ \E scope \in Scopes : keys = {scope}
    /\ minute = 0 /\ count = [m \in Minutes |-> 0] /\ timed = {}
    /\ stored = {} /\ fresh = FALSE /\ writes = 0
    /\ req = [s \in Sessions |-> Idle]
    /\ erase = 0 /\ starts = 0 /\ faults = 0
    /\ admitted = 0 /\ refused = 0

RequestStep(s) ==
    \/ \E call \in Calls : Arrive(s, call)
    \/ Incr(s) \/ Expire(s) \/ FailOpen(s) \/ RequestDies(s)
    \/ Search(s) \/ Sync(s)
    \/ RememberWords(s) \/ Refuse(s) \/ Answer(s) \/ NoAnswer(s) \/ CacheAnswer(s)
    \/ RememberReply(s) \/ CaptureLead(s) \/ NoLead(s)

StoreNext ==
    \/ CreateTenant \/ CreateTenantKey \/ CreateKey \/ RevokeTenantKey \/ RevokeKey
    \/ \E s \in Sessions : RequestStep(s)
    \/ \E m \in timed : CounterExpires(m)
    \/ Tick \/ SessionsEnd \/ SetSynonyms \/ SetStoreSynonyms
    \/ WriteDocument \/ Refresh \/ OrderTask \/ TrySearch
    \/ EraseStarts \/ EraseStep

StoreSpec == StoreInit /\ [][StoreNext]_storeVars

-----------------------------------------------------------------------------
(* Properties.                                                             *)

StoreTypeOK ==
    /\ budget \in Budgets
    /\ keys \subseteq Scopes
    /\ minute \in Minutes /\ count \in [Minutes -> Nat] /\ timed \subseteq Minutes
    /\ stored \subseteq Item /\ fresh \in BOOLEAN /\ req \in [Sessions -> Request]
    /\ erase \in 0..Len(EraseSteps)
    /\ starts \in Nat /\ faults \in Nat /\ writes \in Nat
    /\ admitted \in Nat /\ refused \in Nat

\* "Erase a tenant's data across index, memory, and logs": once an erasure has ended,
\* nothing of a kind it names that was there when it began is left, whatever turns and
\* tasks wrote meanwhile and whichever steps were skipped; but for the kinds of the
\* skipped steps and a document the index had not refreshed. The orders and the query
\* log, which the sentence covers and no step names, are left; so is the exact answer
\* cache, which is not among what is stored here (TurnLadder has its erasure).
Forgotten == erase = 0 => \A i \in stored : i.old => i.kind \in Unnamed

\* "A fixed-window counter in Redis, keyed per tenant per minute": the limiter, with its
\* counters that expire late, never, or under a request that was slow to count, is a
\* fixed window for the requests counted in their own minute while Redis answers.
Limiter == INSTANCE FixedWindow WITH counted <- count[minute]
LimitHolds == Limiter!WindowSpec

=============================================================================
