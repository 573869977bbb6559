-------------------------- MODULE StorefrontProofs ---------------------------
(***************************************************************************)
(* What module Storefront keeps for every set of sessions, every limit and *)
(* every value of the bounds: the limiter is a fixed window, and a         *)
(* completed erasure leaves nothing of the kinds it names, but for what    *)
(* its failed steps left.                                                  *)
(***************************************************************************)
EXTENDS Storefront, TLAPS

\* The first request of the running minute, still to set the time to live.
Pending(s) == req[s].at = "expire" /\ req[s].minute = minute

\* The counter of the running minute against what was admitted by it. The request that
\* is still to set the time to live is counted and not admitted yet, and there is one.
GateInv ==
    /\ \A m \in Minutes : m > minute => count[m] = 0
    /\ \A s \in Sessions : req[s].at \in {"count", "expire"} => req[s].minute <= minute
    /\ admitted <= count[minute] /\ admitted <= Limit
    /\ \A s \in Sessions : Pending(s) => admitted < count[minute] /\ admitted < Limit
    /\ \A s, t \in Sessions : Pending(s) /\ Pending(t) => s = t

\* What an erasure that is under way still has to delete is of a kind to come, and a
\* document among it is visible to the delete. The rest of what is old no step names.
EraseInv ==
    \A i \in stored : i.old /\ i.kind \notin Unnamed =>
        /\ erase # 0
        /\ \E j \in erase..Len(EraseSteps) : i.kind = EraseSteps[j]
        /\ i.kind = "document" => ~fresh

StoreInv == StoreTypeOK /\ GateInv /\ EraseInv

-----------------------------------------------------------------------------
(* Requests move from step to step.                                        *)

LEMMA IdleIsRequest ==
    /\ Idle \in Request /\ Idle.at = "idle" /\ Idle.minute = 0 /\ 0 \in Minutes
  BY StorefrontAssumption DEF Idle, Request, Calls, Steps, Minutes

\* A request past the limiter, beside which no other moves.
LeavesGate(s) ==
    /\ req' \in [Sessions -> Request]
    /\ req'[s].at \notin {"count", "expire"}
    /\ \A t \in Sessions \ {s} : req'[t] = req[t]

LEMMA Moves ==
    ASSUME StoreTypeOK, NEW s \in Sessions, NEW step \in Steps \ {"count", "expire"},
           Goto(s, step)
    PROVE  LeavesGate(s)
  <1> DEFINE q == [req[s] EXCEPT !.at = step, !.minute = 0]
  <1>1. req \in [Sessions -> Request] /\ req[s] \in Request
    BY DEF StoreTypeOK
  <1>2. q \in Request /\ q.at = step
    BY <1>1, IdleIsRequest DEF Request
  <1>3. req' = [req EXCEPT ![s] = q]
    BY <1>1 DEF Goto, Request
  <1> HIDE DEF q
  <1> QED
    BY <1>1, <1>2, <1>3 DEF LeavesGate

LEMMA Finishes ==
    ASSUME StoreTypeOK, NEW s \in Sessions, Finish(s)
    PROVE  LeavesGate(s)
  BY IdleIsRequest DEF StoreTypeOK, Finish, LeavesGate

LEMMA Admits ==
    ASSUME StoreTypeOK, NEW s \in Sessions, Admit(s)
    PROVE  LeavesGate(s)
  BY Moves DEF Admit, Steps

-----------------------------------------------------------------------------
(* The gate.                                                               *)

\* The numbers of the gate.
LEMMA GateIsTyped ==
    ASSUME StoreInv
    PROVE  /\ minute \in Minutes /\ minute \in Nat /\ count \in [Minutes -> Nat]
           /\ count[minute] \in Nat /\ admitted \in Nat /\ refused \in Nat
           /\ req \in [Sessions -> Request]
           /\ \A s \in Sessions : /\ req[s] \in Request /\ req[s].minute \in Minutes
                                  /\ req[s].minute \in Nat
           /\ Limit \in Nat /\ Limit >= 1
  BY StorefrontAssumption DEF StoreInv, StoreTypeOK, Request, Minutes

\* Requests that have passed, and those still before it.
LEMMA GateKept ==
    ASSUME StoreInv, UNCHANGED <<minute, count, admitted>>,
           \A t \in Sessions : \/ req'[t] = req[t]
                               \/ req'[t].at \notin {"count", "expire"}
                               \/ req'[t].at = "count" /\ req'[t].minute = minute
    PROVE  GateInv'
  <1>1. \A t \in Sessions : Pending(t)' => Pending(t)
    BY DEF Pending
  <1>2. \A t \in Sessions : req'[t].at \in {"count", "expire"} => req'[t].minute <= minute
    BY GateIsTyped DEF StoreInv, GateInv
  <1> QED
    BY <1>1, <1>2 DEF StoreInv, GateInv

\* A minute's counter goes up, by a request that is not admitted yet.
LEMMA Counted ==
    ASSUME StoreInv, NEW s \in Sessions, LeavesGate(s), req[s].at = "count",
           count' = [count EXCEPT ![req[s].minute] = @ + 1],
           UNCHANGED <<minute, admitted>>
    PROVE  GateInv'
  <1>1. /\ req[s].minute \in Minutes /\ req[s].minute <= minute
        /\ \A m \in Minutes : count'[m] = IF m = req[s].minute THEN count[m] + 1 ELSE count[m]
    BY GateIsTyped DEF StoreInv, GateInv
  <1>2. count'[minute] >= count[minute] /\ count'[minute] \in Nat
    BY <1>1, GateIsTyped
  <1>3. \A m \in Minutes : m > minute => count'[m] = 0
    BY <1>1, GateIsTyped DEF StoreInv, GateInv, Minutes
  <1>4. \A t \in Sessions : Pending(t)' => Pending(t) /\ t # s
    BY DEF Pending, LeavesGate
  <1>5. \A t \in Sessions : req'[t].at \in {"count", "expire"} => req'[t].minute <= minute
    BY DEF StoreInv, GateInv, LeavesGate
  <1>6. admitted <= count'[minute] /\ (admitted < count[minute] => admitted < count'[minute])
    BY <1>2, GateIsTyped DEF StoreInv, GateInv
  <1> QED
    BY <1>3, <1>4, <1>5, <1>6 DEF StoreInv, GateInv

\* What the limiter promises of a step.
WindowStep == [Limiter!WindowNext]_(Limiter!windowVars)

LEMMA NoWindowStep ==
    ASSUME UNCHANGED <<minute, count[minute], admitted, refused>>
    PROVE  WindowStep
  BY DEF WindowStep, Limiter!windowVars

\* The request is counted: in an earlier minute, which the window does not see, or in
\* the running one, where it is judged or goes on to set the time to live.
LEMMA IncrKeeps ==
    ASSUME StoreInv, NEW s \in Sessions, Incr(s)
    PROVE  /\ GateInv' /\ WindowStep
           /\ req' \in [Sessions -> Request] /\ count' \in [Minutes -> Nat]
           /\ admitted' \in Nat /\ refused' \in Nat
  <1> DEFINE m == req[s].minute
             n == count[m] + 1
             now == IF m = minute THEN 1 ELSE 0
  <1>1. /\ req[s].at = "count" /\ count' = [count EXCEPT ![m] = n]
        /\ UNCHANGED <<keys, minute, timed, budget, stored, fresh, writes, erase, starts, faults>>
    BY DEF Incr, dataVars
  <1>2. m \in Minutes /\ m \in Nat /\ count[m] \in Nat /\ n \in Nat /\ m <= minute
    BY <1>1, GateIsTyped DEF StoreInv, GateInv
  <1>3. /\ count' \in [Minutes -> Nat] /\ count'[m] = n
        /\ \A k \in Minutes : k # m => count'[k] = count[k]
    BY <1>1, <1>2, GateIsTyped
  <1>a. now \in {0, 1} /\ (m = minute <=> now = 1)
    OBVIOUS
  <1>4. \A v : Tally(s, v) => /\ admitted' = admitted + (IF v = "admit" THEN now ELSE 0)
                              /\ refused' = refused + (IF v = "refuse" THEN now ELSE 0)
    BY DEF Tally
  <1>5. count' = [count EXCEPT ![req[s].minute] = @ + 1]
    BY <1>1
  <1>6. CASE n = 1 /\ req' = [req EXCEPT ![s].at = "expire"] /\ Tally(s, "later")
    <2>1. admitted' = admitted /\ refused' = refused
      BY <1>4, <1>6, GateIsTyped
    <2>2. /\ req' \in [Sessions -> Request] /\ req'[s].at = "expire" /\ req'[s].minute = m
          /\ \A t \in Sessions \ {s} : req'[t] = req[t]
      <3>1. req[s] \in Request /\ req' = [req EXCEPT ![s] = [req[s] EXCEPT !.at = "expire"]]
        BY <1>6, GateIsTyped
      <3>2. [req[s] EXCEPT !.at = "expire"] \in Request
        BY <3>1 DEF Request, Steps
      <3> QED
        BY <3>1, <3>2, GateIsTyped DEF Request
    <2>3. CASE m = minute
      <3>1. count[minute] = 0 /\ count'[minute] = 1 /\ admitted = 0
        BY <1>2, <1>3, <1>6, <2>3, GateIsTyped DEF StoreInv, GateInv
      <3>2. \A t \in Sessions : ~Pending(t)
        BY <3>1 DEF StoreInv, GateInv
      <3>3. \A t \in Sessions : Pending(t)' => t = s
        BY <1>1, <2>2, <3>2 DEF Pending
      <3>4. \A k \in Minutes : k > minute => count'[k] = 0
        BY <1>3, <2>3, GateIsTyped DEF StoreInv, GateInv
      <3>5. \A t \in Sessions : req'[t].at \in {"count", "expire"} => req'[t].minute <= minute
        BY <1>2, <2>2 DEF StoreInv, GateInv
      <3>6. GateInv'
        BY <1>1, <2>1, <3>1, <3>3, <3>4, <3>5, GateIsTyped DEF GateInv
      <3>7. Limiter!Count
        BY <1>1, <2>1, <3>1 DEF Limiter!Count
      <3> QED
        BY <1>3, <2>1, <2>2, <3>6, <3>7, GateIsTyped DEF WindowStep, Limiter!WindowNext
    <2>4. CASE m # minute
      <3>1. count'[minute] = count[minute]
        BY <1>3, <2>4, GateIsTyped
      <3>2. \A t \in Sessions : Pending(t)' => Pending(t)
        BY <1>1, <2>2, <2>4 DEF Pending
      <3>3. \A k \in Minutes : k > minute => count'[k] = 0
        BY <1>2, <1>3, GateIsTyped DEF StoreInv, GateInv
      <3>4. \A t \in Sessions : req'[t].at \in {"count", "expire"} => req'[t].minute <= minute
        BY <1>2, <2>2 DEF StoreInv, GateInv
      <3>5. GateInv'
        BY <1>1, <2>1, <3>1, <3>2, <3>3, <3>4 DEF StoreInv, GateInv
      <3>6. WindowStep
        BY <1>1, <2>1, <3>1, NoWindowStep
      <3> QED
        BY <1>3, <2>1, <2>2, <3>5, <3>6, GateIsTyped
    <2> QED
      BY <2>3, <2>4
  <1>7. CASE n > 1 /\ Within(n) /\ Admit(s) /\ Tally(s, "admit")
    <2>1. LeavesGate(s) /\ n <= Limit
      BY <1>7, Admits DEF StoreInv, Within
    <2>2. admitted' = admitted + now /\ refused' = refused
      BY <1>4, <1>7, GateIsTyped
    <2>3. CASE m = minute
      <3>1. now = 1 /\ count'[minute] = count[minute] + 1 /\ admitted' = admitted + 1
        BY <1>3, <2>2, <2>3
      <3>2. admitted <= count[minute] /\ count[minute] + 1 <= Limit
        BY <2>1, <2>3 DEF StoreInv, GateInv
      <3>3. admitted' <= count'[minute] /\ admitted' <= Limit /\ admitted < Limit
        BY <3>1, <3>2, GateIsTyped
      <3>4. \A t \in Sessions : Pending(t)' => Pending(t) /\ t # s
        BY <1>1, <2>1 DEF Pending, LeavesGate
      <3>5. \A t \in Sessions : Pending(t) => admitted' < count'[minute] /\ admitted' < Limit
        BY <3>1, <3>2, GateIsTyped DEF StoreInv, GateInv
      <3>6. \A k \in Minutes : k > minute => count'[k] = 0
        BY <1>3, <2>3, GateIsTyped DEF StoreInv, GateInv
      <3>7. \A t \in Sessions : req'[t].at \in {"count", "expire"} => req'[t].minute <= minute
        BY <2>1 DEF StoreInv, GateInv, LeavesGate
      <3>8. GateInv'
        BY <1>1, <3>3, <3>4, <3>5, <3>6, <3>7 DEF StoreInv, GateInv
      <3>9. Limiter!CountAndAdmit
        BY <1>1, <2>2, <3>1, <3>3 DEF Limiter!CountAndAdmit
      <3> QED
        BY <1>3, <2>1, <2>2, <3>1, <3>8, <3>9, GateIsTyped
           DEF WindowStep, Limiter!WindowNext, LeavesGate
    <2>4. CASE m # minute
      <3>1. admitted' = admitted /\ count'[minute] = count[minute]
        BY <1>3, <2>2, <2>4, GateIsTyped
      <3>2. GateInv'
        BY <1>1, <1>5, <2>1, <3>1, Counted
      <3>3. WindowStep
        BY <1>1, <2>2, <3>1, NoWindowStep
      <3> QED
        BY <1>3, <2>1, <2>2, <3>1, <3>2, <3>3, GateIsTyped DEF LeavesGate
    <2> QED
      BY <2>3, <2>4
  <1>8. CASE n > 1 /\ ~Within(n) /\ Finish(s) /\ Tally(s, "refuse")
    <2>1. LeavesGate(s) /\ ~(n <= Limit)
      BY <1>8, Finishes DEF StoreInv, Within
    <2>2. admitted' = admitted /\ refused' = refused + now
      BY <1>4, <1>8, GateIsTyped
    <2>3. GateInv'
      BY <1>1, <1>5, <2>1, <2>2, Counted
    <2>4. WindowStep
      <3>1. CASE m = minute
        <4>1. refused' = refused + 1 /\ count'[minute] = count[minute] + 1
          BY <1>3, <2>2, <3>1
        <4>2. count[minute] >= Limit
          BY <2>1, <3>1, GateIsTyped
        <4>3. Limiter!CountAndRefuse
          BY <1>1, <2>2, <4>1, <4>2 DEF Limiter!CountAndRefuse
        <4> QED
          BY <4>3 DEF WindowStep, Limiter!WindowNext
      <3>2. CASE m # minute
        <4>1. refused' = refused /\ count'[minute] = count[minute]
          BY <1>3, <2>2, <3>2, GateIsTyped
        <4> QED
          BY <1>1, <2>2, <4>1, NoWindowStep
      <3> QED
        BY <3>1, <3>2
    <2> QED
      BY <1>3, <2>1, <2>2, <2>3, <2>4, GateIsTyped DEF LeavesGate
  <1>9. \/ n = 1 /\ req' = [req EXCEPT ![s].at = "expire"] /\ Tally(s, "later")
        \/ n > 1 /\ Within(n) /\ Admit(s) /\ Tally(s, "admit")
        \/ n > 1 /\ ~Within(n) /\ Finish(s) /\ Tally(s, "refuse")
    BY DEF Incr
  <1> QED
    BY <1>6, <1>7, <1>8, <1>9

\* The time to live is set, or not: the first request of a minute is admitted.
LEMMA ExpireKeeps ==
    ASSUME StoreInv, NEW s \in Sessions, Expire(s)
    PROVE  /\ GateInv' /\ WindowStep /\ LeavesGate(s)
           /\ admitted' \in Nat /\ refused' \in Nat
  <1> DEFINE now == IF req[s].minute = minute THEN 1 ELSE 0
  <1>1. /\ req[s].at = "expire" /\ LeavesGate(s)
        /\ UNCHANGED <<minute, count>>
        /\ admitted' = admitted + now /\ refused' = refused + 0
    BY Admits DEF Expire, StoreInv, Tally
  <1>2. refused' = refused
    BY <1>1, GateIsTyped
  <1>3. \A t \in Sessions : Pending(t)' => Pending(t) /\ t # s
    BY <1>1 DEF Pending, LeavesGate
  <1>4. \A t \in Sessions : req'[t].at \in {"count", "expire"} => req'[t].minute <= minute
    BY <1>1 DEF StoreInv, GateInv, LeavesGate
  <1>5. CASE Pending(s)
    <2>1. /\ admitted' = admitted + 1 /\ admitted < Limit /\ admitted < count[minute]
          /\ \A t \in Sessions : ~Pending(t)'
      BY <1>1, <1>3, <1>5 DEF StoreInv, GateInv, Pending
    <2>2. admitted' <= count[minute] /\ admitted' <= Limit
      BY <2>1, GateIsTyped
    <2>3. GateInv'
      BY <1>1, <1>4, <2>1, <2>2 DEF StoreInv, GateInv
    <2>4. Limiter!Admit
      BY <1>1, <1>2, <2>1 DEF Limiter!Admit
    <2> QED
      BY <1>1, <1>2, <2>1, <2>3, <2>4, GateIsTyped DEF WindowStep, Limiter!WindowNext
  <1>6. CASE ~Pending(s)
    <2>1. admitted' = admitted
      BY <1>1, <1>6, GateIsTyped DEF Pending
    <2>2. GateInv'
      BY <1>1, <1>3, <1>4, <2>1 DEF StoreInv, GateInv
    <2> QED
      BY <1>1, <1>2, <2>1, <2>2, NoWindowStep, GateIsTyped
  <1> QED
    BY <1>5, <1>6

\* Redis fails the request, before it has counted or after.
LEMMA FailOpenKeeps ==
    ASSUME StoreInv, NEW s \in Sessions, FailOpen(s)
    PROVE  GateInv' /\ WindowStep /\ LeavesGate(s) /\ count' \in [Minutes -> Nat]
  <1>1. /\ req[s].at = "count" /\ LeavesGate(s)
        /\ UNCHANGED <<minute, admitted, refused>>
    BY Admits DEF FailOpen, StoreInv
  <1>2. CASE UNCHANGED count
    <2>1. GateInv'
      BY <1>1, <1>2, GateKept DEF LeavesGate
    <2> QED
      BY <1>1, <1>2, <2>1, NoWindowStep, GateIsTyped
  <1>3. CASE count' = [count EXCEPT ![req[s].minute] = @ + 1]
    <2>1. GateInv'
      BY <1>1, <1>3, Counted
    <2>2. count' \in [Minutes -> Nat]
      BY <1>3, GateIsTyped
    <2>3. CASE req[s].minute = minute
      <3>1. Limiter!Count
        BY <1>1, <1>3, <2>3, GateIsTyped DEF Limiter!Count
      <3> QED
        BY <1>1, <2>1, <2>2, <3>1 DEF WindowStep, Limiter!WindowNext
    <2>4. CASE req[s].minute # minute
      <3>1. count'[minute] = count[minute]
        BY <1>3, <2>4, GateIsTyped
      <3> QED
        BY <1>1, <2>1, <2>2, <3>1, NoWindowStep
    <2> QED
      BY <2>3, <2>4
  <1> QED
    BY <1>1, <1>2, <1>3 DEF FailOpen

\* Time passes: nobody has counted in the next minute, and old counters go.
LEMMA TimeKeeps ==
    ASSUME StoreInv, Tick \/ \E m \in timed : CounterExpires(m)
    PROVE  GateInv' /\ WindowStep /\ StoreTypeOK'
  <1>1. CASE Tick
    <2>1. /\ minute < MaxMinute /\ minute' = minute + 1 /\ admitted' = 0 /\ refused' = 0
          /\ UNCHANGED <<keys, count, timed, budget, stored, fresh, writes, req, erase, starts,
                         faults>>
      BY <1>1 DEF Tick, dataVars
    <2>2. minute' \in Minutes /\ minute' > minute /\ minute' \in Nat
      BY <2>1, GateIsTyped, StorefrontAssumption DEF Minutes
    <2>3. count'[minute'] = 0
      BY <2>1, <2>2 DEF StoreInv, GateInv
    <2>4. \A t \in Sessions : ~Pending(t)'
      BY <2>1, <2>2, GateIsTyped DEF StoreInv, GateInv, Pending
    <2>5. \A k \in Minutes : k > minute' => count'[k] = 0
      BY <2>1, <2>2, GateIsTyped DEF StoreInv, GateInv, Minutes
    <2>6. \A t \in Sessions : req'[t].at \in {"count", "expire"} => req'[t].minute <= minute'
      BY <2>1, <2>2, GateIsTyped DEF StoreInv, GateInv
    <2>7. GateInv'
      BY <2>1, <2>3, <2>4, <2>5, <2>6, GateIsTyped DEF GateInv
    <2>8. Limiter!NextMinute
      BY <2>1, <2>3 DEF Limiter!NextMinute
    <2>9. StoreTypeOK'
      BY <2>1, <2>2 DEF StoreInv, StoreTypeOK
    <2> QED
      BY <2>7, <2>8, <2>9 DEF WindowStep, Limiter!WindowNext
  <1>2. ASSUME NEW m \in timed, CounterExpires(m)
        PROVE  GateInv' /\ WindowStep /\ StoreTypeOK'
    <2>1. /\ m \in Minutes /\ m < minute /\ timed' = timed \ {m}
          /\ count' = [count EXCEPT ![m] = 0]
          /\ UNCHANGED <<keys, minute, admitted, refused, budget, stored, fresh, writes, req,
                         erase, starts, faults>>
      BY <1>2 DEF CounterExpires, StoreInv, StoreTypeOK, dataVars
    <2>2. /\ count' \in [Minutes -> Nat] /\ count'[minute] = count[minute]
          /\ \A k \in Minutes : k > minute => count'[k] = 0
      BY <2>1, GateIsTyped DEF StoreInv, GateInv, Minutes
    <2>3. GateInv'
      BY <2>1, <2>2 DEF StoreInv, GateInv, Pending
    <2>4. StoreTypeOK'
      BY <2>1, <2>2 DEF StoreInv, StoreTypeOK
    <2> QED
      BY <2>1, <2>2, <2>3, <2>4, NoWindowStep
  <1> QED
    BY <1>1, <1>2

\* Steps that have nothing to do with the counter.
LEMMA GateAside ==
    ASSUME StoreInv, UNCHANGED <<minute, count, admitted, refused>>,
           UNCHANGED req \/ \E s \in Sessions : LeavesGate(s)
    PROVE  GateInv' /\ WindowStep
  <1>1. GateInv'
    BY GateKept DEF LeavesGate
  <1> QED
    BY <1>1, NoWindowStep

-----------------------------------------------------------------------------
(* What is stored.                                                         *)

\* Nothing becomes old, and no document unseen, while the erasure stands where it is.
LEMMA DataKept ==
    ASSUME StoreInv, \A i \in stored' : i \in stored \/ ~i.old,
           fresh' => fresh, UNCHANGED erase
    PROVE  EraseInv'
  BY DEF StoreInv, EraseInv

LEMMA NewItemIsNew ==
    ASSUME NEW kind \in Kinds
    PROVE  NewItem(kind) \in Item /\ ~NewItem(kind).old /\ NewItem(kind).kind = kind
  BY DEF Item, NewItem

LEMMA KindsAre ==
    /\ \A kind \in {"memory", "cached", "synonyms", "lead", "document", "order", "searched"} :
          kind \in Kinds
  BY DEF Kinds, Unnamed

\* Types, when a request past the limiter writes or not.
LEMMA TypesKept ==
    ASSUME StoreInv, UNCHANGED <<budget, keys, minute, count, timed, admitted, refused, fresh,
                                 writes>>,
           UNCHANGED <<erase, starts>>,
           req' \in [Sessions -> Request], stored' \subseteq Item, Fine \/ Fault
    PROVE  StoreTypeOK'
  BY DEF StoreInv, StoreTypeOK, Fine, Fault

\* What a request does past the limiter.
PastTheGate(s) ==
    \/ RequestDies(s) \/ Search(s) \/ Sync(s)
    \/ RememberWords(s) \/ Refuse(s) \/ Answer(s) \/ NoAnswer(s) \/ CacheAnswer(s)
    \/ RememberReply(s) \/ CaptureLead(s) \/ NoLead(s)

LEMMA KeepsKind ==
    ASSUME StoreInv, NEW s, NEW at, NEW kind \in Kinds, Keep(s, at, kind)
    PROVE  /\ UNCHANGED <<budget, gateVars, fresh, writes, erase, starts>> /\ (Fine \/ Fault)
           /\ stored' \subseteq Item /\ \A i \in stored' : i \in stored \/ ~i.old
  <1>1. stored' \subseteq stored \cup {NewItem(kind)}
    BY DEF Keep
  <1>2. stored \subseteq Item
    BY DEF StoreInv, StoreTypeOK
  <1>3. stored' \subseteq Item /\ \A i \in stored' : i \in stored \/ ~i.old
    BY <1>1, <1>2, NewItemIsNew
  <1> QED
    BY <1>3 DEF Keep

LEMMA PastTheGateKeeps ==
    ASSUME StoreInv, NEW s \in Sessions, PastTheGate(s)
    PROVE  StoreInv' /\ WindowStep
  <1>1. LeavesGate(s)
    BY Moves, Finishes
       DEF PastTheGate, StoreInv, RequestDies, Search, Sync, Served, RememberWords, Refuse,
           Answer, NoAnswer, CacheAnswer, RememberReply, CaptureLead, NoLead, Steps
  <1>2. /\ UNCHANGED <<budget, gateVars, fresh, writes, erase, starts>> /\ (Fine \/ Fault)
        /\ stored' \subseteq Item /\ \A i \in stored' : i \in stored \/ ~i.old
    <2>1. CASE \/ RequestDies(s) \/ Served(s) \/ Sync(s) \/ Refuse(s)
               \/ NoAnswer(s) \/ NoLead(s)
      BY <2>1 DEF RequestDies, Sync, Served, Refuse, NoAnswer, NoLead,
                  StoreInv, StoreTypeOK, dataVars, Fine
    <2>2. CASE \/ Keep(s, "serve", "searched") \/ RememberWords(s) \/ CacheAnswer(s)
               \/ RememberReply(s) \/ CaptureLead(s)
      BY <2>2, KeepsKind, KindsAre DEF RememberWords, CacheAnswer, RememberReply, CaptureLead
    <2>3. CASE Answer(s)
      <3>1. stored' \subseteq stored \cup {NewItem("searched")}
        BY <2>3 DEF Answer
      <3>2. stored' \subseteq Item /\ \A i \in stored' : i \in stored \/ ~i.old
        BY <3>1, NewItemIsNew, KindsAre DEF StoreInv, StoreTypeOK
      <3> QED
        BY <2>3, <3>2 DEF Answer, Fine
    <2> QED
      BY <2>1, <2>2, <2>3 DEF PastTheGate, Search
  <1>3. GateInv' /\ WindowStep
    BY <1>1, <1>2, GateAside DEF gateVars
  <1>4. EraseInv'
    BY <1>2, DataKept
  <1>5. StoreTypeOK'
    BY <1>1, <1>2, TypesKept DEF gateVars, LeavesGate
  <1> QED
    BY <1>3, <1>4, <1>5 DEF StoreInv

LEMMA GateStepKeeps ==
    ASSUME StoreInv, NEW s \in Sessions,
           \/ \E call \in Calls : Arrive(s, call)
           \/ Incr(s) \/ Expire(s) \/ FailOpen(s)
    PROVE  StoreInv' /\ WindowStep
  <1>1. CASE \E call \in Calls : Arrive(s, call)
    <2>1. PICK call \in Calls :
             req' = [req EXCEPT ![s] = [Idle EXCEPT !.call = call, !.at = "count",
                                                    !.minute = minute]]
      BY <1>1 DEF Arrive
    <2>2. /\ UNCHANGED <<keys, minute, count, timed, admitted, refused, budget, stored, fresh,
                         writes, erase, faults>>
          /\ starts' = starts + 1
      BY <1>1 DEF Arrive, gateVars, dataVars
    <2> DEFINE q == [Idle EXCEPT !.call = call, !.at = "count", !.minute = minute]
    <2>3. q \in Request /\ q.at = "count" /\ q.minute = minute
      BY GateIsTyped DEF Idle, Request, Steps
    <2> HIDE DEF q
    <2>4. /\ req' \in [Sessions -> Request] /\ req'[s] = q
          /\ \A t \in Sessions \ {s} : req'[t] = req[t]
      BY <2>1, <2>3, GateIsTyped DEF q
    <2>5. GateInv'
      BY <2>2, <2>3, <2>4, GateKept
    <2>6. StoreTypeOK'
      BY <2>2, <2>4 DEF StoreInv, StoreTypeOK
    <2> QED
      BY <2>2, <2>5, <2>6, NoWindowStep, DataKept DEF StoreInv
  <1>2. CASE Incr(s)
    <2>1. /\ GateInv' /\ WindowStep
          /\ req' \in [Sessions -> Request] /\ count' \in [Minutes -> Nat]
          /\ admitted' \in Nat /\ refused' \in Nat
      BY <1>2, IncrKeeps
    <2>2. UNCHANGED <<keys, minute, timed, budget, stored, fresh, writes, erase, starts, faults>>
      BY <1>2 DEF Incr, dataVars
    <2>3. StoreTypeOK'
      BY <2>1, <2>2 DEF StoreInv, StoreTypeOK
    <2> QED
      BY <2>1, <2>2, <2>3, DataKept DEF StoreInv
  <1>3. CASE Expire(s)
    <2>1. /\ GateInv' /\ WindowStep /\ LeavesGate(s)
          /\ admitted' \in Nat /\ refused' \in Nat
      BY <1>3, ExpireKeeps
    <2>2. UNCHANGED <<keys, minute, count, budget, stored, fresh, writes, erase, starts>>
      BY <1>3 DEF Expire, dataVars
    <2>3. timed' \subseteq Minutes /\ faults' \in Nat
      BY <1>3, GateIsTyped DEF Expire, Fine, Fault, StoreInv, StoreTypeOK
    <2>4. StoreTypeOK'
      BY <2>1, <2>2, <2>3 DEF StoreInv, StoreTypeOK, LeavesGate
    <2> QED
      BY <2>1, <2>2, <2>4, DataKept DEF StoreInv
  <1>4. CASE FailOpen(s)
    <2>1. GateInv' /\ WindowStep /\ LeavesGate(s) /\ count' \in [Minutes -> Nat]
      BY <1>4, FailOpenKeeps
    <2>2. /\ UNCHANGED <<keys, minute, timed, admitted, refused, budget, stored, fresh, writes,
                         erase, starts>>
          /\ faults' \in Nat
      BY <1>4 DEF FailOpen, Fault, dataVars, StoreInv, StoreTypeOK
    <2>3. StoreTypeOK'
      BY <2>1, <2>2 DEF StoreInv, StoreTypeOK, LeavesGate
    <2> QED
      BY <2>1, <2>2, <2>3, DataKept DEF StoreInv
  <1> QED
    BY <1>1, <1>2, <1>3, <1>4

\* Keys and data are written beside the requests.
LEMMA OwnerKeeps ==
    ASSUME StoreInv,
           \/ CreateTenant \/ CreateTenantKey \/ CreateKey \/ RevokeTenantKey \/ RevokeKey
           \/ SessionsEnd \/ SetSynonyms \/ SetStoreSynonyms \/ WriteDocument \/ Refresh
           \/ OrderTask \/ TrySearch
    PROVE  StoreInv' /\ WindowStep
  <1>1. CASE CreateTenant \/ CreateTenantKey \/ CreateKey \/ RevokeTenantKey \/ RevokeKey
    <2>1. /\ keys' \subseteq Scopes /\ starts' \in Nat
          /\ UNCHANGED <<minute, count, timed, admitted, refused, budget, stored, fresh, writes,
                         req, erase, faults>>
      BY <1>1 DEF CreateTenant, CreateTenantKey, CreateKey, RevokeTenantKey, RevokeKey,
                  KeyIssued, KeyRevoked, dataVars, StoreInv, StoreTypeOK
    <2>2. StoreTypeOK'
      BY <2>1 DEF StoreInv, StoreTypeOK
    <2> QED
      BY <2>1, <2>2, GateAside, DataKept DEF StoreInv
  <1>2. CASE \/ SessionsEnd \/ SetSynonyms \/ SetStoreSynonyms \/ Refresh \/ OrderTask
             \/ TrySearch
    <2>1. fresh \in BOOLEAN /\ writes \in Nat /\ stored \subseteq Item
      BY DEF StoreInv, StoreTypeOK
    <2>2. /\ UNCHANGED <<budget, keys, minute, count, timed, admitted, refused>>
          /\ UNCHANGED <<req, erase, starts, faults>>
      BY <1>2 DEF SessionsEnd, SetSynonyms, SetStoreSynonyms, SynonymsSaved, Refresh,
                  OrderTask, TrySearch, gateVars
    <2>3. fresh' \in BOOLEAN /\ (fresh' => fresh)
      <3>1. CASE Refresh
        <4>1. fresh' = FALSE
          BY <3>1 DEF Refresh
        <4> QED
          BY <4>1
      <3>2. CASE \/ SessionsEnd \/ SetSynonyms \/ SetStoreSynonyms \/ OrderTask
                 \/ TrySearch
        <4>1. fresh' = fresh
          BY <3>2 DEF SessionsEnd, SetSynonyms, SetStoreSynonyms, SynonymsSaved, OrderTask,
                      TrySearch
        <4> QED
          BY <2>1, <4>1
      <3> QED
        BY <1>2, <3>1, <3>2
    <2>4. writes' \in Nat
      BY <1>2, <2>1 DEF SessionsEnd, SetSynonyms, SetStoreSynonyms, SynonymsSaved, Refresh,
                        OrderTask, TrySearch, Replaces, Written
    <2>5. stored' \subseteq Item /\ \A i \in stored' : i \in stored \/ ~i.old
      <3>1. CASE SessionsEnd \/ Refresh
        BY <2>1, <3>1 DEF SessionsEnd, Refresh
      <3>2. CASE SetSynonyms \/ SetStoreSynonyms
        <4>1. stored' \subseteq stored \cup {NewItem("synonyms")}
          BY <3>2 DEF SetSynonyms, SetStoreSynonyms, SynonymsSaved, Replaces
        <4> QED
          BY <2>1, <4>1, NewItemIsNew, KindsAre
      <3>3. CASE OrderTask
        <4>1. stored' \subseteq stored \cup {NewItem("order")}
          BY <3>3 DEF OrderTask, Replaces
        <4> QED
          BY <2>1, <4>1, NewItemIsNew, KindsAre
      <3>4. CASE TrySearch
        <4>1. stored' \subseteq stored \cup {NewItem("searched")}
          BY <3>4 DEF TrySearch
        <4> QED
          BY <2>1, <4>1, NewItemIsNew, KindsAre
      <3> QED
        BY <1>2, <3>1, <3>2, <3>3, <3>4
    <2>6. StoreTypeOK'
      BY <2>2, <2>3, <2>4, <2>5 DEF StoreInv, StoreTypeOK
    <2> QED
      BY <2>2, <2>3, <2>5, <2>6, GateAside, DataKept DEF StoreInv
  <1>3. CASE WriteDocument
    <2> DEFINE new == NewItem("document")
    <2>1. /\ UNCHANGED <<budget, keys, minute, count, timed, admitted, refused>>
          /\ UNCHANGED <<req, erase, starts, faults>>
          /\ stored' = {i \in stored : i.kind # "document"} \cup {new} /\ fresh' = TRUE
          /\ writes' = writes + 1
      BY <1>3 DEF WriteDocument, Replaces, Written, gateVars
    <2>2. new \in Item /\ ~new.old
      BY NewItemIsNew, KindsAre
    <2> HIDE DEF new
    <2>3. EraseInv'
      BY <2>1, <2>2 DEF StoreInv, EraseInv
    <2>4. StoreTypeOK'
      BY <2>1, <2>2 DEF StoreInv, StoreTypeOK
    <2> QED
      BY <2>1, <2>3, <2>4, GateAside DEF StoreInv
  <1> QED
    BY <1>1, <1>2, <1>3

-----------------------------------------------------------------------------
(* Erasure.                                                                *)

\* The steps, and that they name every kind but two.
LEMMA StepsName ==
    /\ Len(EraseSteps) = 5
    /\ EraseSteps[1] = "document" /\ EraseSteps[2] = "memory" /\ EraseSteps[3] = "cached"
    /\ EraseSteps[4] = "synonyms" /\ EraseSteps[5] = "lead"
  BY DEF EraseSteps

LEMMA EveryKindHasAStep ==
    ASSUME NEW kind \in Kinds \ Unnamed
    PROVE  \E j \in 1..Len(EraseSteps) : kind = EraseSteps[j]
  <1>1. 1 \in 1..5 /\ 2 \in 1..5 /\ 3 \in 1..5 /\ 4 \in 1..5 /\ 5 \in 1..5
    OBVIOUS
  <1> QED
    BY <1>1, StepsName DEF Kinds

LEMMA AgedIsItem ==
    ASSUME NEW i \in Item, NEW old \in BOOLEAN
    PROVE  LET aged == [i EXCEPT !.old = old]
           IN aged \in Item /\ (aged.old <=> old) /\ aged.kind = i.kind
  BY DEF Item

LEMMA EraseStartsKeeps ==
    ASSUME StoreInv, EraseStarts
    PROVE  StoreInv' /\ WindowStep
  <1> DEFINE aged(i) == [i EXCEPT !.old = ~(i.kind = "document" /\ fresh)]
  <1>1. /\ UNCHANGED <<keys, minute, count, timed, admitted, refused, fresh, req, faults>>
        /\ UNCHANGED <<budget, writes>>
        /\ erase' = 1 /\ starts' = starts + 1
        /\ stored' = {aged(i) : i \in stored}
    BY DEF EraseStarts, gateVars
  <1>2. stored \subseteq Item /\ fresh \in BOOLEAN /\ starts \in Nat
    BY DEF StoreInv, StoreTypeOK
  <1>3. \A i \in stored : /\ aged(i) \in Item /\ aged(i).kind = i.kind
                          /\ aged(i).old <=> ~(i.kind = "document" /\ fresh)
    BY <1>2, AgedIsItem
  <1> HIDE DEF aged
  <1>4. stored' \subseteq Item
    BY <1>1, <1>3
  <1>5. EraseInv'
    <2> SUFFICES ASSUME NEW k \in stored', k.old, k.kind \notin Unnamed
                 PROVE  /\ erase' # 0
                        /\ \E j \in erase'..Len(EraseSteps) : k.kind = EraseSteps[j]
                        /\ k.kind = "document" => ~fresh'
      BY DEF EraseInv
    <2>1. PICK i \in stored : k = aged(i)
      BY <1>1
    <2>2. k.kind = i.kind /\ i.kind \in Kinds \ Unnamed /\ (k.kind = "document" => ~fresh)
      BY <1>2, <1>3, <2>1 DEF Item
    <2>3. \E j \in 1..Len(EraseSteps) : k.kind = EraseSteps[j]
      BY <2>2, EveryKindHasAStep
    <2> QED
      BY <1>1, <2>2, <2>3
  <1>6. StoreTypeOK'
    BY <1>1, <1>2, <1>4, StepsName DEF StoreInv, StoreTypeOK
  <1> QED
    BY <1>1, <1>5, <1>6, GateAside DEF StoreInv

LEMMA EraseStepKeeps ==
    ASSUME StoreInv, EraseStep
    PROVE  StoreInv' /\ WindowStep
  <1>1. /\ UNCHANGED <<keys, minute, count, timed, admitted, refused, fresh, req, starts>>
        /\ UNCHANGED <<budget, writes>>
        /\ erase # 0 /\ erase' = StepAfter(erase) /\ (Fine \/ Fault)
    BY DEF EraseStep, gateVars
  <1>2. /\ stored \subseteq Item /\ fresh \in BOOLEAN /\ erase \in 1..5 /\ erase' \in 0..5
        /\ erase = 5 => erase' = 0
        /\ erase # 5 => erase' = erase + 1
    BY <1>1, StepsName DEF StoreInv, StoreTypeOK, StepAfter
  <1>3. ASSUME NEW i \in stored, i.old, i.kind \notin Unnamed, i.kind # EraseSteps[erase]
        PROVE  /\ erase # 5 /\ \E j \in (erase + 1)..5 : i.kind = EraseSteps[j]
               /\ i.kind = "document" => ~fresh
    <2>1. PICK j \in erase..5 : i.kind = EraseSteps[j]
      BY <1>3, StepsName DEF StoreInv, EraseInv
    <2>2. i.kind = "document" => ~fresh
      BY <1>3 DEF StoreInv, EraseInv
    <2>3. j \in (erase + 1)..5
      BY <1>2, <1>3, <2>1
    <2> QED
      BY <1>2, <2>1, <2>2, <2>3
  <1>4. EraseInv' /\ stored' \subseteq Item
    <2>1. SUFFICES /\ stored' \subseteq Item
                   /\ \A k \in stored' : k.old /\ k.kind \notin Unnamed =>
                        \E i \in stored : /\ i.old /\ i.kind = k.kind
                                          /\ i.kind # EraseSteps[erase]
      BY <1>1, <1>2, <1>3, StepsName DEF EraseInv
    <2>2. CASE stored' = stored \ Erased
      <3>1. ASSUME NEW k \in stored', k.old, k.kind \notin Unnamed
            PROVE  k.kind # EraseSteps[erase]
        <4>1. k \in stored /\ k \notin Erased /\ (k.kind = "document" => ~fresh)
          BY <2>2, <3>1 DEF StoreInv, EraseInv
        <4> QED
          BY <4>1 DEF Erased
      <3> QED
        BY <1>2, <2>2, <3>1
    <2>3. CASE \E part \in SUBSET Erased :
                  stored' = {[i EXCEPT !.old = @ /\ i.kind # EraseSteps[erase]] :
                               i \in stored \ part}
      <3> DEFINE kept(i) == [i EXCEPT !.old = i.old /\ i.kind # EraseSteps[erase]]
      <3>1. PICK part \in SUBSET Erased : stored' = {kept(i) : i \in stored \ part}
        BY <2>3
      <3>2. ASSUME NEW i \in stored
            PROVE  /\ kept(i) \in Item /\ kept(i).kind = i.kind
                   /\ kept(i).old => i.old /\ i.kind # EraseSteps[erase]
        <4>1. i \in Item /\ (i.old /\ i.kind # EraseSteps[erase]) \in BOOLEAN
          BY <1>2
        <4> QED
          BY <4>1, AgedIsItem
      <3> HIDE DEF kept
      <3> QED
        BY <3>1, <3>2
    <2> QED
      BY <2>2, <2>3 DEF EraseStep
  <1>5. faults' \in Nat
    BY <1>1 DEF Fine, Fault, StoreInv, StoreTypeOK
  <1>6. StoreTypeOK'
    BY <1>1, <1>2, <1>4, <1>5, StepsName DEF StoreInv, StoreTypeOK
  <1> QED
    BY <1>1, <1>4, <1>6, GateAside DEF StoreInv

-----------------------------------------------------------------------------
LEMMA StoreInitInv == StoreInit => StoreInv /\ Limiter!WindowInit
  <1> SUFFICES ASSUME StoreInit PROVE StoreInv /\ Limiter!WindowInit
    OBVIOUS
  <1>1. /\ minute = 0 /\ 0 \in Minutes /\ count = [m \in Minutes |-> 0] /\ timed = {}
        /\ stored = {} /\ fresh = FALSE /\ req = [s \in Sessions |-> Idle]
        /\ erase = 0 /\ starts = 0 /\ faults = 0 /\ admitted = 0 /\ refused = 0
        /\ writes = 0 /\ budget \in Budgets
    BY IdleIsRequest DEF StoreInit
  <1>2. count[minute] = 0 /\ keys \subseteq Scopes
    BY <1>1 DEF StoreInit
  <1>3. StoreTypeOK
    <2>1. count \in [Minutes -> Nat] /\ req \in [Sessions -> Request]
      BY <1>1, IdleIsRequest
    <2>2. erase \in 0..Len(EraseSteps)
      BY <1>1, StepsName
    <2>3. fresh \in BOOLEAN
      BY <1>1
    <2> QED
      BY <1>1, <1>2, <2>1, <2>2, <2>3 DEF StoreTypeOK
  <1>4. GateInv
    BY <1>1, <1>2, IdleIsRequest, StorefrontAssumption DEF GateInv, Pending
  <1>5. EraseInv
    BY <1>1 DEF EraseInv
  <1>6. Limiter!WindowInit
    BY <1>1, <1>2 DEF Limiter!WindowInit
  <1> QED
    BY <1>3, <1>4, <1>5, <1>6 DEF StoreInv

LEMMA StoreStepInv == StoreInv /\ [StoreNext]_storeVars => StoreInv' /\ WindowStep
  <1> SUFFICES ASSUME StoreInv, [StoreNext]_storeVars PROVE StoreInv' /\ WindowStep
    OBVIOUS
  <1>1. CASE \E s \in Sessions : RequestStep(s)
    BY <1>1, GateStepKeeps, PastTheGateKeeps DEF RequestStep, PastTheGate
  <1>2. CASE \/ CreateTenant \/ CreateTenantKey \/ CreateKey \/ RevokeTenantKey \/ RevokeKey
             \/ SessionsEnd \/ SetSynonyms \/ SetStoreSynonyms \/ WriteDocument \/ Refresh
             \/ OrderTask \/ TrySearch
    BY <1>2, OwnerKeeps
  <1>3. CASE Tick \/ \E m \in timed : CounterExpires(m)
    <2>1. UNCHANGED <<budget, stored, fresh, writes, erase>>
      BY <1>3 DEF Tick, CounterExpires, dataVars
    <2> QED
      BY <1>3, <2>1, TimeKeeps, DataKept DEF StoreInv
  <1>4. CASE EraseStarts \/ EraseStep
    BY <1>4, EraseStartsKeeps, EraseStepKeeps
  <1>5. CASE UNCHANGED storeVars
    <2>1. UNCHANGED <<keys, minute, count, timed, admitted, refused, budget, stored, fresh, writes,
                      req, erase, starts, faults>>
      BY <1>5 DEF storeVars, gateVars, dataVars
    <2>2. StoreTypeOK'
      BY <2>1 DEF StoreInv, StoreTypeOK
    <2> QED
      BY <2>1, <2>2, GateAside, DataKept DEF StoreInv
  <1> QED
    BY <1>1, <1>2, <1>3, <1>4, <1>5 DEF StoreNext

THEOREM StoreInvariance == StoreSpec => []StoreInv
  BY StoreInitInv, StoreStepInv, PTL DEF StoreSpec

\* The limiter, the keys, the stored data and the erasure keep their types.
THEOREM StoreIsTyped == StoreSpec => []StoreTypeOK
  <1>1. StoreInv => StoreTypeOK
    BY DEF StoreInv
  <1> QED
    BY <1>1, StoreInvariance, PTL

\* governance.erase_tenant: when it has gone through its steps, nothing of the five kinds
\* they name is left that was there when it began, whatever is written meanwhile; but for
\* the kinds whose step failed and a document the index had not refreshed. Orders and the
\* query log, which no step names, are left.
THEOREM ErasureForgets == StoreSpec => []Forgotten
  <1>1. StoreInv => Forgotten
    BY DEF StoreInv, EraseInv, Forgotten
  <1> QED
    BY <1>1, StoreInvariance, PTL

\* RateLimiter.allow, with its INCR and EXPIRE apart, its counters that expire when they
\* do and its failures that admit, implements the fixed window: every step of the store
\* is a step of the window or none.
THEOREM LimiterIsAFixedWindow == StoreSpec => LimitHolds
  <1>1. WindowStep <=> [Limiter!WindowNext]_(Limiter!windowVars)
    BY DEF WindowStep
  <1> QED
    BY <1>1, StoreInitInv, StoreStepInv, PTL DEF StoreSpec, LimitHolds, Limiter!WindowSpec

=============================================================================
