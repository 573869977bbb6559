---------------------------- MODULE PeopleProofs ----------------------------
(***************************************************************************)
(* What modules Operators and Team keep: an operator and an owner remain,  *)
(* and the second factor holds, for every set of people, of requests and   *)
(* of tokens. The two machines share no variable; nor do their proofs.     *)
(***************************************************************************)
EXTENDS Operators, Team, TLAPS

-----------------------------------------------------------------------------
(* The operators.                                                          *)

\* What a request has read of the second factor: a login's code came after the last
\* accepted one, a confirmation found a secret that is not enforced yet.
FactorRead(q) ==
    /\ q.op = "code" => q.n \in 1..(MaxStep + 1) /\ q.n > q.seen.last /\ q.seen.on
    /\ q.op = "confirm" => /\ q.n \in 1..(MaxStep + 1)
                           /\ ~q.seen.on /\ q.seen.secret # 0
    /\ q.op = "enroll" => ~q.seen.on

\* A request is about an operator whose row still exists.
RequestsInv ==
    \A r \in Requests :
        /\ FactorRead(req[r])
        /\ req[r].op # "idle" => /\ req[r].who \in Operators
                                 /\ row[req[r].who].status # "none"

\* A removal under way leaves somebody, unless one was decided before another.
RemovalsInv ==
    ~overtaken =>
        \A r \in Requests :
            req[r].op \in {"suspend", "delete"} /\ row[req[r].who].status = "active"
                => Remaining(req[r].who) # {}

\* Accepted codes lie at or before the last one, and there are none of a secret that
\* is not enforced.
CodesInv ==
    \A o \in Operators \ mixed :
        /\ \A c \in spent[o] : c <= row[o].totp.last
        /\ ~row[o].totp.on => spent[o] = {}

\* Nothing is left in the row of an operator who was deleted, or is yet to be made.
NoneInv == \A o \in Operators : row[o].status = "none" => row[o] = NoRow

FactorPart == CodesInv /\ SecondFactorHolds

OpInv == /\ OpTypeOK /\ RequestsInv /\ RemovalsInv /\ FactorPart /\ NoneInv
         /\ OperatorRemains

\* What the proofs read off the type invariant.
LEMMA RowIsRow ==
    ASSUME OpInv, NEW o \in Operators
    PROVE  /\ row \in [Operators -> Row] /\ row[o] \in Row
           /\ row[o].status \in {"none", "active", "suspended"}
           /\ row[o].totp \in Factor /\ row[o].totp.secret \in 0..MaxSecrets
           /\ row[o].totp.on \in BOOLEAN /\ row[o].totp.last \in 0..(MaxStep + 1)
           /\ row[o].failed \in Nat
  <1>1. row \in [Operators -> Row] /\ row[o] \in Row
    BY DEF OpInv, OpTypeOK
  <1>2. row[o].totp \in Factor /\ row[o].status \in {"none", "active", "suspended"}
        /\ row[o].failed \in Nat
    BY <1>1 DEF Row
  <1> QED
    BY <1>1, <1>2 DEF Factor

\* What a request that commits knows.
LEMMA RequestIsRequest ==
    ASSUME OpInv, NEW r \in Requests, req[r].op # "idle"
    PROVE  /\ req[r] \in Request /\ req[r].who \in Operators
           /\ row[req[r].who].status # "none" /\ FactorRead(req[r])
           /\ req[r].n \in Nat /\ req[r].seen \in Factor
  BY DEF OpInv, OpTypeOK, RequestsInv, Request

LEMMA IdleIsRequest == Idle \in Request /\ Idle.op = "idle" /\ FactorRead(Idle)
  BY OperatorsAssumption DEF Idle, Request, Ops, NoFactor, Factor, FactorRead

LEMMA NoRowIsRow ==
    /\ NoRow \in Row /\ NoRow.status = "none" /\ NoRow.totp = NoFactor /\ NoRow.lock = "none"
    /\ NewRow \in Row /\ NewRow.status = "active" /\ NewRow.totp = NoFactor
    /\ NoFactor \in Factor /\ ~NoFactor.on
  <1>1. NoFactor \in Factor /\ ~NoFactor.on
    BY OperatorsAssumption DEF NoFactor, Factor
  <1>2. NewRow \in Row /\ NewRow.status = "active" /\ NewRow.totp = NoFactor
        /\ NewRow.lock = "none"
    BY <1>1 DEF NewRow, Row
  <1>3. /\ NoRow \in Row /\ NoRow.status = "none" /\ NoRow.totp = NoFactor
        /\ NoRow.lock = "none"
    BY <1>2 DEF NoRow, Row
  <1> QED
    BY <1>1, <1>2, <1>3

SameStatuses == \A o \in Operators : row'[o].status = row[o].status
SameFactors == \A o \in Operators : row'[o].totp = row[o].totp

\* Requests only end, or go on from their code to their login.
OnlyAnswers ==
    \A q \in Requests :
        \/ req'[q] = req[q]
        \/ req'[q] = Idle
        \/ req[q].op = "code" /\ req'[q] = [req[q] EXCEPT !.op = "login"]

LEMMA FactorsStay ==
    ASSUME FactorPart, SameFactors, UNCHANGED <<proved, spent, reused, mixed>>
    PROVE  FactorPart'
  BY DEF FactorPart, CodesInv, SecondFactorHolds, SameFactors

\* A step that changes nobody's status.
LEMMA StatusesStay ==
    ASSUME OpInv, OpTypeOK', SameStatuses, OnlyAnswers, UNCHANGED overtaken, FactorPart',
           \A o \in Operators : row[o].status = "none" => row'[o] = row[o]
    PROVE  OpInv'
  <1>1. Active' = Active
    BY DEF Active, SameStatuses
  <1>2. ASSUME NEW q \in Requests
        PROVE  /\ FactorRead(req'[q])
               /\ req'[q].op # "idle" => /\ req'[q].who = req[q].who /\ req'[q].who \in Operators
                                         /\ req[q].op # "idle" /\ row'[req'[q].who].status # "none"
               /\ req'[q].op \in {"suspend", "delete"} => req'[q] = req[q]
    <2>1. CASE req'[q] = req[q]
      BY <2>1 DEF OpInv, RequestsInv, SameStatuses
    <2>2. CASE req'[q] = Idle
      BY <2>2, IdleIsRequest
    <2>3. CASE req[q].op = "code" /\ req'[q] = [req[q] EXCEPT !.op = "login"]
      <3>1. req[q] \in Request
        BY DEF OpInv, OpTypeOK
      <3>2. req'[q].op = "login" /\ req'[q].who = req[q].who
        BY <2>3, <3>1 DEF Request
      <3> QED
        BY <2>3, <3>2 DEF OpInv, RequestsInv, SameStatuses, FactorRead
    <2> QED
      BY <2>1, <2>2, <2>3 DEF OnlyAnswers
  <1>3. RequestsInv'
    BY <1>2 DEF RequestsInv, FactorRead
  <1>4. RemovalsInv'
    <2> SUFFICES ASSUME ~overtaken, NEW q \in Requests, req'[q].op \in {"suspend", "delete"},
                        row'[req'[q].who].status = "active"
                 PROVE  Active' \ {req'[q].who} # {}
      BY DEF RemovalsInv, Remaining
    <2>1. req'[q] = req[q] /\ req[q].who \in Operators
      BY <1>2 DEF OpInv, RequestsInv
    <2>2. row[req[q].who].status = "active"
      BY <2>1 DEF SameStatuses
    <2> QED
      BY <1>1, <2>1, <2>2 DEF OpInv, RemovalsInv, Remaining
  <1>5. OperatorRemains'
    BY <1>1 DEF OpInv, OperatorRemains
  <1>6. NoneInv'
    BY DEF OpInv, NoneInv, SameStatuses
  <1> QED
    BY <1>3, <1>4, <1>5, <1>6 DEF OpInv

\* A request that reads its operator's row.
LEMMA StartKeeps ==
    ASSUME OpInv, NEW r \in Requests, NEW op \in Ops, NEW o \in Operators, NEW n \in Nat,
           Start(r, op, o, n), row[o].status # "none",
           FactorRead([op |-> op, who |-> o, n |-> n, seen |-> row[o].totp]),
           op \in {"suspend", "delete"} /\ row[o].status = "active" => Remaining(o) # {}
    PROVE  OpInv'
  <1> DEFINE q == [op |-> op, who |-> o, n |-> n, seen |-> row[o].totp]
  <1>1. /\ q \in Request /\ q.op = op /\ q.who = o /\ FactorRead(q)
    BY RowIsRow DEF Request
  <1>2. /\ req' = [req EXCEPT ![r] = q] /\ starts' = starts + 1
        /\ UNCHANGED <<row, signedIn, badges, now, secrets, proved, spent, reused, mixed, overtaken>>
    BY DEF Start, history
  <1> HIDE DEF q
  <1>3. OpTypeOK'
    BY <1>1, <1>2 DEF OpInv, OpTypeOK
  <1>4. \A p \in Requests : req'[p] = IF p = r THEN q ELSE req[p]
    BY <1>2 DEF OpInv, OpTypeOK
  <1>5. RequestsInv'
    BY <1>1, <1>2, <1>4 DEF OpInv, RequestsInv, FactorRead
  <1>6. RemovalsInv'
    BY <1>1, <1>2, <1>4 DEF OpInv, RemovalsInv, Remaining, Active
  <1>7. FactorPart' /\ NoneInv' /\ OperatorRemains'
    BY <1>2, FactorsStay DEF OpInv, SameFactors, NoneInv, OperatorRemains, Active
  <1> QED
    BY <1>3, <1>5, <1>6, <1>7 DEF OpInv

LEMMA StartsKeep ==
    ASSUME OpInv, NEW r \in Requests, RequestStarts(r)
    PROVE  OpInv'
  <1>1. PICK o \in Operators :
           \/ LoginReads(r, o) \/ LoginReadsWrong(r, o) \/ RefreshReads(r, o)
           \/ EnrollReads(r, o) \/ ConfirmReads(r, o) \/ DisableReads(r, o)
           \/ \E by \in Operators \cup {Nobody}, op \in {"suspend", "delete"} :
                 RemovalReads(r, by, o, op)
    BY DEF RequestStarts
  <1> DEFINE T == row[o].totp
  <1>2. T \in Factor /\ T.on \in BOOLEAN /\ T.last \in 0..(MaxStep + 1) /\ row[o].failed \in Nat
    BY RowIsRow
  <1>3. ASSUME NEW op \in Ops \ {"code", "confirm", "suspend", "delete"}, NEW n \in Nat,
               Start(r, op, o, n), row[o].status # "none", op = "enroll" => ~T.on
        PROVE  OpInv'
    BY <1>3, StartKeeps DEF FactorRead
  <1>4. \A step \in CodesNow : step \in 1..(MaxStep + 1)
    BY OperatorsAssumption DEF OpInv, OpTypeOK, CodesNow
  <1>5. CASE LoginReads(r, o)
    <2>1. row[o].status # "none"
      BY <1>5 DEF LoginReads, MayLogIn
    <2>2. CASE Start(r, "login", o, 0)
      BY <1>3, <2>1, <2>2 DEF Ops
    <2>3. CASE /\ T.on
               /\ \E step \in CodesNow : Later(o, step) /\ Start(r, "code", o, step)
      <3>1. PICK step \in CodesNow : step > T.last /\ Start(r, "code", o, step)
        BY <2>3 DEF Later
      <3>2. FactorRead([op |-> "code", who |-> o, n |-> step, seen |-> T])
        BY <1>4, <2>3, <3>1 DEF FactorRead
      <3>3. step \in Nat
        BY <1>4, <3>1, OperatorsAssumption
      <3> QED
        BY <2>1, <3>1, <3>2, <3>3, StartKeeps DEF Ops
    <2> QED
      BY <1>5, <2>2, <2>3 DEF LoginReads
  <1>6. CASE LoginReadsWrong(r, o) \/ RefreshReads(r, o) \/ EnrollReads(r, o) \/ DisableReads(r, o)
    BY <1>2, <1>3, <1>6 DEF LoginReadsWrong, MayLogIn, RefreshReads, EnrollReads, DisableReads, Ops
  <1>7. CASE ConfirmReads(r, o)
    <2>1. PICK step \in CodesNow : Start(r, "confirm", o, step)
      BY <1>7 DEF ConfirmReads
    <2>2. FactorRead([op |-> "confirm", who |-> o, n |-> step, seen |-> T])
      BY <1>4, <1>7, <2>1 DEF FactorRead, ConfirmReads
    <2>3. step \in Nat /\ row[o].status # "none"
      BY <1>4, <1>7, <2>1, OperatorsAssumption DEF ConfirmReads
    <2> QED
      BY <2>1, <2>2, <2>3, StartKeeps DEF Ops
  <1>8. CASE \E by \in Operators \cup {Nobody}, op \in {"suspend", "delete"} :
                RemovalReads(r, by, o, op)
    <2>1. PICK op \in {"suspend", "delete"} :
             /\ Start(r, op, o, 0) /\ row[o].status # "none"
             /\ row[o].status = "active" => Remaining(o) # {}
      BY <1>8 DEF RemovalReads
    <2>2. FactorRead([op |-> op, who |-> o, n |-> 0, seen |-> T])
      BY <2>1 DEF FactorRead
    <2> QED
      BY <2>1, <2>2, StartKeeps DEF Ops
  <1> QED
    BY <1>1, <1>5, <1>6, <1>7, <1>8

\* One operator's row is written, who has one, and keeps its status.
LEMMA RowWritten ==
    ASSUME OpInv, NEW o \in Operators, row[o].status # "none", NEW new \in Row,
           new.status = row[o].status, row' = [row EXCEPT ![o] = new]
    PROVE  /\ row' \in [Operators -> Row] /\ SameStatuses /\ row'[o] = new
           /\ \A p \in Operators : p # o => row'[p] = row[p]
           /\ \A p \in Operators : row[p].status = "none" => row'[p] = row[p]
  <1>1. row \in [Operators -> Row]
    BY DEF OpInv, OpTypeOK
  <1>2. row'[o] = new /\ \A p \in Operators : p # o => row'[p] = row[p]
    BY <1>1
  <1> QED
    BY <1>1, <1>2 DEF SameStatuses

\* The lockout's columns.
LEMMA LockWritten ==
    ASSUME OpInv, NEW o \in Operators, row[o].status # "none",
           NEW failed \in Nat, NEW lock \in {"none", "running", "over"},
           row' = [row EXCEPT ![o].failed = failed, ![o].lock = lock]
    PROVE  /\ row' \in [Operators -> Row] /\ SameStatuses /\ SameFactors
           /\ \A p \in Operators : row[p].status = "none" => row'[p] = row[p]
  <1> DEFINE new == [row[o] EXCEPT !.failed = failed, !.lock = lock]
  <1>1. new \in Row /\ new.status = row[o].status /\ new.totp = row[o].totp
    BY RowIsRow DEF Row
  <1>2. row' = [row EXCEPT ![o] = new]
    BY RowIsRow
  <1> HIDE DEF new
  <1>3. /\ row' \in [Operators -> Row] /\ SameStatuses /\ row'[o] = new
        /\ \A p \in Operators : p # o => row'[p] = row[p]
        /\ \A p \in Operators : row[p].status = "none" => row'[p] = row[p]
    BY <1>1, <1>2, RowWritten
  <1> QED
    BY <1>1, <1>3 DEF SameFactors

LEMMA CommitAnswers ==
    ASSUME OpInv, NEW r \in Requests, NEW op \in Ops \ {"idle"}, Commit(r, op)
    PROVE  /\ OnlyAnswers /\ req' \in [Requests -> Request] /\ UNCHANGED <<now, starts>>
           /\ req[r].op = op /\ req[r].who \in Operators /\ row[req[r].who].status # "none"
  <1>1. req' = [req EXCEPT ![r] = Idle] /\ UNCHANGED <<now, starts>> /\ req[r].op = op
    BY DEF Commit
  <1>2. req' \in [Requests -> Request]
    BY <1>1, IdleIsRequest DEF OpInv, OpTypeOK
  <1>3. OnlyAnswers
    BY <1>1 DEF OpInv, OpTypeOK, OnlyAnswers
  <1> QED
    BY <1>1, <1>2, <1>3, RequestIsRequest

\* Commits that leave the second factor alone.
LEMMA LoginsKeep ==
    ASSUME OpInv, NEW r \in Requests,
           LoginSucceeds(r) \/ LoginFails(r) \/ RefreshRotates(r)
    PROVE  OpInv'
  <1>1. CASE LoginSucceeds(r)
    <2> DEFINE o == req[r].who
    <2>1. /\ OnlyAnswers /\ req' \in [Requests -> Request] /\ UNCHANGED <<now, starts>>
          /\ o \in Operators /\ row[o].status # "none"
      BY <1>1, CommitAnswers DEF LoginSucceeds, Ops
    <2>2. /\ row' = [row EXCEPT ![o].failed = 0, ![o].lock = "none"]
          /\ signedIn' = signedIn \cup {o} /\ badges' = badges \cup {o}
          /\ UNCHANGED <<secrets, proved, spent, reused, mixed, overtaken>>
      BY <1>1 DEF LoginSucceeds, SignIn
    <2> HIDE DEF o
    <2>3. /\ row' \in [Operators -> Row] /\ SameStatuses /\ SameFactors
          /\ \A p \in Operators : row[p].status = "none" => row'[p] = row[p]
      BY <2>1, <2>2, LockWritten
    <2>4. OpTypeOK'
      BY <2>1, <2>2, <2>3 DEF OpInv, OpTypeOK, SameStatuses
    <2> QED
      BY <2>1, <2>2, <2>3, <2>4, FactorsStay, StatusesStay DEF OpInv
  <1>2. CASE LoginFails(r)
    <2> DEFINE o == req[r].who
               attempts == req[r].n + 1
               lock == IF attempts >= MaxAttempts THEN "running" ELSE "none"
    <2>1. /\ OnlyAnswers /\ req' \in [Requests -> Request] /\ UNCHANGED <<now, starts>>
          /\ o \in Operators /\ row[o].status # "none" /\ req[r].op = "wrong"
      BY <1>2, CommitAnswers DEF LoginFails, Ops
    <2>2. attempts \in Nat /\ lock \in {"none", "running", "over"}
      BY <2>1, RequestIsRequest
    <2>3. /\ row' = [row EXCEPT ![o].failed = attempts, ![o].lock = lock]
          /\ UNCHANGED <<signedIn, badges, secrets, proved, spent, reused, mixed, overtaken>>
      BY <1>2 DEF LoginFails, history
    <2> HIDE DEF o, attempts, lock
    <2>4. /\ row' \in [Operators -> Row] /\ SameStatuses /\ SameFactors
          /\ \A p \in Operators : row[p].status = "none" => row'[p] = row[p]
      BY <2>1, <2>2, <2>3, LockWritten
    <2>5. OpTypeOK'
      BY <2>1, <2>3, <2>4 DEF OpInv, OpTypeOK, SameStatuses
    <2> QED
      BY <2>1, <2>3, <2>4, <2>5, FactorsStay, StatusesStay DEF OpInv
  <1>3. CASE RefreshRotates(r)
    <2>1. /\ OnlyAnswers /\ req' \in [Requests -> Request] /\ UNCHANGED <<now, starts>>
          /\ req[r].who \in Operators /\ row[req[r].who].status # "none"
      BY <1>3, CommitAnswers DEF RefreshRotates, Ops
    <2>2. /\ signedIn' = signedIn \cup {req[r].who} /\ badges' = badges \cup {req[r].who}
          /\ UNCHANGED <<row, secrets, proved, spent, reused, mixed, overtaken>>
      BY <1>3 DEF RefreshRotates, SignIn
    <2>3. SameStatuses /\ SameFactors
      BY <2>2 DEF SameStatuses, SameFactors
    <2>4. OpTypeOK'
      BY <2>1, <2>2 DEF OpInv, OpTypeOK
    <2> QED
      BY <2>1, <2>2, <2>3, <2>4, FactorsStay, StatusesStay DEF OpInv
  <1> QED
    BY <1>1, <1>2, <1>3

\* What no request does.
LEMMA UnaskedKeep ==
    ASSUME OpInv,
           \/ \E o \in Operators : LockEnds(o) \/ Unlock(o) \/ SessionsEnd(o) \/ BadgeExpires(o)
           \/ Tick
    PROVE  OpInv'
  <1>1. ASSUME UNCHANGED <<secrets, req, starts, proved, spent, reused, mixed, overtaken>>,
               OpTypeOK', SameStatuses, SameFactors,
               \A p \in Operators : row[p].status = "none" => row'[p] = row[p]
        PROVE  OpInv'
    BY <1>1, FactorsStay, StatusesStay DEF OpInv, OnlyAnswers
  <1>2. ASSUME NEW o \in Operators, LockEnds(o) \/ Unlock(o)
        PROVE  OpInv'
    <2>1. row[o].status # "none"
      BY <1>2, NoRowIsRow DEF LockEnds, Unlock, OpInv, NoneInv
    <2>2. UNCHANGED <<signedIn, badges, now, secrets, req, starts,
                      proved, spent, reused, mixed, overtaken>>
      BY <1>2 DEF LockEnds, Unlock, history
    <2>3. /\ row' \in [Operators -> Row] /\ SameStatuses /\ SameFactors
          /\ \A p \in Operators : row[p].status = "none" => row'[p] = row[p]
      <3>1. CASE LockEnds(o)
        <4>1. row' = [row EXCEPT ![o].failed = row[o].failed, ![o].lock = "over"]
          BY <3>1, RowIsRow DEF LockEnds, Row
        <4> QED
          BY <2>1, <4>1, RowIsRow, LockWritten
      <3>2. CASE Unlock(o)
        BY <2>1, <3>2, LockWritten DEF Unlock
      <3> QED
        BY <1>2, <3>1, <3>2
    <2>4. OpTypeOK'
      BY <2>2, <2>3 DEF OpInv, OpTypeOK, SameStatuses
    <2> QED
      BY <1>1, <2>2, <2>3, <2>4
  <1>3. ASSUME NEW o \in Operators, SessionsEnd(o) \/ BadgeExpires(o)
        PROVE  OpInv'
    <2>1. /\ UNCHANGED <<row, now, secrets, req, starts, proved, spent, reused, mixed, overtaken>>
          /\ signedIn' \subseteq signedIn /\ badges' \subseteq badges
      BY <1>3 DEF SessionsEnd, BadgeExpires, history
    <2>2. OpTypeOK'
      BY <2>1 DEF OpInv, OpTypeOK
    <2> QED
      BY <1>1, <2>1, <2>2 DEF SameStatuses, SameFactors
  <1>4. CASE Tick
    <2>1. /\ UNCHANGED <<row, signedIn, badges, secrets, req, starts,
                         proved, spent, reused, mixed, overtaken>>
          /\ now' \in 1..MaxStep
      BY <1>4, OperatorsAssumption DEF Tick, history, OpInv, OpTypeOK
    <2>2. OpTypeOK'
      BY <2>1 DEF OpInv, OpTypeOK
    <2> QED
      BY <1>1, <2>1, <2>2 DEF SameStatuses, SameFactors
  <1> QED
    BY <1>2, <1>3, <1>4

-----------------------------------------------------------------------------
(* The second factor is written.                                           *)

\* What has to hold of one operator's second factor.
FactorHolds(o) ==
    /\ \A c \in spent[o] : c <= row[o].totp.last
    /\ ~row[o].totp.on => spent[o] = {}
    /\ row[o].totp.on => o \in proved /\ row[o].totp.secret # 0
    /\ o \notin reused

LEMMA FactorPartIs == FactorPart <=> \A o \in Operators \ mixed : FactorHolds(o)
  BY DEF FactorPart, CodesInv, SecondFactorHolds, FactorHolds

\* A request writes its operator's second factor and no other's.
LEMMA FactorWritten ==
    ASSUME OpInv, NEW r \in Requests, req[r].op # "idle", NEW f \in Factor,
           NEW o \in Operators, o = req[r].who,
           row' = [row EXCEPT ![o] = [row[o] EXCEPT !.totp = f]],
           \A p \in Operators \ {o} : /\ spent'[p] = spent[p]
                                      /\ p \in proved => p \in proved'
                                      /\ p \in reused' => p \in reused,
           Mixing(r),
           row[o].totp = req[r].seen /\ FactorHolds(o) =>
               /\ \A c \in spent'[o] : c <= f.last
               /\ ~f.on => spent'[o] = {}
               /\ f.on => o \in proved' /\ f.secret # 0
               /\ o \notin reused'
    PROVE  /\ row' \in [Operators -> Row] /\ SameStatuses
           /\ \A p \in Operators : row[p].status = "none" => row'[p] = row[p]
           /\ FactorPart' /\ mixed' \subseteq Operators
  <1> DEFINE new == [row[o] EXCEPT !.totp = f]
  <1>1. row[o].status # "none"
    BY RequestIsRequest
  <1>2. new \in Row /\ new.status = row[o].status /\ new.totp = f
    BY RowIsRow DEF Row
  <1>3. row' = [row EXCEPT ![o] = new]
    OBVIOUS
  <1> HIDE DEF new
  <1>4. /\ row' \in [Operators -> Row] /\ SameStatuses /\ row'[o] = new
        /\ \A p \in Operators : p # o => row'[p] = row[p]
        /\ \A p \in Operators : row[p].status = "none" => row'[p] = row[p]
    BY <1>1, <1>2, <1>3, RowWritten
  <1>5. mixed' = IF row[o].totp = req[r].seen THEN mixed ELSE mixed \cup {o}
    BY DEF Mixing
  <1>6. ASSUME NEW p \in Operators \ mixed'
        PROVE  FactorHolds(p)'
    <2>1. p \notin mixed /\ FactorHolds(p)
      BY <1>5, <1>6, FactorPartIs DEF OpInv
    <2>2. CASE p = o
      <3>1. row[o].totp = req[r].seen
        BY <1>5, <1>6, <2>2
      <3> QED
        BY <1>2, <1>4, <2>1, <2>2, <3>1 DEF FactorHolds
    <2>3. CASE p # o
      BY <1>4, <2>1, <2>3 DEF FactorHolds
    <2> QED
      BY <2>2, <2>3
  <1>7. FactorPart'
    BY <1>6 DEF FactorPart, CodesInv, SecondFactorHolds, FactorHolds
  <1>8. mixed' \subseteq Operators
    BY <1>5 DEF OpInv, OpTypeOK
  <1> QED
    BY <1>4, <1>7, <1>8

\* A login's code.
LEMMA CodeKeeps ==
    ASSUME OpInv, NEW r \in Requests, CodeAccepted(r)
    PROVE  OpInv'
  <1> DEFINE o == req[r].who
             n == req[r].n
             f == [row[o].totp EXCEPT !.last = n]
  <1>1. /\ req[r].op = "code" /\ row' = [row EXCEPT ![o].totp.last = n]
        /\ Accept(o, n) /\ Mixing(r) /\ req' = [req EXCEPT ![r].op = "login"]
        /\ UNCHANGED <<signedIn, badges, now, secrets, starts, proved, overtaken>>
    BY DEF CodeAccepted
  <1>2. /\ req[r] \in Request /\ o \in Operators /\ FactorRead(req[r])
        /\ n \in 1..(MaxStep + 1)
    BY <1>1, RequestIsRequest DEF FactorRead
  <1>3. /\ f \in Factor /\ f.last = n /\ f.on = row[o].totp.on
        /\ f.secret = row[o].totp.secret
    BY <1>2, RowIsRow, OperatorsAssumption DEF Factor
  <1>4. row' = [row EXCEPT ![o] = [row[o] EXCEPT !.totp = f]]
    BY <1>1
  <1>5. OnlyAnswers /\ req' \in [Requests -> Request]
    <2>1. req' = [req EXCEPT ![r] = [req[r] EXCEPT !.op = "login"]]
      BY <1>1
    <2>2. [req[r] EXCEPT !.op = "login"] \in Request
      BY <1>2 DEF Request, Ops
    <2> QED
      BY <1>1, <2>1, <2>2 DEF OpInv, OpTypeOK, OnlyAnswers
  <1>6. /\ spent' = [spent EXCEPT ![o] = @ \cup {n}]
        /\ reused' = IF n \in spent[o] THEN reused \cup {o} ELSE reused
        /\ spent \in [Operators -> SUBSET (1..(MaxStep + 1))] /\ reused \subseteq Operators
    BY <1>1 DEF Accept, OpInv, OpTypeOK
  <1> HIDE DEF f, o, n
  <1>7. /\ spent'[o] = spent[o] \cup {n} /\ reused' \subseteq Operators
        /\ spent' \in [Operators -> SUBSET (1..(MaxStep + 1))]
        /\ \A p \in Operators \ {o} : spent'[p] = spent[p] /\ (p \in reused' => p \in reused)
    BY <1>2, <1>6
  <1>8. ASSUME row[o].totp = req[r].seen, FactorHolds(o)
        PROVE  /\ \A c \in spent'[o] : c <= f.last
               /\ f.on /\ o \in proved' /\ f.secret # 0
               /\ o \notin reused'
    <2>1. n > row[o].totp.last /\ row[o].totp.on
      BY <1>1, <1>2, <1>8 DEF FactorRead, n
    <2>2. \A c \in spent[o] : c <= row[o].totp.last /\ c \in Nat
      BY <1>2, <1>6, <1>8, OperatorsAssumption DEF FactorHolds
    <2>3. n \in Nat /\ row[o].totp.last \in Nat
      BY <1>2, RowIsRow, OperatorsAssumption
    <2>4. n \notin spent[o] /\ \A c \in spent[o] : c <= n
      BY <2>1, <2>2, <2>3
    <2> QED
      BY <1>1, <1>3, <1>6, <1>7, <1>8, <2>1, <2>3, <2>4 DEF FactorHolds
  <1>9. /\ row' \in [Operators -> Row] /\ SameStatuses /\ FactorPart'
        /\ \A p \in Operators : row[p].status = "none" => row'[p] = row[p]
        /\ mixed' \subseteq Operators
    BY <1>1, <1>2, <1>3, <1>4, <1>7, <1>8, FactorWritten DEF o
  <1>10. OpTypeOK'
    BY <1>1, <1>5, <1>7, <1>9 DEF OpInv, OpTypeOK, SameStatuses
  <1> QED
    BY <1>1, <1>5, <1>9, <1>10, StatusesStay

\* A confirmation's code: enforcement begins.
LEMMA ConfirmKeeps ==
    ASSUME OpInv, NEW r \in Requests, ConfirmWrites(r)
    PROVE  OpInv'
  <1> DEFINE o == req[r].who
             n == req[r].n
             f == [row[o].totp EXCEPT !.on = TRUE, !.last = n]
  <1>1. /\ req[r].op = "confirm" /\ row' = [row EXCEPT ![o].totp.on = TRUE, ![o].totp.last = n]
        /\ proved' = (IF row[o].totp.secret = req[r].seen.secret THEN proved \cup {o} ELSE proved)
        /\ Accept(o, n) /\ Mixing(r) /\ Commit(r, "confirm")
        /\ UNCHANGED <<signedIn, badges, secrets, overtaken>>
    BY DEF ConfirmWrites, Commit
  <1>2. /\ o \in Operators /\ FactorRead(req[r]) /\ n \in 1..(MaxStep + 1)
        /\ OnlyAnswers /\ req' \in [Requests -> Request] /\ UNCHANGED <<now, starts>>
    BY <1>1, RequestIsRequest, CommitAnswers DEF FactorRead, Ops
  <1>3. f \in Factor /\ f.last = n /\ f.on /\ f.secret = row[o].totp.secret
    <2>1. row[o].totp \in Factor /\ n \in 0..(MaxStep + 1)
      BY <1>2, RowIsRow, OperatorsAssumption
    <2> HIDE DEF n, o
    <2> QED
      BY <2>1 DEF Factor
  <1>4. row' = [row EXCEPT ![o] = [row[o] EXCEPT !.totp = f]]
    BY <1>1, <1>2, RowIsRow DEF Row, Factor
  <1>5. /\ spent' = [spent EXCEPT ![o] = @ \cup {n}]
        /\ reused' = IF n \in spent[o] THEN reused \cup {o} ELSE reused
        /\ spent \in [Operators -> SUBSET (1..(MaxStep + 1))] /\ reused \subseteq Operators
        /\ proved \subseteq Operators
    BY <1>1 DEF Accept, OpInv, OpTypeOK
  <1> HIDE DEF f, o, n
  <1>6. /\ spent'[o] = spent[o] \cup {n} /\ reused' \subseteq Operators
        /\ proved' \subseteq Operators
        /\ spent' \in [Operators -> SUBSET (1..(MaxStep + 1))]
        /\ \A p \in Operators \ {o} : /\ spent'[p] = spent[p]
                                      /\ p \in proved => p \in proved'
                                      /\ p \in reused' => p \in reused
    BY <1>1, <1>2, <1>5
  <1>7. ASSUME row[o].totp = req[r].seen, FactorHolds(o)
        PROVE  /\ \A c \in spent'[o] : c <= f.last
               /\ f.on /\ o \in proved' /\ f.secret # 0
               /\ o \notin reused'
    <2>1. ~row[o].totp.on /\ row[o].totp.secret # 0
      BY <1>1, <1>2, <1>7 DEF FactorRead
    <2>2. spent[o] = {} /\ o \notin reused
      BY <1>7, <2>1 DEF FactorHolds
    <2>3. n \in Nat
      BY <1>2, OperatorsAssumption
    <2> QED
      BY <1>1, <1>3, <1>5, <1>6, <1>7, <2>1, <2>2, <2>3
  <1>8. /\ row' \in [Operators -> Row] /\ SameStatuses /\ FactorPart'
        /\ \A p \in Operators : row[p].status = "none" => row'[p] = row[p]
        /\ mixed' \subseteq Operators
    BY <1>1, <1>2, <1>3, <1>4, <1>6, <1>7, FactorWritten DEF o
  <1>9. OpTypeOK'
    BY <1>1, <1>2, <1>6, <1>8 DEF OpInv, OpTypeOK, SameStatuses
  <1> QED
    BY <1>1, <1>2, <1>8, <1>9, StatusesStay

\* A fresh secret, not enforced, or the end of enforcement: no code is spent then.
LEMMA EnrollsKeep ==
    ASSUME OpInv, NEW r \in Requests, EnrollWrites(r) \/ DisableWrites(r)
    PROVE  OpInv'
  <1> DEFINE o == req[r].who
  <1>1. ASSUME NEW op \in {"enroll", "disable"}, Commit(r, op), NEW f \in Factor,
               row' = [row EXCEPT ![o] = [row[o] EXCEPT !.totp = f]],
               row[o].totp = req[r].seen => ~f.on,
               secrets' \in 0..MaxSecrets, Mixing(r),
               proved' = proved \ {o}, spent' = [spent EXCEPT ![o] = {}],
               UNCHANGED <<signedIn, badges, reused, overtaken>>
        PROVE  OpInv'
    <2>1. /\ o \in Operators /\ req[r].op # "idle"
          /\ OnlyAnswers /\ req' \in [Requests -> Request] /\ UNCHANGED <<now, starts>>
      BY <1>1, RequestIsRequest, CommitAnswers DEF Ops
    <2>2. /\ spent \in [Operators -> SUBSET (1..(MaxStep + 1))]
          /\ reused \subseteq Operators /\ proved \subseteq Operators
      BY DEF OpInv, OpTypeOK
    <2> HIDE DEF o
    <2>3. /\ spent'[o] = {} /\ proved' \subseteq Operators
          /\ spent' \in [Operators -> SUBSET (1..(MaxStep + 1))]
          /\ \A p \in Operators \ {o} : /\ spent'[p] = spent[p]
                                        /\ p \in proved => p \in proved'
                                        /\ p \in reused' => p \in reused
      BY <1>1, <2>1, <2>2
    <2>4. row[o].totp = req[r].seen /\ FactorHolds(o) => o \notin reused'
      BY <1>1 DEF FactorHolds
    <2>5. /\ row' \in [Operators -> Row] /\ SameStatuses /\ FactorPart'
          /\ \A p \in Operators : row[p].status = "none" => row'[p] = row[p]
          /\ mixed' \subseteq Operators
      BY <1>1, <2>1, <2>3, <2>4, FactorWritten DEF o
    <2>6. OpTypeOK'
      BY <1>1, <2>1, <2>2, <2>3, <2>5 DEF OpInv, OpTypeOK, SameStatuses
    <2> QED
      BY <1>1, <2>1, <2>5, <2>6, StatusesStay
  <1>2. CASE EnrollWrites(r)
    <2> DEFINE f == [row[o].totp EXCEPT !.secret = secrets + 1]
    <2>1. /\ Commit(r, "enroll") /\ secrets < MaxSecrets /\ secrets' = secrets + 1
          /\ row' = [row EXCEPT ![o].totp.secret = secrets + 1] /\ Mixing(r)
          /\ proved' = proved \ {o} /\ spent' = [spent EXCEPT ![o] = {}]
          /\ UNCHANGED <<signedIn, badges, reused, overtaken>>
      BY <1>2 DEF EnrollWrites
    <2>2. req[r].op = "enroll" /\ o \in Operators /\ ~req[r].seen.on
      BY <2>1, RequestIsRequest DEF Commit, FactorRead
    <2>3. secrets' \in 0..MaxSecrets
      BY <2>1, OperatorsAssumption DEF OpInv, OpTypeOK
    <2>4. f \in Factor /\ f.on = row[o].totp.on
      BY <2>1, <2>2, <2>3, RowIsRow DEF Factor
    <2>5. row' = [row EXCEPT ![o] = [row[o] EXCEPT !.totp = f]]
      BY <2>1
    <2>6. row[o].totp = req[r].seen => ~f.on
      BY <2>2, <2>4
    <2> HIDE DEF f, o
    <2> QED
      BY <1>1, <2>1, <2>3, <2>4, <2>5, <2>6
  <1>3. CASE DisableWrites(r)
    <2> DEFINE f == [row[o].totp EXCEPT !.on = FALSE, !.secret = 0]
    <2>1. /\ Commit(r, "disable")
          /\ row' = [row EXCEPT ![o].totp.on = FALSE, ![o].totp.secret = 0] /\ Mixing(r)
          /\ proved' = proved \ {o} /\ spent' = [spent EXCEPT ![o] = {}]
          /\ UNCHANGED <<signedIn, badges, secrets, reused, overtaken>>
      BY <1>3 DEF DisableWrites
    <2>2. req[r].op = "disable" /\ o \in Operators
      BY <2>1, RequestIsRequest DEF Commit
    <2>3. secrets' \in 0..MaxSecrets
      BY <2>1 DEF OpInv, OpTypeOK
    <2>4. f \in Factor /\ ~f.on
      <3>1. row[o].totp \in Factor /\ 0 \in 0..MaxSecrets
        BY <2>2, RowIsRow, OperatorsAssumption
      <3> HIDE DEF o
      <3> QED
        BY <3>1 DEF Factor
    <2>5. row' = [row EXCEPT ![o] = [row[o] EXCEPT !.totp = f]]
      BY <2>1, <2>2, RowIsRow DEF Row, Factor
    <2> HIDE DEF f, o
    <2> QED
      BY <1>1, <2>1, <2>3, <2>4, <2>5
  <1> QED
    BY <1>2, <1>3

-----------------------------------------------------------------------------
(* Operators come and go.                                                  *)

\* Both removals: the row is written, the sessions go, and what was decided before
\* is overtaken.
LEMMA RemovedLeavesSomebody ==
    ASSUME OpInv, NEW r \in Requests, req[r].op \in {"suspend", "delete"},
           NEW o \in Operators, o = req[r].who,
           \A p \in Operators \ {o} : row'[p] = row[p], row'[o].status # "active",
           Overtakes(r, Requests \ {r}),
           \A q \in Requests \ {r} : req'[q] = req[q] \/ req'[q] = Idle,
           req'[r] = Idle
    PROVE  RemovalsInv' /\ OperatorRemains' /\ overtaken' \in BOOLEAN
  <1>1. overtaken' = (overtaken \/ \E q \in Requests \ {r} : req[q].op \in {"suspend", "delete"})
    BY DEF Overtakes
  <1>2. RemovalsInv'
    BY <1>1, IdleIsRequest DEF RemovalsInv
  <1>3. ASSUME ~overtaken'
        PROVE  Active' # {}
    <2>1. Active' = Active \ {o}
      BY DEF Active
    <2>2. CASE row[o].status = "active"
      BY <1>1, <1>3, <2>1, <2>2 DEF OpInv, RemovalsInv, Remaining
    <2>3. CASE row[o].status # "active"
      BY <1>1, <1>3, <2>1, <2>3 DEF OpInv, OperatorRemains, Active
    <2> QED
      BY <2>2, <2>3
  <1>4. overtaken' \in BOOLEAN
    BY <1>1 DEF OpInv, OpTypeOK
  <1> QED
    BY <1>2, <1>3, <1>4 DEF OperatorRemains

LEMMA SuspendKeeps ==
    ASSUME OpInv, NEW r \in Requests, SuspendWrites(r)
    PROVE  OpInv'
  <1> DEFINE o == req[r].who
             new == [row[o] EXCEPT !.status = "suspended"]
  <1>1. /\ Commit(r, "suspend") /\ row' = [row EXCEPT ![o].status = "suspended"]
        /\ signedIn' = signedIn \ {o} /\ Overtakes(r, Requests \ {r})
        /\ UNCHANGED <<badges, secrets, proved, spent, reused, mixed>>
    BY DEF SuspendWrites, SessionsGo
  <1>2. /\ req[r].op = "suspend" /\ o \in Operators /\ row[o].status # "none"
        /\ req' \in [Requests -> Request] /\ UNCHANGED <<now, starts>>
        /\ req' = [req EXCEPT ![r] = Idle]
    BY <1>1, CommitAnswers DEF Ops, Commit
  <1>3. new \in Row /\ new.status = "suspended" /\ new.totp = row[o].totp
    BY <1>2, RowIsRow DEF Row
  <1>4. row' = [row EXCEPT ![o] = new]
    BY <1>1
  <1> HIDE DEF new
  <1>5. /\ row' \in [Operators -> Row] /\ row'[o] = new
        /\ \A p \in Operators \ {o} : row'[p] = row[p]
    BY <1>2, <1>3, <1>4 DEF OpInv, OpTypeOK
  <1>6. \A q \in Requests : req'[q] = IF q = r THEN Idle ELSE req[q]
    BY <1>2 DEF OpInv, OpTypeOK
  <1>7. RemovalsInv' /\ OperatorRemains' /\ overtaken' \in BOOLEAN
    BY <1>1, <1>2, <1>3, <1>5, <1>6, RemovedLeavesSomebody
  <1>8. RequestsInv'
    <2> SUFFICES ASSUME NEW q \in Requests
                 PROVE  /\ FactorRead(req[q])'
                        /\ req'[q].op # "idle" => /\ req'[q].who \in Operators
                                                  /\ row'[req'[q].who].status # "none"
      BY DEF RequestsInv
    <2>1. CASE q = r
      BY <1>6, <2>1, IdleIsRequest DEF FactorRead
    <2>2. CASE q # r
      BY <1>3, <1>5, <1>6, <2>2 DEF OpInv, RequestsInv, FactorRead
    <2> QED
      BY <2>1, <2>2
  <1>9. FactorPart' /\ NoneInv'
    BY <1>1, <1>3, <1>5, FactorsStay DEF OpInv, SameFactors, NoneInv
  <1>10. OpTypeOK'
    BY <1>1, <1>2, <1>3, <1>5, <1>7 DEF OpInv, OpTypeOK
  <1> QED
    BY <1>7, <1>8, <1>9, <1>10 DEF OpInv

LEMMA DeleteKeeps ==
    ASSUME OpInv, NEW r \in Requests, DeleteWrites(r)
    PROVE  OpInv'
  <1> DEFINE o == req[r].who
  <1>1. /\ req[r].op = "delete" /\ row' = [row EXCEPT ![o] = NoRow]
        /\ signedIn' = signedIn \ {o} /\ Overtakes(r, Requests \ {r})
        /\ req' = [q \in Requests |-> IF req[q].who = o THEN Idle ELSE req[q]]
        /\ proved' = proved \ {o} /\ spent' = [spent EXCEPT ![o] = {}]
        /\ reused' = reused \ {o} /\ mixed' = mixed \ {o}
        /\ UNCHANGED <<badges, now, secrets, starts>>
    BY DEF DeleteWrites, SessionsGo
  <1>2. o \in Operators /\ row[o].status # "none"
    BY <1>1, RequestIsRequest
  <1>3. /\ row' \in [Operators -> Row] /\ row'[o] = NoRow
        /\ \A p \in Operators \ {o} : row'[p] = row[p]
    BY <1>1, <1>2, NoRowIsRow DEF OpInv, OpTypeOK
  <1>4. /\ req' \in [Requests -> Request] /\ req'[r] = Idle
        /\ \A q \in Requests : req'[q] = IF req[q].who = o THEN Idle ELSE req[q]
    BY <1>1, IdleIsRequest DEF OpInv, OpTypeOK
  <1> HIDE DEF o
  <1>5. RemovalsInv' /\ OperatorRemains' /\ overtaken' \in BOOLEAN
    BY <1>1, <1>2, <1>3, <1>4, NoRowIsRow, RemovedLeavesSomebody DEF o
  <1>6. RequestsInv'
    <2> SUFFICES ASSUME NEW q \in Requests
                 PROVE  /\ FactorRead(req[q])'
                        /\ req'[q].op # "idle" => /\ req'[q].who \in Operators
                                                  /\ row'[req'[q].who].status # "none"
      BY DEF RequestsInv
    <2>1. CASE req[q].who = o
      BY <1>4, <2>1, IdleIsRequest DEF FactorRead
    <2>2. CASE req[q].who # o
      BY <1>3, <1>4, <2>2 DEF OpInv, RequestsInv, FactorRead
    <2> QED
      BY <2>1, <2>2
  <1>7. /\ spent' \in [Operators -> SUBSET (1..(MaxStep + 1))] /\ spent'[o] = {}
        /\ \A p \in Operators \ {o} : spent'[p] = spent[p]
    BY <1>1, <1>2 DEF OpInv, OpTypeOK
  <1>8. FactorPart'
    <2>1. ASSUME NEW p \in Operators \ mixed'
          PROVE  FactorHolds(p)'
      <3>1. CASE p = o
        BY <1>1, <1>3, <1>7, <3>1, NoRowIsRow DEF FactorHolds
      <3>2. CASE p # o
        <4>1. FactorHolds(p)
          BY <1>1, <2>1, <3>2, FactorPartIs DEF OpInv
        <4> QED
          BY <1>1, <1>3, <1>7, <3>2, <4>1 DEF FactorHolds
      <3> QED
        BY <3>1, <3>2
    <2> QED
      BY <2>1 DEF FactorPart, CodesInv, SecondFactorHolds, FactorHolds
  <1>9. NoneInv'
    BY <1>3 DEF OpInv, NoneInv
  <1>10. OpTypeOK'
    BY <1>1, <1>3, <1>4, <1>5, <1>7 DEF OpInv, OpTypeOK
  <1> QED
    BY <1>5, <1>6, <1>8, <1>9, <1>10 DEF OpInv

\* One more active operator, whose row holds the factor it held.
LEMMA AdmittedKeeps ==
    ASSUME OpInv, NEW by, NEW o \in Operators, Create(by, o) \/ Restore(by, o)
    PROVE  OpInv'
  <1> DEFINE new == IF row[o].status = "none" THEN NewRow
                    ELSE [row[o] EXCEPT !.status = "active"]
  <1>1. /\ row' = [row EXCEPT ![o] = new]
        /\ UNCHANGED <<signedIn, badges, now, secrets, req, starts,
                       proved, spent, reused, mixed, overtaken>>
    BY DEF Create, Restore, history
  <1>2. new \in Row /\ new.status = "active" /\ new.totp = row[o].totp
    BY RowIsRow, NoRowIsRow DEF Row, OpInv, NoneInv
  <1>3. \A q \in Requests : req[q].op \in {"suspend", "delete"} => req[q].who # o
    BY DEF Create, Restore, OpInv, RequestsInv
  <1> HIDE DEF new
  <1>4. /\ row' \in [Operators -> Row] /\ row'[o] = new
        /\ \A p \in Operators \ {o} : row'[p] = row[p]
    BY <1>1, <1>2 DEF OpInv, OpTypeOK
  <1>5. Active' = Active \cup {o}
    BY <1>2, <1>4 DEF Active
  <1>6. RequestsInv'
    BY <1>1, <1>2, <1>4 DEF OpInv, RequestsInv, FactorRead
  <1>7. RemovalsInv'
    BY <1>1, <1>3, <1>4, <1>5 DEF OpInv, RemovalsInv, RequestsInv, Remaining
  <1>8. FactorPart' /\ NoneInv' /\ OperatorRemains'
    BY <1>1, <1>2, <1>4, <1>5, FactorsStay DEF OpInv, SameFactors, NoneInv, OperatorRemains
  <1>9. OpTypeOK'
    BY <1>1, <1>2, <1>4 DEF OpInv, OpTypeOK
  <1> QED
    BY <1>6, <1>7, <1>8, <1>9 DEF OpInv

-----------------------------------------------------------------------------
LEMMA OpInitInv == OpInit => OpInv
  <1> SUFFICES ASSUME OpInit PROVE OpInv
    OBVIOUS
  <1>1. PICK first \in Operators :
           row = [[o \in Operators |-> NoRow] EXCEPT ![first] = NewRow]
    BY DEF OpInit
  <1>2. /\ row \in [Operators -> Row] /\ row[first] = NewRow
        /\ \A o \in Operators \ {first} : row[o] = NoRow
    BY <1>1, NoRowIsRow
  <1>3. /\ signedIn = {} /\ badges = {} /\ now = 1 /\ secrets = 0 /\ starts = 0
        /\ req = [r \in Requests |-> Idle] /\ proved = {}
        /\ spent = [o \in Operators |-> {}] /\ reused = {} /\ mixed = {} /\ overtaken = FALSE
    BY DEF OpInit
  <1>4. req \in [Requests -> Request] /\ now \in 1..MaxStep /\ secrets \in 0..MaxSecrets
    BY <1>3, IdleIsRequest, OperatorsAssumption
  <1>5. OpTypeOK
    BY <1>2, <1>3, <1>4 DEF OpTypeOK
  <1>6. RequestsInv /\ RemovalsInv
    BY <1>3, IdleIsRequest DEF RequestsInv, RemovalsInv
  <1>7. FactorPart /\ NoneInv
    BY <1>2, <1>3, NoRowIsRow DEF FactorPart, CodesInv, SecondFactorHolds, NoneInv
  <1>8. OperatorRemains
    BY <1>2, NoRowIsRow DEF OperatorRemains, Active
  <1> QED
    BY <1>5, <1>6, <1>7, <1>8 DEF OpInv

LEMMA OpStepInv == OpInv /\ [OpNext]_opVars => OpInv'
  <1> SUFFICES ASSUME OpInv, [OpNext]_opVars PROVE OpInv'
    OBVIOUS
  <1>1. CASE \E r \in Requests : RequestStarts(r)
    BY <1>1, StartsKeep
  <1>2. CASE \E r \in Requests : RequestCommits(r)
    BY <1>2, CodeKeeps, LoginsKeep, EnrollsKeep, ConfirmKeeps, SuspendKeeps, DeleteKeeps
       DEF RequestCommits
  <1>3. CASE \/ \E o \in Operators : LockEnds(o) \/ Unlock(o) \/ SessionsEnd(o) \/ BadgeExpires(o)
             \/ Tick
    BY <1>3, UnaskedKeep
  <1>4. CASE \E by \in Operators \cup {Nobody}, o \in Operators : Create(by, o) \/ Restore(by, o)
    BY <1>4, AdmittedKeeps
  <1>5. CASE UNCHANGED opVars
    <2>1. OpTypeOK' /\ SameStatuses /\ SameFactors /\ OnlyAnswers
      BY <1>5 DEF OpInv, OpTypeOK, opVars, history, SameStatuses, SameFactors, OnlyAnswers
    <2> QED
      BY <1>5, <2>1, FactorsStay, StatusesStay DEF opVars, history, OpInv
  <1> QED
    BY <1>1, <1>2, <1>3, <1>4, <1>5 DEF OpNext

THEOREM OpInvariance == OpSpec => []OpInv
  BY OpInitInv, OpStepInv, PTL DEF OpSpec

\* admin_operators.delete: the sessions of an operator go with the row, and every code
\* lies within a step of the clock.
THEOREM OperatorsAreTyped == OpSpec => []OpTypeOK
  <1>1. OpInv => OpTypeOK
    BY DEF OpInv
  <1> QED
    BY <1>1, OpInvariance, PTL

\* admin_operators.set_operator_status and delete_operator: the platform is never left
\* without an active operator, but by two removals decided at once.
THEOREM SomeOperatorRemains == OpSpec => []OperatorRemains
  <1>1. OpInv => OperatorRemains
    BY DEF OpInv
  <1> QED
    BY <1>1, OpInvariance, PTL

\* admin_auth.login and totp_confirm: an enforced secret has proved itself, and no
\* code is accepted twice, unless the factor was written from an outdated row.
THEOREM SecondFactorIsSound == OpSpec => []SecondFactorHolds
  <1>1. OpInv => SecondFactorHolds
    BY DEF OpInv, FactorPart
  <1> QED
    BY <1>1, OpInvariance, PTL

-----------------------------------------------------------------------------
(* The people of a store.                                                  *)

Person == [status: {"none", "pending", "active", "suspended"}, role: Roles, email: Addresses]
Token == [who: Members, role: Roles, email: Addresses]

TeamTyped ==
    /\ member \in [Members -> Person]
    /\ tokens \subseteq Token
    /\ excused \in BOOLEAN

TeamInv == TeamTyped /\ OwnerRemains

LEMMA TeamInitInv == TeamInit => TeamInv
  <1> SUFFICES ASSUME TeamInit PROVE TeamInv
    OBVIOUS
  <1>1. NoMember \in Person
    BY TeamAssumption DEF NoMember, Person, Roles
  <1>2. [status |-> "active", role |-> "owner", email |-> FirstAddress] \in Person
    BY TeamAssumption DEF Person, Roles
  <1>3. TeamTyped
    BY <1>1, <1>2 DEF TeamInit, TeamTyped
  <1>4. OwnerRemains
    BY TeamAssumption DEF TeamInit, OwnerRemains
  <1> QED
    BY <1>3, <1>4 DEF TeamInv

\* A colleague's row is written by the holder of a token: if the token is up to date
\* its holder is an active owner, and another member.
LEMMA HolderRemains ==
    ASSUME TeamInv, NEW t \in tokens, NEW m \in Members, ByOwner(t), Colleague(t, m),
           NEW new \in Person, member' = [member EXCEPT ![m] = new], Outdated(t)
    PROVE  OwnerRemains' /\ excused' \in BOOLEAN
  <1>1. t \in Token /\ t.who \in Members /\ t.role = "owner"
    BY DEF TeamInv, TeamTyped, Token, ByOwner
  <1>2. CASE UpToDate(t)
    <2>1. /\ member[t.who].status = "active" /\ member[t.who].role = "owner"
          /\ member[t.who].email = t.email
      BY <1>1, <1>2 DEF UpToDate
    <2>2. t.who # m
      BY <2>1 DEF Colleague
    <2>3. member'[t.who] = member[t.who]
      BY <1>1, <2>2 DEF TeamInv, TeamTyped
    <2>4. OwnerRemains'
      BY <1>1, <2>1, <2>3 DEF OwnerRemains
    <2> QED
      BY <2>4 DEF Outdated, TeamInv, TeamTyped
  <1>3. CASE ~UpToDate(t)
    BY <1>3 DEF Outdated, OwnerRemains
  <1> QED
    BY <1>2, <1>3

LEMMA TeamStepInv == TeamInv /\ [TeamNext]_teamVars => TeamInv'
  <1> SUFFICES ASSUME TeamInv, [TeamNext]_teamVars PROVE TeamInv'
    OBVIOUS
  <1>1. /\ member \in [Members -> Person] /\ tokens \subseteq Token /\ excused \in BOOLEAN
        /\ \A m \in Members : /\ member[m] \in Person /\ member[m].role \in Roles
                              /\ member[m].email \in Addresses
    BY DEF TeamInv, TeamTyped, Person
  <1>2. NoMember \in Person /\ NoMember.status = "none"
    BY TeamAssumption DEF NoMember, Person, Roles
  <1>3. ASSUME NEW m \in Members, LogsIn(m)
        PROVE  TeamInv'
    <2>1. [who |-> m, role |-> member[m].role, email |-> member[m].email] \in Token
      BY <1>1 DEF Token
    <2> QED
      BY <1>1, <1>3, <2>1 DEF LogsIn, TeamInv, TeamTyped, OwnerRemains
  <1>4. ASSUME NEW t \in tokens, TokenExpires(t)
        PROVE  TeamInv'
    BY <1>4 DEF TokenExpires, TeamInv, TeamTyped, OwnerRemains
  <1>5. ASSUME NEW t \in tokens, NEW m \in Members, NEW address \in Addresses,
               Invite(t, m, address)
        PROVE  TeamInv'
    <2> DEFINE new == [status |-> "pending", role |-> "staff", email |-> address]
    <2>1. new \in Person
      BY DEF Person, Roles
    <2>2. /\ member' = [member EXCEPT ![m] = new] /\ member[m].status = "none"
          /\ UNCHANGED <<tokens, excused>>
      BY <1>5 DEF Invite
    <2> HIDE DEF new
    <2>3. TeamTyped'
      BY <1>1, <2>1, <2>2 DEF TeamTyped
    <2>4. \A p \in Members : member[p].status = "active" => member'[p] = member[p]
      BY <1>1, <2>2
    <2> QED
      BY <2>2, <2>3, <2>4 DEF TeamInv, OwnerRemains
  <1>6. ASSUME NEW t \in tokens, NEW m \in Members, NEW role \in Roles, TeamRole(t, m, role)
        PROVE  TeamInv'
    <2> DEFINE new == [member[m] EXCEPT !.role = role]
    <2>1. new \in Person /\ member' = [member EXCEPT ![m] = new]
      BY <1>1, <1>6 DEF TeamRole, Person
    <2> HIDE DEF new
    <2>2. OwnerRemains' /\ excused' \in BOOLEAN
      BY <1>6, <2>1, HolderRemains DEF TeamRole
    <2>3. TeamTyped'
      BY <1>1, <1>6, <2>1, <2>2 DEF TeamRole, TeamTyped
    <2> QED
      BY <2>2, <2>3 DEF TeamInv
  <1>7. ASSUME NEW t \in tokens, NEW m \in Members, TeamRemove(t, m)
        PROVE  TeamInv'
    <2>1. OwnerRemains' /\ excused' \in BOOLEAN
      BY <1>2, <1>7, HolderRemains DEF TeamRemove
    <2>2. TeamTyped'
      BY <1>1, <1>2, <1>7, <2>1 DEF TeamRemove, TeamTyped
    <2> QED
      BY <2>1, <2>2 DEF TeamInv
  <1>8. ASSUME NEW t \in tokens, NEW address \in Addresses, ChangeEmail(t, address)
        PROVE  TeamInv'
    <2> DEFINE new == [member[t.who] EXCEPT !.email = address]
    <2>1. t.who \in Members
      BY <1>1 DEF Token
    <2>2. /\ new \in Person /\ new.status = member[t.who].status
          /\ new.role = member[t.who].role /\ member' = [member EXCEPT ![t.who] = new]
          /\ UNCHANGED <<tokens, excused>>
      BY <1>1, <1>8, <2>1 DEF ChangeEmail, Person
    <2> HIDE DEF new
    <2>3. TeamTyped'
      BY <1>1, <2>1, <2>2 DEF TeamTyped
    <2>4. \A p \in Members : member'[p].status = member[p].status /\ member'[p].role = member[p].role
      BY <1>1, <2>1, <2>2
    <2> QED
      BY <2>2, <2>3, <2>4 DEF TeamInv, OwnerRemains
  <1>9. ASSUME NEW m \in Members, NEW role \in Roles, OperatorRole(m, role)
        PROVE  TeamInv'
    <2> DEFINE new == [member[m] EXCEPT !.role = role]
    <2>1. /\ new \in Person /\ new.status = member[m].status /\ new.role = role
          /\ member' = [member EXCEPT ![m] = new] /\ UNCHANGED tokens
          /\ excused' = (excused \/ role # "owner")
      BY <1>1, <1>9 DEF OperatorRole, Person
    <2> HIDE DEF new
    <2>2. TeamTyped'
      BY <1>1, <2>1 DEF TeamTyped
    <2>3. \A p \in Members : \/ member'[p] = member[p]
                             \/ /\ member'[p].status = member[p].status
                                /\ member'[p].role = role
      BY <1>1, <2>1
    <2>4. OwnerRemains'
      BY <2>1, <2>3 DEF TeamInv, OwnerRemains
    <2> QED
      BY <2>2, <2>4 DEF TeamInv
  <1>10. ASSUME NEW m \in Members, NEW status \in {"active", "suspended"},
                OperatorStatus(m, status)
         PROVE  TeamInv'
    <2> DEFINE new == [member[m] EXCEPT !.status = status]
    <2>1. /\ new \in Person /\ new.status = status /\ new.role = member[m].role
          /\ member' = [member EXCEPT ![m] = new] /\ UNCHANGED tokens
          /\ excused' = (excused \/ status # "active")
      BY <1>1, <1>10 DEF OperatorStatus, Person
    <2> HIDE DEF new
    <2>2. TeamTyped'
      BY <1>1, <2>1 DEF TeamTyped
    <2>3. \A p \in Members : \/ member'[p] = member[p]
                             \/ /\ member'[p].role = member[p].role
                                /\ member'[p].status = status
      BY <1>1, <2>1
    <2>4. OwnerRemains'
      BY <2>1, <2>3 DEF TeamInv, OwnerRemains
    <2> QED
      BY <2>2, <2>4 DEF TeamInv
  <1>11. CASE UNCHANGED teamVars
    BY <1>11 DEF teamVars, TeamInv, TeamTyped, OwnerRemains
  <1> QED
    BY <1>3, <1>4, <1>5, <1>6, <1>7, <1>8, <1>9, <1>10, <1>11 DEF TeamNext, OwnerActs

\* team.set_role and remove compare the address typed with the token's: a store keeps
\* an active owner, but by a token that is out of date or by an operator.
THEOREM StoresKeepAnOwner == TeamSpec => []OwnerRemains
  <1>1. TeamInv => OwnerRemains
    BY DEF TeamInv
  <1> QED
    BY <1>1, TeamInitInv, TeamStepInv, PTL DEF TeamSpec

=============================================================================
