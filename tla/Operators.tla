----------------------------- MODULE Operators ------------------------------
(***************************************************************************)
(* The platform's operators: admin_users rows, whether each has a live     *)
(* session (rotation is in Accounts), the access tokens they hold, the     *)
(* second factor, and the pages by which they admit and remove each other. *)
(* Codes are named by the 30-second step they belong to; a code is valid   *)
(* one step early or late. Passwords are left out: whoever types the right *)
(* one takes the accepting action, whoever does not the failing one.       *)
(***************************************************************************)
EXTENDS Integers

CONSTANTS
    Operators,   \* ids of admin_users rows
    Nobody,      \* no principal: automation with the raw operator token
    Requests,    \* concurrent requests
    MaxAttempts, \* settings.login_max_attempts
    MaxStep,     \* bound: 30-second steps
    MaxSecrets,  \* bound: secrets generated
    MaxStarts    \* bound: requests started

ASSUME OperatorsAssumption ==
    /\ Nobody \notin Operators
    /\ MaxAttempts \in Nat \ {0}
    /\ MaxStep \in Nat \ {0} /\ MaxSecrets \in Nat /\ MaxStarts \in Nat

VARIABLES
    row,       \* admin_users
    signedIn,  \* operators with a session that is not revoked
    badges,    \* operators with an unexpired access token
    now,       \* the current TOTP step
    secrets,   \* secrets generated so far
    req,       \* what each request has read and is about to write
    starts,    \* requests started
    proved,    \* history: operators whose stored secret has produced a code
    spent,     \* history: codes of the stored secret that were accepted
    reused,    \* history: operators one of whose codes was accepted again
    mixed,     \* history: operators with a second-factor write from an outdated row
    overtaken  \* history: a removal was decided before another one committed

history == <<proved, spent, reused, mixed, overtaken>>
opVars == <<row, signedIn, badges, now, secrets, req, starts, history>>

Factor == [secret: 0..MaxSecrets, on: BOOLEAN, last: 0..(MaxStep + 1)]
Row == [status: {"none", "active", "suspended"}, failed: Nat,
        lock: {"none", "running", "over"}, totp: Factor]
Ops == {"idle", "code", "login", "wrong", "refresh", "enroll", "confirm", "disable",
        "suspend", "delete"}

\* seen: the second factor as read.
Request == [op: Ops, who: Operators \cup {Nobody}, n: Nat, seen: Factor]

NoFactor == [secret |-> 0, on |-> FALSE, last |-> 0]
NewRow == [status |-> "active", failed |-> 0, lock |-> "none", totp |-> NoFactor]
NoRow == [NewRow EXCEPT !.status = "none"]
Idle == [op |-> "idle", who |-> Nobody, n |-> 0, seen |-> NoFactor]

Active == {o \in Operators : row[o].status = "active"}

\* verify_totp_step: one step of clock skew either way.
CodesNow == {s \in {now - 1, now, now + 1} : s > 0}

Start(r, op, o, n) ==
    /\ req[r].op = "idle"
    /\ starts < MaxStarts
    /\ starts' = starts + 1
    /\ req' = [req EXCEPT ![r] = [op |-> op, who |-> o, n |-> n, seen |-> row[o].totp]]
    /\ UNCHANGED <<row, signedIn, badges, now, secrets, history>>

Commit(r, op) ==
    /\ req[r].op = op
    /\ req' = [req EXCEPT ![r] = Idle]
    /\ UNCHANGED <<now, starts>>

\* A write of the second factor from a row that has changed since it was read.
Mixing(r) == mixed' = IF row[req[r].who].totp = req[r].seen THEN mixed
                      ELSE mixed \cup {req[r].who}

\* A code counts as accepted for the secret that is stored when its step is.
Accept(o, step) ==
    /\ spent' = [spent EXCEPT ![o] = @ \cup {step}]
    /\ reused' = IF step \in spent[o] THEN reused \cup {o} ELSE reused

SignIn(r) ==
    /\ signedIn' = signedIn \cup {req[r].who}
    /\ badges' = badges \cup {req[r].who}

-----------------------------------------------------------------------------
(* Signing in.                                                             *)

MayLogIn(o) == row[o].status = "active" /\ row[o].lock # "running"

\* Mutant of Later: a code may be the last one again.
NotEarlier(o, step) == step >= row[o].totp.last

Later(o, step) == step > row[o].totp.last

\* The right password, and with the second factor on a code later than the last. A
\* secret that is gone has codes as well: str() makes "None" of it, which decodes.
LoginReads(r, o) ==
    /\ MayLogIn(o)
    /\ \/ ~row[o].totp.on /\ Start(r, "login", o, 0)
       \/ /\ row[o].totp.on
          /\ \E step \in CodesNow : Later(o, step) /\ Start(r, "code", o, step)

\* totp_last_step is written, on its own.
CodeAccepted(r) ==
    LET o == req[r].who IN
    /\ req[r].op = "code"
    /\ row' = [row EXCEPT ![o].totp.last = req[r].n]
    /\ Accept(o, req[r].n)
    /\ Mixing(r)
    /\ req' = [req EXCEPT ![r].op = "login"]
    /\ UNCHANGED <<signedIn, badges, now, secrets, starts, proved, overtaken>>

LoginSucceeds(r) ==
    /\ Commit(r, "login")
    /\ row' = [row EXCEPT ![req[r].who].failed = 0, ![req[r].who].lock = "none"]
    /\ SignIn(r)
    /\ UNCHANGED <<secrets, proved, spent, reused, mixed, overtaken>>

\* A wrong password, a wrong code or one at or before the last accepted step.
LoginReadsWrong(r, o) == MayLogIn(o) /\ Start(r, "wrong", o, row[o].failed)

LoginFails(r) ==
    LET attempts == req[r].n + 1 IN
    /\ Commit(r, "wrong")
    /\ row' = [row EXCEPT ![req[r].who].failed = attempts,
                          ![req[r].who].lock = IF attempts >= MaxAttempts THEN "running" ELSE "none"]
    /\ UNCHANGED <<signedIn, badges, secrets, history>>

LockEnds(o) ==
    /\ row[o].lock = "running"
    /\ row' = [row EXCEPT ![o].lock = "over"]
    /\ UNCHANGED <<signedIn, badges, now, secrets, req, starts, history>>

\* POST /admin/security/unlock on the operators' plane.
Unlock(o) ==
    /\ row[o].status # "none"
    /\ row' = [row EXCEPT ![o].failed = 0, ![o].lock = "none"]
    /\ UNCHANGED <<signedIn, badges, now, secrets, req, starts, history>>

RefreshReads(r, o) ==
    /\ o \in signedIn /\ row[o].status = "active"
    /\ Start(r, "refresh", o, 0)

RefreshRotates(r) ==
    /\ Commit(r, "refresh")
    /\ SignIn(r)
    /\ UNCHANGED <<row, secrets, proved, spent, reused, mixed, overtaken>>

\* logout of the last session, or a rotated token that came back and ended them all.
SessionsEnd(o) ==
    /\ signedIn' = signedIn \ {o}
    /\ o \in signedIn
    /\ UNCHANGED <<row, badges, now, secrets, req, starts, proved, spent, reused, mixed, overtaken>>

BadgeExpires(o) ==
    /\ o \in badges
    /\ badges' = badges \ {o}
    /\ UNCHANGED <<row, signedIn, now, secrets, req, starts, history>>

Tick ==
    /\ now < MaxStep
    /\ now' = now + 1
    /\ UNCHANGED <<row, signedIn, badges, secrets, req, starts, history>>

-----------------------------------------------------------------------------
(* The second factor of a signed-in operator; each handler checks the      *)
(* password and the row it read, and writes without reading again.         *)

EnrollReads(r, o) ==
    /\ o \in badges /\ row[o].status # "none"
    /\ ~row[o].totp.on
    /\ Start(r, "enroll", o, 0)

\* A fresh secret replaces whatever is stored.
EnrollWrites(r) ==
    LET o == req[r].who IN
    /\ Commit(r, "enroll")
    /\ secrets < MaxSecrets
    /\ secrets' = secrets + 1
    /\ row' = [row EXCEPT ![o].totp.secret = secrets + 1]
    /\ proved' = proved \ {o}
    /\ spent' = [spent EXCEPT ![o] = {}]
    /\ Mixing(r)
    /\ UNCHANGED <<signedIn, badges, reused, overtaken>>

ConfirmReads(r, o) ==
    /\ o \in badges /\ row[o].status # "none"
    /\ row[o].totp.secret # 0 /\ ~row[o].totp.on
    /\ \E step \in CodesNow : Start(r, "confirm", o, step)

\* Enforcement begins; the code was one of the secret that was read.
ConfirmWrites(r) ==
    LET o == req[r].who IN
    /\ Commit(r, "confirm")
    /\ row' = [row EXCEPT ![o].totp.on = TRUE, ![o].totp.last = req[r].n]
    /\ proved' = IF row[o].totp.secret = req[r].seen.secret THEN proved \cup {o} ELSE proved
    /\ Accept(o, req[r].n)
    /\ Mixing(r)
    /\ UNCHANGED <<signedIn, badges, secrets, overtaken>>

\* Any code of this moment will do, also one a login has used.
DisableReads(r, o) ==
    /\ o \in badges /\ row[o].status # "none"
    /\ row[o].totp.on
    /\ Start(r, "disable", o, 0)

DisableWrites(r) ==
    LET o == req[r].who IN
    /\ Commit(r, "disable")
    /\ row' = [row EXCEPT ![o].totp.on = FALSE, ![o].totp.secret = 0]
    /\ proved' = proved \ {o}
    /\ spent' = [spent EXCEPT ![o] = {}]
    /\ Mixing(r)
    /\ UNCHANGED <<signedIn, badges, secrets, reused, overtaken>>

-----------------------------------------------------------------------------
(* Operators admit, suspend, restore and remove operators.                 *)

\* A new row, by bootstrap or by a colleague.
Create(by, o) ==
    /\ by \in badges \cup {Nobody}
    /\ row[o].status = "none"
    /\ row' = [row EXCEPT ![o] = NewRow]
    /\ UNCHANGED <<signedIn, badges, now, secrets, req, starts, history>>

Restore(by, o) ==
    /\ by \in badges \cup {Nobody}
    /\ row[o].status = "suspended"
    /\ \A r \in Requests : ~(req[r].op \in {"suspend", "delete"} /\ req[r].who = o)
    /\ row' = [row EXCEPT ![o].status = "active"]
    /\ UNCHANGED <<signedIn, badges, now, secrets, req, starts, history>>

\* Mutant of Remaining: suspended colleagues count.
RemainingRows(o) == {c \in Operators : row[c].status # "none"} \ {o}

Remaining(o) == Active \ {o}

\* SELECT ... FOR UPDATE holds the target's row until the transaction ends, and only
\* that row: the colleagues it counts may be removed meanwhile.
RemovalReads(r, by, o, op) ==
    /\ by \in badges \cup {Nobody} /\ by # o
    /\ row[o].status # "none"
    /\ \A q \in Requests : req[q].op \in {"suspend", "delete"} => req[q].who # o
    /\ row[o].status = "active" => Remaining(o) # {}
    /\ Start(r, op, o, 0)

\* What a removal that commits makes of the other requests: those decided before it
\* are overtaken by it.
Overtakes(r, others) ==
    overtaken' = (overtaken \/ \E q \in others : req[q].op \in {"suspend", "delete"})

\* Mutant of SessionsGo: the sessions outlive their operator.
SessionsStay(o) == UNCHANGED signedIn

SessionsGo(o) == signedIn' = signedIn \ {o}

\* The status, and every session of the operator revoked. Access tokens stay good.
SuspendWrites(r) ==
    LET o == req[r].who IN
    /\ Commit(r, "suspend")
    /\ row' = [row EXCEPT ![o].status = "suspended"]
    /\ SessionsGo(o)
    /\ Overtakes(r, Requests \ {r})
    /\ UNCHANGED <<badges, secrets, proved, spent, reused, mixed>>

\* The row goes and its sessions with it; what requests of it still write meets no row.
DeleteWrites(r) ==
    LET o == req[r].who IN
    /\ req[r].op = "delete"
    /\ row' = [row EXCEPT ![o] = NoRow]
    /\ SessionsGo(o)
    /\ Overtakes(r, Requests \ {r})
    /\ req' = [q \in Requests |-> IF req[q].who = o THEN Idle ELSE req[q]]
    /\ proved' = proved \ {o} /\ spent' = [spent EXCEPT ![o] = {}]
    /\ reused' = reused \ {o} /\ mixed' = mixed \ {o}
    /\ UNCHANGED <<badges, now, secrets, starts>>

-----------------------------------------------------------------------------
\* Setup has made the first operator.
OpInit ==
    /\ \E first \in Operators : row = [[o \in Operators |-> NoRow] EXCEPT ![first] = NewRow]
    /\ signedIn = {} /\ badges = {}
    /\ now = 1 /\ secrets = 0 /\ starts = 0
    /\ req = [r \in Requests |-> Idle]
    /\ proved = {} /\ spent = [o \in Operators |-> {}] /\ reused = {} /\ mixed = {}
    /\ overtaken = FALSE

RequestStarts(r) ==
    \E o \in Operators :
        \/ LoginReads(r, o) \/ LoginReadsWrong(r, o) \/ RefreshReads(r, o)
        \/ EnrollReads(r, o) \/ ConfirmReads(r, o) \/ DisableReads(r, o)
        \/ \E by \in Operators \cup {Nobody}, op \in {"suspend", "delete"} :
              RemovalReads(r, by, o, op)

RequestCommits(r) ==
    \/ CodeAccepted(r) \/ LoginSucceeds(r) \/ LoginFails(r) \/ RefreshRotates(r)
    \/ EnrollWrites(r) \/ ConfirmWrites(r) \/ DisableWrites(r)
    \/ SuspendWrites(r) \/ DeleteWrites(r)

OpNext ==
    \/ \E r \in Requests : RequestStarts(r) \/ RequestCommits(r)
    \/ \E o \in Operators : LockEnds(o) \/ Unlock(o) \/ SessionsEnd(o) \/ BadgeExpires(o)
    \/ \E by \in Operators \cup {Nobody}, o \in Operators : Create(by, o) \/ Restore(by, o)
    \/ Tick

OpSpec == OpInit /\ [][OpNext]_opVars

-----------------------------------------------------------------------------
(* Properties.                                                             *)

\* Types; a session is some operator's: a deleted row takes them with it.
OpTypeOK ==
    /\ row \in [Operators -> Row]
    /\ signedIn \subseteq {o \in Operators : row[o].status # "none"}
    /\ badges \subseteq Operators
    /\ now \in 1..MaxStep /\ secrets \in 0..MaxSecrets /\ starts \in Nat
    /\ req \in [Requests -> Request]
    /\ spent \in [Operators -> SUBSET (1..(MaxStep + 1))]
    /\ proved \subseteq Operators /\ reused \subseteq Operators /\ mixed \subseteq Operators
    /\ overtaken \in BOOLEAN

\* "The last active admin can never be suspended or deleted": some operator stays
\* active, unless a removal was decided before another one committed.
OperatorRemains == overtaken \/ Active # {}

\* The second factor holds: an enforced secret has proved itself by a code, and a code
\* is accepted once, unless two of the operator's requests wrote the factor from one
\* reading of it.
SecondFactorHolds ==
    \A o \in Operators \ mixed :
        /\ row[o].totp.on => o \in proved /\ row[o].totp.secret # 0
        /\ o \notin reused

=============================================================================
