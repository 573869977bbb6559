------------------------------ MODULE Accounts ------------------------------
(***************************************************************************)
(* One store user's account: the users row with its auth_sessions, its     *)
(* password_resets and email_verifications, and the requests about it.     *)
(* A handler reads what it needs, hashes or checks a password, and writes  *)
(* in a transaction of its own that does not read again: the two halves    *)
(* are two steps here, between which other requests commit.                *)
(* Sessions and links are numbered in the order they were inserted.        *)
(***************************************************************************)
EXTENDS Integers, Sequences

CONSTANTS
    Requests,     \* concurrent requests about this account
    Passwords,    \* passwords someone may type
    NoPassword,   \* none typed
    Addresses,    \* e-mail addresses
    Home,         \* the address the account is made with
    MaxAttempts,  \* settings.login_max_attempts
    MaxWrong,     \* bound: wrong passwords counted between two resets of the counter
    MaxSessions,  \* bound: sessions ever minted
    MaxLinks,     \* bound: links ever mailed
    MaxStarts     \* bound: requests started

ASSUME AccountsAssumption ==
    /\ NoPassword \notin Passwords
    /\ Home \in Addresses
    /\ MaxAttempts \in Nat \ {0}
    /\ MaxWrong \in Nat /\ MaxSessions \in Nat /\ MaxLinks \in Nat /\ MaxStarts \in Nat

VARIABLES
    user,      \* the users row; status "none" when there is none
    sessions,  \* auth_sessions rows
    links,     \* password_resets and email_verifications rows
    req,       \* what each request has read and is about to write
    starts,    \* requests started
    signups,   \* history: signup_bonus rows
    mark,      \* history: sessions that existed when all were last revoked
    wrong,     \* history: wrong passwords since the counter was last cleared
    slipped,   \* history: one of them was counted from an outdated row
    chosen,    \* history: the password its owner chose last
    undone     \* history: a login wrote an older one back

rowVars == <<user, sessions, links>>
choice == <<chosen, undone>>
history == <<signups, mark, wrong, slipped, choice>>
accVars == <<rowVars, req, starts, history>>

Ops == {"idle", "signup", "login", "wrong", "refresh", "reuse", "askReset", "askVerify",
        "reset", "verify", "password", "email", "resend"}

UserRow == [status: {"none", "pending", "active", "suspended"}, email: Addresses,
            verified: BOOLEAN, password: Passwords \cup {NoPassword},
            weak: BOOLEAN,                      \* hashed with fewer rounds than policy
            failed: Nat, lock: {"none", "running", "over"}]

\* late: what the request read as live was no longer so when it wrote.
SessionRow == [revoked: BOOLEAN, parent: Nat, late: BOOLEAN]
\* A link names the user; nothing records the address it was mailed to.
LinkRow == [kind: {"reset", "verify"}, open: BOOLEAN] \* neither used nor expired
Request == [op: Ops, pw: Passwords \cup {NoPassword}, n: Nat, to: Addresses, live: BOOLEAN]

Idle == [op |-> "idle", pw |-> NoPassword, n |-> 0, to |-> Home, live |-> FALSE]
NoUser == [status |-> "none", email |-> Home, verified |-> FALSE, password |-> NoPassword,
           weak |-> FALSE, failed |-> 0, lock |-> "none"]

\* A request starts with its reads and keeps what it will use.
Start(r, seen) ==
    /\ req[r].op = "idle"
    /\ starts < MaxStarts
    /\ starts' = starts + 1
    /\ req' = [req EXCEPT ![r] = seen]
    /\ UNCHANGED <<rowVars, history>>

\* Its transaction commits and it is answered.
Commit(r, op) ==
    /\ req[r].op = op
    /\ req' = [req EXCEPT ![r] = Idle]
    /\ UNCHANGED starts

Exists == user.status # "none"

\* An access token was minted for this account; it is good for 15 minutes whatever
\* happens to the session or the row meanwhile.
SignedIn == sessions # <<>>

\* The row of a new refresh token.
Session(parent, late) == [revoked |-> FALSE, parent |-> parent, late |-> late]

Mint(parent, late) == sessions' = Append(sessions, Session(parent, late))

\* Mutant of MintFrom: the token that was rotated stays live.
MintBeside(parent, late) == Mint(parent, late)

MintFrom(parent, late) ==
    sessions' = Append([sessions EXCEPT ![parent].revoked = TRUE], Session(parent, late))

\* Mutant of RevokeAll: a session that is live stays live.
RevokeNothing == mark' = Len(sessions) /\ UNCHANGED sessions

RevokeAll ==
    /\ sessions' = [k \in DOMAIN sessions |-> [sessions[k] EXCEPT !.revoked = TRUE]]
    /\ mark' = Len(sessions)

NewLink(kind) == [kind |-> kind, open |-> TRUE]

Spent(i) == [links EXCEPT ![i].open = FALSE]

\* Someone chooses a password.
Choose(pw) == chosen' = pw /\ undone' = FALSE

CountersCleared == wrong' = 0 /\ slipped' = FALSE

-----------------------------------------------------------------------------
(* Signup and invitation make the row.                                     *)

Signup(r, pw) ==
    /\ ~Exists
    /\ Len(sessions) < MaxSessions /\ Len(links) < MaxLinks
    /\ Start(r, [Idle EXCEPT !.op = "signup", !.pw = pw])

\* One transaction: the row, the signup bonus, a session and a verification link.
SignsUp(r) ==
    /\ Commit(r, "signup")
    /\ user' = [NoUser EXCEPT !.status = "active", !.password = req[r].pw]
    /\ Mint(0, FALSE)
    /\ links' = Append(links, NewLink("verify"))
    /\ signups' = signups + 1
    /\ Choose(req[r].pw)
    /\ UNCHANGED <<mark, wrong, slipped>>

\* Mutant of SignupCommits: no unique index on the address.
SignupCommitsAnyway(r) == SignsUp(r)

SignupCommits(r) == ~Exists /\ SignsUp(r)

\* The address was taken since the handler looked: the unique index rejects the
\* second INSERT and the transaction is rolled back.
SignupRejected(r) ==
    /\ Commit(r, "signup")
    /\ Exists
    /\ UNCHANGED <<rowVars, history>>

\* An owner invites the address: a pending row nobody knows the password of, and a
\* setup link good for seven days.
Invite ==
    /\ ~Exists
    /\ Len(links) < MaxLinks
    /\ user' = [NoUser EXCEPT !.status = "pending"]
    /\ links' = Append(links, NewLink("reset"))
    /\ UNCHANGED <<sessions, req, starts, history>>

\* resend_invite: n is how many links its first UPDATE sees. A link inserted by a
\* transaction that has not committed by then is not among them.
ResendInvite(r) ==
    /\ user.status = "pending"
    /\ Start(r, [Idle EXCEPT !.op = "resend", !.n = Len(links)])

ResendCommits(r) ==
    /\ Commit(r, "resend")
    /\ Len(links) < MaxLinks
    /\ links' = Append([i \in DOMAIN links |->
                          IF i <= req[r].n /\ links[i].kind = "reset"
                          THEN [links[i] EXCEPT !.open = FALSE] ELSE links[i]],
                       NewLink("reset"))
    /\ UNCHANGED <<user, sessions, history>>

-----------------------------------------------------------------------------
(* Login and its lockout.                                                  *)

MayLogIn == user.status = "active" /\ user.lock # "running"

\* Nobody knows the random password of a row made by an invitation.
PasswordKnown == user.password # NoPassword

\* The typed password is checked against the hash this read returned.
LoginReads(r) ==
    /\ MayLogIn /\ PasswordKnown
    /\ Len(sessions) < MaxSessions
    /\ Start(r, [Idle EXCEPT !.op = "login", !.pw = user.password,
                             !.n = IF user.weak THEN 1 ELSE 0])

\* The stored password after this login: the one it checked, hashed anew, if its hash
\* was weak.
Upgraded(r) == IF req[r].n = 1 THEN req[r].pw ELSE user.password

\* Mutant of LoginSucceeds: the hash the handler read is written back at every login.
LoginSucceedsRehashing(r) ==
    /\ Commit(r, "login")
    /\ Len(sessions) < MaxSessions
    /\ user' = [user EXCEPT !.failed = 0, !.lock = "none", !.password = req[r].pw]
    /\ Mint(0, FALSE)
    /\ CountersCleared
    /\ UNCHANGED <<links, signups, mark, choice>>

\* Counters cleared, the hash the handler read upgraded if it was weak, a session.
LoginSucceeds(r) ==
    /\ Commit(r, "login")
    /\ Len(sessions) < MaxSessions
    /\ user' = [user EXCEPT !.failed = 0, !.lock = "none",
                            !.password = Upgraded(r),
                            !.weak = IF req[r].n = 1 THEN FALSE ELSE @]
    /\ Mint(0, FALSE)
    /\ CountersCleared
    /\ undone' = (undone \/ Upgraded(r) # user.password)
    /\ UNCHANGED <<links, signups, mark, chosen>>

LoginReadsWrong(r) ==
    /\ MayLogIn
    /\ wrong < MaxWrong
    /\ Start(r, [Idle EXCEPT !.op = "wrong", !.n = user.failed])

\* Mutant of LimitReached: one attempt too many is allowed.
LimitPassed(attempts) == attempts > MaxAttempts

LimitReached(attempts) == attempts >= MaxAttempts

\* failed_logins and locked_until are written from the row the handler read.
LoginFails(r) ==
    LET attempts == req[r].n + 1 IN
    /\ Commit(r, "wrong")
    /\ wrong < MaxWrong
    /\ user' = [user EXCEPT !.failed = attempts,
                            !.lock = IF LimitReached(attempts) THEN "running" ELSE "none"]
    /\ wrong' = wrong + 1
    /\ slipped' = (slipped \/ user.failed # req[r].n)
    /\ UNCHANGED <<sessions, links, signups, mark, choice>>

\* login_lockout_minutes pass.
LockEnds ==
    /\ user.lock = "running"
    /\ user' = [user EXCEPT !.lock = "over"]
    /\ UNCHANGED <<sessions, links, req, starts, history>>

\* A release raises DEFAULT_ITERATIONS: every stored hash is now weaker than policy.
RoundsRaised ==
    /\ Exists /\ PasswordKnown
    /\ user' = [user EXCEPT !.weak = TRUE]
    /\ UNCHANGED <<sessions, links, req, starts, history>>

-----------------------------------------------------------------------------
(* Refresh rotation and logout.                                            *)

\* The session is joined with its user's row in one SELECT.
RefreshReads(r, k) ==
    /\ ~sessions[k].revoked
    /\ user.status = "active"
    /\ Len(sessions) < MaxSessions
    /\ Start(r, [Idle EXCEPT !.op = "refresh", !.n = k, !.live = ~sessions[k].revoked])

\* The old session is revoked and its successor inserted; neither is looked at again.
RefreshRotates(r) ==
    /\ Commit(r, "refresh")
    /\ Len(sessions) < MaxSessions
    /\ MintFrom(req[r].n, req[r].live /\ sessions[req[r].n].revoked)
    /\ UNCHANGED <<user, links, history>>

\* A revoked token comes back: every session of its user goes.
ReuseReads(r, k) ==
    /\ sessions[k].revoked
    /\ Start(r, [Idle EXCEPT !.op = "reuse", !.n = k])

ReuseRevokes(r) ==
    /\ Commit(r, "reuse")
    /\ RevokeAll
    /\ UNCHANGED <<user, links, signups, wrong, slipped, choice>>

Logout(k) ==
    /\ ~sessions[k].revoked
    /\ sessions' = [sessions EXCEPT ![k].revoked = TRUE]
    /\ UNCHANGED <<user, links, req, starts, history>>

-----------------------------------------------------------------------------
(* Reset and verification links.                                           *)

\* reset_request finds the row by the address typed, and mails to that address.
ResetAsked(r) ==
    /\ Exists
    /\ Len(links) < MaxLinks
    /\ Start(r, [Idle EXCEPT !.op = "askReset"])

VerificationAsked(r) ==
    /\ Exists /\ ~user.verified
    /\ Len(links) < MaxLinks
    /\ Start(r, [Idle EXCEPT !.op = "askVerify"])

LinkMailed(r) ==
    /\ Len(links) < MaxLinks
    /\ \E kind \in {"reset", "verify"} :
          /\ Commit(r, IF kind = "reset" THEN "askReset" ELSE "askVerify")
          /\ links' = Append(links, NewLink(kind))
    /\ UNCHANGED <<user, sessions, history>>

\* An hour, a day or a week passes.
LinkExpires(i) ==
    /\ links[i].open
    /\ links' = Spent(i)
    /\ UNCHANGED <<user, sessions, req, starts, history>>

Opened(r, i, kind, pw) ==
    /\ links[i].kind = kind /\ links[i].open
    /\ Start(r, [Idle EXCEPT !.op = kind, !.n = i, !.pw = pw])

ResetOpened(r, i, pw) == Opened(r, i, "reset", pw)
VerifyOpened(r, i) == Opened(r, i, "verify", NoPassword)

\* The new password, cleared counters, the link used and every session revoked. The
\* status stays what it is: an invited colleague stays pending.
ResetConfirmed(r) ==
    /\ Commit(r, "reset")
    /\ user' = [user EXCEPT !.password = req[r].pw, !.weak = FALSE,
                            !.failed = 0, !.lock = "none"]
    /\ links' = Spent(req[r].n)
    /\ RevokeAll
    /\ CountersCleared
    /\ Choose(req[r].pw)
    /\ UNCHANGED <<signups>>

\* The link names the user, not the address it was mailed to.
VerifyConfirmed(r) ==
    /\ Commit(r, "verify")
    /\ user' = [user EXCEPT !.verified = TRUE]
    /\ links' = Spent(req[r].n)
    /\ UNCHANGED <<sessions, signups, mark, wrong, slipped, choice>>

-----------------------------------------------------------------------------
(* Changes a signed-in user makes, and the operator's.                     *)

PasswordAsked(r, pw) ==
    /\ SignedIn
    /\ Start(r, [Idle EXCEPT !.op = "password", !.pw = pw])

\* Sessions are left alone.
PasswordChanged(r) ==
    /\ Commit(r, "password")
    /\ user' = [user EXCEPT !.password = req[r].pw, !.weak = FALSE]
    /\ Choose(req[r].pw)
    /\ UNCHANGED <<sessions, links, signups, mark, wrong, slipped>>

EmailAsked(r, to) ==
    /\ SignedIn /\ to # user.email
    /\ Len(links) < MaxLinks
    /\ Start(r, [Idle EXCEPT !.op = "email", !.to = to])

\* The address moves, unverified, and a link is mailed to it; older links stay open.
EmailChanged(r) ==
    /\ Commit(r, "email")
    /\ Len(links) < MaxLinks
    /\ user' = [user EXCEPT !.email = req[r].to, !.verified = FALSE]
    /\ links' = Append(links, NewLink("verify"))
    /\ UNCHANGED <<sessions, signups, mark, wrong, slipped, choice>>

\* set_user_status: sessions stay, refreshes are refused while suspended.
StatusSet(status) ==
    /\ Exists
    /\ user' = [user EXCEPT !.status = status, !.failed = 0, !.lock = "none"]
    /\ CountersCleared
    /\ UNCHANGED <<sessions, links, req, starts, signups, mark, choice>>

Unlocked ==
    /\ Exists
    /\ user' = [user EXCEPT !.failed = 0, !.lock = "none"]
    /\ CountersCleared
    /\ UNCHANGED <<sessions, links, req, starts, signups, mark, choice>>

-----------------------------------------------------------------------------
AccInit ==
    /\ user = NoUser
    /\ sessions = <<>> /\ links = <<>>
    /\ req = [r \in Requests |-> Idle]
    /\ starts = 0 /\ signups = 0 /\ mark = 0 /\ wrong = 0
    /\ slipped = FALSE
    /\ chosen = NoPassword /\ undone = FALSE

RequestStarts(r) ==
    \/ \E pw \in Passwords : Signup(r, pw) \/ PasswordAsked(r, pw)
    \/ ResendInvite(r) \/ ResetAsked(r) \/ VerificationAsked(r)
    \/ LoginReads(r) \/ LoginReadsWrong(r)
    \/ \E k \in DOMAIN sessions : RefreshReads(r, k) \/ ReuseReads(r, k)
    \/ \E i \in DOMAIN links : VerifyOpened(r, i)
    \/ \E i \in DOMAIN links, pw \in Passwords : ResetOpened(r, i, pw)
    \/ \E to \in Addresses : EmailAsked(r, to)

RequestCommits(r) ==
    \/ SignupCommits(r) \/ SignupRejected(r) \/ ResendCommits(r) \/ LinkMailed(r)
    \/ LoginSucceeds(r) \/ LoginFails(r)
    \/ RefreshRotates(r) \/ ReuseRevokes(r)
    \/ ResetConfirmed(r) \/ VerifyConfirmed(r)
    \/ PasswordChanged(r) \/ EmailChanged(r)

AccNext ==
    \/ \E r \in Requests : RequestStarts(r) \/ RequestCommits(r)
    \/ \E k \in DOMAIN sessions : Logout(k)
    \/ \E i \in DOMAIN links : LinkExpires(i)
    \/ \E status \in {"active", "suspended"} : StatusSet(status)
    \/ Invite \/ LockEnds \/ RoundsRaised \/ Unlocked

AccSpec == AccInit /\ [][AccNext]_accVars

-----------------------------------------------------------------------------
(* Properties.                                                             *)

\* Types; signups: however many requests sign one address up, one bonus is granted.
AccTypeOK ==
    /\ user \in UserRow
    /\ sessions \in Seq(SessionRow) /\ Len(sessions) <= MaxSessions
    /\ links \in Seq(LinkRow) /\ Len(links) <= MaxLinks
    /\ req \in [Requests -> Request]
    /\ mark \in 0..Len(sessions)
    /\ starts \in Nat /\ signups \in 0..1 /\ wrong \in Nat /\ slipped \in BOOLEAN
    /\ undone \in BOOLEAN /\ chosen \in Passwords \cup {NoPassword}

\* "refresh tokens are single-use": a session has one successor, or the later one was
\* minted by a refresh that had read the session before it was rotated.
RotationIsLinear ==
    \A i, k \in DOMAIN sessions :
        i < k /\ sessions[i].parent = sessions[k].parent /\ sessions[k].parent # 0
            => sessions[k].late

\* After a password reset or the reuse of a rotated token, what is still signed in
\* signed in anew: its chain of refreshes starts after the revocation, or a refresh
\* crossed it.
RevocationHolds ==
    \A k \in DOMAIN sessions : ~sessions[k].revoked =>
        /\ k > mark
        /\ sessions[k].parent \in 1..mark => sessions[k].late

\* Wrong passwords are counted one by one and lock the account at the limit, unless
\* two of them were checked at once.
LockoutCounts ==
    ~slipped => user.failed = wrong /\ (wrong >= MaxAttempts => user.lock # "none")

\* "transparently upgrade weak hashes": the password is the one its owner chose last,
\* unless a login that upgraded the hash it had read crossed the choice.
PasswordIsTheChosenOne == Exists /\ ~undone => user.password = chosen

=============================================================================
