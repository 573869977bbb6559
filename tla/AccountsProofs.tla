--------------------------- MODULE AccountsProofs ---------------------------
(***************************************************************************)
(* What module Accounts keeps for every set of requests, passwords and     *)
(* addresses, every login_max_attempts and every value of the bounds.      *)
(* The invariant has a part per table: each action is a few lemmas, one    *)
(* for each part it disturbs.                                              *)
(***************************************************************************)
EXTENDS Accounts, SequenceTheorems, TLAPS

\* What a request holds still names rows that exist: nothing deletes them. Sign-up
\* found room for its session and its link in empty tables.
HoldsRows(q) ==
    /\ q.op \in {"refresh", "reuse"} => q.n \in DOMAIN sessions
    /\ q.op = "refresh" => q.live
    /\ q.op \in {"reset", "verify"} => q.n \in DOMAIN links
    /\ q.op = "signup" => 0 < MaxSessions /\ 0 < MaxLinks

RequestsInv == \A r \in Requests : HoldsRows(req[r])

\* Before the account exists nothing else about it does, and the only requests under
\* way are sign-ups.
BlankInv ==
    ~Exists =>
        /\ user = NoUser /\ sessions = <<>> /\ links = <<>>
        /\ signups = 0 /\ mark = 0 /\ wrong = 0
        /\ chosen = NoPassword /\ undone = FALSE
        /\ \A r \in Requests : req[r].op \in {"idle", "signup"}

\* A session was minted after the one it continues, which was revoked by then.
ChainInv ==
    \A k \in DOMAIN sessions :
        /\ sessions[k].parent < k
        /\ sessions[k].parent # 0 => sessions[sessions[k].parent].revoked

\* The parts of the type invariant, by table.
UserTyped == user \in UserRow /\ chosen \in Passwords \cup {NoPassword} /\ undone \in BOOLEAN
CountsTyped == starts \in Nat /\ signups \in 0..1 /\ wrong \in Nat /\ slipped \in BOOLEAN
SessionsTyped == /\ sessions \in Seq(SessionRow) /\ Len(sessions) <= MaxSessions
                 /\ mark \in 0..Len(sessions)
LinksTyped == links \in Seq(LinkRow) /\ Len(links) <= MaxLinks
ReqTyped == req \in [Requests -> Request]

UserPart == UserTyped /\ LockoutCounts /\ PasswordIsTheChosenOne
SessionsPart == SessionsTyped /\ ChainInv /\ RotationIsLinear /\ RevocationHolds
RequestsPart == ReqTyped /\ RequestsInv

AccInv == UserPart /\ CountsTyped /\ SessionsPart /\ LinksTyped /\ RequestsPart /\ BlankInv

-----------------------------------------------------------------------------
(* The tables as sequences.                                                *)

\* A row of a table is a row.
LEMMA SessionIsRow ==
    ASSUME SessionsTyped, NEW k \in DOMAIN sessions
    PROVE  /\ k \in 1..Len(sessions) /\ k \in Nat /\ sessions[k] \in SessionRow
           /\ sessions[k].parent \in Nat /\ sessions[k].revoked \in BOOLEAN
           /\ sessions[k].late \in BOOLEAN
  <1>1. k \in 1..Len(sessions) /\ Len(sessions) \in Nat
    BY LenProperties DEF SessionsTyped
  <1>2. sessions[k] \in SessionRow
    BY <1>1, ElementOfSeq DEF SessionsTyped
  <1> QED
    BY <1>1, <1>2 DEF SessionRow

LEMMA LinkIsRow ==
    ASSUME LinksTyped, NEW i \in DOMAIN links
    PROVE  /\ i \in 1..Len(links) /\ i \in Nat /\ links[i] \in LinkRow
           /\ links[i].open \in BOOLEAN
  <1>1. i \in 1..Len(links) /\ Len(links) \in Nat
    BY LenProperties DEF LinksTyped
  <1>2. links[i] \in LinkRow
    BY <1>1, ElementOfSeq DEF LinksTyped
  <1> QED
    BY <1>1, <1>2 DEF LinkRow

\* Appending a row leaves the older ones where they are.
LEMMA Appended ==
    ASSUME NEW S, NEW s \in Seq(S), NEW e \in S
    PROVE  /\ Append(s, e) \in Seq(S)
           /\ Len(s) \in Nat /\ Len(Append(s, e)) = Len(s) + 1
           /\ DOMAIN s = 1..Len(s) /\ DOMAIN Append(s, e) = 1..(Len(s) + 1)
           /\ \A k \in 1..Len(s) : Append(s, e)[k] = s[k]
           /\ Append(s, e)[Len(s) + 1] = e
  <1>1. Append(s, e) \in Seq(S) /\ Len(Append(s, e)) = Len(s) + 1 /\ Len(s) \in Nat
    BY AppendProperties, LenProperties
  <1>2. DOMAIN s = 1..Len(s) /\ DOMAIN Append(s, e) = 1..(Len(s) + 1)
    BY <1>1, LenProperties
  <1>3. /\ \A k \in 1..Len(s) : Append(s, e)[k] = s[k]
        /\ Append(s, e)[Len(s) + 1] = e
    BY <1>1, AppendProperties
  <1> QED
    BY <1>1, <1>2, <1>3

\* A table written row by row.
LEMMA RowByRow ==
    ASSUME NEW S, NEW T, NEW s \in Seq(S), NEW t,
           t = [k \in DOMAIN s |-> t[k]], \A k \in DOMAIN s : t[k] \in T
    PROVE  t \in Seq(T) /\ Len(t) = Len(s) /\ DOMAIN t = DOMAIN s
  <1>1. DOMAIN s = 1..Len(s) /\ Len(s) \in Nat
    BY LenProperties
  <1>2. t \in [1..Len(s) -> T]
    BY <1>1
  <1>3. t \in Seq(T)
    BY <1>1, <1>2, SeqDef
  <1> QED
    BY <1>1, <1>2, <1>3, LenProperties

-----------------------------------------------------------------------------
(* Sessions.                                                               *)

\* The facts about sessions, read off for one or two rows.
LEMMA SessionsAre ==
    ASSUME SessionsPart
    PROVE  /\ DOMAIN sessions = 1..Len(sessions) /\ Len(sessions) \in Nat /\ mark \in Nat
           /\ \A k \in 1..Len(sessions) :
                 /\ sessions[k] \in SessionRow
                 /\ sessions[k].parent \in Nat /\ sessions[k].parent < k
                 /\ sessions[k].parent # 0 => sessions[sessions[k].parent].revoked
                 /\ ~sessions[k].revoked => /\ k > mark
                                            /\ sessions[k].parent \in 1..mark => sessions[k].late
           /\ \A i, k \in 1..Len(sessions) :
                 i < k /\ sessions[i].parent = sessions[k].parent /\ sessions[k].parent # 0
                     => sessions[k].late
  <1>1. DOMAIN sessions = 1..Len(sessions) /\ Len(sessions) \in Nat
    BY LenProperties DEF SessionsPart, SessionsTyped
  <1>2. mark \in Nat
    BY <1>1 DEF SessionsPart, SessionsTyped
  <1>3. \A k \in 1..Len(sessions) : sessions[k] \in SessionRow /\ sessions[k].parent \in Nat
    BY <1>1, SessionIsRow DEF SessionsPart
  <1> QED
    BY <1>1, <1>2, <1>3 DEF SessionsPart, ChainInv, RotationIsLinear, RevocationHolds

LEMMA SessionsSame ==
    ASSUME SessionsPart, UNCHANGED <<sessions, mark>>
    PROVE  SessionsPart'
  BY DEF SessionsPart, SessionsTyped, ChainInv, RotationIsLinear, RevocationHolds

\* A sign-up or a login mints a session that continues none.
LEMMA MintKeeps ==
    ASSUME SessionsPart, Mint(0, FALSE), UNCHANGED mark, Len(sessions) < MaxSessions
    PROVE  SessionsPart' /\ DOMAIN sessions \subseteq DOMAIN sessions'
  <1> DEFINE L == Len(sessions)
             new == Session(0, FALSE)
  <1>1. new \in SessionRow /\ new.parent = 0 /\ new.revoked = FALSE
    BY DEF Session, SessionRow
  <1>a. sessions' = Append(sessions, new) /\ sessions \in Seq(SessionRow)
    BY DEF Mint, SessionsPart, SessionsTyped
  <1> HIDE DEF new
  <1>2. /\ sessions' \in Seq(SessionRow) /\ L \in Nat /\ Len(sessions') = L + 1
        /\ DOMAIN sessions = 1..L /\ DOMAIN sessions' = 1..(L + 1)
        /\ \A k \in 1..L : sessions'[k] = sessions[k]
        /\ sessions'[L + 1] = new
    BY <1>1, <1>a, Appended
  <1>3. SessionsTyped'
    BY <1>2, SessionsAre, AccountsAssumption DEF SessionsPart, SessionsTyped
  <1>4. ChainInv'
    BY <1>1, <1>2, SessionsAre DEF ChainInv
  <1>5. RotationIsLinear'
    BY <1>1, <1>2, SessionsAre DEF RotationIsLinear
  <1>6. RevocationHolds'
    BY <1>1, <1>2, <1>3, SessionsAre DEF RevocationHolds, SessionsTyped, SessionsPart
  <1> QED
    BY <1>2, <1>3, <1>4, <1>5, <1>6 DEF SessionsPart

\* Revoking one session, and keeping everything else of it.
Revoked(n) == [sessions EXCEPT ![n].revoked = TRUE]

LEMMA RevokeOne ==
    ASSUME SessionsPart, NEW n \in DOMAIN sessions
    PROVE  /\ Revoked(n) \in Seq(SessionRow) /\ Len(Revoked(n)) = Len(sessions)
           /\ DOMAIN Revoked(n) = DOMAIN sessions
           /\ \A k \in DOMAIN sessions :
                 /\ Revoked(n)[k].parent = sessions[k].parent
                 /\ Revoked(n)[k].late = sessions[k].late
                 /\ Revoked(n)[k].revoked <=> (k = n \/ sessions[k].revoked)
  <1> DEFINE row == [sessions[n] EXCEPT !.revoked = TRUE]
             t == Revoked(n)
  <1>1. /\ DOMAIN sessions = 1..Len(sessions) /\ Len(sessions) \in Nat
        /\ \A k \in 1..Len(sessions) : sessions[k] \in SessionRow
    BY SessionsAre
  <1>2. row \in SessionRow /\ row.parent = sessions[n].parent /\ row.revoked = TRUE
        /\ row.late = sessions[n].late
    BY <1>1 DEF SessionRow
  <1>3. t = [sessions EXCEPT ![n] = row]
    BY DEF Revoked
  <1>4. /\ t \in Seq(SessionRow) /\ Len(t) = Len(sessions)
        /\ \A k \in 1..Len(sessions) : t[k] = IF k = n THEN row ELSE sessions[k]
    BY <1>1, <1>2, <1>3, ExceptSeq DEF SessionsPart, SessionsTyped
  <1>5. DOMAIN t = DOMAIN sessions
    BY <1>3
  <1>6. \A k \in 1..Len(sessions) : sessions[k].revoked \in BOOLEAN
    BY <1>1 DEF SessionRow
  <1> HIDE DEF row
  <1> QED
    BY <1>1, <1>2, <1>4, <1>5, <1>6

\* A logout.
LEMMA RevokeOneKeeps ==
    ASSUME SessionsPart, NEW n \in DOMAIN sessions,
           sessions' = Revoked(n), UNCHANGED mark
    PROVE  SessionsPart' /\ DOMAIN sessions' = DOMAIN sessions
  <1> DEFINE L == Len(sessions)
  <1>1. /\ sessions' \in Seq(SessionRow) /\ Len(sessions') = L
        /\ DOMAIN sessions' = 1..L /\ n \in 1..L /\ DOMAIN sessions = 1..L
        /\ \A k \in 1..L : /\ sessions'[k].parent = sessions[k].parent
                           /\ sessions'[k].late = sessions[k].late
                           /\ sessions'[k].revoked <=> (k = n \/ sessions[k].revoked)
    <2>1. DOMAIN sessions = 1..L
      BY SessionsAre
    <2>2. /\ sessions' \in Seq(SessionRow) /\ Len(sessions') = Len(sessions)
          /\ DOMAIN sessions' = DOMAIN sessions
          /\ \A k \in DOMAIN sessions :
                /\ sessions'[k].parent = sessions[k].parent
                /\ sessions'[k].late = sessions[k].late
                /\ sessions'[k].revoked <=> (k = n \/ sessions[k].revoked)
      BY RevokeOne
    <2> QED
      BY <2>1, <2>2
  <1>2. SessionsTyped'
    BY <1>1 DEF SessionsPart, SessionsTyped
  <1>3. ChainInv'
    <2> SUFFICES ASSUME NEW k \in 1..L
                 PROVE  /\ sessions'[k].parent < k
                        /\ sessions'[k].parent # 0 => sessions'[sessions'[k].parent].revoked
      BY <1>1 DEF ChainInv
    <2>1. /\ sessions[k].parent \in Nat /\ sessions[k].parent < k
          /\ sessions[k].parent # 0 => sessions[sessions[k].parent].revoked
      BY SessionsAre
    <2>2. sessions[k].parent # 0 => sessions[k].parent \in 1..L
      BY <2>1, SessionsAre
    <2> QED
      BY <1>1, <2>1, <2>2
  <1>4. RotationIsLinear'
    BY <1>1, SessionsAre DEF RotationIsLinear
  <1>5. RevocationHolds'
    BY <1>1, SessionsAre DEF RevocationHolds
  <1> QED
    BY <1>1, <1>2, <1>3, <1>4, <1>5 DEF SessionsPart

\* A refresh revokes the session it read and mints its successor, marked late when
\* the session had been revoked since.
LEMMA MintFromKeeps ==
    ASSUME SessionsPart, NEW n \in DOMAIN sessions,
           MintFrom(n, sessions[n].revoked), UNCHANGED mark, Len(sessions) < MaxSessions
    PROVE  SessionsPart' /\ DOMAIN sessions \subseteq DOMAIN sessions'
  <1> DEFINE L == Len(sessions)
             new == Session(n, sessions[n].revoked)
             old == Revoked(n)
  <1>1. /\ DOMAIN sessions = 1..L /\ L \in Nat /\ n \in 1..L /\ n \in Nat
        /\ sessions[n].revoked \in BOOLEAN
    BY SessionsAre DEF SessionRow
  <1>2. /\ new \in SessionRow /\ new.parent = n /\ new.revoked = FALSE
        /\ new.late = sessions[n].revoked
    BY <1>1 DEF Session, SessionRow
  <1>a. old = Revoked(n)
    OBVIOUS
  <1>b. sessions' = Append(old, new)
    BY DEF MintFrom, Revoked
  <1> HIDE DEF old, new
  <1>3. /\ old \in Seq(SessionRow) /\ Len(old) = L
        /\ \A k \in 1..L : /\ old[k].parent = sessions[k].parent
                           /\ old[k].late = sessions[k].late
                           /\ old[k].revoked <=> (k = n \/ sessions[k].revoked)
    BY <1>1, <1>a, RevokeOne
  <1>5. /\ sessions' \in Seq(SessionRow) /\ Len(sessions') = L + 1
        /\ DOMAIN sessions' = 1..(L + 1)
        /\ \A k \in 1..L : sessions'[k] = old[k]
        /\ sessions'[L + 1] = new
    BY <1>2, <1>3, <1>b, Appended
  <1>6. SessionsTyped'
    BY <1>1, <1>5, AccountsAssumption DEF SessionsPart, SessionsTyped
  <1>7. /\ \A k \in 1..L : /\ sessions'[k].parent = sessions[k].parent
                           /\ sessions'[k].late = sessions[k].late
                           /\ sessions'[k].revoked <=> (k = n \/ sessions[k].revoked)
        /\ sessions'[L + 1].parent = n /\ ~sessions'[L + 1].revoked
        /\ sessions'[L + 1].late = sessions[n].revoked
    BY <1>2, <1>3, <1>5
  <1>8. ChainInv'
    <2> SUFFICES ASSUME NEW k \in 1..(L + 1)
                 PROVE  /\ sessions'[k].parent < k
                        /\ sessions'[k].parent # 0 => sessions'[sessions'[k].parent].revoked
      BY <1>5 DEF ChainInv
    <2>1. CASE k = L + 1
      BY <1>1, <1>7, <2>1
    <2>2. CASE k \in 1..L
      <3>1. /\ sessions[k].parent \in Nat /\ sessions[k].parent < k
            /\ sessions[k].parent # 0 => sessions[sessions[k].parent].revoked
        BY <2>2, SessionsAre
      <3>2. sessions[k].parent # 0 => sessions[k].parent \in 1..L
        BY <2>2, <3>1, <1>1
      <3> QED
        BY <1>7, <2>2, <3>1, <3>2
    <2> QED
      BY <1>1, <2>1, <2>2
  <1>9. RotationIsLinear'
    <2> SUFFICES ASSUME NEW i \in 1..(L + 1), NEW k \in 1..(L + 1), i < k,
                        sessions'[i].parent = sessions'[k].parent, sessions'[k].parent # 0
                 PROVE  sessions'[k].late
      BY <1>5 DEF RotationIsLinear
    <2>1. i \in 1..L
      BY <1>1
    <2>2. CASE k = L + 1
      BY <1>7, <2>1, <2>2, SessionsAre
    <2>3. CASE k \in 1..L
      BY <1>7, <2>1, <2>3, SessionsAre
    <2> QED
      BY <1>1, <2>2, <2>3
  <1>10. RevocationHolds'
    <2> SUFFICES ASSUME NEW k \in 1..(L + 1), ~sessions'[k].revoked
                 PROVE  k > mark /\ (sessions'[k].parent \in 1..mark => sessions'[k].late)
      BY <1>5 DEF RevocationHolds
    <2>1. CASE k = L + 1
      <3>1. mark \in 0..L
        BY DEF SessionsPart, SessionsTyped
      <3>2. n \in 1..mark => sessions[n].revoked
        BY <1>1, <3>1, SessionsAre
      <3> QED
        BY <1>1, <1>7, <2>1, <3>1, <3>2
    <2>2. CASE k \in 1..L
      BY <1>7, <2>2, SessionsAre
    <2> QED
      BY <1>1, <2>1, <2>2
  <1> QED
    BY <1>1, <1>5, <1>6, <1>8, <1>9, <1>10 DEF SessionsPart

\* A reset, or a rotated token that comes back, revokes them all.
LEMMA RevokeAllKeeps ==
    ASSUME SessionsPart, RevokeAll
    PROVE  SessionsPart' /\ DOMAIN sessions' = DOMAIN sessions
  <1> DEFINE L == Len(sessions)
  <1>1. /\ DOMAIN sessions = 1..L /\ L \in Nat
        /\ \A k \in 1..L : sessions[k] \in SessionRow
    BY SessionsAre
  <1>2. \A k \in 1..L : /\ sessions'[k] \in SessionRow
                        /\ sessions'[k].parent = sessions[k].parent
                        /\ sessions'[k].late = sessions[k].late
                        /\ sessions'[k].revoked
    BY <1>1 DEF RevokeAll, SessionRow
  <1>3. sessions' \in Seq(SessionRow) /\ Len(sessions') = L /\ DOMAIN sessions' = 1..L
    <2>1. sessions' = [k \in DOMAIN sessions |-> sessions'[k]]
      BY DEF RevokeAll
    <2> QED
      BY <1>1, <1>2, <2>1, RowByRow DEF SessionsPart, SessionsTyped
  <1>4. SessionsTyped'
    BY <1>1, <1>3 DEF SessionsPart, SessionsTyped, RevokeAll
  <1>5. ChainInv'
    <2> SUFFICES ASSUME NEW k \in 1..L
                 PROVE  /\ sessions'[k].parent < k
                        /\ sessions'[k].parent # 0 => sessions'[sessions'[k].parent].revoked
      BY <1>3 DEF ChainInv
    <2>1. sessions[k].parent \in Nat /\ sessions[k].parent < k
      BY SessionsAre
    <2>2. sessions[k].parent # 0 => sessions[k].parent \in 1..L
      BY <1>1, <2>1
    <2> QED
      BY <1>2, <2>1, <2>2
  <1>6. RotationIsLinear'
    BY <1>2, <1>3, SessionsAre DEF RotationIsLinear
  <1>7. RevocationHolds'
    BY <1>2, <1>3 DEF RevocationHolds
  <1> QED
    BY <1>1, <1>3, <1>4, <1>5, <1>6, <1>7 DEF SessionsPart

-----------------------------------------------------------------------------
(* Links.                                                                  *)

LEMMA LinksAre ==
    ASSUME LinksTyped
    PROVE  /\ DOMAIN links = 1..Len(links) /\ Len(links) \in Nat /\ Len(links) <= MaxLinks
           /\ links \in Seq(LinkRow)
           /\ \A i \in 1..Len(links) : links[i] \in LinkRow
  <1>1. DOMAIN links = 1..Len(links) /\ Len(links) \in Nat
    BY LenProperties DEF LinksTyped
  <1>2. \A i \in 1..Len(links) : links[i] \in LinkRow
    BY <1>1, LinkIsRow
  <1> QED
    BY <1>1, <1>2 DEF LinksTyped

LEMMA LinksSame ==
    ASSUME LinksTyped, UNCHANGED links
    PROVE  LinksTyped'
  BY DEF LinksTyped

\* The links after some change to them, each where it was.
Kept(older) == older \in Seq(LinkRow) /\ Len(older) = Len(links)

LEMMA SpentIsKept ==
    ASSUME LinksTyped, NEW n \in DOMAIN links
    PROVE  Kept(Spent(n))
  <1> DEFINE row == [links[n] EXCEPT !.open = FALSE]
  <1>1. row \in LinkRow
    BY LinksAre DEF LinkRow
  <1>2. Spent(n) = [links EXCEPT ![n] = row]
    BY DEF Spent
  <1> HIDE DEF row
  <1>3. Spent(n) \in Seq(LinkRow) /\ Len(Spent(n)) = Len(links)
    BY <1>1, <1>2, LinksAre, ExceptSeq
  <1> QED
    BY <1>3 DEF Kept

\* resend_invite closes the open reset links it sees.
ClosedBy(q) ==
    [i \in DOMAIN links |-> IF i <= q.n /\ links[i].kind = "reset"
                            THEN [links[i] EXCEPT !.open = FALSE] ELSE links[i]]

LEMMA ClosedIsKept ==
    ASSUME LinksTyped, NEW q
    PROVE  Kept(ClosedBy(q))
  <1> DEFINE t == ClosedBy(q)
  <1>1. \A i \in DOMAIN links : t[i] \in LinkRow
    BY LinksAre DEF ClosedBy, LinkRow
  <1>2. t = [i \in DOMAIN links |-> t[i]]
    BY DEF ClosedBy
  <1> HIDE DEF t
  <1>3. t \in Seq(LinkRow) /\ Len(t) = Len(links)
    BY <1>1, <1>2, LinksAre, RowByRow
  <1>4. Kept(t)
    BY <1>3 DEF Kept
  <1> QED
    BY <1>4 DEF t

LEMMA LinksKeptKeeps ==
    ASSUME LinksTyped, Kept(links')
    PROVE  LinksTyped' /\ DOMAIN links' = DOMAIN links
  <1>1. links' \in Seq(LinkRow) /\ Len(links') = Len(links) /\ DOMAIN links' = DOMAIN links
    BY LinksAre, LenProperties DEF Kept
  <1> QED
    BY <1>1, LinksAre DEF LinksTyped

\* A link is added to what the others became.
LEMMA LinkAdded ==
    ASSUME LinksTyped, NEW older, Kept(older), NEW e \in LinkRow,
           links' = Append(older, e), Len(links) < MaxLinks
    PROVE  LinksTyped' /\ DOMAIN links \subseteq DOMAIN links'
  <1> DEFINE L == Len(links)
  <1>1. older \in Seq(LinkRow) /\ Len(older) = L /\ L \in Nat /\ DOMAIN links = 1..L
    BY LinksAre DEF Kept
  <1>2. links' \in Seq(LinkRow) /\ Len(links') = L + 1 /\ DOMAIN links' = 1..(L + 1)
    BY <1>1, Appended
  <1>3. LinksTyped'
    BY <1>1, <1>2, LinksAre, AccountsAssumption DEF LinksTyped
  <1> QED
    BY <1>1, <1>2, <1>3

\* The links are what they were.
LEMMA LinksAreKept ==
    ASSUME LinksTyped
    PROVE  Kept(links)
  BY LinksAre DEF Kept

-----------------------------------------------------------------------------
(* Requests.                                                               *)

LEMMA IdleIsRequest == Idle \in Request /\ Idle.op = "idle"
  BY AccountsAssumption DEF Idle, Request, Ops

\* What one request puts in place of another; rows are never deleted.
LEMMA RequestsKeep ==
    ASSUME RequestsPart, NEW r \in Requests, NEW q \in Request,
           req' = [req EXCEPT ![r] = q], HoldsRows(q)',
           DOMAIN sessions \subseteq DOMAIN sessions', DOMAIN links \subseteq DOMAIN links'
    PROVE  RequestsPart'
  <1>1. ReqTyped'
    BY DEF RequestsPart, ReqTyped
  <1>2. ASSUME NEW s \in Requests
        PROVE  HoldsRows(req[s])'
    <2>1. CASE s = r
      <3>1. req'[s] = q
        BY <2>1 DEF RequestsPart, ReqTyped
      <3> QED
        BY <3>1 DEF HoldsRows
    <2>2. CASE s # r
      <3>1. req'[s] = req[s]
        BY <2>2 DEF RequestsPart, ReqTyped
      <3>2. HoldsRows(req[s])
        BY DEF RequestsPart, RequestsInv
      <3> QED
        BY <3>1, <3>2 DEF HoldsRows
    <2> QED
      BY <2>1, <2>2
  <1> QED
    BY <1>1, <1>2 DEF RequestsPart, RequestsInv

\* A request that commits holds what its kind holds and is idle then.
LEMMA Committing ==
    ASSUME RequestsPart, NEW r \in Requests, NEW op, Commit(r, op)
    PROVE  /\ req[r].op = op /\ req[r] \in Request /\ HoldsRows(req[r])
           /\ req[r].pw \in Passwords \cup {NoPassword} /\ req[r].n \in Nat
           /\ req[r].to \in Addresses
  <1>1. req[r].op = op /\ req[r] \in Request /\ HoldsRows(req[r])
    BY DEF RequestsPart, ReqTyped, RequestsInv, Commit
  <1> QED
    BY <1>1 DEF Request

LEMMA Answered ==
    ASSUME RequestsPart, NEW r \in Requests, NEW op, Commit(r, op),
           DOMAIN sessions \subseteq DOMAIN sessions', DOMAIN links \subseteq DOMAIN links'
    PROVE  RequestsPart'
  <1>1. req' = [req EXCEPT ![r] = Idle]
    BY DEF Commit
  <1>2. HoldsRows(Idle)'
    BY DEF HoldsRows, Idle
  <1> QED
    BY <1>1, <1>2, IdleIsRequest, RequestsKeep

\* The tables do not know of the requests.
LEMMA RequestsSame ==
    ASSUME RequestsPart, UNCHANGED req,
           DOMAIN sessions \subseteq DOMAIN sessions', DOMAIN links \subseteq DOMAIN links'
    PROVE  RequestsPart'
  BY DEF RequestsPart, ReqTyped, RequestsInv, HoldsRows

-----------------------------------------------------------------------------
(* Before and after the row exists.                                        *)

\* Only a sign-up commits while the account does not exist.
LEMMA CommitExists ==
    ASSUME BlankInv, NEW r \in Requests, NEW op, Commit(r, op), op \notin {"idle", "signup"}
    PROVE  Exists
  BY DEF BlankInv, Commit

LEMMA OnceItExists ==
    ASSUME user'.status # "none"
    PROVE  BlankInv'
  BY DEF BlankInv, Exists

\* Starting a request changes no table.
LEMMA Started ==
    ASSUME AccInv, NEW r \in Requests, NEW q \in Request, Start(r, q), HoldsRows(q),
           Exists \/ q.op = "signup"
    PROVE  AccInv'
  <1>1. UNCHANGED <<user, sessions, links, signups, mark, wrong, slipped, chosen, undone>>
    BY DEF Start, rowVars, history, choice
  <1>2. req' = [req EXCEPT ![r] = q] /\ starts' = starts + 1
    BY DEF Start
  <1>3. UserPart'
    BY <1>1 DEF AccInv, UserPart, UserTyped, LockoutCounts, PasswordIsTheChosenOne, Exists
  <1>4. CountsTyped'
    BY <1>1, <1>2 DEF AccInv, CountsTyped
  <1>5. SessionsPart'
    BY <1>1, SessionsSame DEF AccInv
  <1>6. LinksTyped'
    BY <1>1, LinksSame DEF AccInv
  <1>7. RequestsPart'
    <2>1. HoldsRows(q)'
      BY <1>1 DEF HoldsRows
    <2> QED
      BY <1>1, <1>2, <2>1, RequestsKeep DEF AccInv
  <1>8. BlankInv'
    <2>1. CASE Exists
      BY <1>1, <2>1, OnceItExists DEF Exists
    <2>2. CASE ~Exists
      <3>1. \A s \in Requests : req'[s].op \in {"idle", "signup"}
        BY <1>2, <2>2 DEF AccInv, BlankInv, RequestsPart, ReqTyped
      <3> QED
        BY <1>1, <2>2, <3>1 DEF AccInv, BlankInv, Exists
    <2> QED
      BY <2>1, <2>2
  <1> QED
    BY <1>3, <1>4, <1>5, <1>6, <1>7, <1>8 DEF AccInv

\* What a commit leaves to show once the account exists.
LEMMA Committed ==
    ASSUME AccInv, NEW r \in Requests, NEW op, Commit(r, op),
           UserPart', SessionsPart', LinksTyped', user'.status # "none",
           signups' \in 0..1, wrong' \in Nat, slipped' \in BOOLEAN,
           DOMAIN sessions \subseteq DOMAIN sessions', DOMAIN links \subseteq DOMAIN links'
    PROVE  AccInv'
  <1>1. CountsTyped'
    BY DEF AccInv, CountsTyped, Commit
  <1>2. RequestsPart'
    BY Answered DEF AccInv
  <1>3. BlankInv'
    BY OnceItExists
  <1> QED
    BY <1>1, <1>2, <1>3 DEF AccInv

-----------------------------------------------------------------------------
(* The requests start.                                                     *)

\* A user's row, and what the columns of it can hold.
LEMMA UserIsRow ==
    ASSUME AccInv
    PROVE  /\ user \in UserRow /\ user.email \in Addresses /\ user.failed \in Nat
           /\ user.password \in Passwords \cup {NoPassword}
           /\ user.weak \in BOOLEAN /\ user.verified \in BOOLEAN
           /\ SessionsPart /\ LinksTyped /\ RequestsPart /\ BlankInv /\ UserPart
           /\ DOMAIN sessions = 1..Len(sessions) /\ Len(sessions) \in Nat
           /\ DOMAIN links = 1..Len(links) /\ Len(links) \in Nat
  <1>1. user \in UserRow
    BY DEF AccInv, UserPart, UserTyped
  <1>2. DOMAIN sessions = 1..Len(sessions) /\ Len(sessions) \in Nat
    BY SessionsAre DEF AccInv
  <1>3. DOMAIN links = 1..Len(links) /\ Len(links) \in Nat
    BY LinksAre DEF AccInv
  <1> QED
    BY <1>1, <1>2, <1>3 DEF AccInv, UserRow

\* Who has a session, or whose row is active or pending, exists.
LEMMA SignedInExists ==
    ASSUME AccInv, SignedIn
    PROVE  Exists
  BY DEF AccInv, BlankInv, SignedIn

\* Whatever has a row belongs to an account that exists.
LEMMA SessionHasUser ==
    ASSUME AccInv, NEW k \in DOMAIN sessions
    PROVE  k \in Nat /\ SignedIn /\ Exists
  <1>1. k \in Nat
    BY UserIsRow
  <1>2. SignedIn
    BY DEF SignedIn
  <1> QED
    BY <1>1, <1>2, SignedInExists

LEMMA LinkHasUser ==
    ASSUME AccInv, NEW i \in DOMAIN links
    PROVE  i \in Nat /\ Exists
  <1>1. i \in Nat
    BY UserIsRow
  <1>2. links # <<>>
    OBVIOUS
  <1> QED
    BY <1>1, <1>2 DEF AccInv, BlankInv

\* Sign-ups and requests of a user who is signed in.
LEMMA TypedStarts ==
    ASSUME AccInv, NEW r \in Requests, NEW pw \in Passwords,
           Signup(r, pw) \/ PasswordAsked(r, pw)
    PROVE  AccInv'
  <1>1. CASE Signup(r, pw)
    <2> DEFINE q == [Idle EXCEPT !.op = "signup", !.pw = pw]
    <2>1. q \in Request /\ q.op = "signup"
      BY AccountsAssumption DEF Idle, Request, Ops
    <2>2. Start(r, q) /\ ~Exists /\ Len(sessions) < MaxSessions /\ Len(links) < MaxLinks
      BY <1>1 DEF Signup
    <2>3. 0 < MaxSessions /\ 0 < MaxLinks
      BY <2>2, UserIsRow, AccountsAssumption
    <2> HIDE DEF q
    <2>4. HoldsRows(q)
      BY <2>1, <2>3 DEF HoldsRows
    <2> QED
      BY <2>1, <2>2, <2>4, Started
  <1>2. CASE PasswordAsked(r, pw)
    <2> DEFINE q == [Idle EXCEPT !.op = "password", !.pw = pw]
    <2>1. q \in Request /\ q.op = "password"
      BY AccountsAssumption DEF Idle, Request, Ops
    <2>2. Start(r, q) /\ Exists
      BY <1>2, SignedInExists DEF PasswordAsked
    <2> HIDE DEF q
    <2> QED
      BY <2>1, <2>2, Started DEF HoldsRows
  <1> QED
    BY <1>1, <1>2

\* Requests that keep what they read of the user's row.
LEMMA RowReadersStart ==
    ASSUME AccInv, NEW r \in Requests,
           \/ ResendInvite(r) \/ ResetAsked(r) \/ VerificationAsked(r)
           \/ LoginReads(r) \/ LoginReadsWrong(r)
    PROVE  AccInv'
  <1> USE UserIsRow
  <1>1. CASE ResendInvite(r)
    <2> DEFINE q == [Idle EXCEPT !.op = "resend", !.n = Len(links)]
    <2>1. q \in Request /\ q.op = "resend"
      BY AccountsAssumption DEF Idle, Request, Ops
    <2>2. Start(r, q) /\ Exists
      BY <1>1 DEF ResendInvite, Exists
    <2> HIDE DEF q
    <2> QED
      BY <2>1, <2>2, Started DEF HoldsRows
  <1>2. CASE ResetAsked(r)
    <2> DEFINE q == [Idle EXCEPT !.op = "askReset"]
    <2>1. q \in Request /\ q.op = "askReset"
      BY AccountsAssumption DEF Idle, Request, Ops
    <2>2. Start(r, q) /\ Exists
      BY <1>2 DEF ResetAsked, Exists
    <2> HIDE DEF q
    <2> QED
      BY <2>1, <2>2, Started DEF HoldsRows
  <1>3. CASE VerificationAsked(r)
    <2> DEFINE q == [Idle EXCEPT !.op = "askVerify"]
    <2>1. q \in Request /\ q.op = "askVerify"
      BY AccountsAssumption DEF Idle, Request, Ops
    <2>2. Start(r, q) /\ Exists
      BY <1>3 DEF VerificationAsked, Exists
    <2> HIDE DEF q
    <2> QED
      BY <2>1, <2>2, Started DEF HoldsRows
  <1>4. CASE LoginReads(r)
    <2> DEFINE q == [Idle EXCEPT !.op = "login", !.pw = user.password,
                                 !.n = IF user.weak THEN 1 ELSE 0]
    <2>1. q \in Request /\ q.op = "login"
      BY AccountsAssumption DEF Idle, Request, Ops
    <2>2. Start(r, q) /\ Exists
      BY <1>4 DEF LoginReads, MayLogIn, Exists
    <2> HIDE DEF q
    <2> QED
      BY <2>1, <2>2, Started DEF HoldsRows
  <1>5. CASE LoginReadsWrong(r)
    <2> DEFINE q == [Idle EXCEPT !.op = "wrong", !.n = user.failed]
    <2>1. q \in Request /\ q.op = "wrong"
      BY AccountsAssumption DEF Idle, Request, Ops
    <2>2. Start(r, q) /\ Exists
      BY <1>5 DEF LoginReadsWrong, MayLogIn, Exists
    <2> HIDE DEF q
    <2> QED
      BY <2>1, <2>2, Started DEF HoldsRows
  <1> QED
    BY <1>1, <1>2, <1>3, <1>4, <1>5

\* Requests that name a session or a link, which exists, or an address.
LEMMA RowNamersStart ==
    ASSUME AccInv, NEW r \in Requests,
           \/ \E k \in DOMAIN sessions : RefreshReads(r, k) \/ ReuseReads(r, k)
           \/ \E i \in DOMAIN links : VerifyOpened(r, i)
           \/ \E i \in DOMAIN links, pw \in Passwords : ResetOpened(r, i, pw)
           \/ \E to \in Addresses : EmailAsked(r, to)
    PROVE  AccInv'
  <1>1. ASSUME NEW k \in DOMAIN sessions, RefreshReads(r, k)
        PROVE  AccInv'
    <2> DEFINE q == [Idle EXCEPT !.op = "refresh", !.n = k, !.live = ~sessions[k].revoked]
    <2>1. ~sessions[k].revoked /\ Start(r, q) /\ Exists /\ k \in Nat
      BY <1>1, SessionHasUser DEF RefreshReads
    <2>2. q \in Request /\ q.op = "refresh" /\ q.n = k /\ q.live
      BY <2>1, AccountsAssumption DEF Idle, Request, Ops
    <2> HIDE DEF q
    <2>3. HoldsRows(q)
      BY <2>2 DEF HoldsRows
    <2> QED
      BY <2>1, <2>2, <2>3, Started
  <1>2. ASSUME NEW k \in DOMAIN sessions, ReuseReads(r, k)
        PROVE  AccInv'
    <2> DEFINE q == [Idle EXCEPT !.op = "reuse", !.n = k]
    <2>1. Start(r, q) /\ k \in Nat /\ Exists
      BY <1>2, SessionHasUser DEF ReuseReads
    <2>2. q \in Request /\ q.op = "reuse" /\ q.n = k
      BY <2>1, AccountsAssumption DEF Idle, Request, Ops
    <2> HIDE DEF q
    <2>3. HoldsRows(q)
      BY <2>2 DEF HoldsRows
    <2> QED
      BY <2>1, <2>2, <2>3, Started
  <1>3. ASSUME NEW i \in DOMAIN links, NEW kind \in {"reset", "verify"},
               NEW pw \in Passwords \cup {NoPassword}, Opened(r, i, kind, pw)
        PROVE  AccInv'
    <2> DEFINE q == [Idle EXCEPT !.op = kind, !.n = i, !.pw = pw]
    <2>1. Start(r, q) /\ i \in Nat /\ Exists
      BY <1>3, LinkHasUser DEF Opened
    <2>2. q \in Request /\ q.op = kind /\ q.n = i
      BY <2>1, AccountsAssumption DEF Idle, Request, Ops
    <2> HIDE DEF q
    <2>3. HoldsRows(q)
      BY <2>2 DEF HoldsRows
    <2> QED
      BY <2>1, <2>2, <2>3, Started
  <1>4. ASSUME NEW to \in Addresses, EmailAsked(r, to)
        PROVE  AccInv'
    <2> DEFINE q == [Idle EXCEPT !.op = "email", !.to = to]
    <2>1. q \in Request /\ q.op = "email"
      BY AccountsAssumption DEF Idle, Request, Ops
    <2>2. Start(r, q) /\ Exists
      BY <1>4, SignedInExists DEF EmailAsked
    <2> HIDE DEF q
    <2> QED
      BY <2>1, <2>2, Started DEF HoldsRows
  <1>5. CASE \E i \in DOMAIN links : VerifyOpened(r, i)
    BY <1>3, <1>5 DEF VerifyOpened
  <1>6. CASE \E i \in DOMAIN links, pw \in Passwords : ResetOpened(r, i, pw)
    BY <1>3, <1>6 DEF ResetOpened
  <1> QED
    BY <1>1, <1>2, <1>4, <1>5, <1>6

LEMMA StartsKeep ==
    ASSUME AccInv, NEW r \in Requests, RequestStarts(r)
    PROVE  AccInv'
  BY TypedStarts, RowReadersStart, RowNamersStart DEF RequestStarts

-----------------------------------------------------------------------------
(* The requests commit.                                                    *)

LEMMA UserSame ==
    ASSUME UserPart, UNCHANGED <<user, wrong, slipped, choice>>
    PROVE  UserPart'
  BY DEF UserPart, UserTyped, LockoutCounts, PasswordIsTheChosenOne, choice, Exists

\* The three facts of the user's part, for a row that is written.
LEMMA UserWritten ==
    ASSUME user' \in UserRow, chosen' \in Passwords \cup {NoPassword}, undone' \in BOOLEAN,
           ~slipped' => /\ user'.failed = wrong'
                        /\ wrong' >= MaxAttempts => user'.lock # "none",
           ~undone' => user'.password = chosen'
    PROVE  UserPart'
  BY DEF UserPart, UserTyped, LockoutCounts, PasswordIsTheChosenOne

\* The row, the bonus, the session and the link of a sign-up.
LEMMA SignupKeeps ==
    ASSUME AccInv, NEW r \in Requests, SignupCommits(r)
    PROVE  AccInv'
  <1>1. Commit(r, "signup") /\ SignsUp(r) /\ ~Exists
    BY DEF SignupCommits, SignsUp
  <1>2. /\ user = NoUser /\ sessions = <<>> /\ links = <<>> /\ signups = 0 /\ wrong = 0
        /\ slipped \in BOOLEAN
    BY <1>1 DEF AccInv, BlankInv, CountsTyped
  <1>3. req[r].pw \in Passwords \cup {NoPassword} /\ 0 < MaxSessions /\ 0 < MaxLinks
    BY <1>1, Committing DEF AccInv, HoldsRows
  <1>4. UserPart'
    <2>1. /\ user' \in UserRow /\ user'.failed = 0 /\ user'.password = req[r].pw
          /\ user'.status = "active"
      BY <1>1, <1>3, AccountsAssumption DEF SignsUp, NoUser, UserRow
    <2>2. chosen' = req[r].pw /\ undone' = FALSE /\ wrong' = 0
      BY <1>1, <1>2 DEF SignsUp, Choose
    <2>3. user'.failed = wrong' /\ ~(wrong' >= MaxAttempts)
      BY <2>1, <2>2, AccountsAssumption
    <2>4. chosen' \in Passwords \cup {NoPassword} /\ undone' \in BOOLEAN
      BY <1>3, <2>2
    <2> QED
      BY <2>1, <2>2, <2>3, <2>4, UserWritten
  <1>5. SessionsPart' /\ DOMAIN sessions \subseteq DOMAIN sessions'
    <2>1. Len(sessions) < MaxSessions
      BY <1>2, <1>3, EmptySeq
    <2>2. Mint(0, FALSE) /\ UNCHANGED mark
      BY <1>1 DEF SignsUp
    <2> QED
      BY <2>1, <2>2, MintKeeps DEF AccInv
  <1>6. LinksTyped' /\ DOMAIN links \subseteq DOMAIN links'
    <2> DEFINE e == NewLink("verify")
    <2>1. e \in LinkRow
      BY DEF NewLink, LinkRow
    <2>2. Len(links) < MaxLinks
      BY <1>2, <1>3, EmptySeq
    <2>3. links' = Append(links, e)
      BY <1>1 DEF SignsUp
    <2> HIDE DEF e
    <2> QED
      BY <2>1, <2>2, <2>3, LinksAreKept, LinkAdded DEF AccInv
  <1>7. user'.status # "none" /\ signups' \in 0..1 /\ wrong' \in Nat /\ slipped' \in BOOLEAN
    BY <1>1, <1>2 DEF SignsUp, NoUser
  <1> QED
    BY <1>1, <1>4, <1>5, <1>6, <1>7, Committed

\* A commit that writes the user's row or none, and neither sessions nor links.
LEMMA RowsAlone ==
    ASSUME AccInv, NEW r \in Requests, NEW op, Commit(r, op),
           UNCHANGED <<sessions, links, mark, signups>>,
           UserPart', user'.status # "none", wrong' \in Nat, slipped' \in BOOLEAN
    PROVE  AccInv'
  <1>1. SessionsPart' /\ LinksTyped' /\ signups' \in 0..1
    BY SessionsSame, LinksSame DEF AccInv, CountsTyped
  <1> QED
    BY <1>1, Committed

LEMMA RejectedKeeps ==
    ASSUME AccInv, NEW r \in Requests, SignupRejected(r)
    PROVE  AccInv'
  <1>1. Commit(r, "signup") /\ UNCHANGED <<rowVars, history>> /\ Exists
    BY DEF SignupRejected
  <1>2. UserPart'
    BY <1>1, UserSame DEF AccInv, rowVars, history
  <1>3. /\ UNCHANGED <<sessions, links, mark, signups>>
        /\ user'.status # "none" /\ wrong' \in Nat /\ slipped' \in BOOLEAN
    BY <1>1 DEF AccInv, CountsTyped, rowVars, history, Exists
  <1> QED
    BY <1>1, <1>2, <1>3, RowsAlone

\* Links are mailed to the address the request read.
LEMMA MailsKeep ==
    ASSUME AccInv, NEW r \in Requests, ResendCommits(r) \/ LinkMailed(r)
    PROVE  AccInv'
  <1> DEFINE e(kind) == NewLink(kind)
  <1>1. ASSUME NEW op \in {"resend", "askReset", "askVerify"}, Commit(r, op),
               NEW kind \in {"reset", "verify"}, NEW older, Kept(older),
               links' = Append(older, e(kind)), Len(links) < MaxLinks,
               UNCHANGED <<user, sessions, history>>
        PROVE  AccInv'
    <2>1. e(kind) \in LinkRow
      BY DEF NewLink, LinkRow
    <2>2. UNCHANGED mark
      BY <1>1 DEF history
    <2> HIDE DEF e
    <2>3. LinksTyped' /\ DOMAIN links \subseteq DOMAIN links'
      BY <1>1, <2>1, <2>2, LinkAdded DEF AccInv
    <2>4. SessionsPart' /\ DOMAIN sessions \subseteq DOMAIN sessions'
      BY <1>1, <2>2, SessionsSame DEF AccInv
    <2>5. UserPart'
      BY <1>1, UserSame DEF AccInv, history
    <2>6. user'.status # "none"
      BY <1>1, CommitExists DEF AccInv, Exists
    <2>7. signups' \in 0..1 /\ wrong' \in Nat /\ slipped' \in BOOLEAN
      BY <1>1 DEF AccInv, CountsTyped, history
    <2> QED
      BY <1>1, <2>3, <2>4, <2>5, <2>6, <2>7, Committed
  <1>2. CASE ResendCommits(r)
    <2>1. links' = Append(ClosedBy(req[r]), e("reset"))
      BY <1>2 DEF ResendCommits, ClosedBy
    <2>2. Commit(r, "resend") /\ Len(links) < MaxLinks /\ UNCHANGED <<user, sessions, history>>
      BY <1>2 DEF ResendCommits
    <2>3. Kept(ClosedBy(req[r]))
      BY ClosedIsKept DEF AccInv
    <2> HIDE DEF e
    <2> QED
      BY <1>1, <2>1, <2>2, <2>3
  <1>3. CASE LinkMailed(r)
    <2>1. PICK kind \in {"reset", "verify"} :
             /\ Commit(r, IF kind = "reset" THEN "askReset" ELSE "askVerify")
             /\ links' = Append(links, e(kind))
      BY <1>3 DEF LinkMailed
    <2>2. Len(links) < MaxLinks /\ UNCHANGED <<user, sessions, history>>
      BY <1>3 DEF LinkMailed
    <2>3. Kept(links)
      BY LinksAreKept DEF AccInv
    <2>4. PICK op \in {"askReset", "askVerify"} : Commit(r, op)
      BY <2>1
    <2> HIDE DEF e
    <2> QED
      BY <1>1, <2>1, <2>2, <2>3, <2>4
  <1> QED
    BY <1>2, <1>3

LEMMA LoginsKeep ==
    ASSUME AccInv, NEW r \in Requests, LoginSucceeds(r) \/ LoginFails(r)
    PROVE  AccInv'
  <1>1. CASE LoginSucceeds(r)
    <2>1. /\ Commit(r, "login") /\ Len(sessions) < MaxSessions /\ Mint(0, FALSE)
          /\ CountersCleared /\ UNCHANGED <<links, signups, mark, chosen>>
          /\ undone' = (undone \/ Upgraded(r) # user.password)
      BY <1>1 DEF LoginSucceeds
    <2>2. Exists /\ Upgraded(r) \in Passwords \cup {NoPassword}
      BY <2>1, CommitExists, Committing, UserIsRow DEF Upgraded
    <2>3. /\ user' \in UserRow /\ user'.failed = 0 /\ user'.password = Upgraded(r)
          /\ user'.status = user.status
      BY <1>1, <2>2, UserIsRow DEF LoginSucceeds, UserRow
    <2>4. UserPart'
      <3>1. user'.failed = wrong' /\ ~(wrong' >= MaxAttempts)
        BY <2>1, <2>3, AccountsAssumption DEF CountersCleared
      <3>2. chosen' \in Passwords \cup {NoPassword} /\ undone' \in BOOLEAN
        BY <2>1 DEF AccInv, UserPart, UserTyped
      <3>3. ~undone' => user'.password = chosen'
        BY <2>1, <2>2, <2>3 DEF AccInv, UserPart, PasswordIsTheChosenOne
      <3> QED
        BY <2>3, <3>1, <3>2, <3>3, UserWritten
    <2>5. SessionsPart' /\ DOMAIN sessions \subseteq DOMAIN sessions'
      BY <2>1, MintKeeps DEF AccInv
    <2>6. LinksTyped' /\ DOMAIN links \subseteq DOMAIN links'
      BY <2>1, <2>3, LinksSame DEF AccInv
    <2>7. signups' \in 0..1 /\ wrong' \in Nat /\ slipped' \in BOOLEAN
      BY <2>1 DEF AccInv, CountsTyped, CountersCleared
    <2> QED
      BY <2>1, <2>2, <2>3, <2>4, <2>5, <2>6, <2>7, Committed DEF Exists
  <1>2. CASE LoginFails(r)
    <2> DEFINE attempts == req[r].n + 1
    <2>1. /\ Commit(r, "wrong") /\ UNCHANGED <<sessions, links, signups, mark, choice>>
          /\ wrong' = wrong + 1 /\ slipped' = (slipped \/ user.failed # req[r].n)
      BY <1>2 DEF LoginFails
    <2>2. Exists /\ req[r].n \in Nat /\ attempts \in Nat /\ wrong \in Nat /\ slipped \in BOOLEAN
      BY <2>1, CommitExists, Committing DEF AccInv, CountsTyped
    <2>3. user' = [user EXCEPT !.failed = attempts,
                               !.lock = IF LimitReached(attempts) THEN "running" ELSE "none"]
      BY <1>2 DEF LoginFails
    <2> HIDE DEF attempts
    <2>4. /\ user' \in UserRow /\ user'.failed = attempts /\ user'.password = user.password
          /\ user'.lock = (IF LimitReached(attempts) THEN "running" ELSE "none")
          /\ user'.status = user.status
      BY <2>2, <2>3, UserIsRow DEF UserRow
    <2>5. UserPart'
      <3>1. ~slipped' => user'.failed = wrong'
        BY <2>1, <2>2, <2>4 DEF AccInv, UserPart, LockoutCounts, attempts
      <3>2. user'.failed >= MaxAttempts => user'.lock # "none"
        BY <2>4 DEF LimitReached
      <3>3. chosen' \in Passwords \cup {NoPassword} /\ undone' \in BOOLEAN
        BY <2>1 DEF AccInv, UserPart, UserTyped, choice
      <3>4. ~undone' => user'.password = chosen'
        BY <2>1, <2>2, <2>4 DEF AccInv, UserPart, PasswordIsTheChosenOne, choice
      <3> QED
        BY <2>4, <3>1, <3>2, <3>3, <3>4, UserWritten
    <2>6. signups' = signups /\ wrong' \in Nat /\ slipped' \in BOOLEAN
      BY <2>1, <2>2
    <2> QED
      BY <2>1, <2>2, <2>4, <2>5, <2>6, RowsAlone DEF Exists
  <1> QED
    BY <1>1, <1>2

\* A refresh rotates the session it read; a rotated token that comes back revokes all.
LEMMA RefreshesKeep ==
    ASSUME AccInv, NEW r \in Requests, RefreshRotates(r) \/ ReuseRevokes(r)
    PROVE  AccInv'
  <1>1. ASSUME NEW op \in {"refresh", "reuse"}, Commit(r, op),
               SessionsPart', DOMAIN sessions \subseteq DOMAIN sessions',
               UNCHANGED <<user, links, signups, wrong, slipped, choice>>
        PROVE  AccInv'
    <2>1. UserPart'
      BY <1>1, UserSame DEF AccInv
    <2>2. LinksTyped' /\ DOMAIN links \subseteq DOMAIN links'
      BY <1>1, LinksSame DEF AccInv
    <2>3. user'.status # "none"
      BY <1>1, CommitExists DEF AccInv, Exists
    <2>4. signups' \in 0..1 /\ wrong' \in Nat /\ slipped' \in BOOLEAN
      BY <1>1 DEF AccInv, CountsTyped
    <2> QED
      BY <1>1, <2>1, <2>2, <2>3, <2>4, Committed
  <1>2. CASE RefreshRotates(r)
    <2>1. Commit(r, "refresh") /\ Len(sessions) < MaxSessions /\ UNCHANGED <<user, links, history>>
      BY <1>2 DEF RefreshRotates
    <2>2. req[r].n \in DOMAIN sessions /\ req[r].live /\ req[r].live \in BOOLEAN
      BY <2>1, Committing DEF AccInv, HoldsRows, Request
    <2>3. sessions[req[r].n].revoked \in BOOLEAN
      BY <2>2, SessionIsRow DEF AccInv, SessionsPart
    <2>4. (req[r].live /\ sessions[req[r].n].revoked) = sessions[req[r].n].revoked
      BY <2>2, <2>3
    <2>5. MintFrom(req[r].n, sessions[req[r].n].revoked)
      BY <1>2, <2>4 DEF RefreshRotates
    <2>6. SessionsPart' /\ DOMAIN sessions \subseteq DOMAIN sessions'
      BY <2>1, <2>2, <2>5, MintFromKeeps DEF AccInv, history
    <2>7. UNCHANGED <<user, links, signups, wrong, slipped, choice>>
      BY <2>1 DEF history
    <2> QED
      BY <1>1, <2>1, <2>6, <2>7
  <1>3. CASE ReuseRevokes(r)
    <2>1. /\ Commit(r, "reuse") /\ RevokeAll
          /\ UNCHANGED <<user, links, signups, wrong, slipped, choice>>
      BY <1>3 DEF ReuseRevokes
    <2>2. SessionsPart' /\ DOMAIN sessions \subseteq DOMAIN sessions'
      BY <2>1, RevokeAllKeeps DEF AccInv
    <2> QED
      BY <1>1, <2>1, <2>2
  <1> QED
    BY <1>2, <1>3

\* A reset link sets a password and a verification link verifies; both are used up.
LEMMA LinksUsedKeep ==
    ASSUME AccInv, NEW r \in Requests, ResetConfirmed(r) \/ VerifyConfirmed(r)
    PROVE  AccInv'
  <1>1. CASE ResetConfirmed(r)
    <2>1. /\ Commit(r, "reset") /\ RevokeAll /\ CountersCleared /\ Choose(req[r].pw)
          /\ links' = Spent(req[r].n) /\ UNCHANGED signups
      BY <1>1 DEF ResetConfirmed
    <2>2. /\ Exists /\ req[r].n \in DOMAIN links
          /\ req[r].pw \in Passwords \cup {NoPassword}
      BY <2>1, CommitExists, Committing DEF AccInv, HoldsRows
    <2>3. /\ user' \in UserRow /\ user'.failed = 0 /\ user'.password = req[r].pw
          /\ user'.status = user.status
      BY <1>1, <2>2, UserIsRow DEF ResetConfirmed, UserRow
    <2>4. UserPart'
      <3>1. user'.failed = wrong' /\ ~(wrong' >= MaxAttempts)
        BY <2>1, <2>3, AccountsAssumption DEF CountersCleared
      <3>2. chosen' = req[r].pw /\ undone' = FALSE
        BY <2>1 DEF Choose
      <3> QED
        BY <2>2, <2>3, <3>1, <3>2, UserWritten
    <2>5. SessionsPart' /\ DOMAIN sessions \subseteq DOMAIN sessions'
      BY <2>1, RevokeAllKeeps DEF AccInv
    <2>6. LinksTyped' /\ DOMAIN links \subseteq DOMAIN links'
      BY <2>1, <2>2, <2>3, SpentIsKept, LinksKeptKeeps DEF AccInv
    <2>7. signups' \in 0..1 /\ wrong' \in Nat /\ slipped' \in BOOLEAN
      BY <2>1 DEF AccInv, CountsTyped, CountersCleared
    <2> QED
      BY <2>1, <2>2, <2>3, <2>4, <2>5, <2>6, <2>7, Committed DEF Exists
  <1>2. CASE VerifyConfirmed(r)
    <2> DEFINE n == req[r].n
    <2>1. /\ Commit(r, "verify") /\ links' = Spent(n)
          /\ UNCHANGED <<sessions, signups, mark, wrong, slipped, choice>>
      BY <1>2 DEF VerifyConfirmed
    <2>2. Exists /\ n \in DOMAIN links
      BY <2>1, CommitExists, Committing DEF AccInv, HoldsRows
    <2>3. /\ user' \in UserRow /\ user'.failed = user.failed /\ user'.password = user.password
          /\ user'.lock = user.lock /\ user'.status = user.status
      BY <1>2, UserIsRow DEF VerifyConfirmed, UserRow
    <2>4. UserPart'
      BY <2>1, <2>2, <2>3
         DEF AccInv, UserPart, UserTyped, LockoutCounts, PasswordIsTheChosenOne, Exists, choice
    <2>5. SessionsPart' /\ DOMAIN sessions \subseteq DOMAIN sessions'
      BY <2>1, SessionsSame DEF AccInv
    <2>6. LinksTyped' /\ DOMAIN links \subseteq DOMAIN links'
      <3>1. Kept(links')
        BY <2>1, <2>2, SpentIsKept DEF AccInv
      <3> QED
        BY <3>1, LinksKeptKeeps DEF AccInv
    <2>7. signups' \in 0..1 /\ wrong' \in Nat /\ slipped' \in BOOLEAN
      BY <2>1 DEF AccInv, CountsTyped
    <2> QED
      BY <2>1, <2>2, <2>3, <2>4, <2>5, <2>6, <2>7, Committed DEF Exists
  <1> QED
    BY <1>1, <1>2

LEMMA PasswordKeeps ==
    ASSUME AccInv, NEW r \in Requests, PasswordChanged(r)
    PROVE  AccInv'
  <1>1. /\ Commit(r, "password") /\ Choose(req[r].pw)
        /\ UNCHANGED <<sessions, links, signups, mark, wrong, slipped>>
    BY DEF PasswordChanged
  <1>2. Exists /\ req[r].pw \in Passwords \cup {NoPassword}
    BY <1>1, CommitExists, Committing DEF AccInv
  <1>3. /\ user' \in UserRow /\ user'.failed = user.failed /\ user'.password = req[r].pw
        /\ user'.lock = user.lock /\ user'.status = user.status
    BY <1>2, UserIsRow DEF PasswordChanged, UserRow
  <1>4. UserPart'
    <2>1. chosen' = req[r].pw /\ undone' = FALSE
      BY <1>1 DEF Choose
    <2>2. ~slipped' => /\ user'.failed = wrong'
                       /\ wrong' >= MaxAttempts => user'.lock # "none"
      BY <1>1, <1>3 DEF AccInv, UserPart, LockoutCounts
    <2> QED
      BY <1>2, <1>3, <2>1, <2>2, UserWritten
  <1>5. wrong' \in Nat /\ slipped' \in BOOLEAN
    BY <1>1 DEF AccInv, CountsTyped
  <1> QED
    BY <1>1, <1>2, <1>3, <1>4, <1>5, RowsAlone DEF Exists

LEMMA EmailKeeps ==
    ASSUME AccInv, NEW r \in Requests, EmailChanged(r)
    PROVE  AccInv'
  <1> DEFINE to == req[r].to
             e == NewLink("verify")
  <1>1. /\ Commit(r, "email") /\ Len(links) < MaxLinks
        /\ user' = [user EXCEPT !.email = to, !.verified = FALSE]
        /\ links' = Append(links, e)
        /\ UNCHANGED <<sessions, signups, mark, wrong, slipped, choice>>
    BY DEF EmailChanged
  <1>2. Exists /\ to \in Addresses
    BY <1>1, CommitExists, Committing DEF AccInv
  <1>3. /\ user' \in UserRow /\ user'.failed = user.failed /\ user'.password = user.password
        /\ user'.lock = user.lock /\ user'.status = user.status
    BY <1>1, <1>2, UserIsRow DEF UserRow
  <1>4. UserPart'
    BY <1>1, <1>2, <1>3
       DEF AccInv, UserPart, UserTyped, LockoutCounts, PasswordIsTheChosenOne, Exists, choice
  <1>5. SessionsPart' /\ DOMAIN sessions \subseteq DOMAIN sessions'
    BY <1>1, SessionsSame DEF AccInv
  <1>6. LinksTyped' /\ DOMAIN links \subseteq DOMAIN links'
    <2>1. e \in LinkRow
      BY DEF NewLink, LinkRow
    <2> HIDE DEF e
    <2> QED
      BY <1>1, <2>1, LinksAreKept, LinkAdded DEF AccInv
  <1>7. signups' \in 0..1 /\ wrong' \in Nat /\ slipped' \in BOOLEAN
    BY <1>1 DEF AccInv, CountsTyped
  <1> QED
    BY <1>1, <1>2, <1>3, <1>4, <1>5, <1>6, <1>7, Committed DEF Exists

LEMMA CommitsKeep ==
    ASSUME AccInv, NEW r \in Requests, RequestCommits(r)
    PROVE  AccInv'
  BY SignupKeeps, RejectedKeeps, MailsKeep, LoginsKeep, RefreshesKeep, LinksUsedKeep,
     PasswordKeeps, EmailKeeps DEF RequestCommits

-----------------------------------------------------------------------------
(* What happens to an account without a request of its user.               *)

\* A step that leaves the requests alone, on an account that exists afterwards.
LEMMA Unasked ==
    ASSUME AccInv, UserPart', SessionsPart', LinksTyped', user'.status # "none",
           UNCHANGED <<req, starts, signups>>, wrong' \in Nat, slipped' \in BOOLEAN,
           DOMAIN sessions \subseteq DOMAIN sessions', DOMAIN links \subseteq DOMAIN links'
    PROVE  AccInv'
  <1>1. CountsTyped'
    BY DEF AccInv, CountsTyped
  <1>2. RequestsPart'
    BY RequestsSame DEF AccInv
  <1>3. BlankInv'
    BY OnceItExists
  <1> QED
    BY <1>1, <1>2, <1>3 DEF AccInv

\* Sessions that are logged out and links that expire.
LEMMA RowsEnd ==
    ASSUME AccInv,
           \/ \E k \in DOMAIN sessions : Logout(k)
           \/ \E i \in DOMAIN links : LinkExpires(i)
    PROVE  AccInv'
  <1>1. ASSUME NEW k \in DOMAIN sessions, Logout(k)
        PROVE  AccInv'
    <2>1. sessions' = Revoked(k) /\ UNCHANGED <<user, links, req, starts, history>>
      BY <1>1 DEF Logout, Revoked
    <2>2. SessionsPart' /\ DOMAIN sessions \subseteq DOMAIN sessions'
      BY <2>1, RevokeOneKeeps DEF AccInv, history
    <2>3. LinksTyped' /\ UserPart' /\ user'.status # "none"
      BY <2>1, SessionHasUser, LinksSame, UserSame DEF AccInv, history, Exists
    <2>4. wrong' \in Nat /\ slipped' \in BOOLEAN /\ signups' = signups
      BY <2>1 DEF AccInv, CountsTyped, history
    <2> QED
      BY <2>1, <2>2, <2>3, <2>4, Unasked
  <1>2. ASSUME NEW i \in DOMAIN links, LinkExpires(i)
        PROVE  AccInv'
    <2>1. links' = Spent(i) /\ UNCHANGED <<user, sessions, req, starts, history>>
      BY <1>2 DEF LinkExpires
    <2>2. LinksTyped' /\ DOMAIN links \subseteq DOMAIN links'
      BY <2>1, SpentIsKept, LinksKeptKeeps DEF AccInv, history
    <2>3. SessionsPart' /\ UserPart' /\ user'.status # "none"
      BY <2>1, LinkHasUser, SessionsSame, UserSame DEF AccInv, history, Exists
    <2>4. wrong' \in Nat /\ slipped' \in BOOLEAN /\ signups' = signups
      BY <2>1 DEF AccInv, CountsTyped, history
    <2> QED
      BY <2>1, <2>2, <2>3, <2>4, Unasked
  <1> QED
    BY <1>1, <1>2

\* The end of a lockout, a release, the operator.
LEMMA RowEdited ==
    ASSUME AccInv,
           \/ LockEnds \/ RoundsRaised \/ Unlocked
           \/ \E status \in {"active", "suspended"} : StatusSet(status)
    PROVE  AccInv'
  <1>1. ASSUME UserPart', user'.status # "none",
               UNCHANGED <<sessions, links, req, starts, signups, mark>>,
               wrong' \in Nat, slipped' \in BOOLEAN
        PROVE  AccInv'
    <2>1. SessionsPart' /\ LinksTyped'
      BY <1>1, SessionsSame, LinksSame DEF AccInv
    <2> QED
      BY <1>1, <2>1, Unasked
  <1>2. wrong \in Nat /\ slipped \in BOOLEAN /\ user \in UserRow
    BY UserIsRow DEF AccInv, CountsTyped
  <1>3. ASSUME NEW status \in {"pending", "active", "suspended"}, Exists,
               user' = [user EXCEPT !.status = status, !.failed = 0, !.lock = "none"],
               CountersCleared,
               UNCHANGED <<sessions, links, req, starts, signups, mark, choice>>
        PROVE  AccInv'
    <2>1. /\ user' \in UserRow /\ user'.failed = 0 /\ user'.password = user.password
          /\ user'.status = status
      BY <1>2, <1>3 DEF UserRow
    <2>a. wrong' = 0 /\ slipped' = FALSE
      BY <1>3 DEF CountersCleared
    <2>2. user'.failed = wrong' /\ ~(wrong' >= MaxAttempts)
      BY <2>1, <2>a, AccountsAssumption
    <2>3. chosen' \in Passwords \cup {NoPassword} /\ undone' \in BOOLEAN
      BY <1>3 DEF AccInv, UserPart, UserTyped, choice
    <2>4. ~undone' => user'.password = chosen'
      BY <1>3, <2>1 DEF AccInv, UserPart, PasswordIsTheChosenOne, choice
    <2>5. UserPart'
      BY <2>1, <2>2, <2>3, <2>4, UserWritten
    <2> QED
      BY <1>1, <1>3, <2>1, <2>a, <2>5
  <1>4. CASE LockEnds
    <2>1. /\ user.lock = "running" /\ user' = [user EXCEPT !.lock = "over"]
          /\ UNCHANGED <<sessions, links, req, starts, history>>
      BY <1>4 DEF LockEnds
    <2>2. Exists
      BY <2>1 DEF AccInv, BlankInv, NoUser
    <2>3. /\ user' \in UserRow /\ user'.failed = user.failed /\ user'.lock = "over"
          /\ user'.password = user.password /\ user'.status = user.status
      BY <1>2, <2>1 DEF UserRow
    <2>4. UserPart'
      BY <2>1, <2>2, <2>3 DEF AccInv, UserPart, UserTyped, LockoutCounts,
                              PasswordIsTheChosenOne, Exists, history, choice
    <2> QED
      BY <1>1, <1>2, <2>1, <2>2, <2>3, <2>4 DEF history, Exists
  <1>5. CASE RoundsRaised
    <2>1. /\ Exists /\ user' = [user EXCEPT !.weak = TRUE]
          /\ UNCHANGED <<sessions, links, req, starts, history>>
      BY <1>5 DEF RoundsRaised
    <2>2. /\ user' \in UserRow /\ user'.failed = user.failed /\ user'.lock = user.lock
          /\ user'.password = user.password /\ user'.status = user.status
      BY <1>2, <2>1 DEF UserRow
    <2>3. UserPart'
      BY <2>1, <2>2 DEF AccInv, UserPart, UserTyped, LockoutCounts,
                        PasswordIsTheChosenOne, Exists, history, choice
    <2> QED
      BY <1>1, <1>2, <2>1, <2>2, <2>3 DEF history, Exists
  <1>6. CASE Unlocked
    <2>1. user.status \in {"pending", "active", "suspended"} /\ Exists
      BY <1>2, <1>6 DEF Unlocked, Exists, UserRow
    <2>2. user' = [user EXCEPT !.status = user.status, !.failed = 0, !.lock = "none"]
      BY <1>2, <1>6 DEF Unlocked, UserRow
    <2> QED
      BY <1>3, <1>6, <2>1, <2>2 DEF Unlocked
  <1>7. CASE \E status \in {"active", "suspended"} : StatusSet(status)
    BY <1>3, <1>7 DEF StatusSet
  <1> QED
    BY <1>4, <1>5, <1>6, <1>7

\* An owner's invitation makes the row without a request of its user.
LEMMA InviteKeeps ==
    ASSUME AccInv, Invite
    PROVE  AccInv'
  <1> DEFINE e == NewLink("reset")
  <1>1. /\ ~Exists /\ Len(links) < MaxLinks /\ links' = Append(links, e)
        /\ user' = [NoUser EXCEPT !.status = "pending"]
        /\ UNCHANGED <<sessions, req, starts, history>>
    BY DEF Invite
  <1>2. /\ user = NoUser /\ wrong = 0 /\ slipped \in BOOLEAN
        /\ chosen = NoPassword /\ undone = FALSE
    BY <1>1 DEF AccInv, BlankInv, CountsTyped
  <1>3. /\ user' \in UserRow /\ user'.failed = 0 /\ user'.password = NoPassword
        /\ user'.status = "pending"
    BY <1>1, <1>2, AccountsAssumption DEF NoUser, UserRow
  <1>4. UserPart'
    <2>1. user'.failed = wrong' /\ ~(wrong' >= MaxAttempts)
      BY <1>1, <1>2, <1>3, AccountsAssumption DEF history
    <2>2. chosen' = NoPassword /\ undone' = FALSE
      BY <1>1, <1>2 DEF history, choice
    <2> QED
      BY <1>3, <2>1, <2>2, UserWritten
  <1>5. SessionsPart'
    BY <1>1, SessionsSame DEF AccInv, history
  <1>6. LinksTyped' /\ DOMAIN links \subseteq DOMAIN links'
    <2>1. e \in LinkRow
      BY DEF NewLink, LinkRow
    <2> HIDE DEF e
    <2> QED
      BY <1>1, <1>3, <2>1, LinksAreKept, LinkAdded DEF AccInv, history
  <1>7. wrong' \in Nat /\ slipped' \in BOOLEAN /\ signups' = signups
    BY <1>1, <1>2 DEF history
  <1> QED
    BY <1>1, <1>3, <1>4, <1>5, <1>6, <1>7, Unasked

-----------------------------------------------------------------------------
LEMMA AccStutter ==
    ASSUME AccInv, UNCHANGED accVars
    PROVE  AccInv'
  <1>1. UserPart' /\ SessionsPart' /\ LinksTyped' /\ RequestsPart'
    BY UserSame, SessionsSame, LinksSame, RequestsSame
       DEF AccInv, accVars, rowVars, history
  <1>2. CountsTyped' /\ BlankInv'
    BY DEF AccInv, CountsTyped, BlankInv, Exists, accVars, rowVars, history, choice
  <1> QED
    BY <1>1, <1>2 DEF AccInv

LEMMA AccInitInv == AccInit => AccInv
  <1> SUFFICES ASSUME AccInit PROVE AccInv
    OBVIOUS
  <1>1. sessions = <<>> /\ links = <<>> /\ DOMAIN sessions = {} /\ DOMAIN links = {}
    BY DEF AccInit
  <1>2. NoUser \in UserRow /\ NoUser.failed = 0 /\ NoUser.password = NoPassword
        /\ NoUser.status = "none"
    BY AccountsAssumption DEF NoUser, UserRow
  <1>3. UserPart
    <2>1. user = NoUser /\ wrong = 0 /\ ~(0 >= MaxAttempts)
      BY AccountsAssumption DEF AccInit
    <2>2. UserTyped
      BY <1>2, <2>1 DEF AccInit, UserTyped
    <2>3. LockoutCounts /\ PasswordIsTheChosenOne
      BY <1>2, <2>1 DEF AccInit, LockoutCounts, PasswordIsTheChosenOne
    <2> QED
      BY <2>2, <2>3 DEF UserPart
  <1>4. SessionsPart
    BY <1>1, EmptySeq, AccountsAssumption DEF AccInit, SessionsPart, SessionsTyped, ChainInv,
                                             RotationIsLinear, RevocationHolds
  <1>5. LinksTyped
    BY <1>1, <1>2, EmptySeq, AccountsAssumption
       DEF AccInit, LinksTyped
  <1>6. RequestsPart
    BY IdleIsRequest DEF AccInit, RequestsPart, ReqTyped, RequestsInv, HoldsRows
  <1>7. CountsTyped
    <2>1. starts = 0 /\ signups = 0 /\ wrong = 0
      BY DEF AccInit
    <2>2. slipped \in BOOLEAN
      BY DEF AccInit
    <2> QED
      BY <2>1, <2>2 DEF CountsTyped
  <1>8. BlankInv
    BY IdleIsRequest DEF AccInit, BlankInv
  <1> QED
    BY <1>3, <1>4, <1>5, <1>6, <1>7, <1>8 DEF AccInv

LEMMA AccStepInv == AccInv /\ [AccNext]_accVars => AccInv'
  <1> SUFFICES ASSUME AccInv, [AccNext]_accVars PROVE AccInv'
    OBVIOUS
  <1>1. CASE \E r \in Requests : RequestStarts(r) \/ RequestCommits(r)
    BY <1>1, StartsKeep, CommitsKeep
  <1>2. CASE \/ \E k \in DOMAIN sessions : Logout(k)
             \/ \E i \in DOMAIN links : LinkExpires(i)
    BY <1>2, RowsEnd
  <1>3. CASE \/ LockEnds \/ RoundsRaised \/ Unlocked
             \/ \E status \in {"active", "suspended"} : StatusSet(status)
    BY <1>3, RowEdited
  <1>4. CASE Invite
    BY <1>4, InviteKeeps
  <1>5. CASE UNCHANGED accVars
    BY <1>5, AccStutter
  <1> QED
    BY <1>1, <1>2, <1>3, <1>4, <1>5 DEF AccNext

\* The account, its sessions and its links agree in every state.
THEOREM AccInvariance == AccSpec => []AccInv
  BY AccInitInv, AccStepInv, PTL DEF AccSpec

\* Every row has its type, no bound is passed, and one sign-up of an address is given
\* the signup bonus however many requests sign it up.
THEOREM AccountsAreTyped == AccSpec => []AccTypeOK
  <1>1. AccInv => AccTypeOK
    BY DEF AccInv, UserPart, UserTyped, CountsTyped, SessionsPart, SessionsTyped,
           LinksTyped, RequestsPart, ReqTyped, AccTypeOK
  <1> QED
    BY <1>1, AccInvariance, PTL

\* auth.refresh: a session is continued once, unless a refresh had read it before it
\* was rotated.
THEOREM RefreshTokensAreSingleUse == AccSpec => []RotationIsLinear
  <1>1. AccInv => RotationIsLinear
    BY DEF AccInv, SessionsPart
  <1> QED
    BY <1>1, AccInvariance, PTL

\* auth.reset_confirm and the reuse of a rotated token: no session from before is live
\* after it, and none that continues one but by a refresh that crossed it.
THEOREM ResetEndsSessions == AccSpec => []RevocationHolds
  <1>1. AccInv => RevocationHolds
    BY DEF AccInv, SessionsPart
  <1> QED
    BY <1>1, AccInvariance, PTL

\* auth.login: wrong passwords checked one after the other are all counted, and the
\* account is locked at login_max_attempts.
THEOREM WrongPasswordsAreCounted == AccSpec => []LockoutCounts
  <1>1. AccInv => LockoutCounts
    BY DEF AccInv, UserPart
  <1> QED
    BY <1>1, AccInvariance, PTL

\* auth.login upgrades a weak hash: the password stays the one its owner chose last,
\* unless a login had read the row before the choice.
THEOREM PasswordsStay == AccSpec => []PasswordIsTheChosenOne
  <1>1. AccInv => PasswordIsTheChosenOne
    BY DEF AccInv, UserPart
  <1> QED
    BY <1>1, AccInvariance, PTL

=============================================================================
