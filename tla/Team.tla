-------------------------------- MODULE Team --------------------------------
(***************************************************************************)
(* The people of one store: their users rows, and the access tokens they   *)
(* hold. A token carries the role and the address its user had when it was *)
(* minted and is believed for fifteen minutes; the handlers of the team    *)
(* page look at the token and then change rows in one statement.           *)
(***************************************************************************)
EXTENDS FiniteSets, Naturals

CONSTANTS
    Members,    \* user ids
    Founder,    \* the one whose signup made the store
    Addresses,  \* e-mail addresses
    FirstAddress, \* the founder's
    MaxTokens   \* bound: tokens alive at once

ASSUME TeamAssumption ==
    /\ Founder \in Members
    /\ FirstAddress \in Addresses
    /\ MaxTokens \in Nat

VARIABLES
    member,  \* users rows of the store
    tokens,  \* unexpired access tokens
    excused  \* history: an outdated token was used, or an operator stepped in

teamVars == <<member, tokens, excused>>

Roles == {"owner", "staff"}
NoMember == [status |-> "none", role |-> "staff", email |-> FirstAddress]

People == {m \in Members : member[m].status # "none"}
Free(address) == \A m \in People : member[m].email # address

\* What its holder could do is what the row says now.
UpToDate(t) ==
    /\ member[t.who].status = "active"
    /\ member[t.who].role = t.role
    /\ member[t.who].email = t.email

\* _require_tenant and the owner check read nothing but the token.
ByOwner(t) == t.role = "owner"
Outdated(t) == excused' = (excused \/ ~UpToDate(t))

-----------------------------------------------------------------------------
\* login or refresh: the claims are those of the row it read.
LogsIn(m) ==
    /\ member[m].status = "active"
    /\ Cardinality(tokens) < MaxTokens
    /\ tokens' = tokens \cup {[who |-> m, role |-> member[m].role, email |-> member[m].email]}
    /\ UNCHANGED <<member, excused>>

TokenExpires(t) ==
    /\ tokens' = tokens \ {t}
    /\ UNCHANGED <<member, excused>>

\* The lookup finds the address free and the unique index keeps it so.
Invite(t, m, address) ==
    /\ ByOwner(t)
    /\ member[m].status = "none" /\ Free(address)
    /\ member' = [member EXCEPT ![m] = [status |-> "pending", role |-> "staff", email |-> address]]
    /\ UNCHANGED <<tokens, excused>>

\* Mutant of Colleague: an owner may name themself.
AnyMember(t, m) == m \in People

\* The address typed is a member's, and not the token's own.
Colleague(t, m) == m \in People /\ member[m].email # t.email

\* "You cannot change your own role": the address typed is compared with the token's.
TeamRole(t, m, role) ==
    /\ ByOwner(t)
    /\ Colleague(t, m)
    /\ member' = [member EXCEPT ![m].role = role]
    /\ Outdated(t)
    /\ UNCHANGED tokens

TeamRemove(t, m) ==
    /\ ByOwner(t)
    /\ Colleague(t, m)
    /\ member' = [member EXCEPT ![m] = NoMember]
    /\ Outdated(t)
    /\ UNCHANGED tokens

\* change_email finds the row by the token's user id.
ChangeEmail(t, address) ==
    /\ t.who \in People /\ Free(address)
    /\ member' = [member EXCEPT ![t.who].email = address]
    /\ UNCHANGED <<tokens, excused>>

\* set_user_role and set_user_status of the operators' pages: any row, any time. Only
\* this status change makes an invited colleague active.
OperatorRole(m, role) ==
    /\ m \in People
    /\ member' = [member EXCEPT ![m].role = role]
    /\ excused' = (excused \/ role # "owner")
    /\ UNCHANGED tokens

OperatorStatus(m, status) ==
    /\ m \in People
    /\ member' = [member EXCEPT ![m].status = status]
    /\ excused' = (excused \/ status # "active")
    /\ UNCHANGED tokens

-----------------------------------------------------------------------------
TeamInit ==
    /\ member = [m \in Members |-> IF m = Founder
                    THEN [status |-> "active", role |-> "owner", email |-> FirstAddress]
                    ELSE NoMember]
    /\ tokens = {}
    /\ excused = FALSE

OwnerActs(t) ==
    \/ \E m \in Members, address \in Addresses : Invite(t, m, address)
    \/ \E m \in Members, role \in Roles : TeamRole(t, m, role)
    \/ \E m \in Members : TeamRemove(t, m)

TeamNext ==
    \/ \E m \in Members : LogsIn(m)
    \/ \E t \in tokens : TokenExpires(t) \/ OwnerActs(t)
    \/ \E t \in tokens, address \in Addresses : ChangeEmail(t, address)
    \/ \E m \in Members, role \in Roles : OperatorRole(m, role)
    \/ \E m \in Members, status \in {"active", "suspended"} : OperatorStatus(m, status)

TeamSpec == TeamInit /\ [][TeamNext]_teamVars

-----------------------------------------------------------------------------
(* Properties.                                                             *)

\* A store keeps an owner who can sign in: nobody removes or demotes themself, so
\* whoever acted last is still one, unless it was with a token that no longer said
\* what the row says, or an operator took the role or the account away.
OwnerRemains ==
    excused \/ \E m \in Members : member[m].status = "active" /\ member[m].role = "owner"

=============================================================================
