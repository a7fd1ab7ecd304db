--------------------------- MODULE CustomerSessions ---------------------------
(***************************************************************************)
(* Customer sessions (auth.service.ts): signing in with Google, exchanging *)
(* a refresh token for a new pair, and the administrator who disables and  *)
(* enables the account meanwhile. Every request is a process and every     *)
(* awaited database call a step. A request issues at most one token, which *)
(* goes by the request's name.                                             *)
(***************************************************************************)
EXTENDS Integers, FiniteSets

CONSTANTS
    User, Request,
    None,
    Take,          \* candidates a rotation reads, newest first (100)
    MaxFaults,     \* bound: failed calls, lost answers
    MaxSwitches    \* bound: times an administrator disables or enables an account

ASSUME RequestAssumption == IsFiniteSet(Request) /\ None \notin Request \cup User
ASSUME TakeAssumption == Take \in Nat \ {0}
ASSUME BoundAssumption == MaxFaults \in Nat /\ MaxSwitches \in Nat

VARIABLES
    account,   \* [User -> what isActive and deletedAt of its row say]
    pc,        \* [Request -> the call the request awaits, or its answer]
    user,      \* [Request -> the account it signs in or refreshes]
    from,      \* [Request -> the refresh token it was sent]
    seen,      \* [Request -> the account as the rotation read it with the token]
    token,     \* [Request -> the RefreshToken row the request created]
    nr,        \* [Request -> the order of creation of that row]
    root,      \* [Request -> the sign-in its session began with]
    overlaps,  \* [Request -> rotations, in the session begun by that sign-in, that
               \* revoked a token another rotation had revoked]
    late,      \* requests past their last check when their account was disabled
    faults, switches

request == <<pc, user, from, seen, root>>
table == <<token, nr>>
vars == <<account, request, table, overlaps, late, faults, switches>>

TypeOK ==
    /\ account \in [User -> {"absent", "active", "disabled"}]
    /\ pc \in [Request -> {"new", "insert", "revoke", "check", "create",
                           "issued", "refused", "failed"}]
    /\ user \in [Request -> User \cup {None}]
    /\ from \in [Request -> Request \cup {None}]
    /\ seen \in [Request -> {"unread", "active", "disabled"}]
    /\ token \in [Request -> {"none", "live", "revoked", "expired"}]
    /\ nr \in [Request -> 0 .. Cardinality(Request)]
    /\ \A r, s \in Request : nr[r] = nr[s] /\ nr[r] > 0 => r = s
    /\ \A r \in Request : pc[r] = "issued" => token[r] # "none"
    /\ root \in [Request -> Request \cup {None}]
    /\ overlaps \in [Request -> Nat]
    /\ late \subseteq Request
    /\ faults \in Nat
    /\ switches \in Nat

Init ==
    /\ account = [u \in User |-> "absent"]
    /\ pc = [r \in Request |-> "new"]
    /\ user = [r \in Request |-> None]
    /\ from = [r \in Request |-> None]
    /\ seen = [r \in Request |-> "unread"]
    /\ token = [r \in Request |-> "none"]
    /\ nr = [r \in Request |-> 0]
    /\ root = [r \in Request |-> None]
    /\ overlaps = [r \in Request |-> 0]
    /\ late = {}
    /\ faults = 0
    /\ switches = 0

Fault == faults < MaxFaults /\ faults' = faults + 1

Goto(r, label) == pc' = [pc EXCEPT ![r] = label]

-----------------------------------------------------------------------------
(* loginWithGoogleProfile.                                                 *)

\* The upsert finds the account and updates its profile, or finds none. A disabled or
\* deleted account is refused.
SignIn(r, u) ==
    /\ pc[r] = "new"
    /\ user' = [user EXCEPT ![r] = u]
    /\ root' = [root EXCEPT ![r] = r]
    /\ Goto(r, CASE account[u] = "absent" -> "insert"
                 [] account[u] = "active" -> "check"
                 [] account[u] = "disabled" -> "refused")
    /\ UNCHANGED <<account, from, seen, table, overlaps, late, faults, switches>>

\* The upsert creates the account; the unique e-mail lets one of two first sign-ins
\* through, the other fails.
Insert(r) ==
    /\ pc[r] = "insert"
    /\ IF account[user[r]] = "absent"
       THEN account' = [account EXCEPT ![user[r]] = "active"] /\ Goto(r, "check")
       ELSE Goto(r, "failed") /\ UNCHANGED account
    /\ UNCHANGED <<user, from, seen, root, table, overlaps, late, faults, switches>>

-----------------------------------------------------------------------------
(* rotateRefreshToken.                                                     *)

Live == {t \in Request : token[t] = "live"}

\* Mutant: the oldest Take tokens instead of the newest.
OldestFirst == {t \in Live : Cardinality({s \in Live : nr[s] < nr[t]}) < Take}

\* The Take newest tokens neither revoked nor expired, of all customers.
Candidates == {t \in Live : Cardinality({s \in Live : nr[s] > nr[t]}) < Take}

\* A client sends a token it was given, the latest or an earlier one; the rotation reads
\* the candidates, with their accounts.
Present(r, t) ==
    /\ pc[r] = "new"
    /\ pc[t] = "issued"
    /\ user' = [user EXCEPT ![r] = user[t]]
    /\ from' = [from EXCEPT ![r] = t]
    /\ root' = [root EXCEPT ![r] = root[t]]
    /\ IF t \in Candidates
       THEN Goto(r, "revoke") /\ seen' = [seen EXCEPT ![r] = account[user[t]]]
       ELSE Goto(r, "refused") /\ UNCHANGED seen
    /\ UNCHANGED <<account, table, overlaps, late, faults, switches>>

\* Mutant: the presented token stays valid.
NotRevoked(t) == token' = token

\* The update by id, whatever the row's state by now.
Revoked(t) == token' = [token EXCEPT ![t] = "revoked"]

\* The token is used up, also when its account turns out to have been disabled.
Revoke(r) ==
    /\ pc[r] = "revoke"
    /\ Revoked(from[r])
    /\ overlaps' = [overlaps EXCEPT ![root[r]] = IF token[from[r]] = "revoked" THEN @ + 1 ELSE @]
    /\ Goto(r, IF seen[r] = "active" THEN "check" ELSE "refused")
    /\ UNCHANGED <<account, user, from, seen, root, nr, late, faults, switches>>

-----------------------------------------------------------------------------
(* issueTokens.                                                            *)

\* Mutant: the accounts are not looked at again.
CheckedBefore(u) == TRUE

StillActive(u) == account[u] = "active"

Check(r) ==
    /\ pc[r] = "check"
    /\ Goto(r, IF StillActive(user[r]) THEN "create" ELSE "refused")
    /\ UNCHANGED <<account, user, from, seen, root, table, overlaps, late, faults, switches>>

Issued(r) ==
    /\ token' = [token EXCEPT ![r] = "live"]
    /\ nr' = [nr EXCEPT ![r] = Cardinality({s \in Request : nr[s] > 0}) + 1]

\* The access token is signed, then the refresh token's row is created and answered.
Create(r) ==
    /\ pc[r] = "create"
    /\ Issued(r)
    /\ Goto(r, "issued")
    /\ UNCHANGED <<account, user, from, seen, root, overlaps, late, faults, switches>>

\* A call fails, written or not, or its answer does not reach the client: nothing takes
\* back what was written before.
Fails(r) ==
    /\ Fault
    /\ Goto(r, "failed")
    /\ \/ pc[r] \in {"insert", "check", "create", "revoke"} /\ UNCHANGED <<table, overlaps>>
       \/ pc[r] = "create" /\ Issued(r) /\ UNCHANGED overlaps
       \/ /\ pc[r] = "revoke"
          /\ Revoked(from[r])
          /\ UNCHANGED <<nr, overlaps>>
    /\ UNCHANGED <<account, user, from, seen, root, late, switches>>

-----------------------------------------------------------------------------
(* The administrator and time.                                             *)

\* updateUser with isActive: sessions and requests under way are left alone.
Disable(u) ==
    /\ account[u] = "active" /\ switches < MaxSwitches
    /\ account' = [account EXCEPT ![u] = "disabled"]
    /\ late' = late \cup {r \in Request : user[r] = u /\ pc[r] = "create"}
    /\ switches' = switches + 1
    /\ UNCHANGED <<request, table, overlaps, faults>>

Enable(u) ==
    /\ account[u] = "disabled" /\ switches < MaxSwitches
    /\ account' = [account EXCEPT ![u] = "active"]
    /\ switches' = switches + 1
    /\ UNCHANGED <<request, table, overlaps, late, faults>>

\* Thirty days pass.
Expire(t) ==
    /\ token[t] = "live"
    /\ token' = [token EXCEPT ![t] = "expired"]
    /\ UNCHANGED <<account, request, nr, overlaps, late, faults, switches>>

-----------------------------------------------------------------------------

Step(r) ==
    \/ \E u \in User : SignIn(r, u)
    \/ \E t \in Request : Present(r, t)
    \/ Insert(r) \/ Revoke(r) \/ Check(r) \/ Create(r)
    \/ Fails(r)

Next ==
    \/ \E r \in Request : Step(r) \/ Expire(r)
    \/ \E u \in User : Disable(u) \/ Enable(u)

Spec == Init /\ [][Next]_vars

-----------------------------------------------------------------------------
(* Properties.                                                             *)

\* Sessions do not multiply: the sign-in's one session has one valid refresh token,
\* plus one for every rotation that overlapped another of the same token (the update
\* that revokes it is not conditional). Reusing a token later gives nothing.
SessionsDoNotMultiply ==
    \A s \in Request : Cardinality({t \in Live : root[t] = s}) <= 1 + overlaps[s]

\* Once an account is disabled only a request that was past issueTokens' check at that
\* moment still creates a token for it, however many were under way.
DisabledGetsNothing ==
    [][\A r \in Request : token[r] = "none" /\ token'[r] = "live"
                            => account[user[r]] = "active" \/ r \in late]_vars

\* A token that is refused and stays valid had Take newer ones before it, of whichever
\* customers: below that a client that holds a valid token is served.
NewestServed ==
    \A r \in Request :
        pc[r] = "refused" /\ from[r] # None /\ token[from[r]] = "live"
            => Cardinality({s \in Request : nr[s] > nr[from[r]]}) >= Take

-----------------------------------------------------------------------------
(* Why they hold: the inductive invariant.                                 *)

Unanswered == {"new", "insert", "revoke", "check", "create"}

\* What a request knows of the token it was sent and of the session it belongs to.
RequestsInOrder ==
    \A r \in Request :
        /\ pc[r] = "new" => root[r] = None
        /\ pc[r] # "new" => user[r] \in User /\ root[r] \in Request
        /\ root[r] \in Request => pc[root[r]] # "new"
        /\ pc[r] \in {"revoke", "check", "create", "issued"} => account[user[r]] # "absent"
        /\ pc[r] \in {"new", "insert"} => from[r] = None
        /\ pc[r] = "revoke" => from[r] \in Request
        /\ from[r] \in Request => pc[from[r]] = "issued" /\ root[from[r]] = root[r]

\* A request creates its row at the end, under a number higher than all before.
RowsInOrder ==
    \A r \in Request :
        /\ pc[r] \in Unanswered => token[r] = "none" /\ nr[r] = 0
        /\ nr[r] <= Cardinality({s \in Request : nr[s] > 0})

\* A rotation that goes on has used its token up.
UsedUp ==
    \A r \in Request :
        from[r] \in Request /\ pc[r] \in {"check", "create"} => token[from[r]] # "live"

\* The tokens of a session that a rotation may still exchange, and the requests that
\* will create another.
Owed(s) ==
    {t \in Request : root[t] = s /\ (token[t] \in {"live", "expired"}
                                       \/ pc[t] \in {"insert", "check", "create"})}

OneOwed ==
    \A s \in Request : Cardinality(Owed(s)) <= 1 + overlaps[s]

\* The account was active when the request passed its last check, or the request is late.
PassedActive ==
    \A r \in Request : pc[r] = "create" => account[user[r]] = "active" \/ r \in late

\* The inductive invariant, with everything the proofs of the properties use.
IInv ==
    /\ TypeOK
    /\ RequestsInOrder
    /\ RowsInOrder
    /\ UsedUp
    /\ NewestServed
    /\ OneOwed
    /\ PassedActive
=============================================================================
