------------------------ MODULE CustomerSessionsProofs ------------------------
(***************************************************************************)
(* Proofs about CustomerSessions for every set of customers and requests   *)
(* and any number of candidates: its types, that a session has one valid   *)
(* refresh token but for rotations that overlap, that a client with one of *)
(* the newest tokens is served, and that a disabled account gets no more   *)
(* tokens.                                                                 *)
(***************************************************************************)
EXTENDS CustomerSessions, FiniteSetTheorems, TLAPS

-----------------------------------------------------------------------------
(* Counting.                                                               *)

\* A set of requests has a number, and a smaller set a smaller one.
LEMMA RequestSets ==
    ASSUME NEW S, S \subseteq Request, NEW T, T \subseteq S
    PROVE  /\ IsFiniteSet(S) /\ Cardinality(S) \in Nat
           /\ Cardinality(T) \in Nat /\ Cardinality(T) <= Cardinality(S)
<1>1. IsFiniteSet(S)
  BY RequestAssumption, FS_Subset
<1>2. IsFiniteSet(T) /\ Cardinality(T) <= Cardinality(S)
  BY <1>1, FS_Subset
<1> QED
  BY <1>1, <1>2, FS_CardinalityType

\* One request takes the place of another.
LEMMA Exchanged ==
    ASSUME NEW S, S \subseteq Request, NEW T, NEW t \in S, NEW r \in Request,
           T \subseteq (S \ {t}) \cup {r}
    PROVE  Cardinality(T) <= Cardinality(S)
<1>1. IsFiniteSet(S)
  BY RequestSets
<1>2. IsFiniteSet(S \ {t}) /\ Cardinality(S \ {t}) = Cardinality(S) - 1
  BY <1>1, FS_RemoveElement
<1>5. Cardinality(S \ {t}) \in Nat
  BY <1>2, FS_CardinalityType
<1>3. /\ IsFiniteSet((S \ {t}) \cup {r})
      /\ Cardinality((S \ {t}) \cup {r}) <= Cardinality(S \ {t}) + 1
  BY <1>2, <1>5, FS_AddElement
<1>4. /\ Cardinality(S) \in Nat /\ Cardinality(T) \in Nat
      /\ Cardinality(T) <= Cardinality((S \ {t}) \cup {r})
      /\ Cardinality((S \ {t}) \cup {r}) \in Nat
  BY <1>1, <1>3, FS_Subset, FS_CardinalityType
<1> QED
  BY <1>2, <1>3, <1>4

\* One request more.
LEMMA OneMore ==
    ASSUME NEW S, S \subseteq Request, NEW T, NEW r \in Request, T \subseteq S \cup {r}
    PROVE  Cardinality(T) <= Cardinality(S) + 1
<1>1. IsFiniteSet(S)
  BY RequestSets
<1>2. IsFiniteSet(S \cup {r}) /\ Cardinality(S \cup {r}) <= Cardinality(S) + 1
  BY <1>1, FS_AddElement, FS_CardinalityType
<1>3. /\ Cardinality(T) <= Cardinality(S \cup {r}) /\ Cardinality(T) \in Nat
      /\ Cardinality(S \cup {r}) \in Nat /\ Cardinality(S) \in Nat
  BY <1>1, <1>2, FS_Subset, FS_CardinalityType
<1> QED
  BY <1>2, <1>3

\* The requests that have a row, and those whose row is newer than t's.
Numbered == {s \in Request : nr[s] > 0}

Newer(t) == {s \in Request : nr[s] > nr[t]}

-----------------------------------------------------------------------------
(* Types.                                                                  *)

Answers == {"new", "insert", "revoke", "check", "create", "issued", "refused", "failed"}

\* TypeOK in two parts: the requests, and the rows of their tokens.
RequestTypes ==
    /\ account \in [User -> {"absent", "active", "disabled"}]
    /\ pc \in [Request -> Answers]
    /\ user \in [Request -> User \cup {None}]
    /\ from \in [Request -> Request \cup {None}]
    /\ seen \in [Request -> {"unread", "active", "disabled"}]
    /\ root \in [Request -> Request \cup {None}]
    /\ overlaps \in [Request -> Nat]
    /\ late \subseteq Request
    /\ faults \in Nat
    /\ switches \in Nat

TableTypes ==
    /\ token \in [Request -> {"none", "live", "revoked", "expired"}]
    /\ nr \in [Request -> 0 .. Cardinality(Request)]
    /\ \A r, s \in Request : nr[r] = nr[s] /\ nr[r] > 0 => r = s
    /\ \A r \in Request : pc[r] = "issued" => token[r] # "none"

LEMMA TypeParts == TypeOK <=> RequestTypes /\ TableTypes
  BY DEF TypeOK, RequestTypes, TableTypes, Answers

-----------------------------------------------------------------------------
(* What one step does to the requests and to the rows of their tokens.     *)

\* At most one request moves, and an answered one not at all.
RequestMove ==
    \/ pc' = pc
    \/ \E r \in Request, label \in Answers \ {"new"} :
          pc[r] \in Unanswered /\ pc' = [pc EXCEPT ![r] = label]

\* A row that exists is revoked or expires.
UsedRow(t) ==
    /\ token[t] # "none"
    /\ \E state \in {"revoked", "expired"} : token' = [token EXCEPT ![t] = state]
    /\ nr' = nr

\* A request creates its row, and is answered or fails.
NewRow(r) ==
    /\ pc[r] = "create"
    /\ Issued(r)
    /\ pc' \in {[pc EXCEPT ![r] = "issued"], [pc EXCEPT ![r] = "failed"]}

TableMove ==
    \/ UNCHANGED table
    \/ \E t \in Request : UsedRow(t)
    \/ \E r \in Request : NewRow(r)

\* Nobody is told of a token that does not exist.
TellsRow ==
    \A r \in Request : pc[r] # "issued" /\ pc'[r] = "issued" => NewRow(r)

LEMMA EveryRequestMoves ==
    ASSUME RequestTypes, [Next]_vars
    PROVE  RequestMove
<1>1. ASSUME NEW r \in Request, NEW u \in User, SignIn(r, u) PROVE RequestMove
  BY <1>1 DEF SignIn, Goto, RequestMove, RequestTypes, Answers, Unanswered
<1>2. ASSUME NEW r \in Request, NEW t \in Request, Present(r, t) PROVE RequestMove
  BY <1>2 DEF Present, Goto, RequestMove, Answers, Unanswered
<1>3. ASSUME NEW r \in Request, Insert(r) \/ Revoke(r) \/ Check(r) \/ Create(r)
      PROVE  RequestMove
  BY <1>3 DEF Insert, Revoke, Check, Create, Goto, RequestMove, Answers, Unanswered
<1>4. ASSUME NEW r \in Request, Fails(r) PROVE RequestMove
  <2>1. pc[r] \in Unanswered /\ pc' = [pc EXCEPT ![r] = "failed"]
    BY <1>4 DEF Fails, Goto, Unanswered
  <2> QED
    BY <2>1 DEF RequestMove, Answers
<1>5. ASSUME \/ \E r \in Request : Expire(r)
             \/ \E u \in User : Disable(u) \/ Enable(u)
             \/ UNCHANGED vars
      PROVE  RequestMove
  BY <1>5 DEF Expire, Disable, Enable, vars, request, RequestMove
<1> QED
  BY <1>1, <1>2, <1>3, <1>4, <1>5 DEF Next, Step

LEMMA EveryTableMoves ==
    ASSUME TypeOK, RequestsInOrder, [Next]_vars
    PROVE  TableMove /\ TellsRow
<1>a. /\ pc \in [Request -> Answers]
      /\ \A t \in Request : pc[t] = "issued" => token[t] # "none"
  BY DEF TypeOK, Answers
<1>1. ASSUME UNCHANGED table, \A r \in Request : pc'[r] = "issued" => pc[r] = "issued"
      PROVE  TableMove /\ TellsRow
  BY <1>1 DEF TableMove, TellsRow
<1>2. ASSUME NEW r \in Request, NEW u \in User, SignIn(r, u) PROVE TableMove /\ TellsRow
  <2>1. \E label \in {"insert", "check", "refused"} : pc' = [pc EXCEPT ![r] = label]
    BY <1>2 DEF SignIn, Goto, TypeOK
  <2> QED
    BY <1>2, <1>1, <1>a, <2>1 DEF SignIn
<1>3. ASSUME NEW r \in Request, NEW t \in Request, Present(r, t) PROVE TableMove /\ TellsRow
  BY <1>3, <1>1, <1>a DEF Present, Goto
<1>4. ASSUME NEW r \in Request, Insert(r) \/ Check(r) PROVE TableMove /\ TellsRow
  BY <1>4, <1>1, <1>a DEF Insert, Check, Goto
<1>5. ASSUME NEW r \in Request, Revoke(r) PROVE TableMove /\ TellsRow
  <2>1. from[r] \in Request /\ token[from[r]] # "none"
    BY <1>5, <1>a DEF Revoke, RequestsInOrder
  <2>2. UsedRow(from[r])
    BY <1>5, <2>1 DEF Revoke, Revoked, UsedRow
  <2>3. \A s \in Request : pc'[s] = "issued" => pc[s] = "issued"
    BY <1>5, <1>a DEF Revoke, Goto
  <2> QED
    BY <2>1, <2>2, <2>3 DEF TableMove, TellsRow
<1>6. ASSUME NEW r \in Request, Create(r) PROVE TableMove /\ TellsRow
  <2>1. NewRow(r)
    BY <1>6 DEF Create, Goto, NewRow
  <2> QED
    BY <1>6, <1>a, <2>1 DEF Create, Goto, TableMove, TellsRow
<1>7. ASSUME NEW r \in Request, Fails(r) PROVE TableMove /\ TellsRow
  <2>1. \A s \in Request : pc'[s] = "issued" => pc[s] = "issued"
    BY <1>7, <1>a DEF Fails, Goto
  <2>2. CASE UNCHANGED table
    BY <1>1, <2>1, <2>2
  <2>3. CASE pc[r] = "create" /\ Issued(r)
    <3>1. NewRow(r)
      BY <1>7, <2>3 DEF Fails, Goto, NewRow
    <3> QED
      BY <2>1, <3>1 DEF TableMove, TellsRow
  <2>4. CASE pc[r] = "revoke" /\ Revoked(from[r]) /\ nr' = nr
    <3>1. from[r] \in Request /\ token[from[r]] # "none"
      BY <2>4, <1>a DEF RequestsInOrder
    <3>2. UsedRow(from[r])
      BY <2>4, <3>1 DEF Revoked, UsedRow
    <3> QED
      BY <2>1, <3>1, <3>2 DEF TableMove, TellsRow
  <2> QED
    BY <1>7, <2>2, <2>3, <2>4 DEF Fails
<1>8. ASSUME NEW t \in Request, Expire(t) PROVE TableMove /\ TellsRow
  <2>1. UsedRow(t) /\ pc' = pc
    BY <1>8 DEF Expire, UsedRow, request
  <2> QED
    BY <2>1 DEF TableMove, TellsRow
<1>9. ASSUME (\E u \in User : Disable(u) \/ Enable(u)) \/ UNCHANGED vars
      PROVE  TableMove /\ TellsRow
  BY <1>9, <1>1 DEF Disable, Enable, vars, request
<1> QED
  BY <1>2, <1>3, <1>4, <1>5, <1>6, <1>7, <1>8, <1>9 DEF Next, Step

-----------------------------------------------------------------------------
(* The types are kept.                                                     *)

LEMMA RequestTypesStep ==
    ASSUME RequestTypes, RequestsInOrder, [Next]_vars
    PROVE  RequestTypes'
<1>1. ASSUME NEW r \in Request, NEW u \in User, SignIn(r, u) PROVE RequestTypes'
  BY <1>1 DEF SignIn, Goto, RequestTypes, Answers
<1>2. ASSUME NEW r \in Request, NEW t \in Request, Present(r, t) PROVE RequestTypes'
  <2>1. user[t] \in User
    BY <1>2 DEF Present, RequestsInOrder
  <2>2. account[user[t]] \in {"active", "disabled"}
    BY <1>2, <2>1 DEF Present, RequestsInOrder, RequestTypes
  <2>3. seen' \in [Request -> {"unread", "active", "disabled"}]
    BY <1>2, <2>2 DEF Present, RequestTypes
  <2> QED
    BY <1>2, <2>3 DEF Present, Goto, RequestTypes, Answers
<1>3. ASSUME NEW r \in Request, Insert(r) \/ Check(r) \/ Create(r) PROVE RequestTypes'
  <2>1. /\ account' = account \/ account' = [account EXCEPT ![user[r]] = "active"]
        /\ \E label \in {"check", "create", "issued", "refused", "failed"} :
              pc' = [pc EXCEPT ![r] = label]
        /\ UNCHANGED <<user, from, seen, root, overlaps, late, faults, switches>>
    BY <1>3 DEF Insert, Check, Create, Goto
  <2> QED
    BY <2>1 DEF RequestTypes, Answers
<1>4. ASSUME NEW r \in Request, Revoke(r) PROVE RequestTypes'
  <2>1. PICK s \in Request : s = root[r]
    BY <1>4 DEF Revoke, RequestsInOrder
  <2>2. overlaps' \in [Request -> Nat]
    BY <1>4, <2>1 DEF Revoke, RequestTypes
  <2>3. \E label \in {"check", "refused"} : pc' = [pc EXCEPT ![r] = label]
    BY <1>4 DEF Revoke, Goto
  <2> QED
    BY <1>4, <2>2, <2>3 DEF Revoke, RequestTypes, Answers
<1>5. ASSUME NEW r \in Request, Fails(r) PROVE RequestTypes'
  <2>1. /\ pc' = [pc EXCEPT ![r] = "failed"] /\ faults' = faults + 1
        /\ UNCHANGED <<account, user, from, seen, root, overlaps, late, switches>>
    BY <1>5 DEF Fails, Goto, Fault
  <2> QED
    BY <2>1 DEF RequestTypes, Answers
<1>6. ASSUME NEW u \in User, Disable(u) \/ Enable(u) PROVE RequestTypes'
  BY <1>6 DEF Disable, Enable, request, RequestTypes
<1>7. ASSUME (\E t \in Request : Expire(t)) \/ UNCHANGED vars PROVE RequestTypes'
  BY <1>7 DEF Expire, vars, request, RequestTypes
<1> QED
  BY <1>1, <1>2, <1>3, <1>4, <1>5, <1>6, <1>7 DEF Next, Step

\* The rows keep their numbers apart.
LEMMA TableStep ==
    ASSUME TypeOK, RequestsInOrder, RowsInOrder, [Next]_vars
    PROVE  TableTypes' /\ RowsInOrder'
<1>a. /\ pc \in [Request -> Answers]
      /\ token \in [Request -> {"none", "live", "revoked", "expired"}]
      /\ nr \in [Request -> 0 .. Cardinality(Request)] /\ nr \in [Request -> Nat]
      /\ \A r, s \in Request : nr[r] = nr[s] /\ nr[r] > 0 => r = s
      /\ \A r \in Request : pc[r] = "issued" => token[r] # "none"
  <2>1. Cardinality(Request) \in Nat
    BY RequestSets
  <2> QED
    BY <2>1 DEF TypeOK, Answers
<1>b. /\ Cardinality(Numbered) \in Nat /\ Cardinality(Request) \in Nat
      /\ IsFiniteSet(Numbered) /\ Numbered \subseteq Request
  BY RequestSets DEF Numbered
<1>c. \A r \in Request : /\ pc[r] \in Unanswered => token[r] = "none" /\ nr[r] = 0
                         /\ nr[r] <= Cardinality(Numbered)
  BY DEF RowsInOrder, Numbered
<1>d. ASSUME NEW r \in Request, pc'[r] \in Unanswered PROVE pc[r] \in Unanswered
  <2>1. RequestMove
    BY EveryRequestMoves, TypeParts
  <2> QED
    BY <1>d, <1>a, <2>1 DEF RequestMove
<1>e. TableMove /\ TellsRow
  BY EveryTableMoves
<1>1. CASE UNCHANGED table
  <2>1. UNCHANGED <<token, nr>> /\ \A r \in Request : pc'[r] = "issued" => token[r] # "none"
    <3>1. ASSUME NEW r \in Request, pc'[r] = "issued" PROVE token[r] # "none"
      <4>1. CASE pc[r] = "issued"
        BY <4>1, <1>a
      <4>2. CASE NewRow(r)
        <5>1. token'[r] = "live"
          BY <4>2, <1>a DEF NewRow, Issued
        <5> QED
          BY <5>1, <1>1 DEF table
      <4> QED
        BY <3>1, <4>1, <4>2, <1>e DEF TellsRow
    <3> QED
      BY <3>1, <1>1 DEF table
  <2>2. TableTypes'
    BY <2>1, <1>a DEF TableTypes
  <2>3. RowsInOrder'
    BY <2>1, <1>c, <1>d DEF RowsInOrder, Numbered
  <2> QED
    BY <2>2, <2>3
<1>2. ASSUME NEW t \in Request, UsedRow(t) PROVE TableTypes' /\ RowsInOrder'
  <2>1. PICK state \in {"revoked", "expired"} : token' = [token EXCEPT ![t] = state]
    BY <1>2 DEF UsedRow
  <2>2. nr' = nr /\ token[t] # "none"
    BY <1>2 DEF UsedRow
  <2>3. \A r \in Request : /\ token[r] = "none" => token'[r] = "none"
                           /\ token[r] # "none" => token'[r] # "none"
    BY <2>1, <2>2, <1>a
  <2>4. ASSUME NEW r \in Request, pc'[r] = "issued" PROVE token'[r] # "none"
    <3>1. CASE pc[r] = "issued"
      BY <3>1, <2>3, <1>a
    <3>2. CASE NewRow(r)
      BY <3>2, <1>a DEF NewRow, Issued
    <3> QED
      BY <2>4, <3>1, <3>2, <1>e DEF TellsRow
  <2>5. TableTypes'
    BY <2>1, <2>2, <2>4, <1>a DEF TableTypes
  <2>6. RowsInOrder'
    BY <2>2, <2>3, <1>c, <1>d DEF RowsInOrder, Numbered
  <2> QED
    BY <2>5, <2>6
<1>3. ASSUME NEW r \in Request, NewRow(r) PROVE TableTypes' /\ RowsInOrder'
  <2>0. PICK k \in Nat : k = Cardinality(Numbered)
    BY <1>b
  <2>1. /\ token' = [token EXCEPT ![r] = "live"] /\ nr' = [nr EXCEPT ![r] = k + 1]
        /\ pc[r] = "create" /\ pc'[r] \in {"issued", "failed"}
        /\ \A s \in Request \ {r} : pc'[s] = pc[s]
    BY <1>3, <2>0, <1>a DEF NewRow, Issued, Numbered
  <2>2. nr[r] = 0 /\ r \notin Numbered
    <3>1. nr[r] = 0
      BY <2>1, <1>c DEF Unanswered
    <3>2. ~(nr[r] > 0)
      BY <3>1
    <3> QED
      BY <3>1, <3>2 DEF Numbered
  <2>3. IsFiniteSet(Numbered \cup {r}) /\ Cardinality(Numbered \cup {r}) = k + 1
    BY <2>0, <2>2, <1>b, FS_AddElement
  <2>4. k + 1 <= Cardinality(Request)
    <3>1. Cardinality(Numbered \cup {r}) <= Cardinality(Request)
      BY <1>b, RequestSets
    <3> QED
      BY <2>3, <3>1
  <2>5. Numbered' = Numbered \cup {r}
    BY <2>1, <1>a DEF Numbered
  <2>6. \A s \in Request : nr[s] <= k
    BY <2>0, <1>c
  <2>7. nr' \in [Request -> 0 .. Cardinality(Request)]
    BY <2>1, <2>4, <1>a, <1>b
  <2>8. \A s, q \in Request : nr'[s] = nr'[q] /\ nr'[s] > 0 => s = q
    BY <2>1, <2>6, <1>a
  <2>9. token' \in [Request -> {"none", "live", "revoked", "expired"}]
    BY <2>1, <1>a
  <2>10. \A s \in Request : pc'[s] = "issued" => token'[s] # "none"
    BY <2>1, <1>a
  <2>11. TableTypes'
    BY <2>7, <2>8, <2>9, <2>10 DEF TableTypes
  <2>12. \A s \in Request : nr'[s] <= Cardinality(Numbered')
    BY <2>1, <2>3, <2>5, <2>6, <1>a
  <2>13. \A s \in Request : pc'[s] \in Unanswered => token'[s] = "none" /\ nr'[s] = 0
    BY <2>1, <1>a, <1>c DEF Unanswered
  <2>14. RowsInOrder'
    BY <2>12, <2>13 DEF RowsInOrder, Numbered
  <2> QED
    BY <2>11, <2>14
<1> QED
  BY <1>1, <1>2, <1>3, <1>e DEF TableMove

-----------------------------------------------------------------------------
(* Requests and their tokens.                                              *)

\* What RequestsInOrder says of one request.
InOrder(r) ==
    /\ pc[r] = "new" => root[r] = None
    /\ pc[r] # "new" => user[r] \in User /\ root[r] \in Request
    /\ root[r] \in Request => pc[root[r]] # "new"
    /\ pc[r] \in {"revoke", "check", "create", "issued"} => account[user[r]] # "absent"
    /\ pc[r] \in {"new", "insert"} => from[r] = None
    /\ pc[r] = "revoke" => from[r] \in Request
    /\ from[r] \in Request => pc[from[r]] = "issued" /\ root[from[r]] = root[r]

LEMMA InOrderMeans == RequestsInOrder <=> \A r \in Request : InOrder(r)
  BY DEF RequestsInOrder, InOrder

\* A step that moves r on and gives no other request another token or session.
LEMMA MovesOn ==
    ASSUME RequestTypes, \A s \in Request : InOrder(s), NEW r \in Request,
           NEW label \in Answers \ {"new"}, pc[r] \in Unanswered \ {"new"},
           pc' = [pc EXCEPT ![r] = label],
           UNCHANGED <<user, from, root>>,
           label = "insert" => from[r] = None,
           label = "revoke" => from[r] \in Request,
           label \in {"revoke", "check", "create", "issued"} => account'[user[r]] # "absent",
           \A u \in User : account[u] # "absent" => account'[u] # "absent"
    PROVE  \A s \in Request : InOrder(s)'
<1> SUFFICES ASSUME NEW s \in Request PROVE InOrder(s)'
  OBVIOUS
<1>1. InOrder(s)
  OBVIOUS
<1>2. \A q \in Request : q # r => pc'[q] = pc[q]
  BY DEF RequestTypes
<1>3. pc'[r] = label
  BY DEF RequestTypes
<1>4. pc[r] # "issued" /\ pc[r] # "new"
  BY DEF Unanswered
<1>5. /\ root[s] \in Request => pc'[root[s]] # "new"
      /\ from[s] \in Request => pc'[from[s]] = "issued" /\ root[from[s]] = root[s]
  BY <1>1, <1>2, <1>3, <1>4 DEF InOrder
<1>6. CASE s = r
  BY <1>1, <1>3, <1>4, <1>5, <1>6 DEF InOrder
<1>7. CASE s # r
  BY <1>1, <1>2, <1>5, <1>7 DEF InOrder, RequestTypes
<1> QED
  BY <1>6, <1>7

LEMMA OrderStep ==
    ASSUME TypeOK, RequestsInOrder, [Next]_vars
    PROVE  RequestsInOrder'
<1>a. RequestTypes /\ \A s \in Request : InOrder(s)
  BY TypeParts, InOrderMeans
<1> DEFINE Kept == \A s \in Request : InOrder(s)'
<1>1. ASSUME NEW r \in Request, NEW u \in User, SignIn(r, u) PROVE Kept
  <2> SUFFICES ASSUME NEW s \in Request PROVE InOrder(s)'
    OBVIOUS
  <2>1. PICK label \in {"insert", "check", "refused"} : pc' = [pc EXCEPT ![r] = label]
    BY <1>1, <1>a DEF SignIn, Goto, RequestTypes
  <2>2. /\ pc[r] = "new" /\ label = "check" => account[u] # "absent"
        /\ user' = [user EXCEPT ![r] = u] /\ root' = [root EXCEPT ![r] = r]
        /\ UNCHANGED <<account, from>>
    BY <1>1, <1>a, <2>1 DEF SignIn, Goto, RequestTypes
  <2>3. pc[r] = "new"
    BY <1>1 DEF SignIn
  <2>4. InOrder(s) /\ InOrder(r)
    BY <1>a
  <2>5. CASE s = r
    BY <2>1, <2>2, <2>3, <2>4, <2>5, <1>a, RequestAssumption DEF InOrder, RequestTypes
  <2>6. CASE s # r
    <3>1. /\ pc'[s] = pc[s] /\ user'[s] = user[s] /\ root'[s] = root[s] /\ from'[s] = from[s]
      BY <2>1, <2>2, <2>6, <1>a DEF RequestTypes
    <3>2. root[s] # r
      BY <2>3, <2>4 DEF InOrder
    <3>3. root[s] \in Request => pc'[root[s]] # "new"
      BY <2>1, <2>4, <3>2, <1>a DEF InOrder, RequestTypes
    <3>4. from[s] # r
      BY <2>3, <2>4 DEF InOrder
    <3>5. from[s] \in Request => pc'[from[s]] = "issued" /\ root'[from[s]] = root[s]
      BY <2>1, <2>2, <2>4, <3>4, <1>a DEF InOrder, RequestTypes
    <3> QED
      BY <2>2, <2>4, <3>1, <3>3, <3>5 DEF InOrder
  <2> QED
    BY <2>5, <2>6
<1>2. ASSUME NEW r \in Request, NEW t \in Request, Present(r, t) PROVE Kept
  <2> SUFFICES ASSUME NEW s \in Request PROVE InOrder(s)'
    OBVIOUS
  <2>1. PICK label \in {"revoke", "refused"} : pc' = [pc EXCEPT ![r] = label]
    BY <1>2 DEF Present, Goto
  <2>2. /\ pc[r] = "new" /\ pc[t] = "issued" /\ r # t
        /\ user' = [user EXCEPT ![r] = user[t]] /\ root' = [root EXCEPT ![r] = root[t]]
        /\ from' = [from EXCEPT ![r] = t] /\ account' = account
    BY <1>2 DEF Present
  <2>3. InOrder(s) /\ InOrder(r) /\ InOrder(t)
    BY <1>a
  <2>4. /\ pc'[r] = label /\ user'[r] = user[t] /\ root'[r] = root[t] /\ from'[r] = t
        /\ \A q \in Request \ {r} :
              pc'[q] = pc[q] /\ user'[q] = user[q] /\ root'[q] = root[q] /\ from'[q] = from[q]
    BY <2>1, <2>2, <1>a DEF RequestTypes
  <2>5. root[t] \in Request /\ root[t] # r /\ user[t] \in User
    BY <2>2, <2>3 DEF InOrder
  <2>6. CASE s = r
    BY <2>2, <2>3, <2>4, <2>5, <2>6, RequestAssumption DEF InOrder
  <2>7. CASE s # r
    <3>1. root[s] # r /\ from[s] # r
      BY <2>2, <2>3 DEF InOrder
    <3> QED
      BY <2>2, <2>3, <2>4, <2>7, <3>1 DEF InOrder
  <2> QED
    BY <2>6, <2>7
<1>3. ASSUME NEW r \in Request, Insert(r) PROVE Kept
  <2>1. user[r] \in User
    BY <1>3, <1>a DEF Insert, InOrder
  <2>2. PICK label \in {"check", "failed"} : pc' = [pc EXCEPT ![r] = label]
    BY <1>3 DEF Insert, Goto
  <2>3. label = "check" => account'[user[r]] # "absent"
    BY <1>3, <2>1, <2>2, <1>a DEF Insert, Goto, RequestTypes
  <2>4. \A u \in User : account[u] # "absent" => account'[u] # "absent"
    BY <1>3, <1>a DEF Insert, RequestTypes
  <2>5. pc[r] = "insert" /\ UNCHANGED <<user, from, root>>
    BY <1>3 DEF Insert
  <2> QED
    BY <2>2, <2>3, <2>4, <2>5, <1>a, MovesOn DEF Answers, Unanswered
<1>4. ASSUME NEW r \in Request, Revoke(r) PROVE Kept
  <2>1. PICK label \in {"check", "refused"} : pc' = [pc EXCEPT ![r] = label]
    BY <1>4 DEF Revoke, Goto
  <2>2. /\ pc[r] = "revoke" /\ UNCHANGED <<account, user, from, root>>
    BY <1>4 DEF Revoke
  <2>3. account[user[r]] # "absent"
    BY <2>2, <1>a DEF InOrder
  <2> QED
    BY <2>1, <2>2, <2>3, <1>a, MovesOn DEF Answers, Unanswered
<1>5. ASSUME NEW r \in Request, Check(r) \/ Create(r) PROVE Kept
  <2>1. PICK label \in {"create", "refused", "issued"} : pc' = [pc EXCEPT ![r] = label]
    BY <1>5 DEF Check, Create, Goto
  <2>2. /\ pc[r] \in {"check", "create"} /\ UNCHANGED <<account, user, from, root>>
    BY <1>5 DEF Check, Create
  <2>3. account[user[r]] # "absent"
    BY <2>2, <1>a DEF InOrder
  <2> QED
    BY <2>1, <2>2, <2>3, <1>a, MovesOn DEF Answers, Unanswered
<1>6. ASSUME NEW r \in Request, Fails(r) PROVE Kept
  <2>1. /\ pc' = [pc EXCEPT ![r] = "failed"] /\ pc[r] \in Unanswered \ {"new"}
        /\ UNCHANGED <<account, user, from, root>>
    BY <1>6 DEF Fails, Goto, Unanswered
  <2> QED
    BY <2>1, <1>a, MovesOn DEF Answers
<1>7. ASSUME \/ \E u \in User : Disable(u) \/ Enable(u)
             \/ \E t \in Request : Expire(t)
             \/ UNCHANGED vars
      PROVE  Kept
  <2>1. UNCHANGED <<pc, user, from, root>>
    BY <1>7 DEF Disable, Enable, Expire, vars, request
  <2>2. \A u \in User : account[u] # "absent" => account'[u] # "absent"
    BY <1>7, <1>a DEF Disable, Enable, Expire, vars, RequestTypes
  <2> SUFFICES ASSUME NEW s \in Request PROVE InOrder(s)'
    OBVIOUS
  <2>3. InOrder(s)
    BY <1>a
  <2> QED
    BY <2>1, <2>2, <2>3 DEF InOrder
<1>8. Kept
  BY <1>1, <1>2, <1>3, <1>4, <1>5, <1>6, <1>7 DEF Next, Step
<1> QED
  BY <1>8 DEF RequestsInOrder, InOrder

-----------------------------------------------------------------------------
(* Tokens that are used up, and clients that are served.                   *)

\* Only a new row is valid that was not before, and what is issued has its number.
LEMMA LiveRows ==
    ASSUME TypeOK, RowsInOrder, TableMove, NEW t \in Request, pc[t] = "issued"
    PROVE  /\ token'[t] = "live" => token[t] = "live"
           /\ nr'[t] = nr[t]
           /\ \A s \in Request : nr[s] > nr[t] => nr'[s] > nr[t]
<1>a. token \in [Request -> {"none", "live", "revoked", "expired"}] /\ nr \in [Request -> Nat]
  BY RequestSets DEF TypeOK
<1>1. CASE UNCHANGED table
  BY <1>1 DEF table
<1>2. ASSUME NEW s \in Request, UsedRow(s)
      PROVE  (token'[t] = "live" => token[t] = "live") /\ nr' = nr
  BY <1>2, <1>a DEF UsedRow
<1>3. ASSUME NEW r \in Request, NewRow(r)
      PROVE  /\ token'[t] = "live" => token[t] = "live"
             /\ nr'[t] = nr[t]
             /\ \A s \in Request : nr[s] > nr[t] => nr'[s] > nr[t]
  <2>1. r # t
    BY <1>3 DEF NewRow
  <2>2. /\ token' = [token EXCEPT ![r] = "live"]
        /\ nr' = [nr EXCEPT ![r] = Cardinality({s \in Request : nr[s] > 0}) + 1]
    BY <1>3 DEF NewRow, Issued
  <2>3. token'[t] = token[t] /\ nr'[t] = nr[t]
    BY <2>1, <2>2, <1>a
  <2>4. nr[r] = 0 /\ nr[t] \in Nat
    BY <1>3, <1>a DEF NewRow, RowsInOrder, Unanswered
  <2>5. ASSUME NEW s \in Request, nr[s] > nr[t] PROVE nr'[s] > nr[t]
    <3>1. s # r
      BY <2>4, <2>5
    <3> QED
      BY <2>2, <2>5, <3>1, <1>a
  <2> QED
    BY <2>3, <2>5
<1> QED
  BY <1>1, <1>2, <1>3 DEF TableMove

\* How a request comes to go on or to be refused.
AnswerMove(r) ==
    \/ from'[r] = from[r] /\ pc'[r] = pc[r]
    \/ from'[r] = from[r] /\ pc[r] \in {"check", "create"}
    \/ from'[r] = None
    \/ pc'[r] \in {"insert", "revoke", "issued", "failed"}
    \/ from'[r] = from[r] /\ from[r] \in Request /\ token'[from[r]] = "revoked"
    \/ /\ from'[r] \in Request \ Candidates /\ pc'[r] = "refused"
       /\ pc[from'[r]] = "issued" /\ UNCHANGED table

LEMMA EveryAnswerMoves ==
    ASSUME TypeOK, RequestsInOrder, [Next]_vars, NEW r \in Request
    PROVE  AnswerMove(r)
<1>a. RequestTypes /\ token \in [Request -> {"none", "live", "revoked", "expired"}]
  BY TypeParts DEF TypeOK
<1>1. ASSUME NEW q \in Request, NEW u \in User, SignIn(q, u) PROVE AnswerMove(r)
  <2>1. from[q] = None
    BY <1>1 DEF SignIn, RequestsInOrder
  <2> QED
    BY <1>1, <1>a, <2>1 DEF SignIn, Goto, AnswerMove, RequestTypes
<1>2. ASSUME NEW q \in Request, NEW t \in Request, Present(q, t) PROVE AnswerMove(r)
  <2>1. CASE r = q
    <3>1. from'[r] = t /\ pc[t] = "issued" /\ UNCHANGED table
      BY <1>2, <2>1, <1>a DEF Present, RequestTypes
    <3>2. CASE t \in Candidates
      BY <1>2, <2>1, <3>2, <1>a DEF Present, Goto, AnswerMove, RequestTypes
    <3>3. CASE t \notin Candidates
      BY <1>2, <2>1, <3>1, <3>3, <1>a DEF Present, Goto, AnswerMove, RequestTypes
    <3> QED
      BY <3>2, <3>3
  <2>2. CASE r # q
    BY <1>2, <2>2, <1>a DEF Present, Goto, AnswerMove, RequestTypes
  <2> QED
    BY <2>1, <2>2
<1>3. ASSUME NEW q \in Request, Insert(q) PROVE AnswerMove(r)
  <2>1. from[q] = None
    BY <1>3 DEF Insert, RequestsInOrder
  <2> QED
    BY <1>3, <1>a, <2>1 DEF Insert, Goto, AnswerMove, RequestTypes
<1>4. ASSUME NEW q \in Request, Revoke(q) PROVE AnswerMove(r)
  <2>1. from[q] \in Request
    BY <1>4 DEF Revoke, RequestsInOrder
  <2>2. token'[from[q]] = "revoked"
    BY <1>4, <1>a, <2>1 DEF Revoke, Revoked
  <2> QED
    BY <1>4, <1>a, <2>1, <2>2 DEF Revoke, Goto, AnswerMove, RequestTypes
<1>5. ASSUME NEW q \in Request, Check(q) \/ Create(q) \/ Fails(q) PROVE AnswerMove(r)
  <2>1. /\ from' = from
        /\ \/ pc[q] \in {"check", "create"} /\ \E label \in Answers : pc' = [pc EXCEPT ![q] = label]
           \/ pc' = [pc EXCEPT ![q] = "failed"]
    BY <1>5 DEF Check, Create, Fails, Goto, Answers
  <2> QED
    BY <2>1, <1>a DEF AnswerMove, RequestTypes
<1>6. ASSUME \/ \E u \in User : Disable(u) \/ Enable(u)
             \/ \E t \in Request : Expire(t)
             \/ UNCHANGED vars
      PROVE  AnswerMove(r)
  BY <1>6 DEF Disable, Enable, Expire, vars, request, AnswerMove
<1> QED
  BY <1>1, <1>2, <1>3, <1>4, <1>5, <1>6 DEF Next, Step

\* What is newer than a token stays newer.
LEMMA NewerGrows ==
    ASSUME TypeOK, RowsInOrder, TableMove, NEW t \in Request, pc[t] = "issued",
           Cardinality(Newer(t)) >= Take
    PROVE  Cardinality({s \in Request : nr'[s] > nr'[t]}) >= Take
<1> DEFINE After == {s \in Request : nr'[s] > nr'[t]}
<1>1. Newer(t) \subseteq After
  BY LiveRows DEF Newer
<1>2. /\ Cardinality(After) \in Nat /\ Cardinality(Newer(t)) \in Nat
      /\ Cardinality(Newer(t)) <= Cardinality(After)
  BY <1>1, RequestSets
<1> QED
  BY <1>2, TakeAssumption

LEMMA ServedStep ==
    ASSUME TypeOK, RequestsInOrder, RowsInOrder, UsedUp, NewestServed, [Next]_vars
    PROVE  UsedUp' /\ NewestServed'
<1>a. /\ TableMove
      /\ from \in [Request -> Request \cup {None}] /\ pc \in [Request -> Answers]
      /\ from' \in [Request -> Request \cup {None}]
  BY EveryTableMoves, RequestTypesStep, TypeParts DEF RequestTypes
<1>b. ASSUME NEW r \in Request, from[r] \in Request PROVE pc[from[r]] = "issued"
  BY <1>b DEF RequestsInOrder
<1>1. ASSUME NEW r \in Request, from'[r] \in Request, pc'[r] \in {"check", "create"}
      PROVE  token'[from'[r]] # "live"
  <2>1. CASE from'[r] = from[r] /\ pc[r] \in {"check", "create"}
    <3>1. token[from[r]] # "live"
      BY <1>1, <2>1 DEF UsedUp
    <3> QED
      BY <1>1, <2>1, <3>1, <1>a, <1>b, LiveRows
  <2>2. CASE from'[r] = from[r] /\ token'[from[r]] = "revoked"
    BY <2>2
  <2> QED
    BY <1>1, <2>1, <2>2, EveryAnswerMoves, RequestAssumption DEF AnswerMove
<1>2. ASSUME NEW r \in Request, pc'[r] = "refused", from'[r] \in Request,
             token'[from'[r]] = "live"
      PROVE  Cardinality({s \in Request : nr'[s] > nr'[from'[r]]}) >= Take
  <2>1. PICK t \in Request : t = from'[r]
    BY <1>2
  <2>2. CASE from'[r] = from[r] /\ pc[r] = "refused"
    <3>1. pc[t] = "issued" /\ token[t] = "live"
      BY <1>2, <2>1, <2>2, <1>a, <1>b, LiveRows
    <3>2. Cardinality(Newer(t)) >= Take
      BY <2>1, <2>2, <3>1, RequestAssumption DEF NewestServed, Newer
    <3> QED
      BY <2>1, <3>1, <3>2, <1>a, NewerGrows
  <2>3. CASE from'[r] = from[r] /\ pc[r] \in {"check", "create"}
    <3>1. pc[t] = "issued" /\ token[t] # "live"
      BY <2>1, <2>3, <1>b DEF UsedUp
    <3> QED
      BY <1>2, <2>1, <3>1, <1>a, LiveRows
  <2>4. CASE t \notin Candidates /\ pc[t] = "issued" /\ UNCHANGED table
    <3>1. token[t] = "live" /\ nr' = nr
      BY <1>2, <2>1, <2>4 DEF table
    <3>2. ~(Cardinality({s \in Live : nr[s] > nr[t]}) < Take)
      BY <2>4, <3>1 DEF Candidates, Live
    <3>3. /\ {s \in Live : nr[s] > nr[t]} \subseteq Newer(t) /\ Newer(t) \subseteq Request
      BY DEF Live, Newer
    <3>4. /\ Cardinality({s \in Live : nr[s] > nr[t]}) \in Nat /\ Cardinality(Newer(t)) \in Nat
          /\ Cardinality({s \in Live : nr[s] > nr[t]}) <= Cardinality(Newer(t))
      BY <3>3, RequestSets
    <3>5. Cardinality(Newer(t)) >= Take
      BY <3>2, <3>4, TakeAssumption
    <3> QED
      BY <2>1, <3>1, <3>5 DEF Newer
  <2> QED
    BY <1>2, <2>1, <2>2, <2>3, <2>4, EveryAnswerMoves, RequestAssumption DEF AnswerMove
<1>3. UsedUp'
  BY <1>1 DEF UsedUp
<1>4. NewestServed'
  BY <1>2, <1>a, RequestAssumption DEF NewestServed
<1> QED
  BY <1>3, <1>4

-----------------------------------------------------------------------------
(* One token owed per sign-in.                                             *)

\* A step that owes a session nothing new.
LEMMA OwesNothingNew ==
    ASSUME OneOwed, NEW s \in Request, Owed(s)' \subseteq Owed(s), overlaps'[s] = overlaps[s],
           overlaps[s] \in Nat
    PROVE  Cardinality(Owed(s)') <= 1 + overlaps'[s]
<1>1. /\ Cardinality(Owed(s)') \in Nat /\ Cardinality(Owed(s)) \in Nat
      /\ Cardinality(Owed(s)') <= Cardinality(Owed(s))
  BY RequestSets DEF Owed
<1>2. Cardinality(Owed(s)) <= 1 + overlaps[s]
  BY DEF OneOwed
<1> QED
  BY <1>1, <1>2

LEMMA OwedStep ==
    ASSUME TypeOK, RequestsInOrder, RowsInOrder, OneOwed, [Next]_vars
    PROVE  OneOwed'
<1>a. /\ RequestTypes /\ TableMove
      /\ token \in [Request -> {"none", "live", "revoked", "expired"}]
  BY EveryTableMoves, TypeParts DEF TypeOK
<1>b. ASSUME NEW s \in Request PROVE overlaps[s] \in Nat /\ Owed(s) \subseteq Request
  BY <1>a DEF RequestTypes, Owed
<1> DEFINE Kept == \A s \in Request : Cardinality(Owed(s)') <= 1 + overlaps'[s]
<1>1. ASSUME overlaps' = overlaps, \A s \in Request : Owed(s)' \subseteq Owed(s) PROVE Kept
  BY <1>1, <1>b, OwesNothingNew
<1>2. ASSUME NEW r \in Request, NEW u \in User, SignIn(r, u) PROVE Kept
  <2> SUFFICES ASSUME NEW s \in Request PROVE Cardinality(Owed(s)') <= 1 + overlaps'[s]
    OBVIOUS
  <2>1. /\ pc[r] = "new" /\ root' = [root EXCEPT ![r] = r] /\ overlaps' = overlaps
        /\ token' = token /\ token[r] = "none"
        /\ \A q \in Request \ {r} : pc'[q] = pc[q] /\ root'[q] = root[q]
        /\ root'[r] = r
    BY <1>2, <1>a DEF SignIn, Goto, table, RowsInOrder, Unanswered, RequestTypes
  <2>2. CASE s # r
    <3>1. Owed(s)' \subseteq Owed(s)
      BY <2>1, <2>2 DEF Owed
    <3> QED
      BY <2>1, <3>1, <1>b, OwesNothingNew
  <2>3. CASE s = r
    <3>1. \A q \in Request \ {r} : root[q] # r
      BY <2>1 DEF RequestsInOrder
    <3>2. Owed(s)' \subseteq {} \cup {r}
      BY <2>1, <2>3, <3>1 DEF Owed
    <3>3. Cardinality(Owed(s)') <= Cardinality({}) + 1
      BY <3>2, OneMore
    <3>4. Cardinality({}) = 0 /\ Cardinality(Owed(s)') \in Nat
      BY FS_EmptySet, RequestSets DEF Owed
    <3> QED
      BY <2>1, <3>3, <3>4, <1>b
  <2> QED
    BY <2>2, <2>3
<1>3. ASSUME NEW r \in Request, NEW t \in Request, Present(r, t) PROVE Kept
  <2>1. ASSUME NEW s \in Request PROVE Owed(s)' \subseteq Owed(s)
    <3>1. /\ token' = token /\ token[r] = "none" /\ pc'[r] \in {"revoke", "refused"}
          /\ \A q \in Request \ {r} : pc'[q] = pc[q] /\ root'[q] = root[q]
      BY <1>3, <1>a DEF Present, Goto, table, RowsInOrder, Unanswered, RequestTypes
    <3> QED
      BY <3>1 DEF Owed
  <2> QED
    BY <1>3, <1>1, <2>1 DEF Present
<1>4. ASSUME NEW r \in Request, Insert(r) \/ Check(r) \/ Create(r) PROVE Kept
  <2>1. ASSUME NEW s \in Request PROVE Owed(s)' \subseteq Owed(s)
    <3>1. /\ pc[r] \in {"insert", "check", "create"} /\ root' = root
          /\ \A q \in Request \ {r} : pc'[q] = pc[q] /\ token'[q] = token[q]
      BY <1>4, <1>a DEF Insert, Check, Create, Issued, Goto, table, RequestTypes
    <3> QED
      BY <3>1 DEF Owed
  <2> QED
    BY <1>4, <1>1, <2>1 DEF Insert, Check, Create
<1>5. ASSUME NEW r \in Request, Fails(r) PROVE Kept
  <2>1. ASSUME NEW s \in Request PROVE Owed(s)' \subseteq Owed(s)
    <3>1. /\ root' = root /\ pc'[r] = "failed"
          /\ \A q \in Request \ {r} : pc'[q] = pc[q]
      BY <1>5, <1>a DEF Fails, Goto, RequestTypes
    <3>2. CASE token' = token
      BY <3>1, <3>2 DEF Owed
    <3>3. CASE pc[r] = "create" /\ Issued(r)
      BY <3>1, <3>3, <1>a DEF Owed, Issued
    <3>4. CASE pc[r] = "revoke" /\ Revoked(from[r])
      <4>1. \A q \in Request : token'[q] = token[q] \/ token'[q] = "revoked"
        BY <3>4, <1>a DEF Revoked
      <4> QED
        BY <3>1, <4>1 DEF Owed
    <3> QED
      BY <1>5, <3>2, <3>3, <3>4 DEF Fails, table
  <2>2. overlaps' = overlaps
    BY <1>5 DEF Fails
  <2> QED
    BY <1>1, <2>1, <2>2
<1>6. ASSUME NEW t \in Request, Expire(t) PROVE Kept
  <2>1. ASSUME NEW s \in Request PROVE Owed(s)' \subseteq Owed(s)
    BY <1>6, <1>a DEF Expire, request, Owed
  <2> QED
    BY <1>6, <1>1, <2>1 DEF Expire
<1>7. ASSUME (\E u \in User : Disable(u) \/ Enable(u)) \/ UNCHANGED vars PROVE Kept
  <2>1. /\ overlaps' = overlaps
        /\ \A s \in Request : Owed(s)' \subseteq Owed(s)
    BY <1>7 DEF Disable, Enable, vars, request, table, Owed
  <2> QED
    BY <1>1, <2>1
<1>8. ASSUME NEW r \in Request, Revoke(r) PROVE Kept
  <2> SUFFICES ASSUME NEW s \in Request PROVE Cardinality(Owed(s)') <= 1 + overlaps'[s]
    OBVIOUS
  <2>1. PICK t \in Request : t = from[r] /\ pc[t] = "issued" /\ root[t] = root[r]
    BY <1>8 DEF Revoke, RequestsInOrder
  <2>2. /\ pc[r] = "revoke" /\ root' = root
        /\ token' = [token EXCEPT ![t] = "revoked"]
        /\ \A q \in Request \ {r} : pc'[q] = pc[q]
        /\ overlaps' = [overlaps EXCEPT ![root[r]] = IF token[t] = "revoked" THEN @ + 1 ELSE @]
    BY <1>8, <2>1, <1>a DEF Revoke, Revoked, Goto, RequestTypes
  <2>3. token'[t] = "revoked" /\ \A q \in Request \ {t} : token'[q] = token[q]
    BY <2>2, <1>a
  <2>4. r # t /\ token[t] # "none"
    BY <2>1, <2>2 DEF TypeOK
  <2>5. CASE root[r] # s
    <3>1. Owed(s)' \subseteq Owed(s)
      BY <2>1, <2>2, <2>3, <2>5 DEF Owed
    <3>2. overlaps'[s] = overlaps[s]
      BY <2>2, <2>5, <1>a DEF RequestTypes
    <3> QED
      BY <3>1, <3>2, <1>b, OwesNothingNew
  <2>6. CASE root[r] = s /\ token[t] = "revoked"
    <3>1. Owed(s)' \subseteq Owed(s) \cup {r}
      BY <2>1, <2>2, <2>3, <2>6 DEF Owed
    <3>2. Cardinality(Owed(s)') <= Cardinality(Owed(s)) + 1
      BY <3>1, <1>b, OneMore
    <3>3. overlaps'[s] = overlaps[s] + 1
      BY <2>2, <2>6, <1>a DEF RequestTypes
    <3>4. /\ Cardinality(Owed(s)') \in Nat /\ Cardinality(Owed(s)) \in Nat
          /\ Cardinality(Owed(s)) <= 1 + overlaps[s]
      BY RequestSets DEF Owed, OneOwed
    <3> QED
      BY <3>2, <3>3, <3>4, <1>b
  <2>7. CASE root[r] = s /\ token[t] # "revoked"
    <3>1. t \in Owed(s)
      BY <2>1, <2>4, <2>7, <1>a DEF Owed
    <3>2. Owed(s)' \subseteq (Owed(s) \ {t}) \cup {r}
      BY <2>1, <2>2, <2>3, <2>4, <2>7 DEF Owed
    <3>3. Cardinality(Owed(s)') <= Cardinality(Owed(s))
      BY <3>1, <3>2, <1>b, Exchanged
    <3>4. overlaps'[s] = overlaps[s]
      BY <2>2, <2>7, <1>a DEF RequestTypes
    <3>5. /\ Cardinality(Owed(s)') \in Nat /\ Cardinality(Owed(s)) \in Nat
          /\ Cardinality(Owed(s)) <= 1 + overlaps[s]
      BY RequestSets DEF Owed, OneOwed
    <3> QED
      BY <3>3, <3>4, <3>5, <1>b
  <2> QED
    BY <2>5, <2>6, <2>7
<1>9. Kept
  BY <1>2, <1>3, <1>4, <1>5, <1>6, <1>7, <1>8 DEF Next, Step
<1> QED
  BY <1>9 DEF OneOwed

-----------------------------------------------------------------------------
(* Disabled accounts.                                                      *)

LEMMA PassedStep ==
    ASSUME TypeOK, RequestsInOrder, PassedActive, [Next]_vars
    PROVE  PassedActive'
<1>a. RequestTypes
  BY TypeParts
<1> SUFFICES ASSUME NEW s \in Request, pc'[s] = "create"
             PROVE  account'[user'[s]] = "active" \/ s \in late'
  BY DEF PassedActive
<1>1. ASSUME pc[s] = "create", user'[s] = user[s], late \subseteq late',
             account'[user[s]] = account[user[s]] \/ account'[user[s]] = "active"
      PROVE  account'[user'[s]] = "active" \/ s \in late'
  BY <1>1 DEF PassedActive
<1>2. ASSUME NEW r \in Request, NEW u \in User, SignIn(r, u)
      PROVE  account'[user'[s]] = "active" \/ s \in late'
  <2>1. s # r
    BY <1>2, <1>a DEF SignIn, Goto, RequestTypes
  <2> QED
    BY <1>2, <1>1, <2>1, <1>a DEF SignIn, Goto, RequestTypes
<1>3. ASSUME NEW r \in Request, NEW t \in Request, Present(r, t)
      PROVE  account'[user'[s]] = "active" \/ s \in late'
  <2>1. s # r
    BY <1>3, <1>a DEF Present, Goto, RequestTypes
  <2> QED
    BY <1>3, <1>1, <2>1, <1>a DEF Present, Goto, RequestTypes
<1>4. ASSUME NEW r \in Request, Insert(r)
      PROVE  account'[user'[s]] = "active" \/ s \in late'
  <2>1. s # r /\ pc[s] = "create"
    BY <1>4, <1>a DEF Insert, Goto, RequestTypes
  <2>2. user[s] \in User
    BY <2>1 DEF RequestsInOrder
  <2>3. account'[user[s]] = account[user[s]] \/ account'[user[s]] = "active"
    BY <1>4, <2>2, <1>a DEF Insert, RequestTypes
  <2> QED
    BY <1>4, <1>1, <2>1, <2>3 DEF Insert
<1>5. ASSUME NEW r \in Request, Revoke(r) \/ Create(r) \/ Fails(r)
      PROVE  account'[user'[s]] = "active" \/ s \in late'
  <2>1. pc[s] = "create" /\ UNCHANGED <<account, user, late>>
    BY <1>5, <1>a DEF Revoke, Create, Fails, Goto, RequestTypes
  <2> QED
    BY <1>1, <2>1
<1>6. ASSUME NEW r \in Request, Check(r)
      PROVE  account'[user'[s]] = "active" \/ s \in late'
  <2>1. CASE s = r
    BY <1>6, <2>1, <1>a DEF Check, StillActive, Goto, RequestTypes
  <2>2. CASE s # r
    BY <1>6, <2>2, <1>1, <1>a DEF Check, Goto, RequestTypes
  <2> QED
    BY <2>1, <2>2
<1>7. ASSUME NEW u \in User, Disable(u)
      PROVE  account'[user'[s]] = "active" \/ s \in late'
  <2>1. pc[s] = "create" /\ user' = user
    BY <1>7 DEF Disable, request
  <2>2. CASE user[s] = u
    BY <1>7, <2>1, <2>2 DEF Disable
  <2>3. CASE user[s] # u
    BY <1>7, <1>1, <2>1, <2>3, <1>a DEF Disable, RequestTypes
  <2> QED
    BY <2>2, <2>3
<1>8. ASSUME NEW u \in User, Enable(u)
      PROVE  account'[user'[s]] = "active" \/ s \in late'
  BY <1>8, <1>1, <1>a DEF Enable, request, RequestTypes
<1>9. ASSUME (\E t \in Request : Expire(t)) \/ UNCHANGED vars
      PROVE  account'[user'[s]] = "active" \/ s \in late'
  BY <1>9, <1>1 DEF Expire, vars, request
<1> QED
  BY <1>2, <1>3, <1>4, <1>5, <1>6, <1>7, <1>8, <1>9 DEF Next, Step

-----------------------------------------------------------------------------
(* The inductive invariant and the properties.                             *)

LEMMA InvInit == Init => IInv
<1> SUFFICES ASSUME Init PROVE IInv
  OBVIOUS
<1>0. Cardinality(Request) \in Nat
  BY RequestSets
<1>1. RequestTypes
  BY DEF Init, RequestTypes, Answers
<1>2. TableTypes
  BY <1>0 DEF Init, TableTypes
<1>3. RequestsInOrder
  BY RequestAssumption DEF Init, RequestsInOrder
<1>4. RowsInOrder
  <2>1. Cardinality({s \in Request : nr[s] > 0}) \in Nat
    BY RequestSets
  <2> QED
    BY <2>1 DEF Init, RowsInOrder
<1>5. UsedUp /\ NewestServed /\ PassedActive
  BY DEF Init, UsedUp, NewestServed, PassedActive
<1>6. OneOwed
  <2>1. \A s \in Request : Owed(s) = {}
    BY DEF Init, Owed
  <2>2. \A s \in Request : overlaps[s] = 0
    BY DEF Init
  <2> QED
    BY <2>1, <2>2, FS_EmptySet DEF OneOwed
<1> QED
  BY <1>1, <1>2, <1>3, <1>4, <1>5, <1>6, TypeParts DEF IInv

LEMMA InvStep == IInv /\ [Next]_vars => IInv'
<1> SUFFICES ASSUME IInv, [Next]_vars PROVE IInv'
  OBVIOUS
<1>1. RequestTypes' /\ TableTypes' /\ RowsInOrder'
  BY RequestTypesStep, TableStep, TypeParts DEF IInv
<1>2. TypeOK'
  BY <1>1 DEF TypeOK, RequestTypes, TableTypes, Answers
<1>3. RequestsInOrder' /\ UsedUp' /\ NewestServed'
  BY OrderStep, ServedStep DEF IInv
<1>4. OneOwed' /\ PassedActive'
  BY OwedStep, PassedStep DEF IInv
<1> QED
  BY <1>1, <1>2, <1>3, <1>4 DEF IInv

THEOREM Invariance == Spec => []IInv
<1>1. Init => IInv
  BY InvInit
<1>2. IInv /\ [Next]_vars => IInv'
  BY InvStep
<1> QED
  BY <1>1, <1>2, PTL DEF Spec

\* The types of the requests and of the rows of the tokens hold throughout.
THEOREM TypeCorrect == Spec => []TypeOK
<1>1. IInv => TypeOK
  BY DEF IInv
<1> QED
  BY <1>1, Invariance, PTL

\* auth.service.ts, rotateRefreshToken: a sign-in has one valid refresh token, and at most
\* one more for every rotation that revoked a token another rotation had revoked, for any
\* number of requests, failures and overlaps.
THEOREM OneSession == Spec => []SessionsDoNotMultiply
<1>1. ASSUME IInv, NEW s \in Request
      PROVE  Cardinality({t \in Live : root[t] = s}) <= 1 + overlaps[s]
  <2>1. {t \in Live : root[t] = s} \subseteq Owed(s) /\ Owed(s) \subseteq Request
    BY DEF Live, Owed
  <2>2. /\ Cardinality({t \in Live : root[t] = s}) \in Nat /\ Cardinality(Owed(s)) \in Nat
        /\ Cardinality({t \in Live : root[t] = s}) <= Cardinality(Owed(s))
    BY <2>1, RequestSets
  <2>3. Cardinality(Owed(s)) <= 1 + overlaps[s] /\ overlaps[s] \in Nat
    BY <1>1 DEF IInv, OneOwed, TypeOK
  <2> QED
    BY <2>2, <2>3
<1>2. IInv => SessionsDoNotMultiply
  BY <1>1 DEF SessionsDoNotMultiply
<1> QED
  BY <1>2, Invariance, PTL

\* A client whose refresh token is valid and among the Take newest is never refused for
\* want of being among the candidates.
THEOREM ClientsServed == Spec => []NewestServed
<1>1. IInv => NewestServed
  BY DEF IInv
<1> QED
  BY <1>1, Invariance, PTL

\* A disabled account is given no refresh token but by a request that had passed its
\* last check when it was disabled.
THEOREM NothingForDisabled == Spec => DisabledGetsNothing
<1>1. ASSUME IInv, [Next]_vars, NEW r \in Request, token[r] = "none", token'[r] = "live"
      PROVE  account[user[r]] = "active" \/ r \in late
  <2>1. TableMove
    BY <1>1, EveryTableMoves DEF IInv
  <2>2. token \in [Request -> {"none", "live", "revoked", "expired"}]
    BY <1>1 DEF IInv, TypeOK
  <2>3. pc[r] = "create"
    <3>1. ~UNCHANGED table
      BY <1>1 DEF table
    <3>2. ASSUME NEW t \in Request, UsedRow(t) PROVE FALSE
      BY <1>1, <2>2, <3>2 DEF UsedRow
    <3>3. ASSUME NEW q \in Request, NewRow(q) PROVE q = r
      BY <1>1, <2>2, <3>3 DEF NewRow, Issued
    <3> QED
      BY <2>1, <3>1, <3>2, <3>3 DEF TableMove, NewRow
  <2> QED
    BY <1>1, <2>3 DEF IInv, PassedActive
<1>2. IInv /\ [Next]_vars =>
        [\A r \in Request : token[r] = "none" /\ token'[r] = "live"
                               => account[user[r]] = "active" \/ r \in late]_vars
  BY <1>1
<1> QED
  BY <1>2, Invariance, PTL DEF Spec, DisabledGetsNothing

=============================================================================
