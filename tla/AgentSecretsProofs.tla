------------------------- MODULE AgentSecretsProofs -------------------------
(***************************************************************************)
(* Machine-checked proofs about AgentSecrets, for any number of requests,  *)
(* agents, names, secrets, values, grants and any size of a page, and the  *)
(* refinement of SecretStore.                                              *)
(***************************************************************************)
EXTENDS AgentSecrets, FiniteSetTheorems, TLAPS

-----------------------------------------------------------------------------
(* The inductive invariant.                                                *)

Writes(x)  == req[x].op \in {"create", "update"}

\* The ids that have, or had, a row.
Known == Present \cup gone

\* A secret is deleted once and does not come back.
DeletedOnce ==
  /\ Present \cap gone = {}
  /\ Known \subseteq used

\* The id of a secret that is being created is its request's alone; every
\* other request names a secret that has, or had, a row.
IdsApart ==
  /\ \A x \in Requests : req[x].op = "create" => req[x].id \in used \ Known
  /\ \A x, y \in Requests :
       req[x].op = "create" /\ req[y].op = "create" /\ req[x].id = req[y].id => x = y
  /\ \A x \in Requests : req[x].op \in {"update", "delete", "share"} => req[x].id \in Known

\* The blob is sealed before the row is inserted.
SealedFirst ==
  \A x \in Requests : req[x].op = "create" /\ req[x].stage = "write" => blob[req[x].id] # 0

\* Who purges a blob has doomed its secret.
PurgesDoomed == \A x \in Requests : req[x].op = "delete" => req[x].id \in doomed

\* Versions count no further than the writes, so they stay within the bound.
VersionsBounded ==
  /\ \A i \in Present : rows[i].version <= writes
  /\ \A x \in Requests : Writes(x) => req[x].version <= writes

\* No secret is shared with its owner, and no request is about to do so.
SharedWithOthers ==
  /\ \A g \in grants : g.to # rows[g.id].agent
  /\ \A x \in Requests : req[x].op = "share" /\ req[x].id \in Present =>
       req[x].to # rows[req[x].id].agent

\* Every value is submitted once, for one secret.
ValuesApart ==
  /\ \A i \in Ids : blob[i] <= writes
  /\ \A i \in Ids : \A v \in answered[i] : v <= writes
  /\ \A v \in over : v <= writes
  /\ \A x \in Requests : Writes(x) => req[x].value <= writes
  /\ \A x, y \in Requests : Writes(x) /\ Writes(y) /\ req[x].value = req[y].value => x = y
  /\ \A x \in Requests : Writes(x) => \A i \in Ids :
       req[x].value \notin answered[i] /\ (blob[i] = req[x].value => i = req[x].id)
  /\ \A i, j \in Ids : blob[i] \in answered[j] => i = j

\* What an answered write replaced is nowhere sealed and will not be again,
\* and neither is what the writes that sealed their value will have replaced.
ReplacedForGood ==
  /\ \A x \in Requests : Writes(x) => req[x].before \subseteq answered[req[x].id]
  /\ \A x \in Requests : Writes(x) /\ req[x].stage # "put" =>
       \A i \in Ids : blob[i] \notin req[x].before
  /\ \A i \in Ids : blob[i] \notin over
  /\ \A x \in Requests : Writes(x) => req[x].value \notin over

\* A reader knows no more replaced values than there are.
ReadersStart ==
  \A x \in Requests : req[x].op = "get" /\ req[x].stage = "unseal" =>
    req[x].value = 0 /\ req[x].stale \subseteq over

\* The pages so far: what was visible at each of them was shown or is still to
\* come, what was shown is behind the cursor and was shown once.
PagesComplete ==
  \A x \in Requests : req[x].op = "list" =>
    /\ \A i \in req[x].always :
         i \in {s.id : s \in req[x].shown} \/ (req[x].stage = "page" /\ i > req[x].after)
    /\ req[x].stage = "page" => \A s \in req[x].shown : s.id <= req[x].after
    /\ \A s, t \in req[x].shown : s.id = t.id => s = t

RowInv  == DeletedOnce /\ IdsApart /\ SealedFirst /\ PurgesDoomed /\ VersionsBounded
           /\ SharedWithOthers
ReadInv == ValuesApart /\ ReplacedForGood /\ ReadersStart /\ PagesComplete
IInv    == SecretsConsistent /\ RowInv /\ ReadInv /\ NoStaleRead

-----------------------------------------------------------------------------
(* Pages: ORDER BY id LIMIT n over a finite set.                           *)

\* F is a family of subsets of S.
FamilyOf(F, S) == F \subseteq SUBSET S /\ F # {}

\* A family of subsets of a finite set has a smallest member.
LEMMA SmallestMember ==
  ASSUME NEW S, IsFiniteSet(S), NEW F, FamilyOf(F, S)
  PROVE  \E M \in F : \A U \in F : U \subseteq M => U = M
<1>1. F \subseteq FiniteSubsetsOf(S)
  BY FS_FiniteSubsetsOfFinite DEF FamilyOf
<1>2. \E M \in F : \A U \in F : <<U, M>> \notin StrictSubsetOrdering(S)
  BY <1>1, FS_StrictSubsetOrderingWellFounded, WFMin DEF FamilyOf
<1> QED
  BY <1>2 DEF StrictSubsetOrdering, FamilyOf

\* A finite set of numbers has a least and a greatest one.
LEMMA Extremes ==
  ASSUME NEW T, T \subseteq Nat, IsFiniteSet(T), T # {}
  PROVE  /\ \E m \in T : \A t \in T : m <= t
         /\ \E m \in T : \A t \in T : t <= m
<1>1. \E m \in T : \A t \in T : m <= t
  <2> DEFINE Down(t) == {u \in T : u <= t}
             F == {Down(t) : t \in T}
  <2>1. FamilyOf(F, T)
    BY DEF FamilyOf
  <2>2. PICK M \in F : \A U \in F : U \subseteq M => U = M
    <3> HIDE DEF F
    <3> QED
      BY <2>1, SmallestMember
  <2>3. PICK m \in T : M = Down(m)
    OBVIOUS
  <2>4. ASSUME NEW t \in T, ~(m <= t) PROVE FALSE
    <3>1. Down(t) \subseteq M
      <4>1. \A u \in T : u \in Nat
        OBVIOUS
      <4>2. \A u \in T : u <= t => u <= m
        BY <2>4, <4>1
      <4> QED
        BY <2>3, <4>2
    <3>2. Down(t) = M
      BY <2>2, <3>1
    <3>3. m \in M
      BY <2>3
    <3> QED
      BY <2>4, <3>2, <3>3
  <2> QED
    BY <2>4
<1>2. \E m \in T : \A t \in T : t <= m
  <2> DEFINE Up(t) == {u \in T : t <= u}
             F == {Up(t) : t \in T}
  <2>1. FamilyOf(F, T)
    BY DEF FamilyOf
  <2>2. PICK M \in F : \A U \in F : U \subseteq M => U = M
    <3> HIDE DEF F
    <3> QED
      BY <2>1, SmallestMember
  <2>3. PICK m \in T : M = Up(m)
    OBVIOUS
  <2>4. ASSUME NEW t \in T, ~(t <= m) PROVE FALSE
    <3>1. Up(t) \subseteq M
      <4>1. \A u \in T : u \in Nat
        OBVIOUS
      <4>2. \A u \in T : t <= u => m <= u
        BY <2>4, <4>1
      <4> QED
        BY <2>3, <4>2
    <3>2. Up(t) = M
      BY <2>2, <3>1
    <3>3. m \in M
      BY <2>3
    <3> QED
      BY <2>4, <3>2, <3>3
  <2> QED
    BY <2>4
<1> QED
  BY <1>1, <1>2

\* The ids of a finite set of rows are finite.
LEMMA IdsFinite ==
  ASSUME NEW S, IsFiniteSet(S)
  PROVE  IsFiniteSet({p.id : p \in S})
<1> DEFINE f == [p \in S |-> p.id]
<1>1. f \in Surjection(S, {p.id : p \in S})
  BY DEF Surjection
<1> QED
  BY <1>1, FS_Surjection

\* The first n rows exist: n of them, or all when there are fewer, none behind
\* one that is left out.
LEMMA FirstRows ==
  ASSUME NEW S, IsFiniteSet(S), \A p \in S : p.id \in Nat, NEW n \in Nat
  PROVE  /\ First(S, n) \in SUBSET S
         /\ Cardinality(First(S, n)) = IF Cardinality(S) < n THEN Cardinality(S) ELSE n
         /\ \A p \in First(S, n), q \in S \ First(S, n) : p.id <= q.id
<1> DEFINE Low(P) == \A p \in P, q \in S \ P : p.id <= q.id
           F == {P \in SUBSET S : Low(P) /\ Cardinality(P) <= n}
           G == {S \ P : P \in F}
<1>1. {} \in F
  BY FS_EmptySet
<1>2. FamilyOf(G, S)
  BY <1>1 DEF FamilyOf
<1>3. PICK M \in G : \A U \in G : U \subseteq M => U = M
  <2> HIDE DEF G
  <2> QED
    BY <1>2, SmallestMember
<1>4. PICK P \in F : M = S \ P
  OBVIOUS
<1>5. /\ IsFiniteSet(P) /\ Cardinality(P) \in Nat /\ Cardinality(S) \in Nat
      /\ Cardinality(P) <= Cardinality(S)
  BY FS_Subset, FS_CardinalityType
<1>6. P # S => Cardinality(P) = n
  <2> SUFFICES ASSUME P # S, Cardinality(P) # n PROVE FALSE
    OBVIOUS
  <2>1. Cardinality(P) < n
    BY <1>5
  <2> DEFINE T == {p.id : p \in S \ P}
  <2>2. IsFiniteSet(T) /\ T \in SUBSET Nat /\ T # {}
    <3>1. IsFiniteSet(S \ P)
      BY FS_Subset
    <3> QED
      BY <3>1, IdsFinite
  <2>3. PICK m \in T : \A t \in T : m <= t
    <3> HIDE DEF T
    <3> QED
      BY <2>2, Extremes
  <2>4. PICK q \in S \ P : q.id = m
    OBVIOUS
  <2> DEFINE Q == P \cup {q}
  <2>5. Cardinality(Q) = Cardinality(P) + 1
    BY <1>5, <2>4, FS_AddElement
  <2>6. Cardinality(Q) <= n
    BY <1>5, <2>1, <2>5
  <2>7. Low(Q)
    <3>1. \A p \in P, r \in S \ P : p.id <= r.id
      OBVIOUS
    <3>2. \A r \in S \ P : q.id <= r.id
      BY <2>3, <2>4
    <3> QED
      BY <3>1, <3>2
  <2>8. Q \in F
    BY <2>4, <2>6, <2>7
  <2>9. S \ Q \in G
    BY <2>8
  <2>10. S \ Q \subseteq M /\ q \in M /\ q \notin S \ Q
    BY <1>4, <2>4
  <2> QED
    BY <1>3, <2>9, <2>10
<1>7. Cardinality(P) = IF Cardinality(S) < n THEN Cardinality(S) ELSE n
  <2>1. Cardinality(P) <= n
    OBVIOUS
  <2> QED
    BY <1>5, <1>6, <2>1
<1>8. P \in SUBSET S /\ \A p \in P, q \in S \ P : p.id <= q.id
  OBVIOUS
<1> HIDE DEF F, G, Low
<1> QED
  BY <1>7, <1>8 DEF First

\* A page shows everything when there is no more, and otherwise everything up
\* to its cursor and nothing beyond it.
LEMMA PageRows ==
  ASSUME NEW R, IsFiniteSet(R), \A p \in R : p.id \in Nat,
         \A p, q \in R : p.id = q.id => p = q
  PROVE  /\ First(R, PageSize) \subseteq R
         /\ ~(Cardinality(R) > PageSize) => First(R, PageSize) = R
         /\ Cardinality(R) > PageSize =>
              /\ \E p \in First(R, PageSize) : LastId(First(R, PageSize)) = p.id
              /\ \A p \in First(R, PageSize) : p.id <= LastId(First(R, PageSize))
              /\ \A q \in R \ First(R, PageSize) : q.id > LastId(First(R, PageSize))
<1> DEFINE P == First(R, PageSize)
<1>1. /\ PageSize \in Nat /\ PageSize # 0 /\ Cardinality(R) \in Nat
      /\ P \in SUBSET R
      /\ Cardinality(P) = IF Cardinality(R) < PageSize THEN Cardinality(R) ELSE PageSize
      /\ \A p \in P, q \in R \ P : p.id <= q.id
  BY FirstRows, FS_CardinalityType, SizeAssumption
<1>2. IsFiniteSet(P) /\ (Cardinality(R) = Cardinality(P) => R = P)
  BY <1>1, FS_Subset
<1> HIDE DEF P
<1>3. ~(Cardinality(R) > PageSize) => P = R
  BY <1>1, <1>2
<1>4. ASSUME Cardinality(R) > PageSize
      PROVE  /\ \E p \in P : LastId(P) = p.id
             /\ \A p \in P : p.id <= LastId(P)
             /\ \A q \in R \ P : q.id > LastId(P)
  <2> DEFINE T == {p.id : p \in P}
  <2>1. P # {}
    BY <1>1, <1>2, <1>4, FS_EmptySet
  <2>2. IsFiniteSet(T) /\ T \subseteq Nat /\ T # {}
    BY <1>1, <1>2, <2>1, IdsFinite
  <2>3. \E m \in T : \A t \in T : t <= m
    <3> HIDE DEF T
    <3> QED
      BY <2>2, Extremes
  <2>4. LastId(P) \in T /\ \A p \in P : p.id <= LastId(P)
    BY <2>3 DEF LastId
  <2>5. PICK m \in P : LastId(P) = m.id
    BY <2>4
  <2>6. ASSUME NEW q \in R \ P PROVE q.id > LastId(P)
    <3>1. m.id <= q.id /\ m # q /\ m \in R /\ q \in R
      BY <1>1, <2>6
    <3> QED
      BY <2>5, <3>1
  <2> QED
    BY <2>4, <2>5, <2>6
<1> QED
  BY <1>1, <1>3, <1>4 DEF P

\* There are finitely many entries to show.
LEMMA ShownFinite == IsFiniteSet(Shown)
<1> DEFINE A == {"owner", "shared"}
           f == [s \in Shown |-> <<s.id, s.access>>]
<1>1. IsFiniteSet(Ids)
  BY FS_Interval, SizeAssumption DEF Ids
<1>2. IsFiniteSet(A)
  <2>1. IsFiniteSet({"owner"})
    BY FS_Singleton
  <2>2. IsFiniteSet({"owner"} \cup {"shared"})
    BY <2>1, FS_AddElement
  <2> QED
    BY <2>2
<1>3. IsFiniteSet(Ids \X A)
  <2> HIDE DEF A
  <2> QED
    BY <1>1, <1>2, FS_Product
<1>4. f \in Injection(Shown, Ids \X A)
  <2>1. f \in [Shown -> Ids \X A]
    BY DEF Shown
  <2>2. \A s, t \in Shown : f[s] = f[t] => s = t
    BY DEF Shown
  <2> HIDE DEF f
  <2> QED
    BY <2>1, <2>2 DEF Injection, IsInjective
<1> QED
  <2> HIDE DEF A, f
  <2> QED
    BY <1>3, <1>4, FS_Injection

-----------------------------------------------------------------------------
(* Types.                                                                  *)

ReqTypes == {Idle} \cup Writing \cup Deleting \cup Sharing \cup Reading \cup Listing

\* The operation of a request tells what it carries.
LEMMA OpOf ==
  ASSUME TypeOK, NEW x \in Requests
  PROVE  /\ Writes(x) => req[x] \in Writing
         /\ req[x].op = "delete" => req[x] \in Deleting
         /\ req[x].op = "share" => req[x] \in Sharing
         /\ req[x].op = "get" => req[x] \in Reading
         /\ req[x].op = "list" => req[x] \in Listing
         /\ req[x].op = "none" => req[x] = Idle
<1>1. req[x] \in ReqTypes
  BY DEF TypeOK, ReqTypes
<1> QED
  BY <1>1 DEF Writes, ReqTypes, Idle, Writing, Deleting, Sharing, Reading, Listing

Operators == Agents \cup {Nobody}

\* A store of a new name and of an existing one, by an operator or an agent.
New(x) ==
  req[x] = Idle /\ \E by \in Operators, a \in Agents, n \in Names : SubmitNew(x, by, a, n)
Over(x) ==
  req[x] = Idle /\ \E by \in Operators, i \in Present : SubmitOver(x, by, i)

\* The steps of Next, one by one.
Moves(x) ==
  \/ New(x) \/ Over(x)
  \/ \E i \in Ids : Delete(x, i)
  \/ \E i \in Ids, a \in Agents : create_agent_secret_grant(x, i, a)
  \/ \E g \in grants : delete_agent_secret_grant(x, g)
  \/ \E i \in Ids, a \in Agents : secret_get(x, a, i)
  \/ \E who \in Operators : List(x, who)
  \/ PutAgentSecret(x) \/ InsertSecret(x) \/ InsertDuplicate(x) \/ Cleanup(x) \/ UpdateSecret(x)
  \/ DeleteAgentSecret(x) \/ Remove(x) \/ InsertGrant(x)
  \/ GetAgentSecret(x) \/ Page(x) \/ Respond(x) \/ Rollback(x)

\* Every step of the specification is one of these.
LEMMA NextMoves == Next => \E x \in Requests : Moves(x)
<1> SUFFICES ASSUME NEW x \in Requests, Start(x) PROVE Moves(x)
  BY DEF Next, Moves
<1>1. CASE \E a \in Agents, n \in Names : create_agent_secret(x, a, n)
  BY <1>1 DEF create_agent_secret, Moves, New, Operators
<1>2. CASE \E i \in Ids : update_agent_secret(x, i)
  BY <1>2 DEF update_agent_secret, Moves, Over, Operators
<1>3. CASE \E a \in Agents, n \in Names : secret_put(x, a, n)
  BY <1>3 DEF secret_put, Moves, New, Over, Operators, Named
<1>4. CASE "list" \in Ops /\ (list_agent_secrets(x) \/ \E a \in Agents : secret_list(x, a))
  BY <1>4 DEF list_agent_secrets, secret_list, Moves, Operators
<1> QED
  BY <1>1, <1>2, <1>3, <1>4 DEF Start, Moves, delete_agent_secret, secret_delete

\* A step of one request leaves the others where they are.
LEMMA LocalStep ==
  ASSUME TypeOK, NEW x \in Requests, Moves(x)
  PROVE  \A y \in Requests : y # x => req'[y] = req[y]
<1>1. req \in [Requests -> ReqTypes]
  BY DEF TypeOK, ReqTypes
<1>2. CASE \E r : req' = [req EXCEPT ![x] = r]
  BY <1>1, <1>2
<1>3. CASE New(x) \/ Over(x)
  BY <1>2, <1>3 DEF New, Over, SubmitNew, SubmitOver, Submit
<1>4. CASE req' = req
  BY <1>4
<1>5. CASE PutAgentSecret(x) \/ InsertDuplicate(x) \/ DeleteAgentSecret(x) \/ GetAgentSecret(x) \/ Page(x)
  BY <1>1, <1>5 DEF PutAgentSecret, InsertDuplicate, DeleteAgentSecret, GetAgentSecret, Page,
     Goto, Done
<1>6. CASE InsertSecret(x) \/ Cleanup(x) \/ UpdateSecret(x) \/ Remove(x) \/ InsertGrant(x)
           \/ Respond(x) \/ Rollback(x)
  BY <1>2, <1>6 DEF InsertSecret, Cleanup, UpdateSecret, Remove, InsertGrant, Respond, Rollback,
     Answer, Done
<1>7. CASE \/ \E i \in Ids : Delete(x, i)
           \/ \E i \in Ids, a \in Agents : create_agent_secret_grant(x, i, a)
           \/ \E g \in grants : delete_agent_secret_grant(x, g)
           \/ \E i \in Ids, a \in Agents : secret_get(x, a, i)
           \/ \E who \in Operators : List(x, who)
  BY <1>2, <1>4, <1>7 DEF Delete, create_agent_secret_grant, delete_agent_secret_grant, secret_get,
     List
<1> QED
  BY <1>3, <1>5, <1>6, <1>7 DEF Moves

\* What is visible is an entry of the listing, once for each secret: a secret
\* is not shared with its owner.
LEMMA VisibleRows ==
  ASSUME TypeOK, GrantsBacked, SharedWithOthers, NEW who
  PROVE  /\ Visible(who) \subseteq Shown
         /\ \A s, t \in Visible(who) : s.id = t.id => s = t
<1>1. \A g \in grants : g.id \in Ids /\ g.id \in Present /\ g.to # rows[g.id].agent
  BY DEF TypeOK, Grants, GrantsBacked, SharedWithOthers
<1>2. CASE who = Nobody
  BY <1>2 DEF Visible, AllSecrets, Present, Shown
<1>3. CASE who # Nobody
  <2>1. \A s \in Visible(who) :
          \/ \E i \in Present : s = [id |-> i, access |-> "owner"] /\ rows[i].agent = who
          \/ \E g \in grants : s = [id |-> g.id, access |-> "shared"] /\ g.to = who
    BY <1>3 DEF Visible, Owned, SharedWith
  <2> QED
    BY <1>1, <2>1 DEF Present, Shown
<1> QED
  BY <1>2, <1>3

\* A request that ends is idle.
LEMMA DoneType ==
  ASSUME TypeOK, NEW x \in Requests, Done(x)
  PROVE  req' \in [Requests -> ReqTypes] /\ req'[x] = Idle
  BY DEF TypeOK, Done, ReqTypes

\* The page P of the rows R past the cursor: all of them, or those up to the
\* next cursor.
Paged(x, R, P, more, last) ==
  /\ R = {s \in Visible(req[x].who) : s.id > req[x].after}
  /\ P \subseteq R
  /\ \A s, t \in R : s.id = t.id => s = t
  /\ ~more => P = R
  /\ more => /\ \A p \in P : p.id <= last
             /\ \A q \in R \ P : q.id > last
             /\ last > req[x].after
  /\ req'[x] = [req[x] EXCEPT
       !.shown = @ \cup P,
       !.always = @ \cap {s.id : s \in Visible(req[x].who)},
       !.stage = IF more THEN "page" ELSE "listed",
       !.after = IF more THEN last ELSE @]

\* Every page of secret_list and list_agent_secrets is such a page.
LEMMA PageStep ==
  ASSUME TypeOK, GrantsBacked, SharedWithOthers, NEW x \in Requests, Page(x)
  PROVE  \E R, P \in SUBSET Shown, more \in BOOLEAN, last \in 0..MaxIds : Paged(x, R, P, more, last)
<1> DEFINE R == {s \in Visible(req[x].who) : s.id > req[x].after}
           P == First(R, PageSize)
           more == Cardinality(R) > PageSize
           last == IF more THEN LastId(P) ELSE 0
<1>1. req[x] \in Listing
  BY OpOf DEF Page, At
<1>2. Visible(req[x].who) \subseteq Shown /\ \A s, t \in R : s.id = t.id => s = t
  BY VisibleRows
<1>3. R \in SUBSET Shown /\ IsFiniteSet(R) /\ \A p \in R : p.id \in Nat /\ p.id \in Ids
  <2>1. R \in SUBSET Shown
    BY <1>2
  <2>2. \A p \in Shown : p.id \in Nat /\ p.id \in Ids
    BY SizeAssumption DEF Shown, Ids
  <2>3. IsFiniteSet(R)
    BY <2>1, ShownFinite, FS_Subset
  <2> QED
    BY <2>1, <2>2, <2>3
<1>4. /\ P \subseteq R
      /\ ~more => P = R
      /\ more => /\ \E p \in P : LastId(P) = p.id
                 /\ \A p \in P : p.id <= LastId(P)
                 /\ \A q \in R \ P : q.id > LastId(P)
  <2> HIDE DEF R
  <2> QED
    BY <1>2, <1>3, PageRows
<1>5. more \in BOOLEAN /\ P \in SUBSET Shown
  BY <1>3, <1>4
<1>6. last \in 0..MaxIds
  BY <1>3, <1>4, SizeAssumption DEF Ids
<1>7. more => last > req[x].after
  BY <1>4
<1>8. req'[x] = [req[x] EXCEPT
        !.shown = @ \cup P,
        !.always = @ \cap {s.id : s \in Visible(req[x].who)},
        !.stage = IF more THEN "page" ELSE "listed",
        !.after = IF more THEN last ELSE @]
  <2>1. req \in [Requests -> ReqTypes]
    BY DEF TypeOK, ReqTypes
  <2>2. req' = [req EXCEPT ![x].shown = @ \cup P,
                           ![x].always = @ \cap {s.id : s \in Visible(req[x].who)},
                           ![x].stage = IF more THEN "page" ELSE "listed",
                           ![x].after = IF more THEN LastId(P) ELSE @]
    BY DEF Page
  <2> HIDE DEF R, P, more
  <2> QED
    BY <2>1, <2>2
<1>9. more => /\ \A p \in P : p.id <= last
              /\ \A q \in R \ P : q.id > last
  BY <1>4
<1>10. Paged(x, R, P, more, last)
  <2> HIDE DEF P, more, last
  <2> QED
    BY <1>2, <1>4, <1>7, <1>8, <1>9 DEF Paged
<1> HIDE DEF R, P, more, last
<1> QED
  BY <1>3, <1>5, <1>6, <1>10

\* Every step keeps the types.
LEMMA TypeStep ==
  ASSUME IInv, NEW x \in Requests, Moves(x)
  PROVE  TypeOK'
<1> USE DEF IInv, SecretsConsistent
<1>0. req \in [Requests -> ReqTypes]
  BY DEF TypeOK, ReqTypes
<1> HIDE DEF IInv, SecretsConsistent
<1> USE SizeAssumption
<1>a. TypeOK
  BY DEF IInv, SecretsConsistent
<1>b. blob \in [Ids -> 0..MaxWrites] /\ 0 \in 0..MaxWrites
  BY <1>a DEF TypeOK
<1>1. ASSUME NEW op \in {"create", "update"}, NEW by \in Operators, NEW i \in Ids,
             NEW a \in Agents, NEW n \in Names, NEW ver \in 1..(MaxWrites + 1),
             used' \in SUBSET Ids, Submit(x, op, by, i, a, n, ver)
      PROVE  TypeOK'
  <2>1. [op |-> op, by |-> by, id |-> i, agent |-> a, name |-> n, value |-> writes + 1,
         version |-> ver, stage |-> "put", before |-> answered[i]] \in Writing
    BY <1>1, <1>a DEF Submit, Writing, Operators, TypeOK, Values
  <2>2. req' \in [Requests -> ReqTypes]
    BY <1>0, <1>1, <2>1 DEF Submit, ReqTypes
  <2> QED
    BY <1>a, <1>1, <2>2 DEF Submit, TypeOK, ReqTypes, history
<1>2. CASE New(x)
  BY <1>a, <1>1, <1>2 DEF New, SubmitNew, TypeOK
<1>3. CASE Over(x)
  <2>1. PICK by \in Operators, i \in Present : SubmitOver(x, by, i)
    BY <1>3 DEF Over
  <2>2. i \in Ids /\ rows[i] \in Rows /\ rows[i].version <= writes /\ writes < MaxWrites
    BY <1>a, <2>1 DEF SubmitOver, Submit, Present, TypeOK, IInv, RowInv, VersionsBounded
  <2>3. rows[i].version + 1 \in 1..(MaxWrites + 1)
    BY <1>a, <2>2 DEF Rows, TypeOK
  <2> QED
    BY <1>a, <1>1, <2>1, <2>2, <2>3 DEF SubmitOver, Rows, TypeOK
<1>4. ASSUME NEW i \in Ids, Delete(x, i) PROVE TypeOK'
  <2>1. [op |-> "delete", id |-> i, stage |-> "purge"] \in Deleting
    BY DEF Deleting
  <2> QED
    BY <1>a, <1>4, <2>1 DEF Delete, TypeOK, counters
<1>5. ASSUME NEW i \in Ids, NEW a \in Agents, create_agent_secret_grant(x, i, a) PROVE TypeOK'
  <2>1. [op |-> "share", id |-> i, to |-> a, stage |-> "insert"] \in Sharing
    BY DEF Sharing
  <2> QED
    BY <1>a, <1>5, <2>1 DEF create_agent_secret_grant, TypeOK, counters, history
<1>6. ASSUME NEW g \in grants, delete_agent_secret_grant(x, g) PROVE TypeOK'
  BY <1>a, <1>6 DEF delete_agent_secret_grant, TypeOK, counters, history
<1>7. ASSUME NEW i \in Ids, NEW a \in Agents, secret_get(x, a, i) PROVE TypeOK'
  <2>1. [op |-> "get", who |-> a, id |-> i, stage |-> "unseal", value |-> 0, stale |-> over]
           \in Reading
    BY <1>a DEF Reading, TypeOK
  <2> QED
    BY <1>a, <1>7, <2>1 DEF secret_get, TypeOK, counters, history
<1>8. ASSUME NEW who \in Operators, List(x, who) PROVE TypeOK'
  <2>1. [op |-> "list", who |-> who, stage |-> "page", after |-> 0, shown |-> {}, always |-> Ids]
           \in Listing
    BY DEF Listing, Operators
  <2> QED
    BY <1>a, <1>8, <2>1 DEF List, TypeOK, counters, history
<1>9. CASE PutAgentSecret(x)
  <2>1. req[x] \in Writing
    BY <1>a, <1>9, OpOf DEF PutAgentSecret, Writes
  <2>2. [req[x] EXCEPT !.stage = "write"] \in Writing /\ req[x].value \in 0..MaxWrites
    BY <2>1 DEF Writing, Values
  <2> QED
    BY <1>a, <1>9, <2>2 DEF PutAgentSecret, Goto, TypeOK, counters, history
<1>10. ASSUME Answer(x), Writes(x)
       PROVE  /\ req' \in [Requests -> ReqTypes]
              /\ over' \in SUBSET Values /\ answered' \in [Ids -> SUBSET Values]
  <2>1. req[x] \in Writing
    BY <1>a, <1>10, OpOf
  <2> QED
    BY <1>a, <1>10, <2>1, DoneType DEF Answer, Writing, TypeOK
<1>11. CASE InsertSecret(x)
  <2>1. Writes(x) /\ req[x] \in Writing
    BY <1>a, <1>11, OpOf DEF InsertSecret, At, Writes
  <2>2. [agent |-> req[x].agent, name |-> req[x].name, version |-> 1] \in Rows
    BY <2>1 DEF Writing, Rows
  <2>3. rows' \in [Ids -> Rows \cup {NoRow}]
    BY <1>a, <1>11, <2>2 DEF InsertSecret, TypeOK
  <2> QED
    BY <1>a, <1>10, <1>11, <2>1, <2>3 DEF InsertSecret, TypeOK, ReqTypes, counters
<1>12. CASE InsertDuplicate(x)
  <2>1. req[x] \in Writing
    BY <1>a, <1>12, OpOf DEF InsertDuplicate, At, Writes
  <2>2. [req[x] EXCEPT !.stage = "cleanup"] \in Writing
    BY <2>1 DEF Writing
  <2>3. req' \in [Requests -> ReqTypes]
    BY <1>0, <1>a, <1>12, <2>2, DoneType DEF InsertDuplicate, Goto, ReqTypes
  <2> QED
    BY <1>a, <1>12, <2>3 DEF InsertDuplicate, TypeOK, ReqTypes, counters, history
<1>13. CASE Cleanup(x)
  <2>1. blob' \in [Ids -> 0..MaxWrites]
    BY <1>b, <1>13 DEF Cleanup
  <2> QED
    BY <1>a, <1>13, <2>1, DoneType DEF Cleanup, TypeOK, ReqTypes, counters, history
<1>14. CASE UpdateSecret(x)
  <2>1. Writes(x) /\ req[x] \in Writing
    BY <1>a, <1>14, OpOf DEF UpdateSecret, At, Writes
  <2>2. req[x].id \in Present => [rows[req[x].id] EXCEPT !.version = req[x].version] \in Rows
    BY <1>a, <2>1 DEF Writing, Rows, Present, TypeOK
  <2>3. rows' \in [Ids -> Rows \cup {NoRow}]
    BY <1>a, <1>14, <2>2 DEF UpdateSecret, TypeOK
  <2> QED
    BY <1>a, <1>10, <1>14, <2>1, <2>3 DEF UpdateSecret, TypeOK, ReqTypes, counters
<1>15. CASE DeleteAgentSecret(x)
  <2>1. req[x] \in Deleting
    BY <1>a, <1>15, OpOf DEF DeleteAgentSecret, At
  <2>2. [req[x] EXCEPT !.stage = "remove"] \in Deleting
    BY <2>1 DEF Deleting
  <2>3. blob' \in [Ids -> 0..MaxWrites]
    BY <1>b, <1>15 DEF DeleteAgentSecret
  <2> QED
    BY <1>a, <1>15, <2>2, <2>3 DEF DeleteAgentSecret, Goto, TypeOK, counters, history
<1>16. CASE Remove(x)
  <2>1. req[x] \in Deleting
    BY <1>a, <1>16, OpOf DEF Remove, At
  <2>2. gone' \in SUBSET Ids /\ rows' \in [Ids -> Rows \cup {NoRow}]
    BY <1>a, <1>16, <2>1 DEF Remove, TypeOK, Deleting
  <2> QED
    BY <1>a, <1>16, <2>2, DoneType DEF Remove, TypeOK, ReqTypes, counters
<1>17. CASE InsertGrant(x)
  <2>1. req[x] \in Sharing
    BY <1>a, <1>17, OpOf DEF InsertGrant, At
  <2>2. minted + 1 \in GrantIds /\ minted' \in 0..MaxGrants
    BY <1>a, <1>17 DEF InsertGrant, TypeOK, GrantIds
  <2>3. [gid |-> minted + 1, id |-> req[x].id, to |-> req[x].to] \in Grants
    BY <2>1, <2>2 DEF Sharing, Grants
  <2>4. grants' \in SUBSET Grants
    BY <1>a, <1>17, <2>3 DEF InsertGrant, TypeOK
  <2> QED
    BY <1>a, <1>17, <2>2, <2>4, DoneType DEF InsertGrant, TypeOK, ReqTypes, history
<1>18. CASE GetAgentSecret(x)
  <2>1. req[x] \in Reading /\ blob[req[x].id] \in 0..MaxWrites
    BY <1>a, <1>18, OpOf DEF GetAgentSecret, At, Reading, TypeOK
  <2>2. [req[x] EXCEPT !.stage = "got", !.value = blob[req[x].id]] \in Reading
    BY <2>1 DEF Reading
  <2>3. req' \in [Requests -> ReqTypes]
    BY <1>0, <1>a, <1>18, <2>2, DoneType DEF GetAgentSecret, ReqTypes
  <2> QED
    BY <1>a, <1>18, <2>3 DEF GetAgentSecret, TypeOK, ReqTypes, counters, history
<1>19. CASE Page(x)
  <2>1. req[x] \in Listing
    BY <1>a, <1>19, OpOf DEF Page, At
  <2>2. PICK R \in SUBSET Shown, P \in SUBSET Shown, more \in BOOLEAN, last \in 0..MaxIds :
          Paged(x, R, P, more, last)
    BY <1>a, <1>19, PageStep DEF IInv, SecretsConsistent, RowInv
  <2>3. req'[x] \in Listing
    <3>1. PICK A \in SUBSET Ids, stage \in {"page", "listed"}, after \in 0..MaxIds :
            req'[x] = [req[x] EXCEPT !.shown = @ \cup P, !.always = A, !.stage = stage,
                                     !.after = after]
      <4>1. req[x].after \in 0..MaxIds /\ req[x].always \in SUBSET Ids
        BY <2>1 DEF Listing
      <4> DEFINE A == req[x].always \cap {s.id : s \in Visible(req[x].who)}
                 stage == IF more THEN "page" ELSE "listed"
                 after == IF more THEN last ELSE req[x].after
      <4>2. A \in SUBSET Ids /\ stage \in {"page", "listed"} /\ after \in 0..MaxIds
        BY <4>1
      <4>3. req'[x] = [req[x] EXCEPT !.shown = @ \cup P, !.always = A, !.stage = stage,
                                     !.after = after]
        BY <2>2 DEF Paged
      <4> HIDE DEF A, stage, after
      <4> QED
        BY <4>2, <4>3
    <3> QED
      BY <2>1, <3>1 DEF Listing
  <2>4. DOMAIN req' = Requests /\ req' = [y \in Requests |-> req'[y]]
    BY <1>0, <1>19 DEF Page
  <2>5. req' \in [Requests -> ReqTypes]
    BY <1>0, <1>a, <2>3, <2>4, LocalStep DEF ReqTypes
  <2> QED
    BY <1>a, <1>19, <2>5 DEF Page, TypeOK, ReqTypes, counters, history
<1>20. CASE Respond(x) \/ Rollback(x)
  BY <1>a, <1>20, DoneType DEF Respond, Rollback, TypeOK, ReqTypes, counters, history
<1> QED
  BY <1>2, <1>3, <1>4, <1>5, <1>6, <1>7, <1>8, <1>9, <1>11, <1>12, <1>13, <1>14, <1>15, <1>16,
     <1>17, <1>18, <1>19, <1>20 DEF Moves

-----------------------------------------------------------------------------
(* Rows, grants and blobs.                                                 *)

\* The part of RowInv that is about request x.
RowLocal(x) ==
  /\ req[x].op = "create" =>
       /\ req[x].id \in used \ Known
       /\ \A y \in Requests : req[y].op = "create" /\ req[x].id = req[y].id => x = y
       /\ req[x].stage = "write" => blob[req[x].id] # 0
  /\ req[x].op \in {"update", "delete", "share"} => req[x].id \in Known
  /\ req[x].op = "delete" => req[x].id \in doomed
  /\ Writes(x) => req[x].version <= writes
  /\ req[x].op = "share" /\ req[x].id \in Present => req[x].to # rows[req[x].id].agent

\* The part of it that is about the stores.
RowGlobal ==
  /\ DeletedOnce
  /\ \A i \in Present : rows[i].version <= writes
  /\ \A g \in grants : g.to # rows[g.id].agent
  /\ ReadableUntilDeleted
  /\ GrantsBacked

\* RowInv and the two consistency properties, taken apart.
LEMMA RowParts ==
  /\ RowInv /\ ReadableUntilDeleted /\ GrantsBacked <=>
       RowGlobal /\ \A x \in Requests : RowLocal(x)
  BY DEF RowInv, RowGlobal, RowLocal, IdsApart, SealedFirst, PurgesDoomed, VersionsBounded,
         SharedWithOthers

\* A step that leaves the stores alone only has to answer for its own request.
LEMMA RowFrame ==
  ASSUME TypeOK, RowGlobal, \A y \in Requests : RowLocal(y),
         NEW x \in Requests, \A y \in Requests : y # x => req'[y] = req[y],
         UNCHANGED <<rows, grants, blob, used, gone>>,
         writes' \in {writes, writes + 1}, doomed \subseteq doomed', RowLocal(x)'
  PROVE  RowGlobal' /\ \A y \in Requests : RowLocal(y)'
<1>1. Present' = Present /\ Known' = Known
  BY DEF Present, Known
<1>2. \A i \in Present : rows[i].version \in Nat
  BY DEF TypeOK, Present, Rows
<1>3. RowGlobal'
  BY <1>1, <1>2 DEF RowGlobal, DeletedOnce, ReadableUntilDeleted, GrantsBacked, TypeOK
<1>4. ASSUME NEW y \in Requests, y # x PROVE RowLocal(y)'
  <2>1. Writes(y) => req[y].version \in Nat
    BY OpOf DEF Writing
  <2> QED
    BY <1>1, <1>4, <2>1 DEF RowLocal, Writes, TypeOK
<1> QED
  BY <1>3, <1>4

\* Rows, grants and blobs stay consistent through every step: the races for a
\* name and their clean-ups, overwrites of what is being deleted, grants of
\* what is being deleted.
LEMMA RowStep ==
  ASSUME IInv, NEW x \in Requests, Moves(x)
  PROVE  RowGlobal' /\ \A y \in Requests : RowLocal(y)'
<1>a. TypeOK /\ TypeOK'
  BY TypeStep DEF IInv, SecretsConsistent
<1>b. RowGlobal /\ \A y \in Requests : RowLocal(y)
  BY RowParts DEF IInv, SecretsConsistent
<1>c. req \in [Requests -> ReqTypes] /\ \A y \in Requests : y # x => req'[y] = req[y]
  BY <1>a, LocalStep DEF TypeOK, ReqTypes
<1>d. req'[x].op = "none" \/ req'[x].op = "get" \/ req'[x].op = "list" => RowLocal(x)'
  BY DEF RowLocal, Writes
<1>e. Done(x) => req'[x].op = "none"
  BY <1>a, DoneType DEF Idle
<1>f. Present \subseteq Ids /\ gone \subseteq Ids
  BY <1>a DEF TypeOK, Present
<1>1. CASE New(x)
  <2>1. PICK by \in Operators, a \in Agents, n \in Names, i \in Ids \ used :
          used' = used \cup {i} /\ Submit(x, "create", by, i, a, n, 1)
    BY <1>1 DEF New, SubmitNew
  <2>2. req'[x].op = "create" /\ req'[x].id = i /\ req'[x].stage = "put" /\ req'[x].version = 1
    BY <1>c, <2>1 DEF Submit
  <2>3. UNCHANGED <<rows, grants, blob, gone, doomed>> /\ writes' = writes + 1 /\ writes \in Nat
    BY <1>a, <2>1 DEF Submit, history, TypeOK
  <2>4. Present' = Present /\ Known' = Known
    BY <2>3 DEF Present, Known
  <2>5. \A j \in Present : rows[j].version \in Nat
    BY <1>a DEF TypeOK, Present, Rows
  <2>6. RowGlobal'
    BY <1>b, <2>1, <2>3, <2>4, <2>5 DEF RowGlobal, DeletedOnce, ReadableUntilDeleted, GrantsBacked
  <2>7. i \notin Known
    BY <1>b, <2>1 DEF RowGlobal, DeletedOnce
  <2>8. RowLocal(x)'
    BY <1>b, <1>c, <2>1, <2>2, <2>3, <2>4, <2>7 DEF RowLocal, Writes
  <2>9. ASSUME NEW y \in Requests, y # x PROVE RowLocal(y)'
    <3>1. Writes(y) => req[y].version \in Nat
      BY <1>a, OpOf DEF Writing
    <3> QED
      BY <1>b, <1>c, <2>1, <2>2, <2>3, <2>4, <2>9, <3>1 DEF RowLocal, Writes
  <2> QED
    BY <2>6, <2>8, <2>9
<1>2. CASE Over(x)
  <2>1. PICK by \in Operators, i \in Present :
          Submit(x, "update", by, i, rows[i].agent, rows[i].name, rows[i].version + 1)
          /\ UNCHANGED used
    BY <1>2 DEF Over, SubmitOver
  <2>2. req'[x].op = "update" /\ req'[x].id = i /\ req'[x].version = rows[i].version + 1
    BY <1>c, <2>1 DEF Submit
  <2>3. UNCHANGED <<rows, grants, blob, used, gone, doomed>> /\ writes' = writes + 1
        /\ writes \in Nat /\ rows[i].version \in Nat /\ rows[i].version <= writes
    BY <1>a, <1>b, <2>1 DEF Submit, history, TypeOK, RowGlobal, Present, Rows
  <2>4. i \in Known'
    BY <2>3 DEF Present, Known
  <2>5. RowLocal(x)'
    BY <2>2, <2>3, <2>4 DEF RowLocal, Writes
  <2> QED
    BY <1>a, <1>b, <1>c, <2>3, <2>5, RowFrame
<1>3. ASSUME NEW i \in Ids, Delete(x, i)
      PROVE  RowGlobal' /\ \A y \in Requests : RowLocal(y)'
  <2>1. req'[x].op = "delete" /\ req'[x].id = i /\ i \in doomed' /\ i \in Known'
    BY <1>c, <1>3 DEF Delete, Known, Present
  <2>2. RowLocal(x)'
    BY <2>1 DEF RowLocal, Writes
  <2> QED
    BY <1>a, <1>b, <1>c, <1>3, <2>2, RowFrame DEF Delete, counters
<1>4. ASSUME NEW i \in Ids, NEW a \in Agents, create_agent_secret_grant(x, i, a)
      PROVE  RowGlobal' /\ \A y \in Requests : RowLocal(y)'
  <2>1. req'[x].op = "share" /\ req'[x].id = i /\ req'[x].to = a /\ i \in Known'
        /\ a # rows'[i].agent
    BY <1>c, <1>4 DEF create_agent_secret_grant, Known, Present, history
  <2>2. RowLocal(x)'
    BY <2>1 DEF RowLocal, Writes
  <2> QED
    BY <1>a, <1>b, <1>c, <1>4, <2>2, RowFrame DEF create_agent_secret_grant, counters, history
<1>5. ASSUME NEW g \in grants, delete_agent_secret_grant(x, g)
      PROVE  RowGlobal' /\ \A y \in Requests : RowLocal(y)'
  <2>1. UNCHANGED <<rows, blob, used, writes, req, gone, doomed>> /\ grants' \subseteq grants
    BY <1>5 DEF delete_agent_secret_grant, counters, history
  <2>2. Present' = Present /\ Known' = Known
    BY <2>1 DEF Present, Known
  <2> QED
    BY <1>b, <2>1, <2>2
    DEF RowGlobal, RowLocal, DeletedOnce, ReadableUntilDeleted, GrantsBacked, Writes
<1>6. ASSUME NEW i \in Ids, NEW a \in Agents, secret_get(x, a, i)
      PROVE  RowGlobal' /\ \A y \in Requests : RowLocal(y)'
  <2>1. req'[x].op = "get"
    BY <1>c, <1>6 DEF secret_get
  <2> QED
    BY <1>a, <1>b, <1>c, <1>d, <1>6, <2>1, RowFrame DEF secret_get, counters, history
<1>7. ASSUME NEW who \in Operators, List(x, who)
      PROVE  RowGlobal' /\ \A y \in Requests : RowLocal(y)'
  <2>1. req'[x].op = "list"
    BY <1>c, <1>7 DEF List
  <2> QED
    BY <1>a, <1>b, <1>c, <1>d, <1>7, <2>1, RowFrame DEF List, counters, history
<1>8. CASE PutAgentSecret(x)
  <2>1. Writes(x) /\ req[x] \in Writing /\ req[x].value # 0 /\ req[x].id \in Ids
    BY <1>a, <1>8, OpOf DEF PutAgentSecret, Writes, Writing, Values
  <2>2. /\ req'[x].op = req[x].op /\ req'[x].id = req[x].id /\ req'[x].version = req[x].version
        /\ UNCHANGED <<rows, grants, used, writes, gone, doomed>>
        /\ \A i \in Ids : blob'[i] = IF i = req[x].id THEN req[x].value ELSE blob[i]
    BY <1>a, <1>c, <1>8, <2>1 DEF PutAgentSecret, Goto, Writing, counters, history, TypeOK
  <2>3. Present' = Present /\ Known' = Known
    BY <2>2 DEF Present, Known
  <2>4. \A i \in Ids : blob[i] # 0 => blob'[i] # 0
    BY <2>1, <2>2
  <2>5. RowGlobal'
    BY <1>b, <1>f, <2>2, <2>3, <2>4 DEF RowGlobal, DeletedOnce, ReadableUntilDeleted, GrantsBacked
  <2>6. RowLocal(x)'
    BY <1>b, <1>c, <2>1, <2>2, <2>3 DEF RowLocal, Writes
  <2>7. ASSUME NEW y \in Requests, y # x PROVE RowLocal(y)'
    <3>1. Writes(y) => req[y].id \in Ids
      BY <1>a, OpOf DEF Writing
    <3> QED
      BY <1>b, <1>c, <2>1, <2>2, <2>3, <2>4, <2>7, <3>1 DEF RowLocal, Writes
  <2> QED
    BY <2>5, <2>6, <2>7
<1>9. CASE InsertSecret(x)
  <2> DEFINE k == req[x].id
  <2>1. /\ req[x] \in Writing /\ req[x].op = "create" /\ req[x].stage = "write"
        /\ k \in Ids /\ k \notin Known /\ k \in used /\ blob[k] # 0 /\ req'[x].op = "none"
    BY <1>a, <1>b, <1>e, <1>9, OpOf DEF InsertSecret, At, Writes, Writing, RowLocal, Answer
  <2>2. /\ UNCHANGED <<grants, blob, used, writes, gone, doomed>>
        /\ \A i \in Ids : i # k => rows'[i] = rows[i]
        /\ rows'[k].version = 1 /\ rows'[k] # NoRow
    BY <1>a, <1>9, <2>1 DEF InsertSecret, counters, TypeOK, NoRow
  <2>3. Present' = Present \cup {k} /\ Known' = Known \cup {k}
    BY <2>1, <2>2 DEF Present, Known
  <2>4. writes \in Nat /\ 1 <= writes
    <3>1. req[x].version \in Nat /\ req[x].version >= 1 /\ req[x].version <= writes
      BY <1>b, <2>1 DEF RowLocal, Writes, Writing
    <3> QED
      BY <1>a, <3>1 DEF TypeOK
  <2>5. RowGlobal'
    BY <1>b, <1>f, <2>1, <2>2, <2>3, <2>4
    DEF RowGlobal, DeletedOnce, ReadableUntilDeleted, GrantsBacked, Known
  <2>6. RowLocal(x)'
    BY <1>d, <2>1
  <2>7. ASSUME NEW y \in Requests, y # x PROVE RowLocal(y)'
    <3>1. req[y].op = "create" => req[y].id # k
      BY <1>b, <2>1, <2>7 DEF RowLocal
    <3>2. req[y].op = "share" => req[y].id # k
      BY <1>b, <2>1, <2>7 DEF RowLocal
    <3> QED
      BY <1>b, <1>c, <1>f, <2>1, <2>2, <2>3, <2>7, <3>1, <3>2 DEF RowLocal, Writes
  <2> QED
    BY <2>5, <2>6, <2>7
<1>10. CASE InsertDuplicate(x)
  <2>1. req[x] \in Writing /\ req[x].op = "create"
    BY <1>a, <1>10, OpOf DEF InsertDuplicate, At, Writes
  <2>2. UNCHANGED <<rows, grants, blob, used, writes, gone, doomed>>
    BY <1>10 DEF InsertDuplicate, counters, history
  <2>3. Present' = Present /\ Known' = Known
    BY <2>2 DEF Present, Known
  <2>4. Goto(x, "cleanup") => /\ req'[x].op = req[x].op /\ req'[x].id = req[x].id
                              /\ req'[x].version = req[x].version /\ req'[x].stage = "cleanup"
    BY <1>c, <2>1 DEF Goto, Writing
  <2>5. Goto(x, "cleanup") => RowLocal(x)'
    BY <1>b, <1>c, <2>1, <2>2, <2>3, <2>4 DEF RowLocal, Writes
  <2>6. RowLocal(x)'
    BY <1>d, <1>e, <1>10, <2>5 DEF InsertDuplicate
  <2> QED
    BY <1>a, <1>b, <1>c, <2>2, <2>6, RowFrame
<1>11. CASE Cleanup(x)
  <2> DEFINE k == req[x].id
  <2>1. /\ req[x] \in Writing /\ req[x].op = "create" /\ k \in Ids /\ k \notin Known
        /\ req'[x].op = "none"
    BY <1>a, <1>b, <1>e, <1>11, OpOf DEF Cleanup, At, Writes, Writing, RowLocal
  <2>2. /\ UNCHANGED <<rows, grants, used, writes, gone, doomed>>
        /\ \A i \in Ids : i # k => blob'[i] = blob[i]
    BY <1>a, <1>11 DEF Cleanup, counters, history, TypeOK
  <2>3. Present' = Present /\ Known' = Known
    BY <2>2 DEF Present, Known
  <2>4. RowGlobal'
    BY <1>b, <1>f, <2>1, <2>2, <2>3
    DEF RowGlobal, DeletedOnce, ReadableUntilDeleted, GrantsBacked, Known
  <2>5. ASSUME NEW y \in Requests, y # x PROVE RowLocal(y)'
    <3>1. req[y].op = "create" => req[y].id # k /\ req[y].id \in Ids
      BY <1>a, <1>b, <2>1, <2>5, OpOf DEF RowLocal, Writes, Writing
    <3> QED
      BY <1>b, <1>c, <2>1, <2>2, <2>3, <2>5, <3>1 DEF RowLocal, Writes
  <2> QED
    BY <1>d, <2>1, <2>4, <2>5
<1>12. CASE UpdateSecret(x)
  <2> DEFINE k == req[x].id
  <2>1. /\ req[x] \in Writing /\ k \in Ids /\ req[x].version <= writes /\ req'[x].op = "none"
    BY <1>a, <1>b, <1>e, <1>12, OpOf DEF UpdateSecret, At, Writes, Writing, RowLocal, Answer
  <2>2. /\ UNCHANGED <<grants, blob, used, writes, gone, doomed>>
        /\ \A i \in Ids : rows'[i] = IF i = k /\ i \in Present
                                     THEN [rows[i] EXCEPT !.version = req[x].version] ELSE rows[i]
    BY <1>a, <1>12, <2>1 DEF UpdateSecret, counters, TypeOK
  <2>3. \A i \in Present : /\ rows'[i] # NoRow /\ rows'[i].agent = rows[i].agent
                           /\ rows'[i].version \in {rows[i].version, req[x].version}
    BY <1>a, <2>2 DEF Present, TypeOK, Rows, NoRow
  <2>4. Present' = Present
    BY <1>f, <2>2, <2>3 DEF Present
  <2>5. Known' = Known
    BY <2>2, <2>4 DEF Known
  <2>6. RowGlobal'
    BY <1>b, <1>f, <2>1, <2>2, <2>3, <2>4, <2>5
    DEF RowGlobal, DeletedOnce, ReadableUntilDeleted, GrantsBacked
  <2>7. ASSUME NEW y \in Requests, y # x PROVE RowLocal(y)'
    BY <1>b, <1>c, <2>1, <2>2, <2>3, <2>4, <2>5, <2>7 DEF RowLocal, Writes
  <2> QED
    BY <1>d, <2>1, <2>6, <2>7
<1>13. CASE DeleteAgentSecret(x)
  <2> DEFINE k == req[x].id
  <2>1. req[x] \in Deleting /\ k \in doomed /\ k \in Known /\ k \in Ids
    BY <1>a, <1>b, <1>13, OpOf DEF DeleteAgentSecret, At, RowLocal, Deleting
  <2>2. /\ req'[x].op = "delete" /\ req'[x].id = k
        /\ UNCHANGED <<rows, grants, used, writes, gone, doomed>>
        /\ \A i \in Ids : i # k => blob'[i] = blob[i]
    BY <1>a, <1>c, <1>13, <2>1 DEF DeleteAgentSecret, Goto, Deleting, counters, history, TypeOK
  <2>3. Present' = Present /\ Known' = Known
    BY <2>2 DEF Present, Known
  <2>4. RowGlobal'
    BY <1>b, <1>f, <2>1, <2>2, <2>3
    DEF RowGlobal, DeletedOnce, ReadableUntilDeleted, GrantsBacked
  <2>5. RowLocal(x)'
    BY <2>1, <2>2, <2>3 DEF RowLocal, Writes
  <2>6. ASSUME NEW y \in Requests, y # x PROVE RowLocal(y)'
    <3>1. req[y].op = "create" => req[y].id # k /\ req[y].id \in Ids
      BY <1>a, <1>b, <2>1, <2>6, OpOf DEF RowLocal, Writes, Writing
    <3> QED
      BY <1>b, <1>c, <2>1, <2>2, <2>3, <2>6, <3>1 DEF RowLocal, Writes
  <2> QED
    BY <2>4, <2>5, <2>6
<1>14. CASE Remove(x)
  <2> DEFINE k == req[x].id
  <2>1. req[x] \in Deleting /\ k \in Known /\ k \in Ids /\ req'[x].op = "none"
    BY <1>a, <1>b, <1>e, <1>14, OpOf DEF Remove, At, RowLocal, Deleting
  <2>2. /\ UNCHANGED <<blob, used, writes, doomed>>
        /\ grants' = {g \in grants : g.id # k}
        /\ gone' = IF k \in Present THEN gone \cup {k} ELSE gone
        /\ \A i \in Ids : rows'[i] = IF i = k THEN NoRow ELSE rows[i]
    BY <1>a, <1>14 DEF Remove, counters, TypeOK
  <2>3. Present' = Present \ {k} /\ Known' = Known
    BY <1>f, <2>1, <2>2 DEF Present, Known
  <2>4. RowGlobal'
    BY <1>b, <1>f, <2>1, <2>2, <2>3
    DEF RowGlobal, DeletedOnce, ReadableUntilDeleted, GrantsBacked, Known
  <2>5. ASSUME NEW y \in Requests, y # x PROVE RowLocal(y)'
    BY <1>b, <1>c, <1>f, <2>1, <2>2, <2>3, <2>5 DEF RowLocal, Writes
  <2> QED
    BY <1>d, <2>1, <2>4, <2>5
<1>15. CASE InsertGrant(x)
  <2>1. req[x] \in Sharing /\ req'[x].op = "none"
    BY <1>a, <1>e, <1>15, OpOf DEF InsertGrant, At
  <2>2. UNCHANGED <<rows, blob, used, writes, gone, doomed>>
    BY <1>15 DEF InsertGrant, history
  <2>3. Present' = Present /\ Known' = Known
    BY <2>2 DEF Present, Known
  <2>4. CASE grants' = grants
    BY <1>a, <1>b, <1>c, <1>d, <2>1, <2>2, <2>4, RowFrame
  <2>5. CASE grants' # grants
    <3> DEFINE h == [gid |-> minted + 1, id |-> req[x].id, to |-> req[x].to]
    <3>1. /\ req[x].id \in Present /\ ~Shared(req[x].id, req[x].to) /\ grants' = grants \cup {h}
          /\ h.id = req[x].id /\ h.to = req[x].to /\ h.to # rows[h.id].agent
      BY <1>b, <1>15, <2>5 DEF InsertGrant, At, RowLocal
    <3> HIDE DEF h
    <3>2. \A g \in grants : ~(g.id = h.id /\ g.to = h.to)
      BY <3>1 DEF Shared
    <3>3. GrantsBacked'
      BY <1>b, <2>3, <3>1, <3>2 DEF RowGlobal, GrantsBacked
    <3>4. RowGlobal'
      BY <1>b, <2>2, <2>3, <3>1, <3>3 DEF RowGlobal, DeletedOnce, ReadableUntilDeleted
    <3>5. ASSUME NEW y \in Requests, y # x PROVE RowLocal(y)'
      BY <1>b, <1>c, <2>1, <2>2, <2>3, <3>5 DEF RowLocal, Writes
    <3> QED
      BY <1>d, <2>1, <3>4, <3>5
  <2> QED
    BY <2>4, <2>5
<1>16. CASE GetAgentSecret(x)
  <2>1. req[x] \in Reading /\ req[x].op = "get"
    BY <1>a, <1>16, OpOf DEF GetAgentSecret, At
  <2>2. req'[x].op \in {"none", "get"}
    BY <1>c, <1>e, <1>16, <2>1 DEF GetAgentSecret, Reading
  <2> QED
    BY <1>a, <1>b, <1>c, <1>d, <1>16, <2>2, RowFrame DEF GetAgentSecret, counters, history
<1>17. CASE Page(x)
  <2>1. req[x] \in Listing
    BY <1>a, <1>17, OpOf DEF Page, At
  <2>2. PICK R \in SUBSET Shown, P \in SUBSET Shown, more \in BOOLEAN, last \in 0..MaxIds :
          Paged(x, R, P, more, last)
    BY <1>a, <1>17, PageStep DEF IInv, SecretsConsistent, RowInv
  <2>3. req'[x].op = "list"
    BY <2>1, <2>2 DEF Paged, Listing
  <2> QED
    BY <1>a, <1>b, <1>c, <1>d, <1>17, <2>3, RowFrame DEF Page, counters, history
<1>18. CASE Respond(x) \/ Rollback(x)
  BY <1>a, <1>b, <1>c, <1>d, <1>e, <1>18, RowFrame DEF Respond, Rollback, counters, history
<1> QED
  BY <1>1, <1>2, <1>3, <1>4, <1>5, <1>6, <1>7, <1>8, <1>9, <1>10, <1>11, <1>12, <1>13, <1>14,
     <1>15, <1>16, <1>17, <1>18 DEF Moves

-----------------------------------------------------------------------------
(* Values: the blob as a regular register.                                 *)

ValueInv == ValuesApart /\ ReplacedForGood

\* Request y, if it writes after the step, wrote the same before it.
KeepsWrite(y) ==
  Writes(y)' =>
    /\ Writes(y)
    /\ req'[y].id = req[y].id /\ req'[y].value = req[y].value /\ req'[y].before = req[y].before
    /\ req'[y].stage # "put" => req[y].stage # "put"

\* What a writer carries.
LEMMA WriterType ==
  ASSUME TypeOK, NEW x \in Requests, Writes(x)
  PROVE  /\ req[x].id \in Ids /\ req[x].value \in Nat /\ req[x].value # 0
         /\ req[x].before \subseteq Values
  BY OpOf DEF Writing, Values

\* A step that seals nothing, or purges, and answers nobody.
LEMMA ValueFrame ==
  ASSUME TypeOK, ValueInv, UNCHANGED <<writes, answered, over>>,
         \A i \in Ids : blob'[i] \in {blob[i], 0},
         \A y \in Requests : KeepsWrite(y)
  PROVE  ValueInv'
<1>0. /\ writes \in Nat
      /\ \A i \in Ids : 0 \notin answered[i]
      /\ 0 \notin over
      /\ \A y \in Requests : Writes(y) =>
           req[y].value # 0 /\ req[y].id \in Ids /\ 0 \notin req[y].before
  BY WriterType DEF TypeOK, Values
<1>1. ValuesApart'
  <2>1. \A i \in Ids : blob'[i] <= writes'
    BY <1>0 DEF ValueInv, ValuesApart
  <2>2. \A x, y \in Requests : Writes(x)' /\ Writes(y)' /\ req'[x].value = req'[y].value => x = y
    BY DEF ValueInv, ValuesApart, KeepsWrite
  <2>3. \A x \in Requests : Writes(x)' => req'[x].value <= writes' /\ \A i \in Ids :
          req'[x].value \notin answered'[i] /\ (blob'[i] = req'[x].value => i = req'[x].id)
    BY <1>0 DEF ValueInv, ValuesApart, KeepsWrite
  <2>4. \A i, j \in Ids : blob'[i] \in answered'[j] => i = j
    BY <1>0 DEF ValueInv, ValuesApart
  <2>5. (\A i \in Ids : \A v \in answered'[i] : v <= writes') /\ (\A v \in over' : v <= writes')
    BY DEF ValueInv, ValuesApart
  <2> QED
    BY <2>1, <2>2, <2>3, <2>4, <2>5 DEF ValuesApart
<1>2. ReplacedForGood'
  <2>1. \A x \in Requests : Writes(x)' =>
          req'[x].before \subseteq answered'[req'[x].id] /\ req'[x].value \notin over'
    BY DEF ValueInv, ReplacedForGood, KeepsWrite
  <2>2. \A x \in Requests : Writes(x)' /\ req'[x].stage # "put" =>
          \A i \in Ids : blob'[i] \notin req'[x].before
    BY <1>0 DEF ValueInv, ReplacedForGood, KeepsWrite
  <2>3. \A i \in Ids : blob'[i] \notin over'
    BY <1>0 DEF ValueInv, ReplacedForGood
  <2> QED
    BY <2>1, <2>2, <2>3 DEF ReplacedForGood
<1> QED
  BY <1>1, <1>2 DEF ValueInv

\* A value that is submitted is new everywhere.
LEMMA ValueSubmit ==
  ASSUME TypeOK, ValueInv, NEW x \in Requests, NEW op \in {"create", "update"}, NEW by,
         NEW i \in Ids, NEW a, NEW n, NEW ver, Submit(x, op, by, i, a, n, ver)
  PROVE  ValueInv'
<1>0. /\ writes \in Nat /\ writes' = writes + 1 /\ UNCHANGED <<blob, answered, over>>
      /\ \A j \in Ids : blob[j] \in Nat /\ answered[j] \subseteq Nat
      /\ over \subseteq Nat
      /\ \A y \in Requests : Writes(y) => req[y].value \in Nat
  BY WriterType DEF TypeOK, Submit, history, Values
<1>1. /\ req'[x].op = op /\ req'[x].id = i /\ req'[x].value = writes + 1
      /\ req'[x].before = answered[i] /\ req'[x].stage = "put"
      /\ \A y \in Requests : y # x => req'[y] = req[y]
  BY DEF Submit, TypeOK
<1>2. /\ \A j \in Ids : blob[j] <= writes /\ writes + 1 \notin answered[j] /\ blob[j] # writes + 1
      /\ writes + 1 \notin over
      /\ \A y \in Requests : Writes(y) => req[y].value # writes + 1
  BY <1>0 DEF ValueInv, ValuesApart
<1>3. ValuesApart'
  <2>1. /\ \A j \in Ids : blob'[j] <= writes' /\ \A v \in answered'[j] : v <= writes'
        /\ \A v \in over' : v <= writes'
        /\ \A y \in Requests : Writes(y)' => req'[y].value <= writes'
    BY <1>0, <1>1 DEF ValueInv, ValuesApart, Writes
  <2>2. \A y, z \in Requests : Writes(y)' /\ Writes(z)' /\ req'[y].value = req'[z].value => y = z
    BY <1>1, <1>2 DEF ValueInv, ValuesApart, Writes
  <2>3. \A y \in Requests : Writes(y)' => \A j \in Ids :
          req'[y].value \notin answered'[j] /\ (blob'[j] = req'[y].value => j = req'[y].id)
    BY <1>0, <1>1, <1>2 DEF ValueInv, ValuesApart, Writes
  <2> QED
    BY <1>0, <2>1, <2>2, <2>3 DEF ValuesApart, ValueInv
<1>4. ReplacedForGood'
  BY <1>0, <1>1, <1>2 DEF ReplacedForGood, ValueInv, Writes
<1> QED
  BY <1>3, <1>4 DEF ValueInv

\* A Put seals a value no other request brings and that was not answered yet,
\* over one that is not sealed anywhere else.
LEMMA ValuePut ==
  ASSUME TypeOK, ValueInv, NEW x \in Requests, PutAgentSecret(x)
  PROVE  ValueInv'
<1>0. /\ Writes(x) /\ req[x] \in Writing
      /\ req[x].id \in Ids /\ UNCHANGED <<writes, answered, over>>
      /\ \A i \in Ids : blob'[i] = IF i = req[x].id THEN req[x].value ELSE blob[i]
  BY WriterType, OpOf DEF PutAgentSecret, Writes, TypeOK, counters, history
<1>1. /\ req'[x].op = req[x].op /\ req'[x].id = req[x].id /\ req'[x].value = req[x].value
      /\ req'[x].before = req[x].before
      /\ \A y \in Requests : y # x => req'[y] = req[y]
  BY <1>0 DEF PutAgentSecret, Goto, Writing, TypeOK
<1>2. /\ \A y \in Requests : Writes(y)' <=> Writes(y)
      /\ \A y \in Requests : Writes(y) => req'[y].id = req[y].id /\ req'[y].value = req[y].value
                                          /\ req'[y].before = req[y].before
  BY <1>1 DEF Writes
<1>3. ValuesApart'
  <2>1. \A y \in Requests : Writes(y)' => \A i \in Ids :
          req'[y].value \notin answered'[i] /\ (blob'[i] = req'[y].value => i = req'[y].id)
    BY <1>0, <1>2 DEF ValueInv, ValuesApart
  <2>2. \A i, j \in Ids : blob'[i] \in answered'[j] => i = j
    BY <1>0, <1>2 DEF ValueInv, ValuesApart
  <2> QED
    BY <1>0, <1>2, <2>1, <2>2 DEF ValueInv, ValuesApart
<1>4. ReplacedForGood'
  <2>1. \A y \in Requests : Writes(y) => req[y].before \subseteq answered[req[y].id]
    BY DEF ValueInv, ReplacedForGood
  <2>2. \A y \in Requests : Writes(y) => req[y].id \in Ids /\ req[x].value \notin req[y].before
    BY <1>0, <2>1, WriterType DEF ValueInv, ValuesApart
  <2>3. ASSUME NEW i \in Ids, i # req[x].id PROVE blob[i] \notin req[x].before
    BY <1>0, <2>1, <2>3 DEF ValueInv, ValuesApart
  <2>4. \A y \in Requests : Writes(y)' /\ req'[y].stage # "put" =>
          \A i \in Ids : blob'[i] \notin req'[y].before
    BY <1>0, <1>1, <1>2, <2>2, <2>3 DEF ValueInv, ReplacedForGood
  <2>5. \A i \in Ids : blob'[i] \notin over'
    BY <1>0 DEF ValueInv, ReplacedForGood
  <2> QED
    BY <1>0, <1>2, <2>4, <2>5 DEF ValueInv, ReplacedForGood
<1> QED
  BY <1>3, <1>4 DEF ValueInv

\* What an answered write replaced is sealed nowhere, since it sealed its own
\* value after it had begun.
LEMMA ValueAnswer ==
  ASSUME TypeOK, ValueInv, NEW x \in Requests, Writes(x), req[x].stage # "put", Answer(x),
         UNCHANGED <<blob, writes>>
  PROVE  ValueInv'
<1>0. /\ req[x].id \in Ids /\ req[x].before \subseteq answered[req[x].id]
      /\ over' = over \cup req[x].before
      /\ \A i \in Ids : answered[i] \subseteq answered'[i]
      /\ \A i \in Ids : \A v \in answered'[i] :
           v \in answered[i] \/ (i = req[x].id /\ v = req[x].value)
  <2>1. \A i \in Ids : answered'[i] = IF i = req[x].id THEN answered[i] \cup {req[x].value}
                                                       ELSE answered[i]
    BY DEF Answer, TypeOK
  <2>2. req[x].id \in Ids /\ req[x].before \subseteq answered[req[x].id]
    BY WriterType DEF ValueInv, ReplacedForGood
  <2> QED
    BY <2>1, <2>2 DEF Answer
<1>1. ~Writes(x)' /\ \A y \in Requests : y # x => req'[y] = req[y]
  BY DEF Answer, Done, Writes, Idle, TypeOK
<1>2. \A y \in Requests : Writes(y)' => y # x /\ Writes(y) /\ req'[y] = req[y]
  BY <1>1 DEF Writes
<1>3. ValuesApart'
  <2>1. /\ \A i \in Ids : \A v \in answered'[i] : v <= writes'
        /\ \A v \in over' : v <= writes'
    BY <1>0 DEF ValueInv, ValuesApart
  <2>2. \A y \in Requests : Writes(y)' => \A i \in Ids : req'[y].value \notin answered'[i]
    BY <1>0, <1>2 DEF ValueInv, ValuesApart
  <2>3. \A i, j \in Ids : blob'[i] \in answered'[j] => i = j
    BY <1>0 DEF ValueInv, ValuesApart
  <2> QED
    BY <1>2, <2>1, <2>2, <2>3 DEF ValueInv, ValuesApart
<1>4. ReplacedForGood'
  <2>1. \A i \in Ids : blob'[i] \notin over'
    BY <1>0 DEF ValueInv, ReplacedForGood
  <2>2. \A y \in Requests : Writes(y)' => req'[y].value \notin over'
    BY <1>0, <1>2 DEF ValueInv, ReplacedForGood, ValuesApart
  <2>3. \A y \in Requests : Writes(y)' => req'[y].before \subseteq answered'[req'[y].id]
    BY <1>0, <1>2, WriterType DEF ValueInv, ReplacedForGood
  <2> QED
    BY <1>2, <2>1, <2>2, <2>3 DEF ValueInv, ReplacedForGood
<1> QED
  BY <1>3, <1>4 DEF ValueInv

\* Every step keeps the register regular.
LEMMA ValueStep ==
  ASSUME IInv, NEW x \in Requests, Moves(x)
  PROVE  ValueInv'
<1>a. TypeOK /\ ValueInv
  BY DEF IInv, SecretsConsistent, ReadInv, ValueInv
<1>b. req \in [Requests -> ReqTypes] /\ blob \in [Ids -> 0..MaxWrites]
  BY <1>a DEF TypeOK, ReqTypes
<1>c. \A y \in Requests : y # x => KeepsWrite(y)
  BY <1>a, LocalStep DEF KeepsWrite, Writes
<1>d. req'[x].op \notin {"create", "update"} => \A y \in Requests : KeepsWrite(y)
  BY <1>c DEF KeepsWrite, Writes
<1>e. Done(x) => req'[x].op = "none"
  BY <1>a, DoneType DEF Idle
<1>1. CASE New(x)
  BY <1>a, <1>1, ValueSubmit DEF New, SubmitNew
<1>2. CASE Over(x)
  BY <1>a, <1>2, ValueSubmit DEF Over, SubmitOver, Present
<1>3. ASSUME NEW i \in Ids, Delete(x, i) PROVE ValueInv'
  BY <1>a, <1>b, <1>d, <1>3, ValueFrame DEF Delete, counters
<1>4. ASSUME NEW i \in Ids, NEW a \in Agents, create_agent_secret_grant(x, i, a) PROVE ValueInv'
  BY <1>a, <1>b, <1>d, <1>4, ValueFrame DEF create_agent_secret_grant, counters, history
<1>5. ASSUME NEW g \in grants, delete_agent_secret_grant(x, g) PROVE ValueInv'
  <2>1. \A y \in Requests : KeepsWrite(y)
    BY <1>5 DEF delete_agent_secret_grant, KeepsWrite, Writes
  <2> QED
    BY <1>a, <1>5, <2>1, ValueFrame DEF delete_agent_secret_grant, counters, history
<1>6. ASSUME NEW i \in Ids, NEW a \in Agents, secret_get(x, a, i) PROVE ValueInv'
  BY <1>a, <1>b, <1>d, <1>6, ValueFrame DEF secret_get, counters, history
<1>7. ASSUME NEW who \in Operators, List(x, who) PROVE ValueInv'
  BY <1>a, <1>b, <1>d, <1>7, ValueFrame DEF List, counters, history
<1>8. CASE PutAgentSecret(x)
  BY <1>a, <1>8, ValuePut
<1>9. CASE InsertSecret(x)
  BY <1>a, <1>9, ValueAnswer DEF InsertSecret, At, Writes, counters
<1>10. CASE InsertDuplicate(x)
  <2>1. req[x] \in Writing /\ Writes(x)
    BY <1>a, <1>10, OpOf DEF InsertDuplicate, At, Writes
  <2>2. Goto(x, "cleanup") => KeepsWrite(x)
    BY <1>b, <1>10, <2>1 DEF Goto, KeepsWrite, Writing, InsertDuplicate, At
  <2>3. \A y \in Requests : KeepsWrite(y)
    BY <1>c, <1>d, <1>e, <1>10, <2>2 DEF InsertDuplicate
  <2> QED
    BY <1>a, <1>10, <2>3, ValueFrame DEF InsertDuplicate, counters, history
<1>11. CASE Cleanup(x)
  BY <1>a, <1>b, <1>d, <1>e, <1>11, ValueFrame DEF Cleanup, counters, history
<1>12. CASE UpdateSecret(x)
  BY <1>a, <1>12, ValueAnswer DEF UpdateSecret, At, Writes, counters
<1>13. CASE DeleteAgentSecret(x)
  <2>1. req[x] \in Deleting
    BY <1>a, <1>13, OpOf DEF DeleteAgentSecret, At
  <2>2. req'[x].op = "delete"
    BY <1>b, <1>13, <2>1 DEF DeleteAgentSecret, Goto, Deleting
  <2> QED
    BY <1>a, <1>b, <1>d, <1>13, <2>2, ValueFrame DEF DeleteAgentSecret, counters, history
<1>14. CASE Remove(x)
  BY <1>a, <1>d, <1>e, <1>14, ValueFrame DEF Remove, counters
<1>15. CASE InsertGrant(x)
  BY <1>a, <1>d, <1>e, <1>15, ValueFrame DEF InsertGrant, history
<1>16. CASE GetAgentSecret(x)
  <2>1. req[x] \in Reading /\ req[x].op = "get"
    BY <1>a, <1>16, OpOf DEF GetAgentSecret, At
  <2>2. req'[x].op \in {"none", "get"}
    BY <1>b, <1>e, <1>16, <2>1 DEF GetAgentSecret, Reading
  <2> QED
    BY <1>a, <1>d, <1>16, <2>2, ValueFrame DEF GetAgentSecret, counters, history
<1>17. CASE Page(x)
  <2>1. req[x] \in Listing
    BY <1>a, <1>17, OpOf DEF Page, At
  <2>2. PICK R \in SUBSET Shown, P \in SUBSET Shown, more \in BOOLEAN, last \in 0..MaxIds :
          Paged(x, R, P, more, last)
    BY <1>a, <1>17, PageStep DEF IInv, SecretsConsistent, RowInv
  <2>3. req'[x].op = "list"
    BY <2>1, <2>2 DEF Paged, Listing
  <2> QED
    BY <1>a, <1>d, <1>17, <2>3, ValueFrame DEF Page, counters, history
<1>18. CASE Respond(x) \/ Rollback(x)
  BY <1>a, <1>d, <1>e, <1>18, ValueFrame DEF Respond, Rollback, counters, history
<1> QED
  BY <1>1, <1>2, <1>3, <1>4, <1>5, <1>6, <1>7, <1>8, <1>9, <1>10, <1>11, <1>12, <1>13, <1>14,
     <1>15, <1>16, <1>17, <1>18 DEF Moves

-----------------------------------------------------------------------------
(* Readers.                                                                *)

\* What a reader was let in with, and what it has read.
ReaderLocal(x) ==
  req[x].op = "get" =>
    /\ req[x].stage = "unseal" => req[x].value = 0 /\ req[x].stale \subseteq over
    /\ req[x].stage = "got" => req[x].value \notin req[x].stale

\* What a listing has shown.
ListLocal(x) ==
  req[x].op = "list" =>
    /\ \A i \in req[x].always :
         i \in {s.id : s \in req[x].shown} \/ (req[x].stage = "page" /\ i > req[x].after)
    /\ req[x].stage = "page" => \A s \in req[x].shown : s.id <= req[x].after
    /\ \A s, t \in req[x].shown : s.id = t.id => s = t

\* The next page picks up behind the cursor: what it shows was not shown, and
\* what it leaves out is behind its own cursor or was not visible.
LEMMA ListPage ==
  ASSUME IInv, NEW x \in Requests, Page(x)
  PROVE  ListLocal(x)' /\ req'[x].op = "list"
<1>1. req[x] \in Listing /\ req[x].op = "list" /\ req[x].stage = "page"
  BY OpOf DEF Page, At, IInv, SecretsConsistent
<1>2. PICK R \in SUBSET Shown, P \in SUBSET Shown, more \in BOOLEAN, last \in 0..MaxIds :
        Paged(x, R, P, more, last)
  BY PageStep DEF IInv, SecretsConsistent, RowInv
<1>3. /\ req'[x].op = "list"
      /\ req'[x].shown = req[x].shown \cup P
      /\ req'[x].always = req[x].always \cap {s.id : s \in Visible(req[x].who)}
      /\ req'[x].stage = IF more THEN "page" ELSE "listed"
      /\ req'[x].after = IF more THEN last ELSE req[x].after
  BY <1>1, <1>2 DEF Paged, Listing
<1>4. /\ \A i \in req[x].always : i \in {s.id : s \in req[x].shown} \/ i > req[x].after
      /\ \A s \in req[x].shown : s.id <= req[x].after
      /\ \A s, t \in req[x].shown : s.id = t.id => s = t
  BY <1>1 DEF IInv, ReadInv, PagesComplete
<1>5. /\ \A s \in req[x].shown \cup P : s.id \in Nat
      /\ req[x].after \in Nat /\ last \in Nat
  BY <1>1, SizeAssumption DEF Listing, Shown, Ids
<1>6. /\ \A s \in R : s \in Visible(req[x].who) /\ s.id > req[x].after
      /\ \A s \in Visible(req[x].who) : s.id > req[x].after => s \in R
      /\ P \subseteq R
      /\ \A s, t \in R : s.id = t.id => s = t
      /\ ~more => P = R
      /\ more => /\ \A p \in P : p.id <= last
                 /\ \A q \in R \ P : q.id > last
                 /\ last > req[x].after
  BY <1>2 DEF Paged
<1>7. ASSUME NEW i \in req'[x].always
      PROVE  i \in {s.id : s \in req'[x].shown} \/ (req'[x].stage = "page" /\ i > req'[x].after)
  <2>1. CASE i \in {s.id : s \in req[x].shown}
    BY <1>3, <2>1
  <2>2. CASE i > req[x].after
    <3>1. PICK s \in Visible(req[x].who) : s.id = i
      BY <1>3, <1>7
    <3>2. s \in R
      BY <1>6, <2>2, <3>1
    <3> QED
      BY <1>3, <1>6, <3>1, <3>2
  <2> QED
    BY <1>3, <1>4, <1>7, <2>1, <2>2
<1>8. req'[x].stage = "page" => \A s \in req'[x].shown : s.id <= req'[x].after
  BY <1>3, <1>4, <1>5, <1>6
<1>9. \A s, t \in req'[x].shown : s.id = t.id => s = t
  BY <1>3, <1>4, <1>5, <1>6
<1> QED
  BY <1>3, <1>7, <1>8, <1>9 DEF ListLocal

\* A reader reads what is sealed, which nothing that was replaced is; a
\* listing loses and repeats nothing.
LEMMA ReaderStep ==
  ASSUME IInv, NEW x \in Requests, Moves(x)
  PROVE  \A y \in Requests : ReaderLocal(y)' /\ ListLocal(y)'
<1>a. TypeOK /\ \A y \in Requests : ReaderLocal(y) /\ ListLocal(y)
  BY DEF IInv, SecretsConsistent, ReadInv, ReadersStart, PagesComplete, NoStaleRead, ReaderLocal,
         ListLocal, At
<1>b. req \in [Requests -> ReqTypes] /\ \A y \in Requests : y # x => req'[y] = req[y]
  BY <1>a, LocalStep DEF TypeOK, ReqTypes
<1>c. over \subseteq over'
  BY DEF Moves, New, Over, SubmitNew, SubmitOver, Submit, Delete, create_agent_secret_grant,
         delete_agent_secret_grant, secret_get, List, PutAgentSecret, InsertSecret,
         InsertDuplicate, Cleanup, UpdateSecret, Answer, DeleteAgentSecret, Remove, InsertGrant,
         GetAgentSecret, Page, Respond, Rollback, history
<1>d. \A y \in Requests : y # x => ReaderLocal(y)' /\ ListLocal(y)'
  BY <1>a, <1>b, <1>c DEF ReaderLocal, ListLocal
<1>e. SUFFICES ReaderLocal(x)' /\ ListLocal(x)'
  BY <1>d
<1>f. req'[x].op \notin {"get", "list"} => ReaderLocal(x)' /\ ListLocal(x)'
  BY DEF ReaderLocal, ListLocal
<1>g. Done(x) => req'[x].op = "none"
  BY <1>a, DoneType DEF Idle
<1>1. CASE New(x) \/ Over(x)
  <2>1. req'[x].op \in {"create", "update"}
    BY <1>b, <1>1 DEF New, Over, SubmitNew, SubmitOver, Submit
  <2> QED
    BY <1>f, <2>1
<1>2. ASSUME NEW i \in Ids, Delete(x, i) PROVE ReaderLocal(x)' /\ ListLocal(x)'
  BY <1>b, <1>f, <1>2 DEF Delete
<1>3. ASSUME NEW i \in Ids, NEW a \in Agents, create_agent_secret_grant(x, i, a)
      PROVE  ReaderLocal(x)' /\ ListLocal(x)'
  BY <1>b, <1>f, <1>3 DEF create_agent_secret_grant
<1>4. ASSUME NEW g \in grants, delete_agent_secret_grant(x, g)
      PROVE  ReaderLocal(x)' /\ ListLocal(x)'
  BY <1>a, <1>c, <1>4 DEF delete_agent_secret_grant, ReaderLocal, ListLocal
<1>5. ASSUME NEW i \in Ids, NEW a \in Agents, secret_get(x, a, i)
      PROVE  ReaderLocal(x)' /\ ListLocal(x)'
  BY <1>b, <1>c, <1>5 DEF secret_get, ReaderLocal, ListLocal
<1>6. ASSUME NEW who \in Operators, List(x, who)
      PROVE  ReaderLocal(x)' /\ ListLocal(x)'
  <2>1. \A i \in Ids : i > 0
    BY SizeAssumption DEF Ids
  <2> QED
    BY <1>b, <1>6, <2>1 DEF List, ReaderLocal, ListLocal
<1>7. CASE PutAgentSecret(x)
  <2>1. req[x] \in Writing
    BY <1>a, <1>7, OpOf DEF PutAgentSecret, Writes
  <2>2. req'[x].op \in {"create", "update"}
    BY <1>b, <1>7, <2>1 DEF PutAgentSecret, Goto, Writing
  <2> QED
    BY <1>f, <2>2
<1>8. CASE InsertDuplicate(x)
  <2>1. req[x] \in Writing
    BY <1>a, <1>8, OpOf DEF InsertDuplicate, At, Writes
  <2>2. Goto(x, "cleanup") => req'[x].op \in {"create", "update"}
    BY <1>b, <2>1 DEF Goto, Writing
  <2> QED
    BY <1>f, <1>g, <1>8, <2>2 DEF InsertDuplicate
<1>9. CASE InsertSecret(x) \/ Cleanup(x) \/ UpdateSecret(x) \/ Remove(x) \/ InsertGrant(x)
           \/ Respond(x) \/ Rollback(x)
  BY <1>f, <1>g, <1>9
  DEF InsertSecret, Cleanup, UpdateSecret, Remove, InsertGrant, Respond, Rollback, Answer
<1>10. CASE DeleteAgentSecret(x)
  <2>1. req[x] \in Deleting
    BY <1>a, <1>10, OpOf DEF DeleteAgentSecret, At
  <2>2. req'[x].op = "delete"
    BY <1>b, <1>10, <2>1 DEF DeleteAgentSecret, Goto, Deleting
  <2> QED
    BY <1>f, <2>2
<1>11. CASE GetAgentSecret(x)
  <2>1. req[x] \in Reading /\ req[x].op = "get" /\ req[x].stage = "unseal" /\ req[x].id \in Ids
    BY <1>a, <1>11, OpOf DEF GetAgentSecret, At, Reading
  <2>2. CASE Done(x)
    BY <1>f, <1>g, <2>2
  <2>3. CASE ~Done(x)
    <3>1. /\ req'[x].op = "get" /\ req'[x].stage = "got"
          /\ req'[x].value = blob[req[x].id] /\ req'[x].stale = req[x].stale
      BY <1>b, <1>11, <2>1, <2>3 DEF GetAgentSecret, Reading
    <3>2. blob[req[x].id] \notin over
      BY <2>1 DEF IInv, ReadInv, ReplacedForGood
    <3> QED
      BY <1>a, <2>1, <3>1, <3>2 DEF ReaderLocal, ListLocal
  <2> QED
    BY <2>2, <2>3
<1>12. CASE Page(x)
  BY <1>12, ListPage DEF ReaderLocal
<1> QED
  BY <1>1, <1>2, <1>3, <1>4, <1>5, <1>6, <1>7, <1>8, <1>9, <1>10, <1>11, <1>12 DEF Moves

-----------------------------------------------------------------------------
(* The theorems.                                                           *)

\* The inductive invariant holds initially.
LEMMA InitIInv == Init => IInv
<1> SUFFICES ASSUME Init PROVE IInv
  OBVIOUS
<1>1. TypeOK
  BY SizeAssumption DEF Init, TypeOK
<1>2. Present = {} /\ Known = {} /\ grants = {} /\ gone = {} /\ over = {}
  BY DEF Init, Present, Known
<1>3. \A x \in Requests : req[x].op = "none"
  BY DEF Init, Idle
<1>4. RowInv /\ ReadableUntilDeleted /\ GrantsBacked
  BY <1>2, <1>3
  DEF RowInv, DeletedOnce, IdsApart, SealedFirst, PurgesDoomed, VersionsBounded, SharedWithOthers,
      ReadableUntilDeleted, GrantsBacked, Writes
<1>5. \A i \in Ids : blob[i] = 0 /\ answered[i] = {}
  BY DEF Init
<1>6. ReadInv /\ NoStaleRead
  BY <1>2, <1>3, <1>5
  DEF Init, ReadInv, ValuesApart, ReplacedForGood, ReadersStart, PagesComplete, NoStaleRead, At,
      Writes
<1> QED
  BY <1>1, <1>4, <1>6 DEF IInv, SecretsConsistent

\* Every step preserves the inductive invariant.
LEMMA NextIInv == IInv /\ [Next]_vars => IInv'
<1> SUFFICES ASSUME IInv, [Next]_vars PROVE IInv'
  OBVIOUS
<1>1. CASE UNCHANGED vars
  BY <1>1
  DEF vars, IInv, SecretsConsistent, TypeOK, RowInv, DeletedOnce, IdsApart, SealedFirst,
      PurgesDoomed, VersionsBounded, SharedWithOthers, ReadableUntilDeleted, GrantsBacked, ReadInv,
      ValuesApart, ReplacedForGood, ReadersStart, PagesComplete, NoStaleRead, At, Writes, Present,
      Known
<1>2. CASE Next
  <2>1. PICK x \in Requests : Moves(x)
    BY <1>2, NextMoves
  <2>2. TypeOK'
    BY <2>1, TypeStep
  <2>3. RowInv' /\ ReadableUntilDeleted' /\ GrantsBacked'
    <3>1. RowGlobal' /\ \A y \in Requests : RowLocal(y)'
      BY <2>1, RowStep
    <3> QED
      BY <3>1
      DEF RowInv, RowGlobal, RowLocal, IdsApart, SealedFirst, PurgesDoomed, VersionsBounded,
          SharedWithOthers
  <2>4. ReadInv' /\ NoStaleRead'
    <3>1. ValueInv'
      BY <2>1, ValueStep
    <3>2. \A y \in Requests : ReaderLocal(y)' /\ ListLocal(y)'
      BY <2>1, ReaderStep
    <3> QED
      BY <3>1, <3>2
      DEF ReadInv, ValueInv, ReadersStart, PagesComplete, NoStaleRead, At, ReaderLocal, ListLocal
  <2> QED
    BY <2>2, <2>3, <2>4 DEF IInv, SecretsConsistent
<1> QED
  BY <1>1, <1>2

\* IInv is an invariant.
LEMMA Inductive == Spec => []IInv
  BY InitIInv, NextIInv, PTL DEF Spec

\* However stores, overwrites, deletions and grants overlap, and wherever they
\* fail between the vault and the row, a secret nobody asked to delete has its
\* blob, and no grant outlives its secret or is doubled
\* (store_agent_secret, delete_agent_secret, create_agent_secret_grant).
THEOREM SecretsStayConsistent == Spec => []SecretsConsistent
<1>1. IInv => SecretsConsistent
  BY DEF IInv
<1> QED
  BY <1>1, Inductive, PTL

\* secret_get never hands out a value that an answered write had replaced when
\* it began, and a listing that follows its cursors to the end has shown every
\* secret that was there at each page, and none twice (secret_list).
THEOREM ReadsStaySound == Spec => []ReadsSound
<1>1. IInv => ReadsSound
  BY DEF IInv, ReadInv, ReadsSound, PagesComplete, ListComplete, At
<1> QED
  BY <1>1, Inductive, PTL


-----------------------------------------------------------------------------
(* The refinement: every step of the two servers is a step of SecretStore, *)
(* or changes nothing there.                                               *)

\* What SecretStore sees of the rows, the grants and the requests.
Entry(r)  == IF r.op = "get" THEN [id |-> r.id, who |-> r.who, value |-> r.value] ELSE [id |-> 0]
Life      == [i \in Ids |-> IF i \in Present THEN "live" ELSE IF i \in gone THEN "gone" ELSE "new"]
Owner     == [i \in Ids |-> IF i \in Present THEN rows[i].agent ELSE Nobody]
SharePairs == {<<g.id, g.to>> : g \in grants}
Admitted  == [x \in Requests |-> IF req[x].op = "get"
               THEN [id |-> req[x].id, who |-> req[x].who, value |-> req[x].value]
               ELSE [id |-> 0]]

\* SecretStore takes a step, or none.
AbsStep == Store!AbsNext \/ UNCHANGED Store!absVars

\* The rows and the grants did not change as far as SecretStore can see.
SameRows == Life' = Life /\ Owner' = Owner /\ SharePairs' = SharePairs

\* What the readers were let in to and handed changes for x alone.
LEMMA ReaderMap ==
  ASSUME TypeOK, NEW x \in Requests, Moves(x)
  PROVE  /\ Admitted' = [Admitted EXCEPT ![x] = Entry(req'[x])]
         /\ Admitted[x] = Entry(req[x])
<1>1. \A y \in Requests : y # x => req'[y] = req[y]
  BY LocalStep
<1>2. \A y \in Requests : Admitted'[y] = Entry(req'[y]) /\ Admitted[y] = Entry(req[y])
  BY DEF Admitted, Entry
<1>3. \A y \in Requests : Admitted'[y] = IF y = x THEN Entry(req'[x]) ELSE Admitted[y]
  BY <1>1, <1>2
<1>4. /\ Admitted' = [y \in Requests |-> Admitted'[y]]
      /\ Admitted = [y \in Requests |-> Admitted[y]]
  BY DEF Admitted
<1> HIDE DEF Admitted
<1> QED
  BY <1>2, <1>3, <1>4

\* Unchanged tables look unchanged.
LEMMA TablesKept == UNCHANGED <<rows, grants, gone>> => SameRows
  BY DEF SameRows, Life, Owner, SharePairs, Present

\* The life and the owner of every secret.
LEMMA MapShapes ==
  ASSUME NEW i \in Ids, NEW l, NEW a,
         \A j \in Ids : /\ Life'[j] = IF j = i THEN l ELSE Life[j]
                        /\ Owner'[j] = IF j = i THEN a ELSE Owner[j]
  PROVE  Life' = [Life EXCEPT ![i] = l] /\ Owner' = [Owner EXCEPT ![i] = a]
<1>1. /\ Life' = [j \in Ids |-> Life'[j]] /\ Owner' = [j \in Ids |-> Owner'[j]]
      /\ Life = [j \in Ids |-> Life[j]] /\ Owner = [j \in Ids |-> Owner[j]]
  BY DEF Life, Owner
<1> HIDE DEF Life, Owner
<1> QED
  BY <1>1

\* A request that reads nothing before or after a step that leaves the tables
\* and the vault alone is not seen; a reader's end is seen as one.
LEMMA QuietStep ==
  ASSUME TypeOK, NEW x \in Requests, Moves(x), SameRows, blob' = blob, req'[x].op # "get"
  PROVE  AbsStep
<1>1. Entry(req'[x]) = [id |-> 0]
  BY DEF Entry
<1>2. Admitted' = [Admitted EXCEPT ![x] = [id |-> 0]]
  BY <1>1, ReaderMap
<1>3. Store!Leave(x)
  BY <1>2 DEF Store!Leave, Store!NotReading, SameRows, Life, Owner, SharePairs, Admitted
<1> QED
  BY <1>3 DEF AbsStep, Store!AbsNext

\* A step of a request that reads nothing leaves the readers alone.
LEMMA ReadersKept ==
  ASSUME TypeOK, NEW x \in Requests, Moves(x), req[x].op # "get", req'[x].op # "get"
  PROVE  Admitted' = Admitted
<1>1. Admitted' = [Admitted EXCEPT ![x] = Admitted[x]]
  BY ReaderMap DEF Entry
<1> QED
  BY <1>1 DEF Admitted

\* What a writer or a deleter does in the vault is a Seal.
LEMMA SealStep ==
  ASSUME TypeOK, NEW x \in Requests, Moves(x), UNCHANGED <<rows, grants, gone>>,
         req[x].op # "get", req'[x].op # "get",
         NEW i \in Ids, NEW v \in Values \cup {0}, blob' = [blob EXCEPT ![i] = v]
  PROVE  AbsStep
<1>1. SameRows /\ Admitted' = Admitted
  BY TablesKept, ReadersKept
<1>2. Store!Seal(i, v)
  BY <1>1 DEF Store!Seal, SameRows, Life, Owner, SharePairs, Admitted
<1> QED
  BY <1>2 DEF AbsStep, Store!AbsNext

\* Every step is a step of SecretStore, or none.
LEMMA StepRefines ==
  ASSUME IInv, NEW x \in Requests, Moves(x)
  PROVE  AbsStep
<1>1. TypeOK /\ GrantsBacked /\ RowInv /\ ReadersStart
  BY DEF IInv, SecretsConsistent, ReadInv
<1>2. req \in [Requests -> ReqTypes]
  BY <1>1 DEF TypeOK, ReqTypes
<1>3. \A r : req' = [req EXCEPT ![x] = r] => req'[x] = r
  BY <1>2
<1>4. Done(x) => req'[x].op # "get"
  BY <1>2 DEF Done, Idle
<1>5. \A s : Goto(x, s) => req'[x] = [req[x] EXCEPT !.stage = s]
  BY <1>2 DEF Goto
<1>6. CASE New(x) \/ Over(x) \/ (\E i \in Ids : Delete(x, i)) \/ (\E who \in Operators : List(x, who))
           \/ (\E i \in Ids, a \in Agents : create_agent_secret_grant(x, i, a))
  <2>1. UNCHANGED <<rows, grants, blob, gone>>
    BY <1>6 DEF New, Over, SubmitNew, SubmitOver, Submit, Delete, List, create_agent_secret_grant,
       history
  <2>2. req'[x].op # "get"
    BY <1>3, <1>6 DEF New, Over, SubmitNew, SubmitOver, Submit, Delete, List,
       create_agent_secret_grant
  <2> QED
    BY <1>1, <2>1, <2>2, TablesKept, QuietStep
<1>7. CASE \E g \in grants : delete_agent_secret_grant(x, g)
  <2>1. PICK g \in grants : delete_agent_secret_grant(x, g)
    BY <1>7
  <2>2. g.id \in Ids /\ g.to \in Agents
    BY <1>1 DEF TypeOK, Grants
  <2>3. SharePairs' = SharePairs \ {<<g.id, g.to>>}
    <3>1. \A h \in grants : <<h.id, h.to>> = <<g.id, g.to>> => h = g
      BY <1>1 DEF GrantsBacked
    <3>2. grants' = grants \ {g}
      BY <2>1 DEF delete_agent_secret_grant
    <3> QED
      BY <3>1, <3>2 DEF SharePairs
  <2>4. Life' = Life /\ Owner' = Owner /\ Admitted' = Admitted /\ blob' = blob
    BY <2>1 DEF delete_agent_secret_grant, history, Life, Owner, Present, Admitted
  <2>5. Store!Unshare(g.id, g.to)
    BY <2>3, <2>4 DEF Store!Unshare, Life, Owner, SharePairs, Admitted
  <2> QED
    BY <2>2, <2>5 DEF AbsStep, Store!AbsNext
<1>8. CASE \E i \in Ids, a \in Agents : secret_get(x, a, i)
  <2>1. PICK i \in Ids, a \in Agents : secret_get(x, a, i)
    BY <1>8
  <2>2. req'[x] = [op |-> "get", who |-> a, id |-> i, stage |-> "unseal", value |-> 0, stale |-> over]
    BY <1>3, <2>1 DEF secret_get
  <2>3. Admitted' = [Admitted EXCEPT ![x] = [id |-> i, who |-> a, value |-> 0]]
        /\ Admitted[x] = [id |-> 0]
    <3>1. Entry(req'[x]) = [id |-> i, who |-> a, value |-> 0]
      BY <2>2 DEF Entry
    <3>2. Entry(req[x]) = [id |-> 0]
      BY <2>1 DEF secret_get, Idle, Entry
    <3> QED
      BY <1>1, <3>1, <3>2, ReaderMap
  <2>4. SameRows /\ blob' = blob
    BY <2>1, TablesKept DEF secret_get, history
  <2>5. Life[i] = "live" /\ (a = Owner[i] \/ <<i, a>> \in SharePairs)
    BY <2>1 DEF secret_get, MayRead, Shared, Life, Owner, SharePairs
  <2>6. Store!Admit(x, a, i)
    BY <2>3, <2>4, <2>5
    DEF Store!Admit, Store!NotReading, SameRows, Life, Owner, SharePairs, Admitted
  <2> QED
    BY <2>6 DEF AbsStep, Store!AbsNext
<1>9. CASE PutAgentSecret(x)
  <2>1. Writes(x) /\ req[x] \in Writing
    BY <1>1, <1>9, OpOf DEF PutAgentSecret, Writes
  <2>2. req'[x].op = req[x].op
    BY <1>5, <1>9, <2>1 DEF PutAgentSecret, Writing
  <2>3. req[x].id \in Ids /\ req[x].value \in Values
    BY <2>1 DEF Writing
  <2> QED
    BY <1>1, <1>9, <2>1, <2>2, <2>3, SealStep DEF PutAgentSecret, Writes, history
<1>10. CASE Cleanup(x)
  <2>1. req[x].op = "create" /\ req[x].id \in Ids
    BY <1>1, <1>10, OpOf DEF Cleanup, At, Writes, Writing
  <2> QED
    BY <1>1, <1>4, <1>10, <2>1, SealStep DEF Cleanup, history
<1>11. CASE DeleteAgentSecret(x)
  <2>1. req[x] \in Deleting
    BY <1>1, <1>11, OpOf DEF DeleteAgentSecret, At
  <2>2. req[x].op = "delete" /\ req[x].id \in Ids /\ req'[x].op = "delete"
    BY <1>5, <1>11, <2>1 DEF DeleteAgentSecret, Deleting
  <2> QED
    BY <1>1, <1>11, <2>2, SealStep DEF DeleteAgentSecret, history
<1>12. CASE InsertDuplicate(x)
  <2>1. Writes(x) /\ req[x] \in Writing
    BY <1>1, <1>12, OpOf DEF InsertDuplicate, At, Writes
  <2>2. req'[x].op # "get"
    BY <1>4, <1>5, <1>12, <2>1 DEF InsertDuplicate, Writing
  <2> QED
    BY <1>1, <1>12, <2>2, TablesKept, QuietStep DEF InsertDuplicate, history
<1>13. CASE Respond(x) \/ Rollback(x)
  BY <1>1, <1>4, <1>13, TablesKept, QuietStep DEF Respond, Rollback, history
<1>14. CASE Page(x)
  <2>1. req[x] \in Listing
    BY <1>1, <1>14, OpOf DEF Page, At
  <2>2. req'[x].op # "get"
    BY <1>2, <1>14, <2>1 DEF Page, Listing
  <2> QED
    BY <1>1, <1>14, <2>2, TablesKept, QuietStep DEF Page, history
<1>15. CASE GetAgentSecret(x)
  <2> DEFINE i == req[x].id
  <2>1. req[x] \in Reading /\ req[x].op = "get" /\ req[x].value = 0
    BY <1>1, <1>15, OpOf DEF GetAgentSecret, At, ReadersStart
  <2>2. SameRows /\ blob' = blob
    BY <1>15, TablesKept DEF GetAgentSecret, history
  <2>3. CASE blob[i] = 0
    BY <1>1, <1>4, <1>15, <2>2, <2>3, QuietStep DEF GetAgentSecret
  <2>4. CASE blob[i] # 0
    <3>1. req'[x] = [req[x] EXCEPT !.stage = "got", !.value = blob[i]]
      BY <1>2, <1>15, <2>4 DEF GetAgentSecret
    <3>2. Entry(req'[x]) = [Entry(req[x]) EXCEPT !.value = blob[i]]
      BY <2>1, <3>1 DEF Entry, Reading
    <3>3. Admitted[x] = [id |-> i, who |-> req[x].who, value |-> 0]
      BY <2>1 DEF Admitted
    <3>4. Admitted[x] # [id |-> 0] /\ Admitted[x].value = 0 /\ Admitted[x].id = i
      BY <3>3
    <3>5. Admitted' = [Admitted EXCEPT ![x].value = blob[Admitted[x].id]]
      BY <1>1, <3>2, <3>4, ReaderMap
    <3>6. Store!HandOut(x)
      BY <2>2, <2>4, <3>4, <3>5
      DEF Store!HandOut, Store!NotReading, SameRows, Life, Owner, SharePairs, Admitted
    <3> QED
      BY <3>6 DEF AbsStep, Store!AbsNext
  <2> QED
    BY <2>3, <2>4
<1>16. CASE InsertSecret(x)
  <2>1. req[x] \in Writing /\ req[x].op = "create" /\ req[x].stage = "write"
    BY <1>1, <1>16, OpOf DEF InsertSecret, At, Writes
  <2>2. PICK i \in Ids, a \in Agents : i = req[x].id /\ a = req[x].agent
    BY <2>1 DEF Writing
  <2>3. i \notin Present /\ i \notin gone /\ blob[i] # 0
    BY <1>1, <2>1, <2>2 DEF RowInv, IdsApart, SealedFirst, Known
  <2>4. PICK r \in Rows : r.agent = a /\ rows' = [rows EXCEPT ![i] = r]
    <3>1. [agent |-> req[x].agent, name |-> req[x].name, version |-> 1] \in Rows
      BY <2>1, SizeAssumption DEF Writing, Rows
    <3> QED
      BY <1>16, <2>2, <3>1 DEF InsertSecret
  <2>5. UNCHANGED <<grants, blob, gone>> /\ Done(x)
    BY <1>16 DEF InsertSecret, Answer
  <2>6. /\ \A j \in Ids : rows'[j] = IF j = i THEN r ELSE rows[j]
        /\ r # NoRow
    BY <1>1, <2>4 DEF TypeOK, Rows, NoRow
  <2>7. Present' = Present \cup {i}
    BY <2>6 DEF Present
  <2>8. \A j \in Ids : /\ Life'[j] = IF j = i THEN "live" ELSE Life[j]
                       /\ Owner'[j] = IF j = i THEN a ELSE Owner[j]
    BY <2>4, <2>5, <2>6, <2>7 DEF Life, Owner
  <2>9. Life' = [Life EXCEPT ![i] = "live"] /\ Owner' = [Owner EXCEPT ![i] = a]
    BY <2>8, MapShapes
  <2>10. Admitted' = Admitted
    BY <1>1, <1>4, <2>1, <2>5, ReadersKept
  <2>11. Life[i] = "new" /\ SharePairs' = SharePairs
    BY <2>3, <2>5 DEF Life, SharePairs
  <2>12. Store!Publish(i, a)
    BY <2>3, <2>5, <2>9, <2>10, <2>11 DEF Store!Publish, Life, Owner, SharePairs, Admitted
  <2> QED
    BY <2>12 DEF AbsStep, Store!AbsNext
<1>17. CASE UpdateSecret(x)
  <2> DEFINE i == req[x].id
  <2>1. i \in Ids
    BY <1>1, <1>17, OpOf DEF UpdateSecret, At, Writes, Writing
  <2>2. /\ rows' = [rows EXCEPT ![i] = IF i \in Present THEN [rows[i] EXCEPT !.version = req[x].version]
                                       ELSE rows[i]]
        /\ UNCHANGED <<grants, blob, gone>> /\ Done(x)
    BY <1>17 DEF UpdateSecret, Answer
  <2>3. \A j \in Ids : /\ rows'[j] # NoRow <=> rows[j] # NoRow
                       /\ rows[j] # NoRow => rows'[j].agent = rows[j].agent
    BY <1>1, <2>1, <2>2 DEF TypeOK, Rows, NoRow, Present
  <2>4. SameRows
    BY <2>2, <2>3 DEF SameRows, Life, Owner, SharePairs, Present
  <2> QED
    BY <1>1, <1>4, <2>2, <2>4, QuietStep
<1>18. CASE Remove(x)
  <2>0. req[x] \in Deleting
    BY <1>1, <1>18, OpOf DEF Remove, At
  <2>1. PICK i \in Ids : i = req[x].id /\ req[x].op = "delete"
    BY <2>0 DEF Deleting
  <2>2. /\ gone' = IF i \in Present THEN gone \cup {i} ELSE gone
        /\ rows' = [rows EXCEPT ![i] = NoRow]
        /\ grants' = {g \in grants : g.id # i}
        /\ blob' = blob /\ Done(x)
    BY <1>18, <2>1 DEF Remove
  <2>3. \A j \in Ids : rows'[j] = IF j = i THEN NoRow ELSE rows[j]
    BY <1>1, <2>2 DEF TypeOK
  <2>4. SharePairs' = {s \in SharePairs : s[1] # i}
    BY <2>2 DEF SharePairs
  <2>5. CASE i \in Present
    <3>0. Present' = Present \ {i}
      BY <2>3 DEF Present
    <3>1. Life' = [Life EXCEPT ![i] = "gone"] /\ Owner' = [Owner EXCEPT ![i] = Nobody]
          /\ Life[i] = "live"
      <4>1. \A j \in Ids : /\ Life'[j] = IF j = i THEN "gone" ELSE Life[j]
                           /\ Owner'[j] = IF j = i THEN Nobody ELSE Owner[j]
        BY <2>2, <2>3, <2>5, <3>0 DEF Life, Owner
      <4>2. Life[i] = "live"
        BY <2>5 DEF Life
      <4> QED
        BY <4>1, <4>2, MapShapes
    <3>2. Admitted' = Admitted
      BY <1>1, <1>4, <2>1, <2>2, ReadersKept
    <3>3. Store!Withdraw(i)
      BY <2>2, <2>4, <3>1, <3>2 DEF Store!Withdraw, Life, Owner, SharePairs, Admitted
    <3> QED
      BY <2>1, <3>3 DEF AbsStep, Store!AbsNext
  <2>6. CASE i \notin Present
    <3>1. Life' = Life /\ Owner' = Owner
      BY <2>1, <2>2, <2>3, <2>6 DEF Life, Owner, Present
    <3>2. grants' = grants
      BY <1>1, <2>2, <2>6 DEF GrantsBacked
    <3>3. SameRows
      BY <3>1, <3>2 DEF SameRows, SharePairs
    <3> QED
      BY <1>1, <1>4, <2>2, <3>3, QuietStep
  <2> QED
    BY <2>5, <2>6
<1>19. CASE InsertGrant(x)
  <2>0. req[x] \in Sharing
    BY <1>1, <1>19, OpOf DEF InsertGrant, At
  <2>1. PICK i \in Ids, a \in Agents : i = req[x].id /\ a = req[x].to /\ req[x].op = "share"
    BY <2>0 DEF Sharing
  <2>2. UNCHANGED <<rows, blob, gone>> /\ Done(x)
    BY <1>19 DEF InsertGrant, history
  <2>3. CASE i \in Present /\ ~Shared(i, a)
    <3>1. PICK h : h.id = i /\ h.to = a /\ grants' = grants \cup {h}
      <4>1. grants' = grants \cup {[gid |-> minted + 1, id |-> i, to |-> a]}
        BY <1>19, <2>1, <2>3 DEF InsertGrant
      <4> QED
        BY <4>1
    <3>2. SharePairs' = SharePairs \cup {<<i, a>>}
      BY <3>1 DEF SharePairs
    <3>3. Life[i] = "live" /\ a # Owner[i] /\ <<i, a>> \notin SharePairs
      BY <1>1, <2>1, <2>3 DEF Life, Owner, SharePairs, Shared, RowInv, SharedWithOthers
    <3>4. Life' = Life /\ Owner' = Owner /\ Admitted' = Admitted
      BY <1>1, <1>4, <2>1, <2>2, ReadersKept DEF Life, Owner, Present
    <3>5. Store!Share(i, a)
      BY <2>2, <3>2, <3>3, <3>4 DEF Store!Share, Life, Owner, SharePairs, Admitted
    <3> QED
      BY <2>1, <3>5 DEF AbsStep, Store!AbsNext
  <2>4. CASE ~(i \in Present /\ ~Shared(i, a))
    <3>1. UNCHANGED grants
      BY <1>19, <2>1, <2>4 DEF InsertGrant
    <3> QED
      BY <1>1, <1>4, <2>2, <3>1, TablesKept, QuietStep
  <2> QED
    BY <2>3, <2>4
<1> QED
  BY <1>6, <1>7, <1>8, <1>9, <1>10, <1>11, <1>12, <1>13, <1>14, <1>15, <1>16, <1>17, <1>18, <1>19
  DEF Moves

\* The admin-api, the mcp-server, their transactions and the vault implement
\* SecretStore: a secret lives once, its row appears only over a sealed value, a
\* grant is to somebody else and once, a reader gets in as the owner or by a
\* grant that is there, and is handed what is sealed when the vault answers it
\* (api/agent_secrets.py, tools/secret_*.py, store/agent_secret.go).
THEOREM RefinesSecretStore == Spec => ImplementsSecretStore
<1>1. Init => Store!AbsInit
  BY DEF Init, Store!AbsInit, Store!NotReading, Idle, Present
<1>2. IInv /\ [Next]_vars => [Store!AbsNext]_(Store!absVars)
  <2> SUFFICES ASSUME IInv, [Next]_vars PROVE AbsStep
    BY DEF AbsStep
  <2>1. CASE UNCHANGED vars
    BY <2>1 DEF vars, AbsStep, Store!absVars, Present
  <2>2. CASE Next
    BY <2>2, NextMoves, StepRefines
  <2> QED
    BY <2>1, <2>2
<1> QED
  BY <1>1, <1>2, Inductive, PTL DEF Spec, ImplementsSecretStore, Store!AbsSpec
=============================================================================
