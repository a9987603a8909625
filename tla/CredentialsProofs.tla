------------------------- MODULE CredentialsProofs -------------------------
(***************************************************************************)
(* Machine-checked proofs about Credentials, for any number of requests,   *)
(* schemes and submitted values, with and without failures.                *)
(***************************************************************************)
EXTENDS Credentials, FiniteSetTheorems, TLAPS

-----------------------------------------------------------------------------
(* The inductive invariant.                                                *)

\* x carries a value an operator submitted.
Writes(x) == req[x].op \in {"create", "rotate"}

\* Its value is not in the vault yet, ...
Unwritten(x) == Writes(x) /\ req[x].stage \in {"put", "putting"}

\* ... or it is, and the metadata is to follow.
Written(x) == Writes(x) /\ req[x].stage \in {"sweep", "lock", "insert", "commit"}

\* The versions stored are 1, 2, ..., n.
Prefix == \E n \in 0..MaxWrites : StoredVersions = 1..n

\* Every version holds another value, one that was submitted.
ValuesApart ==
  /\ \A v \in StoredVersions : vault[v].value <= writes
  /\ \A v, w \in StoredVersions : vault[v].value = vault[w].value => v = w

\* Every writing request has a value of its own, and no row is there for it.
WritersApart ==
  /\ \A x \in Requests : Writes(x) => req[x].value <= writes /\ req[x].value \notin Present
  /\ \A x, y \in Requests : Writes(x) /\ Writes(y) /\ req[x].value = req[y].value => x = y
  /\ \A i \in Present : i <= writes

\* The vault holds what its answered Puts stored, and not what was not put.
PutsStored ==
  /\ \A x \in Requests : Unwritten(x) => \A v \in StoredVersions : vault[v].value # req[x].value
  /\ \A x \in Requests : Written(x) =>
       req[x].kv \in StoredVersions /\ vault[req[x].kv].value = req[x].value

\* One Put at a time is between its MAX and its commit, and its number is the
\* next one.
PutsExclusive ==
  /\ \A x \in Requests : Writes(x) /\ req[x].stage = "putting" =>
       req[x].kv \in Versions /\ StoredVersions = 1..(req[x].kv - 1)
  /\ \A x, y \in Requests :
       /\ Writes(x) /\ req[x].stage = "putting"
       /\ Writes(y) /\ req[y].stage = "putting"
       => x = y

\* A lock has one holder.
LocksExclusive == \A x, y \in Requests : x # y => held[x] \cap held[y] = {}

\* What a request is about to change, it has locked.
SweptHeld ==
  \A x \in Requests : Writes(x) /\ req[x].stage \in {"insert", "commit"} =>
    /\ req[x].seen \subseteq Active(req[x].scheme)
    /\ \A i \in req[x].seen : Row(i) \in held[x]

RevokedHeld ==
  \A x \in Requests : req[x].op = "delete" /\ req[x].stage = "commit" =>
    Row(req[x].row) \in held[x]

\* delete_service holds the chain from its first event on, so no row appears
\* after it has locked the rows that are there.
DeletedHeld ==
  \A x \in Requests : req[x].op = "delete_service" =>
    /\ req[x].stage \in {"rows", "service"} => Chain \in held[x]
    /\ req[x].stage = "service" => \A i \in Present : Row(i) \in held[x]

VaultInv == Prefix /\ ValuesApart /\ PutsStored /\ PutsExclusive /\ OneCurrent
LockInv  == LocksExclusive /\ SweptHeld /\ RevokedHeld /\ DeletedHeld
IInv     == TypeOK /\ VaultInv /\ WritersApart /\ LockInv /\ SchemeKeepsActive /\ AnswerStored

-----------------------------------------------------------------------------
(* Types.                                                                  *)

\* The stage of a request tells which handler it runs.
LEMMA StageOf ==
  ASSUME TypeOK, NEW x \in Requests, req[x] # Idle
  PROVE  /\ Writes(x) <=> req[x] \in Writing
         /\ req[x].op = "delete" <=> req[x] \in Revoking
         /\ req[x].op = "delete_service" <=> req[x] \in Removing
         /\ req[x].stage \in {"put", "putting", "sweep", "lock", "insert"} => req[x] \in Writing
         /\ req[x].stage = "mark" => req[x] \in Revoking
         /\ req[x].stage \in {"chain", "rows", "service"} => req[x] \in Removing
<1>1. req[x] \in Writing \cup Revoking \cup Removing
  BY DEF TypeOK
<1> QED
  BY <1>1 DEF Writes, Writing, Revoking, Removing

\* A request that ends keeps the types.
LEMMA EndType ==
  ASSUME TypeOK, NEW x \in Requests, End(x)
  PROVE  /\ req' \in [Requests -> {Idle} \cup Writing \cup Revoking \cup Removing]
         /\ held' \in [Requests -> SUBSET Locks]
  BY DEF TypeOK, End

-----------------------------------------------------------------------------
(* The numbers of versions.                                                *)

\* MAX(key_version) is the length of the prefix.
LEMMA MaxIs ==
  ASSUME TypeOK, NEW n \in 0..MaxWrites, StoredVersions = 1..n
  PROVE  MaxVersion = n
<1>1. n = 0 \/ n \in StoredVersions
  BY BoundAssumption
<1>2. \A v \in StoredVersions : v <= n
  BY BoundAssumption
<1>3. ASSUME NEW m \in 0..MaxWrites, m = 0 \/ m \in StoredVersions,
             \A v \in StoredVersions : v <= m
      PROVE  m = n
  BY <1>1, <1>3, BoundAssumption
<1> QED
  BY <1>1, <1>2, <1>3 DEF MaxVersion

\* A Put always finds a free number within the bound: the versions hold
\* different values, none of them the one it brings.
LEMMA RoomForPut ==
  ASSUME TypeOK, Prefix, ValuesApart, PutsStored,
         NEW x \in Requests, Writes(x), req[x].stage = "put"
  PROVE  /\ MaxVersion \in Nat /\ MaxVersion + 1 \in Versions
         /\ StoredVersions = 1..MaxVersion
<1>1. PICK n \in 0..MaxWrites : StoredVersions = 1..n
  BY DEF Prefix
<1>2. MaxVersion = n
  BY <1>1, MaxIs
<1>3. req[x] # Idle /\ req[x].value \in Values
  BY StageOf DEF Writes, Idle, Writing
<1>4. n # MaxWrites
  <2> SUFFICES ASSUME n = MaxWrites PROVE FALSE
    OBVIOUS
  <2> DEFINE T == Values \ {req[x].value}
             f == [v \in 1..n |-> vault[v].value]
  <2>1. \A v \in 1..n : vault[v].value \in T
    BY <1>1 DEF TypeOK, StoredVersions, Stored, PutsStored, Unwritten
  <2>2. f \in [1..n -> T]
    BY <2>1
  <2>3. IsFiniteSet(Values) /\ Cardinality(Values) = MaxWrites
    BY FS_Interval, BoundAssumption DEF Values
  <2>4. IsFiniteSet(T) /\ Cardinality(T) = MaxWrites - 1
    BY <1>3, <2>3, FS_RemoveElement
  <2>5. IsFiniteSet(1..n) /\ Cardinality(1..n) = MaxWrites
    BY <2>3 DEF Values
  <2>6. Cardinality(T) < Cardinality(1..n)
    BY <2>4, <2>5, BoundAssumption
  <2> HIDE DEF T, f
  <2>7. \E v, w \in 1..n : v # w /\ f[v] = f[w]
    BY <2>2, <2>4, <2>5, <2>6, FS_PigeonHole
  <2> QED
    BY <1>1, <2>7 DEF f, ValuesApart
<1> QED
  BY <1>1, <1>2, <1>4, BoundAssumption DEF Versions

-----------------------------------------------------------------------------
(* One step.                                                               *)

\* The steps of Next, one by one: a Cancel and a Fail are both a Rollback.
Moves(x) ==
  \/ \E s \in Schemes, op \in {"create", "rotate"} : Submit(x, op, s)
  \/ \E i \in Values : delete_credential_version(x, i)
  \/ delete_service(x)
  \/ Step(x)
  \/ Rollback(x)

\* Every step of the specification is one of these.
LEMMA NextMoves == Next => \E x \in Requests : Moves(x)
  BY DEF Next, Moves, create_credential, rotate_credential, Cancel, Fail

\* Every step keeps the types; the numbers of versions fit by RoomForPut.
LEMMA TypeStep ==
  ASSUME IInv, NEW x \in Requests, Moves(x)
  PROVE  TypeOK'
<1> USE DEF IInv
<1>1. ASSUME NEW s \in Schemes, NEW op \in {"create", "rotate"}, Submit(x, op, s)
      PROVE  TypeOK'
  <2>1. [op |-> op, scheme |-> s, value |-> writes + 1, stage |-> "put",
         kv |-> 0, seen |-> {}] \in Writing
    BY <1>1, BoundAssumption DEF Submit, Writing, TypeOK, Values
  <2> QED
    BY <1>1, <2>1, BoundAssumption DEF Submit, TypeOK
<1>2. ASSUME NEW i \in Values, delete_credential_version(x, i)
      PROVE  TypeOK'
  <2>1. [op |-> "delete", row |-> i, stage |-> "mark"] \in Revoking
    BY DEF Revoking
  <2> QED
    BY <1>2, <2>1 DEF delete_credential_version, TypeOK
<1>3. ASSUME delete_service(x)
      PROVE  TypeOK'
  <2>1. [op |-> "delete_service", stage |-> "chain"] \in Removing
    BY DEF Removing
  <2> QED
    BY <1>3, <2>1 DEF delete_service, TypeOK
<1>4. CASE Rollback(x)
  BY <1>4, EndType DEF Rollback, TypeOK
<1>5. CASE PutBegin(x)
  <2>1. req[x] \in Writing /\ Writes(x)
    BY <1>5, StageOf DEF PutBegin
  <2>2. MaxVersion + 1 \in 0..MaxWrites
    BY <1>5, <2>1, RoomForPut DEF PutBegin, VaultInv, Versions
  <2>3. [req[x] EXCEPT !.stage = "putting", !.kv = MaxVersion + 1] \in Writing
    BY <2>1, <2>2 DEF Writing
  <2> QED
    BY <1>5, <2>3 DEF PutBegin, TypeOK
<1>6. CASE PutCommit(x)
  <2>1. req[x] \in Writing
    BY <1>6, StageOf DEF PutCommit
  <2>2. [req[x] EXCEPT !.stage = "sweep"] \in Writing
    BY <2>1 DEF Writing
  <2>3. [value |-> req[x].value, scheme |-> req[x].scheme, is_current |-> TRUE] \in Stored
    BY <2>1 DEF Writing, Stored
  <2>4. \A v \in Versions : vault[v] # NoVersion =>
          [vault[v] EXCEPT !.is_current = FALSE] \in Stored
    BY DEF TypeOK, Stored
  <2>5. vault' \in [Versions -> Stored \cup {NoVersion}]
    BY <1>6, <2>3, <2>4 DEF PutCommit
  <2> QED
    BY <1>6, <2>2, <2>5 DEF PutCommit, Goto, TypeOK
<1>7. CASE SweepBegin(x)
  <2>1. req[x] \in Writing
    BY <1>7, StageOf DEF SweepBegin
  <2>2. [req[x] EXCEPT !.stage = "lock", !.seen = Active(req[x].scheme)] \in Writing
    BY <2>1 DEF Writing, Active, Present
  <2> QED
    BY <1>7, <2>2 DEF SweepBegin, TypeOK
<1>8. CASE SweepRows(x)
  <2> DEFINE swept == req[x].seen \cap Active(req[x].scheme)
  <2>1. req[x] \in Writing
    BY <1>8, StageOf DEF SweepRows
  <2>2. [req[x] EXCEPT !.stage = "insert", !.seen = swept] \in Writing
    BY <2>1 DEF Writing
  <2>3. {Row(i) : i \in swept} \subseteq Locks
    BY DEF Locks, Active, Present
  <2> QED
    BY <1>8, <2>2, <2>3 DEF SweepRows, Take, TypeOK
<1>9. CASE InsertRow(x)
  <2>1. req[x] \in Writing
    BY <1>9, StageOf DEF InsertRow
  <2>2. [req[x] EXCEPT !.stage = "commit"] \in Writing
    BY <2>1 DEF Writing
  <2> QED
    BY <1>9, <2>2 DEF InsertRow, Goto, Take, TypeOK, Locks
<1>10. CASE CommitWrite(x)
  <2>1. req[x] \in Writing /\ Writes(x) /\ Written(x)
    BY <1>10, StageOf DEF CommitWrite, Writes, Written
  <2>2. req[x].kv \in Versions
    BY <2>1 DEF VaultInv, PutsStored, StoredVersions
  <2>3. [kv |-> req[x].kv, scheme |-> req[x].scheme, status |-> "active"] \in Rows
    BY <2>1, <2>2 DEF Rows, Writing, Statuses
  <2>4. \A i \in req[x].seen : i \in Values /\ [rows[i] EXCEPT !.status = "superseded"] \in Rows
    BY <1>10, <2>1 DEF CommitWrite, LockInv, SweptHeld, Active, Present, TypeOK, Rows, Statuses
  <2>5. rows' \in [Values -> Rows \cup {NoRow}]
    BY <1>10, <2>3, <2>4 DEF CommitWrite, TypeOK
  <2>6. answers' \in SUBSET [value : Values, kv : Versions]
    BY <1>10, <2>1, <2>2 DEF CommitWrite, TypeOK, Writing
  <2> QED
    BY <1>10, <2>2, <2>5, <2>6, EndType DEF CommitWrite, TypeOK, Versions
<1>11. CASE MarkRevoked(x)
  <2>1. req[x] \in Revoking
    BY <1>11, StageOf DEF MarkRevoked
  <2>2. [req[x] EXCEPT !.stage = "commit"] \in Revoking /\ Row(req[x].row) \in Locks
    BY <2>1 DEF Revoking, Locks
  <2> QED
    BY <1>11, <2>2 DEF MarkRevoked, Goto, Take, TypeOK
<1>12. CASE CommitRevoke(x)
  <2>1. req[x] \in Revoking
    BY <1>12, StageOf DEF CommitRevoke
  <2>2. req[x].row \in Values
    BY <2>1 DEF Revoking
  <2>3. rows[req[x].row] # NoRow => [rows[req[x].row] EXCEPT !.status = "revoked"] \in Rows
    BY <2>2 DEF TypeOK, Rows, Statuses
  <2>4. rows' \in [Values -> Rows \cup {NoRow}]
    BY <1>12, <2>2, <2>3 DEF CommitRevoke, TypeOK
  <2> QED
    BY <1>12, <2>4, EndType DEF CommitRevoke, TypeOK
<1>13. CASE LockChain(x)
  <2>1. req[x] \in Removing
    BY <1>13, StageOf DEF LockChain
  <2>2. [req[x] EXCEPT !.stage = "rows"] \in Removing
    BY <2>1 DEF Removing
  <2> QED
    BY <1>13, <2>2 DEF LockChain, Goto, Take, TypeOK, Locks
<1>14. CASE DeleteRows(x)
  <2>1. req[x] \in Removing
    BY <1>14, StageOf DEF DeleteRows
  <2>2. [req[x] EXCEPT !.stage = "service"] \in Removing
    BY <2>1 DEF Removing
  <2>3. {Row(i) : i \in Present} \subseteq Locks
    BY DEF Locks, Present
  <2> QED
    BY <1>14, <2>2, <2>3 DEF DeleteRows, Goto, Take, TypeOK
<1>15. CASE CommitDelete(x)
  <2>1. rows' \in [Values -> Rows \cup {NoRow}]
    BY <1>15 DEF CommitDelete, TypeOK
  <2> QED
    BY <1>15, <2>1, EndType DEF CommitDelete, TypeOK
<1> QED
  BY <1>1, <1>2, <1>3, <1>4, <1>5, <1>6, <1>7, <1>8, <1>9, <1>10, <1>11, <1>12, <1>13, <1>14,
     <1>15 DEF Moves, Step, InsertFails

-----------------------------------------------------------------------------
(* The vault.                                                              *)

\* Nothing happens to the Put of request y.
KeepsPut(y) ==
  Writes(y)' =>
    /\ Writes(y)
    /\ req'[y].value = req[y].value /\ req'[y].kv = req[y].kv
    /\ req'[y].stage = req[y].stage \/ (Written(y) /\ Written(y)')

\* The numbering of versions survives every step that touches no Put.
LEMMA VaultFrame ==
  ASSUME VaultInv, vault' = vault, writes' = writes, \A y \in Requests : KeepsPut(y)
  PROVE  VaultInv'
<1>1. StoredVersions' = StoredVersions
  BY DEF StoredVersions
<1>2. Prefix' /\ ValuesApart' /\ OneCurrent'
  BY <1>1 DEF VaultInv, Prefix, ValuesApart, OneCurrent
<1>3. PutsStored'
  BY <1>1 DEF VaultInv, PutsStored, KeepsPut, Unwritten, Written
<1>4. PutsExclusive'
  BY <1>1 DEF VaultInv, PutsExclusive, KeepsPut, Written
<1> QED
  BY <1>2, <1>3, <1>4 DEF VaultInv

\* The versions stay numbered 1 to n, each with a value of its own, the last
\* one current (PostgresStore.Put).
LEMMA VaultStep ==
  ASSUME IInv, NEW x \in Requests, Moves(x)
  PROVE  VaultInv'
<1> USE DEF IInv
<1>0. req \in [Requests -> {Idle} \cup Writing \cup Revoking \cup Removing]
  BY DEF TypeOK
<1>1. ASSUME NEW s \in Schemes, NEW op \in {"create", "rotate"}, Submit(x, op, s)
      PROVE  VaultInv'
  <2>1. StoredVersions' = StoredVersions /\ vault' = vault
    BY <1>1 DEF StoredVersions, Submit
  <2>2. \A v \in StoredVersions : vault[v].value \in Nat
    BY DEF StoredVersions, TypeOK, Stored, Values
  <2>3. Prefix' /\ ValuesApart' /\ OneCurrent'
    BY <1>1, <2>1, <2>2 DEF VaultInv, Prefix, ValuesApart, OneCurrent, Submit, TypeOK
  <2>4. req'[x] = [op |-> op, scheme |-> s, value |-> writes + 1, stage |-> "put",
                   kv |-> 0, seen |-> {}]
        /\ \A y \in Requests : y # x => req'[y] = req[y]
    BY <1>0, <1>1 DEF Submit
  <2>5. PutsStored'
    <3>1. \A v \in StoredVersions : vault[v].value # writes + 1
      BY <2>2 DEF VaultInv, ValuesApart, TypeOK
    <3> QED
      BY <2>1, <2>4, <3>1 DEF VaultInv, PutsStored, Unwritten, Written, Writes
  <2>6. PutsExclusive'
    BY <2>1, <2>4 DEF VaultInv, PutsExclusive, Writes
  <2> QED
    BY <2>3, <2>5, <2>6 DEF VaultInv
<1>2. ASSUME NEW i \in Values, delete_credential_version(x, i)
      PROVE  VaultInv'
  BY <1>0, <1>2, VaultFrame DEF delete_credential_version, KeepsPut, Writes
<1>3. ASSUME delete_service(x)
      PROVE  VaultInv'
  BY <1>0, <1>3, VaultFrame DEF delete_service, KeepsPut, Writes
<1>4. CASE Rollback(x)
  BY <1>0, <1>4, VaultFrame DEF Rollback, End, KeepsPut, Writes, Idle
<1>5. CASE PutBegin(x)
  <2>1. StoredVersions' = StoredVersions /\ vault' = vault /\ writes' = writes
    BY <1>5 DEF StoredVersions, PutBegin
  <2>2. req[x] \in Writing /\ Writes(x) /\ Unwritten(x)
    BY <1>5, StageOf DEF PutBegin, Unwritten
  <2>3. /\ req'[x] = [req[x] EXCEPT !.stage = "putting", !.kv = MaxVersion + 1]
        /\ \A y \in Requests : y # x => req'[y] = req[y]
    BY <1>0, <1>5 DEF PutBegin
  <2>4. /\ req'[x].stage = "putting" /\ req'[x].kv = MaxVersion + 1
        /\ req'[x].value = req[x].value /\ req'[x].op = req[x].op
        /\ \A y \in Requests : y # x => req'[y] = req[y]
    BY <2>2, <2>3 DEF Writing
  <2>5. Prefix' /\ ValuesApart' /\ OneCurrent'
    BY <2>1 DEF VaultInv, Prefix, ValuesApart, OneCurrent
  <2>6. PutsStored'
    BY <2>1, <2>2, <2>4 DEF VaultInv, PutsStored, Unwritten, Written, Writes
  <2>7. MaxVersion + 1 \in Versions /\ StoredVersions = 1..((MaxVersion + 1) - 1)
    BY <1>5, <2>2, RoomForPut DEF PutBegin, VaultInv, Versions
  <2>8. \A y \in Requests : Writes(y) => req[y].stage # "putting"
    BY <1>5 DEF PutBegin, Writes, Idle
  <2>9. PutsExclusive'
    BY <2>1, <2>4, <2>7, <2>8 DEF PutsExclusive, Writes
  <2> QED
    BY <2>5, <2>6, <2>9 DEF VaultInv
<1>6. CASE PutCommit(x)
  <2> DEFINE k == req[x].kv
  <2>1. req[x] \in Writing /\ Writes(x) /\ Unwritten(x) /\ req[x].stage = "putting"
    BY <1>6, StageOf DEF PutCommit, Unwritten
  <2>2. k \in Versions /\ StoredVersions = 1..(k - 1)
    BY <2>1 DEF VaultInv, PutsExclusive
  <2>3. req'[x].stage = "sweep" /\ req'[x].kv = k
        /\ req'[x].value = req[x].value /\ req'[x].op = req[x].op
        /\ \A y \in Requests : y # x => req'[y] = req[y]
    BY <1>0, <1>6, <2>1 DEF PutCommit, Goto, Writing
  <2>4. /\ vault'[k].value = req[x].value /\ vault'[k].is_current /\ vault'[k] # NoVersion
        /\ \A v \in Versions : v # k => vault'[v] =
             IF vault[v] = NoVersion THEN NoVersion ELSE [vault[v] EXCEPT !.is_current = FALSE]
    BY <1>6, <2>1, <2>2 DEF PutCommit, NoVersion
  <2>5. ASSUME NEW v \in StoredVersions
        PROVE  /\ v # k /\ v \in Versions
               /\ vault'[v] # NoVersion /\ vault'[v].value = vault[v].value
               /\ ~vault'[v].is_current
    <3>1. v # k /\ v \in Versions /\ vault[v] \in Stored /\ vault[v] # NoVersion
      BY <2>2, BoundAssumption DEF StoredVersions, TypeOK, Versions
    <3>2. vault'[v] = [vault[v] EXCEPT !.is_current = FALSE]
      BY <2>4, <3>1
    <3> QED
      BY <3>1, <3>2 DEF Stored, NoVersion
  <2>5a. \A v \in Versions : v # k /\ v \notin StoredVersions => vault'[v] = NoVersion
    BY <2>4 DEF StoredVersions
  <2>6. StoredVersions' = StoredVersions \cup {k} /\ StoredVersions' = 1..k
    <3>1. StoredVersions' = StoredVersions \cup {k}
      <4>1. \A v \in StoredVersions' : v \in Versions /\ vault'[v] # NoVersion
        BY DEF StoredVersions
      <4>2. \A v \in Versions : vault'[v] # NoVersion => v \in StoredVersions'
        BY DEF StoredVersions
      <4> QED
        BY <2>2, <2>4, <2>5, <2>5a, <4>1, <4>2
    <3> QED
      BY <2>2, <3>1, BoundAssumption DEF Versions
  <2>7. Prefix'
    BY <2>2, <2>6, BoundAssumption DEF Prefix, Versions
  <2>8. writes' = writes /\ \A v \in StoredVersions : vault[v].value # req[x].value
    BY <1>6, <2>1 DEF PutCommit, VaultInv, PutsStored
  <2>9. ValuesApart'
    BY <2>1, <2>4, <2>5, <2>6, <2>8 DEF ValuesApart, VaultInv, WritersApart
  <2>10. OneCurrent'
    BY <2>2, <2>4, <2>5, <2>6, BoundAssumption DEF OneCurrent, Versions
  <2>11. PutsStored'
    <3>1. \A y \in Requests : y # x /\ Writes(y) => req[y].value # req[x].value
      BY <2>1 DEF WritersApart
    <3> QED
      BY <2>1, <2>2, <2>3, <2>4, <2>5, <2>6, <3>1
      DEF PutsStored, Unwritten, Written, Writes, VaultInv
  <2>12. PutsExclusive'
    BY <2>1, <2>3 DEF PutsExclusive, VaultInv, Writes
  <2> QED
    BY <2>7, <2>9, <2>10, <2>11, <2>12 DEF VaultInv
<1>7. CASE SweepBegin(x)
  <2>1. req[x] \in Writing
    BY <1>7, StageOf DEF SweepBegin
  <2> QED
    BY <1>0, <1>7, <2>1, VaultFrame DEF SweepBegin, KeepsPut, Writes, Written, Writing
<1>8. CASE SweepRows(x)
  <2>1. req[x] \in Writing
    BY <1>8, StageOf DEF SweepRows
  <2> QED
    BY <1>0, <1>8, <2>1, VaultFrame DEF SweepRows, KeepsPut, Writes, Written, Writing
<1>9. CASE InsertRow(x)
  <2>1. req[x] \in Writing
    BY <1>9, StageOf DEF InsertRow
  <2> QED
    BY <1>0, <1>9, <2>1, VaultFrame DEF InsertRow, Goto, KeepsPut, Writes, Written, Writing
<1>10. CASE CommitWrite(x)
  BY <1>0, <1>10, VaultFrame DEF CommitWrite, End, KeepsPut, Writes, Idle
<1>11. CASE MarkRevoked(x)
  <2>1. req[x] \in Revoking
    BY <1>11, StageOf DEF MarkRevoked
  <2> QED
    BY <1>0, <1>11, <2>1, VaultFrame DEF MarkRevoked, Goto, KeepsPut, Writes, Revoking
<1>12. CASE CommitRevoke(x)
  BY <1>0, <1>12, VaultFrame DEF CommitRevoke, End, KeepsPut, Writes, Idle
<1>13. CASE LockChain(x)
  <2>1. req[x] \in Removing
    BY <1>13, StageOf DEF LockChain
  <2> QED
    BY <1>0, <1>13, <2>1, VaultFrame DEF LockChain, Goto, KeepsPut, Writes, Removing
<1>14. CASE DeleteRows(x)
  <2>1. req[x] \in Removing
    BY <1>14, StageOf DEF DeleteRows
  <2> QED
    BY <1>0, <1>14, <2>1, VaultFrame DEF DeleteRows, Goto, KeepsPut, Writes, Removing
<1>15. CASE CommitDelete(x)
  BY <1>0, <1>15, VaultFrame DEF CommitDelete, End, KeepsPut, Writes, Idle
<1> QED
  BY <1>1, <1>2, <1>3, <1>4, <1>5, <1>6, <1>7, <1>8, <1>9, <1>10, <1>11, <1>12, <1>13, <1>14,
     <1>15 DEF Moves, Step, InsertFails

-----------------------------------------------------------------------------
(* Locks.                                                                  *)

\* A step of one request leaves the others where they are.
LEMMA LocalStep ==
  ASSUME IInv, NEW x \in Requests, Moves(x)
  PROVE  \A y \in Requests : y # x => req'[y] = req[y] /\ held'[y] = held[y]
<1>1. /\ req \in [Requests -> {Idle} \cup Writing \cup Revoking \cup Removing]
      /\ held \in [Requests -> SUBSET Locks]
  BY DEF IInv, TypeOK
<1>2. CASE \E s \in Schemes, op \in {"create", "rotate"} : Submit(x, op, s)
  BY <1>1, <1>2 DEF Submit
<1>3. CASE \E i \in Values : delete_credential_version(x, i)
  BY <1>1, <1>3 DEF delete_credential_version
<1>4. CASE delete_service(x)
  BY <1>1, <1>4 DEF delete_service
<1>5. CASE Rollback(x) \/ InsertFails(x) \/ CommitWrite(x) \/ CommitRevoke(x) \/ CommitDelete(x)
  BY <1>1, <1>5 DEF Rollback, InsertFails, CommitWrite, CommitRevoke, CommitDelete, End
<1>6. CASE PutBegin(x) \/ PutCommit(x) \/ SweepBegin(x)
  BY <1>1, <1>6 DEF PutBegin, PutCommit, SweepBegin, Goto
<1>7. CASE SweepRows(x) \/ InsertRow(x) \/ MarkRevoked(x) \/ LockChain(x) \/ DeleteRows(x)
  BY <1>1, <1>7 DEF SweepRows, InsertRow, MarkRevoked, LockChain, DeleteRows, Goto, Take
<1> QED
  BY <1>2, <1>3, <1>4, <1>5, <1>6, <1>7 DEF Moves, Step

\* PostgreSQL grants no lock another transaction holds.
LEMMA TakeExclusive ==
  ASSUME TypeOK, LocksExclusive, NEW x \in Requests, Granted(x),
         NEW L, L \subseteq Wants(x), Take(x, L)
  PROVE  LocksExclusive'
<1>1. \A y \in Requests : held'[y] = IF y = x THEN held[x] \cup L ELSE held[y]
  BY DEF Take, TypeOK
<1>2. \A y \in Requests : y # x => L \cap held[y] = {}
  BY DEF Granted, Blocks
<1> QED
  BY <1>1, <1>2 DEF LocksExclusive

\* A lock has one holder after every step.
LEMMA ExclusiveStep ==
  ASSUME IInv, NEW x \in Requests, Moves(x)
  PROVE  LocksExclusive'
<1> USE DEF IInv, LockInv
<1>1. CASE held' = held
  BY <1>1 DEF LocksExclusive
<1>2. CASE End(x)
  BY <1>2 DEF LocksExclusive, End, TypeOK
<1>3. CASE SweepRows(x)
  <2>1. {Row(i) : i \in req[x].seen \cap Active(req[x].scheme)} \subseteq Wants(x)
    BY <1>3 DEF SweepRows, Wants
  <2> QED
    BY <1>3, <2>1, TakeExclusive DEF SweepRows
<1>4. CASE InsertRow(x)
  <2>1. {Service} \subseteq Wants(x)
    BY <1>4 DEF InsertRow, Wants
  <2> QED
    BY <1>4, <2>1, TakeExclusive DEF InsertRow
<1>5. CASE MarkRevoked(x)
  <2>1. {Row(req[x].row)} \subseteq Wants(x)
    BY <1>5 DEF MarkRevoked, Wants
  <2> QED
    BY <1>5, <2>1, TakeExclusive DEF MarkRevoked
<1>6. CASE LockChain(x)
  <2>1. {Chain} \subseteq Wants(x)
    BY <1>6 DEF LockChain, Wants
  <2> QED
    BY <1>6, <2>1, TakeExclusive DEF LockChain
<1>7. CASE DeleteRows(x)
  <2>1. {Row(i) : i \in Present} \subseteq Wants(x)
    BY <1>7 DEF DeleteRows, Wants
  <2> QED
    BY <1>7, <2>1, TakeExclusive DEF DeleteRows
<1> QED
  BY <1>1, <1>2, <1>3, <1>4, <1>5, <1>6, <1>7
  DEF Moves, Step, Submit, delete_credential_version, delete_service, Rollback, InsertFails,
      PutBegin, PutCommit, SweepBegin, CommitWrite, CommitRevoke, CommitDelete

\* Rows change only under their lock, except the one a writer inserts, and
\* only while no other request holds the chain.
LEMMA RowStep ==
  ASSUME IInv, NEW x \in Requests, Moves(x)
  PROVE  \/ rows' = rows
         \/ /\ \A i \in Values : rows'[i] = rows[i] \/ rows[i] = NoRow \/ Row(i) \in held[x]
            /\ \A y \in Requests : y # x => Chain \notin held[y]
<1> USE DEF IInv
<1>1. CASE CommitWrite(x)
  <2>1. Wants(x) = {Chain} /\ Writes(x) /\ req[x].stage = "commit"
    BY <1>1 DEF CommitWrite, Wants, Writes
  <2>2. \A y \in Requests : y # x => Chain \notin held[y]
    BY <1>1, <2>1 DEF CommitWrite, Granted, Blocks
  <2>3. \A i \in req[x].seen : Row(i) \in held[x]
    BY <2>1 DEF LockInv, SweptHeld
  <2>4. req[x].value \notin Present
    BY <2>1 DEF WritersApart
  <2>5. ASSUME NEW i \in Values
        PROVE  rows'[i] = rows[i] \/ rows[i] = NoRow \/ Row(i) \in held[x]
    <3>1. CASE i = req[x].value
      BY <2>4, <3>1 DEF Present
    <3>2. CASE i # req[x].value /\ i \notin req[x].seen
      BY <1>1, <3>2 DEF CommitWrite
    <3> QED
      BY <2>3, <3>1, <3>2
  <2> QED
    BY <2>2, <2>5
<1>2. CASE CommitRevoke(x)
  <2>1. Wants(x) = {Chain}
    BY <1>2 DEF CommitRevoke, Wants
  <2>2. \A y \in Requests : y # x => Chain \notin held[y]
    BY <1>2, <2>1 DEF CommitRevoke, Granted, Blocks
  <2>3. Row(req[x].row) \in held[x]
    BY <1>2 DEF CommitRevoke, LockInv, RevokedHeld
  <2> QED
    BY <1>2, <2>2, <2>3 DEF CommitRevoke, TypeOK
<1>3. CASE CommitDelete(x)
  <2>1. req[x].op = "delete_service"
    BY <1>3, StageOf DEF CommitDelete
  <2>2. Chain \in held[x]
    BY <1>3, <2>1 DEF CommitDelete, LockInv, DeletedHeld
  <2>3. \A y \in Requests : y # x => Chain \notin held[y]
    BY <2>2 DEF LockInv, LocksExclusive
  <2> QED
    BY <1>3, <2>3 DEF CommitDelete
<1> QED
  BY <1>1, <1>2, <1>3
  DEF Moves, Step, Submit, delete_credential_version, delete_service, Rollback, InsertFails,
      PutBegin, PutCommit, SweepBegin, SweepRows, InsertRow, MarkRevoked, LockChain, DeleteRows

\* What request x is about to change, it has locked.
Covered(x) ==
  /\ Writes(x) /\ req[x].stage \in {"insert", "commit"} =>
       /\ req[x].seen \subseteq Active(req[x].scheme)
       /\ \A i \in req[x].seen : Row(i) \in held[x]
  /\ req[x].op = "delete" /\ req[x].stage = "commit" => Row(req[x].row) \in held[x]
  /\ req[x].op = "delete_service" =>
       /\ req[x].stage \in {"rows", "service"} => Chain \in held[x]
       /\ req[x].stage = "service" => \A i \in Present : Row(i) \in held[x]

\* The other requests stay covered: the rows they have locked do not change,
\* and while delete_service holds the chain no row does.
LEMMA CoveredOthers ==
  ASSUME IInv, NEW x \in Requests, Moves(x), NEW y \in Requests, y # x
  PROVE  Covered(y)'
<1> USE DEF IInv, LockInv
<1>1. req'[y] = req[y] /\ held'[y] = held[y] /\ held[y] \cap held[x] = {}
  BY LocalStep DEF LocksExclusive
<1>2. CASE rows' = rows
  BY <1>1, <1>2 DEF Covered, SweptHeld, RevokedHeld, DeletedHeld, Writes, Active, Present
<1>3. CASE /\ \A i \in Values : rows'[i] = rows[i] \/ rows[i] = NoRow \/ Row(i) \in held[x]
           /\ \A z \in Requests : z # x => Chain \notin held[z]
  <2>1. \A s : \A i \in Active(s) : Row(i) \in held[y] => i \in Active(s)'
    BY <1>1, <1>3 DEF Active, Present
  <2>2. Chain \notin held[y]
    BY <1>3
  <2> QED
    BY <1>1, <2>1, <2>2 DEF Covered, SweptHeld, RevokedHeld, DeletedHeld, Writes
<1> QED
  BY <1>2, <1>3, RowStep

\* Every step leaves what the requests are about to change locked: the sweep
\* of register_credential and rotate_credential, the mark of
\* delete_credential_version, the deletes of delete_service.
LEMMA LockStep ==
  ASSUME IInv, NEW x \in Requests, Moves(x)
  PROVE  LockInv'
<1> SUFFICES Covered(x)'
  <2>1. \A y \in Requests : Covered(y)'
    BY CoveredOthers
  <2> QED
    BY <2>1, ExclusiveStep DEF LockInv, Covered, SweptHeld, RevokedHeld, DeletedHeld
<1> USE DEF IInv, LockInv
<1>0. /\ req \in [Requests -> {Idle} \cup Writing \cup Revoking \cup Removing]
      /\ held \in [Requests -> SUBSET Locks]
  BY DEF TypeOK
<1>1. ASSUME NEW s \in Schemes, NEW op \in {"create", "rotate"}, Submit(x, op, s)
      PROVE  Covered(x)'
  BY <1>0, <1>1 DEF Submit, Covered
<1>2. ASSUME NEW i \in Values, delete_credential_version(x, i)
      PROVE  Covered(x)'
  BY <1>0, <1>2 DEF delete_credential_version, Covered, Writes
<1>3. ASSUME delete_service(x)
      PROVE  Covered(x)'
  BY <1>0, <1>3 DEF delete_service, Covered, Writes
<1>4. CASE End(x)
  BY <1>0, <1>4 DEF End, Covered, Writes, Idle
<1>5. CASE PutBegin(x) \/ PutCommit(x) \/ SweepBegin(x)
  <2>1. req[x] \in Writing
    BY <1>5, StageOf DEF PutBegin, PutCommit, SweepBegin
  <2>2. req'[x].stage \in {"putting", "sweep", "lock"} /\ req'[x].op = req[x].op
    BY <1>0, <1>5, <2>1 DEF PutBegin, PutCommit, SweepBegin, Goto, Writing
  <2> QED
    BY <2>1, <2>2 DEF Covered, Writing
<1>6. CASE SweepRows(x)
  <2> DEFINE swept == req[x].seen \cap Active(req[x].scheme)
  <2>1. req[x] \in Writing
    BY <1>6, StageOf DEF SweepRows
  <2>2. /\ req'[x].op = req[x].op /\ req'[x].scheme = req[x].scheme
        /\ req'[x].seen = swept
    BY <1>0, <1>6, <2>1 DEF SweepRows, Writing
  <2>3. \A i \in swept : Row(i) \in held'[x]
    BY <1>0, <1>6 DEF SweepRows, Take
  <2>4. \A s : Active(s)' = Active(s)
    BY <1>6 DEF SweepRows, Active, Present
  <2> QED
    BY <2>1, <2>2, <2>3, <2>4 DEF Covered, Writing
<1>7. CASE InsertRow(x)
  <2>1. req[x] \in Writing /\ Writes(x) /\ req[x].stage = "insert"
    BY <1>7, StageOf DEF InsertRow
  <2>2. /\ req'[x].op = req[x].op /\ req'[x].scheme = req[x].scheme
        /\ req'[x].seen = req[x].seen
    BY <1>0, <1>7, <2>1 DEF InsertRow, Goto, Writing
  <2>3. held[x] \subseteq held'[x] /\ \A s : Active(s)' = Active(s)
    BY <1>0, <1>7 DEF InsertRow, Take, Active, Present
  <2> QED
    BY <2>1, <2>2, <2>3 DEF Covered, SweptHeld, Writing
<1>8. CASE MarkRevoked(x)
  <2>1. req[x] \in Revoking
    BY <1>8, StageOf DEF MarkRevoked
  <2>2. req'[x].op = "delete" /\ req'[x].row = req[x].row
    BY <1>0, <1>8, <2>1 DEF MarkRevoked, Goto, Revoking
  <2>3. Row(req[x].row) \in held'[x]
    BY <1>0, <1>8 DEF MarkRevoked, Take
  <2> QED
    BY <2>2, <2>3 DEF Covered, Writes
<1>9. CASE LockChain(x)
  <2>1. req[x] \in Removing
    BY <1>9, StageOf DEF LockChain
  <2>2. req'[x].op = "delete_service" /\ req'[x].stage = "rows"
    BY <1>0, <1>9, <2>1 DEF LockChain, Goto, Removing
  <2>3. Chain \in held'[x]
    BY <1>0, <1>9 DEF LockChain, Take
  <2> QED
    BY <2>2, <2>3 DEF Covered, Writes
<1>10. CASE DeleteRows(x)
  <2>1. req[x] \in Removing /\ req[x].stage = "rows"
    BY <1>10, StageOf DEF DeleteRows
  <2>2. req'[x].op = "delete_service" /\ req'[x].stage = "service"
    BY <1>0, <1>10, <2>1 DEF DeleteRows, Goto, Removing
  <2>3. Chain \in held[x]
    BY <2>1 DEF DeletedHeld, Removing
  <2>4. Present' = Present
    BY <1>10 DEF DeleteRows, Present
  <2>5. Chain \in held'[x] /\ \A i \in Present : Row(i) \in held'[x]
    BY <1>0, <1>10, <2>3 DEF DeleteRows, Take
  <2> QED
    BY <2>2, <2>4, <2>5 DEF Covered, Writes
<1> QED
  BY <1>1, <1>2, <1>3, <1>4, <1>5, <1>6, <1>7, <1>8, <1>9, <1>10
  DEF Moves, Step, Rollback, InsertFails, CommitWrite, CommitRevoke, CommitDelete

-----------------------------------------------------------------------------
(* Rows and answers.                                                       *)

\* A writing request keeps its value, or is a new one.
LEMMA ValueKept ==
  ASSUME IInv, NEW x \in Requests, Moves(x), Writes(x)'
  PROVE  \/ Writes(x) /\ req'[x].value = req[x].value /\ rows' = rows /\ writes' = writes
         \/ req'[x].value = writes + 1 /\ rows' = rows /\ writes' = writes + 1
<1> USE DEF IInv
<1>0. req \in [Requests -> {Idle} \cup Writing \cup Revoking \cup Removing]
  BY DEF TypeOK
<1>1. ASSUME NEW s \in Schemes, NEW op \in {"create", "rotate"}, Submit(x, op, s)
      PROVE  req'[x].value = writes + 1 /\ rows' = rows /\ writes' = writes + 1
  BY <1>0, <1>1 DEF Submit
<1>2. ASSUME NEW i \in Values, delete_credential_version(x, i)
      PROVE  FALSE
  BY <1>0, <1>2 DEF delete_credential_version, Writes
<1>3. ASSUME delete_service(x)
      PROVE  FALSE
  BY <1>0, <1>3 DEF delete_service, Writes
<1>4. ASSUME End(x)
      PROVE  FALSE
  BY <1>0, <1>4 DEF End, Writes, Idle
<1>5. CASE PutBegin(x) \/ PutCommit(x) \/ SweepBegin(x) \/ SweepRows(x) \/ InsertRow(x)
  <2>1. req[x] \in Writing /\ Writes(x)
    BY <1>5, StageOf DEF PutBegin, PutCommit, SweepBegin, SweepRows, InsertRow
  <2> QED
    BY <1>0, <1>5, <2>1 DEF PutBegin, PutCommit, SweepBegin, SweepRows, InsertRow, Goto, Writing
<1>6. CASE MarkRevoked(x)
  <2>1. req[x] \in Revoking
    BY <1>6, StageOf DEF MarkRevoked
  <2> QED
    BY <1>0, <1>6, <2>1 DEF MarkRevoked, Goto, Revoking, Writes
<1>7. CASE LockChain(x) \/ DeleteRows(x)
  <2>1. req[x] \in Removing
    BY <1>7, StageOf DEF LockChain, DeleteRows
  <2> QED
    BY <1>0, <1>7, <2>1 DEF LockChain, DeleteRows, Goto, Removing, Writes
<1> QED
  BY <1>1, <1>2, <1>3, <1>4, <1>5, <1>6, <1>7
  DEF Moves, Step, Rollback, InsertFails, CommitWrite, CommitRevoke, CommitDelete

\* Only a writer's commit makes a row, under the value it submitted.
LEMMA RowsAppear ==
  ASSUME IInv, NEW x \in Requests, Moves(x)
  PROVE  /\ \A i \in Values : rows[i] = NoRow /\ rows'[i] # NoRow => Writes(x) /\ i = req[x].value
         /\ writes' \in {writes, writes + 1}
<1> USE DEF IInv
<1>1. CASE CommitWrite(x)
  <2>1. \A i \in req[x].seen : i \in Present
    BY <1>1 DEF CommitWrite, LockInv, SweptHeld, Active, Writes
  <2> QED
    BY <1>1, <2>1 DEF CommitWrite, Present, Writes
<1>2. CASE CommitRevoke(x)
  BY <1>2 DEF CommitRevoke, TypeOK
<1>3. CASE CommitDelete(x)
  BY <1>3 DEF CommitDelete
<1> QED
  BY <1>1, <1>2, <1>3
  DEF Moves, Step, Submit, delete_credential_version, delete_service, Rollback, InsertFails,
      PutBegin, PutCommit, SweepBegin, SweepRows, InsertRow, MarkRevoked, LockChain, DeleteRows

\* Requests keep values of their own, and rows come only from values that
\* were submitted.
LEMMA WritersStep ==
  ASSUME IInv, NEW x \in Requests, Moves(x)
  PROVE  WritersApart'
<1> USE DEF IInv
<1>0. /\ writes \in Nat /\ writes' \in Nat /\ writes <= writes'
      /\ \A y \in Requests : Writes(y) => req[y].value \in Nat
      /\ \A y \in Requests : y # x => (Writes(y)' <=> Writes(y)) /\ req'[y] = req[y]
  <2>1. \A y \in Requests : Writes(y) => req[y].value \in Values
    BY StageOf DEF Writes, Idle, Writing
  <2> QED
    BY <2>1, RowsAppear, LocalStep DEF TypeOK, Writes, Values
<1>1. \A i \in Present' : i \in Present \/ (Writes(x) /\ i = req[x].value)
  BY RowsAppear DEF Present
<1>2. CASE Writes(x)'
  <2>1. Present' = Present
    BY <1>2, ValueKept DEF Present
  <2>2. CASE Writes(x) /\ req'[x].value = req[x].value /\ writes' = writes
    BY <1>0, <2>1, <2>2 DEF WritersApart
  <2>3. CASE req'[x].value = writes + 1 /\ writes' = writes + 1
    <3>1. \A i \in Present : i \in Nat
      BY DEF Present, Values
    <3>2. writes + 1 \notin Present
      BY <1>0, <3>1 DEF WritersApart
    <3> QED
      BY <1>0, <2>1, <2>3, <3>1, <3>2 DEF WritersApart
  <2> QED
    BY <1>2, <2>2, <2>3, ValueKept
<1>3. CASE ~Writes(x)'
  <2>1. \A i \in Present : i \in Nat
    BY DEF Present, Values
  <2>2. \A y \in Requests : Writes(y)' => y # x
    BY <1>3
  <2>3. \A y \in Requests : Writes(y) /\ y # x => req[y].value \notin Present'
    BY <1>1 DEF WritersApart
  <2> QED
    BY <1>0, <1>1, <2>1, <2>2, <2>3 DEF WritersApart
<1> QED
  BY <1>2, <1>3

\* SchemeKeepsActive looks at the schemes one by one.
LEMMA ActiveFrame ==
  ASSUME SchemeKeepsActive,
         \A s \in Schemes :
           \/ Active(s)' # {}
           \/ \E i \in Values : rows'[i] # NoRow /\ rows'[i].scheme = s /\ rows'[i].status = "revoked"
           \/ /\ \A i \in Values : rows'[i] # NoRow /\ rows'[i].scheme = s => rows'[i] = rows[i]
              /\ \A i \in Values : rows[i] # NoRow /\ rows[i].scheme = s => rows'[i] = rows[i]
  PROVE  SchemeKeepsActive'
<1> SUFFICES ASSUME NEW s \in Schemes,
                    \E i \in Values : rows'[i] # NoRow /\ rows'[i].scheme = s,
                    \A i \in Values : rows'[i] # NoRow /\ rows'[i].scheme = s =>
                                        rows'[i].status # "revoked"
             PROVE  Active(s)' # {}
  BY DEF SchemeKeepsActive, Present
<1>1. CASE /\ \A i \in Values : rows'[i] # NoRow /\ rows'[i].scheme = s => rows'[i] = rows[i]
           /\ \A i \in Values : rows[i] # NoRow /\ rows[i].scheme = s => rows'[i] = rows[i]
  <2>1. Active(s) # {}
    BY <1>1 DEF SchemeKeepsActive, Present
  <2> QED
    BY <1>1, <2>1 DEF Active, Present
<1> QED
  BY <1>1

\* A writer's commit supersedes rows of its own scheme and adds an active one,
\* a revocation leaves a revoked row, delete_service leaves none.
LEMMA ActiveStep ==
  ASSUME IInv, NEW x \in Requests, Moves(x)
  PROVE  SchemeKeepsActive'
<1> USE DEF IInv
<1>1. CASE CommitWrite(x)
  <2> DEFINE r == req[x].value
             sch == req[x].scheme
  <2>1. Writes(x) /\ req[x] \in Writing
    BY <1>1, StageOf DEF CommitWrite, Writes
  <2>2. /\ r \in Values /\ rows'[r] # NoRow
        /\ rows'[r].status = "active" /\ rows'[r].scheme = sch
    BY <1>1, <2>1 DEF CommitWrite, NoRow, Writing
  <2>3. \A s \in Schemes : s = sch => r \in Active(s)'
    BY <2>2 DEF Active, Present
  <2>4. req[x].seen \subseteq Active(sch) /\ r \notin Present
    BY <1>1, <2>1 DEF CommitWrite, LockInv, SweptHeld, WritersApart
  <2>5. ASSUME NEW i \in Values, i # r, i \in req[x].seen
        PROVE  rows'[i].scheme = sch
    <3>1. rows'[i] = [rows[i] EXCEPT !.status = "superseded"]
      BY <1>1, <2>5 DEF CommitWrite
    <3>2. rows[i] \in Rows /\ rows[i].scheme = sch
      BY <2>4, <2>5 DEF Active, Present, TypeOK
    <3> QED
      BY <3>1, <3>2 DEF Rows
  <2>6. \A i \in Values : i # r /\ i \notin req[x].seen => rows'[i] = rows[i]
    BY <1>1 DEF CommitWrite
  <2>7. \A s \in Schemes : s # sch =>
          \A i \in Values : rows'[i] # NoRow /\ rows'[i].scheme = s => rows'[i] = rows[i]
    BY <2>2, <2>5, <2>6
  <2>8. \A s \in Schemes : s # sch =>
          \A i \in Values : rows[i] # NoRow /\ rows[i].scheme = s => rows'[i] = rows[i]
    BY <2>4, <2>6 DEF Active, Present
  <2> QED
    BY <2>3, <2>7, <2>8, ActiveFrame
<1>2. CASE CommitRevoke(x)
  <2> DEFINE r == req[x].row
  <2>1. r \in Values
    BY <1>2, StageOf DEF CommitRevoke, Revoking
  <2>2. \A i \in Values : i # r => rows'[i] = rows[i]
    BY <1>2 DEF CommitRevoke, TypeOK
  <2>3. CASE rows[r] = NoRow
    <3>1. rows' = rows
      BY <1>2, <2>1, <2>3 DEF CommitRevoke, TypeOK
    <3> QED
      BY <3>1 DEF SchemeKeepsActive, Active, Present
  <2>4. CASE rows[r] # NoRow
    <3>1. rows[r] \in Rows /\ rows'[r] = [rows[r] EXCEPT !.status = "revoked"]
      BY <1>2, <2>1, <2>4 DEF CommitRevoke, TypeOK
    <3>2. rows'[r].status = "revoked" /\ rows'[r].scheme = rows[r].scheme /\ rows'[r] # NoRow
      BY <3>1 DEF Rows, NoRow
    <3> HIDE DEF r
    <3>4. \A s \in Schemes : s # rows[r].scheme =>
            /\ \A i \in Values : rows'[i] # NoRow /\ rows'[i].scheme = s => rows'[i] = rows[i]
            /\ \A i \in Values : rows[i] # NoRow /\ rows[i].scheme = s => rows'[i] = rows[i]
      BY <2>2, <3>2
    <3>5. \A s \in Schemes : s = rows[r].scheme =>
            \E i \in Values : rows'[i] # NoRow /\ rows'[i].scheme = s /\ rows'[i].status = "revoked"
      BY <2>1, <3>2
    <3> QED
      BY <3>4, <3>5, ActiveFrame
  <2> QED
    BY <2>3, <2>4
<1>3. CASE CommitDelete(x)
  <2>1. \A i \in Present : Row(i) \in held[x]
    BY <1>3, StageOf DEF CommitDelete, LockInv, DeletedHeld
  <2>2. \A i \in Values : rows'[i] = NoRow
    BY <1>3, <2>1 DEF CommitDelete, Present
  <2> QED
    BY <2>2 DEF SchemeKeepsActive, Present
<1>4. CASE rows' = rows
  BY <1>4 DEF SchemeKeepsActive, Active, Present
<1> QED
  BY <1>1, <1>2, <1>3, <1>4
  DEF Moves, Step, Submit, delete_credential_version, delete_service, Rollback, InsertFails,
      PutBegin, PutCommit, SweepBegin, SweepRows, InsertRow, MarkRevoked, LockChain, DeleteRows

\* A stored version keeps its value: Put only ever adds one.
LEMMA StoredKept ==
  ASSUME IInv, NEW x \in Requests, Moves(x), NEW v \in StoredVersions
  PROVE  v \in StoredVersions' /\ vault'[v].value = vault[v].value
<1> USE DEF IInv
<1>1. CASE vault' = vault
  BY <1>1 DEF StoredVersions
<1>2. CASE PutCommit(x)
  <2>1. Writes(x) /\ req[x].stage = "putting"
    BY <1>2, StageOf DEF PutCommit
  <2>2. req[x].kv \notin StoredVersions
    BY <2>1, BoundAssumption DEF VaultInv, PutsExclusive, Versions
  <2>3. v \in Versions /\ vault[v] \in Stored /\ v # req[x].kv
    BY <2>2 DEF StoredVersions, TypeOK
  <2>4. vault'[v] = [vault[v] EXCEPT !.is_current = FALSE]
    BY <1>2, <2>3 DEF PutCommit, StoredVersions
  <2>5. vault'[v] # NoVersion /\ vault'[v].value = vault[v].value
    BY <2>3, <2>4 DEF Stored, NoVersion
  <2> QED
    BY <2>3, <2>5 DEF StoredVersions
<1> QED
  BY <1>1, <1>2
  DEF Moves, Step, Submit, delete_credential_version, delete_service, Rollback, InsertFails,
      PutBegin, SweepBegin, SweepRows, InsertRow, MarkRevoked, LockChain, DeleteRows,
      CommitWrite, CommitRevoke, CommitDelete

\* A row keeps its key_version as long as the service is there.
LEMMA RowKept ==
  ASSUME IInv, NEW x \in Requests, Moves(x), NEW i \in Present
  PROVE  \/ ~exists'
         \/ exists /\ i \in Present' /\ rows'[i].kv = rows[i].kv
                   /\ (rows[i].status = "revoked" => rows'[i] = rows[i])
<1> USE DEF IInv
<1>0. i \in Values /\ rows[i] \in Rows /\ rows[i] # NoRow
  BY DEF Present, TypeOK
<1>1. CASE CommitWrite(x)
  <2>1. Writes(x) /\ req[x].stage = "commit" /\ exists' = exists
    BY <1>1 DEF CommitWrite, Writes
  <2>2. i # req[x].value
    BY <2>1 DEF WritersApart
  <2>3. i \in req[x].seen => rows[i].status = "active"
    BY <2>1 DEF LockInv, SweptHeld, Active
  <2>4. rows'[i] = IF i \in req[x].seen THEN [rows[i] EXCEPT !.status = "superseded"] ELSE rows[i]
    BY <1>0, <1>1, <2>2 DEF CommitWrite
  <2>5. rows'[i] # NoRow /\ rows'[i].kv = rows[i].kv
    BY <1>0, <2>4 DEF Rows, NoRow
  <2> QED
    BY <1>0, <2>1, <2>3, <2>4, <2>5 DEF Present
<1>2. CASE CommitRevoke(x)
  <2>1. rows'[i] = rows[i] \/ rows'[i] = [rows[i] EXCEPT !.status = "revoked"]
    BY <1>0, <1>2 DEF CommitRevoke, TypeOK
  <2>2. rows'[i] # NoRow /\ rows'[i].kv = rows[i].kv
        /\ (rows[i].status = "revoked" => rows'[i] = rows[i])
    BY <1>0, <2>1 DEF Rows, NoRow
  <2> QED
    BY <1>0, <1>2, <2>2 DEF CommitRevoke, Present
<1>3. CASE CommitDelete(x)
  BY <1>3 DEF CommitDelete
<1>4. CASE rows' = rows /\ exists' = exists
  BY <1>0, <1>4 DEF Present
<1> QED
  BY <1>1, <1>2, <1>3, <1>4
  DEF Moves, Step, Submit, delete_credential_version, delete_service, Rollback, InsertFails,
      PutBegin, PutCommit, SweepBegin, SweepRows, InsertRow, MarkRevoked, LockChain, DeleteRows

\* What was answered stays stored, and a commit answers what its Put stored.
LEMMA AnswerStep ==
  ASSUME IInv, NEW x \in Requests, Moves(x)
  PROVE  AnswerStored'
<1> USE DEF IInv
<1>1. ASSUME NEW a \in answers
      PROVE  /\ a.kv \in StoredVersions' /\ vault'[a.kv].value = a.value
             /\ exists' => a.value \in Present' /\ rows'[a.value].kv = a.kv
  <2>1. a.kv \in StoredVersions /\ vault[a.kv].value = a.value
    BY DEF AnswerStored
  <2>2. a.kv \in StoredVersions' /\ vault'[a.kv].value = a.value
    BY <2>1, StoredKept
  <2>3. ASSUME exists', exists
        PROVE  a.value \in Present' /\ rows'[a.value].kv = a.kv
    BY <2>3, RowKept DEF AnswerStored
  <2>4. exists' => exists
    BY DEF Moves, Step, Submit, delete_credential_version, delete_service, Rollback, InsertFails,
           PutBegin, PutCommit, SweepBegin, SweepRows, InsertRow, MarkRevoked, LockChain,
           DeleteRows, CommitWrite, CommitRevoke, CommitDelete
  <2> QED
    BY <2>2, <2>3, <2>4
<1>2. CASE answers' = answers
  BY <1>1, <1>2 DEF AnswerStored
<1>3. CASE CommitWrite(x)
  <2> DEFINE b == [value |-> req[x].value, kv |-> req[x].kv]
  <2>1. Writes(x) /\ Written(x) /\ req[x].value \in Values
    BY <1>3, StageOf DEF CommitWrite, Writes, Written, Writing
  <2>2. req[x].kv \in StoredVersions /\ vault[req[x].kv].value = req[x].value
    BY <2>1 DEF VaultInv, PutsStored
  <2>3. req[x].kv \in StoredVersions' /\ vault'[req[x].kv].value = req[x].value
    BY <2>2, StoredKept
  <2>4. rows'[req[x].value].kv = req[x].kv /\ rows'[req[x].value] # NoRow
    BY <1>3, <2>1 DEF CommitWrite, NoRow
  <2>5. req[x].value \in Present'
    BY <2>1, <2>4 DEF Present
  <2>6. answers' = answers \cup {b} /\ b.kv = req[x].kv /\ b.value = req[x].value
    BY <1>3 DEF CommitWrite
  <2> HIDE DEF b
  <2> QED
    BY <1>1, <2>3, <2>4, <2>5, <2>6 DEF AnswerStored
<1> QED
  BY <1>2, <1>3
  DEF Moves, Step, Submit, delete_credential_version, delete_service, Rollback, InsertFails,
      PutBegin, PutCommit, SweepBegin, SweepRows, InsertRow, MarkRevoked, LockChain, DeleteRows,
      CommitRevoke, CommitDelete

-----------------------------------------------------------------------------
(* The theorems.                                                           *)

\* The inductive invariant holds initially.
LEMMA InitIInv == Init => IInv
<1> SUFFICES ASSUME Init PROVE IInv
  OBVIOUS
<1>1. TypeOK
  BY BoundAssumption DEF Init, TypeOK
<1>2. StoredVersions = {} /\ Present = {}
  BY DEF Init, StoredVersions, Present
<1>3. \A x \in Requests : req[x].op = "none" /\ held[x] = {}
  BY DEF Init, Idle
<1>4. Prefix
  <2>1. 0 \in 0..MaxWrites /\ 1..0 = {}
    BY BoundAssumption
  <2> QED
    BY <1>2, <2>1 DEF Prefix
<1>5. VaultInv
  BY <1>2, <1>3, <1>4
  DEF VaultInv, ValuesApart, PutsStored, PutsExclusive, OneCurrent, Unwritten, Written, Writes
<1>6. LockInv /\ WritersApart
  BY <1>2, <1>3
  DEF LockInv, LocksExclusive, SweptHeld, RevokedHeld, DeletedHeld, WritersApart, Writes
<1>7. SchemeKeepsActive /\ AnswerStored
  BY <1>2 DEF Init, SchemeKeepsActive, AnswerStored
<1> QED
  BY <1>1, <1>5, <1>6, <1>7 DEF IInv

\* Every step preserves the inductive invariant.
LEMMA NextIInv == IInv /\ [Next]_vars => IInv'
<1> SUFFICES ASSUME IInv, [Next]_vars PROVE IInv'
  OBVIOUS
<1>1. CASE UNCHANGED vars
  BY <1>1
  DEF vars, IInv, TypeOK, VaultInv, Prefix, ValuesApart, PutsStored, PutsExclusive, OneCurrent,
      WritersApart, LockInv, LocksExclusive, SweptHeld, RevokedHeld, DeletedHeld,
      SchemeKeepsActive, AnswerStored, Unwritten, Written, Writes, StoredVersions, Present, Active
<1>2. CASE Next
  <2>1. PICK x \in Requests : Moves(x)
    BY <1>2, NextMoves
  <2> QED
    BY <2>1, TypeStep, VaultStep, WritersStep, LockStep, ActiveStep, AnswerStep DEF IInv
<1> QED
  BY <1>1, <1>2

\* IInv is an invariant.
LEMMA Inductive == Spec => []IInv
  BY InitIInv, NextIInv, PTL DEF Spec

\* However registrations, rotations, revocations and deletions overlap and
\* fail, the vault's newest version is its only current one (the advisory lock
\* and the demotion of PostgresStore.Put), and a scheme that has credentials,
\* none of them revoked, has an active one (the sweep and the insert of
\* create_credential and rotate_credential).
THEOREM StoreStaysConsistent == Spec => []StoreConsistent
<1>1. IInv => StoreConsistent
  BY DEF IInv, VaultInv, StoreConsistent
<1> QED
  BY <1>1, Inductive, PTL

\* In every state, what create_credential or rotate_credential answered is what
\* the vault and the metadata hold, and GetCredential gives it or a newer one.
THEOREM AnswersAlwaysHold == Spec => []AnswersHold
<1>1. IInv => AnswersHold
  <2> SUFFICES ASSUME IInv PROVE ServedFresh
    BY DEF IInv, AnswersHold
  <2> SUFFICES ASSUME NEW a \in answers
               PROVE  \E g \in GetCredential : g.kv > a.kv \/ g = a
    BY DEF ServedFresh
  <2>1. PICK n \in 0..MaxWrites : StoredVersions = 1..n
    BY DEF IInv, VaultInv, Prefix
  <2>2. a.kv \in 1..n /\ vault[a.kv].value = a.value
    BY <2>1 DEF IInv, AnswerStored
  <2>3. n \in StoredVersions /\ vault[n].is_current
    BY <2>1, <2>2, BoundAssumption DEF IInv, VaultInv, OneCurrent
  <2> DEFINE g == [kv |-> n, value |-> vault[n].value]
  <2>4. g \in GetCredential
    BY <2>3 DEF GetCredential
  <2>5. g.kv > a.kv \/ g = a
    <3>1. a = [value |-> a.value, kv |-> a.kv]
      BY DEF IInv, TypeOK
    <3> QED
      BY <2>2, <3>1, BoundAssumption
  <2> QED
    BY <2>4, <2>5
<1> QED
  BY <1>1, Inductive, PTL

\* No sweep that waited for a row undoes its revocation
\* (delete_credential_version): the row stays revoked until delete_service.
THEOREM RevocationsStick == Spec => RevokedStays
<1>1. IInv /\ [Next]_vars =>
        [\A i \in Present : rows[i].status = "revoked" => rows'[i] = rows[i] \/ ~exists']_vars
  BY NextMoves, RowKept
<1> QED
  BY <1>1, Inductive, PTL DEF Spec, RevokedStays

=============================================================================
