---------------------------- MODULE Credentials ----------------------------
(***************************************************************************)
(* The life of one service's credential: how operators register, rotate    *)
(* and revoke it through admin-api, how the vault adapter numbers and      *)
(* keeps its versions, and which version a proxy is handed.                *)
(*                                                                         *)
(* Two databases' worth of state is kept in step by hand.  The vault       *)
(* adapter stores the encrypted value in vault.credentials, in a           *)
(* transaction of its own; admin-api then records metadata (version,       *)
(* scheme, status) in public.credentials and services, in a READ COMMITTED *)
(* transaction that opened before the vault was asked and commits after.   *)
(*                                                                         *)
(*   admin-api      api/credentials.py: create, rotate, delete a version;  *)
(*                  api/services.py: delete_service                        *)
(*   vault adapter  server/vault.go, store/postgres.go (the default        *)
(*                  backend)                                               *)
(*   a proxy        the GetCredential call at the end of its gates         *)
(*                                                                         *)
(* A value an operator submits is named by the order of submission, and    *)
(* so is the metadata row it leads to; validation of the value, routing    *)
(* hints and the payload of events are left out.                           *)
(***************************************************************************)
EXTENDS Integers

CONSTANTS Requests,   \* admin-api requests under way at a time
          Schemes,    \* auth schemes credentials are registered under
          MaxWrites,  \* bound: values operators submit
          Aborts      \* may requests fail half way

ASSUME BoundAssumption == MaxWrites \in Nat
ASSUME AbortAssumption == Aborts \in BOOLEAN

Values   == 1..MaxWrites
Versions == 1..MaxWrites

VARIABLES
  exists,   \* is the services row there
  ckv,      \* services.current_key_version
  rows,     \* public.credentials, by the value that led to the row
  writes,   \* values submitted so far
  req,      \* what each admin-api request has got to
  held,     \* the PostgreSQL locks each request's transaction holds
  vault,    \* vault.credentials, by key_version
  answers   \* what 200 and 201 responses have said: value, key_version

vars == <<exists, ckv, rows, writes, req, held, vault, answers>>

NoRow     == [status |-> "none"]
NoVersion == [value |-> 0]
Idle      == [op |-> "none"]

Row(i)    == <<"row", i>>
Service   == <<"service", 0>>
Chain     == <<"chain", 0>>      \* the tenant's audit_chain_state row
Locks     == {Row(i) : i \in Values} \cup {Service, Chain}

Statuses  == {"active", "superseded", "revoked"}
Rows      == [kv : Versions, scheme : Schemes, status : Statuses]
Stored    == [value : Values, scheme : Schemes, is_current : BOOLEAN]

Writing   == [op : {"create", "rotate"}, scheme : Schemes, value : Values,
              stage : {"put", "putting", "sweep", "lock", "insert", "commit"},
              kv : 0..MaxWrites, seen : SUBSET Values]
Revoking  == [op : {"delete"}, row : Values, stage : {"mark", "commit"}]
Removing  == [op : {"delete_service"}, stage : {"chain", "rows", "service"}]

TypeOK ==
  /\ exists \in BOOLEAN
  /\ ckv \in 0..MaxWrites
  /\ rows \in [Values -> Rows \cup {NoRow}]
  /\ writes \in 0..MaxWrites
  /\ req \in [Requests -> {Idle} \cup Writing \cup Revoking \cup Removing]
  /\ held \in [Requests -> SUBSET Locks]
  /\ vault \in [Versions -> Stored \cup {NoVersion}]
  /\ answers \in SUBSET [value : Values, kv : Versions]

Init ==
  /\ exists = TRUE
  /\ ckv = 0
  /\ rows = [i \in Values |-> NoRow]
  /\ writes = 0
  /\ req = [x \in Requests |-> Idle]
  /\ held = [x \in Requests |-> {}]
  /\ vault = [v \in Versions |-> NoVersion]
  /\ answers = {}

-----------------------------------------------------------------------------
(* PostgreSQL, as admin-api's transactions meet it.                        *)

Present       == {i \in Values : rows[i] # NoRow}
Active(s)     == {i \in Present : rows[i].status = "active" /\ rows[i].scheme = s}
StoredVersions == {v \in Versions : vault[v] # NoVersion}

(* The locks the next statement of a request needs.                        *)
Wants(x) ==
  IF req[x] = Idle THEN {}
  ELSE CASE req[x].stage = "lock"    -> {Row(i) : i \in req[x].seen}
         [] req[x].stage = "mark"    -> {Row(req[x].row)}
         [] req[x].stage = "rows"    -> {Row(i) : i \in Present}
         [] req[x].stage \in {"insert", "service"} -> {Service}
         [] req[x].stage \in {"commit", "chain"}   -> {Chain}
         [] OTHER                    -> {}

Blocks(y, x) == y # x /\ Wants(x) \cap held[y] # {}
Granted(x)   == \A y \in Requests : ~Blocks(y, x)

(* A cycle of waiting transactions, which deadlock_timeout finds.          *)
Deadlocked(x) ==
  \E S \in SUBSET Requests :
    /\ x \in S
    /\ \A y \in S : (\E z \in S : Blocks(z, y)) /\ (\E z \in S : Blocks(y, z))

(* A plausible slip: a session that is never closed.                       *)
EndLeaksLocks(x) == req' = [req EXCEPT ![x] = Idle] /\ UNCHANGED held

(* get_db_session: a commit or a rollback ends the request and its locks.  *)
End(x) ==
  /\ req' = [req EXCEPT ![x] = Idle]
  /\ held' = [held EXCEPT ![x] = {}]

Rollback(x) ==
  /\ req[x] # Idle
  /\ End(x)
  /\ UNCHANGED <<exists, ckv, rows, writes, vault, answers>>

Goto(x, stage) == req' = [req EXCEPT ![x].stage = stage]
Take(x, locks) == held' = [held EXCEPT ![x] = @ \cup locks]

-----------------------------------------------------------------------------
(* create_credential and rotate_credential, up to the vault.               *)

Submit(x, op, s) ==
  /\ req[x] = Idle /\ exists /\ writes < MaxWrites
  /\ writes' = writes + 1
  /\ req' = [req EXCEPT ![x] =
       [op |-> op, scheme |-> s, value |-> writes + 1, stage |-> "put",
        kv |-> 0, seen |-> {}]]
  /\ UNCHANGED <<exists, ckv, rows, held, vault, answers>>

create_credential(x, s) == Submit(x, "create", s)

(* Rotation needs an active row of the scheme, named or not; 404 without.  *)
rotate_credential(x, s) == Active(s) # {} /\ Submit(x, "rotate", s)

MaxVersion ==
  CHOOSE n \in 0..MaxWrites :
    /\ n = 0 \/ n \in StoredVersions
    /\ \A v \in StoredVersions : v <= n

(* PostgresStore.Put: the advisory lock, then MAX(key_version) + 1.  The   *)
(* lock is held until the commit, so the unique constraint on key_version  *)
(* is never met.                                                           *)
PutBegin(x) ==
  /\ req[x] # Idle /\ req[x].stage = "put"
  /\ \A y \in Requests : req[y] # Idle => req[y].stage # "putting"
  /\ req' = [req EXCEPT ![x].stage = "putting",
                        ![x].kv = MaxVersion + 1]
  /\ UNCHANGED <<exists, ckv, rows, writes, held, vault, answers>>

(* A plausible slip: the insert without the demotion.                      *)
PutCommitKeepsOld(x) ==
  /\ req[x] # Idle /\ req[x].stage = "putting"
  /\ vault' = [vault EXCEPT ![req[x].kv] =
       [value |-> req[x].value, scheme |-> req[x].scheme, is_current |-> TRUE]]
  /\ Goto(x, "sweep")
  /\ UNCHANGED <<exists, ckv, rows, writes, held, answers>>

(* The current version is demoted and the new one inserted in one commit.  *)
PutCommit(x) ==
  /\ req[x] # Idle /\ req[x].stage = "putting"
  /\ vault' = [v \in Versions |->
       IF v = req[x].kv
         THEN [value |-> req[x].value, scheme |-> req[x].scheme, is_current |-> TRUE]
         ELSE IF vault[v] = NoVersion THEN NoVersion
         ELSE [vault[v] EXCEPT !.is_current = FALSE]]
  /\ Goto(x, "sweep")
  /\ UNCHANGED <<exists, ckv, rows, writes, held, answers>>

-----------------------------------------------------------------------------
(* create_credential and rotate_credential, in admin-api's database.       *)

(* UPDATE ... WHERE status = 'active': the statement's snapshot, ...       *)
SweepBegin(x) ==
  /\ req[x] # Idle /\ req[x].stage = "sweep"
  /\ req' = [req EXCEPT ![x].stage = "lock", ![x].seen = Active(req[x].scheme)]
  /\ UNCHANGED <<exists, ckv, rows, writes, held, vault, answers>>

(* A plausible slip: the rows are updated by id, as they were read.        *)
SweepRowsById(x) ==
  /\ req[x] # Idle /\ req[x].stage = "lock" /\ Granted(x)
  /\ Goto(x, "insert") /\ Take(x, {Row(i) : i \in req[x].seen})
  /\ UNCHANGED <<exists, ckv, rows, writes, vault, answers>>

(* ... then the locks; a row that was changed meanwhile is looked at again *)
(* and left alone unless it is still active.                               *)
SweepRows(x) ==
  /\ req[x] # Idle /\ req[x].stage = "lock" /\ Granted(x)
  /\ LET swept == req[x].seen \cap Active(req[x].scheme)
     IN /\ req' = [req EXCEPT ![x].stage = "insert", ![x].seen = swept]
        /\ Take(x, {Row(i) : i \in swept})
  /\ UNCHANGED <<exists, ckv, rows, writes, vault, answers>>

(* INSERT INTO credentials, which fails on the foreign key once the        *)
(* service is gone, and UPDATE services.                                   *)
InsertRow(x) ==
  /\ req[x] # Idle /\ req[x].stage = "insert" /\ Granted(x)
  /\ exists
  /\ Goto(x, "commit") /\ Take(x, {Service})
  /\ UNCHANGED <<exists, ckv, rows, writes, vault, answers>>

InsertFails(x) ==
  /\ req[x] # Idle /\ req[x].stage = "insert" /\ Granted(x)
  /\ ~exists
  /\ Rollback(x)

(* A plausible slip: the handler asks the vault again which version is     *)
(* current instead of using the one its Put returned.                      *)
CommitAnswersLatest(x) ==
  /\ req[x] # Idle /\ req[x].stage = "commit" /\ Granted(x)
  /\ req[x].op \in {"create", "rotate"}
  /\ rows' = [i \in Values |->
       IF i = req[x].value
         THEN [kv |-> MaxVersion, scheme |-> req[x].scheme, status |-> "active"]
       ELSE IF i \in req[x].seen THEN [rows[i] EXCEPT !.status = "superseded"]
       ELSE rows[i]]
  /\ ckv' = MaxVersion
  /\ answers' = answers \cup {[value |-> req[x].value, kv |-> MaxVersion]}
  /\ End(x)
  /\ UNCHANGED <<exists, writes, vault>>

(* audit_emit locks the tenant's chain until the commit, which publishes   *)
(* the swept rows, the new row and current_key_version together.           *)
CommitWrite(x) ==
  /\ req[x] # Idle /\ req[x].stage = "commit" /\ Granted(x)
  /\ req[x].op \in {"create", "rotate"}
  /\ rows' = [i \in Values |->
       IF i = req[x].value
         THEN [kv |-> req[x].kv, scheme |-> req[x].scheme, status |-> "active"]
       ELSE IF i \in req[x].seen THEN [rows[i] EXCEPT !.status = "superseded"]
       ELSE rows[i]]
  /\ ckv' = req[x].kv
  /\ answers' = answers \cup {[value |-> req[x].value, kv |-> req[x].kv]}
  /\ End(x)
  /\ UNCHANGED <<exists, writes, vault>>

-----------------------------------------------------------------------------
(* delete_credential_version: 404 without a row, 409 for a revoked one.    *)
(* The vault is not told.                                                  *)

delete_credential_version(x, i) ==
  /\ req[x] = Idle /\ i \in Present /\ rows[i].status # "revoked"
  /\ req' = [req EXCEPT ![x] = [op |-> "delete", row |-> i, stage |-> "mark"]]
  /\ UNCHANGED <<exists, ckv, rows, writes, held, vault, answers>>

MarkRevoked(x) ==
  /\ req[x] # Idle /\ req[x].stage = "mark" /\ Granted(x)
  /\ Goto(x, "commit") /\ Take(x, {Row(req[x].row)})
  /\ UNCHANGED <<exists, ckv, rows, writes, vault, answers>>

CommitRevoke(x) ==
  /\ req[x] # Idle /\ req[x].stage = "commit" /\ Granted(x)
  /\ req[x].op = "delete"
  /\ rows' = [rows EXCEPT ![req[x].row] =
                IF @ = NoRow THEN NoRow ELSE [@ EXCEPT !.status = "revoked"]]
  /\ End(x)
  /\ UNCHANGED <<exists, ckv, writes, vault, answers>>

-----------------------------------------------------------------------------
(* delete_service: the first audit_emit locks the chain before the         *)
(* credentials and the service are deleted.  The vault keeps its versions. *)
(* Nothing checks that the service is there: it may be deleted twice.      *)

delete_service(x) ==
  /\ req[x] = Idle
  /\ req' = [req EXCEPT ![x] = [op |-> "delete_service", stage |-> "chain"]]
  /\ UNCHANGED <<exists, ckv, rows, writes, held, vault, answers>>

LockChain(x) ==
  /\ req[x] # Idle /\ req[x].stage = "chain" /\ Granted(x)
  /\ Goto(x, "rows") /\ Take(x, {Chain})
  /\ UNCHANGED <<exists, ckv, rows, writes, vault, answers>>

DeleteRows(x) ==
  /\ req[x] # Idle /\ req[x].stage = "rows" /\ Granted(x)
  /\ Goto(x, "service") /\ Take(x, {Row(i) : i \in Present})
  /\ UNCHANGED <<exists, ckv, rows, writes, vault, answers>>

CommitDelete(x) ==
  /\ req[x] # Idle /\ req[x].stage = "service" /\ Granted(x)
  /\ exists' = FALSE
  /\ rows' = [i \in Values |-> IF Row(i) \in held[x] THEN NoRow ELSE rows[i]]
  /\ End(x)
  /\ UNCHANGED <<ckv, writes, vault, answers>>

-----------------------------------------------------------------------------
(* VaultService.GetCredential as the proxies call it, with key_version 0:  *)
(* one SELECT of the row that is_current, so a call is given the result as *)
(* of some moment between its start and its end; none means an error.      *)
(* (The DEK cache is filled on the way, but only calls that name a version *)
(* read it, and no caller in the repository names one.)                    *)

GetCredential == {[kv |-> v, value |-> vault[v].value] :
                    v \in {w \in StoredVersions : vault[w].is_current}}

-----------------------------------------------------------------------------

Step(x) ==
  \/ PutBegin(x) \/ PutCommit(x) \/ SweepBegin(x) \/ SweepRows(x)
  \/ InsertRow(x) \/ InsertFails(x) \/ CommitWrite(x)
  \/ MarkRevoked(x) \/ CommitRevoke(x)
  \/ LockChain(x) \/ DeleteRows(x) \/ CommitDelete(x)

(* PostgreSQL cancels one transaction of a deadlock.                       *)
Cancel(x) == Deadlocked(x) /\ Rollback(x)

(* The vault or the database fails the request, or the client goes away.   *)
Fail(x) == Aborts /\ Rollback(x)

Next ==
  \E x \in Requests :
       \/ \E s \in Schemes : create_credential(x, s) \/ rotate_credential(x, s)
       \/ \E i \in Values : delete_credential_version(x, i)
       \/ delete_service(x)
       \/ Step(x) \/ Cancel(x) \/ Fail(x)

Spec == Init /\ [][Next]_vars

(* uvicorn keeps running every request; PostgreSQL grants a lock to those  *)
(* who wait for it in turn, and resolves deadlocks.                        *)
FairSpec == Spec /\ \A x \in Requests : SF_vars(Step(x)) /\ WF_vars(Cancel(x))

-----------------------------------------------------------------------------
(* At most one version is current, it is the newest one, and there is one  *)
(* as soon as a version is stored, however Puts overlap and fail: what     *)
(* PostgresStore.Get relies on when it filters on is_current alone.        *)
OneCurrent ==
  \A v \in StoredVersions :
    vault[v].is_current <=> \A w \in StoredVersions : w <= v

(* The key_version a 200 or 201 response gives is the one under which the  *)
(* vault holds the value that request submitted, and while the service is  *)
(* there the metadata row of that request says so too.                     *)
AnswerStored ==
  \A a \in answers :
    /\ a.kv \in StoredVersions /\ vault[a.kv].value = a.value
    /\ exists => a.value \in Present /\ rows[a.value].kv = a.kv

(* The sweep of one request and the insert of another never leave a scheme *)
(* that has credentials, none of them revoked, without an active row.      *)
SchemeKeepsActive ==
  \A s \in Schemes :
    LET of == {i \in Present : rows[i].scheme = s}
    IN of # {} /\ (\A i \in of : rows[i].status # "revoked") => Active(s) # {}

(* Both stores are well formed after any overlap of Puts, sweeps, failures  *)
(* and deletions (PostgresStore.Put, register_credential,                  *)
(* rotate_credential).                                                     *)
StoreConsistent == TypeOK /\ OneCurrent /\ SchemeKeepsActive

(* A call that begins after an operator was told of a version is given     *)
(* that version or a newer one, so the rotation of one operator is never   *)
(* undone by another's that overlaps it, nor by one that fails half way:   *)
(* the vault's part of "subsequent proxy hits use the new value"           *)
(* (03-quality-attributes.md, S-OPS-2).                                    *)
ServedFresh ==
  \A a \in answers : \E g \in GetCredential : g.kv > a.kv \/ g = a

(* What an operator was answered holds: in the vault, in the metadata rows  *)
(* and in what a call that begins afterwards is given.                     *)
AnswersHold == AnswerStored /\ ServedFresh

(* A revoked row stays revoked until the service is deleted, whatever      *)
(* sweeps were waiting for it when it was revoked.                         *)
RevokedStays ==
  [][\A i \in Present :
       rows[i].status = "revoked" => rows'[i] = rows[i] \/ ~exists']_vars

(* Whatever locks they wait for, all requests are answered.                *)
EveryRequestAnswered == \A x \in Requests : req[x] # Idle ~> req[x] = Idle

=============================================================================
