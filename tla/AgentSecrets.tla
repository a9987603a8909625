---------------------------- MODULE AgentSecrets ----------------------------
(***************************************************************************)
(* The secrets agents keep: named values an agent stores for itself, or an *)
(* operator provisions for it, and shares read-only with other agents.     *)
(*                                                                         *)
(*   admin-api   api/agent_secrets.py, for operators                       *)
(*   mcp-server  tools/secret_put, secret_get, secret_delete, secret_list, *)
(*               for agents                                                *)
(*   vault       store/agent_secret.go: one sealed blob per secret id      *)
(*                                                                         *)
(* The blob and the metadata row are in two databases.  Writers seal the   *)
(* blob first and commit the row after, deleters purge the blob first and  *)
(* delete the row after; nothing undoes the first step when the second     *)
(* does not happen.  A request is a record with the stage it is at; the    *)
(* last statement of its transaction, the audit event and the commit are   *)
(* one step, since nobody sees the statement's effect earlier and a        *)
(* statement that had to wait for a row looks at it again.  A request that *)
(* is refused on its first read (422, 404, 409) changes nothing and is not *)
(* an action.                                                              *)
(***************************************************************************)
EXTENDS Naturals, FiniteSets

CONSTANTS Requests,   \* requests under way at a time, of both servers
          Agents,
          Names,      \* names of secrets
          Nobody,     \* no agent: the operator, where an agent would stand
          MaxIds,     \* bound: secret ids minted
          MaxWrites,  \* bound: values submitted
          MaxGrants,  \* bound: grant ids minted
          PageSize,   \* the limit of a listing
          Ops         \* the operations of this instance

ASSUME SizeAssumption ==
  MaxIds \in Nat /\ MaxWrites \in Nat /\ MaxGrants \in Nat /\ PageSize \in Nat \ {0}
ASSUME NobodyAssumption == Nobody \notin Agents

Ids      == 1..MaxIds
Values   == 1..MaxWrites
GrantIds == 1..MaxGrants

VARIABLES
  rows,     \* agent_secrets, by id
  grants,   \* agent_secret_grants
  blob,     \* vault.agent_secrets: the value sealed under an id, or 0
  used,     \* ids minted
  writes,   \* values submitted
  minted,   \* grant ids minted
  req,      \* the requests
  gone,     \* ids whose row was deleted
  answered, \* values of writes that were answered 200 or 201, by id
  doomed,   \* ids someone asked to delete
  over      \* values an answered write replaced that began after their answer

history == <<gone, doomed, answered, over>>
counters == <<used, writes, minted>>
vars == <<rows, grants, blob, used, writes, minted, req, gone, doomed, answered, over>>

NoRow == [version |-> 0]
Idle  == [op |-> "none"]

Rows   == [agent : Agents, name : Names, version : 1..(MaxWrites + 1)]
Grants == [gid : GrantIds, id : Ids, to : Agents]
Shown  == [id : Ids, access : {"owner", "shared"}]

Writing  == [op : {"create", "update"}, by : Agents \cup {Nobody}, id : Ids, agent : Agents,
             name : Names, value : Values, version : 1..(MaxWrites + 1),
             stage : {"put", "write", "cleanup"}, before : SUBSET Values]
Deleting == [op : {"delete"}, id : Ids, stage : {"purge", "remove"}]
Sharing  == [op : {"share"}, id : Ids, to : Agents, stage : {"insert"}]
Reading  == [op : {"get"}, who : Agents, id : Ids, stage : {"unseal", "got"},
             value : 0..MaxWrites, stale : SUBSET Values]
Listing  == [op : {"list"}, who : Agents \cup {Nobody}, stage : {"page", "listed"},
             after : 0..MaxIds, shown : SUBSET Shown, always : SUBSET Ids]

TypeOK ==
  /\ rows \in [Ids -> Rows \cup {NoRow}]
  /\ grants \in SUBSET Grants
  /\ blob \in [Ids -> 0..MaxWrites]
  /\ used \in SUBSET Ids
  /\ writes \in 0..MaxWrites
  /\ minted \in 0..MaxGrants
  /\ req \in [Requests -> {Idle} \cup Writing \cup Deleting \cup Sharing \cup Reading \cup Listing]
  /\ gone \in SUBSET Ids
  /\ answered \in [Ids -> SUBSET Values]
  /\ doomed \in SUBSET Ids
  /\ over \in SUBSET Values

Init ==
  /\ rows = [i \in Ids |-> NoRow]
  /\ grants = {}
  /\ blob = [i \in Ids |-> 0]
  /\ used = {}
  /\ writes = 0
  /\ minted = 0
  /\ req = [x \in Requests |-> Idle]
  /\ gone = {}
  /\ answered = [i \in Ids |-> {}]
  /\ doomed = {}
  /\ over = {}

Present  == {i \in Ids : rows[i] # NoRow}
Named(a, n) == {i \in Present : rows[i].agent = a /\ rows[i].name = n}
At(x, op, stage) == req[x].op = op /\ req[x].stage = stage
Goto(x, stage) == req' = [req EXCEPT ![x].stage = stage]
Done(x) == req' = [req EXCEPT ![x] = Idle]

-----------------------------------------------------------------------------
(* Writers, up to the vault.                                               *)

Submit(x, op, by, i, a, n, ver) ==
  /\ writes < MaxWrites
  /\ writes' = writes + 1
  /\ req' = [req EXCEPT ![x] =
       [op |-> op, by |-> by, id |-> i, agent |-> a, name |-> n, value |-> writes + 1,
        version |-> ver, stage |-> "put",
        before |-> answered[i]]]
  /\ UNCHANGED <<rows, grants, blob, minted, history>>

(* The first store of a name: a fresh UUID, which sorts anywhere.          *)
SubmitNew(x, by, a, n) ==
  \E i \in Ids \ used : used' = used \cup {i} /\ Submit(x, "create", by, i, a, n, 1)

(* The version a writer will record is one more than the one it reads now. *)
SubmitOver(x, by, i) ==
  Submit(x, "update", by, i, rows[i].agent, rows[i].name, rows[i].version + 1)
  /\ UNCHANGED used

create_agent_secret(x, a, n) ==
  /\ req[x] = Idle /\ Named(a, n) = {}
  /\ SubmitNew(x, Nobody, a, n)

update_agent_secret(x, i) ==
  /\ req[x] = Idle /\ i \in Present
  /\ SubmitOver(x, Nobody, i)

secret_put(x, a, n) ==
  /\ req[x] = Idle
  /\ \/ Named(a, n) = {} /\ SubmitNew(x, a, a, n)
     \/ \E i \in Named(a, n) : SubmitOver(x, a, i)

(* PutAgentSecret: an upsert under the bare id, in a transaction of its    *)
(* own.                                                                    *)
PutAgentSecret(x) ==
  /\ req[x].op \in {"create", "update"} /\ req[x].stage = "put"
  /\ blob' = [blob EXCEPT ![req[x].id] = req[x].value]
  /\ Goto(x, "write")
  /\ UNCHANGED <<rows, grants, counters, history>>

-----------------------------------------------------------------------------
(* Writers, in the metadata.                                               *)

Answer(x) ==
  /\ over' = over \cup req[x].before
  /\ answered' = [answered EXCEPT ![req[x].id] = @ \cup {req[x].value}]
  /\ Done(x)

(* INSERT INTO agent_secrets, unique on (tenant_id, agent_id, name).       *)
InsertSecret(x) ==
  /\ At(x, "create", "write") /\ Named(req[x].agent, req[x].name) = {}
  /\ rows' = [rows EXCEPT ![req[x].id] =
       [agent |-> req[x].agent, name |-> req[x].name, version |-> 1]]
  /\ Answer(x)
  /\ UNCHANGED <<grants, blob, counters, gone, doomed>>

(* Another writer committed the name since the pre-check.  The operator's  *)
(* handler purges its own blob; the agent's tool answers 500 and does not. *)
InsertDuplicate(x) ==
  /\ At(x, "create", "write") /\ Named(req[x].agent, req[x].name) # {}
  /\ IF req[x].by = Nobody THEN Goto(x, "cleanup") ELSE Done(x)
  /\ UNCHANGED <<rows, grants, blob, counters, history>>

(* Mutant: the purge hits the row that won the name.                       *)
CleanupWinner(x) ==
  /\ At(x, "create", "cleanup")
  /\ blob' = [i \in Ids |-> IF i \in Named(req[x].agent, req[x].name) THEN 0 ELSE blob[i]]
  /\ Done(x)
  /\ UNCHANGED <<rows, grants, counters, history>>

Cleanup(x) ==
  /\ At(x, "create", "cleanup")
  /\ blob' = [blob EXCEPT ![req[x].id] = 0]
  /\ Done(x)
  /\ UNCHANGED <<rows, grants, counters, history>>

(* Mutant: an upsert of the row in place of the update.                    *)
UpdateUpserts(x) ==
  /\ At(x, "update", "write")
  /\ rows' = [rows EXCEPT ![req[x].id] =
       [agent |-> req[x].agent, name |-> req[x].name, version |-> req[x].version]]
  /\ Answer(x)
  /\ UNCHANGED <<grants, blob, counters, gone, doomed>>

(* UPDATE ... SET version = the number computed from the first read.  A    *)
(* row that was deleted meanwhile stays deleted, and the answer is 200 all *)
(* the same.                                                               *)
UpdateSecret(x) ==
  /\ At(x, "update", "write")
  /\ rows' = [rows EXCEPT ![req[x].id] =
       IF req[x].id \in Present THEN [@ EXCEPT !.version = req[x].version] ELSE @]
  /\ Answer(x)
  /\ UNCHANGED <<grants, blob, counters, gone, doomed>>

-----------------------------------------------------------------------------
(* Deletion: by an operator, or by the owner.                              *)

Delete(x, i) ==
  /\ req[x] = Idle /\ i \in Present
  /\ req' = [req EXCEPT ![x] = [op |-> "delete", id |-> i, stage |-> "purge"]]
  /\ doomed' = doomed \cup {i}
  /\ UNCHANGED <<rows, grants, blob, counters, gone, answered, over>>

delete_agent_secret(x, i) == Delete(x, i)

secret_delete(x, a, i) == i \in Present /\ rows[i].agent = a /\ Delete(x, i)

DeleteAgentSecret(x) ==
  /\ At(x, "delete", "purge")
  /\ blob' = [blob EXCEPT ![req[x].id] = 0]
  /\ Goto(x, "remove")
  /\ UNCHANGED <<rows, grants, counters, history>>

(* DELETE FROM agent_secrets; the foreign key takes the grants along.      *)
Remove(x) ==
  /\ At(x, "delete", "remove")
  /\ gone' = IF req[x].id \in Present THEN gone \cup {req[x].id} ELSE gone
  /\ rows' = [rows EXCEPT ![req[x].id] = NoRow]
  /\ grants' = {g \in grants : g.id # req[x].id}
  /\ Done(x)
  /\ UNCHANGED <<blob, counters, doomed, answered, over>>

-----------------------------------------------------------------------------
(* Share grants.                                                           *)

create_agent_secret_grant(x, i, a) ==
  /\ req[x] = Idle /\ i \in Present /\ a # rows[i].agent /\ minted < MaxGrants
  /\ req' = [req EXCEPT ![x] = [op |-> "share", id |-> i, to |-> a, stage |-> "insert"]]
  /\ UNCHANGED <<rows, grants, blob, counters, history>>

Shared(i, a) == \E g \in grants : g.id = i /\ g.to = a

(* INSERT INTO agent_secret_grants, unique on (secret_id,                  *)
(* recipient_agent_id) and with a foreign key on the secret.               *)
InsertGrant(x) ==
  /\ At(x, "share", "insert") /\ minted < MaxGrants
  /\ minted' = minted + 1
  /\ IF req[x].id \in Present /\ ~Shared(req[x].id, req[x].to)
       THEN grants' = grants \cup {[gid |-> minted + 1, id |-> req[x].id, to |-> req[x].to]}
       ELSE UNCHANGED grants
  /\ Done(x)
  /\ UNCHANGED <<rows, blob, used, writes, history>>

(* The row fetched before the DELETE only feeds the event.                 *)
delete_agent_secret_grant(x, g) ==
  /\ req[x] = Idle /\ g \in grants
  /\ grants' = grants \ {g}
  /\ UNCHANGED <<rows, blob, counters, req, history>>

-----------------------------------------------------------------------------
(* Readers.                                                                *)

MayRead(a, i) == i \in Present /\ (rows[i].agent = a \/ Shared(i, a))

secret_get(x, a, i) ==
  /\ req[x] = Idle /\ MayRead(a, i)
  /\ req' = [req EXCEPT ![x] =
       [op |-> "get", who |-> a, id |-> i, stage |-> "unseal", value |-> 0, stale |-> over]]
  /\ UNCHANGED <<rows, grants, blob, counters, history>>

(* A blob that is not there is answered 404.                               *)
GetAgentSecret(x) ==
  /\ At(x, "get", "unseal")
  /\ IF blob[req[x].id] = 0
       THEN Done(x)
       ELSE req' = [req EXCEPT ![x].stage = "got", ![x].value = blob[req[x].id]]
  /\ UNCHANGED <<rows, grants, blob, counters, history>>

(* The two halves of secret_list's UNION ALL, and the operator's listing.  *)
Owned(a)     == {[id |-> i, access |-> "owner"] : i \in {j \in Present : rows[j].agent = a}}
SharedWith(a) == {[id |-> g.id, access |-> "shared"] : g \in {h \in grants : h.to = a}}
AllSecrets   == {[id |-> i, access |-> "owner"] : i \in Present}
Visible(who) == IF who = Nobody THEN AllSecrets ELSE Owned(who) \cup SharedWith(who)

List(x, who) ==
  /\ req[x] = Idle
  /\ req' = [req EXCEPT ![x] =
       [op |-> "list", who |-> who, stage |-> "page", after |-> 0, shown |-> {}, always |-> Ids]]
  /\ UNCHANGED <<rows, grants, blob, counters, history>>

list_agent_secrets(x) == List(x, Nobody)
secret_list(x, a)     == List(x, a)

(* ORDER BY id LIMIT n.                                                    *)
First(S, n) ==
  CHOOSE P \in SUBSET S :
    /\ Cardinality(P) = IF Cardinality(S) < n THEN Cardinality(S) ELSE n
    /\ \A p \in P, q \in S \ P : p.id <= q.id

LastId(P) == CHOOSE i \in {p.id : p \in P} : \A p \in P : p.id <= i

(* Mutant: the cursor is the extra row that was fetched.                   *)
PageSkips(x) ==
  /\ At(x, "list", "page")
  /\ LET R == {s \in Visible(req[x].who) : s.id > req[x].after}
         more == Cardinality(R) > PageSize
     IN req' = [req EXCEPT
          ![x].shown = @ \cup First(R, PageSize),
          ![x].always = @ \cap {s.id : s \in Visible(req[x].who)},
          ![x].stage = IF more THEN "page" ELSE "listed",
          ![x].after = IF more THEN LastId(First(R, PageSize + 1)) ELSE @]
  /\ UNCHANGED <<rows, grants, blob, counters, history>>

(* One page: the rows past the cursor, one more than the limit fetched to  *)
(* know whether there is another page, the last id shown as its cursor.    *)
Page(x) ==
  /\ At(x, "list", "page")
  /\ LET R == {s \in Visible(req[x].who) : s.id > req[x].after}
         page == First(R, PageSize)
         more == Cardinality(R) > PageSize
     IN req' = [req EXCEPT
          ![x].shown = @ \cup page,
          ![x].always = @ \cap {s.id : s \in Visible(req[x].who)},
          ![x].stage = IF more THEN "page" ELSE "listed",
          ![x].after = IF more THEN LastId(page) ELSE @]
  /\ UNCHANGED <<rows, grants, blob, counters, history>>

Respond(x) ==
  /\ At(x, "get", "got") \/ At(x, "list", "listed")
  /\ Done(x)
  /\ UNCHANGED <<rows, grants, blob, counters, history>>

-----------------------------------------------------------------------------
(* A request may fail at any stage: the vault does not answer, the database *)
(* does not, the server stops.  Its transaction is undone, its vault call   *)
(* is not.                                                                  *)
Rollback(x) ==
  /\ req[x] # Idle
  /\ Done(x)
  /\ UNCHANGED <<rows, grants, blob, counters, history>>

Start(x) ==
  \/ "create" \in Ops /\ \E a \in Agents, n \in Names : create_agent_secret(x, a, n)
  \/ "update" \in Ops /\ \E i \in Ids : update_agent_secret(x, i)
  \/ "put" \in Ops /\ \E a \in Agents, n \in Names : secret_put(x, a, n)
  \/ "delete" \in Ops /\ \E i \in Ids : delete_agent_secret(x, i)
  \/ "secret_delete" \in Ops /\ \E a \in Agents, i \in Ids : secret_delete(x, a, i)
  \/ "grant" \in Ops /\ \E a \in Agents, i \in Ids : create_agent_secret_grant(x, i, a)
  \/ \E g \in grants : delete_agent_secret_grant(x, g)
  \/ "get" \in Ops /\ \E a \in Agents, i \in Ids : secret_get(x, a, i)
  \/ "list" \in Ops /\ (list_agent_secrets(x) \/ \E a \in Agents : secret_list(x, a))

Next ==
  \E x \in Requests :
    \/ Start(x)
    \/ PutAgentSecret(x) \/ InsertSecret(x) \/ InsertDuplicate(x) \/ Cleanup(x) \/ UpdateSecret(x)
    \/ DeleteAgentSecret(x) \/ Remove(x)
    \/ InsertGrant(x)
    \/ GetAgentSecret(x) \/ Page(x) \/ Respond(x)
    \/ Rollback(x)

Spec == Init /\ [][Next]_vars

-----------------------------------------------------------------------------
(* Properties                                                              *)

(* A secret nobody ever asked to delete can be read by whoever finds its   *)
(* row: the races for a name, the clean-ups of the losers and the failures *)
(* between the vault and the row never leave a row without its blob.       *)
ReadableUntilDeleted == \A i \in Present \ doomed : blob[i] # 0

(* secret_get never hands out a value that was replaced, by a write that   *)
(* was answered, before the get began, when the write that stored it had   *)
(* been answered before that one began: the blob is a regular register,    *)
(* although the versions beside it are not.                                *)
NoStaleRead == \A x \in Requests : At(x, "get", "got") => req[x].value \notin req[x].stale

(* Following the cursors of a listing shows every secret that was visible  *)
(* at each of its pages, and none twice, whatever is stored, deleted,      *)
(* shared or unshared between two pages.  UNION ALL would show an owner's  *)
(* secret twice if it could be granted to its owner.                       *)
ListComplete ==
  \A x \in Requests : At(x, "list", "listed") =>
    /\ req[x].always \subseteq {s.id : s \in req[x].shown}
    /\ \A s, t \in req[x].shown : s.id = t.id => s = t

(* No grant outlives its secret, and no pair of a secret and a recipient   *)
(* has two, although the secret may be deleted, or granted by another      *)
(* operator, between create_agent_secret_grant's checks and its insert.    *)
GrantsBacked ==
  /\ \A g \in grants : g.id \in Present
  /\ \A g, h \in grants : (g.id = h.id /\ g.to = h.to) => g = h

(* Rows, blobs and grants stay consistent across the two databases         *)
(* (store_agent_secret, delete_agent_secret, create_agent_secret_grant).   *)
SecretsConsistent == TypeOK /\ ReadableUntilDeleted /\ GrantsBacked

(* What an agent reads is right: a get is never stale, a listing complete  *)
(* (secret_get, secret_list).                                              *)
ReadsSound == NoStaleRead /\ ListComplete

(* The two servers, their transactions and the vault implement SecretStore: *)
(* a deleted secret never comes back, also when an overwrite that began     *)
(* before the deletion ends after it; a row appears only over a sealed      *)
(* value; a reader gets in only as the owner or by a grant that is there,   *)
(* and is handed what is sealed when the vault answers it.                  *)
Store == INSTANCE SecretStore WITH
  Readers <- Requests,
  sealed  <- blob,
  life    <- [i \in Ids |-> IF i \in Present THEN "live" ELSE IF i \in gone THEN "gone" ELSE "new"],
  owner   <- [i \in Ids |-> IF i \in Present THEN rows[i].agent ELSE Nobody],
  shared  <- {<<g.id, g.to>> : g \in grants},
  reading <- [x \in Requests |-> IF req[x].op = "get"
               THEN [id |-> req[x].id, who |-> req[x].who, value |-> req[x].value]
               ELSE [id |-> 0]]

ImplementsSecretStore == Store!AbsSpec

=============================================================================
