# Mintkey in TLA+

Mintkey gives AI agents and scripts access to upstream services without giving
them the upstream credentials. An operator registers agents, services,
credentials and grants through `admin-api`; an agent asks the MCP server for a
short-lived token, which the broker signs; the egress proxies (HTTP, SSH, email)
verify the token, fetch the credential from the vault adapter and call upstream.
Everything that happens is recorded in a hash-chained audit log.

This directory holds TLA+ modules for the parts of that system whose correctness
depends on order, concurrency or failure, the configurations under which TLC
checks them, and proofs that TLAPS checks. `PROJECT.json` lists, for every
definition, the source lines it stands for. Paths below are relative to the
repository.

## 1. Inventory

State, operations, neighbours, difficulty and correctness of each part. The
column *Module* names the module that models it or, in italics, the planned one.

| Part | State | Operations | Talks to | What is hard | Correct when | Module |
|---|---|---|---|---|---|---|
| `packages/go/auditq` | WAL file, dead-letter file, memory channel, drainer | Enqueue, drain, settle, compact, replay, Close | audit sink over HTTP | crash at any point, torn writes, compaction under delivery, lost answers, wake-ups, poison events | no event lost, none sent twice without reason, all settled in the end | `AuditQueue` |
| audit chain (`mintkey_models.audit*`, `internal.py`, `audit_admin.py`, seed and verify jobs) | `audit_events`, `audit_chain_state`, rate buckets | emit, proxy-hit, key revocation, tenant creation, verify, seed | Postgres locks and transactions | concurrent writers, opposite lock orders, rollback, repeated seeding, edited rows | one unforked line per tenant, change and event committed together, edits detected | `AuditChain` |
| agents and tokens (`agents.py`, `request_token.py`, broker `issue.go`/`issuer.go`, proxy `changes`, `revocation`, `jwt`) | `agents` rows, issued tokens, two in-memory sets per proxy, LISTEN connection | create, revoke, rotate, delete, validate, issue, notify, evict, verify | NOTIFY channel `mintkey:agent` | lost notifications, restarts, checks before an await, whole-second expiry, full set | what was revoked is refused, and stays refused | `Revocation` |
| API keys, grants and budgets (`api_keys.py`, `permissions.py`, `budgets.py`, proxy `budget`, MCP `describe_service`) | `permission_grants`, `budget_counters`, `service_api_keys`, resolver cache per proxy | grant, patch, revoke, reset, report, resolve, check and count, rotate keys | Postgres, NOTIFY | check and count apart, period boundary, overlapping patches, lost or late invalidation, fail-open reads | no counter above its ceiling; what is shown is what is enforced; a budget is never older than its time to live | `Grants` |
| credentials (`credentials.py`, `services.py`, vault adapter) | versions in the vault, metadata rows, `services.current_key_version`, DEK cache | create, rotate, revoke, delete the service, get | gRPC, Postgres locks, NOTIFY | two stores without a common transaction, sweep and insert as two statements, opposite lock orders | one current version, the newest; an answered version is the one served | `Credentials` |
| services and routes (`services.py`, `credentials.py`, vault join, ssh-proxy `backend.go`) | `base_url`, `target_url`, `target_address`, auth scheme | create, from template, patch with cascade, delete; registration and rotation with carry-over | vault, both proxies | one address in three columns, a cascade that races with a rotation | both proxies dial the address the operators see | `Routing` |
| agent secrets (`agent_secrets.py`, MCP secret tools, vault `agent_secret.go`) | metadata rows, grants, one sealed blob per secret | put, get, list, delete, share, unshare | vault, Postgres | blob and row in two databases, races for a name, keyset listing under change | every live secret can be read, by the right agents only, once gone never again | `AgentSecrets`, `SecretStore` |
| operators, sessions, OIDC (`auth.py`, `operators.py`, `auth/*.py`, `cli.py`) | sessions, login states, operator rows, whoami and key caches per replica | log in, callback, break-glass, whoami, guard, log out | Keycloak | a cache filled by a lookup older than the logout, key rotation, callback sent twice | out is out; a state is used once; a cached role is bounded in age | `Sessions` |
| provisioning (`seed-job/main.py`, `create_operator.py`, `POST /v1/operators`) | rows, Keycloak users and clients, secret files | each write of a run, which may be its last | Postgres, Keycloak, a volume | no common transaction, repeated and overlapping runs | a run that ends has repaired what its consumers read | `Provisioning` |
| email services (`email_services.py`, `oauth2_providers.py`, `email_permission_grants.py`, MCP email tools) | services, provider configuration, `oauth2_state`, vault credentials, grants | create, patch, delete, configure, authorize, callback, refresh, set password, tool call | vault, mail providers, broker | a state row across two remote calls, vault writes a rollback does not undo | a flow completes once, for its own service; credentials fit their service | `EmailAccess` |
| HashiCorp store | KV documents and an index | put, get, delete | KV v2 compare-and-set | index and document written apart, two replicas | the store implements numbered versions | *VaultKV* |
| OAuth2 tokens at the proxy (`token_cache.go`, `oauth2_handler.go`) | token cache, flights | get, exchange, refresh, degrade | token endpoint | shared flight under one caller's context | one exchange per flight, no expired token used | *TokenCache* |
| SSH proxy (`server`, `session`, `recording`, `revocation`) | semaphore, sessions, counts per agent, recorder | accept, create, run, terminate, shut down | broker's JWKS, vault | session created during shutdown, slot held for a connection's life | counts match sessions, shutdown ends | *SshSessions* |
| email proxy | IMAP pools, rate windows | lease, release, rebuild, send | IMAP, SMTP, admin-api | pool rebuilt while connections are out | - | not reachable, see section 7 |
| Kong syncer | last applied configuration, listener | reconcile, listen, tick | Postgres, Kong | change between the first reconcile and LISTEN | Kong converges to the table | *KongSync* |
| MCP discovery cache and subscriber | none (never started) | - | - | - | - | not modelled |
| admin UI, mock backend, Jaeger auth, Liquibase, infra, generated gRPC | - | - | - | front end, test double, deployment, generated code | - | not modelled |

### Interaction

* Go services put audit events in an `auditq`; its drainer posts them to
  `POST /v1/internal/audit/emit`, which appends them to the tenant's chain.
* Every admin-api handler runs in one Postgres transaction that changes rows,
  appends an audit event, and queues a `NOTIFY`; Postgres delivers the
  notification at commit to the sessions listening then. There is no replay.
* Proxies and the vault adapter hold caches and revocation sets that only these
  notifications and the clock change.

## 2. Modules

### AuditQueue (`packages/go/auditq/queue.go`, `compact.go`)

| Model | Code |
|---|---|
| `wal`, `size`, `torn` | the WAL file as lines with offsets counted in lines; `torn` when the last line has no newline |
| `dead`, `deadCut` | the `.dead` file |
| `mem`, `wake`, `waking`, `closing` | `memCh`, `wakeCh`, calls between unlock and `q.wake()`, `stopCh` |
| `pc`, `batch`, `cursor`, `progressed`, `delay` | the drainer goroutine: its batch, the round under way, its back-off |
| `backlog` | the gauge |
| `EnqueueAppends`, `EnqueueHolds`, `Wake` | `Enqueue` when the append succeeds or fails, and its last statement |
| `ReadBatch`, `ReadBatchFails`, `TakeWake`, `StopIdle`, `RoundDone`, `WaitDone`, `WaitStopped`, `PassDone` | `drain` and `readBatch` |
| `SinkAccepts`, `SinkRefuses`, `EmitFails`, `AnswerLost`, `DeadLetter`, `Settle`, `SettleFails` | a delivery goroutine of `deliverRound` |
| `Compact`, `Crash`, `CrashInAppend` | `compact`; the end of the process and `Replay` |

An event is its text, so two equal events are two equal lines, as in the file.
Because offsets are counted in lines, a remembered offset points at *some* line
after a compaction: the hardest case for `locateLineLocked`. The remaining
variables are history used by the properties: what was offered, appended,
accepted, refused and tombstoned, and the faults that entitle an event to a
second delivery.

### AuditChain (`mintkey_models/audit.py`, `audit_hash.py`, `internal.py`, `tenants.py`, `api_keys.py`, `audit_admin.py`, `db/deps.py`, seed and verify jobs)

A request is a transaction with the statements it still has to run. It sees its
own writes, holds its locks until it ends, and publishes its writes at `Commit`.
`audit_emit` is three statements (`audit_lock`, `audit_read`, `audit_write`), so
concurrent requests interleave between them. A SHA-256 value is represented by
what it was computed over (the chain's seed and the contents so far): two values
are equal exactly when the inputs are. `Wanted` gives the lock a statement
needs, `DeadlockAbort` is Postgres' deadlock detector, `Alter` an edit of a
stored row by someone with rights on the table. The verifier's walk is a
recursive function over the rows.

### Revocation (`agents.py`, `publisher.py`, `request_token.py`, `agent_key.py`, `issuer.go`, proxy `changes`, `revocation`, `jwt`, `ServeHTTP`)

Time is in ticks, `PerSecond` to a second, since the JWT's times are whole
seconds and the set's are not. A token carries the ticks left until the proxy
refuses it as expired; a set entry its age. A proxy has a LISTEN connection
(`conn`), the notifications not handled yet (`inbox`), both sets, and the calls
past the gate. `Drop`, `PingFails`, `Stop` and `Start` are its faults. The
variables `handled` (revocations this process has applied) and `outlived`
(requests under way when their agent or key went) are history. Broker and proxy
are assumed to read the same clock; `Skew` is what the verifier grants.

### Credentials (`credentials.py`, `services.py`, vault adapter `store/postgres.go`, `server/vault.go`)

| Model | Code |
|---|---|
| `vault` | `vault.credentials`, by `key_version`: value, scheme, `is_current` |
| `rows`, `ckv`, `exists` | `public.credentials`, `services.current_key_version`, the services row |
| `req`, `held` | the requests under way: the next statement, what its sweep saw, the row locks of its transaction |
| `create_credential`, `rotate_credential`, `PutBegin`, `PutCommit` | the handler up to its gRPC call; `PostgresStore.Put` under the advisory lock, as read and commit |
| `SweepBegin`, `SweepRows`, `InsertRow`, `InsertFails`, `CommitWrite` | the UPDATE (snapshot, then row locks with the condition looked at again), the INSERT with its foreign key and the UPDATE of services, `audit_emit` with the commit |
| `delete_credential_version`, `MarkRevoked`, `CommitRevoke`; `delete_service`, `LockChain`, `DeleteRows`, `CommitDelete` | the two deletions, which take the chain's lock last and first |
| `GetCredential` | what a proxy's `GetCredential` with `key_version` 0 may return now |
| `Cancel`, `Fail`, `Rollback` | Postgres' deadlock detector; a failed or abandoned request |

A written value is known by the order of submission, `answers` is history: what
200 and 201 responses said. The sweep takes its row locks in one step; Postgres
takes them one by one, in the same order for every sweep, so that between two
requests no further deadlock exists. Validation of values, routing hints and event
payloads are left out. `Wants` treats the chain row of `audit_emit` as one lock;
what is written under it is in `AuditChain`.

### Routing (`services.py`, `credentials.py`, vault adapter `postgres.go`, ssh-proxy `backend.go`)

One service. `svc` is its row, `current` the vault's current version with
`target_url` and `target_address`, `active` the schemes with an active metadata
row. `update_service` reads the scheme, `UpdateRow` writes the row with the cascade;
a registration or rotation reads the row, perhaps carries over the current
version's address (`ReadPrior`), and writes (`PutVersion`). `GetCredential` is the vault's join,
`DialTarget` ssh-proxy's choice. History: `want`, what the last committed request
asked of each column; `drift`, the events that let `target_address` differ.

### AgentSecrets and SecretStore (`agent_secrets.py`, MCP `secret_*.py`, `agent_secret.go`)

Writers seal the blob in the vault and then commit the row; deleters purge and
then delete the row; nothing undoes the first half. Each is a request with
stages, so requests interleave between the two databases and may end there.
`secret_list` is a request that takes a page at a time. `SecretStore` is the
abstract specification: a secret's life runs once from new over live to gone, it
becomes live with a value sealed, sharing needs a live secret and another agent
than the owner, and a reader is handed only the value sealed under an id it was
admitted to. `AgentSecrets` instantiates it as `Store` with rows and grants mapped
to `life`, `owner` and `shared`, and readers to the `get` requests;
`ImplementsSecretStore` is the refinement.

### Provisioning (`seed-job/main.py`, `create_operator.py`, `operators.py`)

The stages of a run are its writes in the order of `main()`, each committed by
itself; `JobStops` may end a run after any of them, and inside a file write, which leaves
a torn file. `plan` picks, per behaviour, whose account the script makes and whether the
job is run again. A file or secret is the number of
its generation, which tells a keypair's halves apart. Keycloak may change a client
secret, a person may choose a password, and a redeployment starts a second job at
any time.

### Sessions (`auth.py`, `operators.py`, `auth/sessions.py`, `oidc.py`, `oidc_state.py`, `internal.py`, `cli.py`)

Handlers are coroutines on one of several replicas; a step is what one runs
between two awaits. Sessions, states, the whoami entries and the key caches age
with the clock `now`. `evicted` in a whoami request is the code's mark that its
entry was dropped while it looked. Keycloak rotates and withdraws signing keys. `load`
picks, per behaviour, which of these occur.

### Grants (`permissions.py`, `budgets.py`, `api_keys.py`, MCP `discovery.py`, proxy `budget`)

`grants`, `counters` and `keys` are the tables, `cache` the proxy's resolver cache,
`pending` the notifications on their way, which may be late or lost. Operators'
requests are read and write steps of READ COMMITTED transactions; a call resolves
its budget (through the cache, or by a read it stores later), counts itself with
the atomic upsert and, when that returns nothing, looks a second time. `PeriodBounds`
is `period.go`. `load` picks, per behaviour, which kinds of requests occur.

### EmailAccess (`email_services.py`, `oauth2_providers.py`, `email_permission_grants.py`, MCP `email_*.py`)

`rows` is the `oauth2_state` table and `flow` what each state was issued for; the
callback is `ConsumeState`, `ExchangeCode`, `StoreToken`, `FinishCallback`, with
`Abort` rolling back everything but the vault. The provider hands out codes and
may be asked for consent twice. An email tool looks up the service, then the
grant, then asks the broker. `mix` picks, per behaviour, which kinds of requests
occur. `delete_email_service_credential` is an action that
changes nothing, because the code changes nothing (section 5).

### Composition

The modules share tables. `AuditChain` models the lock on the chain row that
`Credentials` and the transactions of `AgentSecrets`, `Grants` and `EmailAccess`
end with; the latter three take the last statement, the audit event, the NOTIFY
and the commit as one step. `Routing` relies on `Credentials` for the fact that one
version is current. The seed job's first rows race with the chain in `AuditChain`;
all its writes are in `Provisioning`. `Sessions` starts where `Provisioning` ends,
with an operator row.

### Proofs

`AuditQueueProofs`, `AuditChainProofs`, `RevocationProofs`, `CredentialsProofs`,
`RoutingProofs` and `AgentSecretsProofs` each extend the module they are named after;
`OperatorsProofs` extends `Sessions` and `Provisioning`, `AccessProofs` extends `Grants`
and `EmailAccess`. Section 4 gives the arguments.

## 3. Runs

Twelve runs, each a question of its own; all pass. Where the code does not keep a
sentence of the repository, the property states what it does keep and section 5 names
the sentence. `CHECK_DEADLOCK FALSE` is set where the system may come to rest (queue
drained and closed, no request left, quota used up).

| Run | Checks | Instance | Shows |
|---|---|---|---|
| `auditq_safety` | `TypeOK`, `NoEventLost`, `NothingVanishes`, `NoNeedlessDuplicate` | texts a (twice) and r (refused), batch 2, two deliveries at a time, two faults of any kind but a dead-letter file that cannot be opened | crashes, torn writes, compaction and lost answers lose nothing, leave nothing unrecorded and repeat nothing without a reason |
| `auditq_live` | `NoLostWakeup`, `EventsAccounted`, `EventuallySettled`, `CloseEndsDrainer` | one each of a, r and p (always 403), batch 2, two deliveries at a time, memory for three, one fault: append, tombstone, deadopen, lost, crash | the drainer never sleeps on work; gauge and memory add up; an event beside a poison event is settled; Close ends the drainer |
| `auditchain_safety` | `ChainConsistent`, `RevokedIffRecorded`, `AnsweredIsCommitted` | two requests of any kind at a time, verify-chain and acknowledge-tamper included, two tenants, three events, aborts and repeated seeding | no fork; row and event together; a 2xx answer is committed |
| `auditchain_verify` | `VerifyExact`, `JobReports`, `EveryRequestAnswered` | two requests, two tenants of which one is made through the API, three events, one edit of any column, a job over all tenants or one | edits are detected in every row order, also by a job that runs while events are appended and tenants created; over untouched chains the job exits 0 exactly when it reads only the seeded tenant's; opposite lock orders end in answers |
| `revocation` | `TypeOK`, `RevokedRefused`, `OnlyInFlightOutlives`, `RevokedLockedOut` | one agent with two keys, one proxy, two tokens, two ticks to a second, a lifetime below the broker's maximum, a set of one, every fault | an applied revocation is never forgotten; only requests in flight outlive one; a revoked agent is locked out in the end, whatever is lost |
| `credentials` | `StoreConsistent`, `AnswersHold`, `RevokedStays`, `EveryRequestAnswered` | two requests at a time, two schemes, three submitted values, requests that fail at any step | one current version, the newest; an answered version holds its value and is served until a newer one is; sweeps leave an active row and undo no revocation; deadlocks end in answers |
| `agent_secrets` | `SecretsConsistent`, `ReadsSound`, `ImplementsSecretStore` | two requests of any kind, two agents, one name, two ids, three values, pages of one | no live row without its blob; no stale read after an answered write; listings complete under change; the abstract store is implemented |
| `provisioning` | `SeedRepairs`, `OperatorsConsistent`, `ChosenPasswordKept` | two seed jobs that may stop anywhere, inside a file write too, a chown that may be refused, the demo data, the script and the endpoint on the administrator's address or on that of a second person, one client with two secrets | what a job that ends has repaired, and the three things it has not; no operator is half made except by a stop; a chosen password is kept |
| `sessions` | `SessionsConsistent`, `WhoamiBounded`, `RefusalsBounded` | two handlers on two replicas, one session; either its use with one change of role, or two logins with three signing keys that are rotated and withdrawn, the token library failing in either way | logout sticks against a concurrent lookup; a cached role is younger than its time to live; a login is refused for its signature only when the key was withdrawn or is younger than the life of a key cache |
| `grants` | `GrantsConsistent`, `BudgetAge`, `ShownIsEnforced`, `LifetimeBounded` | two operators, two calls, ceilings 1 and 2, two kinds of period of which the longer ones contain the shorter ones, days of two ticks and a policy of one day, one database error, five workloads | counters never pass a ceiling and never outlive their grant; a budget is never stale beyond its time to live; reports equal what the gate enforces; rotation never lengthens a key's life |
| `email` | `CredentialsConsistent`, `FlowExact`, `TokenJustified` | two services, two providers, two states with two consents each, two requests, seven workloads | a flow completes once, for its own service, until it expires; credentials fit; a token needs a live service and a grant, or a grant inserted on a service deleted meanwhile |
| `routing` | `RoutesConsistent`, `AddressInSync` | two addresses, an HTTP and an SSH scheme, two requests | patches do not undo each other; a rotation brings the HTTP route up to date; ssh-proxy follows `base_url`; the cascade keeps `target_address` except in the listed cases |

An invariant named `...Consistent`, `EventsAccounted`, `AnswersHold`, `ReadsSound`
or `FlowExact` is a conjunction of named parts, each with its own comment in the
module: TLC checks every part, `TypeOK` among them.

**Why the bounds are enough.** Queue: two equal texts and one refused text give
every relation between a remembered offset and the line it now finds (its own, an
equal one, another event's, a tombstone, none); two faults allow a fault and a
second one while the first is being recovered from. Chain: two transactions
suffice for a fork or a deadlock; three events give a chain with an inner link.
Revocation: one agent meets itself under two identifier forms and two keys, two
tokens and a set of one reach the full set; two ticks per second put the issue, the
revocation and the eviction on either side of a whole second, where the verifier
truncates and the set does not. The lifetime there is below the maximum, as the fixed
600 s of `request_token.py` are; section 5 says what happens at the maximum. Credentials: two requests
and three values give a sweep that waits for another's commit with a version before
and one after it, two schemes a current version of the other scheme. Agent secrets:
two ids are a winner and a loser of a race for one name, two pages of one row a
cursor; three values the one read, the one that replaced it and one more.
Provisioning: the administrator's address is where all three creators overlap; two
runs are a stopped one and its repair. Sessions: a lookup and a logout on one
replica, or on two; three keys are one withdrawn, one in use and one not in the cache. Grants: two calls and a ceiling of one meet at the ceiling, two
operators overlap in any pair of requests, and four ticks hold a change of either
period, one at a time and both at once. Three ticks are the longest lifetime a policy of
one day of two ticks lets through.
Email: two states of one service and of two, with a second consent each. Routing:
the overlap of a patch or a rotation with one other request, at both addresses.
`Workloads` (in `EmailAccess` `Mixes`, in `Provisioning` `Plans`) names the combinations of
request kinds explored together, one per behaviour. In `Sessions` the use of a session and
the rotation of keys share only the clock and the login between them; in `Provisioning` the second person
shares with the seed job only Keycloak's lists, so the repeated job is explored with the
administrator. Counters that grow in the program are capped by
`Quota`, `MaxFaults`, `MaxEvents`, `MaxKeys`, `MaxInbox`, `MaxWrites`, `MaxIds`,
`MaxGrants`, `MaxRuns`, `MaxSecrets`, `MaxSessions`, `MaxStates`, `MaxTime`,
`MaxChanges`, `MaxClock`, `MaxGen` and `MaxConsents`, and token ids are reused only
once nothing refers to the old one. Symmetry is used for interchangeable requests,
calls and states, and only in runs without liveness: no operator orders or chooses
among them.

**Fairness.** *Queue*: weak fairness of the drainer and of a pending `q.wake()`
(the Go scheduler runs a goroutine that can run; a delivery ends by the client's
10 s timeout). The sink is assumed to answer an event it can settle if offered
again and again (strong fairness): it may be unreachable any number of times, but
not for ever. No fairness on `Enqueue`, `Close`, `Compact` or faults. *Chain*:
strong fairness of a transaction's next statement, because Postgres serves the
waiters of a lock in the order they came, and weak fairness of the deadlock
detector, which runs after `deadlock_timeout`. *Credentials*: the same, of each
request's next statement and of the cancellation; requests need not fail, and no
operator need submit one. *Revocation*: the clock advances and a call
past the gate ends; the listener may stay away for good, the subscriber and the MCP
server may stand still.

## 4. Proofs

`AuditQueueProofs` proves, for any texts, batch size, concurrency, memory, fault
set and number of faults (`SettingsAssumption`, `EnvironmentAssumption`):

* `TypeCorrect`: `Spec => []TypeOK`. `TypeOK` includes the finiteness of the file,
  the batch and the memory, without which no cardinality below means anything, and
  the bound of the back-off delay.
* `EventsNeverLost`: `Spec => []NoEventLost`.

`NoEventLost` is not inductive: it says nothing about the lines a settling
goroutine is about to tombstone. The inductive invariant counts, per text: lines
appended are live or tombstoned (`tombed`), and every tombstone is backed by an
answer of the sink not yet used by another, where an entry of the batch in state
`ok`, `refused` or `dead` still owns its answer. Each action moves one unit from
one term to another. The lemmas `FileAccounted` (appending a line),
`TombsAccounted` (turning one live line into a tombstone) and `CompactAccounted`
(compaction maps kept lines one to one, so their number per text is unchanged)
carry the cardinality arguments; `FiniteImage` supplies finiteness of images.

* `WakeupsNeverLost`: `Spec => []NoLostWakeup`, under `CleanFile` (reads succeed and
  a failed append leaves no torn line). After a `readBatch` that could not open the
  file, or when a compaction completes a torn last line, the drainer does sleep on an
  event until the next `Enqueue` (section 5). The invariant `Awake` adds that the last
  line has its newline; the argument is that `readBatch` returns a non-empty batch
  whenever a line is pending (`PendingIsRead`, from `FirstLine`), so the drainer
  goes idle only on an empty WAL, and that whoever appends afterwards still
  has its wake to send.
* `RecordsNeverMissing`: `Spec => []NothingVanishes`, under `DeadLettersOpen` (when the
  dead-letter file cannot be opened the code logs it and settles the event all the
  same). The invariant `Recorded` is finer than `NoEventLost`'s: a tombstone uses
  up a 2xx answer or a dead-letter record, not just an answer
  (`TombsRecorded`), and a compaction records every cut line it drops (`CutsRecorded`).
* `DuplicatesExcused`: `Spec => []NoNeedlessDuplicate`, for all constants. The
  invariant `Thrifty` balances, per text, what the sink answered and what it will
  still be sent against what was enqueued and what has an excuse (`DeliveriesOwed`).
  It needs the discipline of a pass (`Disciplined`): entries are busy only inside a
  round, an idle drainer has no batch, entries are distinct, memory keeps its order,
  and each unsettled WAL entry has its own live line, also after a
  compaction moved it (`LinesForEntries`, lemmas `CompactLive` and `SettleLine`).
* `EventsNeverOutOfSight`: `Spec => []EventsAccounted`, under `CleanFile` and
  `RoomInMemory` (`MaxFaults <= MemCap`: `memCh` holds every event whose append can
  fail; a full `memCh` drops the event and logs it). The invariant `Sighted` adds to
  `Disciplined` and the property that the last line has its newline and that memory
  and batch hold at most one event per fault, so `returnMemory` finds a slot for
  each event it puts back (`SlotsFree`, `ReturnExact`).

The hypotheses are those of the runs: the faults they exclude are the ones the
runs of these invariants leave out, and with them the invariants fail.

`RevocationProofs` proves, for any sets of agents, proxies, requests, calls,
tokens and identifier forms, any lifetimes, skew, clock resolution, capacity,
bounds and faults (`TimeAssumption`, `BoundAssumption`, `NameAssumption`):

* `TypeCorrect`: `Spec => []TypeOK`.
* `RevokedStaysRefused`: `Spec => []RevokedRefused`, under the hypothesis
  `ShortLived` that every lifetime asked of the broker is below its maximum. The
  hypothesis cannot be dropped when the clock is finer than a second: see the token's
  last second in section 5.
* `OnlyInFlight`: `Spec => []OnlyInFlightOutlives`.

`RevokedRefused` speaks of the calls that were admitted, not of why the next one
will not be. The inductive invariant `IInv` adds: a handled agent is in the set
in canonical form (`AgentsKept`); a handled token is in the set or has expired
(`TokensKept`); what is left of a token in the set plus the age of its entry is at
most the retention (`EntriesOutlast`), which makes `Evict` safe, since a tick
takes one from the first and adds one to the second; no token is valid for longer
than the retention (`TokensBounded`, where `ShortLived` is used, by the lemma
`TimeFacts`); and an id not issued yet is in no set and no inbox
(`FreshUnknown`), so that an entry is never older than its token.
`OnlyInFlight` strengthens its property to `ReadCurrent`, which holds from the
moment the key is read, not only after the verification.

The other six modules are laid out alike: the inductive invariant first (`IInv`, in
`OperatorsProofs` also `ProvInv`, in `AccessProofs` also `EmailInv`), each part with a
comment; lemmas about the data; one lemma per action, `... keeps the invariant`; the
initial states, the next-state relation and the theorems. Each was checked by TLC on the
configuration of its run before it was proved. All hold for any number of concurrent
requests.

`AuditChainProofs` (`ConstantsOK`: the tenant, key and body names do not clash):

* `ChainsStayLinear`: `Spec => []ChainConsistent`; `RevocationsRecorded`:
  `Spec => []RevokedIffRecorded`; `AnswersAreCommitted`: `Spec => []AnsweredIsCommitted`.
* `VerifierIsExact`: `Spec => []VerifyExact`.
* `JobTellsTheTruth`: `Spec => []JobReports`, for all tenants: a job that began after a
  change and reads the changed chain fails, and over untouched chains a job succeeds
  exactly when it reads no chain but the seeded tenant's. A tenant made through the API
  starts its chain where `verify_events` does not, and the job fails on a chain nobody
  touched (section 5).

The properties speak of committed rows, so the invariant has to say what a
transaction will commit. `Plan` gives, per handler, the statements still to run and
what is already done for each list; `Reads` says that a transaction past `audit_lock`
holds the lock of its chain and that after `audit_read` its `prev` is still the
committed head, or the genesis it has written itself; `Links` that the row it has written is
the link after that head; `Locks` that no lock has two holders and a tenant being made is
nobody else's; `Seeded` that requests begin only when every tenant has a head. With
these `Commit` appends exactly one link to the line (`CommitRow`, and `RowLinks`: a
row with its own hash is the link after its predecessor).

What the verifier computes is an induction over the rows. `Walk` is a recursive
function of the number of rows visited, with one iteration, `WalkStep`, as an operator
of its own; that the function exists (`WalkExists`), that the walk visits every row of
an order once and that a row it rejects stays rejected (`StepVisits`, `VisitedPass`,
`TamperFound`) and that it follows a line of links to its end (`ChainFollowed`) are
inductions on a set of naturals, by `Climb`: a set that has 0 and each successor is
`Nat`, from a least element, which the library's well-founded order on finite sets
gives. `Audited` adds to the invariant (`Stored`) that a changed row stays in a chain the
verifier reads and is rejected there, that the seeded chain starts at its genesis hash
and every other at the hash of its wire id with at least one event, and that a job which
began after the change has failed or still has the changed row before it. What a job
over untouched chains has found so far follows from where they start: the walk of a
chain begun at another hash stops at its first event.

`CredentialsProofs` (`BoundAssumption`, `AbortAssumption`):

* `StoreStaysConsistent`: `Spec => []StoreConsistent`; `AnswersAlwaysHold`:
  `Spec => []AnswersHold`; `RevocationsStick`: `Spec => RevokedStays`, the action
  property.

The versions stored are a prefix 1..n (`Prefix`), a Put between its `MAX` and its
commit is the only one and its number is n + 1 (`PutsExclusive`), values and
requests are one to one (`ValuesApart`, `WritersApart`, `PutsStored`): this is why one
version is current and the answered one holds the value. The rows a sweep has seen
are locked and active until its commit (`SweptHeld`, `RevokedHeld`, `DeletedHeld`,
`LocksExclusive`): this is why no sweep undoes a revocation and no scheme is left
without an active row.

`AgentSecretsProofs` (`SizeAssumption`, `NobodyAssumption`):

* `SecretsStayConsistent`: `Spec => []SecretsConsistent`; `ReadsStaySound`:
  `Spec => []ReadsSound`.
* `RefinesSecretStore`: `Spec => ImplementsSecretStore`. The initial states map to
  initial states, and with the invariant every action is a step of `SecretStore` or
  leaves its variables alone, action by action.

`RowInv` is about the secrets: the id being created is its request's alone and has
no row, the blob is sealed before the row is inserted, who purges has doomed the
secret, and a secret once gone does not come back. `ReadInv` is about the values: each is
submitted once and for one secret (`ValuesApart`), and what an answered write
replaced is sealed nowhere and will not be again (`ReplacedForGood`). `PagesComplete`
says of a listing that what was visible at every page was shown or lies behind the
cursor. That a page, the n smallest ids, exists in a finite set is proved from the
library's facts on finite sets.

`RoutingProofs` (`RoutingAssumption`):

* `RoutesStayConsistent`: `Spec => []RoutesConsistent`; `AddressStaysInSync`:
  `Spec => []AddressInSync`.

What a request brings along has to be in sync before it writes: its `base_url` is the
row's unless a PATCH has moved it since (`ReadUrl`), and the address it carries over
is the row's unless one of the four events behind `drift` happened (`BroughtInSync`).

`OperatorsProofs`, about `Sessions` (`TimeAssumption`):

* `SessionsStayConsistent`: `Spec => []SessionsConsistent`; `WhoamiStaysBounded`:
  `Spec => []WhoamiBounded`; `RefusalsStayBounded`: `Spec => RefusalsBounded`, an action
  property.

A session logged out has no row and is not minted again (`OutForGood`); a lookup past
its check when the logout was answered carries the mark (`LookupsMarked`); a login
state is in the table, in one handler, or used (`StatesApart`); what is cached was
true at its stamp or later, what a lookup found at its start or later (`EntriesTrue`,
`LookupsTrue`): the stamp is the start, so the bound follows. A cached key set goes back
at least to the oldest key in use, and a key it lacks came into use no earlier than it was
fetched (`KeySetTrue`): a failure without a refresh can only hit a withdrawn key or one
younger than the cache, whichever errors the library raises.

`OperatorsProofs`, about `Provisioning`, for any people, clients, runs and generations
of a secret (`AdminAssumption`, `DemoAssumption`, `RunAssumption`):

* `SeedJobRepairs`: `ProvSpec => []SeedRepairs`; `OperatorsStayConsistent`:
  `ProvSpec => []OperatorsConsistent`; `ChosenPasswordsKept`:
  `ProvSpec => ChosenPasswordKept`, the action property.

`SeedRepairs` speaks of the end of a run. `ProvInv` says of each stage what the run has
behind it, and so what a stopped run leaves for the next one: the rows (`RowsMade`), the
clients already visited by the loop under way (`ClientsMade`), the password file, the
user and the sentinel (`AdminMade`), a keypair whose public half is written over none
and after its private half, or torn (`KeypairMade`). `PersonMade` does the same for
`create_operator.py`. `Gaps` strengthens `NoSilentGap`: who is half made is the person
a run is at, between exactly those two writes.

`AccessProofs`, about `Grants` (`BudgetAssumption`):

* `GrantsStayConsistent`: `Spec => []GrantsConsistent`; `BudgetsStayYoung`:
  `Spec => []BudgetAge`; `ShownStaysEnforced`: `Spec => []ShownIsEnforced`;
  `LifetimesStayBounded`: `Spec => []LifetimeBounded`. The assumption on periods,
  `PeriodAssumption`, is only that every instant lies between two successive starts, so
  hours, days, weeks and months of any length are covered.

`CountersInv`: a row's grant exists, it began no later than now, and its ceiling and
its count are at most the highest ceiling it has had. `CeilingsInv`: a row of the
current period that was written with the grant's budget still has the grant's
ceiling. It survives `Tick` because the start of the period either stays or is the new
time (`PeriodFacts`), and no row begins in the future. `UniqueInv`: without an overlap one grant
request at a time is past its check, and its action is not granted. `AnswersInv`: an
answer is stamped no later than it was read, for the cache and for the call that
will store it. `KeysInv`: a key's remaining life at its creation is within `MaxLife`, what
`_check_policy` lets through (the policy and the part of a day it does not see), which
rotation copies.

`AccessProofs`, about `EmailAccess`, for any services, providers, states, agents and
requests (`EmailAssumption`, and `NoneAssumption`: the null value is no row):

* `SecretsBelong`: `EmailSpec => []CredentialsConsistent`; `FlowsExact`:
  `EmailSpec => []FlowExact`; `TokensJustified`: `EmailSpec => []TokenJustified`.

`EmailInv` says of each request in progress what its next step relies on. A callback
past `ConsumeState` is for its flow's service, its row is still there for everybody
else (`CallbackOK`), and no two callbacks hold one row (`HeldOnce`): this is why a flow
completes once (`StatesOnce`) and why a token reaches only the service consented to
(`EntriesFit`, `RefreshOK`). A password on its way is for a service of its scheme,
which no operation changes (`SetOK`). A configure call between its two writes has its
secret in the vault unless another came between (`ConfigureOK`), so the id it saves
matches. A tool call whose pair has a grant, or which has found one, has seen it while
the service was live, or the grant came after the service was gone (`ToolOK`). `RequestMoves` and `RequestsStay` show once what every
step leaves in order.

**Only model-checked.** What holds under fairness (`EventuallySettled`,
`CloseEndsDrainer`, `EveryRequestAnswered`, `RevokedLockedOut`): liveness and `ENABLED`
are out of the prover's reach. Every invariant and every action property of the
passing runs is a theorem.

## 5. Observed

The runs check what the code does. Where that differs from what a comment, a
document or a reader would expect, the properties above say what still holds, and
this section says what does not. Each was met while modelling, at the named line.

*Audit.* `readBatch` always takes the first `batchSize` pending lines: when all are
answered 403 for ever, later events are never read (`queue.go:671`); with two poison
events and a batch of two `EventuallySettled` fails. A refused event whose
dead-letter record cannot be written is tombstoned all the same (`queue.go:512`); one
failed read of the WAL puts the drainer to sleep on pending events (`queue.go:642`);
an event in memory is dropped when `memCh` filled up during the pass
(`queue.go:781`): the passing runs leave out exactly these faults. The genesis of a
tenant created through the API is computed over its wire id and verified over its
database id, so its chain never verifies (`tenants.py:193`, `audit_hash.py:173`, against
ADR-0014.7 and against `audit-verify-job/main.py:6`, "Exits 0 if all chains are intact").
`verify-chain` records its access under a tenant that does not exist and ends in 500
(`platform_admin_audit.py:66`); `acknowledge-tamper` ends in 500 for every existing
tenant (`audit_admin.py:134`); the verifier does not compare the last hash with
`head_hash`, so events missing from the end go unnoticed (`audit_hash.py:224`).

*Tokens.* The nil notification after a reconnect is ignored and nothing is re-read,
so a revocation committed while the connection was down is not applied
(`subscriber.go:104`, against S-OPS-1's five seconds); the token is refused when it
expires. A failed ping ends the subscriber for good (`subscriber.go:115`). Expiry is
compared in whole seconds and retention is not, so a token of the maximum lifetime
can outlive its entry in the revocation set by up to a second (`jti_set.go:9-11` says it
cannot).
Two overlapping key rotations of an agent both answer a key and one of them is dead
(`agents.py:641`). No key of admin-api resolves at the broker: `verifyPassword`
compares a static-salt hash with a PHC string.

*Credentials and routes.* The sweep of a registration runs on a snapshot that lacks
the row an overlapping one is about to commit: two active rows for one scheme, until
the next write (`credentials.py:658`; `SchemeKeepsActive` shows that there is never
none). Deleting a version or a service does not tell the vault
(`credentials.py:1385`), and `delete_credential_version` accepts the current version,
which `openapi.yaml` says it refuses. `update_service` never writes `target_url`, so
the HTTP proxy goes to the old address until the next rotation, although ADR-0023
calls `base_url` the routing address of HTTP services; the cascade can be undone by a
rotation that read the old address; a PATCH of a missing service still cascades and
records `service.updated` before it answers 404. The HTTP proxy's OAuth2 token cache
keeps a token for up to a day after a rotation.

*Grants.* A call at a full counter passes when the second look finds another open row
of the grant, left from another period (`budget.go:89`). Overlapping grant requests
make duplicate rows where the docstring promises 409; overlapping PATCHes lose
updates; `reset_budget` of `budgets.py` is shadowed by the route in `permissions.py`;
`get_api_key` never answers "expired" while the list does; `rotate_api_key` does not
look at `revoked_at`; a config cached before a rollover opens the new period with the
old ceiling; threshold alerts recompute the period after counting. `_check_policy`
compares `(expires_at - now).days`, which drops the part of a day, so a key may live
almost a day longer than `max_expiry_days` (`api_keys.py:178`, against
`.kiro/specs/long-lived-api-keys/requirements.md:178`).
`get_permission_budget` shows the last period counted in, also after it has ended, until
a call opens the next one; at the instant between two periods both rows are open,
because the bounds of `BETWEEN` are inclusive.

*Secrets, operators, email.* Two overwrites of a secret write the version they read
plus one, not `version + 1` in SQL (`agent_secrets.py:491`). A seed job stopped
between the operator's row and its membership is never repaired by a re-run, nor is a
`create_operator.py` stopped before the password (`NoSilentGap` excludes exactly those
people, `cut`); a re-run with the demo inserts the demo rows again. A stop inside
`write_bytes` leaves a public key file that passes `exists()` on every later run
(`main.py:385-387`); the chown of the password file is best effort, so admin-ui may be
unable to read it (`main.py:1014`); and when a run stops after the administrator's row
and before its password file is whole, no later run makes the password again
(`main.py:204-205`): with no file they go on without it, with a torn one they fail at the
decryption. `SeedRepairs` names these three cases. A library error other than
`JoseError`, such as authlib's `ValueError` for an unknown key id, is answered 401 without
the forced refresh of the keys (`oidc.py:215`, `auth.py:324-333`), so after a rotation
logins may fail for as long as the key cache lives. authlib is not in the repository, and
the model lets every failure take either way.
`delete_email_service_credential` never removes a credential: it writes an empty one,
which the vault refuses (502), or takes a failed read for "not there" (204);
`delete_oauth2_provider` likewise leaves the client secret. A callback stores a token
for a service deleted meanwhile, and a grant request that looked before the deletion
inserts its grant after it (`email_permission_grants.py:121`): an agent whose call had
looked up the service earlier still gets its token. The email proxy's permission check calls an endpoint
that wants an operator's session, so each of its operations ends in 503; and its
OAuth2 manager always asks for provider "gmail".

Four exemptions inside properties mark cases that do happen: `torn` in `ConfigPair` (client
id and secret of overlapping or broken configure calls), `drift` in `AddressInSync` and
`moved` in `SshDialsBaseUrl` (the cascade racing a rotation), and `overtaken` in
`TokenJustified`. The properties show that the damage is confined to them.

### Hazards of parts without a module

`refreshJWKS` replaces the key map while requests read it (`proxy-plugin/main.go:1321`);
concurrent misses share one OAuth2 exchange under the first caller's context
(`oauth2_handler.go:164`); the SSH server's handshake slot is held for the life of the
connection (`server.go:240`), a session created during shutdown is missed
(`session.go:132`), and its LISTEN client is a stub (`packages/go/changes/subscriber.go:154`);
a connection leased before a credential change returns to the rebuilt IMAP pool
(`pool.go:107`).

## 6. Plan

In order of importance, with the composition and theorems each brings:

1. `AuditQueue`, `AuditChain`, `Revocation`, `Credentials`, `AgentSecrets` with
   `SecretStore`, `Provisioning`, `Sessions`, `Grants`, `EmailAccess`, `Routing`, and
   the proofs of section 4 - done.
2. `TokenCache`: the proxy's OAuth2 token cache, shared exchanges and rotation.
3. `SshSessions`, `KongSync`.
4. `VaultKV`: the HashiCorp store's index and documents.

## 7. Not modelled, and why

Cryptography (signatures, Argon2, AES-GCM), telemetry, HTTP and mail protocol
details, JSON canonicalisation: functions without state whose failure modes are
not reachable by exploring interleavings. The admin UI: a client of admin-api. The
MCP server's change subscriber and discovery cache: never instantiated. The broker's
key resolution and the proxy's cache of resolved keys, the email proxy's pool, rate
limiter and token manager: behind checks that always refuse in the composed system
(section 5). Database migrations: they define the tables the modules start from.
Endpoints that only read, validation of inputs, and the test calls (`test_service`,
`test-transient`, `proxy.py`), which change nothing but the audit log. The end-to-end
scripts under `scripts/`. Everything else that is not modelled yet is in the plan, and
in `PROJECT.json` under its component.
