----------------------------- MODULE AuditChain -----------------------------
(***************************************************************************)
(* The audit sink: the per-tenant hash chain kept in Postgres by           *)
(* packages/python/mintkey-models (audit.py, audit_hash.py), the admin-api *)
(* handlers that write to it, the seed job that starts the default         *)
(* tenant's chain and the audit-verify-job that checks every chain.        *)
(*                                                                         *)
(* Each request runs in one database transaction (db/deps.py).  A          *)
(* transaction is the list of the statements it still has to run; it sees  *)
(* its own writes, everybody else sees them at Commit, and its locks are   *)
(* held until it ends.  A SHA-256 hash is what it was computed over: the   *)
(* seed of its chain and the contents of the events hashed so far.         *)
(***************************************************************************)
EXTENDS Naturals, Sequences, FiniteSets

CONSTANTS
    Requests,     \* requests that may be open at once
    Tenants,      \* slugs a tenant may be created under
    Default,      \* the slug of the tenant the seed job inserts
    System,       \* the all-zero tenant id of platform-level events
    Keys,         \* rows of service_api_keys of the default tenant
    Services,     \* callers with a service token
    Rps,          \* MINTKEY_AUDIT_EMIT_RATE_LIMIT_RPS, 0 disables the limit
    MaxEvents,    \* bound on the events of all chains
    Handlers,     \* the request kinds the environment sends
    Faults        \* subset of {"abort", "alter", "reseed"}

ASSUME ConstantsOK ==
    /\ Default \in Tenants
    /\ System \notin Tenants
    /\ Rps \in Nat
    /\ MaxEvents \in Nat
    /\ Tenants \cap Keys = {}
    /\ Keys \cap {"event", "edited"} = {}

VARIABLES
    seedpc,       \* next step of the seed job, "idle" when it is not running
    operators,    \* the bootstrap operator exists: requests can be made
    tenants,      \* committed rows of tenants
    head,         \* committed audit_chain_state.head_hash, NoRow if absent
    events,       \* committed rows of audit_events
    revoked,      \* committed service_api_keys rows with revoked_at set
    tokens,       \* the rate limiter's bucket per service token
    txn,          \* the open transaction of each request
    answer,       \* the last answer of each request slot: kind, status, and the key or tenant it is about
    job,          \* the audit-verify-job: its chains, those left to read, result so far
    altered       \* history: somebody edited a stored row

database == <<tenants, head, events, revoked>>
vars == <<seedpc, operators, tenants, head, events, revoked, tokens, txn, answer, job, altered>>

-----------------------------------------------------------------------------
(* Hashes and rows                                                         *)

TenantIds == Tenants \cup {System}
Bodies == Keys \cup {"event", "edited"}

Contents == (1 .. MaxEvents) \X TenantIds \X Bodies
Seeds == [form : {"uuid", "wire", "zero", "none"}, tenant : TenantIds]
Hashes == [seed : Seeds, over : Seq(Contents)]

\* audit_hash.genesis_hash over the tenant's database id.
genesis_hash(t) == [seed |-> [form |-> "uuid", tenant |-> t], over |-> <<>>]

\* tenants._genesis_hash over the "tenant_<ULID>" wire id of the new tenant.
wire_genesis(t) == [seed |-> [form |-> "wire", tenant |-> t], over |-> <<>>]

\* The 32 zero bytes audit_emit uses when there is no chain-state row.
ZeroHash == [seed |-> [form |-> "zero", tenant |-> System], over |-> <<>>]
NoRow == [seed |-> [form |-> "none", tenant |-> System], over |-> <<>>]

\* chain_hash(canonical_json_bytes(fields), prev).
chain_hash(content, prev) == [prev EXCEPT !.over = Append(@, content)]

Rows == [id : 1 .. MaxEvents, tenant : TenantIds, body : Bodies,
         prev : Hashes, hash : Hashes, extra : BOOLEAN]

event_hash(r) == chain_hash(<<r.id, r.tenant, r.body>>, r.prev)

-----------------------------------------------------------------------------
(* Verification: audit_hash.verify_events on the rows in list order        *)

\* The checks an event fails: its hash, or a column the hash does not cover.
RejectsNoExtra(e) == event_hash(e) # e.hash
Rejects(e) == event_hash(e) # e.hash \/ e.extra

\* One step of the walk from p (the current hash, the visited positions, and
\* whether an event's own check failed): the first row chained to the hash.
WalkStep(rows, p) ==
    LET next == {i \in DOMAIN rows : i \notin p.seen /\ rows[i].prev = p.cur}
        i    == CHOOSE j \in next : \A k \in next : j <= k
    IN  IF p.bad \/ next = {} THEN p
        ELSE IF Rejects(rows[i]) THEN [p EXCEPT !.bad = TRUE]
        ELSE [cur |-> rows[i].hash, seen |-> p.seen \cup {i}, bad |-> FALSE]

\* The walk begins at the genesis hash and takes a step per row.
Walk(rows) ==
    LET w[n \in 0 .. Len(rows)] ==
          IF n = 0 THEN [cur |-> genesis_hash(rows[1].tenant), seen |-> {}, bad |-> FALSE]
          ELSE WalkStep(rows, w[n - 1])
    IN  w[Len(rows)]

VerifyInListOrder(rows) ==
    \A i \in DOMAIN rows :
        /\ ~Rejects(rows[i])
        /\ rows[i].prev = IF i = 1 THEN genesis_hash(rows[1].tenant) ELSE rows[i - 1].hash

verify_events(rows) ==
    \/ rows = <<>>
    \/ LET w == Walk(rows) IN ~w.bad /\ w.seen = DOMAIN rows

RowsOf(t) == {r \in events : r.tenant = t}

\* The rows of a tenant in every order a SELECT could return them in.
Orders(S) == {f \in [1 .. Cardinality(S) -> S] : \A i, j \in DOMAIN f : f[i] = f[j] => i = j}

\* ORDER BY at, id: the ids here grow with the time of the INSERT.
InOrder(S) == CHOOSE f \in Orders(S) : \A i, j \in DOMAIN f : i < j => f[i].id <= f[j].id

VerifyTenant(t) == verify_events(InOrder(RowsOf(t)))

-----------------------------------------------------------------------------
(* Transactions                                                            *)

NoAnswer == [kind |-> "none", code |-> 0, subject |-> System]

NoTxn == [kind |-> "idle", subject |-> System, todo |-> <<>>, stage |-> "lock", locks |-> {}, prev |-> NoRow,
          mine |-> [t \in TenantIds |-> NoRow], rows |-> {}, made |-> {}, revokes |-> {}]

Idle(x) == txn[x].kind = "idle"
Next_(x, op) == txn[x].todo # <<>> /\ txn[x].todo[1][1] = op
Arg(x) == txn[x].todo[1][2]
What(x) == txn[x].todo[1][3]

\* The lock the next statement needs: pg_advisory_xact_lock(tenant) (with the
\* FOR UPDATE of the tenant's chain-state row), the key's row, or the slug's
\* entry in the unique index.
Wanted(x) ==
    IF Next_(x, "audit") /\ txn[x].stage # "lock" THEN {} ELSE
    IF txn[x].todo = <<>> THEN {} ELSE {<<txn[x].todo[1][1], Arg(x)>>}

Blocker(x, y) == y # x /\ Wanted(x) \cap txn[y].locks # {}
Free(x) == \A y \in Requests : ~Blocker(x, y)

\* Ids of rows already inserted, committed or not.
UsedIds == {r.id : r \in events \cup UNION {txn[x].rows : x \in Requests}}

Answer(x, code) ==
    answer' = [answer EXCEPT ![x] =
                 [kind |-> txn[x].kind, code |-> code, subject |-> txn[x].subject]]

\* A new request about subject: its transaction has the statements ops to run.
Open(x, kind, subject, ops) ==
    /\ txn' = [txn EXCEPT ![x] =
                 [NoTxn EXCEPT !.kind = kind, !.subject = subject, !.todo = ops]]
    /\ answer' = [answer EXCEPT ![x] = NoAnswer]

\* The request is answered without a write.
Refuse(x, kind, subject, code) ==
    /\ answer' = [answer EXCEPT ![x] = [kind |-> kind, code |-> code, subject |-> subject]]
    /\ UNCHANGED txn

Room == Cardinality(events) + Cardinality({x \in Requests : ~Idle(x)}) < MaxEvents

Request(x, kind) == operators /\ Room /\ Idle(x) /\ kind \in Handlers

\* AuditEmitRateLimiter.try_acquire: refill by the time passed, take one.
try_acquire(s, ok) ==
    \/ Rps = 0 /\ ok /\ UNCHANGED tokens
    \/ /\ Rps > 0
       /\ \E have \in tokens[s] .. Rps :
            /\ ok = (have >= 1)
            /\ tokens' = [tokens EXCEPT ![s] = IF ok THEN have - 1 ELSE have]

\* What POST /v1/internal/audit/emit makes of a request of each class.
Verdict == [system |-> 200, member |-> 200, foreign |-> 403, phantom |-> 403,
            badtype |-> 422, badtenant |-> 422]

audit_emit_endpoint(x, t, class) ==
    /\ Request(x, "emit")
    /\ \/ Refuse(x, "emit", System, 401) /\ UNCHANGED tokens
       \/ \E s \in Services :
            \/ try_acquire(s, FALSE) /\ Refuse(x, "emit", System, 429)
            \/ /\ try_acquire(s, TRUE)
               /\ IF Verdict[class] = 200
                  THEN Open(x, "emit", System, <<<<"audit", t, "event">>>>)
                  ELSE Refuse(x, "emit", System, Verdict[class])
    /\ UNCHANGED <<seedpc, operators, database, job, altered>>

\* POST /v1/internal/proxy-hit of a classical-key request: the event first,
\* then last_used_at of the key's row.
proxy_hit(x, k) ==
    /\ Request(x, "hit")
    /\ Open(x, "hit", System, <<<<"audit", Default, "event">>, <<"row", k, "used">>>>)
    /\ UNCHANGED <<seedpc, operators, database, tokens, job, altered>>

\* POST .../api-keys/{kid}/revoke: the row first, then the event.
revoke_api_key(x, k) ==
    /\ Request(x, "revoke")
    /\ IF k \in revoked
       THEN Refuse(x, "revoke", k, 200)
       ELSE Open(x, "revoke", k, <<<<"row", k, "revoke">>, <<"audit", Default, k>>>>)
    /\ UNCHANGED <<seedpc, operators, database, tokens, job, altered>>

\* POST /v1/tenants.
create_tenant(x, t) ==
    /\ Request(x, "create")
    /\ Open(x, "create", t, <<<<"tenant", t, "insert">>, <<"audit", t, "event">>>>)
    /\ UNCHANGED <<seedpc, operators, database, tokens, job, altered>>

\* POST /v1/admin/audit/verify-chain: platform_admin.access goes to the
\* system tenant; the chain is then read and checked before the answer, which
\* changes nothing.
verify_chain_endpoint(x) ==
    /\ Request(x, "verify")
    /\ Open(x, "verify", System, <<<<"audit", System, "event">>>>)
    /\ UNCHANGED <<seedpc, operators, database, tokens, job, altered>>

\* POST /v1/admin/audit/acknowledge-tamper: audit_emit is given the tenant id
\* as text, which has no bytes to take the lock key from.
acknowledge_tamper(x, t) ==
    /\ Request(x, "ack")
    /\ Refuse(x, "ack", System, IF t \in tenants THEN 500 ELSE 404)
    /\ UNCHANGED <<seedpc, operators, database, tokens, job, altered>>

\* audit_emit step 1, and the lock of an UPDATE or of a unique-index entry.
Acquire(x) == [txn[x] EXCEPT !.locks = @ \cup Wanted(x)]

audit_lock(x) ==
    /\ Next_(x, "audit") /\ txn[x].stage = "lock" /\ Free(x)
    /\ txn' = [txn EXCEPT ![x] = [Acquire(x) EXCEPT !.stage = "read"]]
    /\ UNCHANGED <<seedpc, operators, database, tokens, answer, job, altered>>

\* The chain-state row as this transaction sees it.
HeadSeen(x, t) == IF txn[x].mine[t] # NoRow THEN txn[x].mine[t] ELSE head[t]

\* audit_emit step 2: SELECT head_hash ... FOR UPDATE.
audit_read(x) ==
    /\ Next_(x, "audit") /\ txn[x].stage = "read"
    /\ LET h == HeadSeen(x, Arg(x))
       IN  txn' = [txn EXCEPT ![x].stage = "write",
                              ![x].prev = IF h = NoRow THEN ZeroHash ELSE h]
    /\ UNCHANGED <<seedpc, operators, database, tokens, answer, job, altered>>

NewRow(x, i) ==
    LET content == <<i, Arg(x), What(x)>>
    IN  [id |-> i, tenant |-> Arg(x), body |-> What(x), prev |-> txn[x].prev,
         hash |-> chain_hash(content, txn[x].prev), extra |-> FALSE]

\* audit_emit step 6: UPDATE audit_chain_state, nothing without a row.
NewHead(x, r) ==
    IF HeadSeen(x, r.tenant) = NoRow THEN txn[x].mine
    ELSE [txn[x].mine EXCEPT ![r.tenant] = r.hash]

RollbackKeepsLocks(x, code) ==
    txn' = [txn EXCEPT ![x] = [NoTxn EXCEPT !.locks = txn[x].locks]] /\ Answer(x, code)

\* The handler raised or answered an error: session.begin() rolls back.
Rollback(x, code) == txn' = [txn EXCEPT ![x] = NoTxn] /\ Answer(x, code)

\* audit_emit steps 3 to 6; the INSERT fails on the foreign key to tenants.
audit_write(x) ==
    /\ Next_(x, "audit") /\ txn[x].stage = "write"
    /\ IF Arg(x) \in tenants \cup txn[x].made
       THEN /\ \E i \in (1 .. MaxEvents) \ UsedIds :
                 /\ \A j \in 1 .. i - 1 : j \in UsedIds
                 /\ LET r == NewRow(x, i)
                    IN  txn' = [txn EXCEPT ![x] =
                          [txn[x] EXCEPT !.rows = @ \cup {r}, !.mine = NewHead(x, r),
                                         !.todo = Tail(@), !.stage = "lock", !.prev = NoRow]]
            /\ UNCHANGED answer
       ELSE Rollback(x, 500)
    /\ UNCHANGED <<seedpc, operators, database, tokens, job, altered>>

UpdateKeyAutocommit(x) ==
    /\ Next_(x, "row") /\ Free(x)
    /\ txn' = [txn EXCEPT ![x].todo = Tail(@)]
    /\ revoked' = IF What(x) = "revoke" THEN revoked \cup {Arg(x)} ELSE revoked
    /\ UNCHANGED <<seedpc, operators, tenants, head, events, tokens, answer, job, altered>>

\* UPDATE service_api_keys ... WHERE id = k.
update_key(x) ==
    /\ Next_(x, "row") /\ Free(x)
    /\ txn' = [txn EXCEPT ![x] =
          [Acquire(x) EXCEPT !.todo = Tail(@),
                             !.revokes = IF What(x) = "revoke" THEN @ \cup {Arg(x)} ELSE @]]
    /\ UNCHANGED <<seedpc, operators, database, tokens, answer, job, altered>>

\* INSERT INTO tenants (409 if the slug exists) and INSERT INTO
\* audit_chain_state with the genesis hash.
insert_tenant(x) ==
    /\ Next_(x, "tenant") /\ Free(x)
    /\ IF Arg(x) \in tenants
       THEN Rollback(x, 409)
       ELSE /\ txn' = [txn EXCEPT ![x] =
                  [Acquire(x) EXCEPT !.todo = Tail(@), !.made = @ \cup {Arg(x)},
                                     !.mine[Arg(x)] = wire_genesis(Arg(x))]]
            /\ UNCHANGED answer
    /\ UNCHANGED <<seedpc, operators, database, tokens, job, altered>>

\* Mutant: the dependency's default scope, which answers before the COMMIT.
AnswerBeforeCommit(x) ==
    /\ ~Idle(x) /\ txn[x].todo = <<>>
    /\ answer[x] = NoAnswer
    /\ Answer(x, IF txn[x].kind = "create" THEN 201 ELSE 200)
    /\ UNCHANGED <<seedpc, operators, database, tokens, txn, job, altered>>

\* The request's transaction commits before the answer is sent (db/deps.py).
Commit(x) ==
    /\ ~Idle(x) /\ txn[x].todo = <<>>
    /\ tenants' = tenants \cup txn[x].made
    /\ head' = [t \in TenantIds |-> HeadSeen(x, t)]
    /\ events' = events \cup txn[x].rows
    /\ revoked' = revoked \cup txn[x].revokes
    /\ txn' = [txn EXCEPT ![x] = NoTxn]
    /\ Answer(x, IF txn[x].kind = "create" THEN 201 ELSE 200)
    /\ UNCHANGED <<seedpc, operators, tokens, job, altered>>

\* The process or the connection dies: Postgres rolls the transaction back.
Abort(x) ==
    /\ "abort" \in Faults /\ ~Idle(x)
    /\ Rollback(x, 500)
    /\ UNCHANGED <<seedpc, operators, database, tokens, job, altered>>

\* Postgres' deadlock detector ends one transaction of a cycle of waits.
DeadlockAbort(x) ==
    /\ \E S \in SUBSET Requests :
         /\ x \in S
         /\ \A y \in S : \E z \in S : Blocker(y, z)
         /\ \A z \in S : \E y \in S : Blocker(y, z)
    /\ Rollback(x, 500)
    /\ UNCHANGED <<seedpc, operators, database, tokens, job, altered>>

-----------------------------------------------------------------------------
(* The seed job, in autocommit: three separate commits, safe to repeat     *)

seed_default_tenant ==
    /\ seedpc = "tenant"
    /\ tenants' = tenants \cup {Default}
    /\ seedpc' = "chain"
    /\ UNCHANGED <<operators, head, events, revoked, tokens, txn, answer, job, altered>>

SeedChainUpsert ==
    /\ seedpc = "chain"
    /\ head' = [head EXCEPT ![Default] = genesis_hash(Default)]
    /\ seedpc' = "operator"
    /\ UNCHANGED <<operators, tenants, events, revoked, tokens, txn, answer, job, altered>>

seed_audit_chain_state ==
    /\ seedpc = "chain"
    /\ head' = IF head[Default] = NoRow
               THEN [head EXCEPT ![Default] = genesis_hash(Default)] ELSE head
    /\ seedpc' = "operator"
    /\ UNCHANGED <<operators, tenants, events, revoked, tokens, txn, answer, job, altered>>

seed_bootstrap_operator ==
    /\ seedpc = "operator"
    /\ operators' = TRUE
    /\ seedpc' = "idle"
    /\ UNCHANGED <<database, tokens, txn, answer, job, altered>>

\* The job is killed and started again, or run again by the next deployment.
SeedAgain ==
    /\ "reseed" \in Faults
    /\ seedpc' = "tenant"
    /\ UNCHANGED <<operators, database, tokens, txn, answer, job, altered>>

-----------------------------------------------------------------------------
(* The verify job, and edits of the stored rows                            *)

\* main._run lists the tenants, or the one of --tenant-id, then reads and checks
\* one chain at a time.  after: every chain is to be read, and a row was changed.
job_start ==
    /\ job.left = {}
    /\ \E S \in {tenants} \cup {tenants \cap {t} : t \in Tenants} :
         job' = [scope |-> S, left |-> S, ok |-> TRUE, done |-> (S = {}),
                 after |-> altered /\ S = tenants]
    /\ UNCHANGED <<seedpc, operators, database, tokens, txn, answer, altered>>

job_check(t) ==
    /\ t \in job.left
    /\ job' = [job EXCEPT !.left = @ \ {t}, !.ok = @ /\ VerifyTenant(t),
                          !.done = (job.left = {t})]
    /\ UNCHANGED <<seedpc, operators, database, tokens, txn, answer, altered>>

\* Someone with rights on the table changes one column of one stored row.
Alter(r) ==
    /\ "alter" \in Faults /\ ~altered
    /\ \E v \in {[r EXCEPT !.body = "edited"], [r EXCEPT !.extra = TRUE]}
             \cup {[r EXCEPT !.tenant = t] : t \in tenants}
             \cup {[r EXCEPT !.prev = h] : h \in {ZeroHash} \cup {e.hash : e \in events}}
             \cup {[r EXCEPT !.hash = h] : h \in {ZeroHash} \cup {e.hash : e \in events}}
             \cup {[r EXCEPT !.id = i] : i \in (1 .. MaxEvents) \ UsedIds} :
         /\ v # r
         /\ events' = (events \ {r}) \cup {v}
    /\ altered' = TRUE
    /\ UNCHANGED <<seedpc, operators, tenants, head, revoked, tokens, txn, answer, job>>

-----------------------------------------------------------------------------
Init ==
    /\ seedpc = "tenant"
    /\ operators = FALSE
    /\ tenants = {}
    /\ head = [t \in TenantIds |-> NoRow]
    /\ events = {}
    /\ revoked = {}
    /\ tokens = [s \in Services |-> Rps]
    /\ txn = [x \in Requests |-> NoTxn]
    /\ answer = [x \in Requests |-> NoAnswer]
    /\ job = [scope |-> {}, left |-> {}, ok |-> TRUE, done |-> FALSE, after |-> FALSE]
    /\ altered = FALSE

Statement(x) ==
    \/ audit_lock(x)
    \/ audit_read(x)
    \/ audit_write(x)
    \/ update_key(x)
    \/ insert_tenant(x)
    \/ Commit(x)

Handler(x) ==
    \/ \E t \in tenants, c \in DOMAIN Verdict : audit_emit_endpoint(x, t, c)
    \/ \E k \in Keys : proxy_hit(x, k) \/ revoke_api_key(x, k)
    \/ \E t \in Tenants : create_tenant(x, t) \/ acknowledge_tamper(x, t)
    \/ verify_chain_endpoint(x)

Seed == seed_default_tenant \/ seed_audit_chain_state \/ seed_bootstrap_operator

VerifyJob == job_start \/ \E t \in Tenants : job_check(t)

Next ==
    \/ \E x \in Requests : Handler(x)
    \/ \E x \in Requests : Statement(x)
    \/ \E x \in Requests : Abort(x)
    \/ \E x \in Requests : DeadlockAbort(x)
    \/ Seed
    \/ SeedAgain
    \/ VerifyJob
    \/ \E r \in events : Alter(r)

Spec == Init /\ [][Next]_vars

\* A transaction that is not waiting goes on, and one that waits is served in
\* its turn (Postgres queues the waiters of a lock, hence strong fairness); the
\* deadlock detector ends every cycle of waits.
Fairness ==
    /\ \A x \in Requests : SF_vars(Statement(x))
    /\ \A x \in Requests : WF_vars(DeadlockAbort(x))

FairSpec == Spec /\ Fairness

-----------------------------------------------------------------------------
(* Properties                                                              *)

TypeOK ==
    /\ seedpc \in {"tenant", "chain", "operator", "idle"}
    /\ operators \in BOOLEAN
    /\ tenants \subseteq Tenants
    /\ head \in [TenantIds -> Hashes]
    /\ events \subseteq Rows
    /\ revoked \subseteq Keys
    /\ tokens \in [Services -> 0 .. Rps]
    /\ \A x \in Requests :
         /\ txn[x].stage \in {"lock", "read", "write"}
         /\ txn[x].prev \in Hashes
         /\ txn[x].mine \in [TenantIds -> Hashes]
         /\ txn[x].rows \subseteq Rows
         /\ txn[x].made \subseteq Tenants
         /\ txn[x].revokes \subseteq Keys
    /\ job.left \subseteq Tenants
    /\ job.ok \in BOOLEAN
    /\ altered \in BOOLEAN

\* The i-th row of the chain whose head is h.
Link(h, i) ==
    [id |-> h.over[i][1], tenant |-> h.over[i][2], body |-> h.over[i][3],
     prev |-> [h EXCEPT !.over = SubSeq(@, 1, i - 1)],
     hash |-> [h EXCEPT !.over = SubSeq(@, 1, i)], extra |-> FALSE]

\* The committed events of a tenant are one line from the seed of its chain to
\* head_hash: no fork, no gap, nothing off the line, whatever concurrent
\* requests, rollbacks, deadlocks and repeated seed jobs there were
\* (audit_emit's "FOR UPDATE to serialise concurrent writers").
ChainLinear ==
    ~altered => \A t \in TenantIds :
        RowsOf(t) = {Link(head[t], i) : i \in DOMAIN head[t].over}

\* The tables are well formed and every chain in them is one line, as
\* audit_emit, seed_audit_chain_state and create_tenant leave them.
ChainConsistent == TypeOK /\ ChainLinear

\* A key is revoked exactly when its api_key.revoked event is in the chain:
\* the row and the event are committed or rolled back together.
RevokedIffRecorded ==
    ~altered => revoked = {k \in Keys : \E r \in events : r.body = k}

\* A client that was answered 200 or 201 finds what it did: the revoked key is
\* revoked, the new tenant exists and its chain has begun.  (db/deps.py commits
\* "before the response is sent"; with FastAPI's default scope it did not.)
AnsweredIsCommitted ==
    \A x \in Requests :
        /\ answer[x].kind = "revoke" /\ answer[x].code = 200
              => answer[x].subject \in revoked
        /\ answer[x].kind = "create" /\ answer[x].code = 201
              => /\ answer[x].subject \in tenants
                 /\ head[answer[x].subject] # NoRow

\* The verifier finds the untouched chain of the seeded tenant intact, and
\* after one column of any row was changed some chain is reported broken,
\* also when events are appended afterwards and whatever order the rows come
\* in (verify_events follows prev_hash, not the clock of the replicas).
VerifyExact ==
    IF altered THEN \E t \in tenants : \A f \in Orders(RowsOf(t)) : ~verify_events(f)
    ELSE \A f \in Orders(RowsOf(Default)) : verify_events(f)

\* The verify job exits 1 when a row was changed before it started.  Over
\* chains nobody touched it exits 0 exactly when it read no chain but the
\* seeded tenant's: a chain begun by create_tenant starts at the hash of the
\* wire id, from which verify_events cannot follow it.  Requests go on
\* committing, and tenants being created, while the job runs.
JobReports ==
    job.done => /\ job.after => ~job.ok
                /\ ~altered => (job.ok <=> job.scope \subseteq {Default})

\* Every request is answered: a transaction neither waits for ever for a lock
\* nor is left open, although the usage report and the revocation of a key
\* take the key's row and the tenant's chain in opposite orders.
EveryRequestAnswered == \A x \in Requests : ~Idle(x) ~> Idle(x)
=============================================================================
