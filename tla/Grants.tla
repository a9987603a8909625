------------------------------- MODULE Grants -------------------------------
(***************************************************************************)
(* Permission grants with call budgets, the classical API keys bound to    *)
(* them, and the budget gate of the egress proxy.                          *)
(*                                                                         *)
(* One agent and one service.  The operators' requests run in admin-api    *)
(* (permissions.py, budgets.py, api_keys.py) as READ COMMITTED             *)
(* transactions: a request that reads and later writes is two steps, its   *)
(* last statements, audit event, NOTIFY and commit are one.  A proxied     *)
(* call runs in proxy-plugin: it resolves the grant's budget through a     *)
(* cache with a time to live, counts itself in budget_counters with one    *)
(* atomic upsert and, when that returns no row, looks at the counter again *)
(* in a second transaction.  The change channel may deliver a              *)
(* budget.config_updated late or lose it.                                  *)
(*                                                                         *)
(* Time is a tick counter.  A budget period is one of hourly, daily,        *)
(* weekly and monthly; Starts says at which ticks one begins.              *)
(***************************************************************************)
EXTENDS Integers, Sequences, FiniteSets, FiniteSetsExt

CONSTANTS Ops,        \* operator requests
          Calls,      \* proxied calls
          Actions,    \* grantable actions
          Ceilings,   \* budget ceilings an operator sends
          Starts,     \* period -> the full hours, midnights, Mondays or firsts of months
          Ttl,        \* lifetime of a cached answer, in ticks
          Day,        \* length of a day, in ticks
          MaxDays,    \* the operator policy max_expiry_days
          MaxClock,   \* bound on time
          MaxFaults,  \* bound on database errors met by the proxy
          Workloads   \* sets of request kinds, and errors, that occur together

ASSUME BudgetAssumption ==
  /\ Day \in Nat \ {0} /\ Ttl \in Nat \ {0} /\ Ceilings \subseteq Nat \ {0} /\ MaxDays \in Nat
  /\ MaxClock \in Nat /\ MaxFaults \in Nat

(* Every instant has a last start at or before it and a first one after it. *)
ASSUME PeriodAssumption ==
  \A period \in DOMAIN Starts :
    /\ Starts[period] \subseteq Nat
    /\ \A t \in 0 .. MaxClock : \E s, e \in Starts[period] :
         s <= t /\ t < e /\ \A x \in Starts[period] : x <= s \/ e <= x

VARIABLES clock,     \* now()
          load,      \* the request kinds and errors of this behaviour
          grants,    \* permission_grants rows in the order of created_at; a
                     \* row keeps its index when it is deleted
          counters,  \* budget_counters: (permission_id, period_start) -> row
          keys,      \* service_api_keys rows, likewise
          cache,     \* GrantResolver.cache of the proxy
          pending,   \* budget.config_updated events not yet delivered
          op,        \* the operators' requests
          call,      \* the proxied calls
          faults,    \* database errors so far
          overlap    \* two grant requests were once in progress together

vars == <<clock, load, grants, counters, keys, cache, pending, op, call, faults, overlap>>
db == <<grants, counters, keys>>

NoBudget == [ceiling |-> 0, period |-> "none"]
Budgets == [ceiling : Ceilings, period : DOMAIN Starts]
Nothing == [perm |-> 0, budget |-> NoBudget]     \* a nil *ResolvedBudget
Absent == [at |-> 0, read |-> 0, val |-> [perm |-> -1, budget |-> NoBudget]]

Live == {p \in DOMAIN grants : grants[p].live}

(* The aligned (start, end) of the period that contains t. *)
PeriodBounds(period, t) ==
  [start |-> Max({s \in Starts[period] : s <= t}), end |-> Min({s \in Starts[period] : t < s})]

(* Two history fields: fresh, the ceiling was the grant's when it was       *)
(* written; peak, the highest ceiling the row has had.                     *)
Row(end, ceiling, used, fresh) ==
  [end |-> end, ceiling |-> ceiling, used |-> used, fresh |-> fresh, peak |-> ceiling]
SetCeiling(row, n) ==
  [row EXCEPT !.ceiling = n, !.fresh = TRUE, !.peak = Max({@, n})]

WithRow(f, key, row) == [x \in DOMAIN f \cup {key} |-> IF x = key THEN row ELSE f[x]]

RowsOf(p) == {r \in DOMAIN counters : r[1] = p}

(* now() BETWEEN period_start AND period_end: at the instant one period ends *)
(* and the next begins, the rows of both.                                  *)
Open(r) == r[2] <= clock /\ clock <= counters[r].end
OpenRows(p) == {r \in RowsOf(p) : Open(r)}

(* The rows of p with the latest start, one at most. *)
LastRow(p) == {r \in RowsOf(p) : \A x \in RowsOf(p) : x[2] <= r[2]}
-----------------------------------------------------------------------------
(* What the read endpoints answer.  None of them changes the state. *)

(* list_permissions, list_tenant_permissions, get_permission: the rows. *)
list_permissions(a) == {p \in Live : grants[p].action = a}

(* The calls left of a ceiling. *)
Left(ceiling, used) == Max({0, ceiling - used})

(* GET .../budget: the latest of the rows that have not ended, or a fresh   *)
(* period.                                                                 *)
get_budget_status(p) ==
  LET rows == {x \in OpenRows(p) : clock < counters[x].end}
      r == CHOOSE x \in rows : \A y \in rows : y[2] <= x[2]
  IN IF rows = {} THEN grants[p].budget.ceiling
     ELSE Left(counters[r].ceiling, counters[r].used)

(* The tenant's view of it: the grant's ceiling and the row with the latest *)
(* start, whether that period has ended or not.                            *)
get_permission_budget(p) ==
  {Left(grants[p].budget.ceiling, counters[r].used) : r \in LastRow(p)}

(* _fetch_budget_info takes the open row that ends last. *)
BudgetInfo(p) ==
  LET rows == OpenRows(p)
      r == CHOOSE x \in rows : \A y \in rows : counters[y].end <= counters[x].end
  IN Left(grants[p].budget.ceiling, IF rows = {} THEN 0 ELSE counters[r].used)

(* describe_service shows the budget of the newest grant. *)
describe_service == BudgetInfo(Max(Live))

(* The budget-consumers report joins every open row to its grant. *)
list_budget_consumers(p) ==
  {Left(grants[p].budget.ceiling, counters[r].used) : r \in OpenRows(p)}
-----------------------------------------------------------------------------
(* The operators' requests. *)

Idle == [stage |-> "idle", action |-> "none", budget |-> NoBudget, perm |-> 0,
         change |-> "none", old |-> NoBudget, life |-> 0]
Begin(o, kind) == op[o].stage = "idle" /\ kind \in load
Answer(o) == op' = [op EXCEPT ![o] = [Idle EXCEPT !.stage = "done"]]

(* grant_permission up to its read of the existing grant: an equal grant    *)
(* answers 200, one with other constraints 409.                            *)
grant_permission(o, a, b) ==
  /\ Begin(o, "grant")
  /\ IF list_permissions(a) # {}
       THEN Answer(o) /\ UNCHANGED overlap
       ELSE /\ op' = [op EXCEPT ![o] = [Idle EXCEPT !.stage = "grant", !.action = a, !.budget = b]]
            /\ overlap' = (overlap \/ \E x \in Ops : op[x].stage = "grant")
  /\ UNCHANGED <<clock, load, db, cache, pending, call, faults>>

(* Its inserts: the grant, and the counter of the current period. *)
InsertGrant(o) ==
  LET b == op[o].budget
      p == Len(grants) + 1
      bounds == PeriodBounds(b.period, clock)
  IN /\ op[o].stage = "grant"
     /\ grants' = Append(grants, [action |-> op[o].action, budget |-> b, live |-> TRUE])
     /\ counters' = IF b = NoBudget THEN counters
                    ELSE WithRow(counters, <<p, bounds.start>>, Row(bounds.end, b.ceiling, 0, TRUE))
     /\ Answer(o)
     /\ UNCHANGED <<clock, load, keys, cache, pending, call, faults, overlap>>

(* The foreign key of budget_counters deletes the counters with the grant. *)
Cascade(p) == [r \in DOMAIN counters \ RowsOf(p) |-> counters[r]]

(* revoke_permission: 204 whether the row was there or not.  Its event,     *)
(* agent.permission.revoked, is not one the proxy's budget cache acts on.  *)
revoke_permission(o, p) ==
  /\ Begin(o, "revoke") /\ p \in DOMAIN grants
  /\ grants' = [grants EXCEPT ![p].live = FALSE]
  /\ counters' = Cascade(p)
  /\ Answer(o)
  /\ UNCHANGED <<clock, load, keys, cache, pending, call, faults, overlap>>

(* update_permission reads the grant ... *)
update_permission(o, p, change, b) ==
  /\ Begin(o, "patch") /\ p \in DOMAIN grants
  /\ IF p \in Live
       THEN op' = [op EXCEPT ![o] = [Idle EXCEPT !.stage = "patch", !.perm = p, !.change = change,
                                                !.budget = b, !.old = grants[p].budget]]
       ELSE Answer(o)
  /\ UNCHANGED <<clock, load, db, cache, pending, call, faults, overlap>>

(* Mutant: ON CONFLICT DO NOTHING. *)
MutUpsertCounter(p, old, new) ==
  LET bounds == PeriodBounds(new.period, clock)
      key == <<p, bounds.start>>
  IN IF key \in DOMAIN counters THEN counters
     ELSE WithRow(counters, key, Row(bounds.end, new.ceiling, 0, TRUE))

(* ... and writes back the constraints it read, merged with the body.  A    *)
(* changed period starts its counter again, otherwise the counter of the   *)
(* current period only takes the ceiling.                                  *)
UpsertCounter(p, old, new) ==
  LET bounds == PeriodBounds(new.period, clock)
      key == <<p, bounds.start>>
  IN IF key \notin DOMAIN counters
       THEN WithRow(counters, key, Row(bounds.end, new.ceiling, 0, TRUE))
     ELSE IF old # NoBudget /\ old.period # new.period
       THEN [counters EXCEPT ![key] = Row(bounds.end, new.ceiling, 0, TRUE)]
       ELSE [counters EXCEPT ![key] = SetCeiling(@, new.ceiling)]

(* A grant deleted since the read leaves the UPDATE without a row; the      *)
(* counter's foreign key then fails the whole request.                     *)
WritePatch(o) ==
  LET p == op[o].perm
      new == IF op[o].change = "set" THEN op[o].budget ELSE op[o].old
  IN /\ op[o].stage = "patch" /\ op[o].change # "remove"
     /\ Answer(o)
     /\ IF p \in Live
          THEN /\ grants' = [grants EXCEPT ![p].budget = new]
               /\ counters' = IF new = NoBudget THEN counters ELSE UpsertCounter(p, op[o].old, new)
          ELSE UNCHANGED <<grants, counters>>
     /\ pending' = IF p \in Live \/ new = NoBudget THEN pending + 1 ELSE pending
     /\ UNCHANGED <<clock, load, keys, cache, call, faults, overlap>>

(* The branch for a budget sent as null: the budget and all its counters    *)
(* are dropped.                                                            *)
RemoveBudget(o) ==
  LET p == op[o].perm
  IN /\ op[o].stage = "patch" /\ op[o].change = "remove"
     /\ grants' = [grants EXCEPT ![p].budget = IF p \in Live THEN NoBudget ELSE @]
     /\ counters' = Cascade(p)
     /\ pending' = pending + 1
     /\ Answer(o)
     /\ UNCHANGED <<clock, load, keys, cache, call, faults, overlap>>

(* reset_budget_counter zeroes the row with the latest start. *)
reset_budget_counter(o, p) ==
  /\ Begin(o, "reset") /\ p \in Live
  /\ counters' = [r \in DOMAIN counters |->
                    IF r \in LastRow(p) THEN [counters[r] EXCEPT !.used = 0] ELSE counters[r]]
  /\ Answer(o)
  /\ UNCHANGED <<clock, load, grants, keys, cache, pending, call, faults, overlap>>
-----------------------------------------------------------------------------
(* Classical API keys of the agent for the service. *)

(* _check_policy compares whole days, timedelta.days truncates; life 0 is a *)
(* key that does not expire.                                               *)
PolicyAllows(life) == life \div Day <= MaxDays

(* The longest lifetime of MaxDays whole days, almost a day above the limit. *)
MaxLife == (MaxDays + 1) * Day - 1

(* create_api_key checks the actions against the grants and the expiry      *)
(* against the policy ...                                                  *)
create_api_key(o, a, life) ==
  /\ Begin(o, "create")
  /\ IF list_permissions(a) # {} /\ PolicyAllows(life)
       THEN op' = [op EXCEPT ![o] = [Idle EXCEPT !.stage = "create", !.action = a,
                                                !.life = IF life = 0 THEN 0 ELSE clock + life]]
       ELSE Answer(o)
  /\ UNCHANGED <<clock, load, db, cache, pending, call, faults, overlap>>

(* ... and inserts the key; its lifetime counts from the insert. *)
InsertKey(o) ==
  /\ op[o].stage = "create"
  /\ keys' = Append(keys, [action |-> op[o].action, created |-> clock, expires |-> op[o].life,
                           revoked |-> FALSE])
  /\ Answer(o)
  /\ UNCHANGED <<clock, load, grants, counters, cache, pending, call, faults, overlap>>

(* Mutant: the lifetime is added to the old expiry. *)
MutRotated(k) ==
  [keys[k] EXCEPT !.created = clock, !.revoked = FALSE,
                  !.expires = IF @ = 0 THEN 0 ELSE @ + (@ - keys[k].created)]

(* rotate_api_key: a new key with the old one's actions and lifetime; the   *)
(* old key stays as it is, and is not asked whether it is revoked.         *)
Rotated(k) ==
  [keys[k] EXCEPT !.created = clock, !.revoked = FALSE,
                  !.expires = IF @ = 0 THEN 0 ELSE clock + (@ - keys[k].created)]

rotate_api_key(o, k) ==
  /\ Begin(o, "rotate") /\ k \in DOMAIN keys
  /\ keys' = Append(keys, Rotated(k))
  /\ Answer(o)
  /\ UNCHANGED <<clock, load, grants, counters, cache, pending, call, faults, overlap>>

(* revoke_api_key, idempotent. *)
revoke_api_key(o, k) ==
  /\ Begin(o, "revokekey") /\ k \in DOMAIN keys
  /\ keys' = [keys EXCEPT ![k].revoked = TRUE]
  /\ Answer(o)
  /\ UNCHANGED <<clock, load, grants, counters, cache, pending, call, faults, overlap>>

(* The status list_api_keys shows. *)
KeyStatus(k) ==
  IF keys[k].revoked THEN "revoked"
  ELSE IF keys[k].expires # 0 /\ keys[k].expires < clock THEN "expired" ELSE "active"
-----------------------------------------------------------------------------
(* The budget gate of the proxy. *)

NoCall == [stage |-> "idle", action |-> "none", started |-> 0, read |-> 0, val |-> Nothing]
Go(c, stage) == call' = [call EXCEPT ![c].stage = stage]
Finish(c, result) == call' = [call EXCEPT ![c] = [NoCall EXCEPT !.stage = result]]

(* The proxy meets an error of the database. *)
Fault == "fault" \in load /\ faults < MaxFaults /\ faults' = faults + 1

(* A call with a budget goes on to the counter, one without is forwarded. *)
Gate(val) == IF val = Nothing THEN "unbudgeted" ELSE "check"

(* The budget of a grant of the action; LIMIT 1 picks any of several. *)
BudgetedGrants(a) == {p \in list_permissions(a) : grants[p].budget # NoBudget}
lookup(a) ==
  IF BudgetedGrants(a) = {} THEN {Nothing}
  ELSE {[perm |-> p, budget |-> grants[p].budget] : p \in BudgetedGrants(a)}

(* ResolveAction: a cached answer younger than the time to live is used, ... *)
Cached(a) == cache[a] # Absent /\ clock - cache[a].at < Ttl
Resolved(c, a, stage, read, val) ==
  call' = [call EXCEPT ![c] = [stage |-> stage, action |-> a, started |-> clock,
                               read |-> read, val |-> val]]

ResolveCached(c, a) ==
  /\ call[c].stage = "idle" /\ "call" \in load /\ Cached(a)
  /\ Resolved(c, a, Gate(cache[a].val), cache[a].read, cache[a].val)
  /\ UNCHANGED <<clock, load, db, cache, pending, op, faults, overlap>>

(* ... otherwise the grant is read, without the lock.  A failed read is     *)
(* logged and taken for a grant without a budget.                          *)
ResolveAction(c, a) ==
  /\ call[c].stage = "idle" /\ "call" \in load /\ ~Cached(a)
  /\ \/ \E v \in lookup(a) : Resolved(c, a, "store", clock, v) /\ UNCHANGED faults
     \/ /\ Fault
        /\ Resolved(c, a, "store", clock, Nothing)
  /\ UNCHANGED <<clock, load, db, cache, pending, op, overlap>>

(* Mutant: the answer is stamped when it is stored. *)
MutStoreAnswer(c) ==
  /\ call[c].stage = "store"
  /\ cache' = [cache EXCEPT ![call[c].action] =
                 [at |-> clock, read |-> call[c].read, val |-> call[c].val]]
  /\ Go(c, Gate(call[c].val))
  /\ UNCHANGED <<clock, load, db, pending, op, faults, overlap>>

(* The answer enters the cache under the time at which the call began. *)
StoreAnswer(c) ==
  /\ call[c].stage = "store"
  /\ cache' = [cache EXCEPT ![call[c].action] =
                 [at |-> call[c].started, read |-> call[c].read, val |-> call[c].val]]
  /\ Go(c, Gate(call[c].val))
  /\ UNCHANGED <<clock, load, db, pending, op, faults, overlap>>

(* Mutant: the upsert without its WHERE clause. *)
MutCheck(c) ==
  LET v == call[c].val
      bounds == PeriodBounds(v.budget.period, clock)
      key == <<v.perm, bounds.start>>
  IN /\ call[c].stage = "check" /\ v.perm \in Live
     /\ counters' = IF key \in DOMAIN counters
                      THEN [counters EXCEPT ![key].used = @ + 1]
                      ELSE WithRow(counters, key, Row(bounds.end, v.budget.ceiling, 1, TRUE))
     /\ Finish(c, "counted")
     /\ UNCHANGED <<clock, load, grants, keys, cache, pending, op, faults, overlap>>

(* Check: one upsert inserts the row of the period with used = 1 or adds 1  *)
(* below the row's ceiling.  No row comes back at the ceiling, and the     *)
(* insert fails when the grant is gone.                                    *)
Check(c) ==
  LET v == call[c].val
      bounds == PeriodBounds(v.budget.period, clock)
      key == <<v.perm, bounds.start>>
  IN /\ call[c].stage = "check"
     /\ IF key \in DOMAIN counters /\ counters[key].used < counters[key].ceiling
          THEN counters' = [counters EXCEPT ![key].used = @ + 1] /\ Finish(c, "counted")
        ELSE IF key \notin DOMAIN counters /\ v.perm \in Live
          THEN /\ counters' = WithRow(counters, key,
                    Row(bounds.end, v.budget.ceiling, 1, v.budget = grants[v.perm].budget))
               /\ Finish(c, "counted")
          ELSE UNCHANGED counters /\ Go(c, "second")
     /\ UNCHANGED <<clock, load, grants, keys, cache, pending, op, faults, overlap>>

CheckFails(c) ==
  /\ call[c].stage = "check" /\ Fault
  /\ Go(c, "second")
  /\ UNCHANGED <<clock, load, db, cache, pending, op, overlap>>

Full(r) == counters[r].used >= counters[r].ceiling

(* The second look takes any open row of the grant: full, the call is       *)
(* refused, otherwise it passes without being counted.  With no open row   *)
(* the check is an error and the call passes (it fails open).              *)
SecondLook(c) ==
  LET rows == OpenRows(call[c].val.perm)
  IN /\ call[c].stage = "second"
     /\ IF rows = {} THEN Finish(c, "failedopen")
        ELSE \E r \in rows : Finish(c, IF Full(r) THEN "refused" ELSE "uncounted")
     /\ UNCHANGED <<clock, load, db, cache, pending, op, faults, overlap>>

SecondLookFails(c) ==
  /\ call[c].stage = "second" /\ Fault
  /\ Finish(c, "failedopen")
  /\ UNCHANGED <<clock, load, db, cache, pending, op, overlap>>

(* A delivered budget.config_updated clears the whole cache; a subscriber   *)
(* that is not listening misses it.                                        *)
InvalidateBudget ==
  /\ pending > 0 /\ pending' = pending - 1
  /\ cache' = [a \in Actions |-> Absent]
  /\ UNCHANGED <<clock, load, db, op, call, faults, overlap>>

LoseEvent ==
  /\ pending > 0 /\ pending' = pending - 1
  /\ UNCHANGED <<clock, load, db, cache, op, call, faults, overlap>>

Tick ==
  /\ clock < MaxClock /\ clock' = clock + 1
  /\ UNCHANGED <<load, db, cache, pending, op, call, faults, overlap>>
-----------------------------------------------------------------------------
(* Before the first request: no grant yet, or one the operator gave. *)
Granted(a, b) ==
  LET bounds == PeriodBounds(b.period, 0)
  IN /\ grants = <<[action |-> a, budget |-> b, live |-> TRUE]>>
     /\ counters = IF b = NoBudget THEN <<>>
                   ELSE WithRow(<<>>, <<1, bounds.start>>, Row(bounds.end, b.ceiling, 0, TRUE))

Init ==
  /\ clock = 0 /\ load \in Workloads
  /\ \/ grants = <<>> /\ counters = <<>>
     \/ \E a \in Actions, b \in Budgets \cup {NoBudget} : Granted(a, b)
  /\ keys = <<>>
  /\ cache = [a \in Actions |-> Absent] /\ pending = 0
  /\ op = [o \in Ops |-> Idle] /\ call = [c \in Calls |-> NoCall]
  /\ faults = 0 /\ overlap = FALSE

Next ==
  \/ \E o \in Ops :
       \/ \E a \in Actions, b \in Budgets \cup {NoBudget} : grant_permission(o, a, b)
       \/ InsertGrant(o) \/ WritePatch(o) \/ RemoveBudget(o) \/ InsertKey(o)
       \/ \E p \in DOMAIN grants :
            \/ revoke_permission(o, p)
            \/ reset_budget_counter(o, p)
            \/ \E b \in Budgets : update_permission(o, p, "set", b)
            \/ \E ch \in {"remove", "other"} : update_permission(o, p, ch, NoBudget)
       \/ \E a \in Actions, life \in 0 .. MaxLife + 1 : create_api_key(o, a, life)
       \/ \E k \in DOMAIN keys : rotate_api_key(o, k) \/ revoke_api_key(o, k)
  \/ \E c \in Calls :
       \/ \E a \in Actions : ResolveCached(c, a) \/ ResolveAction(c, a)
       \/ StoreAnswer(c)
       \/ Check(c) \/ CheckFails(c) \/ SecondLook(c) \/ SecondLookFails(c)
  \/ InvalidateBudget \/ LoseEvent \/ Tick

Spec == Init /\ [][Next]_vars
-----------------------------------------------------------------------------
(* The rows, the cache and the requests have the shapes the code gives      *)
(* them; a counter's period ends after it starts (PeriodBounds).           *)
TypeOK ==
  /\ clock \in 0 .. MaxClock /\ load \in Workloads
  /\ \A p \in DOMAIN grants : grants[p] \in
       [action : Actions, budget : Budgets \cup {NoBudget}, live : BOOLEAN]
  /\ \A r \in DOMAIN counters :
       /\ r[1] \in DOMAIN grants /\ r[2] \in 0 .. MaxClock
       /\ counters[r].end > r[2] /\ counters[r].ceiling \in Ceilings
       /\ counters[r].used \in Nat
  /\ \A k \in DOMAIN keys : keys[k].action \in Actions /\ keys[k].created \in 0 .. MaxClock
  /\ \A c \in Calls : call[c].val.perm \in 0 .. Len(grants)

(* A call is never checked against a budget that was read a full time to    *)
(* live before the call began, whichever way the reads of other calls, the *)
(* operators' changes and the lost or late invalidations interleave        *)
(* (ResolveAction stamps the answer before it reads the grant).            *)
BudgetAge ==
  \A c \in Calls :
    call[c].stage \in {"check", "second", "unbudgeted"} =>
      call[c].started - call[c].read < Ttl

(* Concurrent calls, the operators' changes of the ceiling and the resets   *)
(* never bring a counter past the highest ceiling its row has had: the     *)
(* increment and the test are one statement (FR-3).                        *)
NeverOverCeiling == \A r \in DOMAIN counters : counters[r].used <= counters[r].peak

(* The counters a delete leaves behind belong to grants that exist, also    *)
(* when a call that resolved the budget earlier counts itself after the    *)
(* revocation.                                                             *)
NoOrphanCounter == \A r \in DOMAIN counters : r[1] \in Live

(* Two grants of one action exist only after two grant requests overlapped: *)
(* served one after the other, grant_permission keeps an action unique.    *)
DuplicateNeedsOverlap ==
  ~overlap => \A a \in Actions : Cardinality(list_permissions(a)) <= 1

(* Grants and their counters stay consistent under concurrent calls,       *)
(* changes and revocations (grant_permission, revoke_permission, Check).   *)
GrantsConsistent ==
  TypeOK /\ NeverOverCeiling /\ NoOrphanCounter /\ DuplicateNeedsOverlap

(* The counters of p that matter now are the one row of its budget's        *)
(* current period, written with a budget the grant had then: the period    *)
(* was not changed while an older row is open.                             *)
Clean(p) ==
  LET bounds == PeriodBounds(grants[p].budget.period, clock)
  IN \A r \in RowsOf(p) :
       Open(r) \/ r[2] = bounds.start =>
         r[2] = bounds.start /\ counters[r].end = bounds.end /\ counters[r].fresh

(* The calls the gate still lets through this period. *)
Headroom(p) ==
  LET key == <<p, PeriodBounds(grants[p].budget.period, clock).start>>
  IN IF key \notin DOMAIN counters THEN grants[p].budget.ceiling
     ELSE Left(counters[key].ceiling, counters[key].used)

(* What describe_service tells the agent, and get_budget_status, the        *)
(* consumers report and get_permission_budget tell the operator, is what   *)
(* the gate will enforce: after overlapping PATCHes, resets and counted     *)
(* calls, as long as the counters are clean.  The last one goes on showing *)
(* a period that has ended until a call opens the next.                    *)
ShownIsEnforced ==
  \A p \in Live :
    (Live = {p} /\ grants[p].budget # NoBudget /\ Clean(p)) =>
      /\ describe_service = Headroom(p)
      /\ get_budget_status(p) = Headroom(p)
      /\ list_budget_consumers(p) \subseteq {Headroom(p)}
      /\ LastRow(p) \subseteq OpenRows(p) => get_permission_budget(p) \subseteq {Headroom(p)}

(* The lifetime _check_policy lets through, less than a day above the       *)
(* policy, bounds every key rotated from one that passed, however late and *)
(* however often it is rotated: none is listed as active for longer.       *)
LifetimeBounded ==
  \A k \in DOMAIN keys :
    keys[k].expires # 0 =>
      /\ keys[k].expires - keys[k].created <= MaxLife
      /\ KeyStatus(k) = "active" => clock - keys[k].created <= MaxLife
=============================================================================
