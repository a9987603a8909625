---------------------------- MODULE AccessProofs ----------------------------
(***************************************************************************)
(* Machine-checked proofs about what agents may use.  About Grants, for    *)
(* any number of operators, calls, actions, ceilings, period lengths and   *)
(* lifetimes: grants and counters stay consistent, budgets are never stale *)
(* for longer than the cache keeps them, what is shown is enforced, and    *)
(* rotations never extend the life of a key.  About EmailAccess, for any   *)
(* number of services, providers, consent flows and requests: secrets      *)
(* belong to what they are stored for, a flow completes once, and a token  *)
(* for a mailbox needs a grant.                                            *)
(***************************************************************************)
EXTENDS Grants, EmailAccess, FiniteSetTheorems, TLAPS

-----------------------------------------------------------------------------
(* The inductive invariant.                                                *)

AnyBudget   == Budgets \cup {NoBudget}
GrantRows   == [action : Actions, budget : AnyBudget, live : BOOLEAN]
CounterRows == [end : Nat, ceiling : Ceilings, used : Nat, fresh : BOOLEAN, peak : Nat]
KeyRows     == [action : Actions, created : Nat, expires : Nat, revoked : BOOLEAN]
Vals        == {Nothing} \cup [perm : Nat \ {0}, budget : Budgets]
Entries     == {Absent} \cup [at : Nat, read : Nat, val : Vals]
OpRecs == [stage : {"idle", "done", "grant", "patch", "create"}, action : Actions \cup {"none"},
           budget : AnyBudget, perm : Nat, change : {"none", "set", "remove", "other"},
           old : AnyBudget, life : Nat]
CallRecs == [stage : {"idle", "store", "check", "second", "unbudgeted", "counted", "failedopen",
                      "refused", "uncounted"},
             action : Actions \cup {"none"}, started : Nat, read : Nat, val : Vals]

Shapes ==
  /\ clock \in 0 .. MaxClock /\ load \in Workloads
  /\ grants \in Seq(GrantRows) /\ keys \in Seq(KeyRows)
  /\ cache \in [Actions -> Entries] /\ pending \in Nat /\ faults \in Nat /\ overlap \in BOOLEAN
  /\ op \in [Ops -> OpRecs] /\ call \in [Calls -> CallRecs]

\* A counter row begun no later than now, with its ceiling and its count below
\* the highest ceiling it has had.
RowOK(r, row, now) ==
  /\ r \in Nat \X Nat /\ r[2] <= now
  /\ row \in CounterRows /\ r[2] < row.end /\ row.ceiling <= row.peak /\ row.used <= row.peak

CountersInv ==
  /\ counters = [r \in DOMAIN counters |-> counters[r]]
  /\ \A r \in DOMAIN counters : r[1] \in Live /\ RowOK(r, counters[r], clock)

\* The ceiling of a row of the current period is the grant's, unless the row
\* was opened with another budget.
CeilingOK(r, row, b, now) ==
  b # NoBudget /\ r[2] = PeriodBounds(b.period, now).start /\ row.fresh => row.ceiling = b.ceiling

CeilingsInv ==
  \A r \in DOMAIN counters : CeilingOK(r, counters[r], grants[r[1]].budget, clock)

\* Grant requests that have found no grant of their action, one at a time.
UniqueInv ==
  ~overlap =>
    /\ \A p, q \in Live : grants[p].action = grants[q].action => p = q
    /\ \A o, x \in Ops : op[o].stage = "grant" /\ op[x].stage = "grant" => o = x
    /\ \A o \in Ops : op[o].stage = "grant" => list_permissions(op[o].action) = {}

\* What an operator's request has read.
OpInv ==
  \A o \in Ops :
    /\ op[o].stage \in {"grant", "create"} => op[o].action \in Actions
    /\ op[o].stage = "patch" => op[o].perm \in DOMAIN grants
    /\ op[o].stage = "patch" /\ op[o].change = "set" => op[o].budget \in Budgets
    /\ op[o].stage = "create" => op[o].life <= clock + MaxLife

\* A cached answer was read no earlier than the time it is stamped with; a
\* call's answer is of a grant there is, and not older than the cache allows.
AnswersInv ==
  /\ \A a \in Actions : cache[a] # Absent =>
       cache[a].at <= cache[a].read /\ cache[a].val.perm \in 0 .. Len(grants)
  /\ \A c \in Calls :
       /\ call[c].val.perm \in 0 .. Len(grants)
       /\ call[c].stage = "store" => call[c].started <= call[c].read /\ call[c].action \in Actions
       /\ call[c].stage \in {"check", "second"} => call[c].val # Nothing

KeysInv ==
  \A k \in DOMAIN keys :
    /\ keys[k].created <= clock
    /\ keys[k].expires # 0 => keys[k].expires - keys[k].created <= MaxLife

IInv == /\ Shapes /\ CountersInv /\ CeilingsInv /\ UniqueInv /\ OpInv /\ AnswersInv /\ KeysInv
        /\ BudgetAge

-----------------------------------------------------------------------------
(* Periods, maxima and rows.                                               *)

\* The last start at or before a time and the first one after it.
LEMMA StartsFacts ==
  ASSUME NEW period \in DOMAIN Starts, NEW t \in 0 .. MaxClock
  PROVE  LET b == PeriodBounds(period, t)
         IN  /\ b.start \in Starts[period] /\ b.end \in Starts[period] /\ b.start <= t /\ t < b.end
             /\ \A x \in Starts[period] : x <= t => x <= b.start
<1>1. PICK s, e \in Starts[period] :
        s <= t /\ t < e /\ \A x \in Starts[period] : x <= s \/ e <= x
  BY PeriodAssumption
<1>2. Starts[period] \subseteq Nat /\ s \in Nat /\ e \in Nat /\ t \in Nat
  BY <1>1, PeriodAssumption, BudgetAssumption
<1>3. Max({x \in Starts[period] : x <= t}) = s
  <2>1. s \in {x \in Starts[period] : x <= t}
    BY <1>1
  <2>2. \A y \in {x \in Starts[period] : x <= t} : s >= y
    BY <1>1, <1>2
  <2>3. \A z \in {x \in Starts[period] : x <= t} :
          (\A y \in {x \in Starts[period] : x <= t} : z >= y) => z = s
    BY <1>2, <2>1, <2>2
  <2> QED
    BY <2>1, <2>2, <2>3 DEF Max
<1>4. Min({x \in Starts[period] : t < x}) = e
  <2>1. e \in {x \in Starts[period] : t < x}
    BY <1>1
  <2>2. \A y \in {x \in Starts[period] : t < x} : e <= y
    BY <1>1, <1>2
  <2>3. \A z \in {x \in Starts[period] : t < x} :
          (\A y \in {x \in Starts[period] : t < x} : z <= y) => z = e
    BY <1>2, <2>1, <2>2
  <2> QED
    BY <2>1, <2>2, <2>3 DEF Min
<1>5. PeriodBounds(period, t).start = s /\ PeriodBounds(period, t).end = e
  BY <1>3, <1>4 DEF PeriodBounds
<1>6. \A x \in Starts[period] : x <= t => x <= s
  BY <1>1, <1>2
<1> QED
  BY <1>1, <1>5, <1>6

\* A period contains the time it is asked for (period.go).
LEMMA PeriodFacts ==
  ASSUME NEW period \in DOMAIN Starts, NEW t \in 0 .. MaxClock
  PROVE  LET b == PeriodBounds(period, t)
         IN  b.start \in Nat /\ b.end \in Nat /\ b.start <= t /\ t < b.end /\ b.start < b.end
<1>1. PICK s, e \in Nat : /\ s = PeriodBounds(period, t).start /\ e = PeriodBounds(period, t).end
                          /\ s <= t /\ t < e
  BY StartsFacts, PeriodAssumption
<1>2. t \in Nat /\ s < e
  BY <1>1, BudgetAssumption
<1> QED
  BY <1>1, <1>2

\* The next tick is in the same period or begins the next one.
LEMMA NextPeriod ==
  ASSUME NEW period \in DOMAIN Starts, NEW t \in 0 .. MaxClock, t + 1 \in 0 .. MaxClock
  PROVE  \/ PeriodBounds(period, t + 1).start = PeriodBounds(period, t).start
         \/ PeriodBounds(period, t + 1).start = t + 1
<1>1. PICK s \in Starts[period] : /\ s = PeriodBounds(period, t).start /\ s <= t
                                  /\ \A x \in Starts[period] : x <= t => x <= s
  BY StartsFacts
<1>2. PICK n \in Starts[period] : /\ n = PeriodBounds(period, t + 1).start /\ n <= t + 1
                                  /\ \A x \in Starts[period] : x <= t + 1 => x <= n
  BY StartsFacts
<1>3. s \in Nat /\ n \in Nat /\ t \in Nat
  BY <1>1, <1>2, PeriodAssumption, BudgetAssumption
<1>4. s <= n
  BY <1>1, <1>2, <1>3
<1>5. n = t + 1 \/ n <= s
  BY <1>1, <1>2, <1>3
<1> QED
  BY <1>1, <1>2, <1>3, <1>4, <1>5

\* A lifetime whose whole days the policy allows (_check_policy).
LEMMA LifeFacts ==
  /\ MaxLife \in Nat
  /\ \A life \in Nat : PolicyAllows(life) => life <= MaxLife
<1>1. Day \in Nat \ {0} /\ MaxDays \in Nat
  BY BudgetAssumption
<1>2. (MaxDays + 1) * Day \in Nat \ {0}
  BY <1>1
<1>3. ASSUME NEW life \in Nat, PolicyAllows(life)
      PROVE  life <= MaxLife
  <2>1. PICK q \in Nat : q = life \div Day
    BY <1>1
  <2>2. life < q * Day + Day
    BY <1>1, <2>1
  <2>3. q + 1 <= MaxDays + 1
    BY <1>1, <1>3, <2>1 DEF PolicyAllows
  <2>4. (q + 1) * Day <= (MaxDays + 1) * Day
    BY <1>1, <2>3
  <2>5. (q + 1) * Day = q * Day + Day
    BY <1>1
  <2>6. PICK m \in Nat, n \in Nat : m = (q + 1) * Day /\ n = (MaxDays + 1) * Day
    BY <1>1, <1>2
  <2>7. life < n
    BY <2>2, <2>4, <2>5, <2>6
  <2> QED
    BY <2>6, <2>7 DEF MaxLife
<1> QED
  BY <1>2, <1>3 DEF MaxLife

\* The larger of two numbers.
LEMMA MaxOfTwo ==
  ASSUME NEW m \in Nat, NEW n \in Nat
  PROVE  Max({m, n}) \in Nat /\ Max({m, n}) >= m /\ Max({m, n}) >= n
  BY DEF Max

\* The budgets, told apart.
LEMMA BudgetFacts ==
  /\ NoBudget \notin Budgets /\ NoBudget \in AnyBudget /\ Budgets \subseteq AnyBudget
  /\ \A b \in Budgets : b.ceiling \in Ceilings /\ b.ceiling \in Nat /\ b.period \in DOMAIN Starts
  /\ Ceilings \subseteq Nat
  /\ Nothing \in Vals /\ \A v \in Vals : v # Nothing => v.perm \in Nat \ {0} /\ v.budget \in Budgets
  /\ Nothing.perm = 0 /\ Idle \in OpRecs /\ NoCall \in CallRecs
  BY BudgetAssumption
     DEF NoBudget, Budgets, AnyBudget, Nothing, Vals, Idle, OpRecs, NoCall, CallRecs

-----------------------------------------------------------------------------
(* Steps that leave a part alone.                                          *)

\* The shapes in first-order terms.
LEMMA Sizes ==
  ASSUME Shapes
  PROVE  /\ clock \in Nat /\ MaxClock \in Nat /\ clock \in 0 .. MaxClock
         /\ Len(grants) \in Nat /\ DOMAIN grants = 1 .. Len(grants)
         /\ Len(keys) \in Nat /\ DOMAIN keys = 1 .. Len(keys)
         /\ \A p \in DOMAIN grants : grants[p] \in GrantRows
         /\ \A k \in DOMAIN keys : keys[k] \in KeyRows
         /\ \A p \in Live : p \in DOMAIN grants
  BY BudgetAssumption DEF Shapes, Live

\* Neither the grants nor the counters nor the clock move.
LEMMA TablesKept ==
  ASSUME IInv, grants' = grants, counters' = counters, clock' = clock
  PROVE  CountersInv' /\ CeilingsInv'
<1>1. CountersInv'
  BY DEF IInv, CountersInv, RowOK, Live
<1>2. CeilingsInv'
  BY DEF IInv, CeilingsInv
<1> QED
  BY <1>1, <1>2

\* The keys stay, time may pass.
LEMMA KeysKept ==
  ASSUME IInv, keys' = keys, clock' \in Nat, clock <= clock'
  PROVE  KeysInv'
<1>1. clock \in Nat /\ \A k \in DOMAIN keys : keys[k].created \in Nat
  BY Sizes DEF IInv, KeyRows
<1> QED
  BY <1>1 DEF IInv, KeysInv

\* The proxy does nothing, and no grant's index is lost.
LEMMA CallsKept ==
  ASSUME IInv, cache' = cache, call' = call, Len(grants') \in Nat, Len(grants) <= Len(grants')
  PROVE  AnswersInv' /\ BudgetAge'
<1>1. Len(grants) \in Nat
  BY Sizes DEF IInv
<1>2. \A n \in 0 .. Len(grants) : n \in 0 .. Len(grants')
  BY <1>1
<1>3. AnswersInv'
  BY <1>2 DEF IInv, AnswersInv
<1>4. BudgetAge'
  BY DEF IInv, BudgetAge
<1> QED
  BY <1>3, <1>4

\* What one request of an operator has to satisfy.
OpOK(w, dom, now) ==
  /\ w.stage \in {"grant", "create"} => w.action \in Actions
  /\ w.stage = "patch" => w.perm \in dom
  /\ w.stage = "patch" /\ w.change = "set" => w.budget \in Budgets
  /\ w.stage = "create" => w.life <= now + MaxLife

\* One operator's request takes a step.
LEMMA OpStep ==
  ASSUME IInv, NEW o \in Ops, NEW w \in OpRecs, op' = [op EXCEPT ![o] = w], clock' = clock,
         DOMAIN grants \subseteq DOMAIN grants', OpOK(w, DOMAIN grants', clock)
  PROVE  /\ OpInv' /\ op' \in [Ops -> OpRecs] /\ op'[o] = w
         /\ \A x \in Ops \ {o} : op'[x] = op[x]
<1>1. op \in [Ops -> OpRecs]
  BY DEF IInv, Shapes
<1>2. op' \in [Ops -> OpRecs] /\ op'[o] = w /\ \A x \in Ops \ {o} : op'[x] = op[x]
  BY <1>1
<1>3. ASSUME NEW x \in Ops PROVE OpOK(op'[x], DOMAIN grants', clock)
  BY <1>2 DEF IInv, OpInv, OpOK
<1>4. OpInv'
  BY <1>3 DEF OpInv, OpOK
<1> QED
  BY <1>2, <1>4

\* The operators' requests do nothing while time may pass.
LEMMA OpsKept ==
  ASSUME IInv, op' = op, grants' = grants, overlap' = overlap, clock' \in Nat, clock <= clock'
  PROVE  UniqueInv' /\ OpInv'
<1>1. UniqueInv'
  BY DEF IInv, UniqueInv, Live, list_permissions
<1>2. clock \in Nat /\ MaxLife \in Nat /\ \A o \in Ops : op[o].life \in Nat
  BY Sizes, LifeFacts DEF IInv, Shapes, OpRecs
<1>3. OpInv'
  BY <1>2 DEF IInv, OpInv
<1> QED
  BY <1>1, <1>3

\* No grant is added, no action changed, and no request looks for a grant.
LEMMA UniqueKept ==
  ASSUME IInv, NEW o \in Ops, op' \in [Ops -> OpRecs], \A x \in Ops \ {o} : op'[x] = op[x],
         op'[o].stage # "grant", overlap' = overlap,
         \A p \in Live' : p \in Live /\ grants'[p].action = grants[p].action
  PROVE  UniqueInv'
<1>2. \A x \in Ops : op'[x].stage = "grant" => x # o /\ op'[x] = op[x]
  OBVIOUS
<1>3. SUFFICES ASSUME ~overlap
               PROVE  /\ \A p, q \in Live' : grants'[p].action = grants'[q].action => p = q
                      /\ \A y, x \in Ops : op'[y].stage = "grant" /\ op'[x].stage = "grant" => y = x
                      /\ \A x \in Ops : op'[x].stage = "grant" =>
                           {p \in Live' : grants'[p].action = op'[x].action} = {}
  BY DEF UniqueInv, list_permissions
<1>4. /\ \A p, q \in Live : grants[p].action = grants[q].action => p = q
      /\ \A y, x \in Ops : op[y].stage = "grant" /\ op[x].stage = "grant" => y = x
      /\ \A x \in Ops : op[x].stage = "grant" => {p \in Live : grants[p].action = op[x].action} = {}
  BY <1>3 DEF IInv, UniqueInv, list_permissions
<1> QED
  BY <1>2, <1>4

\* The record of an answered request.
LEMMA Answered ==
  ASSUME IInv, NEW o \in Ops, Answer(o), clock' = clock, DOMAIN grants \subseteq DOMAIN grants'
  PROVE  /\ OpInv' /\ op' \in [Ops -> OpRecs] /\ op'[o].stage = "done"
         /\ \A x \in Ops \ {o} : op'[x] = op[x]
<1>1. PICK w \in OpRecs : w = [Idle EXCEPT !.stage = "done"]
  BY BudgetFacts DEF OpRecs
<1>2. w.stage = "done"
  BY <1>1 DEF Idle
<1>3. op' = [op EXCEPT ![o] = w] /\ OpOK(w, DOMAIN grants', clock)
  BY <1>1, <1>2 DEF Answer, OpOK
<1> QED
  BY <1>2, <1>3, OpStep

\* At most one counter row changes, the others stay with their grants.
LEMMA CountersStep ==
  ASSUME IInv, clock' = clock, NEW key,
         counters' = [r \in DOMAIN counters' |-> counters'[r]],
         \A r \in DOMAIN counters' : r # key => r \in DOMAIN counters /\ counters'[r] = counters[r],
         \A r \in DOMAIN counters' : r[1] \in Live',
         key \in DOMAIN counters' => RowOK(key, counters'[key], clock),
         \A r \in DOMAIN counters' : CeilingOK(r, counters'[r], grants'[r[1]].budget, clock)
  PROVE  CountersInv' /\ CeilingsInv'
<1>1. \A r \in DOMAIN counters : RowOK(r, counters[r], clock)
  BY DEF IInv, CountersInv
<1>2. \A r \in DOMAIN counters' : RowOK(r, counters'[r], clock)
  BY <1>1
<1>3. CountersInv'
  BY <1>2 DEF CountersInv
<1>4. CeilingsInv'
  BY DEF CeilingsInv
<1> QED
  BY <1>3, <1>4

-----------------------------------------------------------------------------
(* The operators' requests.                                                *)

\* grant_permission's read keeps the invariant.
LEMMA GrantStep ==
  ASSUME IInv, NEW o \in Ops, NEW a \in Actions, NEW b \in AnyBudget, grant_permission(o, a, b)
  PROVE  IInv'
<1>1. /\ clock' = clock /\ load' = load /\ grants' = grants /\ counters' = counters /\ keys' = keys
      /\ cache' = cache /\ pending' = pending /\ call' = call /\ faults' = faults
  BY DEF grant_permission, db
<1>2. CountersInv' /\ CeilingsInv' /\ KeysInv' /\ AnswersInv' /\ BudgetAge'
  BY <1>1, TablesKept, KeysKept, CallsKept, Sizes DEF IInv
<1>3. CASE list_permissions(a) # {}
  <2>1. Answer(o) /\ overlap' = overlap
    BY <1>3 DEF grant_permission
  <2>2. OpInv' /\ op' \in [Ops -> OpRecs] /\ op'[o].stage = "done" /\ \A x \in Ops \ {o} : op'[x] = op[x]
    BY <1>1, <2>1, Answered
  <2>3. UniqueInv'
    BY <1>1, <2>1, <2>2, UniqueKept DEF Live
  <2>4. Shapes'
    BY <1>1, <2>1, <2>2 DEF IInv, Shapes
  <2> QED
    BY <1>2, <2>2, <2>3, <2>4 DEF IInv
<1>4. CASE list_permissions(a) = {}
  <2>1. PICK w : w = [Idle EXCEPT !.stage = "grant", !.action = a, !.budget = b]
    OBVIOUS
  <2>2. w \in OpRecs /\ w.stage = "grant" /\ w.action = a
    BY <2>1, BudgetFacts DEF OpRecs, Idle
  <2>3. /\ op' = [op EXCEPT ![o] = w]
        /\ overlap' = (overlap \/ \E x \in Ops : op[x].stage = "grant")
    BY <1>4, <2>1 DEF grant_permission
  <2>4. /\ OpInv' /\ op' \in [Ops -> OpRecs] /\ op'[o] = w
        /\ \A x \in Ops \ {o} : op'[x] = op[x]
    BY <1>1, <2>2, <2>3, OpStep DEF OpOK
  <2>5. UniqueInv'
    <3>1. SUFFICES ASSUME ~overlap'
                   PROVE  /\ \A p, q \in Live' : grants'[p].action = grants'[q].action => p = q
                          /\ \A y, x \in Ops : op'[y].stage = "grant" /\ op'[x].stage = "grant" => y = x
                          /\ \A x \in Ops : op'[x].stage = "grant" =>
                               {p \in Live' : grants'[p].action = op'[x].action} = {}
      BY DEF UniqueInv, list_permissions
    <3>2. ~overlap /\ \A x \in Ops : op[x].stage # "grant"
      BY <2>3, <3>1
    <3>3. \A p, q \in Live : grants[p].action = grants[q].action => p = q
      BY <3>2 DEF IInv, UniqueInv
    <3>4. \A x \in Ops : op'[x].stage = "grant" => x = o
      BY <2>4, <3>2
    <3>5. Live' = Live
      BY <1>1 DEF Live
    <3> QED
      BY <1>1, <1>4, <2>2, <2>4, <3>3, <3>4, <3>5 DEF list_permissions
  <2>6. Shapes'
    <3>1. overlap' \in BOOLEAN
      BY <2>3
    <3> QED
      BY <1>1, <2>4, <3>1 DEF IInv, Shapes
  <2> QED
    BY <1>2, <2>4, <2>5, <2>6 DEF IInv
<1> QED
  BY <1>3, <1>4

\* A new row of permission_grants.
LEMMA GrantAppended ==
  ASSUME IInv, NEW g \in GrantRows, g.live, grants' = Append(grants, g)
  PROVE  LET p == Len(grants) + 1
         IN  /\ p \in Nat \ {0} /\ p \notin DOMAIN grants
             /\ grants' \in Seq(GrantRows) /\ Len(grants') = p /\ grants'[p] = g
             /\ DOMAIN grants' = DOMAIN grants \cup {p}
             /\ \A q \in DOMAIN grants : grants'[q] = grants[q]
             /\ Live' = Live \cup {p}
<1>1. grants \in Seq(GrantRows) /\ Len(grants) \in Nat /\ DOMAIN grants = 1 .. Len(grants)
  BY Sizes DEF IInv, Shapes
<1>2. PICK p \in Nat \ {0} : p = Len(grants) + 1
  BY <1>1
<1>3. /\ grants' \in Seq(GrantRows) /\ Len(grants') = p /\ grants'[p] = g
      /\ \A q \in 1 .. Len(grants) : grants'[q] = grants[q]
  BY <1>1, <1>2
<1>4. DOMAIN grants' = DOMAIN grants \cup {p} /\ p \notin DOMAIN grants
  BY <1>1, <1>2, <1>3
<1>5. Live' = Live \cup {p}
  BY <1>1, <1>3, <1>4 DEF Live
<1> QED
  BY <1>1, <1>2, <1>3, <1>4, <1>5

\* grant_permission's inserts keep the invariant.
LEMMA InsertGrantStep ==
  ASSUME IInv, NEW o \in Ops, InsertGrant(o)
  PROVE  IInv'
<1>1. /\ clock' = clock /\ load' = load /\ keys' = keys /\ overlap' = overlap /\ Answer(o)
      /\ cache' = cache /\ pending' = pending /\ call' = call /\ faults' = faults
      /\ op[o].stage = "grant"
  BY DEF InsertGrant
<1>2. PICK b \in AnyBudget : b = op[o].budget
  BY DEF IInv, Shapes, OpRecs
<1>3. PICK a \in Actions : a = op[o].action
  BY <1>1 DEF IInv, OpInv
<1>4. PICK g : g = [action |-> a, budget |-> b, live |-> TRUE]
  OBVIOUS
<1>5. g \in GrantRows /\ g.live /\ g.budget = b /\ g.action = a
  BY <1>4 DEF GrantRows
<1>6. grants' = Append(grants, g)
  BY <1>2, <1>3, <1>4 DEF InsertGrant
<1>7. PICK p \in Nat \ {0} : p = Len(grants) + 1
  BY Sizes DEF IInv
<1>8. /\ p \notin DOMAIN grants /\ grants' \in Seq(GrantRows) /\ Len(grants') = p /\ grants'[p] = g
      /\ DOMAIN grants' = DOMAIN grants \cup {p}
      /\ \A q \in DOMAIN grants : grants'[q] = grants[q]
      /\ Live' = Live \cup {p}
  BY <1>5, <1>6, <1>7, GrantAppended
<1>9. Len(grants) \in Nat /\ clock \in Nat /\ \A q \in Live : q \in DOMAIN grants
  BY Sizes DEF IInv
<1>10. /\ OpInv' /\ op' \in [Ops -> OpRecs] /\ op'[o].stage = "done"
       /\ \A x \in Ops \ {o} : op'[x] = op[x]
  BY <1>1, <1>8, Answered
<1>11. KeysInv' /\ AnswersInv' /\ BudgetAge'
  BY <1>1, <1>7, <1>8, <1>9, KeysKept, CallsKept
<1>12. UniqueInv'
  <2>1. SUFFICES ASSUME ~overlap
                 PROVE  /\ \A q, s \in Live' : grants'[q].action = grants'[s].action => q = s
                        /\ \A y, x \in Ops : op'[y].stage = "grant" /\ op'[x].stage = "grant" => y = x
                        /\ \A x \in Ops : op'[x].stage = "grant" =>
                             {q \in Live' : grants'[q].action = op'[x].action} = {}
    BY <1>1 DEF UniqueInv, list_permissions
  <2>2. /\ \A q, s \in Live : grants[q].action = grants[s].action => q = s
        /\ \A x \in Ops : op[x].stage = "grant" => x = o
        /\ {q \in Live : grants[q].action = a} = {}
    BY <1>1, <1>3, <2>1 DEF IInv, UniqueInv, list_permissions
  <2>3. \A x \in Ops : op'[x].stage # "grant"
    BY <1>10, <2>2
  <2> QED
    BY <1>5, <1>8, <1>9, <2>2, <2>3
<1>13. Shapes'
  BY <1>1, <1>8, <1>10 DEF IInv, Shapes
<1>14. \A r \in DOMAIN counters : /\ r[1] \in Live /\ r[1] \in DOMAIN grants
                                 /\ CeilingOK(r, counters[r], grants'[r[1]].budget, clock)
  BY <1>8, <1>9 DEF IInv, CountersInv, CeilingsInv
<1>15. CountersInv' /\ CeilingsInv'
  <2>1. CASE b = NoBudget
    <3>1. counters' = counters
      BY <1>2, <2>1 DEF InsertGrant
    <3>2. PICK key : key \notin DOMAIN counters
      <4>1. <<p, 0>>[1] \notin DOMAIN grants
        BY <1>8
      <4> QED
        BY <1>14, <4>1
    <3> QED
      BY <1>1, <1>8, <1>14, <3>1, <3>2, CountersStep DEF IInv, CountersInv
  <2>2. CASE b # NoBudget
    <3>1. PICK s \in Nat, e \in Nat : /\ s = PeriodBounds(b.period, clock).start
                                      /\ e = PeriodBounds(b.period, clock).end
                                      /\ s <= clock /\ s < e
      <4>1. b.period \in DOMAIN Starts /\ clock \in 0 .. MaxClock
        BY <1>7, <2>2, BudgetFacts, Sizes DEF IInv, AnyBudget
      <4> QED
        BY <4>1, PeriodFacts
    <3>2. PICK key : key = <<p, s>>
      OBVIOUS
    <3>3. PICK row : row = Row(e, b.ceiling, 0, TRUE)
      OBVIOUS
    <3>4. counters' = WithRow(counters, key, row)
      BY <1>2, <1>7, <2>2, <3>1, <3>2, <3>3 DEF InsertGrant
    <3>5. /\ DOMAIN counters' = DOMAIN counters \cup {key} /\ counters'[key] = row
          /\ \A r \in DOMAIN counters : r # key => counters'[r] = counters[r]
          /\ counters' = [r \in DOMAIN counters' |-> counters'[r]]
      BY <3>4 DEF WithRow
    <3>6. b \in Budgets /\ b.ceiling \in Ceilings /\ b.ceiling \in Nat
      BY <2>2, BudgetFacts DEF AnyBudget
    <3>7. key \in Nat \X Nat /\ key[1] = p /\ key[2] = s
      BY <3>2
    <3>8. row \in CounterRows /\ row.end = e /\ row.ceiling = b.ceiling /\ row.used = 0
          /\ row.peak = b.ceiling
      BY <3>3, <3>6 DEF Row, CounterRows
    <3>9. RowOK(key, row, clock)
      BY <3>1, <3>6, <3>7, <3>8 DEF RowOK
    <3>10. CeilingOK(key, row, b, clock)
      BY <3>8 DEF CeilingOK
    <3> QED
      BY <1>1, <1>5, <1>8, <1>14, <3>5, <3>7, <3>9, <3>10, CountersStep
  <2> QED
    BY <2>1, <2>2
<1> QED
  BY <1>10, <1>11, <1>12, <1>13, <1>15 DEF IInv

\* One row of permission_grants is rewritten.
LEMMA GrantChanged ==
  ASSUME IInv, NEW p \in DOMAIN grants, NEW g \in GrantRows, grants' = [grants EXCEPT ![p] = g]
  PROVE  /\ grants' \in Seq(GrantRows) /\ Len(grants') = Len(grants) /\ DOMAIN grants' = DOMAIN grants
         /\ grants'[p] = g /\ \A q \in DOMAIN grants : q # p => grants'[q] = grants[q]
         /\ \A q \in Live' : q \in Live \/ q = p
         /\ \A q \in Live : q # p => q \in Live'
         /\ p \in Live' <=> g.live
<1>1. grants \in Seq(GrantRows) /\ Len(grants) \in Nat /\ DOMAIN grants = 1 .. Len(grants)
  BY Sizes DEF IInv, Shapes
<1>2. grants' \in Seq(GrantRows) /\ Len(grants') = Len(grants) /\ DOMAIN grants' = DOMAIN grants
  BY <1>1
<1>3. grants'[p] = g /\ \A q \in DOMAIN grants : q # p => grants'[q] = grants[q]
  BY <1>1
<1> QED
  BY <1>2, <1>3 DEF Live

\* The counters of the other grants, with what is true of them.
LEMMA CascadeFacts ==
  ASSUME IInv, NEW p, counters' = Cascade(p)
  PROVE  /\ counters' = [r \in DOMAIN counters' |-> counters'[r]]
         /\ \A r \in DOMAIN counters' :
              /\ r \in DOMAIN counters /\ counters'[r] = counters[r] /\ r[1] # p /\ r[1] \in Live
              /\ CeilingOK(r, counters[r], grants[r[1]].budget, clock)
<1>1. /\ DOMAIN counters' = DOMAIN counters \ RowsOf(p)
      /\ counters' = [r \in DOMAIN counters' |-> counters'[r]]
      /\ \A r \in DOMAIN counters' : counters'[r] = counters[r]
  BY DEF Cascade
<1>2. \A r \in DOMAIN counters : r[1] \in Live /\ CeilingOK(r, counters[r], grants[r[1]].budget, clock)
  BY DEF IInv, CountersInv, CeilingsInv
<1> QED
  BY <1>1, <1>2 DEF RowsOf

\* revoke_permission keeps the invariant.
LEMMA RevokeStep ==
  ASSUME IInv, NEW o \in Ops, NEW p \in DOMAIN grants, revoke_permission(o, p)
  PROVE  IInv'
<1>1. /\ clock' = clock /\ load' = load /\ keys' = keys /\ overlap' = overlap /\ Answer(o)
      /\ cache' = cache /\ pending' = pending /\ call' = call /\ faults' = faults
      /\ counters' = Cascade(p)
  BY DEF revoke_permission
<1>2. grants[p] \in GrantRows /\ clock \in Nat /\ Len(grants) \in Nat
      /\ \A q \in Live : q \in DOMAIN grants
  BY Sizes DEF IInv
<1>3. PICK g \in GrantRows : g = [grants[p] EXCEPT !.live = FALSE]
  BY <1>2 DEF GrantRows
<1>4. ~g.live /\ g.action = grants[p].action
  BY <1>2, <1>3 DEF GrantRows
<1>5. grants' = [grants EXCEPT ![p] = g]
  BY <1>3 DEF revoke_permission
<1>6. /\ grants' \in Seq(GrantRows) /\ Len(grants') = Len(grants) /\ DOMAIN grants' = DOMAIN grants
      /\ grants'[p] = g /\ \A q \in DOMAIN grants : q # p => grants'[q] = grants[q]
      /\ \A q \in Live' : q \in Live \/ q = p
      /\ \A q \in Live : q # p => q \in Live'
      /\ p \in Live' <=> g.live
  BY <1>5, GrantChanged
<1>7. /\ OpInv' /\ op' \in [Ops -> OpRecs] /\ op'[o].stage = "done"
      /\ \A x \in Ops \ {o} : op'[x] = op[x]
  BY <1>1, <1>6, Answered
<1>8. KeysInv' /\ AnswersInv' /\ BudgetAge'
  BY <1>1, <1>2, <1>6, KeysKept, CallsKept
<1>9. \A q \in Live' : q \in Live /\ q # p /\ grants'[q] = grants[q]
  BY <1>2, <1>4, <1>6
<1>10. UniqueInv'
  BY <1>1, <1>7, <1>9, UniqueKept
<1>11. Shapes'
  BY <1>1, <1>6, <1>7 DEF IInv, Shapes
<1>12. /\ counters' = [r \in DOMAIN counters' |-> counters'[r]]
       /\ \A r \in DOMAIN counters' :
            /\ r \in DOMAIN counters /\ counters'[r] = counters[r] /\ r[1] # p /\ r[1] \in Live
            /\ CeilingOK(r, counters[r], grants[r[1]].budget, clock)
  BY <1>1, CascadeFacts
<1>13. PICK key : key \notin DOMAIN counters'
  <2>1. <<p, 0>>[1] = p
    OBVIOUS
  <2> QED
    BY <1>12, <2>1
<1>14. CountersInv' /\ CeilingsInv'
  BY <1>1, <1>2, <1>6, <1>12, <1>13, CountersStep
<1> QED
  BY <1>7, <1>8, <1>10, <1>11, <1>14 DEF IInv

\* update_permission's read keeps the invariant.
LEMMA UpdateStep ==
  ASSUME IInv, NEW o \in Ops, NEW p \in DOMAIN grants, NEW change \in {"set", "remove", "other"},
         NEW b \in AnyBudget, change = "set" => b \in Budgets, update_permission(o, p, change, b)
  PROVE  IInv'
<1>1. /\ clock' = clock /\ load' = load /\ grants' = grants /\ counters' = counters /\ keys' = keys
      /\ cache' = cache /\ pending' = pending /\ call' = call /\ faults' = faults /\ overlap' = overlap
  BY DEF update_permission, db
<1>2. CountersInv' /\ CeilingsInv' /\ KeysInv' /\ AnswersInv' /\ BudgetAge'
  BY <1>1, TablesKept, KeysKept, CallsKept, Sizes DEF IInv
<1>3. /\ OpInv' /\ op' \in [Ops -> OpRecs] /\ op'[o].stage # "grant"
      /\ \A x \in Ops \ {o} : op'[x] = op[x]
  <2>1. CASE p \notin Live
    <3>1. Answer(o)
      BY <2>1 DEF update_permission
    <3> QED
      BY <1>1, <3>1, Answered
  <2>2. CASE p \in Live
    <3>1. grants[p].budget \in AnyBudget /\ p \in Nat
      BY Sizes DEF IInv, GrantRows
    <3>2. PICK w : w = [Idle EXCEPT !.stage = "patch", !.perm = p, !.change = change,
                                    !.budget = b, !.old = grants[p].budget]
      OBVIOUS
    <3>3. w \in OpRecs /\ w.stage = "patch" /\ w.perm = p /\ w.change = change /\ w.budget = b
      BY <3>1, <3>2, BudgetFacts DEF OpRecs, Idle
    <3>4. op' = [op EXCEPT ![o] = w]
      BY <2>2, <3>2 DEF update_permission
    <3>5. OpOK(w, DOMAIN grants', clock)
      BY <1>1, <3>3 DEF OpOK
    <3> QED
      BY <1>1, <3>3, <3>4, <3>5, OpStep
  <2> QED
    BY <2>1, <2>2
<1>4. UniqueInv'
  BY <1>1, <1>3, UniqueKept DEF Live
<1>5. Shapes'
  BY <1>1, <1>3 DEF IInv, Shapes
<1> QED
  BY <1>2, <1>3, <1>4, <1>5 DEF IInv

\* The counter update_permission writes: the row of the current period, with
\* the new ceiling.
LEMMA Upserted ==
  ASSUME IInv, NEW p \in Live, NEW old, NEW new \in Budgets, counters' = UpsertCounter(p, old, new),
         NEW key, key = <<p, PeriodBounds(new.period, clock).start>>
  PROVE  /\ key \in Nat \X Nat /\ key[1] = p /\ key[2] = PeriodBounds(new.period, clock).start
         /\ DOMAIN counters' = DOMAIN counters \cup {key}
         /\ counters' = [r \in DOMAIN counters' |-> counters'[r]]
         /\ \A r \in DOMAIN counters : r # key => counters'[r] = counters[r]
         /\ RowOK(key, counters'[key], clock) /\ counters'[key].ceiling = new.ceiling
<1>1. clock \in Nat /\ p \in Nat
  BY Sizes DEF IInv
<1>2. PICK s \in Nat, e \in Nat : /\ s = PeriodBounds(new.period, clock).start
                                  /\ e = PeriodBounds(new.period, clock).end
                                  /\ s <= clock /\ s < e
  BY PeriodFacts, BudgetFacts, Sizes DEF IInv
<1>3. key \in Nat \X Nat /\ key = <<p, s>>
  BY <1>1, <1>2
<1>4. key[1] = p /\ key[2] = s
  BY <1>3
<1>5. new.ceiling \in Ceilings /\ new.ceiling \in Nat
  BY BudgetFacts
<1>6. PICK row : row = Row(e, new.ceiling, 0, TRUE)
  OBVIOUS
<1>7. row \in CounterRows /\ row.end = e /\ row.ceiling = new.ceiling /\ row.used = 0
      /\ row.peak = new.ceiling
  BY <1>5, <1>6 DEF Row, CounterRows
<1>8. RowOK(key, row, clock)
  BY <1>2, <1>3, <1>4, <1>5, <1>7 DEF RowOK
<1>9. CASE key \notin DOMAIN counters
  <2>1. counters' = WithRow(counters, key, row)
    BY <1>2, <1>3, <1>6, <1>9 DEF UpsertCounter
  <2>2. /\ DOMAIN counters' = DOMAIN counters \cup {key} /\ counters'[key] = row
        /\ \A r \in DOMAIN counters : r # key => counters'[r] = counters[r]
        /\ counters' = [r \in DOMAIN counters' |-> counters'[r]]
    BY <2>1 DEF WithRow
  <2> QED
    BY <1>2, <1>3, <1>4, <1>7, <1>8, <2>2
<1>10. CASE key \in DOMAIN counters
  <2>1. counters = [r \in DOMAIN counters |-> counters[r]] /\ RowOK(key, counters[key], clock)
    BY <1>10 DEF IInv, CountersInv
  <2>2. PICK c \in CounterRows : c = counters[key]
    BY <2>1 DEF RowOK
  <2>3. PICK d : d = SetCeiling(c, new.ceiling)
    OBVIOUS
  <2>4. PICK m \in Nat : m = Max({c.peak, new.ceiling}) /\ m >= c.peak /\ m >= new.ceiling
    BY <1>5, MaxOfTwo DEF CounterRows
  <2>5. d = [c EXCEPT !.ceiling = new.ceiling, !.fresh = TRUE, !.peak = m]
    BY <2>3, <2>4 DEF SetCeiling
  <2>6. d \in CounterRows /\ d.end = c.end /\ d.ceiling = new.ceiling /\ d.used = c.used /\ d.peak = m
    BY <1>5, <2>5 DEF CounterRows
  <2>7. c.used <= c.peak /\ s < c.end /\ c.used \in Nat /\ c.peak \in Nat
    BY <1>4, <2>1, <2>2 DEF RowOK, CounterRows
  <2>8. d.used <= d.peak /\ d.ceiling <= d.peak
    BY <1>5, <2>4, <2>6, <2>7
  <2>9. RowOK(key, d, clock)
    BY <1>2, <1>3, <1>4, <2>6, <2>7, <2>8 DEF RowOK
  <2>10. counters' = [counters EXCEPT ![key] = row] \/ counters' = [counters EXCEPT ![key] = d]
    BY <1>2, <1>3, <1>6, <1>10, <2>2, <2>3 DEF UpsertCounter
  <2>11. ASSUME NEW v, counters' = [counters EXCEPT ![key] = v]
         PROVE  /\ DOMAIN counters' = DOMAIN counters \cup {key} /\ counters'[key] = v
                /\ \A r \in DOMAIN counters : r # key => counters'[r] = counters[r]
                /\ counters' = [r \in DOMAIN counters' |-> counters'[r]]
    BY <1>10, <2>1, <2>11
  <2> QED
    BY <1>2, <1>3, <1>4, <1>7, <1>8, <2>6, <2>9, <2>10, <2>11
<1> QED
  BY <1>9, <1>10

\* WritePatch keeps the invariant.
LEMMA PatchStep ==
  ASSUME IInv, NEW o \in Ops, WritePatch(o)
  PROVE  IInv'
<1>1. /\ clock' = clock /\ load' = load /\ keys' = keys /\ overlap' = overlap /\ Answer(o)
      /\ cache' = cache /\ call' = call /\ faults' = faults
      /\ op[o].stage = "patch"
  BY DEF WritePatch
<1>2. PICK p \in DOMAIN grants : p = op[o].perm
  BY <1>1 DEF IInv, OpInv
<1>3. PICK new \in AnyBudget : new = IF op[o].change = "set" THEN op[o].budget ELSE op[o].old
  BY <1>1 DEF IInv, Shapes, OpRecs
<1>4. grants[p] \in GrantRows /\ clock \in Nat /\ Len(grants) \in Nat
      /\ \A q \in Live : q \in DOMAIN grants
  BY Sizes DEF IInv
<1>5. pending' \in Nat
  <2>1. pending' = pending + 1 \/ pending' = pending
    BY DEF WritePatch
  <2> QED
    BY <2>1 DEF IInv, Shapes
<1>6. CASE p \notin Live
  <2>1. grants' = grants /\ counters' = counters
    BY <1>2, <1>6 DEF WritePatch
  <2>2. CountersInv' /\ CeilingsInv' /\ KeysInv' /\ AnswersInv' /\ BudgetAge'
    BY <1>1, <1>4, <2>1, TablesKept, KeysKept, CallsKept
  <2>3. /\ OpInv' /\ op' \in [Ops -> OpRecs] /\ op'[o].stage = "done"
        /\ \A x \in Ops \ {o} : op'[x] = op[x]
    BY <1>1, <2>1, Answered
  <2>4. UniqueInv'
    BY <1>1, <2>1, <2>3, UniqueKept DEF Live
  <2>5. Shapes'
    BY <1>1, <1>5, <2>1, <2>3 DEF IInv, Shapes
  <2> QED
    BY <2>2, <2>3, <2>4, <2>5 DEF IInv
<1>7. CASE p \in Live
  <2>1. PICK g \in GrantRows : g = [grants[p] EXCEPT !.budget = new]
    BY <1>4 DEF GrantRows
  <2>2. g.live /\ g.action = grants[p].action /\ g.budget = new
    BY <1>4, <1>7, <2>1 DEF GrantRows, Live
  <2>3. grants' = [grants EXCEPT ![p] = g]
    BY <1>2, <1>3, <1>7, <2>1 DEF WritePatch
  <2>4. /\ grants' \in Seq(GrantRows) /\ Len(grants') = Len(grants) /\ DOMAIN grants' = DOMAIN grants
        /\ grants'[p] = g /\ \A q \in DOMAIN grants : q # p => grants'[q] = grants[q]
        /\ \A q \in Live' : q \in Live \/ q = p
        /\ \A q \in Live : q # p => q \in Live'
        /\ p \in Live' <=> g.live
    BY <2>3, GrantChanged
  <2>5. Live' = Live
    <3>1. g.live = grants[p].live
      BY <1>4, <2>1 DEF GrantRows
    <3> QED
      BY <2>4, <3>1 DEF Live
  <2>6. /\ OpInv' /\ op' \in [Ops -> OpRecs] /\ op'[o].stage = "done"
        /\ \A x \in Ops \ {o} : op'[x] = op[x]
    BY <1>1, <2>4, Answered
  <2>7. KeysInv' /\ AnswersInv' /\ BudgetAge'
    BY <1>1, <1>4, <2>4, KeysKept, CallsKept
  <2>8. UniqueInv'
    BY <1>1, <1>4, <2>2, <2>4, <2>5, <2>6, UniqueKept
  <2>9. Shapes'
    BY <1>1, <1>5, <2>4, <2>6 DEF IInv, Shapes
  <2>10. \A r \in DOMAIN counters :
           /\ r[1] \in Live /\ RowOK(r, counters[r], clock)
           /\ CeilingOK(r, counters[r], grants[r[1]].budget, clock)
    BY DEF IInv, CountersInv, CeilingsInv
  <2>11. CountersInv' /\ CeilingsInv'
    <3>1. CASE new = NoBudget
      <4>1. counters' = counters
        BY <1>2, <1>3, <1>7, <3>1 DEF WritePatch
      <4>2. \A r \in DOMAIN counters : CeilingOK(r, counters[r], grants'[r[1]].budget, clock)
        BY <1>4, <2>2, <2>4, <2>10, <3>1 DEF CeilingOK
      <4>3. counters' = [r \in DOMAIN counters' |-> counters'[r]]
        BY <4>1 DEF IInv, CountersInv
      <4> QED
        BY <1>1, <2>5, <2>10, <4>1, <4>2, <4>3, CountersStep
    <3>2. CASE new # NoBudget
      <4>0. PICK key : key = <<p, PeriodBounds(new.period, clock).start>>
        OBVIOUS
      <4>1. new \in Budgets
        BY <3>2 DEF AnyBudget
      <4>2. PICK old : counters' = UpsertCounter(p, old, new)
        BY <1>2, <1>3, <1>7, <3>2 DEF WritePatch
      <4>3. /\ key \in Nat \X Nat /\ key[1] = p /\ key[2] = PeriodBounds(new.period, clock).start
            /\ DOMAIN counters' = DOMAIN counters \cup {key}
            /\ counters' = [r \in DOMAIN counters' |-> counters'[r]]
            /\ \A r \in DOMAIN counters : r # key => counters'[r] = counters[r]
            /\ RowOK(key, counters'[key], clock) /\ counters'[key].ceiling = new.ceiling
        BY <1>7, <4>1, <4>2, <4>0, Upserted
      <4>4. ASSUME NEW r \in DOMAIN counters'
            PROVE  r[1] \in Live' /\ CeilingOK(r, counters'[r], grants'[r[1]].budget, clock)
        <5>1. CASE r = key
          <6>1. r[1] = p /\ counters'[r].ceiling = new.ceiling /\ grants'[r[1]].budget = new
            BY <2>2, <2>4, <4>3, <5>1
          <6> QED
            BY <1>7, <2>5, <6>1 DEF CeilingOK
        <5>2. CASE r # key
          <6>1. r \in DOMAIN counters /\ counters'[r] = counters[r] /\ r \in Nat \X Nat
            BY <2>10, <4>3, <4>4, <5>2 DEF RowOK
          <6>2. CASE r[1] = p
            <7>1. r[2] # key[2]
              BY <4>3, <5>2, <6>1, <6>2
            <7> QED
              BY <2>2, <2>4, <2>5, <2>10, <4>3, <6>1, <6>2, <7>1 DEF CeilingOK
          <6>3. CASE r[1] # p
            BY <1>4, <2>4, <2>5, <2>10, <6>1, <6>3
          <6> QED
            BY <6>2, <6>3
        <5> QED
          BY <5>1, <5>2
      <4>5. \A r \in DOMAIN counters' : r # key => r \in DOMAIN counters /\ counters'[r] = counters[r]
        BY <4>3
      <4> QED
        BY <1>1, <4>3, <4>4, <4>5, CountersStep
    <3> QED
      BY <3>1, <3>2
  <2> QED
    BY <2>6, <2>7, <2>8, <2>9, <2>11 DEF IInv
<1> QED
  BY <1>6, <1>7

\* RemoveBudget keeps the invariant.
LEMMA RemoveStep ==
  ASSUME IInv, NEW o \in Ops, RemoveBudget(o)
  PROVE  IInv'
<1>1. /\ clock' = clock /\ load' = load /\ keys' = keys /\ overlap' = overlap /\ Answer(o)
      /\ cache' = cache /\ pending' = pending + 1 /\ call' = call /\ faults' = faults
      /\ op[o].stage = "patch"
  BY DEF RemoveBudget
<1>2. PICK p \in DOMAIN grants : p = op[o].perm
  BY <1>1 DEF IInv, OpInv
<1>3. grants[p] \in GrantRows /\ clock \in Nat /\ Len(grants) \in Nat
      /\ \A q \in Live : q \in DOMAIN grants
  BY Sizes DEF IInv
<1>4. PICK b \in AnyBudget : b = IF p \in Live THEN NoBudget ELSE grants[p].budget
  BY <1>3, BudgetFacts DEF GrantRows
<1>5. PICK g \in GrantRows : g = [grants[p] EXCEPT !.budget = b]
  BY <1>3 DEF GrantRows
<1>6. g.live = grants[p].live /\ g.action = grants[p].action
  BY <1>3, <1>5 DEF GrantRows
<1>7. grants' = [grants EXCEPT ![p] = g]
  BY <1>2, <1>4, <1>5 DEF RemoveBudget
<1>8. /\ grants' \in Seq(GrantRows) /\ Len(grants') = Len(grants) /\ DOMAIN grants' = DOMAIN grants
      /\ grants'[p] = g /\ \A q \in DOMAIN grants : q # p => grants'[q] = grants[q]
      /\ \A q \in Live' : q \in Live \/ q = p
      /\ \A q \in Live : q # p => q \in Live'
      /\ p \in Live' <=> g.live
  BY <1>7, GrantChanged
<1>9. Live' = Live
  BY <1>6, <1>8 DEF Live
<1>10. /\ OpInv' /\ op' \in [Ops -> OpRecs] /\ op'[o].stage = "done"
       /\ \A x \in Ops \ {o} : op'[x] = op[x]
  BY <1>1, <1>8, Answered
<1>11. KeysInv' /\ AnswersInv' /\ BudgetAge'
  BY <1>1, <1>3, <1>8, KeysKept, CallsKept
<1>12. UniqueInv'
  BY <1>1, <1>3, <1>6, <1>8, <1>9, <1>10, UniqueKept
<1>13. Shapes'
  <2>1. pending' \in Nat
    BY <1>1 DEF IInv, Shapes
  <2> QED
    BY <1>1, <1>8, <1>10, <2>1 DEF IInv, Shapes
<1>14. counters' = Cascade(p)
  BY <1>2 DEF RemoveBudget
<1>15. /\ counters' = [r \in DOMAIN counters' |-> counters'[r]]
       /\ \A r \in DOMAIN counters' :
            /\ r \in DOMAIN counters /\ counters'[r] = counters[r] /\ r[1] # p /\ r[1] \in Live
            /\ CeilingOK(r, counters[r], grants[r[1]].budget, clock)
  BY <1>14, CascadeFacts
<1>16. PICK key : key \notin DOMAIN counters'
  <2>1. <<p, 0>>[1] = p
    OBVIOUS
  <2> QED
    BY <1>15, <2>1
<1>17. CountersInv' /\ CeilingsInv'
  BY <1>1, <1>3, <1>8, <1>9, <1>15, <1>16, CountersStep
<1> QED
  BY <1>10, <1>11, <1>12, <1>13, <1>17 DEF IInv

\* A request that leaves the grants alone and is answered.
LEMMA AnsweredOnly ==
  ASSUME IInv, NEW o \in Ops, Answer(o), clock' = clock, load' = load, grants' = grants,
         cache' = cache, pending' = pending, call' = call, faults' = faults, overlap' = overlap
  PROVE  /\ UniqueInv' /\ OpInv' /\ AnswersInv' /\ BudgetAge'
         /\ (keys' = keys => KeysInv') /\ (keys' \in Seq(KeyRows) => Shapes')
<1>1. /\ OpInv' /\ op' \in [Ops -> OpRecs] /\ op'[o].stage = "done"
      /\ \A x \in Ops \ {o} : op'[x] = op[x]
  BY Answered
<1>2. clock \in Nat /\ Len(grants) \in Nat
  BY Sizes DEF IInv
<1>3. AnswersInv' /\ BudgetAge' /\ (keys' = keys => KeysInv')
  BY <1>2, KeysKept, CallsKept
<1>4. UniqueInv'
  BY <1>1, UniqueKept DEF Live
<1>5. keys' \in Seq(KeyRows) => Shapes'
  BY <1>1 DEF IInv, Shapes
<1> QED
  BY <1>1, <1>3, <1>4, <1>5

\* reset_budget_counter keeps the invariant.
LEMMA ResetStep ==
  ASSUME IInv, NEW o \in Ops, NEW p \in DOMAIN grants, reset_budget_counter(o, p)
  PROVE  IInv'
<1>1. /\ clock' = clock /\ load' = load /\ grants' = grants /\ keys' = keys /\ overlap' = overlap
      /\ cache' = cache /\ pending' = pending /\ call' = call /\ faults' = faults /\ Answer(o)
  BY DEF reset_budget_counter
<1>2. UniqueInv' /\ OpInv' /\ AnswersInv' /\ BudgetAge' /\ KeysInv' /\ Shapes'
  <2>1. keys' \in Seq(KeyRows)
    BY <1>1 DEF IInv, Shapes
  <2> QED
    BY <1>1, <2>1, AnsweredOnly
<1>3. PICK last : counters' = [r \in DOMAIN counters |->
                     IF r \in last THEN [counters[r] EXCEPT !.used = 0] ELSE counters[r]]
  BY DEF reset_budget_counter
<1>4. ASSUME NEW r \in DOMAIN counters
      PROVE  /\ r[1] \in Live' /\ RowOK(r, counters'[r], clock')
             /\ CeilingOK(r, counters'[r], grants'[r[1]].budget, clock')
  <2>1. /\ r[1] \in Live /\ RowOK(r, counters[r], clock)
        /\ CeilingOK(r, counters[r], grants[r[1]].budget, clock)
    BY <1>4 DEF IInv, CountersInv, CeilingsInv
  <2>2. PICK row \in CounterRows : row = counters[r]
    BY <2>1 DEF RowOK
  <2>3. CASE r \in last
    <3>1. PICK z \in CounterRows : z = [row EXCEPT !.used = 0]
      BY DEF CounterRows
    <3>2. z.end = row.end /\ z.ceiling = row.ceiling /\ z.used = 0 /\ z.fresh = row.fresh
          /\ z.peak = row.peak /\ row.peak \in Nat
      BY <3>1 DEF CounterRows
    <3>3. counters'[r] = z
      BY <1>3, <2>2, <2>3, <3>1
    <3> QED
      BY <1>1, <2>1, <2>2, <3>2, <3>3 DEF RowOK, CeilingOK, Live
  <2>4. CASE r \notin last
    BY <1>1, <1>3, <2>1, <2>4 DEF Live
  <2> QED
    BY <2>3, <2>4
<1>5. DOMAIN counters' = DOMAIN counters /\ counters' = [r \in DOMAIN counters' |-> counters'[r]]
  BY <1>3
<1>6. CountersInv' /\ CeilingsInv'
  BY <1>4, <1>5 DEF CountersInv, CeilingsInv
<1> QED
  BY <1>2, <1>6 DEF IInv

-----------------------------------------------------------------------------
(* API keys.                                                               *)

\* create_api_key's checks keep the invariant.
LEMMA CreateStep ==
  ASSUME IInv, NEW o \in Ops, NEW a \in Actions, NEW life \in 0 .. MaxLife + 1,
         create_api_key(o, a, life)
  PROVE  IInv'
<1>1. /\ clock' = clock /\ load' = load /\ grants' = grants /\ counters' = counters /\ keys' = keys
      /\ cache' = cache /\ pending' = pending /\ call' = call /\ faults' = faults /\ overlap' = overlap
  BY DEF create_api_key, db
<1>2. CountersInv' /\ CeilingsInv' /\ KeysInv' /\ AnswersInv' /\ BudgetAge'
  BY <1>1, TablesKept, KeysKept, CallsKept, Sizes DEF IInv
<1>3. /\ OpInv' /\ op' \in [Ops -> OpRecs] /\ op'[o].stage # "grant"
      /\ \A x \in Ops \ {o} : op'[x] = op[x]
  <2>1. CASE list_permissions(a) # {} /\ PolicyAllows(life)
    <3>1. clock \in Nat /\ MaxLife \in Nat /\ life \in Nat /\ life <= MaxLife
      BY <2>1, LifeFacts, Sizes DEF IInv
    <3>2. PICK e \in Nat : e = (IF life = 0 THEN 0 ELSE clock + life) /\ e <= clock + MaxLife
      BY <3>1
    <3>3. PICK w : w = [Idle EXCEPT !.stage = "create", !.action = a, !.life = e]
      OBVIOUS
    <3>4. w \in OpRecs /\ w.stage = "create" /\ w.action = a /\ w.life = e
      BY <3>3, BudgetFacts DEF OpRecs, Idle
    <3>5. op' = [op EXCEPT ![o] = w]
      BY <2>1, <3>2, <3>3 DEF create_api_key
    <3>6. OpOK(w, DOMAIN grants', clock)
      BY <3>2, <3>4 DEF OpOK
    <3> QED
      BY <1>1, <3>4, <3>5, <3>6, OpStep
  <2>2. CASE ~(list_permissions(a) # {} /\ PolicyAllows(life))
    <3>1. Answer(o)
      BY <2>2 DEF create_api_key
    <3> QED
      BY <1>1, <3>1, Answered
  <2> QED
    BY <2>1, <2>2
<1>4. UniqueInv'
  BY <1>1, <1>3, UniqueKept DEF Live
<1>5. Shapes'
  BY <1>1, <1>3 DEF IInv, Shapes
<1> QED
  BY <1>2, <1>3, <1>4, <1>5 DEF IInv

\* A new row of service_api_keys.
LEMMA KeyAppended ==
  ASSUME IInv, NEW k \in KeyRows, keys' = Append(keys, k), clock' = clock, k.created <= clock,
         k.expires # 0 => k.expires - k.created <= MaxLife
  PROVE  keys' \in Seq(KeyRows) /\ KeysInv'
<1>1. keys \in Seq(KeyRows) /\ Len(keys) \in Nat /\ DOMAIN keys = 1 .. Len(keys)
  BY Sizes DEF IInv, Shapes
<1>2. PICK n \in Nat : n = Len(keys) + 1
  BY <1>1
<1>3. /\ keys' \in Seq(KeyRows) /\ Len(keys') = n /\ keys'[n] = k
      /\ \A q \in 1 .. Len(keys) : keys'[q] = keys[q]
  BY <1>1, <1>2
<1>4. DOMAIN keys' = DOMAIN keys \cup {n}
  BY <1>1, <1>2, <1>3
<1>5. ASSUME NEW q \in DOMAIN keys'
      PROVE  keys'[q].created <= clock'
             /\ (keys'[q].expires # 0 => keys'[q].expires - keys'[q].created <= MaxLife)
  <2>1. CASE q = n
    BY <1>3, <2>1
  <2>2. CASE q \in DOMAIN keys
    BY <1>1, <1>3, <2>2 DEF IInv, KeysInv
  <2> QED
    BY <1>4, <2>1, <2>2
<1>6. KeysInv'
  BY <1>5 DEF KeysInv
<1> QED
  BY <1>3, <1>6

\* create_api_key's insert keeps the invariant.
LEMMA InsertKeyStep ==
  ASSUME IInv, NEW o \in Ops, InsertKey(o)
  PROVE  IInv'
<1>1. /\ clock' = clock /\ load' = load /\ grants' = grants /\ counters' = counters
      /\ cache' = cache /\ pending' = pending /\ call' = call /\ faults' = faults /\ overlap' = overlap
      /\ Answer(o) /\ op[o].stage = "create"
  BY DEF InsertKey
<1>2. PICK a \in Actions : a = op[o].action
  BY <1>1 DEF IInv, OpInv
<1>3. PICK e \in Nat : e = op[o].life /\ e <= clock + MaxLife
  BY <1>1 DEF IInv, OpInv, Shapes, OpRecs
<1>4. clock \in Nat /\ MaxLife \in Nat
  BY Sizes, LifeFacts DEF IInv
<1>5. PICK k : k = [action |-> a, created |-> clock, expires |-> e, revoked |-> FALSE]
  OBVIOUS
<1>6. k \in KeyRows /\ k.created = clock /\ k.expires = e
  BY <1>4, <1>5 DEF KeyRows
<1>7. keys' = Append(keys, k)
  BY <1>2, <1>3, <1>5 DEF InsertKey
<1>8. k.created <= clock /\ k.expires - k.created <= MaxLife
  BY <1>3, <1>4, <1>6
<1>9. keys' \in Seq(KeyRows) /\ KeysInv'
  BY <1>1, <1>6, <1>7, <1>8, KeyAppended
<1>10. UniqueInv' /\ OpInv' /\ AnswersInv' /\ BudgetAge' /\ Shapes'
  BY <1>1, <1>9, AnsweredOnly
<1>11. CountersInv' /\ CeilingsInv'
  BY <1>1, TablesKept
<1> QED
  BY <1>9, <1>10, <1>11 DEF IInv

\* rotate_api_key keeps the invariant: the new key lives as long as the old.
LEMMA RotateStep ==
  ASSUME IInv, NEW o \in Ops, NEW j \in DOMAIN keys, rotate_api_key(o, j)
  PROVE  IInv'
<1>1. /\ clock' = clock /\ load' = load /\ grants' = grants /\ counters' = counters
      /\ cache' = cache /\ pending' = pending /\ call' = call /\ faults' = faults /\ overlap' = overlap
      /\ Answer(o) /\ keys' = Append(keys, Rotated(j))
  BY DEF rotate_api_key
<1>2. PICK q \in KeyRows : q = keys[j]
  BY Sizes DEF IInv
<1>3. /\ q.created \in Nat /\ q.expires \in Nat /\ q.created <= clock /\ clock \in Nat
      /\ q.expires # 0 => q.expires - q.created <= MaxLife
  BY <1>2, Sizes DEF IInv, KeysInv, KeyRows
<1>4. PICK e : e = IF q.expires = 0 THEN 0 ELSE clock + (q.expires - q.created)
  OBVIOUS
<1>5. e \in Nat /\ (e # 0 => e - clock <= MaxLife)
  BY <1>3, <1>4, LifeFacts
<1>6. PICK k : k = Rotated(j)
  OBVIOUS
<1>7. k = [q EXCEPT !.created = clock, !.revoked = FALSE, !.expires = e]
  BY <1>2, <1>4, <1>6 DEF Rotated
<1>8. k \in KeyRows /\ k.created = clock /\ k.expires = e
  BY <1>3, <1>5, <1>7 DEF KeyRows
<1>9. keys' \in Seq(KeyRows) /\ KeysInv'
  BY <1>1, <1>3, <1>5, <1>6, <1>8, KeyAppended
<1>10. UniqueInv' /\ OpInv' /\ AnswersInv' /\ BudgetAge' /\ Shapes'
  BY <1>1, <1>9, AnsweredOnly
<1>11. CountersInv' /\ CeilingsInv'
  BY <1>1, TablesKept
<1> QED
  BY <1>9, <1>10, <1>11 DEF IInv

\* revoke_api_key keeps the invariant.
LEMMA RevokeKeyStep ==
  ASSUME IInv, NEW o \in Ops, NEW j \in DOMAIN keys, revoke_api_key(o, j)
  PROVE  IInv'
<1>1. /\ clock' = clock /\ load' = load /\ grants' = grants /\ counters' = counters
      /\ cache' = cache /\ pending' = pending /\ call' = call /\ faults' = faults /\ overlap' = overlap
      /\ Answer(o) /\ keys' = [keys EXCEPT ![j].revoked = TRUE]
  BY DEF revoke_api_key
<1>2. keys \in Seq(KeyRows) /\ Len(keys) \in Nat /\ DOMAIN keys = 1 .. Len(keys) /\ keys[j] \in KeyRows
  BY Sizes DEF IInv, Shapes
<1>3. PICK k \in KeyRows : k = [keys[j] EXCEPT !.revoked = TRUE]
  BY <1>2 DEF KeyRows
<1>4. k.created = keys[j].created /\ k.expires = keys[j].expires
  BY <1>2, <1>3 DEF KeyRows
<1>5. keys' = [keys EXCEPT ![j] = k]
  BY <1>1, <1>3
<1>6. /\ keys' \in Seq(KeyRows) /\ DOMAIN keys' = DOMAIN keys /\ keys'[j] = k
      /\ \A q \in DOMAIN keys : q # j => keys'[q] = keys[q]
  BY <1>2, <1>5
<1>7. \A q \in DOMAIN keys : keys'[q].created = keys[q].created /\ keys'[q].expires = keys[q].expires
  BY <1>4, <1>6
<1>8. KeysInv'
  BY <1>1, <1>6, <1>7 DEF IInv, KeysInv
<1>9. UniqueInv' /\ OpInv' /\ AnswersInv' /\ BudgetAge' /\ Shapes'
  BY <1>1, <1>6, AnsweredOnly
<1>10. CountersInv' /\ CeilingsInv'
  BY <1>1, TablesKept
<1> QED
  BY <1>8, <1>9, <1>10 DEF IInv

-----------------------------------------------------------------------------
(* The proxied calls.                                                      *)

\* What one call has to satisfy, and one cached answer.
CallOK(w) ==
  /\ w.val.perm \in 0 .. Len(grants)
  /\ w.stage = "store" => w.started <= w.read /\ w.action \in Actions
  /\ w.stage \in {"check", "second"} => w.val # Nothing
  /\ w.stage \in {"check", "second", "unbudgeted"} => w.started - w.read < Ttl

EntryOK(e) == e # Absent => e.at <= e.read /\ e.val.perm \in 0 .. Len(grants)

\* Every call and every cached answer satisfies it.
LEMMA CallFacts ==
  ASSUME IInv
  PROVE  /\ \A c \in Calls : call[c] \in CallRecs /\ CallOK(call[c])
         /\ \A a \in Actions : cache[a] \in Entries /\ EntryOK(cache[a])
         /\ cache \in [Actions -> Entries]
<1>1. call \in [Calls -> CallRecs] /\ cache \in [Actions -> Entries]
  BY DEF IInv, Shapes
<1>2. ASSUME NEW c \in Calls PROVE CallOK(call[c])
  BY DEF IInv, AnswersInv, BudgetAge, CallOK
<1>3. ASSUME NEW a \in Actions PROVE EntryOK(cache[a])
  BY DEF IInv, AnswersInv, EntryOK
<1> QED
  BY <1>1, <1>2, <1>3

\* One call takes a step.
LEMMA CallStep ==
  ASSUME IInv, NEW c \in Calls, NEW w \in CallRecs, call' = [call EXCEPT ![c] = w], CallOK(w),
         clock' = clock, load' = load, grants' = grants, keys' = keys, pending' = pending,
         op' = op, overlap' = overlap, faults' \in Nat, cache' \in [Actions -> Entries],
         \A a \in Actions : EntryOK(cache'[a])
  PROVE  /\ Shapes' /\ UniqueInv' /\ OpInv' /\ AnswersInv' /\ KeysInv' /\ BudgetAge'
         /\ counters' = counters => IInv'
<1>1. /\ call' \in [Calls -> CallRecs] /\ call'[c] = w
      /\ \A x \in Calls : x # c => call'[x] = call[x]
  BY DEF IInv, Shapes
<1>2. \A x \in Calls : CallOK(call'[x])
  BY <1>1, CallFacts
<1>3. AnswersInv'
  BY <1>2 DEF AnswersInv, CallOK, EntryOK
<1>4. BudgetAge'
  BY <1>2 DEF BudgetAge, CallOK
<1>5. Shapes'
  BY <1>1 DEF IInv, Shapes
<1>6. UniqueInv' /\ OpInv' /\ KeysInv'
  BY OpsKept, KeysKept, Sizes DEF IInv
<1>7. counters' = counters => CountersInv' /\ CeilingsInv'
  BY TablesKept
<1> QED
  BY <1>3, <1>4, <1>5, <1>6, <1>7 DEF IInv

\* The record of a finished call.
LEMMA Finished ==
  ASSUME IInv, NEW result \in {"counted", "failedopen", "refused", "uncounted"}
  PROVE  [NoCall EXCEPT !.stage = result] \in CallRecs /\ CallOK([NoCall EXCEPT !.stage = result])
<1>1. PICK w : w = [NoCall EXCEPT !.stage = result]
  OBVIOUS
<1>2. w \in CallRecs /\ w.stage = result /\ w.val = Nothing
  BY <1>1, BudgetFacts DEF NoCall, CallRecs
<1>3. Len(grants) \in Nat
  BY Sizes DEF IInv
<1>4. CallOK(w)
  BY <1>2, <1>3, BudgetFacts DEF CallOK
<1> QED
  BY <1>1, <1>2, <1>4

\* Where a resolved call goes on.
LEMMA GateFacts ==
  ASSUME NEW v
  PROVE  Gate(v) \in {"unbudgeted", "check"} /\ (Gate(v) = "check" => v # Nothing)
  BY DEF Gate

\* ResolveAction with a cached answer keeps the invariant.
LEMMA CachedStep ==
  ASSUME IInv, NEW c \in Calls, NEW a \in Actions, ResolveCached(c, a)
  PROVE  IInv'
<1>1. /\ clock' = clock /\ load' = load /\ grants' = grants /\ counters' = counters /\ keys' = keys
      /\ cache' = cache /\ pending' = pending /\ op' = op /\ faults' = faults /\ overlap' = overlap
      /\ cache[a] # Absent /\ clock - cache[a].at < Ttl
  BY DEF ResolveCached, db, Cached
<1>2. PICK e \in Entries : e = cache[a] /\ e # Absent /\ EntryOK(e)
  BY <1>1, CallFacts
<1>3. /\ e.at \in Nat /\ e.read \in Nat /\ e.val \in Vals /\ e.at <= e.read
      /\ e.val.perm \in 0 .. Len(grants)
  BY <1>2 DEF Entries, EntryOK
<1>4. clock \in Nat /\ Ttl \in Nat
  BY Sizes, BudgetAssumption DEF IInv
<1>5. PICK w : w = [stage |-> Gate(e.val), action |-> a, started |-> clock, read |-> e.read,
                    val |-> e.val]
  OBVIOUS
<1>6. w \in CallRecs /\ w.stage = Gate(e.val) /\ w.started = clock /\ w.read = e.read /\ w.val = e.val
  BY <1>3, <1>4, <1>5, GateFacts DEF CallRecs
<1>7. clock - e.read < Ttl
  BY <1>1, <1>2, <1>3, <1>4
<1>8. CallOK(w)
  BY <1>3, <1>6, <1>7, GateFacts DEF CallOK
<1>9. call' = [call EXCEPT ![c] = w]
  BY <1>2, <1>5 DEF ResolveCached, Resolved
<1>10. faults' \in Nat /\ cache' \in [Actions -> Entries] /\ \A x \in Actions : EntryOK(cache'[x])
  BY <1>1, CallFacts DEF IInv, Shapes
<1> QED
  BY <1>1, <1>6, <1>8, <1>9, <1>10, CallStep

\* ResolveAction with a read of the grant keeps the invariant.
LEMMA ResolveStep ==
  ASSUME IInv, NEW c \in Calls, NEW a \in Actions, ResolveAction(c, a)
  PROVE  IInv'
<1>1. /\ clock' = clock /\ load' = load /\ grants' = grants /\ counters' = counters /\ keys' = keys
      /\ cache' = cache /\ pending' = pending /\ op' = op /\ overlap' = overlap
  BY DEF ResolveAction, db
<1>2. faults' \in Nat
  <2>1. faults \in Nat
    BY DEF IInv, Shapes
  <2>2. faults' = faults \/ faults' = faults + 1
    BY DEF ResolveAction, Fault
  <2> QED
    BY <2>1, <2>2
<1>3. \E x \in lookup(a) \cup {Nothing} : Resolved(c, a, "store", clock, x)
  BY DEF ResolveAction
<1>4. PICK v : v \in lookup(a) \cup {Nothing} /\ Resolved(c, a, "store", clock, v)
  BY <1>3
<1>5. Len(grants) \in Nat /\ DOMAIN grants = 1 .. Len(grants) /\ clock \in Nat
  BY Sizes DEF IInv
<1>6. v \in Vals /\ v.perm \in 0 .. Len(grants)
  <2>1. CASE v = Nothing
    BY <1>5, <2>1, BudgetFacts
  <2>2. CASE v # Nothing
    <3>1. PICK p \in Live : v = [perm |-> p, budget |-> grants[p].budget] /\ grants[p].budget # NoBudget
      BY <1>4, <2>2 DEF lookup, BudgetedGrants, list_permissions
    <3>2. p \in DOMAIN grants /\ grants[p].budget \in AnyBudget
      BY Sizes DEF IInv, GrantRows
    <3>3. p \in 1 .. Len(grants) /\ p \in Nat \ {0} /\ grants[p].budget \in Budgets
      BY <1>5, <3>1, <3>2 DEF AnyBudget
    <3> QED
      BY <3>1, <3>3 DEF Vals
  <2> QED
    BY <2>1, <2>2
<1>7. PICK w : w = [stage |-> "store", action |-> a, started |-> clock, read |-> clock, val |-> v]
  OBVIOUS
<1>8. w \in CallRecs /\ w.stage = "store" /\ w.action = a /\ w.started = clock /\ w.read = clock
      /\ w.val = v
  BY <1>5, <1>6, <1>7 DEF CallRecs
<1>9. CallOK(w)
  BY <1>5, <1>6, <1>8 DEF CallOK
<1>10. call' = [call EXCEPT ![c] = w]
  BY <1>4, <1>7 DEF Resolved
<1>11. cache' \in [Actions -> Entries] /\ \A x \in Actions : EntryOK(cache'[x])
  BY <1>1, CallFacts
<1> QED
  BY <1>1, <1>2, <1>8, <1>9, <1>10, <1>11, CallStep

\* A call goes on to another stage of its check.
LEMMA WentOn ==
  ASSUME IInv, NEW c \in Calls, NEW s \in {"unbudgeted", "check", "second"},
         NEW w, w = [call[c] EXCEPT !.stage = s],
         s \in {"check", "second"} => call[c].val # Nothing,
         call[c].started - call[c].read < Ttl
  PROVE  w \in CallRecs /\ CallOK(w)
<1>1. call[c] \in CallRecs /\ CallOK(call[c])
  BY CallFacts
<1>2. w \in CallRecs /\ w.stage = s /\ w.val = call[c].val /\ w.started = call[c].started
      /\ w.read = call[c].read
  BY <1>1 DEF CallRecs
<1> QED
  BY <1>1, <1>2 DEF CallOK

\* Storing the answer keeps the invariant.
LEMMA StoreStep ==
  ASSUME IInv, NEW c \in Calls, StoreAnswer(c)
  PROVE  IInv'
<1>1. /\ clock' = clock /\ load' = load /\ grants' = grants /\ counters' = counters /\ keys' = keys
      /\ pending' = pending /\ op' = op /\ faults' = faults /\ overlap' = overlap
      /\ call[c].stage = "store"
  BY DEF StoreAnswer, db
<1>2. PICK q \in CallRecs : q = call[c] /\ CallOK(q)
  BY CallFacts
<1>3. /\ q.started \in Nat /\ q.read \in Nat /\ q.val \in Vals /\ q.started <= q.read
      /\ q.action \in Actions /\ q.val.perm \in 0 .. Len(grants)
  BY <1>1, <1>2 DEF CallRecs, CallOK
<1>4. Ttl \in Nat \ {0}
  BY BudgetAssumption
<1>5. PICK e : e = [at |-> q.started, read |-> q.read, val |-> q.val]
  OBVIOUS
<1>6. e \in Entries /\ EntryOK(e)
  BY <1>3, <1>5 DEF Entries, EntryOK
<1>7. cache' = [cache EXCEPT ![q.action] = e]
  BY <1>2, <1>5 DEF StoreAnswer
<1>8. cache' \in [Actions -> Entries] /\ \A a \in Actions : EntryOK(cache'[a])
  BY <1>6, <1>7, CallFacts
<1>9. PICK w : w = [call[c] EXCEPT !.stage = Gate(q.val)]
  OBVIOUS
<1>10. w \in CallRecs /\ CallOK(w)
  <2>1. q.started - q.read < Ttl
    BY <1>3, <1>4
  <2>2. PICK s : s = Gate(q.val) /\ s \in {"unbudgeted", "check"} /\ (s = "check" => q.val # Nothing)
    BY GateFacts
  <2> QED
    BY <1>2, <1>9, <2>1, <2>2, WentOn
<1>11. call' = [call EXCEPT ![c] = w]
  BY <1>2, <1>9 DEF StoreAnswer, Go
<1>12. faults' \in Nat
  BY <1>1 DEF IInv, Shapes
<1> QED
  BY <1>1, <1>8, <1>10, <1>11, <1>12, CallStep

\* One more call on a row below its ceiling.
LEMMA CountedRow ==
  ASSUME NEW r, NEW row \in CounterRows, RowOK(r, row, clock), row.used < row.ceiling, NEW d,
         d = [row EXCEPT !.used = @ + 1]
  PROVE  RowOK(r, d, clock) /\ d.ceiling = row.ceiling /\ d.fresh = row.fresh
<1>1. row.used \in Nat /\ row.peak \in Nat /\ row.ceiling \in Nat
  BY BudgetFacts DEF CounterRows
<1>2. d \in CounterRows /\ d.end = row.end /\ d.ceiling = row.ceiling /\ d.used = row.used + 1
      /\ d.fresh = row.fresh /\ d.peak = row.peak
  BY <1>1 DEF CounterRows
<1> QED
  BY <1>1, <1>2 DEF RowOK

\* The upsert that counts a call keeps the counters in order.
LEMMA CheckCounters ==
  ASSUME IInv, NEW c \in Calls, Check(c)
  PROVE  CountersInv' /\ CeilingsInv'
<1>1. clock' = clock /\ grants' = grants /\ call[c].stage = "check"
  BY DEF Check
<1>2. PICK v \in Vals : v = call[c].val /\ v # Nothing
  BY <1>1, CallFacts DEF CallRecs, CallOK
<1>3. v.perm \in Nat \ {0} /\ v.budget \in Budgets /\ v.budget.ceiling \in Ceilings
      /\ v.budget.ceiling \in Nat \ {0}
  BY <1>2, BudgetFacts, BudgetAssumption
<1>4. clock \in Nat
  BY Sizes DEF IInv
<1>5. PICK s \in Nat, e \in Nat : /\ s = PeriodBounds(v.budget.period, clock).start
                                  /\ e = PeriodBounds(v.budget.period, clock).end
                                  /\ s <= clock /\ s < e
  BY <1>3, PeriodFacts, BudgetFacts, Sizes DEF IInv
<1>6. PICK key \in Nat \X Nat : key = <<v.perm, s>>
  BY <1>3
<1>7. key[1] = v.perm /\ key[2] = s
  BY <1>6
<1>8. /\ counters = [r \in DOMAIN counters |-> counters[r]]
      /\ \A r \in DOMAIN counters :
           /\ r[1] \in Live /\ RowOK(r, counters[r], clock)
           /\ CeilingOK(r, counters[r], grants[r[1]].budget, clock)
  BY DEF IInv, CountersInv, CeilingsInv
<1>9. Live' = Live
  BY <1>1 DEF Live
<1>10. CASE key \in DOMAIN counters /\ counters[key].used < counters[key].ceiling
  <2>1. PICK row \in CounterRows : row = counters[key]
    BY <1>8, <1>10 DEF RowOK
  <2>2. PICK d : d = [row EXCEPT !.used = @ + 1]
    OBVIOUS
  <2>3. RowOK(key, d, clock) /\ d.ceiling = row.ceiling /\ d.fresh = row.fresh
    BY <1>8, <1>10, <2>1, <2>2, CountedRow
  <2>4. counters' = [counters EXCEPT ![key] = d]
    <3>1. counters' = [counters EXCEPT ![key].used = @ + 1]
      BY <1>2, <1>5, <1>6, <1>10 DEF Check
    <3> QED
      BY <2>1, <2>2, <3>1
  <2>5. /\ DOMAIN counters' = DOMAIN counters /\ counters'[key] = d
        /\ \A r \in DOMAIN counters : r # key => counters'[r] = counters[r]
        /\ counters' = [r \in DOMAIN counters' |-> counters'[r]]
    BY <1>8, <1>10, <2>4
  <2>6. CeilingOK(key, d, grants[key[1]].budget, clock)
    BY <1>8, <1>10, <2>1, <2>3 DEF CeilingOK
  <2> QED
    BY <1>1, <1>8, <1>9, <2>3, <2>5, <2>6, CountersStep
<1>11. CASE key \notin DOMAIN counters /\ v.perm \in Live
  <2>1. PICK f \in BOOLEAN : f = (v.budget = grants[v.perm].budget)
    OBVIOUS
  <2>2. PICK row : row = Row(e, v.budget.ceiling, 1, f)
    OBVIOUS
  <2>3. row \in CounterRows /\ row.end = e /\ row.ceiling = v.budget.ceiling /\ row.used = 1
        /\ row.fresh = f /\ row.peak = v.budget.ceiling
    BY <1>3, <2>2 DEF Row, CounterRows
  <2>4. RowOK(key, row, clock)
    BY <1>3, <1>5, <1>7, <2>3 DEF RowOK
  <2>5. counters' = WithRow(counters, key, row)
    BY <1>2, <1>5, <1>6, <1>11, <2>1, <2>2 DEF Check
  <2>6. /\ DOMAIN counters' = DOMAIN counters \cup {key} /\ counters'[key] = row
        /\ \A r \in DOMAIN counters : r # key => counters'[r] = counters[r]
        /\ counters' = [r \in DOMAIN counters' |-> counters'[r]]
    BY <2>5 DEF WithRow
  <2>7. CeilingOK(key, row, grants[key[1]].budget, clock)
    BY <1>7, <2>1, <2>3 DEF CeilingOK
  <2> QED
    BY <1>1, <1>7, <1>8, <1>9, <1>11, <2>4, <2>6, <2>7, CountersStep
<1>12. CASE /\ ~(key \in DOMAIN counters /\ counters[key].used < counters[key].ceiling)
            /\ ~(key \notin DOMAIN counters /\ v.perm \in Live)
  <2>1. counters' = counters
    BY <1>2, <1>5, <1>6, <1>12 DEF Check
  <2> QED
    BY <1>1, <2>1, TablesKept
<1> QED
  BY <1>10, <1>11, <1>12

\* Check keeps the invariant.
LEMMA CheckStep ==
  ASSUME IInv, NEW c \in Calls, Check(c)
  PROVE  IInv'
<1>1. /\ clock' = clock /\ load' = load /\ grants' = grants /\ keys' = keys /\ cache' = cache
      /\ pending' = pending /\ op' = op /\ faults' = faults /\ overlap' = overlap
      /\ call[c].stage = "check"
  BY DEF Check
<1>2. Finish(c, "counted") \/ Go(c, "second")
  BY DEF Check
<1>3. PICK w \in CallRecs : CallOK(w) /\ call' = [call EXCEPT ![c] = w]
  <2>1. CASE Finish(c, "counted")
    BY <2>1, Finished DEF Finish
  <2>2. CASE Go(c, "second")
    <3>1. PICK w : w = [call[c] EXCEPT !.stage = "second"]
      OBVIOUS
    <3>2. CallOK(call[c])
      BY CallFacts
    <3>3. call[c].val # Nothing /\ call[c].started - call[c].read < Ttl
      BY <1>1, <3>2 DEF CallOK
    <3>4. w \in CallRecs /\ CallOK(w)
      BY <3>1, <3>3, WentOn
    <3> QED
      BY <2>2, <3>1, <3>4 DEF Go
  <2> QED
    BY <1>2, <2>1, <2>2
<1>4. faults' \in Nat /\ cache' \in [Actions -> Entries] /\ \A x \in Actions : EntryOK(cache'[x])
  BY <1>1, CallFacts DEF IInv, Shapes
<1>5. Shapes' /\ UniqueInv' /\ OpInv' /\ AnswersInv' /\ KeysInv' /\ BudgetAge'
  BY <1>1, <1>3, <1>4, CallStep
<1>6. CountersInv' /\ CeilingsInv'
  BY CheckCounters
<1> QED
  BY <1>5, <1>6 DEF IInv

\* A failed upsert keeps the invariant.
LEMMA CheckFailsStep ==
  ASSUME IInv, NEW c \in Calls, CheckFails(c)
  PROVE  IInv'
<1>1. /\ clock' = clock /\ load' = load /\ grants' = grants /\ keys' = keys /\ cache' = cache
      /\ pending' = pending /\ op' = op /\ faults' = faults + 1 /\ overlap' = overlap
      /\ counters' = counters /\ call[c].stage = "check" /\ Go(c, "second")
  BY DEF CheckFails, Fault, db
<1>2. PICK w : w = [call[c] EXCEPT !.stage = "second"]
  OBVIOUS
<1>3. CallOK(call[c])
  BY CallFacts
<1>4. call[c].val # Nothing /\ call[c].started - call[c].read < Ttl
  BY <1>1, <1>3 DEF CallOK
<1>5. w \in CallRecs /\ CallOK(w)
  BY <1>2, <1>4, WentOn
<1>6. call' = [call EXCEPT ![c] = w]
  BY <1>1, <1>2 DEF Go
<1>7. faults' \in Nat /\ cache' \in [Actions -> Entries] /\ \A x \in Actions : EntryOK(cache'[x])
  BY <1>1, CallFacts DEF IInv, Shapes
<1> QED
  BY <1>1, <1>5, <1>6, <1>7, CallStep

\* The second look, answered or failed, keeps the invariant.
LEMMA SecondLookStep ==
  ASSUME IInv, NEW c \in Calls, SecondLook(c) \/ SecondLookFails(c)
  PROVE  IInv'
<1>1. /\ clock' = clock /\ load' = load /\ grants' = grants /\ keys' = keys /\ cache' = cache
      /\ pending' = pending /\ op' = op /\ overlap' = overlap /\ counters' = counters
      /\ faults' = faults \/ faults' = faults + 1
  BY DEF SecondLook, SecondLookFails, Fault, db
<1>2. \E result \in {"counted", "failedopen", "refused", "uncounted"} : Finish(c, result)
  BY DEF SecondLook, SecondLookFails
<1>3. PICK result \in {"counted", "failedopen", "refused", "uncounted"} : Finish(c, result)
  BY <1>2
<1>4. PICK w \in CallRecs : CallOK(w) /\ call' = [call EXCEPT ![c] = w]
  BY <1>3, Finished DEF Finish
<1>5. faults' \in Nat /\ cache' \in [Actions -> Entries] /\ \A x \in Actions : EntryOK(cache'[x])
  BY <1>1, CallFacts DEF IInv, Shapes
<1> QED
  BY <1>1, <1>4, <1>5, CallStep

\* A delivered or lost budget.config_updated keeps the invariant.
LEMMA EventStep ==
  ASSUME IInv, InvalidateBudget \/ LoseEvent
  PROVE  IInv'
<1>1. /\ clock' = clock /\ load' = load /\ grants' = grants /\ keys' = keys /\ counters' = counters
      /\ op' = op /\ overlap' = overlap /\ faults' = faults /\ call' = call
      /\ pending > 0 /\ pending' = pending - 1
      /\ cache' = cache \/ cache' = [a \in Actions |-> Absent]
  BY DEF InvalidateBudget, LoseEvent, db
<1>2. CountersInv' /\ CeilingsInv' /\ UniqueInv' /\ OpInv' /\ KeysInv'
  BY <1>1, TablesKept, OpsKept, KeysKept, Sizes DEF IInv
<1>3. pending' \in Nat
  BY <1>1 DEF IInv, Shapes
<1>4. cache' \in [Actions -> Entries] /\ \A a \in Actions : EntryOK(cache'[a])
  BY <1>1, CallFacts DEF Entries, EntryOK
<1>5. Shapes'
  BY <1>1, <1>3, <1>4 DEF IInv, Shapes
<1>6. \A c \in Calls : CallOK(call[c])
  BY CallFacts
<1>7. AnswersInv'
  BY <1>1, <1>4, <1>6 DEF AnswersInv, CallOK, EntryOK
<1>8. BudgetAge'
  BY <1>1 DEF IInv, BudgetAge
<1> QED
  BY <1>2, <1>5, <1>7, <1>8 DEF IInv

\* The passing of time keeps the invariant: a row of the period that begins
\* now does not exist yet.
LEMMA TickStep ==
  ASSUME IInv, Tick
  PROVE  IInv'
<1>1. /\ clock < MaxClock /\ clock' = clock + 1 /\ load' = load /\ grants' = grants /\ keys' = keys
      /\ counters' = counters /\ cache' = cache /\ pending' = pending /\ op' = op /\ call' = call
      /\ faults' = faults /\ overlap' = overlap
  BY DEF Tick, db
<1>2. clock \in Nat /\ clock' \in Nat /\ clock <= clock' /\ Len(grants) \in Nat /\ MaxClock \in Nat
  BY <1>1, Sizes DEF IInv
<1>3. UniqueInv' /\ OpInv' /\ KeysInv' /\ AnswersInv' /\ BudgetAge'
  BY <1>1, <1>2, OpsKept, KeysKept, CallsKept
<1>4. Shapes'
  BY <1>1, <1>2 DEF IInv, Shapes
<1>5. Live' = Live
  BY <1>1 DEF Live
<1>6. ASSUME NEW r \in DOMAIN counters
      PROVE  /\ r[1] \in Live /\ RowOK(r, counters[r], clock')
             /\ CeilingOK(r, counters[r], grants[r[1]].budget, clock')
  <2>1. /\ r[1] \in Live /\ RowOK(r, counters[r], clock)
        /\ CeilingOK(r, counters[r], grants[r[1]].budget, clock)
    BY <1>6 DEF IInv, CountersInv, CeilingsInv
  <2>2. r \in Nat \X Nat /\ r[2] \in Nat /\ r[2] <= clock
    BY <2>1 DEF RowOK
  <2>3. RowOK(r, counters[r], clock')
    BY <1>2, <2>1, <2>2 DEF RowOK
  <2>4. PICK b : b = grants[r[1]].budget
    OBVIOUS
  <2>5. ASSUME b # NoBudget
        PROVE  \/ PeriodBounds(b.period, clock').start = PeriodBounds(b.period, clock).start
               \/ PeriodBounds(b.period, clock').start = clock + 1
    <3>1. b \in Budgets
      BY <2>1, <2>4, <2>5, Sizes DEF IInv, GrantRows, AnyBudget
    <3>2. b.period \in DOMAIN Starts /\ clock \in 0 .. MaxClock /\ clock + 1 \in 0 .. MaxClock
      BY <1>1, <1>2, <3>1, BudgetFacts, Sizes DEF IInv, Tick
    <3> QED
      BY <1>1, <1>2, <3>2, NextPeriod
  <2>6. CeilingOK(r, counters[r], b, clock')
    BY <1>2, <2>1, <2>2, <2>4, <2>5 DEF CeilingOK
  <2> QED
    BY <2>1, <2>3, <2>4, <2>6
<1>7. CountersInv' /\ CeilingsInv'
  <2>1. counters = [r \in DOMAIN counters |-> counters[r]]
    BY DEF IInv, CountersInv
  <2> QED
    BY <1>1, <1>5, <1>6, <2>1 DEF CountersInv, CeilingsInv
<1> QED
  BY <1>3, <1>4, <1>7 DEF IInv

-----------------------------------------------------------------------------
(* The invariant holds throughout.                                         *)

\* A grant there is before the first request has its counter.
LEMMA GrantedFacts ==
  ASSUME clock = 0, NEW a \in Actions, NEW b \in AnyBudget, Granted(a, b)
  PROVE  /\ grants \in Seq(GrantRows) /\ CountersInv /\ CeilingsInv
         /\ \A p, q \in Live : p = q
<1>1. PICK g : g = [action |-> a, budget |-> b, live |-> TRUE]
  OBVIOUS
<1>2. g \in GrantRows /\ g.live /\ g.budget = b
  BY <1>1 DEF GrantRows
<1>3. grants = <<g>>
  BY <1>1 DEF Granted
<1>4. grants \in Seq(GrantRows) /\ DOMAIN grants = {1} /\ grants[1] = g
  BY <1>2, <1>3
<1>5. Live = {1}
  BY <1>2, <1>4 DEF Live
<1>6. CASE b = NoBudget
  <2>1. counters = <<>>
    BY <1>6 DEF Granted
  <2>2. DOMAIN counters = {} /\ counters = [r \in DOMAIN counters |-> counters[r]]
    BY <2>1
  <2> QED
    BY <1>4, <1>5, <2>2 DEF CountersInv, CeilingsInv
<1>7. CASE b # NoBudget
  <2>1. b \in Budgets /\ b.ceiling \in Ceilings /\ b.ceiling \in Nat
    BY <1>7, BudgetFacts DEF AnyBudget
  <2>2. PICK s \in Nat, e \in Nat : /\ s = PeriodBounds(b.period, 0).start
                                    /\ e = PeriodBounds(b.period, 0).end
                                    /\ s <= 0 /\ s < e
    <3>1. b.period \in DOMAIN Starts /\ 0 \in 0 .. MaxClock
      BY <2>1, BudgetFacts, BudgetAssumption
    <3> QED
      BY <3>1, PeriodFacts
  <2>3. PICK key \in Nat \X Nat : key = <<1, s>>
    OBVIOUS
  <2>4. key[1] = 1 /\ key[2] = s
    BY <2>3
  <2>5. PICK row : row = Row(e, b.ceiling, 0, TRUE)
    OBVIOUS
  <2>6. row \in CounterRows /\ row.end = e /\ row.ceiling = b.ceiling /\ row.used = 0
        /\ row.peak = b.ceiling
    BY <2>1, <2>5 DEF Row, CounterRows
  <2>7. RowOK(key, row, clock) /\ CeilingOK(key, row, b, clock)
    BY <2>1, <2>2, <2>4, <2>6 DEF RowOK, CeilingOK
  <2>8. counters = WithRow(<<>>, key, row)
    BY <1>7, <2>2, <2>3, <2>5 DEF Granted
  <2>9. DOMAIN counters = {key} /\ counters[key] = row
        /\ counters = [r \in DOMAIN counters |-> counters[r]]
    BY <2>8 DEF WithRow
  <2>10. CountersInv
    BY <1>5, <2>4, <2>7, <2>9 DEF CountersInv
  <2>11. CeilingsInv
    BY <1>2, <1>4, <2>4, <2>7, <2>9 DEF CeilingsInv
  <2> QED
    BY <1>4, <1>5, <2>10, <2>11
<1> QED
  BY <1>6, <1>7

\* The invariant holds at first.
LEMMA InitIInv == Init => IInv
<1> SUFFICES ASSUME Init PROVE IInv
  OBVIOUS
<1>1. /\ clock = 0 /\ load \in Workloads /\ keys = <<>> /\ cache = [a \in Actions |-> Absent]
      /\ pending = 0 /\ op = [o \in Ops |-> Idle] /\ call = [c \in Calls |-> NoCall]
      /\ faults = 0 /\ overlap = FALSE
  BY DEF Init
<1>2. /\ grants \in Seq(GrantRows) /\ CountersInv /\ CeilingsInv
      /\ \A p, q \in Live : p = q
  <2>1. CASE grants = <<>> /\ counters = <<>>
    <3>1. DOMAIN grants = {} /\ DOMAIN counters = {} /\ grants \in Seq(GrantRows)
          /\ counters = [r \in DOMAIN counters |-> counters[r]]
      BY <2>1
    <3> QED
      BY <3>1 DEF CountersInv, CeilingsInv, Live
  <2>2. ASSUME NEW a \in Actions, NEW b \in AnyBudget, Granted(a, b)
        PROVE  /\ grants \in Seq(GrantRows) /\ CountersInv /\ CeilingsInv
               /\ \A p, q \in Live : p = q
    BY <1>1, <2>2, GrantedFacts
  <2> QED
    BY <2>1, <2>2 DEF Init, AnyBudget
<1>3. /\ keys \in Seq(KeyRows) /\ DOMAIN keys = {} /\ clock \in 0 .. MaxClock
      /\ cache \in [Actions -> Entries] /\ op \in [Ops -> OpRecs] /\ call \in [Calls -> CallRecs]
  BY <1>1, BudgetFacts, BudgetAssumption DEF Entries
<1>4. Shapes
  BY <1>1, <1>2, <1>3 DEF Shapes
<1>5. Idle.stage = "idle" /\ NoCall.stage = "idle" /\ NoCall.val = Nothing
  BY DEF Idle, NoCall
<1>6. UniqueInv
  BY <1>1, <1>2, <1>5 DEF UniqueInv
<1>7. OpInv
  BY <1>1, <1>5 DEF OpInv
<1>8. AnswersInv /\ BudgetAge
  <2>1. 0 \in 0 .. Len(grants)
    BY <1>2
  <2> QED
    BY <1>1, <1>5, <2>1, BudgetFacts DEF AnswersInv, BudgetAge
<1>9. KeysInv
  BY <1>3 DEF KeysInv
<1> QED
  BY <1>2, <1>4, <1>6, <1>7, <1>8, <1>9 DEF IInv

\* Every step keeps the invariant.
LEMMA NextIInv == IInv /\ [Next]_vars => IInv'
<1> SUFFICES ASSUME IInv, [Next]_vars PROVE IInv'
  OBVIOUS
<1> USE DEF AnyBudget
<1>1. ASSUME NEW o \in Ops, NEW a \in Actions, NEW b \in AnyBudget, grant_permission(o, a, b)
      PROVE  IInv'
  BY <1>1, GrantStep
<1>2. ASSUME NEW o \in Ops, InsertGrant(o) PROVE IInv'
  BY <1>2, InsertGrantStep
<1>3. ASSUME NEW o \in Ops, WritePatch(o) PROVE IInv'
  BY <1>3, PatchStep
<1>4. ASSUME NEW o \in Ops, RemoveBudget(o) PROVE IInv'
  BY <1>4, RemoveStep
<1>5. ASSUME NEW o \in Ops, InsertKey(o) PROVE IInv'
  BY <1>5, InsertKeyStep
<1>6. ASSUME NEW o \in Ops, NEW p \in DOMAIN grants, revoke_permission(o, p) PROVE IInv'
  BY <1>6, RevokeStep
<1>7. ASSUME NEW o \in Ops, NEW p \in DOMAIN grants, reset_budget_counter(o, p) PROVE IInv'
  BY <1>7, ResetStep
<1>8. ASSUME NEW o \in Ops, NEW p \in DOMAIN grants, NEW b \in Budgets,
             update_permission(o, p, "set", b)
      PROVE  IInv'
  BY <1>8, UpdateStep, BudgetFacts
<1>9. ASSUME NEW o \in Ops, NEW p \in DOMAIN grants, NEW ch \in {"remove", "other"},
             update_permission(o, p, ch, NoBudget)
      PROVE  IInv'
  <2>1. ch # "set" /\ ch \in {"set", "remove", "other"}
    OBVIOUS
  <2> QED
    BY <1>9, <2>1, UpdateStep, BudgetFacts
<1>10. ASSUME NEW o \in Ops, NEW a \in Actions, NEW life \in 0 .. MaxLife + 1,
              create_api_key(o, a, life)
       PROVE  IInv'
  BY <1>10, CreateStep
<1>11. ASSUME NEW o \in Ops, NEW k \in DOMAIN keys, rotate_api_key(o, k) PROVE IInv'
  BY <1>11, RotateStep
<1>12. ASSUME NEW o \in Ops, NEW k \in DOMAIN keys, revoke_api_key(o, k) PROVE IInv'
  BY <1>12, RevokeKeyStep
<1>13. ASSUME NEW c \in Calls, NEW a \in Actions, ResolveCached(c, a) PROVE IInv'
  BY <1>13, CachedStep
<1>14. ASSUME NEW c \in Calls, NEW a \in Actions, ResolveAction(c, a) PROVE IInv'
  BY <1>14, ResolveStep
<1>15. ASSUME NEW c \in Calls, StoreAnswer(c) PROVE IInv'
  BY <1>15, StoreStep
<1>16. ASSUME NEW c \in Calls, Check(c) PROVE IInv'
  BY <1>16, CheckStep
<1>17. ASSUME NEW c \in Calls, CheckFails(c) PROVE IInv'
  BY <1>17, CheckFailsStep
<1>18. ASSUME NEW c \in Calls, SecondLook(c) \/ SecondLookFails(c) PROVE IInv'
  BY <1>18, SecondLookStep
<1>19. CASE InvalidateBudget \/ LoseEvent
  BY <1>19, EventStep
<1>20. CASE Tick
  BY <1>20, TickStep
<1>21. CASE UNCHANGED vars
  <2>1. /\ clock' = clock /\ load' = load /\ grants' = grants /\ keys' = keys /\ counters' = counters
        /\ op' = op /\ overlap' = overlap /\ faults' = faults /\ call' = call /\ cache' = cache
        /\ pending' = pending
    BY <1>21 DEF vars
  <2>2. CountersInv' /\ CeilingsInv' /\ UniqueInv' /\ OpInv' /\ KeysInv' /\ AnswersInv' /\ BudgetAge'
    BY <2>1, TablesKept, OpsKept, KeysKept, CallsKept, Sizes DEF IInv
  <2>3. Shapes'
    BY <2>1 DEF IInv, Shapes
  <2> QED
    BY <2>2, <2>3 DEF IInv
<1> QED
  BY <1>1, <1>2, <1>3, <1>4, <1>5, <1>6, <1>7, <1>8, <1>9, <1>10, <1>11, <1>12, <1>13, <1>14,
     <1>15, <1>16, <1>17, <1>18, <1>19, <1>20, <1>21
     DEF Next

\* The invariant holds in every state.
LEMMA Inductive == Spec => []IInv
  BY InitIInv, NextIInv, PTL DEF Spec

-----------------------------------------------------------------------------
(* What the invariant implies.                                             *)

\* Grants and counters are consistent: a count never passes the highest
\* ceiling of its row, no counter is left without its grant, and an action is
\* granted twice only after two grant requests overlapped (Check,
\* revoke_permission, grant_permission).
THEOREM GrantsStayConsistent == Spec => []GrantsConsistent
<1>1. ASSUME IInv PROVE TypeOK
  <2>1. /\ clock \in 0 .. MaxClock /\ load \in Workloads /\ MaxClock \in Nat
        /\ \A p \in DOMAIN grants : grants[p] \in [action : Actions, budget : Budgets \cup {NoBudget},
                                                   live : BOOLEAN]
    BY <1>1, Sizes DEF IInv, Shapes, GrantRows, AnyBudget
  <2>2. ASSUME NEW r \in DOMAIN counters
        PROVE  /\ r[1] \in DOMAIN grants /\ r[2] \in 0 .. MaxClock
               /\ counters[r].end > r[2] /\ counters[r].ceiling \in Ceilings
               /\ counters[r].used \in Nat
    <3>1. r[1] \in Live /\ RowOK(r, counters[r], clock)
      BY <1>1, <2>2 DEF IInv, CountersInv
    <3>2. r \in Nat \X Nat /\ r[2] \in Nat /\ r[2] <= clock /\ counters[r] \in CounterRows
          /\ r[2] < counters[r].end
      BY <3>1 DEF RowOK
    <3>3. counters[r].end \in Nat /\ counters[r].ceiling \in Ceilings /\ counters[r].used \in Nat
      BY <3>2 DEF CounterRows
    <3> QED
      BY <1>1, <2>1, <3>1, <3>2, <3>3, Sizes DEF IInv
  <2>3. ASSUME NEW k \in DOMAIN keys
        PROVE  keys[k].action \in Actions /\ keys[k].created \in 0 .. MaxClock
    <3>1. keys[k] \in KeyRows /\ keys[k].created <= clock
      BY <1>1, <2>3, Sizes DEF IInv, KeysInv
    <3> QED
      BY <2>1, <3>1 DEF KeyRows
  <2>4. \A c \in Calls : call[c].val.perm \in 0 .. Len(grants)
    BY <1>1 DEF IInv, AnswersInv
  <2> QED
    BY <2>1, <2>2, <2>3, <2>4 DEF TypeOK
<1>2. ASSUME IInv PROVE NeverOverCeiling /\ NoOrphanCounter
  BY <1>2 DEF IInv, CountersInv, RowOK, NeverOverCeiling, NoOrphanCounter
<1>3. ASSUME IInv PROVE DuplicateNeedsOverlap
  <2>1. SUFFICES ASSUME ~overlap, NEW a \in Actions
                 PROVE  Cardinality(list_permissions(a)) <= 1
    BY DEF DuplicateNeedsOverlap
  <2>2. \A p, q \in list_permissions(a) : p = q
    BY <1>3, <2>1 DEF IInv, UniqueInv, list_permissions
  <2>3. CASE list_permissions(a) = {}
    BY <2>3, FS_EmptySet
  <2>4. CASE list_permissions(a) # {}
    <3>1. PICK p : p \in list_permissions(a)
      BY <2>4
    <3>2. list_permissions(a) = {p}
      BY <2>2, <3>1
    <3>3. Cardinality({p}) = 1
      BY FS_Singleton
    <3> QED
      BY <3>2, <3>3
  <2> QED
    BY <2>3, <2>4
<1>4. IInv => GrantsConsistent
  BY <1>1, <1>2, <1>3 DEF GrantsConsistent
<1> QED
  BY <1>4, Inductive, PTL

\* A call is never checked against a budget read a full time to live before
\* the call began (ResolveAction, StoreAnswer).
THEOREM BudgetsStayYoung == Spec => []BudgetAge
<1>1. IInv => BudgetAge
  BY DEF IInv
<1> QED
  BY <1>1, Inductive, PTL

\* No rotation lets a key live longer than what _check_policy lets through,
\* whole days compared with max_expiry_days (create_api_key, rotate_api_key,
\* list_api_keys).
THEOREM LifetimesStayBounded == Spec => []LifetimeBounded
<1>1. ASSUME IInv, NEW k \in DOMAIN keys, keys[k].expires # 0
      PROVE  /\ keys[k].expires - keys[k].created <= MaxLife
             /\ KeyStatus(k) = "active" => clock - keys[k].created <= MaxLife
  <2>1. keys[k] \in KeyRows /\ clock \in Nat /\ MaxLife \in Nat
    BY <1>1, Sizes, LifeFacts DEF IInv
  <2>2. keys[k].created \in Nat /\ keys[k].expires \in Nat
    BY <2>1 DEF KeyRows
  <2>3. keys[k].expires - keys[k].created <= MaxLife
    BY <1>1 DEF IInv, KeysInv
  <2>4. KeyStatus(k) = "active" => ~(keys[k].expires < clock)
    BY <1>1 DEF KeyStatus
  <2> QED
    BY <2>1, <2>2, <2>3, <2>4
<1>2. IInv => LifetimeBounded
  BY <1>1 DEF LifetimeBounded
<1> QED
  BY <1>2, Inductive, PTL

\* The largest of one number, and the calls left of an unused ceiling.
LEMMA MaxFacts ==
  ASSUME NEW n \in Nat
  PROVE  Max({n}) = n /\ Left(n, 0) = n
<1>1. Max({n}) = n
  BY DEF Max
<1>2. Max({0, n}) = n
  BY DEF Max
<1>3. n - 0 = n
  OBVIOUS
<1> QED
  BY <1>1, <1>2, <1>3 DEF Left

\* Clean counters of a grant with a budget: no row is open, or only the row
\* of the current period is, with the grant's ceiling.
LEMMA CleanRows ==
  ASSUME IInv, NEW p \in Live, NEW b, b = grants[p].budget, b # NoBudget, Clean(p),
         NEW key, key = <<p, PeriodBounds(b.period, clock).start>>
  PROVE  \/ key \notin DOMAIN counters /\ OpenRows(p) = {}
         \/ /\ key \in DOMAIN counters /\ OpenRows(p) = {key}
            /\ counters[key].ceiling = b.ceiling /\ clock < counters[key].end
<1>1. b.period \in DOMAIN Starts /\ clock \in 0 .. MaxClock /\ clock \in Nat
  <2>1. b \in AnyBudget
    BY Sizes DEF IInv, GrantRows
  <2> QED
    BY <2>1, Sizes, BudgetFacts DEF IInv, AnyBudget
<1>2. PICK s \in Nat, e \in Nat : /\ s = PeriodBounds(b.period, clock).start
                                  /\ e = PeriodBounds(b.period, clock).end
                                  /\ s <= clock /\ clock < e
  BY <1>1, PeriodFacts
<1>3. key = <<p, s>> /\ key[1] = p /\ key[2] = s
  BY <1>2
<1>4. \A r \in DOMAIN counters : r[1] \in Live /\ r \in Nat \X Nat
  BY DEF IInv, CountersInv, RowOK
<1>5. \A r \in DOMAIN counters : r[1] = p /\ (Open(r) \/ r[2] = s) =>
        r[2] = s /\ counters[r].end = e /\ counters[r].fresh
  BY <1>2 DEF Clean, RowsOf
<1>6. \A r \in OpenRows(p) : r = key
  BY <1>3, <1>4, <1>5 DEF OpenRows, RowsOf
<1>7. CASE key \notin DOMAIN counters
  BY <1>6, <1>7 DEF OpenRows, RowsOf
<1>8. CASE key \in DOMAIN counters
  <2>1. counters[key].end = e /\ counters[key].fresh
    BY <1>3, <1>5, <1>8
  <2>2. Open(key)
    BY <1>1, <1>2, <1>3, <2>1 DEF Open
  <2>3. key \in OpenRows(p)
    BY <1>3, <1>8, <2>2 DEF OpenRows, RowsOf
  <2>4. OpenRows(p) = {key}
    BY <1>6, <2>3
  <2>5. CeilingOK(key, counters[key], b, clock)
    BY <1>3, <1>8 DEF IInv, CeilingsInv
  <2>6. counters[key].ceiling = b.ceiling
    BY <1>2, <1>3, <2>1, <2>5 DEF CeilingOK
  <2> QED
    BY <1>2, <1>8, <2>1, <2>4, <2>6
<1> QED
  BY <1>7, <1>8

\* What describe_service, get_budget_status and the consumers report show of a
\* grant with clean counters is what the gate still lets through, and so is what
\* get_permission_budget shows until the period is over.
THEOREM ShownStaysEnforced == Spec => []ShownIsEnforced
<1>1. ASSUME IInv, NEW p \in Live, Live = {p}, grants[p].budget # NoBudget, Clean(p)
      PROVE  /\ describe_service = Headroom(p)
             /\ get_budget_status(p) = Headroom(p)
             /\ list_budget_consumers(p) \subseteq {Headroom(p)}
             /\ LastRow(p) \subseteq OpenRows(p) => get_permission_budget(p) \subseteq {Headroom(p)}
  <2>1. PICK b \in Budgets : b = grants[p].budget
    <3>1. grants[p].budget \in AnyBudget
      BY <1>1, Sizes DEF IInv, GrantRows
    <3> QED
      BY <1>1, <3>1 DEF AnyBudget
  <2>2. b.ceiling \in Nat /\ p \in Nat
    BY <1>1, BudgetFacts, Sizes DEF IInv
  <2>3. PICK key : key = <<p, PeriodBounds(b.period, clock).start>>
    OBVIOUS
  <2>4. \/ key \notin DOMAIN counters /\ OpenRows(p) = {}
        \/ /\ key \in DOMAIN counters /\ OpenRows(p) = {key}
           /\ counters[key].ceiling = b.ceiling /\ clock < counters[key].end
    BY <1>1, <2>1, <2>3, CleanRows
  <2>5. describe_service = BudgetInfo(p)
    BY <1>1, <2>2, MaxFacts DEF describe_service
  <2>6. CASE key \notin DOMAIN counters /\ OpenRows(p) = {}
    <3>1. Headroom(p) = b.ceiling
      BY <2>1, <2>3, <2>6 DEF Headroom
    <3>2. BudgetInfo(p) = Left(b.ceiling, 0)
      BY <2>1, <2>6 DEF BudgetInfo
    <3>3. get_budget_status(p) = b.ceiling
      BY <2>1, <2>6 DEF get_budget_status
    <3>4. list_budget_consumers(p) = {}
      BY <2>6 DEF list_budget_consumers
    <3>5. LastRow(p) \subseteq OpenRows(p) => get_permission_budget(p) = {}
      BY <2>6 DEF get_permission_budget
    <3> QED
      BY <2>2, <2>5, <3>1, <3>2, <3>3, <3>4, <3>5, MaxFacts
  <2>7. CASE /\ key \in DOMAIN counters /\ OpenRows(p) = {key}
             /\ counters[key].ceiling = b.ceiling /\ clock < counters[key].end
    <3>1. Headroom(p) = Left(b.ceiling, counters[key].used)
      BY <2>1, <2>3, <2>7 DEF Headroom
    <3>2. counters[key].end \in Nat /\ key[2] \in Nat
      BY <1>1, <2>7 DEF IInv, CountersInv, RowOK, CounterRows
    <3>3. (CHOOSE x \in {key} : \A y \in {key} : counters[y].end <= counters[x].end) = key
      BY <3>2
    <3>4. (CHOOSE x \in {key} : \A y \in {key} : y[2] <= x[2]) = key
      BY <3>2
    <3>5. BudgetInfo(p) = Left(b.ceiling, counters[key].used)
      BY <2>1, <2>7, <3>3 DEF BudgetInfo
    <3>6. get_budget_status(p) = Left(b.ceiling, counters[key].used)
      <4>1. {x \in OpenRows(p) : clock < counters[x].end} = {key}
        BY <2>7
      <4> QED
        BY <2>7, <3>4, <4>1 DEF get_budget_status
    <3>7. list_budget_consumers(p) = {Left(b.ceiling, counters[key].used)}
      BY <2>1, <2>7 DEF list_budget_consumers
    <3>8. LastRow(p) \subseteq OpenRows(p) =>
            get_permission_budget(p) \subseteq {Left(b.ceiling, counters[key].used)}
      BY <2>1, <2>7 DEF get_permission_budget
    <3> QED
      BY <2>5, <3>1, <3>5, <3>6, <3>7, <3>8
  <2> QED
    BY <2>4, <2>6, <2>7
<1>2. IInv => ShownIsEnforced
  BY <1>1 DEF ShownIsEnforced
<1> QED
  BY <1>2, Inductive, PTL

-----------------------------------------------------------------------------
(* Email services: the inductive invariant.                                *)

\* What a request can be.
EmailReqs ==
  [kind : {"idle", "configure", "callback", "refresh", "set", "grant", "tool"},
   stage : {"idle", "put", "save", "consume", "exchange", "commit", "read", "refresh", "answer",
            "insert", "grant", "issue", "token"},
   p : Providers \cup {None}, s : Services \cup {None}, f : States \cup {None},
   c : 0..MaxGen, k : 0..MaxGen, late : BOOLEAN, a : Agents \cup {None},
   scheme : Schemes \cup {None}, seen : BOOLEAN]

\* A callback that has deleted its state row and not committed.
Holding(q) == q.kind = "callback" /\ q.stage \in {"exchange", "put", "commit"}

\* A callback is for a flow that was begun; from the deletion of the row on it
\* is for the flow's service, and the row is still there for everybody else.
CallbackOK(q) ==
  /\ q.kind = "callback" => q.f \in States /\ flow[q.f] # None
  /\ Holding(q) => q.s = flow[q.f].svc /\ q.f \in rows

\* A refresh holds a token of its service's flow, or what is no token.
RefreshOK(q) ==
  /\ q.kind = "refresh" => q.s \in Services /\ q.p \in Providers
  /\ q.kind = "refresh" /\ q.stage \in {"refresh", "answer"} =>
       /\ q.stage = "answer" => q.f # None
       /\ q.f # None => flow[q.f] # None /\ flow[q.f].svc = q.s

\* A password on its way is for a service of its scheme.
SetOK(q) ==
  q.kind = "set" => /\ q.s \in Services /\ svc[q.s] # None /\ svc[q.s].scheme = q.scheme

\* A grant is asked for a pair.  A tool was called for a live service; one that
\* can find a grant, or has, was within its rights at some moment, or the grant
\* came after the service was gone.
ToolOK(q) ==
  /\ q.kind = "grant" => q.a \in Agents /\ q.s \in Services
  /\ q.kind = "tool" => ~q.late
  /\ q.kind = "tool" /\ (<<q.a, q.s>> \in list_email_permission_grants \/ q.stage \in {"issue", "token"})
       => q.seen \/ <<q.a, q.s>> \in overtaken

\* A configure call between its two writes has the secret that is in the vault,
\* unless another one came between.
ConfigureOK(q) ==
  /\ q.kind = "configure" => q.p \in Providers
  /\ q.kind = "configure" /\ q.stage = "save" => q.p \in torn \/ secret[q.p] = q.c

\* Every request has its shape and what its next step relies on.
RequestsOK ==
  /\ req \in [Requests -> EmailReqs]
  /\ \A r \in Requests : /\ CallbackOK(req[r]) /\ RefreshOK(req[r]) /\ SetOK(req[r])
                         /\ ToolOK(req[r]) /\ ConfigureOK(req[r])

\* No two callbacks hold one row.
HeldOnce ==
  \A x, y \in Requests : Holding(req[x]) /\ Holding(req[y]) /\ req[x].f = req[y].f => x = y

\* A state row is there, or was deleted by a callback, and only then was its
\* flow completed, once.
StatesOnce ==
  /\ \A f \in ended : flow[f] # None /\ f \notin rows
  /\ \A f \in States : spent[f] = 0 \/ (spent[f] = 1 /\ f \in ended)
  /\ \A f \in States : codes[f] <= consents[f]

\* What the vault keeps for a service.
EntriesFit ==
  \A s \in Services : cred[s] # None =>
    IF cred[s].from # None
    THEN flow[cred[s].from] # None /\ flow[cred[s].from].svc = s
    ELSE svc[s] # None /\ cred[s].scheme = svc[s].scheme

\* The inductive invariant.
EmailInv ==
  /\ EmailTypeOK /\ RequestsOK /\ HeldOnce /\ StatesOnce /\ FlowKept /\ EntriesFit /\ ConfigPair

-----------------------------------------------------------------------------
(* Requests.                                                               *)

\* The variables of the database, the vault, the provider and the history.
LEMMA Groups ==
  /\ (UNCHANGED dbvars) <=> svc' = svc /\ cfg' = cfg /\ rows' = rows /\ grant' = grant
  /\ (UNCHANGED vault) <=> secret' = secret /\ cred' = cred
  /\ (UNCHANGED provider) <=> codes' = codes /\ consents' = consents
  /\ (UNCHANGED history) <=> spent' = spent /\ ended' = ended /\ torn' = torn /\ overtaken' = overtaken
  BY DEF dbvars, vault, provider, history

\* What req[r] can be told from.
LEMMA ReqTyped ==
  ASSUME EmailInv, NEW r \in Requests
  PROVE  /\ req \in [Requests -> EmailReqs] /\ req[r] \in EmailReqs
         /\ CallbackOK(req[r]) /\ RefreshOK(req[r]) /\ SetOK(req[r]) /\ ToolOK(req[r])
         /\ ConfigureOK(req[r])
  BY DEF EmailInv, RequestsOK

\* No request promises nothing.
LEMMA NoRequestOK ==
  /\ NoRequest \in EmailReqs /\ NoRequest.kind = "idle" /\ ~Holding(NoRequest)
  /\ CallbackOK(NoRequest) /\ RefreshOK(NoRequest) /\ SetOK(NoRequest) /\ ToolOK(NoRequest)
  /\ ConfigureOK(NoRequest)
<1>1. NoRequest \in EmailReqs
  BY EmailAssumption DEF NoRequest, EmailReqs
<1>2. NoRequest.kind = "idle"
  BY DEF NoRequest
<1> QED
  BY <1>1, <1>2 DEF Holding, CallbackOK, RefreshOK, SetOK, ToolOK, ConfigureOK

\* One request goes on, the others stay.
LEMMA OneMoves ==
  ASSUME req \in [Requests -> EmailReqs], NEW r \in Requests, NEW q \in EmailReqs,
         req' = [req EXCEPT ![r] = q]
  PROVE  /\ req' \in [Requests -> EmailReqs] /\ req'[r] = q
         /\ \A x \in Requests \ {r} : req'[x] = req[x]
  OBVIOUS

\* A request goes on to a stage.
LEMMA GoesTo ==
  ASSUME req \in [Requests -> EmailReqs], NEW r \in Requests,
         NEW st \in {"put", "save", "commit", "answer", "issue", "token"}, Goto(r, st)
  PROVE  \E q \in EmailReqs :
           /\ req' = [req EXCEPT ![r] = q] /\ q.stage = st /\ q.kind = req[r].kind
           /\ q.p = req[r].p /\ q.s = req[r].s /\ q.f = req[r].f /\ q.c = req[r].c
           /\ q.a = req[r].a /\ q.late = req[r].late /\ q.seen = req[r].seen /\ q.scheme = req[r].scheme
<1>1. PICK q : q = [req[r] EXCEPT !.stage = st]
  OBVIOUS
<1>2. req' = [req EXCEPT ![r] = q]
  BY <1>1 DEF Goto
<1>3. /\ q \in EmailReqs /\ q.stage = st /\ q.kind = req[r].kind
      /\ q.p = req[r].p /\ q.s = req[r].s /\ q.f = req[r].f /\ q.c = req[r].c
      /\ q.a = req[r].a /\ q.late = req[r].late /\ q.seen = req[r].seen /\ q.scheme = req[r].scheme
  BY <1>1 DEF EmailReqs
<1> QED
  BY <1>2, <1>3

\* A request goes on, and at most a code is spent or the vault written: what is
\* left to show is about the request, the vault entry and the count of codes.
LEMMA RequestMoves ==
  ASSUME EmailInv, NEW r \in Requests, NEW q \in EmailReqs, req' = [req EXCEPT ![r] = q],
         UNCHANGED <<mix, flow, expired, dbvars, secret, consents, history>>,
         gen' \in 0..MaxGen,
         codes' \in [States -> 0..MaxConsents], \A f \in States : codes'[f] <= consents[f],
         cred' \in [Services -> VaultEntries \cup {None}], EntriesFit',
         CallbackOK(q), RefreshOK(q), SetOK(q), ToolOK(q), ConfigureOK(q),
         Holding(q) => \A x \in Requests \ {r} : Holding(req[x]) => req[x].f # q.f,
         ~At(r, "configure", "save")
  PROVE  EmailInv'
<1>1. /\ req \in [Requests -> EmailReqs] /\ req' \in [Requests -> EmailReqs] /\ req'[r] = q
      /\ \A x \in Requests \ {r} : req'[x] = req[x]
  BY OneMoves DEF EmailInv, RequestsOK
<1>2. /\ mix' = mix /\ flow' = flow /\ expired' = expired /\ secret' = secret /\ consents' = consents
      /\ svc' = svc /\ cfg' = cfg /\ rows' = rows /\ grant' = grant
      /\ spent' = spent /\ ended' = ended /\ torn' = torn /\ overtaken' = overtaken
  BY Groups
<1>3. EmailTypeOK'
  BY <1>2 DEF EmailInv, EmailTypeOK
<1>4. ASSUME NEW x \in Requests
      PROVE  (CallbackOK(req[x]) /\ RefreshOK(req[x]) /\ SetOK(req[x]) /\ ToolOK(req[x])
                /\ ConfigureOK(req[x]))'
  <2>1. /\ CallbackOK(req'[x]) /\ RefreshOK(req'[x]) /\ SetOK(req'[x]) /\ ToolOK(req'[x])
        /\ ConfigureOK(req'[x])
    BY <1>1 DEF EmailInv, RequestsOK
  <2> QED
    BY <1>2, <2>1 DEF CallbackOK, RefreshOK, SetOK, ToolOK, ConfigureOK, Holding,
                      list_email_permission_grants
<1>5. HeldOnce'
  BY <1>1 DEF EmailInv, HeldOnce, Holding
<1>6. StatesOnce' /\ FlowKept'
  BY <1>2 DEF EmailInv, StatesOnce, FlowKept
<1>7. ConfigPair'
  <2>1. \A p \in Providers : Saving(p) \subseteq Saving(p)'
    BY <1>1 DEF Saving, At
  <2> QED
    BY <1>2, <2>1 DEF EmailInv, ConfigPair
<1> QED
  BY <1>1, <1>3, <1>4, <1>5, <1>6, <1>7 DEF EmailInv, RequestsOK

\* A request goes on and nothing else changes.
LEMMA RequestOnly ==
  ASSUME EmailInv, NEW r \in Requests, NEW q \in EmailReqs, req' = [req EXCEPT ![r] = q],
         UNCHANGED <<mix, flow, expired, dbvars, vault, provider, history>>, gen' \in 0..MaxGen,
         CallbackOK(q), RefreshOK(q), SetOK(q), ToolOK(q), ConfigureOK(q),
         Holding(q) => \A x \in Requests \ {r} : Holding(req[x]) => req[x].f # q.f,
         ~At(r, "configure", "save")
  PROVE  EmailInv'
<1>1. /\ svc' = svc /\ flow' = flow /\ cred' = cred /\ codes' = codes /\ consents' = consents
      /\ secret' = secret
  BY Groups
<1>2. EntriesFit'
  BY <1>1 DEF EmailInv, EntriesFit
<1>3. /\ codes' \in [States -> 0..MaxConsents] /\ \A f \in States : codes'[f] <= consents[f]
      /\ cred' \in [Services -> VaultEntries \cup {None}]
  BY <1>1 DEF EmailInv, EmailTypeOK, StatesOnce
<1> QED
  BY <1>1, <1>2, <1>3, RequestMoves

\* A request ends and nothing else changes.
LEMMA RequestEnds ==
  ASSUME EmailInv, NEW r \in Requests, Done(r), ~At(r, "configure", "save"),
         UNCHANGED <<mix, gen, flow, expired, dbvars, vault, provider, history>>
  PROVE  EmailInv'
<1>1. req' = [req EXCEPT ![r] = NoRequest] /\ gen' \in 0..MaxGen
  BY DEF Done, EmailInv, EmailTypeOK
<1> QED
  BY <1>1, NoRequestOK, RequestOnly

-----------------------------------------------------------------------------
(* The steps of requests that leave the tables alone.                      *)

\* Requests of the six kinds begin with what their next step relies on.
LEMMA StartStep ==
  ASSUME EmailInv, NEW r \in Requests, NEW q \in EmailReqs, Start(r, q),
         UNCHANGED <<mix, flow, expired, dbvars, vault, provider, history>>, gen' \in 0..MaxGen,
         CallbackOK(q), RefreshOK(q), SetOK(q), ToolOK(q), ConfigureOK(q), ~Holding(q)
  PROVE  EmailInv'
<1>1. req' = [req EXCEPT ![r] = q] /\ ~At(r, "configure", "save")
  BY NoRequestOK DEF Start, At
<1> QED
  BY <1>1, RequestOnly

\* configure_oauth2_provider begins.
LEMMA ConfigureStep ==
  ASSUME EmailInv, NEW r \in Requests, NEW p \in Providers, configure_oauth2_provider(r, p)
  PROVE  EmailInv'
<1>1. gen \in 0..MaxGen /\ gen < MaxGen /\ gen + 1 \in 0..MaxGen
  BY EmailAssumption DEF configure_oauth2_provider, EmailInv, EmailTypeOK
<1>2. PICK q : q = [NoRequest EXCEPT !.kind = "configure", !.stage = "put", !.p = p, !.c = gen + 1]
  OBVIOUS
<1>3. q \in EmailReqs /\ q.kind = "configure" /\ q.stage = "put" /\ q.p = p
  BY <1>1, <1>2, NoRequestOK DEF EmailReqs
<1>4. CallbackOK(q) /\ RefreshOK(q) /\ SetOK(q) /\ ToolOK(q) /\ ConfigureOK(q) /\ ~Holding(q)
  BY <1>3 DEF CallbackOK, RefreshOK, SetOK, ToolOK, ConfigureOK, Holding
<1> QED
  BY <1>1, <1>2, <1>3, <1>4, StartStep DEF configure_oauth2_provider

\* A redirect reaches a callback.
LEMMA CallbackStep ==
  ASSUME EmailInv, NEW r \in Requests, NEW f \in States, flow[f] # None,
         NEW s \in Services \cup {None}, NEW p \in Providers, Callback(r, f, s, p)
  PROVE  EmailInv'
<1>1. gen' \in 0..MaxGen /\ cfg[p] \in 0..MaxGen
  BY DEF Callback, EmailInv, EmailTypeOK
<1>2. PICK q : q = [NoRequest EXCEPT !.kind = "callback", !.stage = "consume", !.p = p, !.s = s, !.f = f,
                                     !.c = cfg[p], !.late = f \in expired]
  OBVIOUS
<1>3. q \in EmailReqs /\ q.kind = "callback" /\ q.stage = "consume" /\ q.f = f
  <2>1. PICK b \in BOOLEAN : b = (f \in expired)
    <3>1. CASE f \in expired
      BY <3>1
    <3>2. CASE ~(f \in expired)
      <4>1. FALSE \in BOOLEAN /\ FALSE = (f \in expired)
        BY <3>2
      <4> QED
        BY <4>1
    <3> QED
      BY <3>1, <3>2
  <2>2. q = [NoRequest EXCEPT !.kind = "callback", !.stage = "consume", !.p = p, !.s = s, !.f = f,
                              !.c = cfg[p], !.late = b]
    BY <1>2, <2>1
  <2> QED
    BY <1>1, <2>2, NoRequestOK DEF EmailReqs
<1>4. CallbackOK(q) /\ RefreshOK(q) /\ SetOK(q) /\ ToolOK(q) /\ ConfigureOK(q) /\ ~Holding(q)
  BY <1>3 DEF CallbackOK, RefreshOK, SetOK, ToolOK, ConfigureOK, Holding
<1> QED
  BY <1>1, <1>2, <1>3, <1>4, StartStep DEF Callback

\* The callback deletes its state row: nobody else holds it.
LEMMA ConsumeStep ==
  ASSUME EmailInv, NEW r \in Requests, ConsumeState(r)
  PROVE  EmailInv'
<1>1. /\ req[r] \in EmailReqs /\ req[r].kind = "callback" /\ req[r].stage = "consume"
      /\ req[r].f \in States /\ flow[req[r].f] # None /\ flow[req[r].f] \in Flows
      /\ UNCHANGED <<mix, gen, flow, expired, dbvars, vault, provider, history>>
  BY ReqTyped DEF ConsumeState, At, CallbackOK, EmailInv, EmailTypeOK
<1>2. ~At(r, "configure", "save") /\ gen' \in 0..MaxGen
  BY <1>1 DEF At, EmailInv, EmailTypeOK
<1>3. CASE Done(r)
  BY <1>1, <1>2, <1>3, RequestEnds
<1>4. CASE /\ Configured(req[r].p, req[r].c)
           /\ req[r].f \in rows /\ ~req[r].late /\ flow[req[r].f].provider = req[r].p
           /\ req' = [req EXCEPT ![r].stage = "exchange", ![r].s = ServiceOf(r),
                                 ![r].k = SecretFor(req[r].p, req[r].c)]
  <2>1. req[r].p \in Providers /\ ServiceOf(r) \in Services /\ ServiceOf(r) = flow[req[r].f].svc
    BY <1>1, <1>4 DEF ServiceOf, Flows
  <2>2. SecretFor(req[r].p, req[r].c) \in 0..MaxGen
    BY <2>1, EmailAssumption DEF SecretFor, EmailInv, EmailTypeOK
  <2>3. PICK q : q = [req[r] EXCEPT !.stage = "exchange", !.s = ServiceOf(r),
                                    !.k = SecretFor(req[r].p, req[r].c)]
    OBVIOUS
  <2>4. req' = [req EXCEPT ![r] = q]
    BY <1>4, <2>3, ReqTyped
  <2>5. /\ q \in EmailReqs /\ q.kind = "callback" /\ q.stage = "exchange" /\ q.f = req[r].f
        /\ q.s = flow[q.f].svc
    BY <1>1, <2>1, <2>2, <2>3 DEF EmailReqs
  <2>6. CallbackOK(q) /\ RefreshOK(q) /\ SetOK(q) /\ ToolOK(q) /\ ConfigureOK(q)
    BY <1>1, <1>4, <2>5 DEF CallbackOK, RefreshOK, SetOK, ToolOK, ConfigureOK, Holding
  <2>7. \A x \in Requests \ {r} : Holding(req[x]) => req[x].f # q.f
    BY <2>5 DEF ConsumeState, Held, Holding
  <2> QED
    BY <1>1, <1>2, <2>4, <2>5, <2>6, <2>7, RequestOnly
<1> QED
  BY <1>3, <1>4 DEF ConsumeState

\* oauth2_refresh begins.
LEMMA RefreshBegins ==
  ASSUME EmailInv, NEW r \in Requests, NEW s \in Services, NEW p \in Providers, oauth2_refresh(r, s, p)
  PROVE  EmailInv'
<1>1. gen' \in 0..MaxGen /\ cfg[p] \in 0..MaxGen
  BY DEF oauth2_refresh, EmailInv, EmailTypeOK
<1>2. PICK q : q = [NoRequest EXCEPT !.kind = "refresh", !.stage = "read", !.s = s, !.p = p, !.c = cfg[p]]
  OBVIOUS
<1>3. q \in EmailReqs /\ q.kind = "refresh" /\ q.stage = "read" /\ q.s = s /\ q.p = p
  BY <1>1, <1>2, NoRequestOK DEF EmailReqs
<1>4. CallbackOK(q) /\ RefreshOK(q) /\ SetOK(q) /\ ToolOK(q) /\ ConfigureOK(q) /\ ~Holding(q)
  BY <1>3 DEF CallbackOK, RefreshOK, SetOK, ToolOK, ConfigureOK, Holding
<1> QED
  BY <1>1, <1>2, <1>3, <1>4, StartStep DEF oauth2_refresh

\* The refresh reads the service's entry in the vault.
LEMMA ReadTokenStep ==
  ASSUME EmailInv, NEW r \in Requests, ReadToken(r)
  PROVE  EmailInv'
<1>1. /\ req[r] \in EmailReqs /\ req[r].kind = "refresh" /\ req[r].stage = "read" /\ req[r].s \in Services
      /\ req[r].p \in Providers
      /\ UNCHANGED <<mix, gen, flow, expired, dbvars, vault, provider, history>>
  BY ReqTyped DEF ReadToken, At, RefreshOK
<1>2. ~At(r, "configure", "save") /\ gen' \in 0..MaxGen
  BY <1>1 DEF At, EmailInv, EmailTypeOK
<1>3. CASE Done(r)
  BY <1>1, <1>2, <1>3, RequestEnds
<1>4. CASE /\ Configured(req[r].p, req[r].c) /\ cred[req[r].s] # None
           /\ req' = [req EXCEPT ![r].stage = "refresh", ![r].f = cred[req[r].s].from,
                                 ![r].k = SecretFor(req[r].p, req[r].c)]
  <2>1. cred[req[r].s] \in VaultEntries /\ cred[req[r].s].from \in States \cup {None}
    BY <1>1, <1>4 DEF EmailInv, EmailTypeOK, VaultEntries
  <2>2. SecretFor(req[r].p, req[r].c) \in 0..MaxGen
    <3>1. secret[req[r].p] \in 0..MaxGen
      BY <1>1 DEF EmailInv, EmailTypeOK
    <3> QED
      BY <3>1, EmailAssumption DEF SecretFor
  <2>3. PICK q : q = [req[r] EXCEPT !.stage = "refresh", !.f = cred[req[r].s].from,
                                    !.k = SecretFor(req[r].p, req[r].c)]
    OBVIOUS
  <2>4. req' = [req EXCEPT ![r] = q]
    BY <1>4, <2>3, ReqTyped
  <2>5. /\ q \in EmailReqs /\ q.kind = "refresh" /\ q.stage = "refresh" /\ q.s = req[r].s
        /\ q.p = req[r].p /\ q.f = cred[q.s].from
    BY <1>1, <2>1, <2>2, <2>3 DEF EmailReqs
  <2>6. q.f # None => flow[q.f] # None /\ flow[q.f].svc = q.s
    BY <1>1, <1>4, <2>5 DEF EmailInv, EntriesFit
  <2>7. CallbackOK(q) /\ RefreshOK(q) /\ SetOK(q) /\ ToolOK(q) /\ ConfigureOK(q) /\ ~Holding(q)
    BY <1>1, <2>5, <2>6 DEF CallbackOK, RefreshOK, SetOK, ToolOK, ConfigureOK, Holding
  <2> QED
    BY <1>1, <1>2, <2>4, <2>5, <2>7, RequestOnly
<1> QED
  BY <1>3, <1>4 DEF ReadToken

\* The provider refreshes the token, and it is answered.
LEMMA RefreshStep ==
  ASSUME EmailInv, NEW r \in Requests, RefreshToken(r) \/ AnswerToken(r)
  PROVE  EmailInv'
<1>1. /\ req[r].kind = "refresh" /\ req[r].stage \in {"refresh", "answer"}
      /\ UNCHANGED <<mix, gen, flow, expired, dbvars, vault, provider, history>>
  BY DEF RefreshToken, AnswerToken, At
<1>2. ~At(r, "configure", "save") /\ gen' \in 0..MaxGen
  BY <1>1 DEF At, EmailInv, EmailTypeOK
<1>3. CASE Done(r)
  BY <1>1, <1>2, <1>3, RequestEnds
<1>4. CASE req[r].f # None /\ Goto(r, "answer")
  <2>1. PICK q \in EmailReqs :
           /\ req' = [req EXCEPT ![r] = q] /\ q.stage = "answer" /\ q.kind = req[r].kind
           /\ q.p = req[r].p /\ q.s = req[r].s /\ q.f = req[r].f /\ q.c = req[r].c
           /\ q.a = req[r].a /\ q.late = req[r].late /\ q.seen = req[r].seen /\ q.scheme = req[r].scheme
    BY <1>4, ReqTyped, GoesTo
  <2>2. CallbackOK(q) /\ RefreshOK(q) /\ SetOK(q) /\ ToolOK(q) /\ ConfigureOK(q) /\ ~Holding(q)
    BY <1>1, <1>4, <2>1, ReqTyped DEF CallbackOK, RefreshOK, SetOK, ToolOK, ConfigureOK, Holding
  <2> QED
    BY <1>1, <1>2, <2>1, <2>2, RequestOnly
<1> QED
  BY <1>3, <1>4 DEF RefreshToken, AnswerToken

\* A password is asked for, for a live service of its scheme.
LEMMA SetStep ==
  ASSUME EmailInv, NEW r \in Requests, NEW s \in Services, NEW scheme \in Schemes,
         set_email_service_credential(r, s, scheme)
  PROVE  EmailInv'
<1>1. gen' \in 0..MaxGen /\ svc[s] # None /\ svc[s].scheme = scheme
  BY DEF set_email_service_credential, list_email_services, Exists, EmailInv, EmailTypeOK
<1>2. PICK q : q = [NoRequest EXCEPT !.kind = "set", !.stage = "put", !.s = s, !.scheme = scheme]
  OBVIOUS
<1>3. q \in EmailReqs /\ q.kind = "set" /\ q.stage = "put" /\ q.s = s /\ q.scheme = scheme
  BY <1>2, NoRequestOK DEF EmailReqs
<1>4. CallbackOK(q) /\ RefreshOK(q) /\ SetOK(q) /\ ToolOK(q) /\ ConfigureOK(q) /\ ~Holding(q)
  BY <1>1, <1>3 DEF CallbackOK, RefreshOK, SetOK, ToolOK, ConfigureOK, Holding
<1> QED
  BY <1>1, <1>2, <1>3, <1>4, StartStep DEF set_email_service_credential

\* A grant is asked for.
LEMMA GrantBegins ==
  ASSUME EmailInv, NEW r \in Requests, NEW a \in Agents, NEW s \in Services,
         create_email_permission_grant(r, a, s)
  PROVE  EmailInv'
<1>1. gen' \in 0..MaxGen
  BY DEF create_email_permission_grant, EmailInv, EmailTypeOK
<1>2. PICK q : q = [NoRequest EXCEPT !.kind = "grant", !.stage = "insert", !.a = a, !.s = s]
  OBVIOUS
<1>3. q \in EmailReqs /\ q.kind = "grant" /\ q.stage = "insert" /\ q.a = a /\ q.s = s
  BY <1>2, NoRequestOK DEF EmailReqs
<1>4. CallbackOK(q) /\ RefreshOK(q) /\ SetOK(q) /\ ToolOK(q) /\ ConfigureOK(q) /\ ~Holding(q)
  BY <1>3 DEF CallbackOK, RefreshOK, SetOK, ToolOK, ConfigureOK, Holding
<1> QED
  BY <1>1, <1>2, <1>3, <1>4, StartStep DEF create_email_permission_grant

\* A tool is called: the service is live, so a grant found later was seen.
LEMMA ToolStep ==
  ASSUME EmailInv, NEW r \in Requests, NEW a \in Agents, NEW s \in Services, email_tool(r, a, s)
  PROVE  EmailInv'
<1>1. gen' \in 0..MaxGen /\ s \in list_email_services
  BY DEF email_tool, resolve_email_service_id, EmailInv, EmailTypeOK
<1>2. PICK q : q = [NoRequest EXCEPT !.kind = "tool", !.stage = "grant", !.a = a, !.s = s,
           !.late = s \notin list_email_services, !.seen = s \in list_email_services /\ <<a, s>> \in list_email_permission_grants]
  OBVIOUS
<1>3. /\ q \in EmailReqs /\ q.kind = "tool" /\ q.stage = "grant" /\ q.a = a /\ q.s = s
      /\ q.seen = (s \in list_email_services /\ <<a, s>> \in list_email_permission_grants)
      /\ ~q.late
  <2>1. FALSE = (s \notin list_email_services)
    BY <1>1
  <2>2. PICK b \in BOOLEAN : b = (s \in list_email_services /\ <<a, s>> \in list_email_permission_grants)
    <3>1. CASE s \in list_email_services /\ <<a, s>> \in list_email_permission_grants
      BY <3>1
    <3>2. CASE ~(s \in list_email_services /\ <<a, s>> \in list_email_permission_grants)
      <4>1. FALSE \in BOOLEAN /\ FALSE = (s \in list_email_services /\ <<a, s>> \in list_email_permission_grants)
        BY <3>2
      <4> QED
        BY <4>1
    <3> QED
      BY <3>1, <3>2
  <2>3. q = [NoRequest EXCEPT !.kind = "tool", !.stage = "grant", !.a = a, !.s = s, !.late = FALSE,
               !.seen = b]
    BY <1>2, <2>1, <2>2
  <2>4. /\ q \in EmailReqs /\ q.kind = "tool" /\ q.stage = "grant" /\ q.a = a /\ q.s = s
        /\ q.seen = b /\ q.late = FALSE
    BY <2>3, NoRequestOK DEF EmailReqs
  <2> QED
    BY <2>2, <2>4
<1>4. CallbackOK(q) /\ RefreshOK(q) /\ SetOK(q) /\ ToolOK(q) /\ ConfigureOK(q) /\ ~Holding(q)
  BY <1>1, <1>3 DEF CallbackOK, RefreshOK, SetOK, ToolOK, ConfigureOK, Holding
<1> QED
  BY <1>1, <1>2, <1>3, <1>4, StartStep DEF email_tool

\* The grant is found, the token signed and used.
LEMMA TokenStep ==
  ASSUME EmailInv, NEW r \in Requests, CheckGrant(r) \/ _get_email_jwt(r) \/ ProxyAnswers(r)
  PROVE  EmailInv'
<1>1. /\ req[r].kind = "tool"
      /\ UNCHANGED <<mix, gen, flow, expired, dbvars, vault, provider, history>>
  BY DEF CheckGrant, _get_email_jwt, ProxyAnswers, At
<1>2. ~At(r, "configure", "save") /\ gen' \in 0..MaxGen
  BY <1>1 DEF At, EmailInv, EmailTypeOK
<1>3. CASE Done(r)
  BY <1>1, <1>2, <1>3, RequestEnds
<1>4. ASSUME NEW st \in {"issue", "token"}, Goto(r, st),
             req[r].seen \/ <<req[r].a, req[r].s>> \in overtaken
      PROVE  EmailInv'
  <2>1. PICK q \in EmailReqs :
           /\ req' = [req EXCEPT ![r] = q] /\ q.stage = st /\ q.kind = req[r].kind
           /\ q.p = req[r].p /\ q.s = req[r].s /\ q.f = req[r].f /\ q.c = req[r].c
           /\ q.a = req[r].a /\ q.late = req[r].late /\ q.seen = req[r].seen /\ q.scheme = req[r].scheme
    <3>1. st \in {"put", "save", "commit", "answer", "issue", "token"} /\ Goto(r, st)
      BY <1>4
    <3> QED
      BY <3>1, ReqTyped, GoesTo
  <2>2. CallbackOK(q) /\ RefreshOK(q) /\ SetOK(q) /\ ToolOK(q) /\ ConfigureOK(q) /\ ~Holding(q)
    BY <1>1, <1>4, <2>1, ReqTyped DEF CallbackOK, RefreshOK, SetOK, ToolOK, ConfigureOK, Holding
  <2> QED
    BY <1>1, <1>2, <2>1, <2>2, RequestOnly
<1>5. ToolOK(req[r])
  BY ReqTyped
<1>6. CASE CheckGrant(r)
  BY <1>1, <1>3, <1>4, <1>5, <1>6 DEF CheckGrant, ToolOK
<1>7. CASE _get_email_jwt(r) \/ ProxyAnswers(r)
  BY <1>1, <1>3, <1>4, <1>5, <1>7 DEF _get_email_jwt, ProxyAnswers, ToolOK, At
<1> QED
  BY <1>6, <1>7

\* A step that changes nothing.
LEMMA EmailStutters ==
  ASSUME EmailInv, UNCHANGED emailVars
  PROVE  EmailInv'
  BY DEF EmailInv, EmailTypeOK, RequestsOK, HeldOnce, StatesOnce, FlowKept, EntriesFit, ConfigPair,
         CallbackOK, RefreshOK, SetOK, ToolOK, ConfigureOK, Holding, list_email_permission_grants,
         Saving, At, emailVars, dbvars, vault, provider, history

-----------------------------------------------------------------------------
(* The steps that write a table, the vault or the history.                 *)

\* What the requests rely on stays: a flow that was begun, the rows callbacks
\* hold, the scheme of a service, and the pairs without a grant.
LEMMA RelyStays ==
  ASSUME NEW q \in EmailReqs, CallbackOK(q), RefreshOK(q), SetOK(q), ToolOK(q),
         \A f \in States : flow[f] # None => flow'[f] = flow[f],
         Holding(q) /\ q.f \in rows => q.f \in rows',
         \A s \in Services : svc[s] # None => svc'[s] # None /\ svc'[s].scheme = svc[s].scheme,
         (list_email_permission_grants)' \subseteq list_email_permission_grants,
         overtaken \subseteq overtaken'
  PROVE  /\ q.kind = "callback" => q.f \in States /\ flow'[q.f] # None
         /\ Holding(q) => q.s = flow'[q.f].svc /\ q.f \in rows'
         /\ q.kind = "refresh" => q.s \in Services /\ q.p \in Providers
         /\ q.kind = "refresh" /\ q.stage \in {"refresh", "answer"} =>
              /\ q.stage = "answer" => q.f # None
              /\ q.f # None => flow'[q.f] # None /\ flow'[q.f].svc = q.s
         /\ q.kind = "set" => q.s \in Services /\ svc'[q.s] # None /\ svc'[q.s].scheme = q.scheme
         /\ q.kind = "grant" => q.a \in Agents /\ q.s \in Services
         /\ q.kind = "tool" => ~q.late
         /\ q.kind = "tool" /\ (<<q.a, q.s>> \in (list_email_permission_grants)'
                                  \/ q.stage \in {"issue", "token"}) =>
                                  q.seen \/ <<q.a, q.s>> \in overtaken'
<1>1. q.f \in States \cup {None}
  BY DEF EmailReqs
<1>2. /\ q.kind = "callback" => q.f \in States /\ flow'[q.f] # None
      /\ Holding(q) => q.s = flow'[q.f].svc /\ q.f \in rows'
  BY DEF CallbackOK, Holding
<1>3. /\ q.kind = "refresh" => q.s \in Services /\ q.p \in Providers
      /\ q.kind = "refresh" /\ q.stage \in {"refresh", "answer"} =>
           /\ q.stage = "answer" => q.f # None
           /\ q.f # None => flow'[q.f] # None /\ flow'[q.f].svc = q.s
  BY <1>1 DEF RefreshOK
<1>4. q.kind = "set" => q.s \in Services /\ svc'[q.s] # None /\ svc'[q.s].scheme = q.scheme
  BY DEF SetOK
<1>5. /\ q.kind = "grant" => q.a \in Agents /\ q.s \in Services
      /\ q.kind = "tool" => ~q.late
      /\ q.kind = "tool" /\ (<<q.a, q.s>> \in (list_email_permission_grants)'
                                  \/ q.stage \in {"issue", "token"}) =>
                                  q.seen \/ <<q.a, q.s>> \in overtaken'
  BY DEF ToolOK
<1> QED
  BY <1>2, <1>3, <1>4, <1>5

\* The requests stay in order when each is what it was, has ended, or goes on
\* with a configure call.
LEMMA RequestsStay ==
  ASSUME EmailInv, req' \in [Requests -> EmailReqs],
         \A x \in Requests : \/ req'[x] = req[x] \/ req'[x] = NoRequest
                             \/ req'[x].kind = "configure" /\ req'[x].p \in Providers,
         \A f \in States : flow[f] # None => flow'[f] = flow[f],
         \A x \in Requests : Holding(req'[x]) /\ req'[x].f \in rows => req'[x].f \in rows',
         \A s \in Services : svc[s] # None => svc'[s] # None /\ svc'[s].scheme = svc[s].scheme,
         (list_email_permission_grants)' \subseteq list_email_permission_grants,
         overtaken \subseteq overtaken',
         \A x \in Requests : req'[x].kind = "configure" /\ req'[x].stage = "save" =>
            req'[x].p \in torn' \/ secret'[req'[x].p] = req'[x].c
  PROVE  RequestsOK' /\ HeldOnce'
<1>1. ASSUME NEW x \in Requests
      PROVE  /\ req'[x] \in EmailReqs /\ CallbackOK(req'[x]) /\ RefreshOK(req'[x]) /\ SetOK(req'[x])
             /\ ToolOK(req'[x]) /\ (req'[x].kind = "configure" => req'[x].p \in Providers)
  <2>1. CASE req'[x] = req[x] \/ req'[x] = NoRequest
    BY <2>1, ReqTyped, NoRequestOK DEF ConfigureOK
  <2>2. CASE req'[x].kind = "configure" /\ req'[x].p \in Providers
    BY <2>2 DEF CallbackOK, RefreshOK, SetOK, ToolOK, Holding
  <2> QED
    BY <2>1, <2>2
<1>2. ASSUME NEW x \in Requests
      PROVE  (CallbackOK(req[x]) /\ RefreshOK(req[x]) /\ SetOK(req[x]) /\ ToolOK(req[x])
                /\ ConfigureOK(req[x]))'
  <2>1. PICK q \in EmailReqs : q = req'[x]
    BY <1>1
  <2>2. /\ CallbackOK(q) /\ RefreshOK(q) /\ SetOK(q) /\ ToolOK(q)
        /\ (q.kind = "configure" => q.p \in Providers)
        /\ (Holding(q) /\ q.f \in rows => q.f \in rows')
        /\ (q.kind = "configure" /\ q.stage = "save" => q.p \in torn' \/ secret'[q.p] = q.c)
    BY <1>1, <2>1
  <2>3. /\ q.kind = "callback" => q.f \in States /\ flow'[q.f] # None
        /\ Holding(q) => q.s = flow'[q.f].svc /\ q.f \in rows'
        /\ q.kind = "refresh" => q.s \in Services /\ q.p \in Providers
        /\ q.kind = "refresh" /\ q.stage \in {"refresh", "answer"} =>
             /\ q.stage = "answer" => q.f # None
             /\ q.f # None => flow'[q.f] # None /\ flow'[q.f].svc = q.s
        /\ q.kind = "set" => q.s \in Services /\ svc'[q.s] # None /\ svc'[q.s].scheme = q.scheme
        /\ q.kind = "grant" => q.a \in Agents /\ q.s \in Services
        /\ q.kind = "tool" => ~q.late
        /\ q.kind = "tool" /\ (<<q.a, q.s>> \in (list_email_permission_grants)'
                                  \/ q.stage \in {"issue", "token"}) =>
                                  q.seen \/ <<q.a, q.s>> \in overtaken'
    BY <2>2, RelyStays
  <2>4. CallbackOK(req[x])' /\ RefreshOK(req[x])' /\ SetOK(req[x])'
    BY <2>1, <2>3 DEF CallbackOK, RefreshOK, SetOK, Holding
  <2>5. ToolOK(req[x])'
    BY <2>1, <2>3 DEF ToolOK
  <2>6. ConfigureOK(req[x])'
    BY <2>1, <2>2 DEF ConfigureOK
  <2> QED
    BY <2>4, <2>5, <2>6
<1>3. HeldOnce'
  <2>1. \A x \in Requests : Holding(req'[x]) => req'[x] = req[x]
    BY NoRequestOK DEF Holding
  <2>2. \A x, y \in Requests : Holding(req'[x]) /\ Holding(req'[y]) /\ req'[x].f = req'[y].f => x = y
    BY <2>1 DEF EmailInv, HeldOnce
  <2> QED
    BY <2>2 DEF HeldOnce, Holding
<1> QED
  BY <1>2, <1>3 DEF RequestsOK

\* The typing that a step relies on.
LEMMA TablesTyped ==
  ASSUME EmailInv
  PROVE  /\ mix \in Mixes /\ gen \in 0..MaxGen
         /\ svc \in [Services -> ServiceRows \cup {None}]
         /\ cfg \in [Providers -> 0..MaxGen] /\ secret \in [Providers -> 0..MaxGen]
         /\ rows \subseteq {f \in States : flow[f] # None} /\ expired \subseteq States
         /\ flow \in [States -> Flows \cup {None}]
         /\ codes \in [States -> 0..MaxConsents] /\ consents \in [States -> 0..MaxConsents]
         /\ cred \in [Services -> VaultEntries \cup {None}]
         /\ grant \in [GrantIds -> EmailGrants \cup {None}]
         /\ spent \in [States -> Nat] /\ ended \subseteq States /\ torn \subseteq Providers
         /\ overtaken \subseteq Agents \X Services
         /\ req \in [Requests -> EmailReqs]
  BY DEF EmailInv, EmailTypeOK, RequestsOK

\* A service row is made or changed, and keeps its scheme.
LEMMA ServiceMoves ==
  ASSUME EmailInv, NEW s \in Services, NEW v \in ServiceRows, svc' = [svc EXCEPT ![s] = v],
         svc[s] = None \/ v.scheme = svc[s].scheme,
         UNCHANGED <<mix, gen, flow, expired, req, cfg, rows, grant, vault, provider, history>>
  PROVE  EmailInv'
<1>1. /\ secret' = secret /\ cred' = cred /\ codes' = codes /\ consents' = consents
      /\ spent' = spent /\ ended' = ended /\ torn' = torn /\ overtaken' = overtaken
      /\ mix' = mix /\ gen' = gen /\ flow' = flow /\ expired' = expired /\ req' = req /\ cfg' = cfg
      /\ rows' = rows /\ grant' = grant
  BY Groups
<1>2. svc \in [Services -> ServiceRows \cup {None}] /\ svc' \in [Services -> ServiceRows \cup {None}]
  BY TablesTyped
<1>3. \A x \in Services : svc[x] # None => svc'[x] # None /\ svc'[x].scheme = svc[x].scheme
  BY <1>2, NoneAssumption
<1>4. EmailTypeOK'
  BY <1>1, <1>2, TablesTyped DEF EmailTypeOK
<1>5. (list_email_permission_grants)' = list_email_permission_grants
  BY <1>1 DEF list_email_permission_grants
<1>6. RequestsOK' /\ HeldOnce'
  <2>1. \A x \in Requests : req[x].kind = "configure" /\ req[x].stage = "save" =>
            req[x].p \in torn \/ secret[req[x].p] = req[x].c
    BY ReqTyped DEF ConfigureOK
  <2> QED
    BY <1>1, <1>3, <1>5, <2>1, RequestsStay, TablesTyped
<1>7. StatesOnce' /\ FlowKept'
  BY <1>1 DEF EmailInv, StatesOnce, FlowKept
<1>8. EntriesFit'
  BY <1>1, <1>3 DEF EmailInv, EntriesFit
<1>9. ConfigPair'
  BY <1>1 DEF EmailInv, ConfigPair, Saving, At
<1> QED
  BY <1>4, <1>6, <1>7, <1>8, <1>9 DEF EmailInv

\* The operations on services.
LEMMA ServicesKept ==
  ASSUME EmailInv, NEW s \in Services, ServiceStep(s)
  PROVE  EmailInv'
<1>1. ASSUME NEW scheme \in Schemes, create_email_service(s, scheme)
      PROVE  EmailInv'
  <2>1. [scheme |-> scheme, deleted |-> FALSE, tls |-> FALSE] \in ServiceRows
    BY DEF ServiceRows
  <2> QED
    BY <1>1, <2>1, ServiceMoves DEF create_email_service, Exists
<1>2. ASSUME NEW template \in Schemes \cup {None}, create_email_service_from_template(s, template)
      PROVE  EmailInv'
  <2>1. PICK scheme \in Schemes : create_email_service(s, scheme)
    BY <1>2, EmailAssumption DEF create_email_service_from_template
  <2> QED
    BY <1>1, <2>1
<1>3. ASSUME s \in list_email_services
      PROVE  svc[s] \in ServiceRows
  BY <1>3, TablesTyped DEF list_email_services, Exists
<1>4. ASSUME NEW fields, patch_email_service(s, fields)
      PROVE  EmailInv'
  <2>1. svc[s] \in ServiceRows
    BY <1>3, <1>4 DEF patch_email_service
  <2>2. PICK v : v = [svc[s] EXCEPT !.tls = ~@]
    OBVIOUS
  <2>3. v \in ServiceRows /\ v.scheme = svc[s].scheme
    BY <2>1, <2>2 DEF ServiceRows
  <2>4. svc' = [svc EXCEPT ![s] = v]
    BY <1>4, <2>2, TablesTyped DEF patch_email_service
  <2> QED
    BY <1>4, <2>3, <2>4, ServiceMoves DEF patch_email_service
<1>5. CASE delete_email_service(s)
  <2>1. svc[s] \in ServiceRows
    BY <1>3, <1>5 DEF delete_email_service
  <2>2. PICK v : v = [svc[s] EXCEPT !.deleted = TRUE]
    OBVIOUS
  <2>3. v \in ServiceRows /\ v.scheme = svc[s].scheme
    BY <2>1, <2>2 DEF ServiceRows
  <2>4. svc' = [svc EXCEPT ![s] = v]
    BY <1>5, <2>2, TablesTyped DEF delete_email_service
  <2> QED
    BY <1>5, <2>3, <2>4, ServiceMoves DEF delete_email_service
<1>6. CASE delete_email_service_credential(s)
  BY <1>6, EmailStutters DEF delete_email_service_credential
<1> QED
  BY <1>1, <1>2, <1>4, <1>5, <1>6 DEF ServiceStep

-----------------------------------------------------------------------------
(* The OAuth2 clients.                                                     *)

\* A client is written: what is left to show is that id and secret match.
LEMMA ClientsMove ==
  ASSUME EmailInv, req' \in [Requests -> EmailReqs],
         \A x \in Requests : \/ req'[x] = req[x] \/ req'[x] = NoRequest
                             \/ req'[x].kind = "configure" /\ req'[x].p \in Providers,
         UNCHANGED <<mix, gen, flow, expired, svc, rows, grant, cred, provider, spent, ended, overtaken>>,
         cfg' \in [Providers -> 0..MaxGen], secret' \in [Providers -> 0..MaxGen],
         torn' \subseteq Providers, ConfigPair',
         \A x \in Requests : req'[x].kind = "configure" /\ req'[x].stage = "save" =>
            req'[x].p \in torn' \/ secret'[req'[x].p] = req'[x].c
  PROVE  EmailInv'
<1>1. /\ cred' = cred /\ codes' = codes /\ consents' = consents
      /\ spent' = spent /\ ended' = ended /\ overtaken' = overtaken
      /\ mix' = mix /\ gen' = gen /\ flow' = flow /\ expired' = expired /\ svc' = svc
      /\ rows' = rows /\ grant' = grant
  BY Groups
<1>2. EmailTypeOK'
  BY <1>1, TablesTyped DEF EmailTypeOK
<1>3. (list_email_permission_grants)' = list_email_permission_grants
  BY <1>1 DEF list_email_permission_grants
<1>4. RequestsOK' /\ HeldOnce'
  BY <1>1, <1>3, RequestsStay
<1>5. StatesOnce' /\ FlowKept' /\ EntriesFit'
  BY <1>1 DEF EmailInv, StatesOnce, FlowKept, EntriesFit
<1> QED
  BY <1>2, <1>4, <1>5 DEF EmailInv

\* The two facts about a configure call that writes.
LEMMA ConfigureTyped ==
  ASSUME EmailInv, NEW r \in Requests, req[r].kind = "configure"
  PROVE  req[r].p \in Providers /\ req[r].c \in 0..MaxGen
  BY ReqTyped DEF ConfigureOK, EmailReqs

\* The calls between their two writes have their secret in the vault.
LEMMA SavingOK ==
  ASSUME EmailInv, NEW r \in Requests, req[r].kind = "configure", req[r].stage = "save"
  PROVE  req[r].p \in torn \/ secret[req[r].p] = req[r].c
  BY ReqTyped DEF ConfigureOK

\* A request ends.
LEMMA OneEnds ==
  ASSUME EmailInv, NEW r \in Requests, Done(r)
  PROVE  /\ req' \in [Requests -> EmailReqs] /\ req'[r] = NoRequest
         /\ \A x \in Requests \ {r} : req'[x] = req[x]
         /\ \A x \in Requests : req'[x] = req[x] \/ req'[x] = NoRequest
         /\ \A x \in Requests : req'[x].kind = "configure" => x # r /\ req'[x] = req[x]
<1>1. req \in [Requests -> EmailReqs] /\ req' = [req EXCEPT ![r] = NoRequest]
  BY TablesTyped DEF Done
<1>2. /\ req' \in [Requests -> EmailReqs] /\ req'[r] = NoRequest
      /\ \A x \in Requests \ {r} : req'[x] = req[x]
  BY <1>1, NoRequestOK, OneMoves
<1> QED
  BY <1>2, NoRequestOK

\* SaveClient writes the id whose secret the vault has.
LEMMA SaveClientStep ==
  ASSUME EmailInv, NEW r \in Requests, SaveClient(r)
  PROVE  EmailInv'
<1>1. /\ req[r].kind = "configure" /\ req[r].stage = "save" /\ Done(r)
      /\ cfg' = [cfg EXCEPT ![req[r].p] = req[r].c]
      /\ UNCHANGED <<mix, gen, flow, expired, svc, rows, grant, vault, provider, history>>
  BY DEF SaveClient, At
<1>2. req[r].p \in Providers /\ req[r].c \in 0..MaxGen
  BY <1>1, ConfigureTyped
<1>3. req[r].p \in torn \/ secret[req[r].p] = req[r].c
  BY <1>1, SavingOK
<1>4. /\ req' \in [Requests -> EmailReqs]
      /\ \A x \in Requests \ {r} : req'[x] = req[x]
      /\ \A x \in Requests : req'[x] = req[x] \/ req'[x] = NoRequest
      /\ \A x \in Requests : req'[x].kind = "configure" => x # r /\ req'[x] = req[x]
  BY <1>1, OneEnds
<1>5. secret' = secret /\ torn' = torn /\ cred' = cred /\ spent' = spent /\ ended' = ended
      /\ overtaken' = overtaken
  BY <1>1, Groups
<1>6. cfg' \in [Providers -> 0..MaxGen] /\ secret' \in [Providers -> 0..MaxGen] /\ torn' \subseteq Providers
  BY <1>1, <1>2, <1>5, TablesTyped
<1>7. ConfigPair'
  <2>1. \A p \in Providers : p # req[r].p => Saving(p) \subseteq Saving(p)'
    BY <1>4 DEF Saving, At
  <2>2. \A p \in Providers : p # req[r].p => cfg'[p] = cfg[p]
    BY <1>1, <1>2, TablesTyped
  <2>3. cfg'[req[r].p] = req[r].c
    BY <1>1, <1>2, TablesTyped
  <2> QED
    BY <1>3, <1>5, <2>1, <2>2, <2>3 DEF EmailInv, ConfigPair
<1>8. \A x \in Requests : req'[x].kind = "configure" /\ req'[x].stage = "save" =>
            req'[x].p \in torn' \/ secret'[req'[x].p] = req'[x].c
  BY <1>4, <1>5, SavingOK
<1> QED
  BY <1>1, <1>4, <1>5, <1>6, <1>7, <1>8, ClientsMove

\* delete_oauth2_provider forgets the id and keeps the secret.
LEMMA DeconfigureStep ==
  ASSUME EmailInv, NEW p \in Providers, delete_oauth2_provider(p)
  PROVE  EmailInv'
<1>1. /\ cfg' = [cfg EXCEPT ![p] = 0] /\ req' = req
      /\ UNCHANGED <<mix, gen, flow, expired, svc, rows, grant, vault, provider, history>>
  BY DEF delete_oauth2_provider
<1>2. /\ secret' = secret /\ torn' = torn /\ cred' = cred /\ spent' = spent /\ ended' = ended
      /\ overtaken' = overtaken
  BY <1>1, Groups
<1>3. /\ cfg' \in [Providers -> 0..MaxGen] /\ secret' \in [Providers -> 0..MaxGen]
      /\ torn' \subseteq Providers /\ req' \in [Requests -> EmailReqs]
  BY <1>1, <1>2, TablesTyped, EmailAssumption
<1>4. ConfigPair'
  <2>1. \A x \in Providers : Saving(x)' = Saving(x)
    BY <1>1 DEF Saving, At
  <2>2. \A x \in Providers : cfg'[x] = 0 \/ cfg'[x] = cfg[x]
    BY <1>1, TablesTyped
  <2> QED
    BY <1>2, <2>1, <2>2 DEF EmailInv, ConfigPair
<1>5. \A x \in Requests : req'[x].kind = "configure" /\ req'[x].stage = "save" =>
            req'[x].p \in torn' \/ secret'[req'[x].p] = req'[x].c
  BY <1>1, <1>2, SavingOK
<1> QED
  BY <1>1, <1>2, <1>3, <1>4, <1>5, ClientsMove

\* The vault write of a configure call: from here to the save, or for good,
\* the secret is this call's, and every other call between its writes is marked.
LEMMA StoreSecretStep ==
  ASSUME EmailInv, NEW r \in Requests, StoreSecret(r)
  PROVE  EmailInv'
<1>1. /\ req[r].kind = "configure" /\ req[r].stage = "put" /\ ~At(r, "configure", "save")
      /\ UNCHANGED <<mix, gen, flow, expired, dbvars, cred, provider, spent, ended, overtaken>>
  BY DEF StoreSecret, At
<1>2. /\ cfg' = cfg /\ cred' = cred /\ spent' = spent /\ ended' = ended /\ overtaken' = overtaken
      /\ svc' = svc /\ rows' = rows /\ grant' = grant
      /\ UNCHANGED <<mix, gen, flow, expired, provider>>
  BY <1>1, Groups
<1>3. req[r].p \in Providers /\ req[r].c \in 0..MaxGen
  BY <1>1, ConfigureTyped
<1>4. CASE Done(r) /\ UNCHANGED <<secret, torn>>
  BY <1>1, <1>2, <1>4, RequestEnds, Groups
<1>5. ASSUME secret' = [secret EXCEPT ![req[r].p] = req[r].c]
      PROVE  /\ secret' \in [Providers -> 0..MaxGen] /\ secret'[req[r].p] = req[r].c
             /\ \A p \in Providers \ {req[r].p} : secret'[p] = secret[p]
  BY <1>3, <1>5, TablesTyped
<1>6. CASE /\ secret' = [secret EXCEPT ![req[r].p] = req[r].c]
           /\ Done(r) /\ torn' = torn \cup {req[r].p}
  <2>1. /\ req' \in [Requests -> EmailReqs]
        /\ \A x \in Requests \ {r} : req'[x] = req[x]
        /\ \A x \in Requests : req'[x] = req[x] \/ req'[x] = NoRequest
        /\ \A x \in Requests : req'[x].kind = "configure" => x # r /\ req'[x] = req[x]
    BY <1>6, OneEnds
  <2>2. ConfigPair'
    <3>1. \A p \in Providers : Saving(p) \subseteq Saving(p)'
      BY <1>1, <2>1 DEF Saving, At
    <3> QED
      BY <1>2, <1>5, <1>6, <3>1 DEF EmailInv, ConfigPair
  <2>3. \A x \in Requests : req'[x].kind = "configure" /\ req'[x].stage = "save" =>
            req'[x].p \in torn' \/ secret'[req'[x].p] = req'[x].c
    BY <1>5, <1>6, <2>1, SavingOK, ConfigureTyped
  <2>4. cfg' \in [Providers -> 0..MaxGen] /\ torn' \subseteq Providers
    BY <1>2, <1>3, <1>6, TablesTyped
  <2> QED
    BY <1>2, <1>5, <1>6, <2>1, <2>2, <2>3, <2>4, ClientsMove
<1>7. CASE /\ secret' = [secret EXCEPT ![req[r].p] = req[r].c]
           /\ Goto(r, "save")
           /\ torn' = IF Saving(req[r].p) # {} THEN torn \cup {req[r].p} ELSE torn
  <2>1. PICK q \in EmailReqs :
           /\ req' = [req EXCEPT ![r] = q] /\ q.stage = "save" /\ q.kind = req[r].kind
           /\ q.p = req[r].p /\ q.s = req[r].s /\ q.f = req[r].f /\ q.c = req[r].c
           /\ q.a = req[r].a /\ q.late = req[r].late /\ q.seen = req[r].seen /\ q.scheme = req[r].scheme
    BY <1>7, ReqTyped, GoesTo
  <2>2. /\ req' \in [Requests -> EmailReqs] /\ req'[r] = q
        /\ \A x \in Requests \ {r} : req'[x] = req[x]
    BY <2>1, OneMoves, TablesTyped
  <2>3. ConfigPair'
    <3>1. \A p \in Providers : Saving(p) \subseteq Saving(p)'
      BY <1>1, <2>2 DEF Saving, At
    <3>2. r \in Saving(req[r].p)'
      <4>1. req'[r].kind = "configure" /\ req'[r].stage = "save" /\ req'[r].p = req[r].p
        BY <1>1, <2>1, <2>2
      <4>2. \A p : (req'[r].p = p) => r \in Saving(p)'
        BY <4>1 DEF Saving, At
      <4> QED
        BY <1>3, <4>1, <3>1, <2>2 DEF Saving, At
    <3>3. ASSUME NEW p \in Providers
          PROVE  (cfg[p] = 0 \/ cfg[p] = secret[p] \/ Saving(p) # {} \/ p \in torn)'
      <4>1. CASE p = req[r].p
        BY <3>2, <4>1, <2>1, <2>2, <1>1 DEF Saving, At
      <4>2. CASE p # req[r].p
        BY <1>2, <1>5, <1>7, <3>1, <4>2 DEF EmailInv, ConfigPair
      <4> QED
        BY <4>1, <4>2
    <3> QED
      BY <3>3 DEF ConfigPair
  <2>4. ASSUME NEW x \in Requests, req'[x].kind = "configure", req'[x].stage = "save"
        PROVE  req'[x].p \in torn' \/ secret'[req'[x].p] = req'[x].c
    <3>1. CASE x = r
      BY <1>5, <1>7, <2>1, <2>2, <3>1
    <3>2. CASE x # r /\ req[x].p = req[r].p
      <4>1. x \in Saving(req[r].p)
        BY <2>2, <2>4, <3>2 DEF Saving, At
      <4> QED
        BY <1>7, <2>2, <3>2, <4>1
    <3>3. CASE x # r /\ req[x].p # req[r].p
      <4>1. req'[x] = req[x] /\ req[x].p \in Providers /\ (req[x].p \in torn \/ secret[req[x].p] = req[x].c)
        BY <2>2, <2>4, <3>3, SavingOK, ConfigureTyped
      <4> QED
        BY <1>5, <1>7, <3>3, <4>1
    <3> QED
      BY <3>1, <3>2, <3>3
  <2>5. cfg' \in [Providers -> 0..MaxGen] /\ torn' \subseteq Providers
    BY <1>2, <1>3, <1>7, TablesTyped
  <2>6. \A x \in Requests : \/ req'[x] = req[x] \/ req'[x] = NoRequest
                            \/ req'[x].kind = "configure" /\ req'[x].p \in Providers
    BY <1>1, <1>3, <2>1, <2>2
  <2> QED
    BY <1>2, <1>5, <1>7, <2>2, <2>3, <2>4, <2>5, <2>6, ClientsMove
<1> QED
  BY <1>4, <1>6, <1>7 DEF StoreSecret

\* A request dies: a configure call between its writes leaves a mark.
LEMMA AbortStep ==
  ASSUME EmailInv, NEW r \in Requests, Abort(r)
  PROVE  EmailInv'
<1>1. /\ Done(r) /\ UNCHANGED <<mix, gen, flow, expired, dbvars, vault, provider, spent, ended, overtaken>>
      /\ torn' = IF At(r, "configure", "save") THEN torn \cup {req[r].p} ELSE torn
  BY DEF Abort
<1>2. /\ cfg' = cfg /\ cred' = cred /\ secret' = secret
      /\ svc' = svc /\ rows' = rows /\ grant' = grant
      /\ UNCHANGED <<mix, gen, flow, expired, provider, spent, ended, overtaken>>
  BY <1>1, Groups
<1>3. CASE ~At(r, "configure", "save")
  BY <1>1, <1>2, <1>3, RequestEnds, Groups
<1>4. CASE At(r, "configure", "save")
  <2>1. req[r].kind = "configure" /\ torn' = torn \cup {req[r].p} /\ req[r].p \in Providers
    BY <1>1, <1>4, ConfigureTyped DEF At
  <2>2. /\ req' \in [Requests -> EmailReqs]
        /\ \A x \in Requests \ {r} : req'[x] = req[x]
        /\ \A x \in Requests : req'[x] = req[x] \/ req'[x] = NoRequest
        /\ \A x \in Requests : req'[x].kind = "configure" => x # r /\ req'[x] = req[x]
    BY <1>1, OneEnds
  <2>3. ConfigPair'
    <3>1. \A p \in Providers : p # req[r].p => Saving(p) \subseteq Saving(p)'
      BY <2>2 DEF Saving, At
    <3> QED
      BY <1>2, <2>1, <3>1 DEF EmailInv, ConfigPair
  <2>4. \A x \in Requests : req'[x].kind = "configure" /\ req'[x].stage = "save" =>
            req'[x].p \in torn' \/ secret'[req'[x].p] = req'[x].c
    BY <1>2, <2>1, <2>2, SavingOK
  <2>5. /\ cfg' \in [Providers -> 0..MaxGen] /\ secret' \in [Providers -> 0..MaxGen]
        /\ torn' \subseteq Providers
    BY <1>2, <2>1, TablesTyped
  <2> QED
    BY <1>2, <2>2, <2>3, <2>4, <2>5, ClientsMove
<1> QED
  BY <1>3, <1>4

-----------------------------------------------------------------------------
(* The consent flow.                                                       *)

\* A row callbacks hold stays when only expired rows go.
LEMMA AuthorizeStep ==
  ASSUME EmailInv, NEW f \in States, NEW s \in Services, NEW p \in Providers, oauth2_authorize(f, s, p)
  PROVE  EmailInv'
<1>1. /\ flow[f] = None /\ rows' = (rows \ expired) \cup {f}
      /\ flow' = [flow EXCEPT ![f] = [svc |-> s, provider |-> p, client |-> cfg[p]]]
      /\ \A r \in Requests : req[r].stage \in {"exchange", "put", "commit"} => req[r].f \notin expired
      /\ UNCHANGED <<mix, gen, expired, req, svc, cfg, grant, vault, provider, history>>
  BY DEF oauth2_authorize, CollectExpired
<1>2. /\ secret' = secret /\ cred' = cred /\ codes' = codes /\ consents' = consents
      /\ spent' = spent /\ ended' = ended /\ torn' = torn /\ overtaken' = overtaken
      /\ mix' = mix /\ gen' = gen /\ expired' = expired /\ req' = req /\ cfg' = cfg
      /\ svc' = svc /\ grant' = grant
  BY <1>1, Groups
<1>3. [svc |-> s, provider |-> p, client |-> cfg[p]] \in Flows
  BY TablesTyped DEF Flows
<1>4. /\ flow' \in [States -> Flows \cup {None}] /\ flow'[f] # None
      /\ \A x \in States : x # f => flow'[x] = flow[x]
      /\ \A x \in States : flow[x] # None => flow'[x] = flow[x]
  BY <1>1, <1>3, TablesTyped, NoneAssumption
<1>5. EmailTypeOK'
  <2>1. rows' \subseteq {x \in States : flow'[x] # None}
    BY <1>1, <1>4, TablesTyped
  <2> QED
    BY <1>2, <1>4, <2>1, TablesTyped DEF EmailTypeOK
<1>6. RequestsOK' /\ HeldOnce'
  <2>1. \A x \in Requests : Holding(req'[x]) /\ req'[x].f \in rows => req'[x].f \in rows'
    BY <1>1, <1>2 DEF Holding
  <2>2. \A x \in Requests : req'[x].kind = "configure" /\ req'[x].stage = "save" =>
            req'[x].p \in torn' \/ secret'[req'[x].p] = req'[x].c
    BY <1>2, SavingOK
  <2>3. (list_email_permission_grants)' = list_email_permission_grants
    BY <1>2 DEF list_email_permission_grants
  <2> QED
    BY <1>2, <1>4, <2>1, <2>2, <2>3, RequestsStay, TablesTyped
<1>7. StatesOnce'
  <2>1. \A x \in ended : flow[x] # None /\ x \notin rows /\ x \in States
    BY TablesTyped DEF EmailInv, StatesOnce
  <2>2. \A x \in ended : flow'[x] # None /\ x \notin rows'
    BY <1>1, <1>4, <2>1
  <2> QED
    BY <1>2, <2>2 DEF EmailInv, StatesOnce
<1>8. FlowKept'
  BY <1>1, <1>2, <1>4 DEF EmailInv, FlowKept
<1>9. EntriesFit'
  <2>1. \A x \in Services : cred[x] # None => cred[x].from \in States \cup {None}
    BY TablesTyped DEF VaultEntries
  <2> QED
    BY <1>2, <1>4, <2>1 DEF EmailInv, EntriesFit
<1>10. ConfigPair'
  BY <1>2 DEF EmailInv, ConfigPair, Saving, At
<1> QED
  BY <1>5, <1>6, <1>7, <1>8, <1>9, <1>10 DEF EmailInv

\* Time passes and the user consents.
LEMMA ProviderStep ==
  ASSUME EmailInv, NEW f \in States, Expire(f) \/ Consent(f)
  PROVE  EmailInv'
<1>1. /\ svc' = svc /\ cfg' = cfg /\ rows' = rows /\ grant' = grant
      /\ secret' = secret /\ cred' = cred /\ spent' = spent /\ ended' = ended /\ torn' = torn /\ overtaken' = overtaken
      /\ mix' = mix /\ gen' = gen /\ flow' = flow /\ req' = req
  BY Groups DEF Expire, Consent
<1>2. /\ expired \subseteq expired' /\ expired' \subseteq States
      /\ codes' \in [States -> 0..MaxConsents] /\ consents' \in [States -> 0..MaxConsents]
      /\ \A x \in States : codes'[x] <= consents'[x]
  <2>1. CASE Expire(f)
    BY <2>1, TablesTyped, Groups DEF Expire, EmailInv, StatesOnce
  <2>2. CASE Consent(f)
    <3>1. /\ codes \in [States -> 0..MaxConsents] /\ consents \in [States -> 0..MaxConsents]
          /\ \A x \in States : codes[x] <= consents[x]
      BY TablesTyped DEF EmailInv, StatesOnce
    <3>2. /\ consents[f] < MaxConsents /\ consents' = [consents EXCEPT ![f] = @ + 1]
          /\ codes' = [codes EXCEPT ![f] = @ + 1] /\ expired' = expired
      BY <2>2 DEF Consent
    <3>3. /\ codes[f] + 1 \in 0..MaxConsents /\ consents[f] + 1 \in 0..MaxConsents
          /\ codes[f] + 1 <= consents[f] + 1
      BY <3>1, <3>2, EmailAssumption
    <3> QED
      BY <3>1, <3>2, <3>3, TablesTyped
  <2> QED
    BY <2>1, <2>2
<1>3. EmailTypeOK'
  BY <1>1, <1>2, TablesTyped DEF EmailTypeOK
<1>4. RequestsOK' /\ HeldOnce'
  <2>1. \A x \in Requests : req'[x].kind = "configure" /\ req'[x].stage = "save" =>
            req'[x].p \in torn' \/ secret'[req'[x].p] = req'[x].c
    BY <1>1, SavingOK
  <2>2. (list_email_permission_grants)' = list_email_permission_grants
    BY <1>1 DEF list_email_permission_grants
  <2> QED
    BY <1>1, <2>1, <2>2, RequestsStay, TablesTyped
<1>5. StatesOnce' /\ FlowKept' /\ EntriesFit'
  BY <1>1, <1>2 DEF EmailInv, StatesOnce, FlowKept, EntriesFit
<1>6. ConfigPair'
  BY <1>1 DEF EmailInv, ConfigPair, Saving, At
<1> QED
  BY <1>3, <1>4, <1>5, <1>6 DEF EmailInv

\* What a callback that holds its row knows.
LEMMA HolderTyped ==
  ASSUME EmailInv, NEW r \in Requests, Holding(req[r])
  PROVE  /\ req[r].kind = "callback" /\ req[r].f \in States /\ req[r].f \in rows
         /\ req[r].f # None /\ flow[req[r].f] \in Flows /\ flow[req[r].f] # None
         /\ req[r].s = flow[req[r].f].svc /\ req[r].s \in Services
         /\ req[r].f \notin ended /\ spent[req[r].f] = 0
         /\ ~At(r, "configure", "save")
         /\ \A x \in Requests \ {r} : Holding(req[x]) => req[x].f # req[r].f
<1>1. req[r].kind = "callback" /\ ~At(r, "configure", "save")
  BY DEF Holding, At
<1>2. /\ req[r].f \in States /\ req[r].f \in rows /\ flow[req[r].f] # None
      /\ req[r].s = flow[req[r].f].svc
  BY <1>1, ReqTyped DEF CallbackOK
<1>3. flow[req[r].f] \in Flows /\ req[r].s \in Services
  BY <1>2, TablesTyped DEF Flows
<1>4. req[r].f # None
  BY <1>2, NoneAssumption
<1>5. req[r].f \notin ended /\ spent[req[r].f] = 0
  BY <1>2 DEF EmailInv, StatesOnce
<1>6. \A x \in Requests \ {r} : Holding(req[x]) => req[x].f # req[r].f
  BY DEF EmailInv, HeldOnce
<1> QED
  BY <1>1, <1>2, <1>3, <1>4, <1>5, <1>6

\* A callback commits: its row is gone, for good, and nobody else held it.
LEMMA CallbackCommits ==
  ASSUME EmailInv, NEW r \in Requests, Holding(req[r]), Done(r), CommitState(r),
         UNCHANGED <<mix, gen, flow, expired, svc, cfg, grant, secret, consents, torn, overtaken>>,
         codes' \in [States -> 0..MaxConsents], \A f \in States : codes'[f] <= consents[f],
         cred' \in [Services -> VaultEntries \cup {None}], EntriesFit',
         spent' = spent \/ spent' = [spent EXCEPT ![req[r].f] = @ + 1]
  PROVE  EmailInv'
<1>1. /\ req[r].kind = "callback" /\ req[r].f \in States /\ req[r].f \in rows
      /\ flow[req[r].f] # None /\ req[r].f \notin ended /\ spent[req[r].f] = 0
      /\ \A x \in Requests \ {r} : Holding(req[x]) => req[x].f # req[r].f
  BY HolderTyped
<1>2. /\ mix' = mix /\ gen' = gen /\ flow' = flow /\ expired' = expired /\ svc' = svc /\ cfg' = cfg
      /\ grant' = grant /\ secret' = secret /\ consents' = consents /\ torn' = torn
      /\ overtaken' = overtaken /\ rows' = rows \ {req[r].f} /\ ended' = ended \cup {req[r].f}
  BY DEF CommitState
<1>3. /\ req' \in [Requests -> EmailReqs] /\ req'[r] = NoRequest
      /\ \A x \in Requests \ {r} : req'[x] = req[x]
      /\ \A x \in Requests : req'[x] = req[x] \/ req'[x] = NoRequest
      /\ \A x \in Requests : req'[x].kind = "configure" => x # r /\ req'[x] = req[x]
  BY OneEnds
<1>4. /\ spent' \in [States -> Nat]
      /\ \A f \in States : spent'[f] = spent[f] \/ (f = req[r].f /\ spent'[f] = 1)
  BY <1>1, TablesTyped
<1>5. EmailTypeOK'
  BY <1>1, <1>2, <1>4, TablesTyped DEF EmailTypeOK
<1>6. RequestsOK' /\ HeldOnce'
  <2>1. \A x \in Requests : Holding(req'[x]) /\ req'[x].f \in rows => req'[x].f \in rows'
    BY <1>1, <1>2, <1>3, NoRequestOK
  <2>2. \A x \in Requests : req'[x].kind = "configure" /\ req'[x].stage = "save" =>
            req'[x].p \in torn' \/ secret'[req'[x].p] = req'[x].c
    BY <1>2, <1>3, SavingOK
  <2>3. (list_email_permission_grants)' = list_email_permission_grants
    BY <1>2 DEF list_email_permission_grants
  <2> QED
    BY <1>2, <1>3, <2>1, <2>2, <2>3, RequestsStay
<1>7. StatesOnce'
  BY <1>1, <1>2, <1>4 DEF EmailInv, StatesOnce
<1>8. FlowKept'
  BY <1>2 DEF EmailInv, FlowKept
<1>9. ConfigPair'
  <2>1. \A p \in Providers : Saving(p) \subseteq Saving(p)'
    BY <1>1, <1>3 DEF Saving, At
  <2> QED
    BY <1>2, <2>1 DEF EmailInv, ConfigPair
<1> QED
  BY <1>5, <1>6, <1>7, <1>8, <1>9 DEF EmailInv

\* A callback that holds its row goes on to hold it.
LEMMA CallbackGoesOn ==
  ASSUME EmailInv, NEW r \in Requests, Holding(req[r]), NEW st \in {"put", "commit"}, Goto(r, st),
         UNCHANGED <<mix, gen, flow, expired, svc, cfg, grant, rows, secret, consents, spent, ended, torn, overtaken>>,
         codes' \in [States -> 0..MaxConsents], \A f \in States : codes'[f] <= consents[f],
         cred' \in [Services -> VaultEntries \cup {None}], EntriesFit'
  PROVE  EmailInv'
<1>1. /\ req[r].kind = "callback" /\ req[r].f \in States /\ req[r].f \in rows
      /\ flow[req[r].f] # None /\ req[r].s = flow[req[r].f].svc /\ ~At(r, "configure", "save")
      /\ \A x \in Requests \ {r} : Holding(req[x]) => req[x].f # req[r].f
  BY HolderTyped
<1>2. PICK q \in EmailReqs :
           /\ req' = [req EXCEPT ![r] = q] /\ q.stage = st /\ q.kind = req[r].kind
           /\ q.p = req[r].p /\ q.s = req[r].s /\ q.f = req[r].f /\ q.c = req[r].c
           /\ q.a = req[r].a /\ q.late = req[r].late /\ q.seen = req[r].seen /\ q.scheme = req[r].scheme
  <2>1. st \in {"put", "save", "commit", "answer", "issue", "token"}
    OBVIOUS
  <2> QED
    BY <2>1, TablesTyped, GoesTo
<1>3. CallbackOK(q) /\ RefreshOK(q) /\ SetOK(q) /\ ToolOK(q) /\ ConfigureOK(q)
  BY <1>1, <1>2 DEF CallbackOK, RefreshOK, SetOK, ToolOK, ConfigureOK, Holding
<1>4. \A x \in Requests \ {r} : Holding(req[x]) => req[x].f # q.f
  BY <1>1, <1>2
<1>5. gen' \in 0..MaxGen /\ UNCHANGED <<mix, flow, expired, dbvars, secret, consents, history>>
  BY TablesTyped, Groups
<1> QED
  BY <1>1, <1>2, <1>3, <1>4, <1>5, RequestMoves

\* The code is exchanged, or not.
LEMMA ExchangeStep ==
  ASSUME EmailInv, NEW r \in Requests, ExchangeCode(r)
  PROVE  EmailInv'
<1>1. /\ Holding(req[r])
      /\ UNCHANGED <<mix, gen, flow, expired, svc, cfg, grant, secret, cred, consents, spent, torn, overtaken>>
  BY Groups DEF ExchangeCode, At, Holding
<1>2. req[r].f \in States
  BY <1>1, HolderTyped
<1>3. EntriesFit' /\ cred' \in [Services -> VaultEntries \cup {None}]
  BY <1>1, TablesTyped DEF EmailInv, EntriesFit
<1>4. codes' \in [States -> 0..MaxConsents] /\ \A f \in States : codes'[f] <= consents[f]
  <2>1. /\ codes \in [States -> 0..MaxConsents] /\ consents \in [States -> 0..MaxConsents]
        /\ \A x \in States : codes[x] <= consents[x]
    BY TablesTyped DEF EmailInv, StatesOnce
  <2>2. CASE UNCHANGED codes
    BY <2>1, <2>2
  <2>3. CASE Accepted(r) /\ codes' = [codes EXCEPT ![req[r].f] = @ - 1]
    <3>1. codes[req[r].f] - 1 \in 0..MaxConsents /\ codes[req[r].f] - 1 <= consents[req[r].f]
      BY <1>2, <2>1, <2>3, EmailAssumption DEF Accepted
    <3> QED
      BY <1>2, <2>1, <2>3, <3>1
  <2> QED
    BY <2>2, <2>3 DEF ExchangeCode
<1>5. CASE Done(r) /\ CommitState(r)
  BY <1>1, <1>3, <1>4, <1>5, CallbackCommits
<1>6. CASE Goto(r, "put") /\ UNCHANGED <<rows, ended>>
  BY <1>1, <1>3, <1>4, <1>6, CallbackGoesOn
<1> QED
  BY <1>5, <1>6 DEF ExchangeCode

\* The refresh token is stored for the service of its flow, or not stored.
LEMMA StoreTokenStep ==
  ASSUME EmailInv, NEW r \in Requests, StoreToken(r)
  PROVE  EmailInv'
<1>1. /\ Holding(req[r])
      /\ UNCHANGED <<mix, gen, flow, expired, svc, cfg, grant, secret, codes, consents, spent, torn, overtaken>>
  BY Groups DEF StoreToken, At, Holding
<1>2. /\ req[r].f \in States /\ req[r].f # None /\ flow[req[r].f] # None
      /\ req[r].s = flow[req[r].f].svc /\ req[r].s \in Services
  BY <1>1, HolderTyped
<1>3. codes' \in [States -> 0..MaxConsents] /\ \A f \in States : codes'[f] <= consents[f]
  BY <1>1, TablesTyped DEF EmailInv, StatesOnce
<1>4. EntriesFit' /\ cred' \in [Services -> VaultEntries \cup {None}]
  <2>1. CASE UNCHANGED cred
    BY <1>1, <2>1, TablesTyped DEF EmailInv, EntriesFit
  <2>2. CASE cred' = [cred EXCEPT ![req[r].s] = Token(req[r].f)]
    <3>1. Token(req[r].f) \in VaultEntries /\ Token(req[r].f).from = req[r].f
      BY <1>2, EmailAssumption DEF Token, VaultEntries
    <3>2. /\ cred' \in [Services -> VaultEntries \cup {None}] /\ cred'[req[r].s].from = req[r].f
          /\ \A x \in Services \ {req[r].s} : cred'[x] = cred[x]
      BY <1>2, <2>2, <3>1, TablesTyped
    <3>3. EntriesFit'
      BY <1>1, <1>2, <3>2 DEF EmailInv, EntriesFit
    <3> QED
      BY <3>2, <3>3
  <2> QED
    BY <2>1, <2>2 DEF StoreToken
<1>5. CASE Done(r) /\ CommitState(r)
  BY <1>1, <1>3, <1>4, <1>5, CallbackCommits
<1>6. CASE Goto(r, "commit") /\ UNCHANGED <<rows, ended>>
  BY <1>1, <1>3, <1>4, <1>6, CallbackGoesOn
<1> QED
  BY <1>5, <1>6 DEF StoreToken

\* The callback answers 200.
LEMMA FinishStep ==
  ASSUME EmailInv, NEW r \in Requests, FinishCallback(r)
  PROVE  EmailInv'
<1>1. /\ Holding(req[r]) /\ Done(r) /\ CommitState(r)
      /\ spent' = [spent EXCEPT ![req[r].f] = @ + 1]
      /\ UNCHANGED <<mix, gen, flow, expired, svc, cfg, grant, secret, cred, codes, consents, torn, overtaken>>
  BY Groups DEF FinishCallback, At, Holding
<1>2. /\ codes' \in [States -> 0..MaxConsents] /\ \A f \in States : codes'[f] <= consents[f]
      /\ EntriesFit' /\ cred' \in [Services -> VaultEntries \cup {None}]
  BY <1>1, TablesTyped DEF EmailInv, StatesOnce, EntriesFit
<1> QED
  BY <1>1, <1>2, CallbackCommits

\* A password is stored for the service of its scheme.
LEMMA StorePasswordStep ==
  ASSUME EmailInv, NEW r \in Requests, StorePassword(r)
  PROVE  EmailInv'
<1> SUFFICES ASSUME cred' # cred PROVE EmailInv'
  <2>1. CASE cred' = cred
    BY <2>1, RequestEnds, Groups DEF StorePassword, At
  <2> QED
    BY <2>1
<1>1. /\ req[r].kind = "set" /\ Done(r) /\ ~At(r, "configure", "save")
      /\ cred' = [cred EXCEPT ![req[r].s] = [scheme |-> req[r].scheme, from |-> None]]
      /\ UNCHANGED <<mix, gen, flow, expired, dbvars, secret, provider, history>>
  BY DEF StorePassword, At
<1>2. req[r].s \in Services /\ svc[req[r].s] # None /\ svc[req[r].s].scheme = req[r].scheme
  BY <1>1, ReqTyped DEF SetOK
<1>3. req[r].scheme \in Schemes
  BY <1>2, TablesTyped DEF ServiceRows
<1>4. PICK v : v = [scheme |-> req[r].scheme, from |-> None]
  OBVIOUS
<1>5. v \in VaultEntries /\ v.from = None /\ v.scheme = req[r].scheme
  BY <1>3, <1>4 DEF VaultEntries
<1>6. /\ cred' \in [Services -> VaultEntries \cup {None}] /\ cred'[req[r].s] = v
      /\ \A x \in Services \ {req[r].s} : cred'[x] = cred[x]
  BY <1>1, <1>2, <1>4, <1>5, TablesTyped
<1>7. svc' = svc /\ flow' = flow /\ codes' = codes /\ consents' = consents /\ gen' = gen
  BY <1>1, Groups
<1>8. EntriesFit'
  BY <1>2, <1>5, <1>6, <1>7 DEF EmailInv, EntriesFit
<1>9. /\ codes' \in [States -> 0..MaxConsents] /\ \A f \in States : codes'[f] <= consents[f]
      /\ gen' \in 0..MaxGen
  BY <1>7, TablesTyped DEF EmailInv, StatesOnce
<1>10. req' = [req EXCEPT ![r] = NoRequest]
  BY <1>1 DEF Done
<1> QED
  BY <1>1, <1>6, <1>7, <1>8, <1>9, <1>10, NoRequestOK, RequestMoves

-----------------------------------------------------------------------------
(* Grants.                                                                 *)

\* A grant is made: the calls of its agent on its service have seen it.
LEMMA EmailGrantStep ==
  ASSUME EmailInv, NEW r \in Requests, NEW g \in GrantIds, InsertEmailGrant(r, g)
  PROVE  EmailInv'
<1>0. PICK a \in Agents, s \in Services : a = req[r].a /\ s = req[r].s
  BY ReqTyped DEF InsertEmailGrant, At, ToolOK
<1> SUFFICES ASSUME <<a, s>> \notin list_email_permission_grants PROVE EmailInv'
  <2>1. CASE <<a, s>> \in list_email_permission_grants
    BY <1>0, <2>1, RequestEnds, Groups DEF InsertEmailGrant, At
  <2> QED
    BY <2>1
<1>1. /\ grant[g] = None /\ grant' = [grant EXCEPT ![g] = [agent |-> a, svc |-> s, live |-> TRUE]]
      /\ overtaken' = IF s \in list_email_services THEN overtaken ELSE overtaken \cup {<<a, s>>}
      /\ req' = Seen(r, a, s) /\ At(r, "grant", "insert")
      /\ mix' = mix /\ gen' = gen /\ flow' = flow /\ expired' = expired /\ svc' = svc /\ cfg' = cfg
      /\ rows' = rows /\ secret' = secret /\ cred' = cred /\ codes' = codes /\ consents' = consents
      /\ spent' = spent /\ ended' = ended /\ torn' = torn
  BY <1>0, Groups DEF InsertEmailGrant
<1>2. PICK v : v = [agent |-> a, svc |-> s, live |-> TRUE]
  OBVIOUS
<1>3. v \in EmailGrants /\ v.agent = a /\ v.svc = s
  BY <1>2 DEF EmailGrants
<1>4. /\ grant' \in [GrantIds -> EmailGrants \cup {None}] /\ grant'[g] = v
      /\ \A x \in GrantIds \ {g} : grant'[x] = grant[x]
  BY <1>1, <1>2, <1>3, TablesTyped
<1>5. (list_email_permission_grants)' \subseteq list_email_permission_grants \cup {<<a, s>>}
  <2> SUFFICES ASSUME NEW w \in (list_email_permission_grants)'
               PROVE  w \in list_email_permission_grants \cup {<<a, s>>}
    OBVIOUS
  <2>1. PICK x \in GrantIds : grant'[x] # None /\ grant'[x].live /\ w = <<grant'[x].agent, grant'[x].svc>>
    BY DEF list_email_permission_grants
  <2>2. CASE x = g
    BY <1>3, <1>4, <2>1, <2>2
  <2>3. CASE x # g
    BY <1>4, <2>1, <2>3 DEF list_email_permission_grants
  <2> QED
    BY <2>2, <2>3
<1>6. ASSUME NEW x \in Requests
      PROVE  \E q \in EmailReqs :
               /\ req'[x] = q
               /\ \/ q = NoRequest /\ x = r
                  \/ /\ q.kind = req[x].kind /\ q.stage = req[x].stage /\ q.p = req[x].p
                     /\ q.s = req[x].s /\ q.f = req[x].f /\ q.c = req[x].c /\ q.a = req[x].a
                     /\ q.late = req[x].late /\ q.scheme = req[x].scheme /\ (req[x].seen => q.seen)
                     /\ (q.kind = "tool" /\ q.a = a /\ q.s = s => q.seen \/ <<a, s>> \in overtaken')
  <2>1. req[x] \in EmailReqs
    BY TablesTyped
  <2>2. CASE x = r
    BY <1>1, <2>2, NoRequestOK DEF Seen
  <2>3. CASE x # r /\ req[x].kind = "tool" /\ req[x].a = a /\ req[x].s = s
    <3>1. PICK b \in BOOLEAN : b = (req[x].seen \/ s \in list_email_services)
      <4>1. CASE req[x].seen \/ s \in list_email_services
        <5>1. TRUE \in BOOLEAN /\ TRUE = (req[x].seen \/ s \in list_email_services)
          BY <4>1
        <5> QED
          BY <5>1
      <4>2. CASE ~(req[x].seen \/ s \in list_email_services)
        <5>1. FALSE \in BOOLEAN /\ FALSE = (req[x].seen \/ s \in list_email_services)
          BY <4>2
        <5> QED
          BY <5>1
      <4> QED
        BY <4>1, <4>2
    <3>2. PICK q : q = [req[x] EXCEPT !.seen = b]
      OBVIOUS
    <3>3. /\ q \in EmailReqs /\ q.kind = req[x].kind /\ q.stage = req[x].stage /\ q.p = req[x].p
          /\ q.s = req[x].s /\ q.f = req[x].f /\ q.c = req[x].c /\ q.a = req[x].a
          /\ q.late = req[x].late /\ q.scheme = req[x].scheme /\ q.seen = b
      BY <2>1, <3>2 DEF EmailReqs
    <3>4. req'[x] = q
      BY <1>1, <2>3, <3>1, <3>2 DEF Seen
    <3>5. (req[x].seen => b) /\ (b \/ <<a, s>> \in overtaken')
      BY <1>1, <3>1
    <3> QED
      BY <3>3, <3>4, <3>5
  <2>4. CASE x # r /\ ~(req[x].kind = "tool" /\ req[x].a = a /\ req[x].s = s)
    BY <1>1, <2>1, <2>4 DEF Seen
  <2> QED
    BY <2>2, <2>3, <2>4
<1>7. req' \in [Requests -> EmailReqs]
  BY <1>1, <1>6 DEF Seen
<1>8. ASSUME NEW x \in Requests
      PROVE  (CallbackOK(req[x]) /\ RefreshOK(req[x]) /\ SetOK(req[x]) /\ ToolOK(req[x])
                /\ ConfigureOK(req[x]))'
  <2>0. CASE req'[x] = NoRequest
    BY <2>0, NoRequestOK DEF CallbackOK, RefreshOK, SetOK, ToolOK, ConfigureOK, Holding
  <2> SUFFICES ASSUME req'[x] # NoRequest
               PROVE  (CallbackOK(req[x]) /\ RefreshOK(req[x]) /\ SetOK(req[x]) /\ ToolOK(req[x])
                         /\ ConfigureOK(req[x]))'
    BY <2>0
  <2>1. PICK q \in EmailReqs :
               /\ req'[x] = q /\ q.kind = req[x].kind /\ q.stage = req[x].stage /\ q.p = req[x].p
               /\ q.s = req[x].s /\ q.f = req[x].f /\ q.c = req[x].c /\ q.a = req[x].a
               /\ q.late = req[x].late /\ q.scheme = req[x].scheme /\ (req[x].seen => q.seen)
               /\ (q.kind = "tool" /\ q.a = a /\ q.s = s => q.seen \/ <<a, s>> \in overtaken')
    BY <1>6
  <2>2. CallbackOK(req[x]) /\ RefreshOK(req[x]) /\ SetOK(req[x]) /\ ToolOK(req[x]) /\ ConfigureOK(req[x])
    BY ReqTyped
  <2>3. CallbackOK(req[x])' /\ SetOK(req[x])'
    BY <1>1, <2>1, <2>2 DEF CallbackOK, SetOK, Holding
  <2>4. RefreshOK(req[x])' /\ ConfigureOK(req[x])'
    BY <1>1, <2>1, <2>2 DEF RefreshOK, ConfigureOK
  <2>5. ToolOK(req[x])'
    <3>1. ASSUME q.kind = "tool",
                 \/ <<q.a, q.s>> \in (list_email_permission_grants)'
                 \/ q.stage \in {"issue", "token"}
          PROVE  q.seen \/ <<q.a, q.s>> \in overtaken'
      BY <1>1, <1>5, <2>1, <2>2, <3>1 DEF ToolOK
    <3> QED
      BY <2>1, <2>2, <3>1 DEF ToolOK
  <2> QED
    BY <2>3, <2>4, <2>5
<1>9. HeldOnce'
  <2>1. \A x \in Requests : Holding(req'[x]) => Holding(req[x]) /\ req'[x].f = req[x].f
    BY <1>6, NoRequestOK DEF Holding
  <2>2. \A x, y \in Requests : Holding(req'[x]) /\ Holding(req'[y]) /\ req'[x].f = req'[y].f => x = y
    BY <2>1 DEF EmailInv, HeldOnce
  <2> QED
    BY <2>2 DEF HeldOnce, Holding
<1>10. EmailTypeOK'
  BY <1>0, <1>1, <1>4, TablesTyped DEF EmailTypeOK
<1>11. StatesOnce' /\ FlowKept' /\ EntriesFit'
  BY <1>1 DEF EmailInv, StatesOnce, FlowKept, EntriesFit
<1>12. ConfigPair'
  <2>1. ASSUME NEW p \in Providers, NEW x \in Saving(p)
        PROVE  x \in Saving(p)'
    <3>1. x \in Requests /\ req[x].kind = "configure" /\ req[x].stage = "save" /\ req[x].p = p
      BY <2>1 DEF Saving, At
    <3>2. x # r
      BY <1>1, <3>1 DEF At
    <3>3. req'[x].kind = "configure" /\ req'[x].stage = "save" /\ req'[x].p = p
      BY <1>6, <3>1, <3>2
    <3> QED
      BY <3>1, <3>3 DEF Saving, At
  <2> QED
    BY <1>1, <2>1 DEF EmailInv, ConfigPair
<1> QED
  BY <1>7, <1>8, <1>9, <1>10, <1>11, <1>12 DEF EmailInv, RequestsOK

\* A grant is revoked.
LEMMA EmailRevokeStep ==
  ASSUME EmailInv, NEW g \in GrantIds, delete_email_permission_grant(g)
  PROVE  EmailInv'
<1>1. /\ grant[g] # None /\ grant' = [grant EXCEPT ![g].live = FALSE] /\ req' = req
      /\ mix' = mix /\ gen' = gen /\ flow' = flow /\ expired' = expired /\ svc' = svc /\ cfg' = cfg
      /\ rows' = rows /\ secret' = secret /\ cred' = cred /\ codes' = codes /\ consents' = consents
      /\ spent' = spent /\ ended' = ended /\ torn' = torn /\ overtaken' = overtaken
  BY Groups DEF delete_email_permission_grant
<1>2. grant \in [GrantIds -> EmailGrants \cup {None}] /\ grant[g] \in EmailGrants
  BY <1>1, TablesTyped
<1>3. PICK v : v = [grant[g] EXCEPT !.live = FALSE]
  OBVIOUS
<1>4. v \in EmailGrants /\ v.live = FALSE
  BY <1>2, <1>3 DEF EmailGrants
<1>5. /\ grant' \in [GrantIds -> EmailGrants \cup {None}] /\ grant'[g] = v
      /\ \A x \in GrantIds \ {g} : grant'[x] = grant[x]
  BY <1>1, <1>2, <1>3, <1>4
<1>6. (list_email_permission_grants)' \subseteq list_email_permission_grants
  <2> SUFFICES ASSUME NEW w \in (list_email_permission_grants)'
               PROVE  w \in list_email_permission_grants
    OBVIOUS
  <2>1. PICK x \in GrantIds : grant'[x] # None /\ grant'[x].live /\ w = <<grant'[x].agent, grant'[x].svc>>
    BY DEF list_email_permission_grants
  <2>2. x # g
    BY <1>4, <1>5, <2>1
  <2> QED
    BY <1>5, <2>1, <2>2 DEF list_email_permission_grants
<1>7. RequestsOK' /\ HeldOnce'
  <2>1. \A x \in Requests : req'[x].kind = "configure" /\ req'[x].stage = "save" =>
            req'[x].p \in torn' \/ secret'[req'[x].p] = req'[x].c
    BY <1>1, SavingOK
  <2> QED
    BY <1>1, <1>6, <2>1, RequestsStay, TablesTyped
<1>8. EmailTypeOK'
  BY <1>1, <1>5, TablesTyped DEF EmailTypeOK
<1>9. StatesOnce' /\ FlowKept' /\ EntriesFit'
  BY <1>1 DEF EmailInv, StatesOnce, FlowKept, EntriesFit
<1>10. ConfigPair'
  BY <1>1 DEF EmailInv, ConfigPair, Saving, At
<1> QED
  BY <1>7, <1>8, <1>9, <1>10 DEF EmailInv

-----------------------------------------------------------------------------
(* Email services: the theorems.                                           *)

\* Nothing is configured, granted or asked for at the start.
LEMMA EmailStarts ==
  ASSUME EmailInit
  PROVE  EmailInv
<1>1. req \in [Requests -> EmailReqs] /\ \A r \in Requests : req[r] = NoRequest
  BY NoRequestOK DEF EmailInit
<1>2. EmailTypeOK
  BY EmailAssumption DEF EmailInit, EmailTypeOK
<1>3. RequestsOK /\ HeldOnce
  BY <1>1, NoRequestOK DEF RequestsOK, HeldOnce
<1>4. StatesOnce /\ FlowKept /\ EntriesFit /\ ConfigPair
  BY DEF EmailInit, StatesOnce, FlowKept, EntriesFit, ConfigPair
<1> QED
  BY <1>2, <1>3, <1>4 DEF EmailInv

\* The callbacks of a flow that was begun.
LEMMA RedirectStep ==
  ASSUME EmailInv, NEW r \in Requests, NEW f \in States, flow[f] # None,
         \/ oauth2_callback(r, f) \/ oauth2_callback_view(r, f)
         \/ oauth2_callback_per_tenant(r, f) \/ oauth2_callback_per_tenant_view(r, f)
  PROVE  EmailInv'
<1>1. flow[f].provider \in Providers
  BY TablesTyped DEF Flows
<1>2. PICK s \in Services \cup {None}, p \in Providers : Callback(r, f, s, p)
  BY <1>1 DEF oauth2_callback, oauth2_callback_view, oauth2_callback_per_tenant,
              oauth2_callback_per_tenant_view
<1> QED
  BY <1>2, CallbackStep

\* One case per request.
LEMMA RequestsKept ==
  ASSUME EmailInv, NEW r \in Requests, RequestStep(r)
  PROVE  EmailInv'
<1>1. CASE \/ \E p \in Providers : configure_oauth2_provider(r, p)
           \/ StoreSecret(r) \/ SaveClient(r) \/ Abort(r)
  BY <1>1, ConfigureStep, StoreSecretStep, SaveClientStep, AbortStep
<1>2. CASE \E f \in States : flow[f] # None /\ \/ oauth2_callback(r, f)
                                               \/ oauth2_callback_view(r, f)
                                               \/ oauth2_callback_per_tenant(r, f)
                                               \/ oauth2_callback_per_tenant_view(r, f)
  BY <1>2, RedirectStep
<1>3. CASE ConsumeState(r) \/ ExchangeCode(r) \/ StoreToken(r) \/ FinishCallback(r)
  BY <1>3, ConsumeStep, ExchangeStep, StoreTokenStep, FinishStep
<1>4. CASE \/ \E s \in Services, p \in Providers : oauth2_refresh(r, s, p)
           \/ ReadToken(r) \/ RefreshToken(r) \/ AnswerToken(r)
  BY <1>4, RefreshBegins, ReadTokenStep, RefreshStep
<1>5. CASE \/ \E s \in Services, scheme \in Schemes : set_email_service_credential(r, s, scheme)
           \/ StorePassword(r)
  BY <1>5, SetStep, StorePasswordStep
<1>6. CASE \/ \E a \in Agents, s \in Services : create_email_permission_grant(r, a, s) \/ email_tool(r, a, s)
           \/ \E g \in GrantIds : InsertEmailGrant(r, g)
           \/ CheckGrant(r) \/ _get_email_jwt(r) \/ ProxyAnswers(r)
  BY <1>6, GrantBegins, EmailGrantStep, ToolStep, TokenStep
<1> QED
  BY <1>1, <1>2, <1>3, <1>4, <1>5, <1>6 DEF RequestStep

\* Every step keeps the invariant.
LEMMA EmailKept ==
  ASSUME EmailInv, [EmailNext]_emailVars
  PROVE  EmailInv'
<1>1. CASE \E s \in Services : ServiceStep(s)
  BY <1>1, ServicesKept
<1>2. CASE \E p \in Providers : delete_oauth2_provider(p)
  BY <1>2, DeconfigureStep
<1>3. CASE \E f \in States : FlowStep(f)
  BY <1>3, AuthorizeStep, ProviderStep DEF FlowStep
<1>4. CASE \E r \in Requests : RequestStep(r)
  BY <1>4, RequestsKept
<1>5. CASE \E g \in GrantIds : delete_email_permission_grant(g)
  BY <1>5, EmailRevokeStep
<1>6. CASE UNCHANGED emailVars
  BY <1>6, EmailStutters
<1> QED
  BY <1>1, <1>2, <1>3, <1>4, <1>5, <1>6 DEF EmailNext

\* The invariant holds always.
LEMMA EmailAlways == EmailSpec => []EmailInv
<1>1. EmailInit => EmailInv
  BY EmailStarts
<1>2. EmailInv /\ [EmailNext]_emailVars => EmailInv'
  BY EmailKept
<1> QED
  BY <1>1, <1>2, PTL DEF EmailSpec

\* An agent gets a token for a mailbox only if the service was live when its
\* call of an email tool began and, at some moment of the call, the service was
\* live while it had a grant, whatever is revoked, deleted or granted between the
\* lookups, unless the grant was inserted after the service was deleted.
THEOREM TokensJustified == EmailSpec => []TokenJustified
<1>1. EmailInv => TokenJustified
  <2> SUFFICES ASSUME EmailInv, NEW r \in Requests, At(r, "tool", "token")
               PROVE  ~req[r].late /\ (req[r].seen \/ <<req[r].a, req[r].s>> \in overtaken)
    BY DEF TokenJustified
  <2> QED
    BY ReqTyped DEF ToolOK, At
<1> QED
  BY <1>1, EmailAlways, PTL

\* A consent flow answers success at most once, whichever callbacks overlap or
\* repeat, and its state is there until it expires or a callback has used it.
THEOREM FlowsExact == EmailSpec => []FlowExact
<1>1. EmailInv => FlowExact
  <2> SUFFICES ASSUME EmailInv
               PROVE  FlowExact
    OBVIOUS
  <2>1. SingleUse
    BY TablesTyped DEF EmailInv, StatesOnce, SingleUse
  <2> QED
    BY <2>1 DEF EmailInv, FlowExact
<1> QED
  BY <1>1, EmailAlways, PTL

\* Refresh tokens and passwords are stored for, and answered for, the service
\* they belong to, and a provider's client secret is the one of its client id
\* unless calls of configure_oauth2_provider overlapped or broke.
THEOREM SecretsBelong == EmailSpec => []CredentialsConsistent
<1>1. EmailInv => CredentialsConsistent
  <2> SUFFICES ASSUME EmailInv
               PROVE  CredentialsConsistent
    OBVIOUS
  <2>1. \A s \in Services : cred[s] # None /\ cred[s].from # None => flow[cred[s].from].svc = s
    BY DEF EmailInv, EntriesFit
  <2>2. \A r \in Requests : At(r, "refresh", "answer") => flow[req[r].f].svc = req[r].s
    BY ReqTyped DEF RefreshOK, At
  <2>3. PasswordFits
    BY DEF EmailInv, EntriesFit, PasswordFits
  <2> QED
    BY <2>1, <2>2, <2>3 DEF EmailInv, CredentialsConsistent, RightService
<1> QED
  BY <1>1, EmailAlways, PTL
=============================================================================
