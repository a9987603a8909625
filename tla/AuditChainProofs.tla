-------------------------- MODULE AuditChainProofs --------------------------
(***************************************************************************)
(* Machine-checked proofs about AuditChain, for any number of requests,    *)
(* tenants, keys and events: the chains stay linear, a revocation and its  *)
(* event are one, what was answered is committed, the verifier's verdict   *)
(* is exact and the verify job's exit code follows it.                     *)
(***************************************************************************)
EXTENDS AuditChain, FiniteSetTheorems, SequenceTheorems, TLAPS

-----------------------------------------------------------------------------
(* The inductive invariant.                                                *)

Subjects == TenantIds \cup Keys
Ops      == {"audit", "row", "tenant"} \X Subjects \X (Bodies \cup {"used", "revoke", "insert"})
LockIds  == {"audit", "row", "tenant"} \X Subjects
Answers  == [kind : {"none", "idle", "emit", "hit", "revoke", "create", "verify", "ack"},
             code : Nat, subject : Subjects]
Txns == [kind : {"idle", "emit", "hit", "revoke", "create", "verify"}, subject : Subjects,
         todo : Seq(Ops), stage : {"lock", "read", "write"}, locks : SUBSET LockIds, prev : Hashes,
         mine : [TenantIds -> Hashes], rows : SUBSET Rows, made : SUBSET Tenants,
         revokes : SUBSET Keys]

\* The variables TypeOK says too little about.
Shapes ==
  /\ txn \in [Requests -> Txns]
  /\ answer \in [Requests -> Answers]
  /\ job \in [scope : SUBSET Tenants, left : SUBSET Tenants, ok : BOOLEAN, done : BOOLEAN, after : BOOLEAN]

\* The statements of a handler.
Audit(t, b) == <<"audit", t, b>>
Row(k, w)   == <<"row", k, w>>
Insert(t)   == <<"tenant", t, "insert">>

Unwritten(q)  == q.rows = {}
Wrote(q, b)   == \E r \in q.rows : q.rows = {r} /\ r.body = b
NotBegun(q)   == q.stage = "lock" /\ Unwritten(q)

\* What each handler still has to do, and what it has done.
PlanEmit(q) ==
  /\ q.kind \in {"emit", "verify"} /\ q.made = {} /\ q.revokes = {}
  /\ \/ q.todo = <<>> /\ Wrote(q, "event")
     \/ \E t \in tenants \cup {System} : q.todo = <<Audit(t, "event")>> /\ Unwritten(q)

PlanHit(q) ==
  /\ q.kind = "hit" /\ q.made = {} /\ q.revokes = {}
  /\ \/ \E k \in Keys : q.todo = <<Audit(Default, "event"), Row(k, "used")>> /\ Unwritten(q)
     \/ \E k \in Keys : q.todo = <<Row(k, "used")>> /\ Wrote(q, "event")
     \/ q.todo = <<>> /\ Wrote(q, "event")

PlanRevoke(q) ==
  /\ q.kind = "revoke" /\ q.made = {} /\ q.subject \in Keys
  /\ \/ /\ q.todo = <<Row(q.subject, "revoke"), Audit(Default, q.subject)>>
        /\ NotBegun(q) /\ q.revokes = {}
     \/ q.todo = <<Audit(Default, q.subject)>> /\ Unwritten(q) /\ q.revokes = {q.subject}
     \/ q.todo = <<>> /\ Wrote(q, q.subject) /\ q.revokes = {q.subject}

PlanCreate(q) ==
  /\ q.kind = "create" /\ q.revokes = {} /\ q.subject \in Tenants
  /\ \/ q.todo = <<Insert(q.subject), Audit(q.subject, "event")>> /\ NotBegun(q) /\ q.made = {}
     \/ q.todo = <<Audit(q.subject, "event")>> /\ Unwritten(q) /\ q.made = {q.subject}
     \/ q.todo = <<>> /\ Wrote(q, "event") /\ q.made = {q.subject}

Plan(q) == q = NoTxn \/ PlanEmit(q) \/ PlanHit(q) \/ PlanRevoke(q) \/ PlanCreate(q)

\* Requests run once the seed job has been through; from then on every tenant
\* has a chain.
Seeded ==
  /\ \A x \in Requests : ~Idle(x) => operators
  /\ operators => Default \in tenants /\ \A t \in tenants : head[t] # NoRow
  /\ seedpc = "chain" => Default \in tenants
  /\ seedpc = "operator" => Default \in tenants /\ head[Default] # NoRow
  /\ seedpc = "idle" => operators
  /\ ~operators => tenants \subseteq {Default}
  /\ \A t \in TenantIds \ tenants : head[t] = NoRow

\* No two transactions hold a lock; what one is making nobody else has.
Locks ==
  /\ \A x, y \in Requests : x # y => txn[x].locks \cap txn[y].locks = {}
  /\ \A x \in Requests : \A t \in txn[x].made : <<"tenant", t>> \in txn[x].locks /\ t \notin tenants

\* The hash an event of tenant t is chained to in transaction q.
Base(q, t) ==
  IF t \in q.made THEN wire_genesis(t) ELSE IF head[t] = NoRow THEN ZeroHash ELSE head[t]

\* Between reading the head and the commit the head stays what was read: the
\* lock is held, and the row written is the link after it.
Reads(q) ==
  /\ q.stage # "lock" => /\ q.todo # <<>> /\ q.todo[1][1] = "audit"
                         /\ <<"audit", q.todo[1][2]>> \in q.locks
  /\ q.stage = "write" => q.prev = Base(q, q.todo[1][2])

Links(q) ==
  /\ \A r \in q.rows :
       /\ r.tenant \in tenants \cup q.made /\ <<"audit", r.tenant>> \in q.locks
       /\ r.prev = Base(q, r.tenant) /\ r.hash = event_hash(r) /\ ~r.extra
       /\ q.mine[r.tenant] = r.hash
  /\ \A t \in TenantIds : q.mine[t] # NoRow =>
       \/ Unwritten(q) /\ t \in q.made /\ q.mine[t] = wire_genesis(t)
       \/ \E r \in q.rows : r.tenant = t
  /\ \A t \in q.made : q.mine[t] # NoRow

Chained == \A x \in Requests : Plan(txn[x]) /\ Reads(txn[x]) /\ Links(txn[x])

IInv == /\ ChainConsistent /\ RevokedIffRecorded /\ AnsweredIsCommitted
        /\ Shapes /\ Seeded /\ Locks /\ Chained

-----------------------------------------------------------------------------
(* Statement lists.                                                        *)

\* A list of one statement.
LEMMA OneOp ==
  ASSUME NEW a
  PROVE  <<a>> # <<>> /\ <<a>>[1] = a /\ Tail(<<a>>) = <<>>
  OBVIOUS

\* A list of two statements.
LEMMA TwoOps ==
  ASSUME NEW a, NEW b
  PROVE  <<a, b>> # <<>> /\ <<a, b>>[1] = a /\ Tail(<<a, b>>) = <<b>>
  OBVIOUS

\* The statements told apart.
LEMMA OpParts ==
  /\ \A t, b : Audit(t, b)[1] = "audit" /\ Audit(t, b)[2] = t /\ Audit(t, b)[3] = b
  /\ \A k, w : Row(k, w)[1] = "row" /\ Row(k, w)[2] = k /\ Row(k, w)[3] = w
  /\ \A t : Insert(t)[1] = "tenant" /\ Insert(t)[2] = t /\ Insert(t)[3] = "insert"
  BY DEF Audit, Row, Insert

\* Two states of a transaction that agree on what it did and has to do.
SameWork(p, q) ==
  p.kind = q.kind /\ p.subject = q.subject /\ p.made = q.made /\ p.revokes = q.revokes
SameOrder(p, q) == SameWork(p, q) /\ p.todo = q.todo /\ p.rows = q.rows

\* No transaction has nothing to do and nothing behind it.
LEMMA NoTxnFields ==
  /\ NoTxn.kind = "idle" /\ NoTxn.todo = <<>> /\ NoTxn.stage = "lock" /\ NoTxn.locks = {}
  /\ NoTxn.mine = [t \in TenantIds |-> NoRow] /\ NoTxn.rows = {} /\ NoTxn.made = {}
  /\ NoTxn.revokes = {} /\ NoTxn.subject = System /\ NoTxn.prev = NoRow
  BY DEF NoTxn

\* A transaction whose next statement is audit_emit: for which tenant, and what
\* it is once the event is written.
LEMMA AuditPlan ==
  ASSUME NEW q, Plan(q), q.todo # <<>>, q.todo[1][1] = "audit", Seeded, q.kind # "idle" => operators
  PROVE  /\ Unwritten(q) /\ q.kind # "idle"
         /\ q.todo[1][2] \in tenants \cup q.made \cup {System}
         /\ q.todo[1][3] \in Bodies
         /\ q.todo[1] = Audit(q.todo[1][2], q.todo[1][3])
         /\ \A p : SameOrder(p, q) => Plan(p)
         /\ \A p : SameWork(p, q) /\ p.todo = Tail(q.todo) /\ Wrote(p, q.todo[1][3]) => Plan(p)
<1>1. q # NoTxn
  BY NoTxnFields
<1>2. CASE PlanEmit(q)
  <2>1. PICK t \in tenants \cup {System} : q.todo = <<Audit(t, "event")>> /\ Unwritten(q)
    BY <1>2 DEF PlanEmit
  <2>2. q.todo[1] = Audit(t, "event") /\ Tail(q.todo) = <<>>
    BY <2>1, OneOp
  <2>3. \A p : SameOrder(p, q) => PlanEmit(p)
    BY <1>2, <2>1 DEF SameOrder, SameWork, PlanEmit, Unwritten
  <2>4. \A p : SameWork(p, q) /\ p.todo = Tail(q.todo) /\ Wrote(p, "event") => PlanEmit(p)
    BY <1>2, <2>2 DEF SameWork, PlanEmit
  <2>5. q.kind # "idle"
    BY <1>2 DEF PlanEmit
  <2> QED
    BY <2>1, <2>2, <2>3, <2>4, <2>5, OpParts DEF Plan, Bodies
<1>3. CASE PlanHit(q)
  <2>1. Default \in tenants /\ q.kind # "idle"
    BY <1>3 DEF PlanHit, Seeded
  <2>2. PICK k \in Keys : q.todo = <<Audit(Default, "event"), Row(k, "used")>> /\ Unwritten(q)
    BY <1>3, OneOp, OpParts DEF PlanHit
  <2>3. q.todo[1] = Audit(Default, "event") /\ Tail(q.todo) = <<Row(k, "used")>>
    BY <2>2, TwoOps
  <2>4. \A p : SameOrder(p, q) => PlanHit(p)
    BY <1>3, <2>2 DEF SameOrder, SameWork, PlanHit, Unwritten
  <2>5. \A p : SameWork(p, q) /\ p.todo = Tail(q.todo) /\ Wrote(p, "event") => PlanHit(p)
    BY <1>3, <2>3 DEF SameWork, PlanHit
  <2> QED
    BY <2>1, <2>2, <2>3, <2>4, <2>5, OpParts DEF Plan, Bodies
<1>4. CASE PlanRevoke(q)
  <2>1. Default \in tenants /\ q.kind # "idle" /\ q.subject \in Keys
    BY <1>4 DEF PlanRevoke, Seeded
  <2>2. q.todo = <<Audit(Default, q.subject)>> /\ Unwritten(q) /\ q.revokes = {q.subject}
    BY <1>4, TwoOps, OpParts DEF PlanRevoke
  <2>3. q.todo[1] = Audit(Default, q.subject) /\ Tail(q.todo) = <<>>
    BY <2>2, OneOp
  <2>4. \A p : SameOrder(p, q) => PlanRevoke(p)
    BY <1>4, <2>2 DEF SameOrder, SameWork, PlanRevoke, Unwritten
  <2>5. \A p : SameWork(p, q) /\ p.todo = Tail(q.todo) /\ Wrote(p, q.subject) => PlanRevoke(p)
    BY <1>4, <2>2, <2>3 DEF SameWork, PlanRevoke
  <2> QED
    BY <2>1, <2>2, <2>3, <2>4, <2>5, OpParts DEF Plan, Bodies
<1>5. CASE PlanCreate(q)
  <2>1. q.todo = <<Audit(q.subject, "event")>> /\ Unwritten(q) /\ q.made = {q.subject} /\ q.kind # "idle"
    BY <1>5, TwoOps, OpParts DEF PlanCreate
  <2>2. q.todo[1] = Audit(q.subject, "event") /\ Tail(q.todo) = <<>>
    BY <2>1, OneOp
  <2>3. \A p : SameOrder(p, q) => PlanCreate(p)
    BY <1>5, <2>1 DEF SameOrder, SameWork, PlanCreate, Unwritten
  <2>4. \A p : SameWork(p, q) /\ p.todo = Tail(q.todo) /\ Wrote(p, "event") => PlanCreate(p)
    BY <1>5, <2>1, <2>2 DEF SameWork, PlanCreate
  <2> QED
    BY <2>1, <2>2, <2>3, <2>4, OpParts DEF Plan, Bodies
<1> QED
  BY <1>1, <1>2, <1>3, <1>4, <1>5 DEF Plan

\* A transaction whose next statement is the update of a key's row.
LEMMA RowPlan ==
  ASSUME NEW q, Plan(q), q.todo # <<>>, q.todo[1][1] = "row"
  PROVE  /\ q.kind # "idle" /\ q.todo[1][2] \in Keys /\ q.todo[1][3] \in {"used", "revoke"}
         /\ \A p : /\ p.kind = q.kind /\ p.subject = q.subject /\ p.made = q.made /\ p.rows = q.rows
                   /\ p.todo = Tail(q.todo)
                   /\ p.revokes = IF q.todo[1][3] = "revoke" THEN q.revokes \cup {q.todo[1][2]}
                                  ELSE q.revokes
                   => Plan(p)
<1>1. q # NoTxn
  BY NoTxnFields
<1>2. CASE PlanEmit(q) \/ PlanCreate(q)
  BY <1>2, OneOp, TwoOps, OpParts DEF PlanEmit, PlanCreate
<1>3. CASE PlanHit(q)
  <2>1. PICK k \in Keys : q.todo = <<Row(k, "used")>> /\ Wrote(q, "event")
    BY <1>3, TwoOps, OpParts DEF PlanHit
  <2>2. q.todo[1] = Row(k, "used") /\ Tail(q.todo) = <<>> /\ q.kind = "hit"
    BY <1>3, <2>1, OneOp DEF PlanHit
  <2>3. q.todo[1][2] = k /\ q.todo[1][3] = "used"
    BY <2>2, OpParts
  <2>4. ASSUME NEW p, p.kind = q.kind, p.made = q.made, p.rows = q.rows,
               p.todo = Tail(q.todo), p.revokes = q.revokes
        PROVE  PlanHit(p)
    BY <1>3, <2>1, <2>2, <2>4 DEF PlanHit, Wrote
  <2> QED
    BY <2>2, <2>3, <2>4 DEF Plan
<1>4. CASE PlanRevoke(q)
  <2>1. /\ q.todo = <<Row(q.subject, "revoke"), Audit(Default, q.subject)>>
        /\ NotBegun(q) /\ q.revokes = {}
    BY <1>4, OneOp, OpParts DEF PlanRevoke
  <2>2. q.todo[1] = Row(q.subject, "revoke") /\ Tail(q.todo) = <<Audit(Default, q.subject)>>
        /\ q.kind = "revoke" /\ q.subject \in Keys
    BY <1>4, <2>1, TwoOps DEF PlanRevoke
  <2>3. q.todo[1][2] = q.subject /\ q.todo[1][3] = "revoke"
    BY <2>2, OpParts
  <2>4. ASSUME NEW p, p.kind = q.kind, p.subject = q.subject, p.made = q.made, p.rows = q.rows,
               p.todo = Tail(q.todo), p.revokes = q.revokes \cup {q.subject}
        PROVE  PlanRevoke(p)
    BY <1>4, <2>1, <2>2, <2>4 DEF PlanRevoke, NotBegun, Unwritten
  <2> QED
    BY <2>2, <2>3, <2>4 DEF Plan
<1> QED
  BY <1>1, <1>2, <1>3, <1>4 DEF Plan

\* A transaction whose next statement inserts a tenant.
LEMMA InsertPlan ==
  ASSUME NEW q, Plan(q), q.todo # <<>>, q.todo[1][1] = "tenant"
  PROVE  /\ q.kind = "create" /\ q.todo[1][2] \in Tenants /\ q.made = {} /\ Unwritten(q)
         /\ \A p : /\ p.kind = q.kind /\ p.subject = q.subject /\ p.revokes = q.revokes
                   /\ p.rows = q.rows /\ p.todo = Tail(q.todo) /\ p.made = {q.todo[1][2]}
                   => Plan(p)
<1>1. q # NoTxn
  BY NoTxnFields
<1>2. CASE PlanEmit(q) \/ PlanHit(q) \/ PlanRevoke(q)
  BY <1>2, OneOp, TwoOps, OpParts DEF PlanEmit, PlanHit, PlanRevoke
<1>3. CASE PlanCreate(q)
  <2>1. /\ q.todo = <<Insert(q.subject), Audit(q.subject, "event")>>
        /\ NotBegun(q) /\ q.made = {}
    BY <1>3, OneOp, OpParts DEF PlanCreate
  <2>2. q.todo[1] = Insert(q.subject) /\ Tail(q.todo) = <<Audit(q.subject, "event")>>
        /\ q.kind = "create" /\ q.subject \in Tenants
    BY <1>3, <2>1, TwoOps DEF PlanCreate
  <2>3. q.todo[1][2] = q.subject
    BY <2>2, OpParts
  <2>4. ASSUME NEW p, p.kind = q.kind, p.subject = q.subject, p.revokes = q.revokes, p.rows = q.rows,
               p.todo = Tail(q.todo), p.made = {q.subject}
        PROVE  PlanCreate(p)
    BY <1>3, <2>1, <2>2, <2>4 DEF PlanCreate, NotBegun, Unwritten
  <2> QED
    BY <2>1, <2>2, <2>3, <2>4 DEF Plan, NotBegun
<1> QED
  BY <1>1, <1>2, <1>3 DEF Plan

\* A transaction that has run all its statements.
LEMMA DonePlan ==
  ASSUME NEW q, Plan(q), q.todo = <<>>, q.kind # "idle"
  PROVE  \E r \in q.rows :
           /\ q.rows = {r}
           /\ q.kind = "revoke" => q.subject \in Keys /\ q.revokes = {q.subject} /\ r.body = q.subject
           /\ q.kind # "revoke" => q.revokes = {} /\ r.body = "event"
           /\ q.kind = "create" => q.made = {q.subject} /\ q.subject \in Tenants
<1>1. q # NoTxn
  BY NoTxnFields
<1>2. \A a, b : q.todo # <<a>> /\ q.todo # <<a, b>>
  BY OneOp, TwoOps
<1> QED
  BY <1>1, <1>2 DEF Plan, PlanEmit, PlanHit, PlanRevoke, PlanCreate, Wrote

-----------------------------------------------------------------------------
(* Hashes and chains.                                                      *)

\* The hashes a chain may start from, and that no chain row is told by.
LEMMA BaseHashes ==
  /\ NoRow \in Hashes /\ ZeroHash \in Hashes /\ ZeroHash # NoRow /\ NoRow.over = <<>>
  /\ \A t \in TenantIds : wire_genesis(t) \in Hashes /\ wire_genesis(t) # NoRow
                          /\ wire_genesis(t).over = <<>>
  /\ \A t \in TenantIds : genesis_hash(t) \in Hashes /\ genesis_hash(t) # NoRow
                          /\ genesis_hash(t).over = <<>>
<1>1. System \in TenantIds
  BY DEF TenantIds
<1>2. <<>> \in Seq(Contents)
  OBVIOUS
<1> QED
  BY <1>1, <1>2 DEF NoRow, ZeroHash, wire_genesis, genesis_hash, Hashes, Seeds

\* Hashing one more event.
LEMMA Hashed ==
  ASSUME NEW h \in Hashes, NEW c \in Contents
  PROVE  LET g == chain_hash(c, h)
         IN  /\ g \in Hashes /\ g # NoRow /\ g.seed = h.seed /\ g.over = Append(h.over, c)
             /\ DOMAIN h.over = 1 .. Len(h.over) /\ Len(h.over) \in Nat
             /\ DOMAIN g.over = 1 .. (Len(h.over) + 1)
             /\ g.over[Len(h.over) + 1] = c
             /\ \A i \in 1 .. Len(h.over) : g.over[i] = h.over[i]
<1> DEFINE g == chain_hash(c, h)
<1>1. h.over \in Seq(Contents) /\ h.seed \in Seeds
  BY DEF Hashes
<1>2. g = [seed |-> h.seed, over |-> Append(h.over, c)]
  <2>1. \A s : [h EXCEPT !.over = s] = [seed |-> h.seed, over |-> s]
    BY DEF Hashes
  <2> QED
    BY <2>1 DEF chain_hash
<1>3. g.over = Append(h.over, c) /\ g.seed = h.seed
  BY <1>2
<1>4. /\ Append(h.over, c) \in Seq(Contents) /\ Len(Append(h.over, c)) = Len(h.over) + 1
      /\ Append(h.over, c)[Len(h.over) + 1] = c
      /\ \A i \in 1 .. Len(h.over) : Append(h.over, c)[i] = h.over[i]
  BY <1>1
<1>5. Len(h.over) \in Nat /\ DOMAIN h.over = 1 .. Len(h.over)
  BY <1>1
<1>6. DOMAIN Append(h.over, c) = 1 .. (Len(h.over) + 1)
  BY <1>4
<1>7. g \in Hashes
  BY <1>1, <1>2, <1>4 DEF Hashes
<1>8. g # NoRow
  <2>1. Len(g.over) # 0
    BY <1>3, <1>4, <1>5
  <2> QED
    BY <2>1, BaseHashes
<1> QED
  BY <1>3, <1>4, <1>5, <1>6, <1>7, <1>8

\* The chain after one more event: the old links and one new one.
LEMMA NewLink ==
  ASSUME NEW h \in Hashes, NEW c \in Contents
  PROVE  {Link(chain_hash(c, h), i) : i \in DOMAIN chain_hash(c, h).over}
           = {Link(h, i) : i \in DOMAIN h.over}
             \cup {[id |-> c[1], tenant |-> c[2], body |-> c[3], prev |-> h,
                    hash |-> chain_hash(c, h), extra |-> FALSE]}
<1> DEFINE g == chain_hash(c, h)
           n == Len(h.over)
           r == [id |-> c[1], tenant |-> c[2], body |-> c[3], prev |-> h, hash |-> g, extra |-> FALSE]
<1>1. /\ g \in Hashes /\ g.seed = h.seed /\ g.over = Append(h.over, c)
      /\ DOMAIN h.over = 1 .. n /\ n \in Nat /\ DOMAIN g.over = 1 .. (n + 1)
      /\ g.over[n + 1] = c
      /\ \A i \in 1 .. n : g.over[i] = h.over[i]
  BY Hashed
<1>2. h.over \in Seq(Contents) /\ g.over \in Seq(Contents) /\ Len(g.over) = n + 1
  BY <1>1 DEF Hashes
<1>3. \A s : [g EXCEPT !.over = s] = [h EXCEPT !.over = s]
  BY <1>1 DEF Hashes
<1>4. \A i \in 0 .. n : SubSeq(g.over, 1, i) = SubSeq(h.over, 1, i)
  BY <1>1, <1>2
<1>5. SubSeq(g.over, 1, n + 1) = g.over /\ SubSeq(h.over, 1, n) = h.over
  BY <1>1, <1>2
<1>6. [g EXCEPT !.over = g.over] = g /\ [h EXCEPT !.over = h.over] = h
  BY <1>1 DEF Hashes
<1>7. ASSUME NEW i \in 1 .. n PROVE Link(g, i) = Link(h, i)
  <2>1. i - 1 \in 0 .. n /\ i \in 0 .. n
    BY <1>1
  <2> QED
    BY <1>1, <1>3, <1>4, <2>1 DEF Link
<1>8. Link(g, n + 1) = r
  <2>1. (n + 1) - 1 = n /\ n \in 0 .. n
    BY <1>1
  <2>2. [g EXCEPT !.over = SubSeq(g.over, 1, n)] = h
    BY <1>3, <1>4, <1>5, <1>6, <2>1
  <2>3. [g EXCEPT !.over = SubSeq(g.over, 1, n + 1)] = g
    BY <1>5, <1>6
  <2>4. Link(g, n + 1) = [id |-> c[1], tenant |-> c[2], body |-> c[3],
                          prev |-> [g EXCEPT !.over = SubSeq(g.over, 1, n)],
                          hash |-> [g EXCEPT !.over = SubSeq(g.over, 1, n + 1)], extra |-> FALSE]
    BY <1>1, <2>1 DEF Link
  <2> QED
    BY <2>2, <2>3, <2>4
<1>9. 1 .. (n + 1) = (1 .. n) \cup {n + 1}
  BY <1>1
<1> HIDE DEF g, n, r
<1>10. {Link(g, i) : i \in DOMAIN g.over} = {Link(h, i) : i \in DOMAIN h.over} \cup {r}
  BY <1>1, <1>7, <1>8, <1>9
<1> QED
  BY <1>10 DEF g, n, r

\* A chain nobody has written to has no links.
LEMMA NoLinks ==
  ASSUME NEW h, h.over = <<>>
  PROVE  {Link(h, i) : i \in DOMAIN h.over} = {}
<1>1. DOMAIN h.over = {}
  OBVIOUS
<1> QED
  BY <1>1

\* A row that carries its own hash is the link after its predecessor.
LEMMA RowLinks ==
  ASSUME NEW r \in Rows, r.hash = event_hash(r), ~r.extra
  PROVE  /\ r.hash \in Hashes /\ r.hash # NoRow
         /\ {Link(r.hash, i) : i \in DOMAIN r.hash.over}
              = {Link(r.prev, i) : i \in DOMAIN r.prev.over} \cup {r}
<1> DEFINE c == <<r.id, r.tenant, r.body>>
<1>1. c \in Contents /\ r.prev \in Hashes
  BY DEF Rows, Contents
<1>2. r.hash = chain_hash(c, r.prev)
  BY DEF event_hash
<1>3. c[1] = r.id /\ c[2] = r.tenant /\ c[3] = r.body
  OBVIOUS
<1>4. r = [id |-> r.id, tenant |-> r.tenant, body |-> r.body, prev |-> r.prev,
           hash |-> r.hash, extra |-> FALSE]
  BY DEF Rows
<1> HIDE DEF c
<1>5. r.hash \in Hashes /\ r.hash # NoRow
  BY <1>1, <1>2, Hashed
<1>6. {Link(chain_hash(c, r.prev), i) : i \in DOMAIN chain_hash(c, r.prev).over}
        = {Link(r.prev, i) : i \in DOMAIN r.prev.over}
          \cup {[id |-> c[1], tenant |-> c[2], body |-> c[3], prev |-> r.prev,
                 hash |-> chain_hash(c, r.prev), extra |-> FALSE]}
  BY <1>1, NewLink
<1> QED
  BY <1>2, <1>3, <1>4, <1>5, <1>6

-----------------------------------------------------------------------------
(* Steps of one request.                                                   *)



\* What an answer promises.
Claim(a) ==
  /\ a.kind = "revoke" /\ a.code = 200 => a.subject \in revoked
  /\ a.kind = "create" /\ a.code = 201 => a.subject \in tenants /\ head[a.subject] # NoRow

\* What the transaction p of request x has to satisfy beside the others'.
Sound(x, p) ==
  /\ Plan(p) /\ Reads(p) /\ Links(p)
  /\ p.kind # "idle" => operators
  /\ \A y \in Requests \ {x} : p.locks \cap txn[y].locks = {}
  /\ \A t \in p.made : <<"tenant", t>> \in p.locks /\ t \notin tenants

\* No transaction is sound, whoever's it is.
LEMMA NoTxnSound ==
  /\ NoTxn \in Txns
  /\ \A x : Sound(x, NoTxn)
<1>1. /\ System \in Subjects /\ <<>> \in Seq(Ops) /\ NoRow \in Hashes
      /\ [t \in TenantIds |-> NoRow] \in [TenantIds -> Hashes]
  BY BaseHashes DEF Subjects, TenantIds
<1>2. NoTxn \in Txns
  BY <1>1 DEF NoTxn, Txns
<1>3. Plan(NoTxn)
  BY DEF Plan
<1>4. Reads(NoTxn)
  BY NoTxnFields DEF Reads
<1>5. Links(NoTxn)
  BY NoTxnFields DEF Links
<1> QED
  BY <1>2, <1>3, <1>4, <1>5, NoTxnFields DEF Sound

\* The transactions of the invariant are sound.
LEMMA TxnSound ==
  ASSUME IInv, NEW x \in Requests
  PROVE  txn[x] \in Txns /\ Sound(x, txn[x])
<1>1. txn[x] \in Txns
  BY DEF IInv, Shapes
<1>2. Plan(txn[x]) /\ Reads(txn[x]) /\ Links(txn[x])
  BY DEF IInv, Chained
<1>3. /\ txn[x].kind # "idle" => operators
      /\ \A y \in Requests \ {x} : txn[x].locks \cap txn[y].locks = {}
      /\ \A t \in txn[x].made : <<"tenant", t>> \in txn[x].locks /\ t \notin tenants
  BY DEF IInv, Seeded, Locks, Idle
<1> QED
  BY <1>1, <1>2, <1>3 DEF Sound

\* A step of request x that changes its transaction, its answer and the rate
\* limiter, and none of the tables.
LEMMA TxnStep ==
  ASSUME IInv, NEW x \in Requests, NEW p \in Txns, NEW a \in Answers,
         txn' = [txn EXCEPT ![x] = p], answer' = [answer EXCEPT ![x] = a],
         Sound(x, p), Claim(a), tokens' \in [Services -> 0 .. Rps],
         UNCHANGED <<seedpc, operators, database, job, altered>>
  PROVE  IInv'
<1> USE DEF database
<1>1. /\ txn' \in [Requests -> Txns] /\ txn'[x] = p
      /\ \A y \in Requests \ {x} : txn'[y] = txn[y]
  BY DEF IInv, Shapes
<1>2. /\ answer' \in [Requests -> Answers] /\ answer'[x] = a
      /\ \A y \in Requests \ {x} : answer'[y] = answer[y]
  BY DEF IInv, Shapes, Answers
<1>3. Shapes'
  BY <1>1, <1>2 DEF IInv, Shapes, Answers
<1>4. ChainConsistent'
  <2>1. TypeOK'
    BY <1>1 DEF IInv, ChainConsistent, TypeOK, Txns
  <2>2. ChainLinear'
    BY DEF IInv, ChainConsistent, ChainLinear, RowsOf
  <2> QED
    BY <2>1, <2>2 DEF ChainConsistent
<1>5. RevokedIffRecorded'
  BY DEF IInv, RevokedIffRecorded
<1>6. AnsweredIsCommitted'
  BY <1>2 DEF IInv, AnsweredIsCommitted, Claim
<1>7. Seeded'
  <2>1. \A y \in Requests : (~Idle(y) => operators)'
    BY <1>1 DEF IInv, Seeded, Sound, Idle
  <2> QED
    BY <2>1 DEF IInv, Seeded
<1>8. Locks'
  BY <1>1 DEF IInv, Locks, Sound
<1>9. Chained'
  <2>1. ASSUME NEW y \in Requests
        PROVE  (Plan(txn[y]) /\ Reads(txn[y]) /\ Links(txn[y]))'
    <3>1. PICK q \in Txns : q = txn'[y]
      BY <1>1
    <3>2. Plan(q) /\ Reads(q) /\ Links(q)
      BY <1>1, <3>1 DEF IInv, Chained, Sound
    <3>3. Plan(txn[y])'
      BY <3>1, <3>2 DEF Plan, PlanEmit, PlanHit, PlanRevoke, PlanCreate, Unwritten, Wrote, NotBegun
    <3>4. Reads(txn[y])'
      BY <3>1, <3>2 DEF Reads, Base
    <3>5. Links(txn[y])'
      BY <3>1, <3>2 DEF Links, Base, Unwritten
    <3> QED
      BY <3>3, <3>4, <3>5
  <2> QED
    BY <2>1 DEF Chained
<1> QED
  BY <1>3, <1>4, <1>5, <1>6, <1>7, <1>8, <1>9 DEF IInv

\* The answer so far, and no answer.
LEMMA OldAnswer ==
  ASSUME IInv, NEW x \in Requests
  PROVE  /\ answer[x] \in Answers /\ Claim(answer[x]) /\ answer = [answer EXCEPT ![x] = answer[x]]
         /\ NoAnswer \in Answers /\ Claim(NoAnswer)
<1>1. answer[x] \in Answers /\ answer = [answer EXCEPT ![x] = answer[x]]
  BY DEF IInv, Shapes, Answers
<1>2. Claim(answer[x])
  BY DEF IInv, AnsweredIsCommitted, Claim
<1>3. NoAnswer \in Answers /\ Claim(NoAnswer)
  BY DEF NoAnswer, Answers, Claim, Subjects, TenantIds
<1> QED
  BY <1>1, <1>2, <1>3

\* A transaction that is rolled back, and the answer that says so.
LEMMA RollbackStep ==
  ASSUME IInv, NEW x \in Requests, NEW code \in Nat, code \notin {200, 201}, Rollback(x, code),
         UNCHANGED <<seedpc, operators, database, tokens, job, altered>>
  PROVE  IInv'
<1>1. PICK a \in Answers : a = [kind |-> txn[x].kind, code |-> code, subject |-> txn[x].subject]
  BY DEF IInv, Shapes, Txns, Answers
<1>2. Claim(a) /\ answer' = [answer EXCEPT ![x] = a]
  BY <1>1 DEF Claim, Rollback, Answer
<1>3. tokens' \in [Services -> 0 .. Rps]
  BY DEF IInv, ChainConsistent, TypeOK
<1>4. txn' = [txn EXCEPT ![x] = NoTxn]
  BY DEF Rollback
<1> QED
  BY <1>1, <1>2, <1>3, <1>4, NoTxnSound, TxnStep

\* The lock a statement takes, where nobody else holds it.
LEMMA WantedFree ==
  ASSUME IInv, NEW x \in Requests, NEW op, Next_(x, op), txn[x].stage = "lock", Free(x)
  PROVE  /\ Wanted(x) = {<<op, txn[x].todo[1][2]>>}
         /\ \A y \in Requests \ {x} : (txn[x].locks \cup Wanted(x)) \cap txn[y].locks = {}
<1>1. Wanted(x) = {<<op, txn[x].todo[1][2]>>}
  BY DEF Wanted, Next_, Arg
<1>2. \A y \in Requests \ {x} : Wanted(x) \cap txn[y].locks = {}
  BY DEF Free, Blocker
<1>3. \A y \in Requests \ {x} : txn[x].locks \cap txn[y].locks = {}
  BY DEF IInv, Locks
<1> QED
  BY <1>1, <1>2, <1>3

\* The next statement is audit_emit.
LEMMA AtAudit ==
  ASSUME IInv, NEW x \in Requests, Next_(x, "audit")
  PROVE  LET q == txn[x] IN
         /\ Plan(q) /\ q.todo # <<>> /\ q.todo[1][1] = "audit" /\ Unwritten(q) /\ q.kind # "idle"
         /\ operators /\ Default \in tenants
         /\ q.todo[1][2] \in tenants \cup q.made \cup {System} /\ q.todo[1][2] \in TenantIds
         /\ q.todo[1][3] \in Bodies
         /\ \A p : SameOrder(p, q) => Plan(p)
         /\ \A p : SameWork(p, q) /\ p.todo = Tail(q.todo) /\ Wrote(p, q.todo[1][3]) => Plan(p)
<1>1. PICK q : q = txn[x]
  OBVIOUS
<1>2. Plan(q) /\ q.todo # <<>> /\ q.todo[1][1] = "audit" /\ q \in Txns
  BY <1>1, TxnSound DEF Sound, Next_
<1>3. Seeded /\ (q.kind # "idle" => operators)
  BY <1>1 DEF IInv, Seeded, Idle
<1>4. /\ Unwritten(q) /\ q.kind # "idle"
      /\ q.todo[1][2] \in tenants \cup q.made \cup {System}
      /\ q.todo[1][3] \in Bodies
      /\ \A p : SameOrder(p, q) => Plan(p)
      /\ \A p : SameWork(p, q) /\ p.todo = Tail(q.todo) /\ Wrote(p, q.todo[1][3]) => Plan(p)
  BY <1>2, <1>3, AuditPlan
<1>5. tenants \cup q.made \cup {System} \subseteq TenantIds
  BY <1>2 DEF Txns, TenantIds, IInv, ChainConsistent, TypeOK
<1>6. operators /\ Default \in tenants
  BY <1>3, <1>4 DEF Seeded
<1> QED
  BY <1>1, <1>2, <1>4, <1>5, <1>6

\* audit_lock keeps the invariant.
LEMMA LockStep ==
  ASSUME IInv, NEW x \in Requests, audit_lock(x)
  PROVE  IInv'
<1>1. Next_(x, "audit") /\ txn[x].stage = "lock" /\ Free(x)
  BY DEF audit_lock
<1>2. PICK q \in Txns : q = txn[x]
  BY TxnSound
<1>3. PICK W : W = Wanted(x)
  OBVIOUS
<1>4. PICK p : p = [[q EXCEPT !.locks = @ \cup W] EXCEPT !.stage = "read"]
  OBVIOUS
<1>5. txn' = [txn EXCEPT ![x] = p]
  BY <1>2, <1>3, <1>4 DEF audit_lock, Acquire
<1>6. Sound(x, q) /\ q.stage = "lock"
  BY <1>1, <1>2, TxnSound
<1>7. /\ q.todo # <<>> /\ q.todo[1][1] = "audit" /\ q.todo[1][2] \in TenantIds
      /\ \A r : SameOrder(r, q) => Plan(r)
  BY <1>1, <1>2, AtAudit
<1>8. /\ W = {<<"audit", q.todo[1][2]>>}
      /\ \A y \in Requests \ {x} : (q.locks \cup W) \cap txn[y].locks = {}
  BY <1>1, <1>2, <1>3, WantedFree
<1>9. W \subseteq LockIds
  BY <1>7, <1>8 DEF LockIds, Subjects
<1>10. /\ p \in Txns /\ p.kind = q.kind /\ p.subject = q.subject /\ p.todo = q.todo
       /\ p.stage = "read" /\ p.locks = q.locks \cup W /\ p.mine = q.mine
       /\ p.rows = q.rows /\ p.made = q.made /\ p.revokes = q.revokes
  BY <1>4, <1>9 DEF Txns
<1>11. Plan(p)
  BY <1>7, <1>10 DEF SameOrder, SameWork
<1>12. Reads(p)
  BY <1>7, <1>8, <1>10 DEF Reads
<1>13. Links(p)
  BY <1>6, <1>10 DEF Sound, Links, Base, Unwritten
<1>14. Sound(x, p)
  BY <1>6, <1>8, <1>10, <1>11, <1>12, <1>13 DEF Sound
<1>15. PICK a \in Answers : a = answer[x] /\ Claim(a) /\ answer = [answer EXCEPT ![x] = a]
  BY OldAnswer
<1>16. /\ answer' = [answer EXCEPT ![x] = a] /\ tokens' \in [Services -> 0 .. Rps]
       /\ UNCHANGED <<seedpc, operators, database, job, altered>>
  BY <1>15 DEF audit_lock, IInv, ChainConsistent, TypeOK
<1> QED
  BY <1>5, <1>10, <1>14, <1>15, <1>16, TxnStep

\* The head audit_read finds is the hash the event is chained to.
LEMMA HeadBase ==
  ASSUME IInv, NEW x \in Requests, NEW t \in TenantIds, Unwritten(txn[x])
  PROVE  /\ (IF HeadSeen(x, t) = NoRow THEN ZeroHash ELSE HeadSeen(x, t)) = Base(txn[x], t)
         /\ t \in tenants \cup txn[x].made => HeadSeen(x, t) # NoRow \/ ~operators
         /\ Base(txn[x], t) \in Hashes
<1>1. PICK q \in Txns : q = txn[x]
  BY TxnSound
<1>2. Links(q) /\ Unwritten(q)
  BY <1>1, TxnSound DEF Sound
<1>3. t \notin q.made => q.mine[t] = NoRow
  BY <1>2 DEF Links, Unwritten
<1>4. t \in q.made => q.mine[t] = wire_genesis(t) /\ wire_genesis(t) # NoRow
  BY <1>2, BaseHashes DEF Links, Unwritten
<1>5. HeadSeen(x, t) = IF t \in q.made THEN wire_genesis(t) ELSE head[t]
  BY <1>1, <1>3, <1>4 DEF HeadSeen
<1>6. (IF HeadSeen(x, t) = NoRow THEN ZeroHash ELSE HeadSeen(x, t)) = Base(q, t)
  BY <1>4, <1>5 DEF Base
<1>7. t \in tenants => head[t] # NoRow \/ ~operators
  BY DEF IInv, Seeded
<1>8. head[t] \in Hashes
  BY DEF IInv, ChainConsistent, TypeOK
<1>9. Base(q, t) \in Hashes
  BY <1>8, BaseHashes DEF Base
<1> QED
  BY <1>1, <1>4, <1>5, <1>6, <1>7, <1>9

\* audit_read keeps the invariant.
LEMMA ReadStep ==
  ASSUME IInv, NEW x \in Requests, audit_read(x)
  PROVE  IInv'
<1>1. Next_(x, "audit") /\ txn[x].stage = "read"
  BY DEF audit_read
<1>2. PICK q \in Txns : q = txn[x]
  BY TxnSound
<1>3. /\ q.todo # <<>> /\ q.todo[1][1] = "audit" /\ q.todo[1][2] \in TenantIds /\ Unwritten(q)
      /\ \A r : SameOrder(r, q) => Plan(r)
  BY <1>1, <1>2, AtAudit
<1>4. PICK h \in Hashes : h = Base(q, q.todo[1][2])
  BY <1>2, <1>3, HeadBase
<1>5. h = IF HeadSeen(x, q.todo[1][2]) = NoRow THEN ZeroHash ELSE HeadSeen(x, q.todo[1][2])
  BY <1>2, <1>3, <1>4, HeadBase
<1>6. PICK p : p = [q EXCEPT !.stage = "write", !.prev = h]
  OBVIOUS
<1>7. txn' = [txn EXCEPT ![x] = p]
  BY <1>2, <1>5, <1>6 DEF audit_read, Arg, IInv, Shapes
<1>8. Sound(x, q) /\ q.stage = "read"
  BY <1>1, <1>2, TxnSound
<1>9. /\ p \in Txns /\ p.kind = q.kind /\ p.subject = q.subject /\ p.todo = q.todo
      /\ p.stage = "write" /\ p.locks = q.locks /\ p.mine = q.mine /\ p.prev = h
      /\ p.rows = q.rows /\ p.made = q.made /\ p.revokes = q.revokes
  BY <1>6 DEF Txns
<1>10. Plan(p)
  BY <1>3, <1>9 DEF SameOrder, SameWork
<1>11. Reads(p)
  BY <1>3, <1>4, <1>8, <1>9 DEF Reads, Base, Sound
<1>12. Links(p)
  BY <1>8, <1>9 DEF Sound, Links, Base, Unwritten
<1>13. Sound(x, p)
  BY <1>8, <1>9, <1>10, <1>11, <1>12 DEF Sound
<1>14. PICK a \in Answers : a = answer[x] /\ Claim(a) /\ answer = [answer EXCEPT ![x] = a]
  BY OldAnswer
<1>15. /\ answer' = [answer EXCEPT ![x] = a] /\ tokens' \in [Services -> 0 .. Rps]
       /\ UNCHANGED <<seedpc, operators, database, job, altered>>
  BY <1>14 DEF audit_read, IInv, ChainConsistent, TypeOK
<1> QED
  BY <1>7, <1>9, <1>13, <1>14, <1>15, TxnStep

\* The event's row and its hash, when the tenant exists.
LEMMA RowWritten ==
  ASSUME IInv, NEW x \in Requests, NEW i \in 1 .. MaxEvents,
         Next_(x, "audit"), txn[x].stage = "write", Arg(x) \in tenants \cup txn[x].made
  PROVE  LET r == NewRow(x, i)
         IN  /\ r \in Rows /\ r.tenant = txn[x].todo[1][2] /\ r.body = txn[x].todo[1][3]
             /\ r.prev = Base(txn[x], r.tenant) /\ r.hash = event_hash(r) /\ ~r.extra
             /\ r.hash \in Hashes /\ r.hash # NoRow
             /\ NewHead(x, r) = [txn[x].mine EXCEPT ![r.tenant] = r.hash]
<1>1. PICK q \in Txns : q = txn[x]
  BY TxnSound
<1>2. /\ q.todo # <<>> /\ q.todo[1][2] \in TenantIds /\ q.todo[1][3] \in Bodies /\ Unwritten(q)
      /\ operators
  BY <1>1, AtAudit
<1>3. PICK t \in TenantIds : t = q.todo[1][2]
  BY <1>2
<1>4. PICK b \in Bodies : b = q.todo[1][3]
  BY <1>2
<1>5. q.prev = Base(q, t) /\ q.prev \in Hashes
  BY <1>1, <1>3, TxnSound DEF Sound, Reads, Txns
<1>6. PICK c \in Contents : c = <<i, t, b>>
  BY DEF Contents
<1>7. chain_hash(c, q.prev) \in Hashes /\ chain_hash(c, q.prev) # NoRow
  BY <1>5, Hashed
<1>8. PICK r : r = NewRow(x, i)
  OBVIOUS
<1>9. r = [id |-> i, tenant |-> t, body |-> b, prev |-> q.prev,
           hash |-> chain_hash(c, q.prev), extra |-> FALSE]
  BY <1>1, <1>3, <1>4, <1>6, <1>8 DEF NewRow, Arg, What
<1>10. r \in Rows
  BY <1>5, <1>7, <1>9 DEF Rows
<1>11. /\ r.tenant = t /\ r.body = b /\ r.prev = Base(q, t) /\ r.hash = chain_hash(c, q.prev)
       /\ ~r.extra /\ r.id = i /\ r.prev = q.prev
  BY <1>5, <1>9
<1>12. r.hash = event_hash(r)
  BY <1>6, <1>11 DEF event_hash
<1>13. HeadSeen(x, t) # NoRow
  BY <1>1, <1>2, <1>3, HeadBase DEF Arg
<1>14. NewHead(x, r) = [q.mine EXCEPT ![t] = r.hash]
  BY <1>1, <1>11, <1>13 DEF NewHead
<1> QED
  BY <1>1, <1>3, <1>4, <1>7, <1>8, <1>10, <1>11, <1>12, <1>14

\* audit_write keeps the invariant.
LEMMA WriteStep ==
  ASSUME IInv, NEW x \in Requests, audit_write(x)
  PROVE  IInv'
<1>1. Next_(x, "audit") /\ txn[x].stage = "write"
  BY DEF audit_write
<1>2. CASE Arg(x) \notin tenants \cup txn[x].made
  <2>1. Rollback(x, 500) /\ UNCHANGED <<seedpc, operators, database, tokens, job, altered>>
    BY <1>2 DEF audit_write
  <2> QED
    BY <2>1, RollbackStep
<1>3. CASE Arg(x) \in tenants \cup txn[x].made
  <2>1. PICK i \in (1 .. MaxEvents) \ UsedIds :
          LET r == NewRow(x, i)
          IN  txn' = [txn EXCEPT ![x] =
                 [txn[x] EXCEPT !.rows = @ \cup {r}, !.mine = NewHead(x, r),
                                !.todo = Tail(@), !.stage = "lock", !.prev = NoRow]]
    BY <1>3 DEF audit_write
  <2>2. PICK q \in Txns : q = txn[x]
    BY TxnSound
  <2>3. PICK r : r = NewRow(x, i)
    OBVIOUS
  <2>4. /\ q.todo # <<>> /\ q.todo[1][1] = "audit" /\ q.todo[1][2] \in TenantIds /\ Unwritten(q)
        /\ \A s : SameWork(s, q) /\ s.todo = Tail(q.todo) /\ Wrote(s, q.todo[1][3]) => Plan(s)
    BY <1>1, <2>2, AtAudit
  <2>5. /\ r \in Rows /\ r.tenant = q.todo[1][2] /\ r.body = q.todo[1][3]
        /\ r.prev = Base(q, r.tenant) /\ r.hash = event_hash(r) /\ ~r.extra
        /\ r.hash \in Hashes /\ r.hash # NoRow
        /\ NewHead(x, r) = [q.mine EXCEPT ![r.tenant] = r.hash]
    BY <1>1, <1>3, <2>2, <2>3, RowWritten
  <2>6. PICK m \in [TenantIds -> Hashes] : m = [q.mine EXCEPT ![r.tenant] = r.hash]
    BY <2>4, <2>5 DEF Txns
  <2>7. PICK p : p = [q EXCEPT !.rows = @ \cup {r}, !.mine = m, !.todo = Tail(@),
                               !.stage = "lock", !.prev = NoRow]
    OBVIOUS
  <2>8. txn' = [txn EXCEPT ![x] = p]
    BY <2>1, <2>2, <2>3, <2>5, <2>6, <2>7
  <2>9. Tail(q.todo) \in Seq(Ops)
    BY <2>4 DEF Txns
  <2>10. /\ p \in Txns /\ p.kind = q.kind /\ p.subject = q.subject /\ p.todo = Tail(q.todo)
         /\ p.stage = "lock" /\ p.locks = q.locks /\ p.mine = m
         /\ p.rows = q.rows \cup {r} /\ p.made = q.made /\ p.revokes = q.revokes
    BY <2>5, <2>7, <2>9, BaseHashes DEF Txns
  <2>11. p.rows = {r}
    BY <2>4, <2>10 DEF Unwritten
  <2>12. Sound(x, q) /\ q.stage = "write"
    BY <1>1, <2>2, TxnSound
  <2>13. Plan(p)
    BY <2>4, <2>5, <2>10, <2>11 DEF SameWork, Wrote
  <2>14. Reads(p)
    BY <2>10 DEF Reads
  <2>15. Links(p)
    <3>1. \A t \in TenantIds : m[t] = IF t = r.tenant THEN r.hash ELSE q.mine[t]
      BY <2>6 DEF Txns
    <3>2. <<"audit", r.tenant>> \in p.locks
      BY <2>5, <2>10, <2>12 DEF Sound, Reads
    <3>3. r.tenant \in tenants \cup p.made
      BY <1>3, <2>2, <2>5, <2>10 DEF Arg
    <3>4. \A t \in TenantIds : q.mine[t] # NoRow => t \in q.made
      BY <2>4, <2>12 DEF Sound, Links, Unwritten
    <3>5. r.prev = Base(p, r.tenant)
      BY <2>5, <2>10 DEF Base
    <3>6. \A t \in TenantIds : p.mine[t] # NoRow => t = r.tenant
      <4>1. \A t \in q.made : t = r.tenant
        BY <2>2, <2>4, <2>5, <2>13, <2>10, <2>11, <2>12, OneOp, TwoOps, OpParts, NoTxnFields
           DEF Sound, Plan, PlanEmit, PlanHit, PlanRevoke, PlanCreate
      <4> QED
        BY <3>1, <3>4, <4>1, <2>10
    <3>7. \A t \in p.made : p.mine[t] # NoRow
      <4>1. \A t \in q.made : q.mine[t] # NoRow /\ t \in TenantIds
        BY <2>12 DEF Sound, Links, Txns, TenantIds
      <4> QED
        BY <3>1, <4>1, <2>5, <2>10
    <3> QED
      BY <2>4, <2>5, <2>10, <2>11, <3>1, <3>2, <3>3, <3>5, <3>6, <3>7 DEF Links
  <2>16. Sound(x, p)
    BY <2>10, <2>12, <2>13, <2>14, <2>15 DEF Sound
  <2>17. PICK a \in Answers : a = answer[x] /\ Claim(a) /\ answer = [answer EXCEPT ![x] = a]
    BY OldAnswer
  <2>18. /\ answer' = [answer EXCEPT ![x] = a] /\ tokens' \in [Services -> 0 .. Rps]
         /\ UNCHANGED <<seedpc, operators, database, job, altered>>
    BY <1>3, <2>17 DEF audit_write, IInv, ChainConsistent, TypeOK
  <2> QED
    BY <2>8, <2>10, <2>16, <2>17, <2>18, TxnStep
<1> QED
  BY <1>2, <1>3

\* update_key keeps the invariant.
LEMMA KeyStep ==
  ASSUME IInv, NEW x \in Requests, update_key(x)
  PROVE  IInv'
<1>1. Next_(x, "row") /\ Free(x)
  BY DEF update_key
<1>2. PICK q \in Txns : q = txn[x]
  BY TxnSound
<1>3. Sound(x, q) /\ q.todo # <<>> /\ q.todo[1][1] = "row"
  BY <1>1, <1>2, TxnSound DEF Next_
<1>4. /\ q.todo[1][2] \in Keys
      /\ \A p : /\ p.kind = q.kind /\ p.subject = q.subject /\ p.made = q.made /\ p.rows = q.rows
                /\ p.todo = Tail(q.todo)
                /\ p.revokes = IF q.todo[1][3] = "revoke" THEN q.revokes \cup {q.todo[1][2]}
                               ELSE q.revokes
                => Plan(p)
  BY <1>3, RowPlan DEF Sound
<1>5. q.stage = "lock"
  BY <1>3 DEF Sound, Reads
<1>6. PICK W : W = Wanted(x)
  OBVIOUS
<1>7. /\ W = {<<"row", q.todo[1][2]>>}
      /\ \A y \in Requests \ {x} : (q.locks \cup W) \cap txn[y].locks = {}
  BY <1>1, <1>2, <1>5, <1>6, WantedFree
<1>8. W \subseteq LockIds
  BY <1>4, <1>7 DEF LockIds, Subjects
<1>9. PICK v \in SUBSET Keys : v = IF q.todo[1][3] = "revoke" THEN q.revokes \cup {q.todo[1][2]}
                                  ELSE q.revokes
  BY <1>4 DEF Txns
<1>10. PICK p : p = [[q EXCEPT !.locks = @ \cup W] EXCEPT !.todo = Tail(@), !.revokes = v]
  OBVIOUS
<1>11. txn' = [txn EXCEPT ![x] = p]
  BY <1>2, <1>6, <1>9, <1>10 DEF update_key, Acquire, Arg, What, Txns
<1>12. Tail(q.todo) \in Seq(Ops)
  BY <1>3 DEF Txns
<1>13. /\ p \in Txns /\ p.kind = q.kind /\ p.subject = q.subject /\ p.todo = Tail(q.todo)
       /\ p.stage = "lock" /\ p.locks = q.locks \cup W /\ p.mine = q.mine
       /\ p.rows = q.rows /\ p.made = q.made /\ p.revokes = v
  BY <1>5, <1>8, <1>10, <1>12 DEF Txns
<1>14. Plan(p)
  BY <1>4, <1>9, <1>13
<1>15. Reads(p)
  BY <1>13 DEF Reads
<1>16. Links(p)
  BY <1>3, <1>13 DEF Sound, Links, Base, Unwritten
<1>17. Sound(x, p)
  BY <1>3, <1>7, <1>13, <1>14, <1>15, <1>16 DEF Sound
<1>18. PICK a \in Answers : a = answer[x] /\ Claim(a) /\ answer = [answer EXCEPT ![x] = a]
  BY OldAnswer
<1>19. /\ answer' = [answer EXCEPT ![x] = a] /\ tokens' \in [Services -> 0 .. Rps]
       /\ UNCHANGED <<seedpc, operators, database, job, altered>>
  BY <1>18 DEF update_key, IInv, ChainConsistent, TypeOK
<1> QED
  BY <1>11, <1>13, <1>17, <1>18, <1>19, TxnStep

\* insert_tenant keeps the invariant.
LEMMA InsertStep ==
  ASSUME IInv, NEW x \in Requests, insert_tenant(x)
  PROVE  IInv'
<1>1. Next_(x, "tenant") /\ Free(x)
  BY DEF insert_tenant
<1>2. CASE Arg(x) \in tenants
  <2>1. Rollback(x, 409) /\ UNCHANGED <<seedpc, operators, database, tokens, job, altered>>
    BY <1>2 DEF insert_tenant
  <2> QED
    BY <2>1, RollbackStep
<1>3. CASE Arg(x) \notin tenants
  <2>1. PICK q \in Txns : q = txn[x]
    BY TxnSound
  <2>2. Sound(x, q) /\ q.todo # <<>> /\ q.todo[1][1] = "tenant"
    BY <1>1, <2>1, TxnSound DEF Next_
  <2>3. /\ q.todo[1][2] \in Tenants /\ q.made = {} /\ q.rows = {} /\ q.kind = "create"
        /\ \A p : /\ p.kind = q.kind /\ p.subject = q.subject /\ p.revokes = q.revokes
                  /\ p.rows = q.rows /\ p.todo = Tail(q.todo) /\ p.made = {q.todo[1][2]}
                  => Plan(p)
    BY <2>2, InsertPlan DEF Sound, Unwritten
  <2>4. PICK t \in Tenants : t = q.todo[1][2]
    BY <2>3
  <2>5. q.stage = "lock" /\ t \in TenantIds /\ t \notin tenants
    BY <1>3, <2>1, <2>2, <2>4 DEF Sound, Reads, TenantIds, Arg
  <2>6. PICK W : W = Wanted(x)
    OBVIOUS
  <2>7. /\ W = {<<"tenant", t>>}
        /\ \A y \in Requests \ {x} : (q.locks \cup W) \cap txn[y].locks = {}
    BY <1>1, <2>1, <2>4, <2>5, <2>6, WantedFree
  <2>8. W \subseteq LockIds
    BY <2>5, <2>7 DEF LockIds, Subjects
  <2>9. PICK m \in [TenantIds -> Hashes] : m = [q.mine EXCEPT ![t] = wire_genesis(t)]
    BY <2>5, BaseHashes DEF Txns
  <2>10. PICK p : p = [[q EXCEPT !.locks = @ \cup W] EXCEPT !.todo = Tail(@), !.made = @ \cup {t},
                                                            !.mine = m]
    OBVIOUS
  <2>11. txn' = [txn EXCEPT ![x] = p]
    <3>1. txn' = [txn EXCEPT ![x] =
                    [Acquire(x) EXCEPT !.todo = Tail(@), !.made = @ \cup {Arg(x)},
                                       !.mine[Arg(x)] = wire_genesis(Arg(x))]]
      BY <1>3 DEF insert_tenant
    <3>2. Acquire(x) = [q EXCEPT !.locks = @ \cup W] /\ Arg(x) = t
      BY <2>1, <2>4, <2>6 DEF Acquire, Arg
    <3>3. Acquire(x).mine = q.mine
      BY <3>2 DEF Txns
    <3> QED
      BY <2>9, <2>10, <3>1, <3>2, <3>3
  <2>12. Tail(q.todo) \in Seq(Ops)
    BY <2>2 DEF Txns
  <2>13. /\ p \in Txns /\ p.kind = q.kind /\ p.subject = q.subject /\ p.todo = Tail(q.todo)
         /\ p.stage = "lock" /\ p.locks = q.locks \cup W /\ p.mine = m
         /\ p.rows = {} /\ p.made = {t} /\ p.revokes = q.revokes
    BY <2>3, <2>5, <2>8, <2>10, <2>12 DEF Txns
  <2>14. Plan(p)
    BY <2>3, <2>4, <2>13
  <2>15. Reads(p)
    BY <2>13 DEF Reads
  <2>16. Links(p)
    <3>1. \A s \in TenantIds : m[s] = IF s = t THEN wire_genesis(t) ELSE q.mine[s]
      BY <2>9 DEF Txns
    <3>2. \A s \in TenantIds : q.mine[s] = NoRow
      BY <2>2, <2>3 DEF Sound, Links
    <3> QED
      BY <2>5, <2>13, <3>1, <3>2, BaseHashes DEF Links, Unwritten
  <2>17. Sound(x, p)
    BY <2>2, <2>3, <2>5, <2>7, <2>13, <2>14, <2>15, <2>16 DEF Sound
  <2>18. PICK a \in Answers : a = answer[x] /\ Claim(a) /\ answer = [answer EXCEPT ![x] = a]
    BY OldAnswer
  <2>19. /\ answer' = [answer EXCEPT ![x] = a] /\ tokens' \in [Services -> 0 .. Rps]
         /\ UNCHANGED <<seedpc, operators, database, job, altered>>
    BY <1>3, <2>18 DEF insert_tenant, IInv, ChainConsistent, TypeOK
  <2> QED
    BY <2>11, <2>13, <2>17, <2>18, <2>19, TxnStep
<1> QED
  BY <1>2, <1>3

-----------------------------------------------------------------------------
(* The handlers.                                                           *)

\* A transaction that has just been opened.
Fresh(p, kind, subject, ops) ==
  /\ p.kind = kind /\ p.subject = subject /\ p.todo = ops /\ p.stage = "lock"
  /\ p.rows = {} /\ p.made = {} /\ p.revokes = {}

\* A request whose transaction is opened.
LEMMA OpenStep ==
  ASSUME IInv, NEW x \in Requests, operators,
         NEW kind \in {"emit", "hit", "revoke", "create", "verify"}, NEW subject \in Subjects,
         NEW ops \in Seq(Ops), Open(x, kind, subject, ops),
         \A p : Fresh(p, kind, subject, ops) => Plan(p),
         tokens' \in [Services -> 0 .. Rps],
         UNCHANGED <<seedpc, operators, database, job, altered>>
  PROVE  IInv'
<1>1. PICK p : p = [NoTxn EXCEPT !.kind = kind, !.subject = subject, !.todo = ops]
  OBVIOUS
<1>2. txn' = [txn EXCEPT ![x] = p] /\ answer' = [answer EXCEPT ![x] = NoAnswer]
  BY <1>1 DEF Open
<1>3. /\ p \in Txns /\ p.kind = kind /\ p.subject = subject /\ p.todo = ops /\ p.stage = "lock"
      /\ p.locks = {} /\ p.mine = [t \in TenantIds |-> NoRow] /\ p.rows = {} /\ p.made = {}
      /\ p.revokes = {}
  BY <1>1, NoTxnSound, NoTxnFields DEF Txns
<1>4. Plan(p)
  BY <1>3 DEF Fresh
<1>5. Reads(p)
  BY <1>3 DEF Reads
<1>6. Links(p)
  BY <1>3 DEF Links
<1>7. Sound(x, p)
  BY <1>3, <1>4, <1>5, <1>6 DEF Sound
<1> QED
  BY <1>2, <1>3, <1>7, OldAnswer, TxnStep

\* A request that is answered without a transaction.
LEMMA RefuseStep ==
  ASSUME IInv, NEW x \in Requests, NEW kind \in {"emit", "revoke", "ack"}, NEW subject \in Subjects,
         NEW code \in Nat, Refuse(x, kind, subject, code),
         kind = "revoke" => subject \in revoked,
         tokens' \in [Services -> 0 .. Rps],
         UNCHANGED <<seedpc, operators, database, job, altered>>
  PROVE  IInv'
<1>1. PICK a \in Answers : a = [kind |-> kind, code |-> code, subject |-> subject]
  BY DEF Answers
<1>2. Claim(a) /\ answer' = [answer EXCEPT ![x] = a]
  BY <1>1 DEF Claim, Refuse
<1>3. PICK q \in Txns : q = txn[x] /\ Sound(x, q)
  BY TxnSound
<1>4. txn' = [txn EXCEPT ![x] = q]
  BY <1>3 DEF Refuse, IInv, Shapes
<1> QED
  BY <1>1, <1>2, <1>3, <1>4, TxnStep

\* The rate limiter's buckets stay between empty and full.
LEMMA BucketsTyped ==
  ASSUME IInv, NEW s \in Services, NEW ok \in BOOLEAN, try_acquire(s, ok)
  PROVE  tokens' \in [Services -> 0 .. Rps]
<1>1. tokens \in [Services -> 0 .. Rps] /\ Rps \in Nat
  BY ConstantsOK DEF IInv, ChainConsistent, TypeOK
<1>2. CASE UNCHANGED tokens
  BY <1>1, <1>2
<1>3. CASE Rps > 0 /\ \E have \in tokens[s] .. Rps :
             /\ ok = (have >= 1)
             /\ tokens' = [tokens EXCEPT ![s] = IF ok THEN have - 1 ELSE have]
  <2>1. PICK have \in tokens[s] .. Rps :
             /\ ok = (have >= 1)
             /\ tokens' = [tokens EXCEPT ![s] = IF ok THEN have - 1 ELSE have]
    BY <1>3
  <2>2. have \in 0 .. Rps
    BY <1>1, <2>1
  <2>3. (IF ok THEN have - 1 ELSE have) \in 0 .. Rps
    <3>1. CASE have >= 1
      BY <1>1, <2>2, <3>1
    <3>2. CASE ~(have >= 1)
      <4>1. ~ok
        BY <2>1, <3>2
      <4> QED
        BY <2>2, <4>1
    <3> QED
      BY <3>1, <3>2
  <2> QED
    BY <1>1, <2>1, <2>3
<1> QED
  BY <1>2, <1>3 DEF try_acquire

\* Members of the sets the statements are taken from.
LEMMA OpsTyped ==
  /\ \A t \in TenantIds, b \in Bodies : Audit(t, b) \in Ops
  /\ \A k \in Keys : Row(k, "used") \in Ops /\ Row(k, "revoke") \in Ops
  /\ \A t \in Tenants : Insert(t) \in Ops
  /\ "event" \in Bodies /\ Keys \subseteq Bodies /\ Tenants \subseteq TenantIds
  /\ System \in TenantIds /\ Default \in Tenants
  /\ TenantIds \subseteq Subjects /\ Keys \subseteq Subjects
  BY ConstantsOK DEF Audit, Row, Insert, Ops, Subjects, Bodies, TenantIds

\* Every handler keeps the invariant.
LEMMA HandlerStep ==
  ASSUME IInv, NEW x \in Requests, Handler(x)
  PROVE  IInv'
<1> USE DEF Request
<1>0. tokens \in [Services -> 0 .. Rps] /\ tenants \subseteq Tenants /\ revoked \subseteq Keys
  BY DEF IInv, ChainConsistent, TypeOK
<1>1. ASSUME NEW t \in tenants, NEW c \in DOMAIN Verdict, audit_emit_endpoint(x, t, c)
      PROVE  IInv'
  <2>1. operators /\ UNCHANGED <<seedpc, operators, database, job, altered>>
    BY <1>1 DEF audit_emit_endpoint
  <2>2. System \in Subjects /\ <<Audit(t, "event")>> \in Seq(Ops) /\ Verdict[c] \in Nat
    <3>1. Audit(t, "event") \in Ops
      BY <1>0, <1>1, OpsTyped
    <3> QED
      BY <1>1, <3>1, OpsTyped DEF Verdict
  <2>3. CASE Refuse(x, "emit", System, 401) /\ UNCHANGED tokens
    BY <1>0, <2>1, <2>2, <2>3, RefuseStep
  <2>4. ASSUME NEW s \in Services, try_acquire(s, FALSE), Refuse(x, "emit", System, 429)
        PROVE  IInv'
    <3>1. tokens' \in [Services -> 0 .. Rps]
      BY <2>4, BucketsTyped
    <3> QED
      BY <2>1, <2>2, <2>4, <3>1, RefuseStep
  <2>5. ASSUME NEW s \in Services, try_acquire(s, TRUE), Refuse(x, "emit", System, Verdict[c])
        PROVE  IInv'
    <3>1. tokens' \in [Services -> 0 .. Rps]
      BY <2>5, BucketsTyped
    <3> QED
      BY <2>1, <2>2, <2>5, <3>1, RefuseStep
  <2>6. ASSUME NEW s \in Services, try_acquire(s, TRUE),
               Open(x, "emit", System, <<<<"audit", t, "event">>>>)
        PROVE  IInv'
    <3>1. tokens' \in [Services -> 0 .. Rps]
      BY <2>6, BucketsTyped
    <3>2. ASSUME NEW p, Fresh(p, "emit", System, <<Audit(t, "event")>>)
          PROVE  Plan(p)
      <4>1. PlanEmit(p)
        BY <1>1, <3>2 DEF Fresh, PlanEmit, Unwritten
      <4> QED
        BY <4>1 DEF Plan
    <3>3. Open(x, "emit", System, <<Audit(t, "event")>>)
      BY <2>6 DEF Audit
    <3> QED
      BY <2>1, <2>2, <3>1, <3>2, <3>3, OpenStep
  <2> QED
    BY <1>1, <2>3, <2>4, <2>5, <2>6 DEF audit_emit_endpoint
<1>2. ASSUME NEW k \in Keys, proxy_hit(x, k)
      PROVE  IInv'
  <2>1. operators /\ UNCHANGED <<seedpc, operators, database, tokens, job, altered>>
    BY <1>2 DEF proxy_hit
  <2>2. Audit(Default, "event") \in Ops /\ Row(k, "used") \in Ops /\ System \in Subjects
    BY <1>2, OpsTyped
  <2>3. <<Audit(Default, "event"), Row(k, "used")>> \in Seq(Ops)
    BY <2>2
  <2>4. Open(x, "hit", System, <<Audit(Default, "event"), Row(k, "used")>>)
    BY <1>2 DEF proxy_hit, Audit, Row
  <2>5. ASSUME NEW p, Fresh(p, "hit", System, <<Audit(Default, "event"), Row(k, "used")>>)
        PROVE  Plan(p)
    <3>1. PlanHit(p)
      BY <1>2, <2>5 DEF Fresh, PlanHit, Unwritten
    <3> QED
      BY <3>1 DEF Plan
  <2> QED
    BY <1>0, <2>1, <2>2, <2>3, <2>4, <2>5, OpenStep
<1>3. ASSUME NEW k \in Keys, revoke_api_key(x, k)
      PROVE  IInv'
  <2>1. operators /\ UNCHANGED <<seedpc, operators, database, tokens, job, altered>>
    BY <1>3 DEF revoke_api_key
  <2>2. Row(k, "revoke") \in Ops /\ Audit(Default, k) \in Ops /\ k \in Subjects
    BY <1>3, OpsTyped
  <2>3. CASE k \in revoked
    <3>1. Refuse(x, "revoke", k, 200)
      BY <1>3, <2>3 DEF revoke_api_key
    <3> QED
      BY <1>0, <2>1, <2>2, <2>3, <3>1, RefuseStep
  <2>4. CASE k \notin revoked
    <3>1. Open(x, "revoke", k, <<Row(k, "revoke"), Audit(Default, k)>>)
      BY <1>3, <2>4 DEF revoke_api_key, Audit, Row
    <3>2. <<Row(k, "revoke"), Audit(Default, k)>> \in Seq(Ops)
      BY <2>2
    <3>3. ASSUME NEW p, Fresh(p, "revoke", k, <<Row(k, "revoke"), Audit(Default, k)>>)
          PROVE  Plan(p)
      <4>1. PlanRevoke(p)
        BY <1>3, <3>3 DEF Fresh, PlanRevoke, Unwritten, NotBegun
      <4> QED
        BY <4>1 DEF Plan
    <3> QED
      BY <1>0, <2>1, <2>2, <3>1, <3>2, <3>3, OpenStep
  <2> QED
    BY <2>3, <2>4
<1>4. ASSUME NEW t \in Tenants, create_tenant(x, t)
      PROVE  IInv'
  <2>1. operators /\ UNCHANGED <<seedpc, operators, database, tokens, job, altered>>
    BY <1>4 DEF create_tenant
  <2>2. Insert(t) \in Ops /\ Audit(t, "event") \in Ops /\ t \in Subjects
    BY <1>4, OpsTyped
  <2>3. <<Insert(t), Audit(t, "event")>> \in Seq(Ops)
    BY <2>2
  <2>4. Open(x, "create", t, <<Insert(t), Audit(t, "event")>>)
    BY <1>4 DEF create_tenant, Audit, Insert
  <2>5. ASSUME NEW p, Fresh(p, "create", t, <<Insert(t), Audit(t, "event")>>)
        PROVE  Plan(p)
    <3>1. PlanCreate(p)
      BY <1>4, <2>5 DEF Fresh, PlanCreate, Unwritten, NotBegun
    <3> QED
      BY <3>1 DEF Plan
  <2> QED
    BY <1>0, <2>1, <2>2, <2>3, <2>4, <2>5, OpenStep
<1>5. ASSUME NEW t \in Tenants, acknowledge_tamper(x, t)
      PROVE  IInv'
  <2>1. UNCHANGED <<seedpc, operators, database, tokens, job, altered>> /\ System \in Subjects
    BY <1>5, OpsTyped DEF acknowledge_tamper
  <2>2. PICK code \in Nat : Refuse(x, "ack", System, code)
    BY <1>5 DEF acknowledge_tamper
  <2> QED
    BY <1>0, <2>1, <2>2, RefuseStep
<1>6. ASSUME verify_chain_endpoint(x)
      PROVE  IInv'
  <2>1. operators /\ UNCHANGED <<seedpc, operators, database, tokens, job, altered>>
    BY <1>6 DEF verify_chain_endpoint
  <2>2. Audit(System, "event") \in Ops /\ System \in Subjects
    BY OpsTyped
  <2>3. <<Audit(System, "event")>> \in Seq(Ops)
    BY <2>2
  <2>4. Open(x, "verify", System, <<Audit(System, "event")>>)
    BY <1>6 DEF verify_chain_endpoint, Audit
  <2>5. ASSUME NEW p, Fresh(p, "verify", System, <<Audit(System, "event")>>)
        PROVE  Plan(p)
    <3>1. PlanEmit(p)
      BY <2>5 DEF Fresh, PlanEmit, Unwritten
    <3> QED
      BY <3>1 DEF Plan
  <2> QED
    BY <1>0, <2>1, <2>2, <2>3, <2>4, <2>5, OpenStep
<1> QED
  BY <1>1, <1>2, <1>3, <1>4, <1>5, <1>6 DEF Handler

-----------------------------------------------------------------------------
(* The commit.                                                             *)

\* What a commit writes: one event, the head of its chain, and what the
\* handler made or revoked.
LEMMA CommitRow ==
  ASSUME IInv, NEW x \in Requests, Commit(x)
  PROVE  \E q \in Txns, r \in Rows :
           /\ q = txn[x] /\ Sound(x, q) /\ q.rows = {r}
           /\ q.kind # "idle" /\ operators
           /\ q.kind = "revoke" => q.subject \in Keys /\ q.revokes = {q.subject} /\ r.body = q.subject
           /\ q.kind # "revoke" => q.revokes = {} /\ r.body = "event"
           /\ q.kind = "create" => q.made = {q.subject} /\ q.subject \in Tenants
           /\ r.tenant \in tenants \cup q.made /\ <<"audit", r.tenant>> \in q.locks
           /\ r.prev = Base(q, r.tenant) /\ r.hash = event_hash(r) /\ ~r.extra
           /\ \A t \in q.made : t = r.tenant
           /\ tenants' = tenants \cup q.made
           /\ events' = events \cup {r}
           /\ revoked' = revoked \cup q.revokes
           /\ head' = [head EXCEPT ![r.tenant] = r.hash]
<1>1. PICK q \in Txns : q = txn[x] /\ Sound(x, q)
  BY TxnSound
<1>2. q.kind # "idle" /\ q.todo = <<>>
  BY <1>1 DEF Commit, Idle
<1>3. PICK r \in q.rows :
           /\ q.rows = {r}
           /\ q.kind = "revoke" => q.subject \in Keys /\ q.revokes = {q.subject} /\ r.body = q.subject
           /\ q.kind # "revoke" => q.revokes = {} /\ r.body = "event"
           /\ q.kind = "create" => q.made = {q.subject} /\ q.subject \in Tenants
  BY <1>1, <1>2, DonePlan DEF Sound
<1>4. r \in Rows /\ operators
  BY <1>1, <1>2, <1>3 DEF Txns, Sound
<1>5. /\ r.tenant \in tenants \cup q.made /\ <<"audit", r.tenant>> \in q.locks
      /\ r.prev = Base(q, r.tenant) /\ r.hash = event_hash(r) /\ ~r.extra
      /\ q.mine[r.tenant] = r.hash
  BY <1>1, <1>3 DEF Sound, Links
<1>6. r.hash # NoRow /\ r.tenant \in TenantIds
  BY <1>4, <1>5, RowLinks DEF Rows
<1>7. \A t \in TenantIds : q.mine[t] # NoRow => t = r.tenant
  BY <1>1, <1>3 DEF Sound, Links, Unwritten
<1>8. \A t \in q.made : t = r.tenant
  BY <1>1, <1>7 DEF Sound, Links, Txns, TenantIds
<1>9. head \in [TenantIds -> Hashes]
  BY DEF IInv, ChainConsistent, TypeOK
<1>10. head' = [t \in TenantIds |-> IF q.mine[t] # NoRow THEN q.mine[t] ELSE head[t]]
  BY <1>1 DEF Commit, HeadSeen
<1>11. head' = [head EXCEPT ![r.tenant] = r.hash]
  BY <1>5, <1>6, <1>7, <1>9, <1>10
<1>12. /\ tenants' = tenants \cup q.made /\ events' = events \cup {r}
       /\ revoked' = revoked \cup q.revokes
  BY <1>1, <1>3 DEF Commit
<1> QED
  BY <1>1, <1>2, <1>3, <1>4, <1>5, <1>8, <1>11, <1>12

\* Commit keeps the invariant.
LEMMA CommitStep ==
  ASSUME IInv, NEW x \in Requests, Commit(x)
  PROVE  IInv'
<1>1. PICK q \in Txns, r \in Rows :
           /\ q = txn[x] /\ Sound(x, q) /\ q.rows = {r}
           /\ q.kind # "idle" /\ operators
           /\ q.kind = "revoke" => q.subject \in Keys /\ q.revokes = {q.subject} /\ r.body = q.subject
           /\ q.kind # "revoke" => q.revokes = {} /\ r.body = "event"
           /\ q.kind = "create" => q.made = {q.subject} /\ q.subject \in Tenants
           /\ r.tenant \in tenants \cup q.made /\ <<"audit", r.tenant>> \in q.locks
           /\ r.prev = Base(q, r.tenant) /\ r.hash = event_hash(r) /\ ~r.extra
           /\ \A t \in q.made : t = r.tenant
           /\ tenants' = tenants \cup q.made
           /\ events' = events \cup {r}
           /\ revoked' = revoked \cup q.revokes
           /\ head' = [head EXCEPT ![r.tenant] = r.hash]
  BY CommitRow
<1>2. PICK u \in TenantIds : u = r.tenant
  BY DEF Rows
<1>3. /\ txn' = [txn EXCEPT ![x] = NoTxn] /\ seedpc' = seedpc /\ operators' = operators
      /\ tokens' = tokens /\ job' = job /\ altered' = altered
  BY DEF Commit
<1>4. /\ txn' \in [Requests -> Txns] /\ txn'[x] = NoTxn
      /\ \A y \in Requests \ {x} : txn'[y] = txn[y]
  BY <1>3, NoTxnSound DEF IInv, Shapes
<1>5. /\ head \in [TenantIds -> Hashes] /\ tenants \subseteq Tenants /\ events \subseteq Rows
      /\ revoked \subseteq Keys
  BY DEF IInv, ChainConsistent, TypeOK
<1>6. /\ r.hash \in Hashes /\ r.hash # NoRow /\ r.prev \in Hashes
      /\ {Link(r.hash, i) : i \in DOMAIN r.hash.over}
           = {Link(r.prev, i) : i \in DOMAIN r.prev.over} \cup {r}
  BY <1>1, RowLinks DEF Rows
<1>7. /\ head' \in [TenantIds -> Hashes] /\ head'[u] = r.hash
      /\ \A t \in TenantIds \ {u} : head'[t] = head[t]
  BY <1>1, <1>2, <1>5, <1>6
<1>8. PICK a \in Answers : /\ a = [kind |-> q.kind, code |-> IF q.kind = "create" THEN 201 ELSE 200,
                                   subject |-> q.subject]
  <2>1. (IF q.kind = "create" THEN 201 ELSE 200) \in Nat
    OBVIOUS
  <2>2. q.subject \in Subjects
        /\ q.kind \in {"none", "idle", "emit", "hit", "revoke", "create", "verify", "ack"}
    BY DEF Txns
  <2> QED
    BY <2>1, <2>2 DEF Answers
<1>9. answer' = [answer EXCEPT ![x] = a]
  BY <1>1, <1>8 DEF Commit, Answer
<1>10. /\ answer' \in [Requests -> Answers] /\ answer'[x] = a
       /\ \A y \in Requests \ {x} : answer'[y] = answer[y]
  BY <1>9 DEF IInv, Shapes
<1>11. q.made \subseteq Tenants /\ q.revokes \subseteq Keys
  BY DEF Txns
<1>12. Shapes'
  BY <1>3, <1>4, <1>10 DEF IInv, Shapes
<1>13. TypeOK'
  <2>1. \A y \in Requests :
         /\ txn'[y].stage \in {"lock", "read", "write"}
         /\ txn'[y].prev \in Hashes
         /\ txn'[y].mine \in [TenantIds -> Hashes]
         /\ txn'[y].rows \subseteq Rows
         /\ txn'[y].made \subseteq Tenants
         /\ txn'[y].revokes \subseteq Keys
    BY <1>4 DEF Txns
  <2>2. tenants' \subseteq Tenants /\ events' \subseteq Rows /\ revoked' \subseteq Keys
    BY <1>1, <1>5, <1>11
  <2> QED
    BY <1>3, <1>7, <2>1, <2>2 DEF IInv, ChainConsistent, TypeOK
<1>14. ChainLinear'
  <2>1. SUFFICES ASSUME ~altered, NEW t \in TenantIds
                 PROVE  RowsOf(t)' = {Link(head'[t], i) : i \in DOMAIN head'[t].over}
    BY <1>3 DEF ChainLinear
  <2>2. RowsOf(t) = {Link(head[t], i) : i \in DOMAIN head[t].over}
    BY <2>1 DEF IInv, ChainConsistent, ChainLinear
  <2>3. CASE t # u
    <3>1. RowsOf(t)' = RowsOf(t)
      BY <1>1, <1>2, <2>3 DEF RowsOf
    <3> QED
      BY <1>7, <2>2, <2>3, <3>1
  <2>4. CASE t = u
    <3>1. RowsOf(t)' = RowsOf(t) \cup {r}
      BY <1>1, <1>2, <2>4 DEF RowsOf
    <3>2. RowsOf(t) = {Link(r.prev, i) : i \in DOMAIN r.prev.over}
      <4>1. CASE u \in q.made
        <5>1. u \notin tenants
          BY <1>1, <4>1 DEF Sound
        <5>2. head[u] = NoRow
          BY <5>1 DEF IInv, Seeded
        <5>3. head[u].over = <<>> /\ r.prev.over = <<>>
          BY <1>1, <1>2, <4>1, <5>2, BaseHashes DEF Base
        <5>4. RowsOf(t) = {}
          BY <2>2, <2>4, <5>3, NoLinks
        <5>5. {Link(r.prev, i) : i \in DOMAIN r.prev.over} = {}
          BY <5>3, NoLinks
        <5> QED
          BY <5>4, <5>5
      <4>2. CASE u \notin q.made
        <5>1. u \in tenants
          BY <1>1, <1>2, <4>2
        <5>2. head[u] # NoRow
          BY <1>1, <5>1 DEF IInv, Seeded
        <5>3. r.prev = head[u]
          BY <1>1, <1>2, <4>2, <5>2 DEF Base
        <5> QED
          BY <2>2, <2>4, <5>3
      <4> QED
        BY <4>1, <4>2
    <3> QED
      BY <1>6, <1>7, <2>4, <3>1, <3>2
  <2> QED
    BY <2>3, <2>4
<1>15. RevokedIffRecorded'
  <2>1. SUFFICES ASSUME ~altered PROVE revoked' = {k \in Keys : \E e \in events' : e.body = k}
    BY <1>3 DEF RevokedIffRecorded
  <2>2. revoked = {k \in Keys : \E e \in events : e.body = k}
    BY <2>1 DEF IInv, RevokedIffRecorded
  <2>3. {k \in Keys : \E e \in events' : e.body = k} = revoked \cup {k \in Keys : r.body = k}
    BY <1>1, <2>2
  <2>4. {k \in Keys : r.body = k} = q.revokes
    <3>1. CASE q.kind = "revoke"
      BY <1>1, <3>1
    <3>2. CASE q.kind # "revoke"
      BY <1>1, <3>2, ConstantsOK
    <3> QED
      BY <3>1, <3>2
  <2> QED
    BY <1>1, <2>3, <2>4
<1>16. AnsweredIsCommitted'
  <2>1. SUFFICES ASSUME NEW y \in Requests
                 PROVE  /\ answer'[y].kind = "revoke" /\ answer'[y].code = 200
                             => answer'[y].subject \in revoked'
                        /\ answer'[y].kind = "create" /\ answer'[y].code = 201
                             => /\ answer'[y].subject \in tenants'
                                /\ head'[answer'[y].subject] # NoRow
    BY DEF AnsweredIsCommitted
  <2>2. \A t \in tenants' : t \in TenantIds /\ head'[t] # NoRow
    BY <1>1, <1>2, <1>5, <1>6, <1>7, <1>11 DEF IInv, Seeded, TenantIds
  <2>3. CASE y # x
    <3>1. answer'[y] = answer[y]
      BY <1>10, <2>3
    <3>2. /\ answer[y].kind = "revoke" /\ answer[y].code = 200 => answer[y].subject \in revoked
          /\ answer[y].kind = "create" /\ answer[y].code = 201 => answer[y].subject \in tenants
      BY DEF IInv, AnsweredIsCommitted
    <3> QED
      BY <1>1, <2>2, <3>1, <3>2
  <2>4. CASE y = x
    <3>1. answer'[y].kind = q.kind /\ answer'[y].subject = q.subject
      BY <1>8, <1>10, <2>4
    <3> QED
      BY <1>1, <2>2, <3>1
  <2> QED
    BY <2>3, <2>4
<1>17. Seeded'
  <2>1. \A y \in Requests : (~Idle(y) => operators)'
    BY <1>1, <1>3
  <2>2. Default \in tenants' /\ \A t \in tenants' : head'[t] # NoRow
    BY <1>1, <1>2, <1>5, <1>6, <1>7, <1>11 DEF IInv, Seeded, TenantIds
  <2>3. \A t \in TenantIds \ tenants' : head'[t] = NoRow
    BY <1>1, <1>2, <1>7 DEF IInv, Seeded
  <2> QED
    BY <1>1, <1>3, <2>1, <2>2, <2>3 DEF Seeded
<1>18. Locks'
  <2>1. \A y, z \in Requests : y # z => txn'[y].locks \cap txn'[z].locks = {}
    BY <1>4, NoTxnFields DEF IInv, Locks
  <2>2. ASSUME NEW y \in Requests, NEW t \in txn'[y].made
        PROVE  <<"tenant", t>> \in txn'[y].locks /\ t \notin tenants'
    <3>1. y # x /\ txn'[y] = txn[y]
      BY <1>4, <2>2, NoTxnFields
    <3>2. <<"tenant", t>> \in txn[y].locks /\ t \notin tenants
      BY <2>2, <3>1 DEF IInv, Locks
    <3>3. q.locks \cap txn[y].locks = {}
      BY <1>1, <3>1 DEF Sound
    <3>4. t \notin q.made
      BY <1>1, <3>2, <3>3 DEF Sound
    <3> QED
      BY <1>1, <3>1, <3>2, <3>4
  <2> QED
    BY <2>1, <2>2 DEF Locks
<1>19. Chained'
  <2>1. SUFFICES ASSUME NEW y \in Requests
                 PROVE  (Plan(txn[y]) /\ Reads(txn[y]) /\ Links(txn[y]))'
    BY DEF Chained
  <2>2. CASE y = x
    <3>1. txn'[y] = NoTxn
      BY <1>4, <2>2
    <3>2. Plan(txn[y])'
      BY <3>1 DEF Plan, NoTxn, NoRow
    <3>3. Reads(txn[y])'
      BY <3>1, NoTxnFields DEF Reads
    <3>4. Links(txn[y])'
      BY <3>1, NoTxnFields DEF Links
    <3> QED
      BY <3>2, <3>3, <3>4
  <2>3. CASE y # x
    <3>1. PICK s \in Txns : s = txn[y] /\ Sound(y, s)
      BY TxnSound
    <3>2. txn'[y] = s
      BY <1>4, <2>3, <3>1
    <3>3. tenants \subseteq tenants'
      BY <1>1
    <3>4. ASSUME NEW t, <<"audit", t>> \in s.locks PROVE t # u
      BY <1>1, <1>2, <2>3, <3>1, <3>4 DEF Sound
    <3>5. ASSUME NEW t \in TenantIds, <<"audit", t>> \in s.locks
          PROVE  (IF t \in s.made THEN wire_genesis(t) ELSE IF head'[t] = NoRow THEN ZeroHash ELSE head'[t])
                   = Base(s, t)
      BY <1>7, <3>4, <3>5 DEF Base
    <3>6. Plan(txn[y])'
      BY <3>1, <3>2, <3>3
         DEF Sound, Plan, PlanEmit, PlanHit, PlanRevoke, PlanCreate, Unwritten, Wrote, NotBegun
    <3>7. Reads(txn[y])'
      <4>1. s.stage # "lock" => /\ s.todo # <<>> /\ s.todo[1][1] = "audit"
                                /\ <<"audit", s.todo[1][2]>> \in s.locks
        BY <3>1 DEF Sound, Reads
      <4>2. s.stage = "write" => s.prev = Base(s, s.todo[1][2])
        BY <3>1 DEF Sound, Reads
      <4>3. s.stage = "write" => s.todo[1][2] \in TenantIds
        <5>1. s.stage = "write" => Next_(y, "audit")
          BY <3>1, <4>1 DEF Next_
        <5> QED
          BY <3>1, <5>1, AtAudit
      <4> QED
        BY <3>2, <3>5, <4>1, <4>2, <4>3 DEF Reads, Base
    <3>8. Links(txn[y])'
      <4>1. \A e \in s.rows : e.tenant \in TenantIds
        BY DEF Txns, Rows
      <4>2. /\ \A e \in s.rows :
                 /\ e.tenant \in tenants \cup s.made /\ <<"audit", e.tenant>> \in s.locks
                 /\ e.prev = Base(s, e.tenant) /\ e.hash = event_hash(e) /\ ~e.extra
                 /\ s.mine[e.tenant] = e.hash
            /\ \A t \in TenantIds : s.mine[t] # NoRow =>
                 \/ Unwritten(s) /\ t \in s.made /\ s.mine[t] = wire_genesis(t)
                 \/ \E e \in s.rows : e.tenant = t
            /\ \A t \in s.made : s.mine[t] # NoRow
        BY <3>1 DEF Sound, Links
      <4>3. \A e \in s.rows :
               e.prev = (IF e.tenant \in s.made THEN wire_genesis(e.tenant)
                         ELSE IF head'[e.tenant] = NoRow THEN ZeroHash ELSE head'[e.tenant])
        BY <3>5, <4>1, <4>2
      <4> QED
        BY <3>2, <3>3, <4>2, <4>3 DEF Links, Base, Unwritten
    <3> QED
      BY <3>6, <3>7, <3>8
  <2> QED
    BY <2>2, <2>3
<1> QED
  BY <1>12, <1>13, <1>14, <1>15, <1>16, <1>17, <1>18, <1>19 DEF IInv, ChainConsistent

-----------------------------------------------------------------------------
(* The jobs, edits of the stored rows, and the theorems.                   *)

\* A step that leaves the transactions, the chains' heads, the tenants and the
\* events alone leaves every transaction sound.
LEMMA ChainedKept ==
  ASSUME IInv, tenants \subseteq tenants', txn' = txn, head' = head
  PROVE  Chained'
<1>1. SUFFICES ASSUME NEW y \in Requests
               PROVE  (Plan(txn[y]) /\ Reads(txn[y]) /\ Links(txn[y]))'
  BY DEF Chained
<1>2. PICK s : s = txn[y] /\ Sound(y, s)
  BY TxnSound
<1>3. Plan(txn[y])'
  BY <1>2 DEF Sound, Plan, PlanEmit, PlanHit, PlanRevoke, PlanCreate, Unwritten, Wrote, NotBegun
<1>4. Reads(txn[y])'
  BY <1>2 DEF Sound, Reads, Base
<1>5. Links(txn[y])'
  BY <1>2 DEF Sound, Links, Base, Unwritten
<1> QED
  BY <1>3, <1>4, <1>5

\* Before the bootstrap operator exists there are no transactions.
LEMMA NobodyYet ==
  ASSUME IInv, ~operators, NEW y \in Requests
  PROVE  txn[y] = NoTxn
<1>1. txn[y].kind = "idle" /\ Plan(txn[y])
  BY DEF IInv, Seeded, Idle, Chained
<1> QED
  BY <1>1 DEF Plan, PlanEmit, PlanHit, PlanRevoke, PlanCreate

\* The three commits of the seed job, and a repeated one, keep the invariant.
LEMMA SeedStep ==
  ASSUME IInv, Seed \/ SeedAgain
  PROVE  IInv'
<1>0. Default \in Tenants /\ Default \in TenantIds
  BY ConstantsOK DEF TenantIds
<1>1. CASE seed_default_tenant
  <2>1. /\ tenants' = tenants \cup {Default} /\ seedpc' = "chain" /\ operators' = operators
        /\ head' = head /\ events' = events /\ revoked' = revoked /\ tokens' = tokens
        /\ txn' = txn /\ answer' = answer /\ job' = job /\ altered' = altered
    BY <1>1 DEF seed_default_tenant
  <2>2. Shapes'
    BY <2>1 DEF IInv, Shapes
  <2>3. ChainConsistent'
    BY <1>0, <2>1 DEF IInv, ChainConsistent, TypeOK, ChainLinear, RowsOf
  <2>4. RevokedIffRecorded'
    BY <2>1 DEF IInv, RevokedIffRecorded
  <2>5. AnsweredIsCommitted'
    BY <2>1 DEF IInv, AnsweredIsCommitted
  <2>6. Seeded'
    BY <2>1 DEF IInv, Seeded, Idle
  <2>7. Locks'
    <3>1. CASE operators
      BY <2>1, <3>1 DEF IInv, Locks, Seeded
    <3>2. CASE ~operators
      <4>1. \A y \in Requests : txn[y].made = {}
        BY <3>2, NobodyYet, NoTxnFields
      <4> QED
        BY <2>1, <4>1 DEF IInv, Locks
    <3> QED
      BY <3>1, <3>2
  <2>8. Chained'
    BY <2>1, ChainedKept
  <2> QED
    BY <2>2, <2>3, <2>4, <2>5, <2>6, <2>7, <2>8 DEF IInv
<1>2. CASE seed_audit_chain_state
  <2>1. /\ tenants' = tenants /\ seedpc' = "operator" /\ operators' = operators
        /\ events' = events /\ revoked' = revoked /\ tokens' = tokens
        /\ txn' = txn /\ answer' = answer /\ job' = job /\ altered' = altered
        /\ seedpc = "chain"
        /\ head' = IF head[Default] = NoRow
                   THEN [head EXCEPT ![Default] = genesis_hash(Default)] ELSE head
    BY <1>2 DEF seed_audit_chain_state
  <2>2. head \in [TenantIds -> Hashes] /\ Default \in tenants
    BY <2>1 DEF IInv, ChainConsistent, TypeOK, Seeded
  <2>3. /\ head' \in [TenantIds -> Hashes]
        /\ \A t \in TenantIds : head[t] # NoRow => head'[t] = head[t]
        /\ \A t \in TenantIds \ {Default} : head'[t] = head[t]
        /\ head'[Default] # NoRow
    BY <1>0, <2>1, <2>2, BaseHashes
  <2>4. Shapes'
    BY <2>1 DEF IInv, Shapes
  <2>5. TypeOK'
    BY <2>1, <2>3 DEF IInv, ChainConsistent, TypeOK
  <2>6. ChainLinear'
    <3>1. SUFFICES ASSUME ~altered, NEW t \in TenantIds
                   PROVE  RowsOf(t)' = {Link(head'[t], i) : i \in DOMAIN head'[t].over}
      BY <2>1 DEF ChainLinear
    <3>2. RowsOf(t) = {Link(head[t], i) : i \in DOMAIN head[t].over} /\ RowsOf(t)' = RowsOf(t)
      BY <2>1, <3>1 DEF IInv, ChainConsistent, ChainLinear, RowsOf
    <3>3. CASE head'[t] = head[t]
      BY <3>2, <3>3
    <3>4. CASE head'[t] # head[t]
      <4>1. head[t] = NoRow /\ head'[t] = genesis_hash(Default)
        BY <1>0, <2>1, <2>2, <2>3, <3>4
      <4>2. head[t].over = <<>> /\ head'[t].over = <<>>
        BY <1>0, <4>1, BaseHashes
      <4>3. {Link(head[t], i) : i \in DOMAIN head[t].over} = {}
        BY <4>2, NoLinks
      <4>4. {Link(head'[t], i) : i \in DOMAIN head'[t].over} = {}
        BY <4>2, NoLinks
      <4> QED
        BY <3>2, <4>3, <4>4
    <3> QED
      BY <3>3, <3>4
  <2>7. RevokedIffRecorded'
    BY <2>1 DEF IInv, RevokedIffRecorded
  <2>8. AnsweredIsCommitted'
    <3>1. \A t \in tenants : t \in TenantIds
      BY DEF IInv, ChainConsistent, TypeOK, TenantIds
    <3> QED
      BY <2>1, <2>3, <3>1 DEF IInv, AnsweredIsCommitted
  <2>9. Seeded'
    <3>1. \A t \in tenants : t \in TenantIds
      BY DEF IInv, ChainConsistent, TypeOK, TenantIds
    <3> QED
      BY <2>1, <2>2, <2>3, <3>1 DEF IInv, Seeded, Idle
  <2>10. Locks'
    BY <2>1 DEF IInv, Locks
  <2>11. Chained'
    <3>1. CASE head' = head
      BY <2>1, <3>1, ChainedKept
    <3>2. CASE head' # head
      <4>1. ~operators
        BY <2>1, <2>2, <3>2 DEF IInv, Seeded
      <4>2. ASSUME NEW y \in Requests
            PROVE  (Plan(txn[y]) /\ Reads(txn[y]) /\ Links(txn[y]))'
        <5>1. txn'[y] = NoTxn
          BY <2>1, <4>1, NobodyYet
        <5>2. Plan(txn[y])'
          BY <5>1 DEF Plan, NoTxn, NoRow
        <5>3. Reads(txn[y])'
          BY <5>1, NoTxnFields DEF Reads
        <5>4. Links(txn[y])'
          BY <5>1, NoTxnFields DEF Links
        <5> QED
          BY <5>2, <5>3, <5>4
      <4> QED
        BY <4>2 DEF Chained
    <3> QED
      BY <3>1, <3>2
  <2> QED
    BY <2>4, <2>5, <2>6, <2>7, <2>8, <2>9, <2>10, <2>11 DEF IInv, ChainConsistent
<1>3. CASE seed_bootstrap_operator \/ SeedAgain
  <2>1. /\ tenants' = tenants /\ head' = head /\ events' = events /\ revoked' = revoked
        /\ tokens' = tokens /\ txn' = txn /\ answer' = answer /\ job' = job /\ altered' = altered
        /\ \/ seedpc = "operator" /\ operators' = TRUE /\ seedpc' = "idle"
           \/ operators' = operators /\ seedpc' = "tenant"
    BY <1>3 DEF seed_bootstrap_operator, SeedAgain, database
  <2>2. Shapes'
    BY <2>1 DEF IInv, Shapes
  <2>3. ChainConsistent'
    BY <2>1 DEF IInv, ChainConsistent, TypeOK, ChainLinear, RowsOf
  <2>4. RevokedIffRecorded'
    BY <2>1 DEF IInv, RevokedIffRecorded
  <2>5. AnsweredIsCommitted'
    BY <2>1 DEF IInv, AnsweredIsCommitted
  <2>6. Seeded'
    <3>1. CASE seedpc = "operator" /\ operators' = TRUE /\ seedpc' = "idle"
      <4>1. Default \in tenants /\ head[Default] # NoRow
        BY <3>1 DEF IInv, Seeded
      <4>2. \A t \in tenants : head[t] # NoRow
        BY <4>1 DEF IInv, Seeded
      <4> QED
        BY <2>1, <3>1, <4>1, <4>2 DEF IInv, Seeded, Idle
    <3>2. CASE operators' = operators /\ seedpc' = "tenant"
      BY <2>1, <3>2 DEF IInv, Seeded, Idle
    <3> QED
      BY <2>1, <3>1, <3>2
  <2>7. Locks'
    BY <2>1 DEF IInv, Locks
  <2>8. Chained'
    BY <2>1, ChainedKept
  <2> QED
    BY <2>2, <2>3, <2>4, <2>5, <2>6, <2>7, <2>8 DEF IInv
<1> QED
  BY <1>1, <1>2, <1>3 DEF Seed

\* The verify job only keeps its own result.
LEMMA JobStep ==
  ASSUME IInv, VerifyJob
  PROVE  IInv'
<1>1. /\ seedpc' = seedpc /\ operators' = operators
      /\ tenants' = tenants /\ head' = head /\ events' = events /\ revoked' = revoked
      /\ tokens' = tokens /\ txn' = txn /\ answer' = answer /\ altered' = altered
  BY DEF VerifyJob, job_start, job_check, database
<1>2. job' \in [scope : SUBSET Tenants, left : SUBSET Tenants, ok : BOOLEAN, done : BOOLEAN, after : BOOLEAN]
  <2>1. CASE job_start
    BY <2>1 DEF job_start, IInv, ChainConsistent, TypeOK
  <2>2. ASSUME NEW t \in Tenants, job_check(t)
        PROVE  job' \in [scope : SUBSET Tenants, left : SUBSET Tenants, ok : BOOLEAN, done : BOOLEAN, after : BOOLEAN]
    <3>1. PICK j \in [scope : SUBSET Tenants, left : SUBSET Tenants, ok : BOOLEAN, done : BOOLEAN, after : BOOLEAN] : j = job
      BY DEF IInv, Shapes
    <3>2. PICK b \in BOOLEAN : b = (job.ok /\ VerifyTenant(t))
      OBVIOUS
    <3>3. PICK d \in BOOLEAN : d = (job.left = {t})
      OBVIOUS
    <3>4. job' = [j EXCEPT !.left = j.left \ {t}, !.ok = b, !.done = d]
      BY <2>2, <3>1, <3>2, <3>3 DEF job_check
    <3> QED
      BY <3>1, <3>4
  <2> QED
    BY <2>1, <2>2 DEF VerifyJob
<1>3. Shapes'
  BY <1>1, <1>2 DEF IInv, Shapes
<1>4. ChainConsistent'
  BY <1>1, <1>2 DEF IInv, ChainConsistent, TypeOK, ChainLinear, RowsOf
<1>5. RevokedIffRecorded' /\ AnsweredIsCommitted' /\ Seeded' /\ Locks'
  BY <1>1 DEF IInv, RevokedIffRecorded, AnsweredIsCommitted, Seeded, Idle, Locks
<1>6. Chained'
  BY <1>1, ChainedKept
<1> QED
  BY <1>3, <1>4, <1>5, <1>6 DEF IInv

\* An edit of a stored row leaves a row; from then on nothing is claimed of
\* the chains.
LEMMA AlterStep ==
  ASSUME IInv, NEW r \in events, Alter(r)
  PROVE  IInv'
<1>1. /\ seedpc' = seedpc /\ operators' = operators /\ tenants' = tenants /\ head' = head
      /\ revoked' = revoked /\ tokens' = tokens /\ txn' = txn /\ answer' = answer /\ job' = job
      /\ altered' = TRUE
  BY DEF Alter
<1>2. r \in Rows /\ events \subseteq Rows /\ tenants \subseteq TenantIds
  BY DEF IInv, ChainConsistent, TypeOK, TenantIds
<1>3. PICK v \in {[r EXCEPT !.body = "edited"], [r EXCEPT !.extra = TRUE]}
             \cup {[r EXCEPT !.tenant = t] : t \in tenants}
             \cup {[r EXCEPT !.prev = h] : h \in {ZeroHash} \cup {e.hash : e \in events}}
             \cup {[r EXCEPT !.hash = h] : h \in {ZeroHash} \cup {e.hash : e \in events}}
             \cup {[r EXCEPT !.id = i] : i \in (1 .. MaxEvents) \ UsedIds} :
         events' = (events \ {r}) \cup {v}
  BY DEF Alter
<1>4. {ZeroHash} \cup {e.hash : e \in events} \subseteq Hashes
  BY <1>2, BaseHashes DEF Rows
<1>5. v \in Rows
  <2>1. CASE v \in {[r EXCEPT !.body = "edited"], [r EXCEPT !.extra = TRUE]}
    BY <1>2, <2>1 DEF Rows, Bodies
  <2>2. CASE v \in {[r EXCEPT !.tenant = t] : t \in tenants}
    BY <1>2, <2>2 DEF Rows
  <2>3. CASE v \in {[r EXCEPT !.prev = h] : h \in {ZeroHash} \cup {e.hash : e \in events}}
    BY <1>2, <1>4, <2>3 DEF Rows
  <2>4. CASE v \in {[r EXCEPT !.hash = h] : h \in {ZeroHash} \cup {e.hash : e \in events}}
    BY <1>2, <1>4, <2>4 DEF Rows
  <2>5. CASE v \in {[r EXCEPT !.id = i] : i \in (1 .. MaxEvents) \ UsedIds}
    BY <1>2, <2>5 DEF Rows
  <2> QED
    BY <1>3, <2>1, <2>2, <2>3, <2>4, <2>5
<1>6. events' \subseteq Rows
  BY <1>2, <1>3, <1>5
<1>7. Shapes'
  BY <1>1 DEF IInv, Shapes
<1>8. ChainConsistent'
  BY <1>1, <1>6 DEF IInv, ChainConsistent, TypeOK, ChainLinear
<1>9. RevokedIffRecorded' /\ AnsweredIsCommitted' /\ Seeded' /\ Locks'
  BY <1>1 DEF IInv, RevokedIffRecorded, AnsweredIsCommitted, Seeded, Idle, Locks
<1>10. Chained'
  BY <1>1, ChainedKept
<1> QED
  BY <1>7, <1>8, <1>9, <1>10 DEF IInv

\* The invariant holds before the seed job runs.
LEMMA InitIInv == Init => IInv
<1> SUFFICES ASSUME Init PROVE IInv
  OBVIOUS
<1>1. \A x \in Requests : txn[x] = NoTxn
  BY DEF Init
<1>2. Shapes
  <2>1. txn \in [Requests -> Txns]
    BY NoTxnSound DEF Init
  <2>2. NoAnswer \in Answers
    BY DEF NoAnswer, Answers, Subjects, TenantIds
  <2> QED
    BY <2>1, <2>2 DEF Init, Shapes
<1>3. TypeOK
  <2>1. \A x \in Requests : txn[x] \in Txns
    BY <1>2 DEF Shapes
  <2>2. tokens \in [Services -> 0 .. Rps]
    BY ConstantsOK DEF Init
  <2>3. head \in [TenantIds -> Hashes]
    BY BaseHashes DEF Init
  <2> QED
    BY <2>1, <2>2, <2>3 DEF Init, TypeOK, Txns
<1>4. ChainLinear
  <2>1. SUFFICES ASSUME NEW t \in TenantIds
                 PROVE  RowsOf(t) = {Link(head[t], i) : i \in DOMAIN head[t].over}
    BY DEF ChainLinear
  <2>2. head[t].over = <<>> /\ RowsOf(t) = {}
    BY BaseHashes DEF Init, RowsOf
  <2> QED
    BY <2>2, NoLinks
<1>5. RevokedIffRecorded
  BY DEF Init, RevokedIffRecorded
<1>6. AnsweredIsCommitted
  BY DEF Init, AnsweredIsCommitted, NoAnswer
<1>7. Seeded
  BY <1>1, NoTxnFields DEF Init, Seeded, Idle
<1>8. Locks
  BY <1>1, NoTxnFields DEF Locks
<1>9. Chained
  BY <1>1, NoTxnSound DEF Chained, Sound
<1> QED
  BY <1>2, <1>3, <1>4, <1>5, <1>6, <1>7, <1>8, <1>9 DEF IInv, ChainConsistent

\* Every step keeps the invariant.
LEMMA NextIInv == IInv /\ [Next]_vars => IInv'
<1> SUFFICES ASSUME IInv, [Next]_vars PROVE IInv'
  OBVIOUS
<1>1. CASE \E x \in Requests : Handler(x)
  BY <1>1, HandlerStep
<1>2. ASSUME NEW x \in Requests, Statement(x) PROVE IInv'
  BY <1>2, LockStep, ReadStep, WriteStep, KeyStep, InsertStep, CommitStep DEF Statement
<1>3. ASSUME NEW x \in Requests, Abort(x) \/ DeadlockAbort(x) PROVE IInv'
  <2>1. Rollback(x, 500) /\ UNCHANGED <<seedpc, operators, database, tokens, job, altered>>
    BY <1>3 DEF Abort, DeadlockAbort
  <2> QED
    BY <1>3, <2>1, RollbackStep
<1>4. CASE Seed \/ SeedAgain
  BY <1>4, SeedStep
<1>5. CASE VerifyJob
  BY <1>5, JobStep
<1>6. CASE \E r \in events : Alter(r)
  BY <1>6, AlterStep
<1>7. CASE UNCHANGED vars
  <2>1. /\ seedpc' = seedpc /\ operators' = operators /\ tenants' = tenants /\ head' = head
        /\ events' = events /\ revoked' = revoked /\ tokens' = tokens /\ txn' = txn
        /\ answer' = answer /\ job' = job /\ altered' = altered
    BY <1>7 DEF vars
  <2>2. ChainConsistent' /\ Shapes'
    BY <2>1 DEF IInv, ChainConsistent, TypeOK, ChainLinear, RowsOf, Shapes
  <2>3. RevokedIffRecorded' /\ AnsweredIsCommitted' /\ Seeded' /\ Locks'
    BY <2>1 DEF IInv, RevokedIffRecorded, AnsweredIsCommitted, Seeded, Idle, Locks
  <2>4. Chained'
    BY <2>1, ChainedKept
  <2> QED
    BY <2>2, <2>3, <2>4 DEF IInv
<1> QED
  BY <1>1, <1>2, <1>3, <1>4, <1>5, <1>6, <1>7 DEF Next

\* The inductive invariant holds in every reachable state.
LEMMA Inductive == Spec => []IInv
  BY InitIInv, NextIInv, PTL DEF Spec

\* Every chain is one line from its seed to its head: whatever requests run
\* side by side, are rolled back or meet a repeated seed job, audit_emit's lock
\* and the single commit of the row and the head leave no fork and no gap.
THEOREM ChainsStayLinear == Spec => []ChainConsistent
<1>1. IInv => ChainConsistent
  BY DEF IInv
<1> QED
  BY <1>1, Inductive, PTL

\* revoke_api_key's row and its event are committed or rolled back together,
\* for any number of keys and concurrent requests.
THEOREM RevocationsRecorded == Spec => []RevokedIffRecorded
<1>1. IInv => RevokedIffRecorded
  BY DEF IInv
<1> QED
  BY <1>1, Inductive, PTL

\* Who was answered 200 or 201 finds the revocation, or the tenant and its
\* chain, in the database: db/deps.py answers after the commit.
THEOREM AnswersAreCommitted == Spec => []AnsweredIsCommitted
<1>1. IInv => AnsweredIsCommitted
  BY DEF IInv
<1> QED
  BY <1>1, Inductive, PTL

-----------------------------------------------------------------------------
(* Least elements and climbing: the induction the verifier's walk needs.    *)

\* Every set of natural numbers that is not empty has a least element.
LEMMA LeastNatural ==
  ASSUME NEW S \in SUBSET Nat, S # {}
  PROVE  \E m \in S : \A k \in S : m <= k
<1>1. PICK n \in S : TRUE
  OBVIOUS
<1> DEFINE F == {0 .. k : k \in {j \in S : j <= n}}
<1>2. IsFiniteSet(0 .. n)
  BY FS_Interval
<1>3. F \subseteq FiniteSubsetsOf(0 .. n)
  <2>1. ASSUME NEW k \in {j \in S : j <= n} PROVE 0 .. k \in SUBSET (0 .. n)
    OBVIOUS
  <2>2. F \subseteq SUBSET (0 .. n)
    BY <2>1
  <2> HIDE DEF F
  <2> QED
    BY <1>2, <2>2, FS_FiniteSubsetsOfFinite
<1>4. F # {}
  <2>1. 0 .. n \in F
    OBVIOUS
  <2> QED
    BY <2>1
<1>5. PICK M \in F : \A U \in F : <<U, M>> \notin StrictSubsetOrdering(0 .. n)
  <2> HIDE DEF F
  <2> QED
    BY <1>3, <1>4, FS_StrictSubsetOrderingWellFounded, WFMin
<1>6. PICK m \in S : m <= n /\ M = 0 .. m
  OBVIOUS
<1>7. ASSUME NEW k \in S, k < m PROVE FALSE
  <2>1. 0 .. k \in F
    BY <1>6, <1>7
  <2>2. 0 .. k \subseteq 0 .. m /\ m \in 0 .. m /\ m \notin 0 .. k
    BY <1>7
  <2>3. <<0 .. k, 0 .. m>> \in StrictSubsetOrdering(0 .. n)
    <3>1. 0 .. k \in SUBSET (0 .. n) /\ 0 .. m \in SUBSET (0 .. n)
      BY <1>6, <1>7
    <3> QED
      BY <2>2, <3>1 DEF StrictSubsetOrdering
  <2> QED
    BY <1>5, <1>6, <2>1, <2>3
<1> QED
  BY <1>7

\* Induction, over a set of natural numbers.
LEMMA Climb ==
  ASSUME NEW S \in SUBSET Nat, 0 \in S, \A n \in S : n + 1 \in S
  PROVE  S = Nat
<1> SUFFICES ASSUME Nat \ S # {} PROVE FALSE
  OBVIOUS
<1>1. PICK m \in Nat \ S : \A k \in Nat \ S : m <= k
  BY LeastNatural
<1>2. m - 1 \in Nat /\ m - 1 < m /\ (m - 1) + 1 = m
  BY <1>1
<1>3. m - 1 \in S
  BY <1>1, <1>2
<1> QED
  BY <1>1, <1>2, <1>3

-----------------------------------------------------------------------------
(* The walk of verify_events.                                              *)

Begin(rows) == [cur |-> genesis_hash(rows[1].tenant), seen |-> {}, bad |-> FALSE]

\* w is the walk over rows, as far as step n.
IsWalk(rows, n, w) ==
  w = [i \in 0 .. n |-> IF i = 0 THEN Begin(rows) ELSE WalkStep(rows, w[i - 1])]

\* The walk exists: Walk is well defined.
LEMMA WalkExists ==
  ASSUME NEW rows, NEW n \in Nat
  PROVE  \E w : IsWalk(rows, n, w)
<1> DEFINE S == {m \in Nat : \E w : IsWalk(rows, m, w)}
<1>1. 0 \in S
  <2>1. IsWalk(rows, 0, [i \in 0 .. 0 |-> Begin(rows)])
    BY DEF IsWalk
  <2> QED
    BY <2>1
<1>2. ASSUME NEW m \in S PROVE m + 1 \in S
  <2>1. PICK w : IsWalk(rows, m, w)
    BY <1>2
  <2> DEFINE v == [i \in 0 .. (m + 1) |-> IF i = m + 1 THEN WalkStep(rows, w[m]) ELSE w[i]]
  <2>2. m \in Nat /\ DOMAIN w = 0 .. m
    BY <2>1 DEF IsWalk
  <2>3. \A i \in 0 .. m : w[i] = IF i = 0 THEN Begin(rows) ELSE WalkStep(rows, w[i - 1])
    BY <2>1 DEF IsWalk
  <2>4. ASSUME NEW i \in 0 .. (m + 1)
        PROVE  v[i] = IF i = 0 THEN Begin(rows) ELSE WalkStep(rows, v[i - 1])
    <3>1. CASE i = 0
      BY <2>2, <2>3, <3>1
    <3>2. CASE i # 0 /\ i # m + 1
      <4>1. i \in 0 .. m /\ i - 1 \in 0 .. m /\ i - 1 \in 0 .. (m + 1) /\ i - 1 # m + 1
        BY <2>2, <3>2
      <4>2. v[i - 1] = w[i - 1] /\ v[i] = w[i]
        BY <3>2, <4>1
      <4> QED
        BY <2>3, <3>2, <4>1, <4>2
    <3>3. CASE i = m + 1
      <4>1. i # 0 /\ i - 1 = m /\ m \in 0 .. (m + 1) /\ m # m + 1
        BY <2>2, <3>3
      <4>2. v[m] = w[m] /\ v[i] = WalkStep(rows, w[m])
        BY <3>3, <4>1
      <4> QED
        BY <4>1, <4>2
    <3> QED
      BY <3>1, <3>2, <3>3
  <2>5. v = [i \in 0 .. (m + 1) |-> v[i]]
    OBVIOUS
  <2> HIDE DEF v
  <2>6. IsWalk(rows, m + 1, v)
    BY <2>4, <2>5 DEF IsWalk
  <2> QED
    BY <2>2, <2>6
<1>3. S = Nat
  <2> HIDE DEF S
  <2>1. S \in SUBSET Nat
    BY DEF S
  <2> QED
    BY <1>1, <1>2, <2>1, Climb
<1> QED
  BY <1>3

\* Walk is its last step.
LEMMA WalkEnds ==
  ASSUME NEW rows, Len(rows) \in Nat
  PROVE  \E w : IsWalk(rows, Len(rows), w) /\ Walk(rows) = w[Len(rows)]
<1> DEFINE n == Len(rows)
           w == CHOOSE w : w = [i \in 0 .. n |-> IF i = 0 THEN Begin(rows) ELSE WalkStep(rows, w[i - 1])]
<1>1. IsWalk(rows, n, w)
  BY WalkExists DEF IsWalk
<1>2. Walk(rows) = w[n]
  BY DEF Walk, Begin
<1> QED
  BY <1>1, <1>2

\* Where the walk can be.
Walks(rows) == [cur : Hashes, seen : SUBSET DOMAIN rows, bad : BOOLEAN]

\* A step from p ends the walk, or visits one more row, one that is chained to
\* p's hash and passes its check.
LEMMA StepVisits ==
  ASSUME NEW rows \in Seq(Rows), NEW p \in Walks(rows)
  PROVE  /\ WalkStep(rows, p) \in Walks(rows)
         /\ \/ WalkStep(rows, p) = p
            \/ WalkStep(rows, p) = [p EXCEPT !.bad = TRUE]
            \/ \E i \in DOMAIN rows :
                 /\ ~Rejects(rows[i])
                 /\ WalkStep(rows, p) = [cur |-> rows[i].hash, seen |-> p.seen \cup {i}, bad |-> FALSE]
<1> DEFINE next == {i \in DOMAIN rows : i \notin p.seen /\ rows[i].prev = p.cur}
           c == CHOOSE j \in next : \A k \in next : j <= k
           q == WalkStep(rows, p)
<1>1. CASE p.bad \/ next = {}
  <2>1. q = p
    BY <1>1 DEF WalkStep
  <2> QED
    BY <2>1
<1>2. CASE ~(p.bad \/ next = {})
  <2>1. next \in SUBSET Nat /\ next # {}
    BY <1>2
  <2>2. c \in next
    <3> HIDE DEF next
    <3>1. \E j \in next : \A k \in next : j <= k
      BY <2>1, LeastNatural
    <3> QED
      BY <3>1
  <2>3. q = IF Rejects(rows[c]) THEN [p EXCEPT !.bad = TRUE]
            ELSE [cur |-> rows[c].hash, seen |-> p.seen \cup {c}, bad |-> FALSE]
    BY <1>2 DEF WalkStep
  <2> HIDE DEF c, q
  <2>4. c \in DOMAIN rows /\ rows[c].hash \in Hashes
    <3>1. c \in DOMAIN rows /\ rows[c] \in Rows
      BY <2>2
    <3> QED
      BY <3>1 DEF Rows
  <2>5. q \in Walks(rows)
    BY <2>3, <2>4 DEF Walks
  <2> QED
    BY <2>3, <2>4, <2>5 DEF q
<1> QED
  BY <1>1, <1>2

\* When one row is chained to p's hash, and it passes, the step visits it.
LEMMA StepOnly ==
  ASSUME NEW rows, NEW p, NEW i \in DOMAIN rows, ~p.bad, ~Rejects(rows[i]),
         \A j \in DOMAIN rows : j \notin p.seen /\ rows[j].prev = p.cur <=> j = i,
         i <= i
  PROVE  WalkStep(rows, p) = [cur |-> rows[i].hash, seen |-> p.seen \cup {i}, bad |-> FALSE]
<1> DEFINE next == {j \in DOMAIN rows : j \notin p.seen /\ rows[j].prev = p.cur}
           c == CHOOSE j \in next : \A k \in next : j <= k
<1>1. next = {i}
  OBVIOUS
<1>2. WalkStep(rows, p) = IF p.bad \/ next = {} THEN p
                          ELSE IF Rejects(rows[c]) THEN [p EXCEPT !.bad = TRUE]
                          ELSE [cur |-> rows[c].hash, seen |-> p.seen \cup {c}, bad |-> FALSE]
  BY DEF WalkStep
<1>3. c = i
  <2> HIDE DEF next
  <2> QED
    BY <1>1
<1> HIDE DEF next, c
<1> QED
  BY <1>1, <1>2, <1>3

\* The rows the walk has visited passed their checks.
LEMMA VisitedPass ==
  ASSUME NEW rows \in Seq(Rows), rows # <<>>
  PROVE  Walk(rows) \in Walks(rows) /\ \A i \in Walk(rows).seen : ~Rejects(rows[i])
<1> DEFINE n == Len(rows)
<1>1. n \in Nat /\ n > 0 /\ rows[1] \in Rows
  OBVIOUS
<1>2. PICK w : IsWalk(rows, n, w) /\ Walk(rows) = w[n]
  BY <1>1, WalkEnds
<1> HIDE DEF n
<1> DEFINE S == {m \in Nat : m <= n => w[m] \in Walks(rows) /\ \A i \in w[m].seen : ~Rejects(rows[i])}
<1>3. 0 \in S
  <2>1. w[0] = Begin(rows)
    BY <1>1, <1>2 DEF IsWalk
  <2>2. genesis_hash(rows[1].tenant) \in Hashes
    BY <1>1, BaseHashes DEF Rows
  <2>3. Begin(rows) \in Walks(rows) /\ Begin(rows).seen = {}
    BY <2>2 DEF Begin, Walks
  <2> QED
    BY <2>1, <2>3
<1>4. ASSUME NEW m \in S PROVE m + 1 \in S
  <2> SUFFICES ASSUME m + 1 <= n
               PROVE  w[m + 1] \in Walks(rows) /\ \A i \in w[m + 1].seen : ~Rejects(rows[i])
    OBVIOUS
  <2>1. w[m] \in Walks(rows) /\ \A i \in w[m].seen : ~Rejects(rows[i])
    BY <1>1
  <2>2. w[m + 1] = WalkStep(rows, w[m])
    <3>1. m + 1 \in 0 .. n /\ m + 1 # 0 /\ (m + 1) - 1 = m
      BY <1>1
    <3> QED
      BY <1>2, <3>1 DEF IsWalk
  <2>3. PICK p \in Walks(rows) : p = w[m]
    BY <2>1
  <2>4. PICK q : q = w[m + 1]
    OBVIOUS
  <2>5. /\ q \in Walks(rows)
        /\ \/ q = p
           \/ q = [p EXCEPT !.bad = TRUE]
           \/ \E i \in DOMAIN rows : /\ ~Rejects(rows[i])
                                     /\ q = [cur |-> rows[i].hash, seen |-> p.seen \cup {i}, bad |-> FALSE]
    BY <2>2, <2>3, <2>4, StepVisits
  <2>6. \A i \in q.seen : ~Rejects(rows[i])
    BY <2>1, <2>3, <2>5 DEF Walks
  <2> QED
    BY <2>4, <2>5, <2>6
<1>5. S = Nat
  <2>1. S \in SUBSET Nat
    OBVIOUS
  <2> HIDE DEF S
  <2> QED
    BY <1>3, <1>4, <2>1, Climb
<1> QED
  BY <1>1, <1>2, <1>5

\* The orders of a finite set are its enumerations.
LEMMA OrdersEnumerate ==
  ASSUME NEW S, IsFiniteSet(S), NEW f \in Orders(S)
  PROVE  /\ f \in Seq(S) /\ Len(f) = Cardinality(S) /\ Cardinality(S) \in Nat
         /\ DOMAIN f = 1 .. Cardinality(S)
         /\ \A x \in S : \E i \in DOMAIN f : f[i] = x
         /\ \A i, j \in DOMAIN f : f[i] = f[j] => i = j
<1> DEFINE n == Cardinality(S)
<1>1. n \in Nat
  BY FS_CardinalityType
<1>2. f \in [1 .. n -> S] /\ \A i, j \in 1 .. n : f[i] = f[j] => i = j
  BY DEF Orders
<1>3. IsFiniteSet(1 .. n) /\ Cardinality(1 .. n) = n
  BY <1>1, FS_Interval
<1> HIDE DEF n
<1>4. f \in Injection(1 .. n, S)
  BY <1>2 DEF Injection, IsInjective
<1>5. f \in Surjection(1 .. n, S)
  BY <1>3, <1>4, FS_Injection DEF n
<1>6. f \in Seq(S) /\ Len(f) = n
  BY <1>1, <1>2
<1> QED
  BY <1>1, <1>2, <1>5, <1>6 DEF Surjection, n

\* A row that fails its check makes verify_events fail, in whatever order the
\* rows come.
LEMMA TamperFound ==
  ASSUME NEW S \in SUBSET Rows, IsFiniteSet(S), NEW r \in S, Rejects(r), NEW f \in Orders(S)
  PROVE  ~verify_events(f)
<1>1. /\ f \in Seq(S) /\ \E i \in DOMAIN f : f[i] = r
  BY OrdersEnumerate
<1>2. f \in Seq(Rows) /\ f # <<>>
  BY <1>1
<1>3. PICK i \in DOMAIN f : f[i] = r
  BY <1>1
<1>4. i \notin Walk(f).seen
  BY <1>2, <1>3, VisitedPass
<1> QED
  BY <1>2, <1>4 DEF verify_events

\* The hash of the chain of h after i events.
After(h, i) == [h EXCEPT !.over = SubSeq(@, 1, i)]

\* The links of a chain pass their checks, and each is chained to the one before.
LEMMA LinkPasses ==
  ASSUME NEW h \in Hashes, NEW i \in 1 .. Len(h.over)
  PROVE  /\ Link(h, i) \in Rows /\ ~Rejects(Link(h, i))
         /\ Link(h, i).prev = After(h, i - 1) /\ Link(h, i).hash = After(h, i)
<1> DEFINE s == h.over
           c == s[i]
           r == Link(h, i)
<1>1. s \in Seq(Contents) /\ h.seed \in Seeds /\ h = [seed |-> h.seed, over |-> s]
  BY DEF Hashes
<1>2. Len(s) \in Nat /\ i \in 1 .. Len(s) /\ c \in Contents
  BY <1>1
<1>3. /\ c[1] \in 1 .. MaxEvents /\ c[2] \in TenantIds /\ c[3] \in Bodies
      /\ c = <<c[1], c[2], c[3]>>
  BY <1>2 DEF Contents
<1>4. /\ SubSeq(s, 1, i - 1) \in Seq(Contents) /\ SubSeq(s, 1, i) \in Seq(Contents)
      /\ Len(SubSeq(s, 1, i - 1)) = i - 1 /\ Len(SubSeq(s, 1, i)) = i
      /\ \A k \in 1 .. (i - 1) : SubSeq(s, 1, i - 1)[k] = s[k]
      /\ \A k \in 1 .. i : SubSeq(s, 1, i)[k] = s[k]
  BY <1>1, <1>2
<1>5. SubSeq(s, 1, i) = Append(SubSeq(s, 1, i - 1), c)
  BY <1>1, <1>2, <1>4
<1>6. /\ After(h, i - 1) = [seed |-> h.seed, over |-> SubSeq(s, 1, i - 1)]
      /\ After(h, i) = [seed |-> h.seed, over |-> SubSeq(s, 1, i)]
  <2>1. \A x : [h EXCEPT !.over = x] = [seed |-> h.seed, over |-> x]
    BY DEF Hashes
  <2>2. \A k : After(h, k) = [h EXCEPT !.over = SubSeq(h.over, 1, k)]
    BY DEF After
  <2> QED
    BY <2>1, <2>2
<1>7. After(h, i - 1) \in Hashes /\ After(h, i) \in Hashes
  BY <1>1, <1>4, <1>6 DEF Hashes
<1>8. r = [id |-> c[1], tenant |-> c[2], body |-> c[3], prev |-> After(h, i - 1),
           hash |-> After(h, i), extra |-> FALSE]
  BY DEF Link, After
<1> HIDE DEF s, c
<1>9. event_hash(r) = chain_hash(c, After(h, i - 1))
  BY <1>3, <1>8 DEF event_hash
<1>10. chain_hash(c, After(h, i - 1)) = After(h, i)
  <2>1. /\ chain_hash(c, After(h, i - 1)) \in Hashes
        /\ chain_hash(c, After(h, i - 1)).seed = After(h, i - 1).seed
        /\ chain_hash(c, After(h, i - 1)).over = Append(After(h, i - 1).over, c)
    BY <1>2, <1>7, Hashed
  <2>2. /\ After(h, i - 1).seed = h.seed /\ After(h, i - 1).over = SubSeq(s, 1, i - 1)
        /\ After(h, i).seed = h.seed /\ After(h, i).over = SubSeq(s, 1, i)
    BY <1>6
  <2>3. \A x, y \in Hashes : x.seed = y.seed /\ x.over = y.over => x = y
    BY DEF Hashes
  <2> QED
    BY <1>5, <1>7, <2>1, <2>2, <2>3
<1>11. r \in Rows
  BY <1>3, <1>7, <1>8 DEF Rows
<1> QED
  BY <1>8, <1>9, <1>10, <1>11 DEF Rejects

\* The hashes along a chain differ.
LEMMA AfterDiffers ==
  ASSUME NEW h \in Hashes, NEW i \in 0 .. Len(h.over), NEW j \in 0 .. Len(h.over),
         After(h, i) = After(h, j)
  PROVE  i = j
<1>1. h.over \in Seq(Contents) /\ Len(h.over) \in Nat
  BY DEF Hashes
<1>2. After(h, i).over = SubSeq(h.over, 1, i) /\ After(h, j).over = SubSeq(h.over, 1, j)
  BY DEF After, Hashes
<1>3. Len(SubSeq(h.over, 1, i)) = i /\ Len(SubSeq(h.over, 1, j)) = j
  BY <1>1
<1> QED
  BY <1>2, <1>3

\* The links of a chain are as many as the events hashed into it.
LEMMA LinksCounted ==
  ASSUME NEW h \in Hashes
  PROVE  LET S == {Link(h, i) : i \in DOMAIN h.over}
         IN  /\ DOMAIN h.over = 1 .. Len(h.over) /\ Len(h.over) \in Nat
             /\ S \subseteq Rows /\ IsFiniteSet(S) /\ Cardinality(S) = Len(h.over)
<1> DEFINE n == Len(h.over)
           S == {Link(h, i) : i \in DOMAIN h.over}
           g == [i \in 1 .. n |-> Link(h, i)]
<1>1. DOMAIN h.over = 1 .. n /\ n \in Nat
  BY DEF Hashes
<1>2. S \subseteq Rows
  BY <1>1, LinkPasses
<1>3. ASSUME NEW i \in 1 .. n, NEW j \in 1 .. n, Link(h, i) = Link(h, j) PROVE i = j
  <2>1. After(h, i) = After(h, j)
    BY <1>3, LinkPasses
  <2>2. i \in 0 .. n /\ j \in 0 .. n
    BY <1>1
  <2> QED
    BY <2>1, <2>2, AfterDiffers
<1>4. g \in Bijection(1 .. n, S)
  <2>1. g \in [1 .. n -> S] /\ \A r \in S : \E i \in 1 .. n : g[i] = r
    BY <1>1
  <2>2. \A i, j \in 1 .. n : g[i] = g[j] => i = j
    BY <1>3
  <2> HIDE DEF g, S
  <2> QED
    BY <2>1, <2>2 DEF Bijection, Injection, Surjection, IsInjective
<1>5. IsFiniteSet(1 .. n) /\ Cardinality(1 .. n) = n
  BY <1>1, FS_Interval
<1> HIDE DEF n, S, g
<1>6. IsFiniteSet(S) /\ Cardinality(S) = n
  BY <1>4, <1>5, FS_Bijection DEF ExistsBijection
<1> QED
  BY <1>1, <1>2, <1>6 DEF n, S

\* verify_events follows the chain of a tenant that was begun at its genesis hash
\* to the end, in whatever order the rows come.
LEMMA ChainFollowed ==
  ASSUME NEW t \in TenantIds, NEW h \in Hashes, h.seed = genesis_hash(t).seed,
         NEW S, S = {Link(h, i) : i \in DOMAIN h.over}, \A r \in S : r.tenant = t,
         NEW f \in Orders(S)
  PROVE  verify_events(f)
<1> DEFINE n == Len(h.over)
<1>1. /\ DOMAIN h.over = 1 .. n /\ n \in Nat
      /\ S \subseteq Rows /\ IsFiniteSet(S) /\ Cardinality(S) = n
  BY LinksCounted
<1>2. /\ f \in Seq(S) /\ Len(f) = n /\ DOMAIN f = 1 .. n
      /\ \A x \in S : \E i \in 1 .. n : f[i] = x
      /\ \A i, j \in 1 .. n : f[i] = f[j] => i = j
  <2>1. /\ f \in Seq(S) /\ Len(f) = Cardinality(S) /\ DOMAIN f = 1 .. Cardinality(S)
        /\ \A x \in S : \E i \in DOMAIN f : f[i] = x
        /\ \A i, j \in DOMAIN f : f[i] = f[j] => i = j
    BY <1>1, OrdersEnumerate
  <2> QED
    BY <1>1, <2>1
<1>3. CASE n = 0
  BY <1>2, <1>3 DEF verify_events
<1>4. CASE n # 0
  <2>1. f \in Seq(Rows) /\ f[1] \in S /\ f # <<>>
    BY <1>1, <1>2, <1>4
  <2>2. Begin(f) = [cur |-> After(h, 0), seen |-> {}, bad |-> FALSE]
    <3>1. f[1].tenant = t
      BY <2>1
    <3>2. After(h, 0) = [seed |-> h.seed, over |-> <<>>]
      BY <1>1 DEF After, Hashes
    <3> QED
      BY <3>1, <3>2 DEF Begin, genesis_hash
  <2>3. PICK w : IsWalk(f, n, w) /\ Walk(f) = w[n]
    BY <1>1, <1>2, WalkEnds
  <2> DEFINE To(m) == {i \in 1 .. n : \E k \in 1 .. m : f[i] = Link(h, k)}
             N == {m \in Nat : m <= n => w[m] = [cur |-> After(h, m), seen |-> To(m), bad |-> FALSE]}
  <2>4. 0 \in N
    <3>1. w[0] = Begin(f)
      BY <1>1, <2>3 DEF IsWalk
    <3>2. To(0) = {}
      OBVIOUS
    <3> HIDE DEF To
    <3> QED
      BY <2>2, <3>1, <3>2
  <2>5. ASSUME NEW m \in N PROVE m + 1 \in N
    <3> SUFFICES ASSUME m + 1 <= n
                 PROVE  w[m + 1] = [cur |-> After(h, m + 1), seen |-> To(m + 1), bad |-> FALSE]
      OBVIOUS
    <3>1. m \in Nat /\ m + 1 \in 1 .. n /\ m \in 0 .. n /\ (m + 1) - 1 = m
      BY <1>1
    <3>2. w[m] = [cur |-> After(h, m), seen |-> To(m), bad |-> FALSE]
      BY <1>1, <3>1
    <3>3. w[m + 1] = WalkStep(f, w[m])
      <4>1. m + 1 \in 0 .. n /\ m + 1 # 0
        BY <3>1
      <4> QED
        BY <2>3, <3>1, <4>1 DEF IsWalk
    <3>4. Link(h, m + 1) \in S
      BY <1>1, <3>1
    <3>5. PICK i \in 1 .. n : f[i] = Link(h, m + 1)
      BY <1>2, <3>4
    <3>6. /\ ~Rejects(f[i]) /\ f[i].prev = After(h, m) /\ f[i].hash = After(h, m + 1)
      BY <3>1, <3>5, LinkPasses
    <3>7. ASSUME NEW j \in 1 .. n
          PROVE  (j \notin To(m) /\ f[j].prev = After(h, m)) <=> j = i
      <4>1. PICK k \in 1 .. n : f[j] = Link(h, k)
        BY <1>1, <1>2
      <4>2. f[j].prev = After(h, k - 1) /\ k - 1 \in 0 .. n
        BY <1>1, <4>1, LinkPasses
      <4>3. f[j].prev = After(h, m) <=> k = m + 1
        BY <1>1, <3>1, <4>2, AfterDiffers
      <4>4. i \notin To(m)
        <5> SUFFICES ASSUME NEW l \in 1 .. m, f[i] = Link(h, l) PROVE FALSE
          OBVIOUS
        <5>1. l \in 1 .. n /\ l - 1 \in 0 .. n
          BY <1>1, <3>1
        <5>2. f[i].prev = After(h, l - 1)
          BY <5>1, LinkPasses
        <5>3. m = l - 1
          BY <3>1, <3>6, <5>1, <5>2, AfterDiffers
        <5> QED
          BY <3>1, <5>3
      <4> HIDE DEF To
      <4> QED
        BY <1>2, <3>5, <3>6, <4>1, <4>3, <4>4
    <3>8. WalkStep(f, w[m]) = [cur |-> After(h, m + 1), seen |-> To(m) \cup {i}, bad |-> FALSE]
      <4> HIDE DEF To
      <4>0. PICK p : p = w[m]
        OBVIOUS
      <4>1. i \in DOMAIN f /\ i <= i /\ ~p.bad /\ p.seen = To(m) /\ p.cur = After(h, m)
        BY <1>2, <3>2, <4>0
      <4>2. \A j \in DOMAIN f : j \notin p.seen /\ f[j].prev = p.cur <=> j = i
        BY <1>2, <3>7, <4>1
      <4>3. ~Rejects(f[i])
        BY <3>6
      <4>4. WalkStep(f, p) = [cur |-> f[i].hash, seen |-> p.seen \cup {i}, bad |-> FALSE]
        BY <4>1, <4>2, <4>3, StepOnly
      <4> QED
        BY <3>6, <4>0, <4>1, <4>4
    <3>9. To(m + 1) = To(m) \cup {i}
      <4>1. 1 .. (m + 1) = (1 .. m) \cup {m + 1}
        BY <3>1
      <4> QED
        BY <1>2, <3>5, <4>1
    <3> HIDE DEF To
    <3> QED
      BY <3>3, <3>8, <3>9
  <2>6. N = Nat
    <3>1. N \in SUBSET Nat
      OBVIOUS
    <3> HIDE DEF N
    <3> QED
      BY <2>4, <2>5, <3>1, Climb
  <2>7. Walk(f) = [cur |-> After(h, n), seen |-> To(n), bad |-> FALSE]
    <3>1. n \in N
      BY <1>1, <2>6
    <3>2. n <= n
      BY <1>1
    <3>3. w[n] = [cur |-> After(h, n), seen |-> To(n), bad |-> FALSE]
      BY <3>1, <3>2
    <3> QED
      BY <2>3, <3>3
  <2>8. To(n) = 1 .. n
    BY <1>1, <1>2
  <2> QED
    BY <1>2, <2>7, <2>8 DEF verify_events
<1> QED
  BY <1>3, <1>4

\* A finite set of rows that is not empty has one with the greatest id.
LEMMA LastRow ==
  ASSUME NEW S \in SUBSET Rows, S # {}
  PROVE  \E r \in S : \A e \in S : e.id <= r.id
<1> DEFINE T == {MaxEvents - r.id : r \in S}
<1>1. \A r \in S : r.id \in 1 .. MaxEvents
  BY DEF Rows
<1>2. T \in SUBSET Nat /\ T # {}
  BY <1>1, ConstantsOK
<1>3. PICK m \in T : \A k \in T : m <= k
  <2> HIDE DEF T
  <2> QED
    BY <1>2, LeastNatural
<1>4. PICK r \in S : m = MaxEvents - r.id
  OBVIOUS
<1>5. ASSUME NEW e \in S PROVE e.id <= r.id
  <2>1. MaxEvents - r.id <= MaxEvents - e.id
    BY <1>3, <1>4
  <2> QED
    BY <1>1, <2>1, ConstantsOK
<1> QED
  BY <1>5

\* A finite set of rows has an order by id: ORDER BY returns one.
Sorted(f) == \A i, j \in DOMAIN f : i < j => f[i].id <= f[j].id

LEMMA SortedOrder ==
  ASSUME NEW S \in SUBSET Rows, IsFiniteSet(S)
  PROVE  InOrder(S) \in Orders(S)
<1> DEFINE Good(U) == \E f \in Orders(U) : Sorted(f)
           N == {n \in Nat : \A U \in SUBSET Rows : IsFiniteSet(U) /\ Cardinality(U) = n => Good(U)}
<1>1. 0 \in N
  <2> SUFFICES ASSUME NEW U \in SUBSET Rows, IsFiniteSet(U), Cardinality(U) = 0
               PROVE  Good(U)
    OBVIOUS
  <2>1. U = {}
    BY FS_EmptySet
  <2>2. <<>> \in Orders({}) /\ Sorted(<<>>)
    BY FS_EmptySet DEF Orders, Sorted
  <2> QED
    BY <2>1, <2>2
<1>2. ASSUME NEW n \in N PROVE n + 1 \in N
  <2> SUFFICES ASSUME NEW U \in SUBSET Rows, IsFiniteSet(U), Cardinality(U) = n + 1
               PROVE  Good(U)
    OBVIOUS
  <2>1. n \in Nat /\ U # {}
    BY FS_EmptySet
  <2>2. PICK r \in U : \A e \in U : e.id <= r.id
    BY <2>1, LastRow
  <2>3. IsFiniteSet(U \ {r}) /\ Cardinality(U \ {r}) = n
    BY <2>1, FS_RemoveElement
  <2>4. PICK g \in Orders(U \ {r}) : Sorted(g)
    BY <2>3
  <2>5. /\ g \in [1 .. n -> U \ {r}]
        /\ \A i, j \in 1 .. n : g[i] = g[j] => i = j
        /\ \A i, j \in 1 .. n : i < j => g[i].id <= g[j].id
    BY <2>3, <2>4 DEF Orders, Sorted
  <2> DEFINE f == [i \in 1 .. (n + 1) |-> IF i = n + 1 THEN r ELSE g[i]]
  <2>6. \A i \in 1 .. (n + 1) : i # n + 1 => i \in 1 .. n
    BY <2>1
  <2>7. f \in [1 .. (n + 1) -> U]
    BY <2>5, <2>6
  <2>8. ASSUME NEW i \in 1 .. (n + 1), NEW j \in 1 .. (n + 1), f[i] = f[j] PROVE i = j
    <3>1. CASE i = n + 1 \/ j = n + 1
      BY <2>5, <2>6, <2>8, <3>1
    <3>2. CASE i # n + 1 /\ j # n + 1
      <4>1. i \in 1 .. n /\ j \in 1 .. n /\ g[i] = g[j]
        BY <2>6, <2>8, <3>2
      <4> QED
        BY <2>5, <4>1
    <3> QED
      BY <3>1, <3>2
  <2>9. ASSUME NEW i \in 1 .. (n + 1), NEW j \in 1 .. (n + 1), i < j PROVE f[i].id <= f[j].id
    <3>1. i # n + 1 /\ i \in 1 .. n /\ f[i] = g[i] /\ f[i] \in U
      BY <2>1, <2>5, <2>6, <2>9
    <3>2. CASE j = n + 1
      BY <2>2, <3>1, <3>2
    <3>3. CASE j # n + 1
      <4>1. j \in 1 .. n /\ f[j] = g[j]
        BY <2>6, <3>3
      <4> QED
        BY <2>5, <2>9, <3>1, <4>1
    <3> QED
      BY <3>2, <3>3
  <2> HIDE DEF f
  <2>10. f \in Orders(U) /\ Sorted(f)
    BY <2>7, <2>8, <2>9 DEF Orders, Sorted
  <2> QED
    BY <2>10
<1>3. N = Nat
  <2>1. N \in SUBSET Nat
    OBVIOUS
  <2> HIDE DEF N
  <2> QED
    BY <1>1, <1>2, <2>1, Climb
<1>4. Good(S)
  <2>1. Cardinality(S) \in N
    BY <1>3, FS_CardinalityType
  <2> QED
    BY <2>1
<1> QED
  BY <1>4 DEF InOrder, Sorted

-----------------------------------------------------------------------------
(* What the verifier finds.                                                *)

\* A changed row stays in a chain the verifier reads and fails its check there,
\* the chain of the seeded tenant starts at its genesis hash, every other one
\* at the hash of the wire id and has an event, and a job that began after the
\* change has failed or has the changed row before it.
Stored ==
  /\ IsFiniteSet(events)
  /\ \A r \in events : r.tenant \in tenants
  /\ altered => \E r \in events : Rejects(r)
  /\ head[Default] # NoRow => head[Default].seed = genesis_hash(Default).seed
  /\ \A t \in tenants \ {Default} : head[t].seed = wire_genesis(t).seed /\ head[t].over # <<>>
  /\ job.left \subseteq job.scope /\ job.scope \subseteq tenants
  /\ job.done => job.left = {}
  /\ job.after => altered
  /\ job.after /\ job.ok => \E r \in events : Rejects(r) /\ r.tenant \in job.left

\* What VerifierIsExact and JobTellsTheTruth carry over every step.
Audited == IInv /\ Stored

\* No other event has the hash of an event, chained to the same row or not.
LEMMA HashTells ==
  ASSUME NEW r \in Rows, NEW v \in Rows, event_hash(r) = event_hash(v)
  PROVE  r.id = v.id /\ r.tenant = v.tenant /\ r.body = v.body /\ r.prev = v.prev
<1>1. PICK a \in Hashes, b \in Hashes : a = r.prev /\ b = v.prev
  BY DEF Rows
<1>2. PICK c \in Contents, d \in Contents :
        c = <<r.id, r.tenant, r.body>> /\ d = <<v.id, v.tenant, v.body>>
  BY DEF Rows, Contents
<1>3. /\ chain_hash(c, a).seed = a.seed /\ chain_hash(c, a).over = Append(a.over, c)
      /\ chain_hash(d, b).seed = b.seed /\ chain_hash(d, b).over = Append(b.over, d)
  BY Hashed
<1>4. chain_hash(c, a) = chain_hash(d, b)
  BY <1>1, <1>2 DEF event_hash
<1>5. a.over \in Seq(Contents) /\ b.over \in Seq(Contents)
  BY DEF Hashes
<1>6. a.over = b.over /\ c = d
  <2>1. PICK s \in Seq(Contents), u \in Seq(Contents) : s = a.over /\ u = b.over
    BY <1>5
  <2>2. Append(s, c) = Append(u, d)
    BY <1>3, <1>4, <2>1
  <2>3. /\ Len(s) \in Nat /\ Len(u) \in Nat
        /\ Len(Append(s, c)) = Len(s) + 1 /\ Len(Append(u, d)) = Len(u) + 1
    OBVIOUS
  <2>4. Len(s) = Len(u)
    BY <2>2, <2>3
  <2>5. /\ \A i \in 1 .. Len(s) : Append(s, c)[i] = s[i] /\ Append(u, d)[i] = u[i]
        /\ Append(s, c)[Len(s) + 1] = c /\ Append(u, d)[Len(s) + 1] = d
    BY <2>4
  <2> QED
    BY <2>1, <2>2, <2>4, <2>5
<1>7. a = b
  <2>1. \A x, y \in Hashes : x.seed = y.seed /\ x.over = y.over => x = y
    BY DEF Hashes
  <2> QED
    BY <1>3, <1>4, <1>6, <2>1
<1> QED
  BY <1>1, <1>2, <1>6, <1>7

\* One changed column of a row that passes its check makes the row fail it.
LEMMA ChangeShows ==
  ASSUME NEW r \in Rows, ~Rejects(r), NEW v \in Rows, v # r,
         \/ v = [r EXCEPT !.extra = TRUE]
         \/ v.hash = r.hash /\ v.extra = r.extra
         \/ \E h : v = [r EXCEPT !.hash = h]
  PROVE  Rejects(v)
<1>1. event_hash(r) = r.hash /\ ~r.extra
  BY DEF Rejects
<1>2. CASE v = [r EXCEPT !.extra = TRUE]
  BY <1>2 DEF Rejects, Rows
<1>3. CASE v.hash = r.hash /\ v.extra = r.extra
  <2>1. ~(r.id = v.id /\ r.tenant = v.tenant /\ r.body = v.body /\ r.prev = v.prev)
    BY <1>3 DEF Rows
  <2> QED
    BY <1>1, <1>3, <2>1, HashTells DEF Rejects
<1>4. CASE \E h : v = [r EXCEPT !.hash = h]
  <2>1. v.id = r.id /\ v.tenant = r.tenant /\ v.body = r.body /\ v.prev = r.prev /\ v.extra = r.extra
    BY <1>4 DEF Rows
  <2>2. v.hash # r.hash
    BY <2>1 DEF Rows
  <2> QED
    BY <1>1, <2>1, <2>2 DEF Rejects, event_hash
<1> QED
  BY <1>2, <1>3, <1>4

\* While nobody changed a row, every row is a link of its tenant's chain.
LEMMA Untouched ==
  ASSUME IInv, ~altered, NEW r \in events
  PROVE  ~Rejects(r)
<1>1. r \in Rows /\ r.tenant \in TenantIds /\ head \in [TenantIds -> Hashes]
  BY DEF IInv, ChainConsistent, TypeOK, Rows
<1>2. PICK h \in Hashes : h = head[r.tenant]
  BY <1>1
<1>3. r \in RowsOf(r.tenant)
  BY DEF RowsOf
<1>4. PICK i \in DOMAIN h.over : r = Link(h, i)
  BY <1>1, <1>2, <1>3 DEF IInv, ChainConsistent, ChainLinear
<1>5. i \in 1 .. Len(h.over)
  BY <1>4 DEF Hashes
<1> QED
  BY <1>4, <1>5, LinkPasses

\* Changing a row: it fails its check, in a chain the verifier reads.
LEMMA AlterStored ==
  ASSUME IInv, Stored, NEW r \in events, Alter(r)
  PROVE  Stored'
<1>1. /\ tenants' = tenants /\ head' = head /\ job' = job /\ altered' = TRUE /\ ~altered
  BY DEF Alter
<1>2. r \in Rows /\ events \subseteq Rows /\ tenants \subseteq TenantIds /\ r.tenant \in tenants
  BY DEF IInv, ChainConsistent, TypeOK, TenantIds, Stored
<1>3. PICK v \in {[r EXCEPT !.body = "edited"], [r EXCEPT !.extra = TRUE]}
             \cup {[r EXCEPT !.tenant = t] : t \in tenants}
             \cup {[r EXCEPT !.prev = h] : h \in {ZeroHash} \cup {e.hash : e \in events}}
             \cup {[r EXCEPT !.hash = h] : h \in {ZeroHash} \cup {e.hash : e \in events}}
             \cup {[r EXCEPT !.id = i] : i \in (1 .. MaxEvents) \ UsedIds} :
         v # r /\ events' = (events \ {r}) \cup {v}
  BY DEF Alter
<1>4. {ZeroHash} \cup {e.hash : e \in events} \subseteq Hashes
  BY <1>2, BaseHashes DEF Rows
<1>5. /\ v \in Rows /\ v.tenant \in tenants
      /\ \/ v = [r EXCEPT !.extra = TRUE]
         \/ v.hash = r.hash /\ v.extra = r.extra
         \/ \E h : v = [r EXCEPT !.hash = h]
  <2>1. CASE v \in {[r EXCEPT !.body = "edited"], [r EXCEPT !.extra = TRUE]}
    BY <1>2, <2>1 DEF Rows, Bodies
  <2>2. CASE v \in {[r EXCEPT !.tenant = t] : t \in tenants}
    BY <1>2, <2>2 DEF Rows
  <2>3. CASE v \in {[r EXCEPT !.prev = h] : h \in {ZeroHash} \cup {e.hash : e \in events}}
    BY <1>2, <1>4, <2>3 DEF Rows
  <2>4. CASE v \in {[r EXCEPT !.hash = h] : h \in {ZeroHash} \cup {e.hash : e \in events}}
    BY <1>2, <1>4, <2>4 DEF Rows
  <2>5. CASE v \in {[r EXCEPT !.id = i] : i \in (1 .. MaxEvents) \ UsedIds}
    BY <1>2, <2>5 DEF Rows
  <2> QED
    BY <1>3, <2>1, <2>2, <2>3, <2>4, <2>5
<1>6. Rejects(v)
  BY <1>1, <1>2, <1>3, <1>5, Untouched, ChangeShows
<1>7. IsFiniteSet(events')
  BY <1>3, FS_RemoveElement, FS_AddElement DEF Stored
<1>8. ~job.after
  BY <1>1 DEF Stored
<1> QED
  BY <1>1, <1>3, <1>5, <1>6, <1>7, <1>8 DEF Stored

\* A commit adds one row, and a row to the default chain keeps its seed.
LEMMA CommitStored ==
  ASSUME IInv, Stored, NEW x \in Requests, Commit(x)
  PROVE  Stored'
<1>1. PICK q \in Txns, r \in Rows :
           /\ q = txn[x] /\ Sound(x, q) /\ q.rows = {r}
           /\ q.kind # "idle" /\ operators
           /\ q.kind = "revoke" => q.subject \in Keys /\ q.revokes = {q.subject} /\ r.body = q.subject
           /\ q.kind # "revoke" => q.revokes = {} /\ r.body = "event"
           /\ q.kind = "create" => q.made = {q.subject} /\ q.subject \in Tenants
           /\ r.tenant \in tenants \cup q.made /\ <<"audit", r.tenant>> \in q.locks
           /\ r.prev = Base(q, r.tenant) /\ r.hash = event_hash(r) /\ ~r.extra
           /\ \A t \in q.made : t = r.tenant
           /\ tenants' = tenants \cup q.made
           /\ events' = events \cup {r}
           /\ revoked' = revoked \cup q.revokes
           /\ head' = [head EXCEPT ![r.tenant] = r.hash]
  BY CommitRow
<1>2. job' = job /\ altered' = altered
  BY DEF Commit
<1>3. IsFiniteSet(events')
  BY <1>1, FS_AddElement DEF Stored
<1>4. \A e \in events' : e.tenant \in tenants'
  BY <1>1 DEF Stored
<1>5. head'[Default] # NoRow => head'[Default].seed = genesis_hash(Default).seed
  <2>0. head \in [TenantIds -> Hashes] /\ Default \in TenantIds /\ r.tenant \in TenantIds
    BY ConstantsOK DEF IInv, ChainConsistent, TypeOK, TenantIds, Rows
  <2>1. CASE r.tenant = Default
    <3>1. Default \in tenants /\ head[Default] # NoRow /\ Default \notin q.made
      BY <1>1 DEF IInv, Seeded, Locks
    <3>2. r.prev = head[Default]
      BY <1>1, <2>1, <3>1 DEF Base
    <3>3. event_hash(r).seed = r.prev.seed
      <4>1. r.prev \in Hashes /\ <<r.id, r.tenant, r.body>> \in Contents
        BY DEF Rows, Contents
      <4> QED
        BY <4>1, Hashed DEF event_hash
    <3> QED
      BY <1>1, <2>0, <2>1, <3>1, <3>2, <3>3 DEF Stored
  <2>2. CASE r.tenant # Default
    BY <1>1, <2>0, <2>2 DEF Stored
  <2> QED
    BY <2>1, <2>2
<1>6. ASSUME NEW t \in tenants' \ {Default}
      PROVE  head'[t].seed = wire_genesis(t).seed /\ head'[t].over # <<>>
  <2>0. head \in [TenantIds -> Hashes] /\ t \in TenantIds /\ r.tenant \in TenantIds
    BY <1>1 DEF IInv, ChainConsistent, TypeOK, TenantIds, Rows, Txns
  <2>1. CASE r.tenant # t
    <3>1. t \in tenants \ {Default} /\ head'[t] = head[t]
      BY <1>1, <1>6, <2>0, <2>1
    <3> QED
      BY <3>1 DEF Stored
  <2>2. CASE r.tenant = t
    <3>1. /\ r.prev \in Hashes /\ event_hash(r).seed = r.prev.seed
          /\ event_hash(r).over = Append(r.prev.over, <<r.id, r.tenant, r.body>>)
      <4>1. r.prev \in Hashes /\ <<r.id, r.tenant, r.body>> \in Contents
        BY DEF Rows, Contents
      <4> QED
        BY <4>1, Hashed DEF event_hash
    <3>2. r.prev.seed = wire_genesis(t).seed
      <4>1. CASE t \in q.made
        BY <1>1, <2>2, <4>1 DEF Base
      <4>2. CASE t \notin q.made
        <5>1. t \in tenants \ {Default} /\ head[t] # NoRow
          BY <1>1, <1>6, <4>2 DEF IInv, Seeded
        <5> QED
          BY <1>1, <2>2, <4>2, <5>1 DEF Base, Stored
      <4> QED
        BY <4>1, <4>2
    <3>3. event_hash(r).over # <<>>
      <4>1. r.prev.over \in Seq(Contents)
        BY <3>1 DEF Hashes
      <4> QED
        BY <3>1, <4>1
    <3>4. head'[t] = event_hash(r)
      BY <1>1, <2>0, <2>2
    <3> QED
      BY <3>1, <3>2, <3>3, <3>4
  <2> QED
    BY <2>1, <2>2
<1> QED
  BY <1>1, <1>2, <1>3, <1>4, <1>5, <1>6 DEF Stored

\* Reading a chain: a chain with a changed row makes the job fail.
LEMMA JobStored ==
  ASSUME IInv, Stored, VerifyJob
  PROVE  Stored'
<1>0. /\ tenants' = tenants /\ head' = head /\ events' = events /\ altered' = altered
      /\ events \subseteq Rows
  BY DEF VerifyJob, job_start, job_check, database, IInv, ChainConsistent, TypeOK
<1>1. CASE job_start
  <2>1. PICK S \in SUBSET tenants :
          job' = [scope |-> S, left |-> S, ok |-> TRUE, done |-> (S = {}),
                  after |-> altered /\ S = tenants]
    BY <1>1 DEF job_start
  <2>2. /\ job'.scope = S /\ job'.left = S /\ job'.ok = TRUE
        /\ job'.done = (S = {}) /\ job'.after = (altered /\ S = tenants)
    BY <2>1
  <2>3. job'.after /\ job'.ok => \E r \in events : Rejects(r) /\ r.tenant \in job'.left
    BY <2>2 DEF Stored
  <2> QED
    BY <1>0, <2>2, <2>3 DEF Stored
<1>2. ASSUME NEW t \in Tenants, job_check(t) PROVE Stored'
  <2>1. /\ job'.left = job.left \ {t} /\ job'.ok = (job.ok /\ VerifyTenant(t))
        /\ job'.done = (job.left = {t}) /\ job'.after = job.after /\ t \in job.left
        /\ job'.scope = job.scope
    BY <1>2 DEF job_check, IInv, Shapes
  <2>2. ASSUME NEW r \in events, Rejects(r), r.tenant = t PROVE ~VerifyTenant(t)
    <3>1. RowsOf(t) \in SUBSET Rows /\ r \in RowsOf(t)
      BY <1>0, <2>2 DEF RowsOf
    <3>2. IsFiniteSet(RowsOf(t))
      BY FS_Subset DEF RowsOf, Stored
    <3>3. InOrder(RowsOf(t)) \in Orders(RowsOf(t))
      BY <3>1, <3>2, SortedOrder
    <3> QED
      BY <2>2, <3>1, <3>2, <3>3, TamperFound DEF VerifyTenant
  <2>3. job'.done => job'.left = {}
    BY <2>1
  <2>4. job'.after /\ job'.ok => \E r \in events : Rejects(r) /\ r.tenant \in job'.left
    BY <2>1, <2>2 DEF Stored
  <2> QED
    BY <1>0, <2>1, <2>3, <2>4 DEF Stored
<1> QED
  BY <1>1, <1>2 DEF VerifyJob

\* Every step keeps what the verifier's verdict rests on.
LEMMA StoredKept ==
  ASSUME IInv, Stored, Next
  PROVE  Stored'
<1>1. CASE tenants' = tenants /\ head' = head /\ events' = events /\ job' = job /\ altered' = altered
  BY <1>1 DEF Stored
<1>2. ASSUME NEW x \in Requests, Handler(x) PROVE Stored'
  BY <1>1, <1>2 DEF Handler, audit_emit_endpoint, proxy_hit, revoke_api_key, create_tenant,
                    acknowledge_tamper, verify_chain_endpoint, database
<1>3. ASSUME NEW x \in Requests, Statement(x) PROVE Stored'
  BY <1>1, <1>3, CommitStored DEF Statement, audit_lock, audit_read, audit_write, update_key,
                                  insert_tenant, database
<1>4. ASSUME NEW x \in Requests, Abort(x) \/ DeadlockAbort(x) PROVE Stored'
  BY <1>1, <1>4 DEF Abort, DeadlockAbort, database
<1>5. CASE Seed \/ SeedAgain
  <2>1. CASE seed_default_tenant
    BY <2>1 DEF seed_default_tenant, Stored
  <2>2. CASE seed_audit_chain_state
    BY <2>2, ConstantsOK DEF seed_audit_chain_state, Stored, IInv, ChainConsistent, TypeOK, TenantIds
  <2> QED
    BY <1>1, <1>5, <2>1, <2>2 DEF Seed, seed_bootstrap_operator, SeedAgain, database
<1> QED
  BY <1>2, <1>3, <1>4, <1>5, AlterStored, JobStored DEF Next

\* The verifier's invariant holds in every reachable state.
LEMMA AuditedAlways == Spec => []Audited
<1>1. Init => Audited
  <2> SUFFICES ASSUME Init PROVE Audited
    OBVIOUS
  <2>1. IInv
    BY InitIInv
  <2>2. Stored
    BY FS_EmptySet, ConstantsOK DEF Init, Stored, TenantIds
  <2> QED
    BY <2>1, <2>2 DEF Audited
<1>2. Audited /\ [Next]_vars => Audited'
  <2> SUFFICES ASSUME Audited, [Next]_vars PROVE Audited'
    OBVIOUS
  <2>1. IInv'
    BY NextIInv DEF Audited
  <2>2. CASE Next
    BY <2>1, <2>2, StoredKept DEF Audited
  <2>3. CASE UNCHANGED vars
    BY <2>1, <2>3 DEF Audited, Stored, vars
  <2> QED
    BY <2>2, <2>3
<1> QED
  BY <1>1, <1>2, PTL DEF Spec

\* What is stored decides the verdict: a changed row fails its check in a chain
\* that is read, and the links of an unchanged chain are all followed.
LEMMA VerdictExact == Audited => VerifyExact
<1> SUFFICES ASSUME Audited PROVE VerifyExact
  OBVIOUS
<1>0. events \subseteq Rows /\ head \in [TenantIds -> Hashes] /\ Default \in TenantIds
  BY ConstantsOK DEF Audited, IInv, ChainConsistent, TypeOK, TenantIds
<1>1. CASE altered
  <2>1. PICK r \in events : Rejects(r) /\ r.tenant \in tenants
    BY <1>1 DEF Audited, Stored
  <2>2. RowsOf(r.tenant) \in SUBSET Rows /\ r \in RowsOf(r.tenant) /\ IsFiniteSet(RowsOf(r.tenant))
    BY <1>0, FS_Subset DEF Audited, Stored, RowsOf
  <2>3. \A f \in Orders(RowsOf(r.tenant)) : ~verify_events(f)
    BY <2>1, <2>2, TamperFound
  <2> QED
    BY <1>1, <2>1, <2>3 DEF VerifyExact
<1>2. CASE ~altered
  <2>1. PICK h \in Hashes : h = head[Default]
    BY <1>0
  <2>2. RowsOf(Default) = {Link(h, i) : i \in DOMAIN h.over}
    BY <1>0, <1>2, <2>1 DEF Audited, IInv, ChainConsistent, ChainLinear
  <2>3. \A r \in RowsOf(Default) : r.tenant = Default
    BY DEF RowsOf
  <2>4. CASE h # NoRow
    <3>1. h.seed = genesis_hash(Default).seed
      BY <2>1, <2>4 DEF Audited, Stored
    <3>2. \A f \in Orders(RowsOf(Default)) : verify_events(f)
      BY <1>0, <2>2, <2>3, <3>1, ChainFollowed
    <3> QED
      BY <1>2, <3>2 DEF VerifyExact
  <2>5. CASE h = NoRow
    <3>1. RowsOf(Default) = {}
      BY <2>2, <2>5, NoLinks, BaseHashes
    <3>2. \A f \in Orders({}) : f = <<>>
      BY FS_EmptySet DEF Orders
    <3> QED
      BY <1>2, <3>1, <3>2 DEF VerifyExact, verify_events
  <2> QED
    BY <2>4, <2>5
<1> QED
  BY <1>1, <1>2

\* For any number of requests, tenants, keys and events: verify_events accepts
\* the chain of the seeded tenant whatever concurrent requests, rollbacks and
\* repeated seed jobs made of it, and rejects, in whatever order the rows are
\* read, a chain with a row one column of which was changed, also after more
\* events were appended to it.
THEOREM VerifierIsExact == Spec => []VerifyExact
  BY VerdictExact, AuditedAlways, PTL

-----------------------------------------------------------------------------
(* The job's exit code.                                                    *)

\* verify_events does not get past the start of a chain begun at another hash
\* than the genesis hash of its tenant.
LEMMA Unfollowed ==
  ASSUME NEW t \in TenantIds, NEW h \in Hashes, h.seed # genesis_hash(t).seed, h.over # <<>>,
         NEW S, S = {Link(h, i) : i \in DOMAIN h.over}, \A r \in S : r.tenant = t,
         NEW f \in Orders(S)
  PROVE  ~verify_events(f)
<1> DEFINE n == Len(h.over)
<1>1. /\ DOMAIN h.over = 1 .. n /\ n \in Nat
      /\ S \subseteq Rows /\ IsFiniteSet(S) /\ Cardinality(S) = n
  BY LinksCounted
<1>2. n > 0
  BY <1>1 DEF Hashes
<1>3. f \in Seq(S) /\ Len(f) = n /\ DOMAIN f = 1 .. n
  BY <1>1, OrdersEnumerate
<1> HIDE DEF n
<1>4. ASSUME NEW i \in 1 .. n PROVE f[i].tenant = t /\ f[i].prev.seed = h.seed
  <2>1. f[i] \in S
    BY <1>3
  <2>2. PICK k \in 1 .. n : f[i] = Link(h, k)
    BY <1>1, <2>1
  <2>3. f[i].prev = After(h, k - 1)
    BY <2>2, LinkPasses DEF n
  <2>4. After(h, k - 1).seed = h.seed
    BY DEF After, Hashes
  <2> QED
    BY <2>1, <2>3, <2>4
<1>5. PICK w : IsWalk(f, n, w) /\ Walk(f) = w[n]
  BY <1>1, <1>3, WalkEnds
<1>6. WalkStep(f, Begin(f)) = Begin(f)
  <2>1. Begin(f).cur.seed = genesis_hash(t).seed /\ Begin(f).seen = {}
    <3>1. 1 \in 1 .. n
      BY <1>1, <1>2
    <3>2. f[1].tenant = t
      BY <1>4, <3>1
    <3> QED
      BY <3>2 DEF Begin
  <2>2. {i \in DOMAIN f : i \notin Begin(f).seen /\ f[i].prev = Begin(f).cur} = {}
    BY <1>3, <1>4, <2>1
  <2> QED
    BY <2>2 DEF WalkStep
<1> DEFINE N == {m \in Nat : m <= n => w[m] = Begin(f)}
<1>7. 0 \in N
  BY <1>1, <1>5 DEF IsWalk
<1>8. ASSUME NEW m \in N PROVE m + 1 \in N
  <2> SUFFICES ASSUME m + 1 <= n PROVE w[m + 1] = Begin(f)
    OBVIOUS
  <2>1. m + 1 \in 0 .. n /\ m + 1 # 0 /\ (m + 1) - 1 = m /\ w[m] = Begin(f)
    BY <1>1
  <2>2. w[m + 1] = WalkStep(f, w[m])
    BY <1>5, <2>1 DEF IsWalk
  <2> QED
    BY <1>6, <2>1, <2>2
<1>9. N = Nat
  <2>1. N \in SUBSET Nat
    OBVIOUS
  <2> HIDE DEF N
  <2> QED
    BY <1>7, <1>8, <2>1, Climb
<1>10. Walk(f) = Begin(f)
  BY <1>1, <1>5, <1>9
<1>11. Walk(f).seen # DOMAIN f
  BY <1>2, <1>3, <1>10, 1 \in 1 .. n DEF Begin
<1>12. f # <<>>
  BY <1>2, <1>3
<1> QED
  BY <1>11, <1>12 DEF verify_events

\* While nobody changed a row, a stored chain verifies exactly when it is the
\* seeded tenant's.
LEMMA TenantVerdict ==
  ASSUME Audited, ~altered, NEW t \in tenants
  PROVE  VerifyTenant(t) <=> t = Default
<1>0. /\ events \subseteq Rows /\ head \in [TenantIds -> Hashes] /\ t \in TenantIds
      /\ IsFiniteSet(events)
  BY DEF Audited, IInv, ChainConsistent, TypeOK, TenantIds, Stored
<1>1. RowsOf(t) \in SUBSET Rows /\ IsFiniteSet(RowsOf(t))
  BY <1>0, FS_Subset DEF RowsOf
<1>2. InOrder(RowsOf(t)) \in Orders(RowsOf(t))
  BY <1>1, SortedOrder
<1>3. CASE t = Default
  BY <1>2, <1>3, VerdictExact DEF VerifyExact, VerifyTenant
<1>4. CASE t # Default
  <2>1. PICK h \in Hashes : h = head[t]
    BY <1>0
  <2>2. h.seed = wire_genesis(t).seed /\ h.over # <<>>
    BY <1>4, <2>1 DEF Audited, Stored
  <2>3. h.seed # genesis_hash(t).seed
    <3>1. wire_genesis(t).seed.form # genesis_hash(t).seed.form
      BY DEF wire_genesis, genesis_hash
    <3> QED
      BY <2>2, <3>1
  <2>4. RowsOf(t) = {Link(h, i) : i \in DOMAIN h.over}
    BY <1>0, <2>1 DEF Audited, IInv, ChainConsistent, ChainLinear
  <2>5. \A r \in RowsOf(t) : r.tenant = t
    BY DEF RowsOf
  <2>6. ~VerifyTenant(t)
    BY <1>0, <1>2, <2>2, <2>3, <2>4, <2>5, Unfollowed DEF VerifyTenant
  <2> QED
    BY <1>4, <2>6
<1> QED
  BY <1>3, <1>4

\* While nobody changes a row, the job's result so far says whether every chain
\* it has read is the seeded tenant's.
ResultSoFar == ~altered => (job.ok <=> job.scope \ job.left \subseteq {Default})

\* Only the job changes its result, by the verdict on one more chain.
LEMMA ResultKept ==
  ASSUME Audited, ResultSoFar, Next
  PROVE  ResultSoFar'
<1>0. IInv /\ Stored
  BY DEF Audited
<1>1. CASE job' = job /\ altered' = altered
  BY <1>1 DEF ResultSoFar
<1>2. ASSUME NEW x \in Requests, Handler(x) PROVE ResultSoFar'
  BY <1>1, <1>2 DEF Handler, audit_emit_endpoint, proxy_hit, revoke_api_key, create_tenant,
                    acknowledge_tamper, verify_chain_endpoint, database
<1>3. ASSUME NEW x \in Requests, Statement(x) PROVE ResultSoFar'
  BY <1>1, <1>3 DEF Statement, audit_lock, audit_read, audit_write, update_key,
                    insert_tenant, Commit
<1>4. ASSUME NEW x \in Requests, Abort(x) \/ DeadlockAbort(x) PROVE ResultSoFar'
  BY <1>1, <1>4 DEF Abort, DeadlockAbort
<1>5. CASE Seed \/ SeedAgain
  BY <1>1, <1>5 DEF Seed, seed_default_tenant, seed_audit_chain_state, seed_bootstrap_operator,
                    SeedAgain
<1>6. CASE job_start
  <2>1. PICK S : job' = [scope |-> S, left |-> S, ok |-> TRUE, done |-> (S = {}),
                         after |-> altered /\ S = tenants]
    BY <1>6 DEF job_start
  <2>2. job'.ok = TRUE /\ job'.scope = S /\ job'.left = S
    BY <2>1
  <2> QED
    BY <2>2 DEF ResultSoFar
<1>7. ASSUME NEW t \in Tenants, job_check(t) PROVE ResultSoFar'
  <2>1. /\ altered' = altered /\ t \in job.left /\ job'.left = job.left \ {t}
        /\ job'.ok = (job.ok /\ VerifyTenant(t)) /\ job'.scope = job.scope
    BY <1>0, <1>7 DEF job_check, IInv, Shapes
  <2>2. t \in tenants /\ t \in job.scope
    BY <1>0, <2>1 DEF Stored
  <2>3. job'.scope \ job'.left = (job.scope \ job.left) \cup {t}
    BY <2>1, <2>2
  <2>4. ~altered => (VerifyTenant(t) <=> t = Default)
    BY <2>2, TenantVerdict
  <2> QED
    BY <2>1, <2>3, <2>4 DEF ResultSoFar
<1>8. ASSUME NEW r \in events, Alter(r) PROVE ResultSoFar'
  BY <1>8 DEF Alter, ResultSoFar
<1> QED
  BY <1>2, <1>3, <1>4, <1>5, <1>6, <1>7, <1>8 DEF Next, VerifyJob

\* For any number of requests, tenants, keys and events: a job over every chain
\* that started after a row was changed ends with a failure, and a job over
\* chains nobody touched ends well exactly when it read no chain but the seeded
\* tenant's, while requests commit new events and new tenants under it.
THEOREM JobTellsTheTruth == Spec => []JobReports
<1>1. Init => ResultSoFar
  BY DEF Init, ResultSoFar
<1>2. Audited /\ ResultSoFar /\ [Next]_vars => ResultSoFar'
  <2> SUFFICES ASSUME Audited, ResultSoFar, [Next]_vars PROVE ResultSoFar'
    OBVIOUS
  <2>1. CASE UNCHANGED vars
    BY <2>1 DEF vars, ResultSoFar
  <2> QED
    BY <2>1, ResultKept
<1>3. Audited /\ ResultSoFar => JobReports
  BY DEF Audited, Stored, ResultSoFar, JobReports
<1> QED
  BY <1>1, <1>2, <1>3, AuditedAlways, PTL DEF Spec
=============================================================================
