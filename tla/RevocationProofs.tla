-------------------------- MODULE RevocationProofs --------------------------
(***************************************************************************)
(* Machine-checked proofs about Revocation, for any agents, proxies,       *)
(* tokens, lifetimes, clock resolution, set capacity and faults.           *)
(***************************************************************************)
EXTENDS Revocation, SequenceTheorems, TLAPS

-----------------------------------------------------------------------------
(* The inductive invariant.                                                *)

\* No notification about token j waits at proxy p.
Unmentioned(p, j) ==
  \A i \in DOMAIN inbox[p] :
    inbox[p][i].event = "token.revoked" => inbox[p][i].jti # j

\* The revocations of agents a process has applied are in its set, in the form
\* in which the gate looks an agent up.
AgentsKept ==
  \A p \in Proxies : \A a \in Agents :
    a \in handled[p] => [form |-> "uuid", agent |-> a] \in agentSet[p]

\* The revocations of tokens a process has applied are in its set, or the
\* token has expired.
TokensKept ==
  \A p \in Proxies : \A j \in Jtis :
    j \in handled[p] => jtiSet[p][j] # Absent \/ token[j].left = -1

\* What is left of a token in the set and the age of its entry never exceed
\* the retention together: both change by one with every tick.
EntriesOutlast ==
  \A p \in Proxies : \A j \in Jtis :
    jtiSet[p][j] # Absent =>
      token[j].left = -1 \/ token[j].left + jtiSet[p][j] <= Retention

\* No token is valid for longer than the retention, and a valid one has an agent.
TokensBounded ==
  \A j \in Jtis :
    /\ token[j].left <= Retention
    /\ token[j].left # -1 => token[j].agent \in Agents

\* An id that was not issued is not revoked anywhere.
FreshUnknown ==
  \A j \in Jtis : token[j] = NoToken =>
    \A p \in Proxies :
      /\ j \notin handled[p]
      /\ jtiSet[p][j] = Absent
      /\ Unmentioned(p, j)

Kept ==
  /\ AgentsKept
  /\ TokensKept
  /\ EntriesOutlast
  /\ TokensBounded
  /\ FreshUnknown
  /\ RevokedRefused

IInv == TypeOK /\ Kept

\* Every lifetime asked of the broker is below the maximum it allows.
ShortLived == \A ttl \in TTLs : ttl < MaxTTL

-----------------------------------------------------------------------------
(* Arithmetic of lifetimes.                                                *)

\* Multiplying by a natural number keeps the order.
LEMMA Monotone ==
  ASSUME NEW c \in Nat, NEW x \in Nat, NEW y \in Nat, x <= y
  PROVE  c * x <= c * y
  OBVIOUS

\* One more second is PerSecond more ticks.
LEMMA Distributes ==
  ASSUME NEW c \in Nat, NEW x \in Nat
  PROVE  c * (x + 1) = c * x + c
  OBVIOUS

\* Retention and LongestLife are numbers, and a lifetime fits.
LEMMA TimeFacts ==
  /\ Retention \in Nat
  /\ LongestLife \in Nat
  /\ Retention <= LongestLife
  /\ \A ttl \in TTLs, cut \in 0..(PerSecond - 1) :
       /\ Issue(ttl, cut) \in 0..LongestLife
       /\ ttl < MaxTTL => Issue(ttl, cut) <= Retention
<1>1. Retention \in Nat /\ LongestLife \in Nat /\ Retention <= LongestLife
  BY TimeAssumption DEF Retention, LongestLife
<1>2. ASSUME NEW ttl \in TTLs, NEW cut \in 0..(PerSecond - 1)
      PROVE  /\ Issue(ttl, cut) \in 0..LongestLife
             /\ ttl < MaxTTL => Issue(ttl, cut) <= Retention
  <2> DEFINE x == ttl + Skew
             y == MaxTTL + Skew
  <2>1. x \in Nat /\ y \in Nat /\ x <= y /\ PerSecond \in Nat \ {0}
        /\ (ttl < MaxTTL => x + 1 <= y)
    BY TimeAssumption
  <2>2. Issue(ttl, cut) = PerSecond * x + (PerSecond - 1 - cut)
    BY DEF Issue
  <2>3. Retention = PerSecond * y /\ LongestLife = PerSecond * y + PerSecond - 1
    BY DEF Retention, LongestLife
  <2> HIDE DEF x, y
  <2>4. PerSecond * x \in Nat /\ PerSecond * y \in Nat
    BY <2>1
  <2>5. PerSecond * x <= PerSecond * y
    BY <2>1, Monotone
  <2>6. Issue(ttl, cut) \in 0..LongestLife
    BY <2>1, <2>2, <2>3, <2>4, <2>5
  <2>7. ASSUME ttl < MaxTTL PROVE Issue(ttl, cut) <= Retention
    <3>1. PerSecond * (x + 1) <= PerSecond * y
      BY <2>1, <2>7, Monotone
    <3>2. PerSecond * (x + 1) = PerSecond * x + PerSecond
      BY <2>1, Distributes
    <3> QED
      BY <2>1, <2>2, <2>3, <2>4, <3>1, <3>2
  <2> QED
    BY <2>6, <2>7
<1> QED
  BY <1>1, <1>2

-----------------------------------------------------------------------------
(* Types.                                                                  *)

\* What is published reaches the inboxes of the proxies that listen and leaves
\* the rest of a proxy alone.
LEMMA NotifyType ==
  ASSUME TypeOK, NEW n \in Events, notify_change(n)
  PROVE  /\ inbox' \in [Proxies -> Seq(Events)]
         /\ \A p \in Proxies : inbox'[p] = inbox[p]
                                 \/ inbox'[p] = Append(inbox[p], n)
         /\ UNCHANGED <<up, conn, agentSet, jtiSet, handled, call>>
<1>1. \A p \in Proxies : /\ inbox[p] \in Seq(Events)
                         /\ Append(inbox[p], n) \in Seq(Events)
  BY AppendProperties DEF TypeOK
<1> HIDE DEF Events
<1> QED
  BY <1>1 DEF notify_change

\* The initial state is well typed.
LEMMA InitType == Init => TypeOK
  <1> SUFFICES ASSUME Init PROVE TypeOK
    OBVIOUS
  <1>1. 0 \in 0..MaxKeys /\ Absent \in Absent..(Retention + 1)
        /\ -1 \in -1..LongestLife
    BY TimeFacts, BoundAssumption DEF Absent
  <1>2. <<>> \in Seq(Events)
    OBVIOUS
  <1> HIDE DEF Events, Retention, LongestLife
  <1>3. NoToken \in [agent : Agents \cup {"none"}, left : -1..LongestLife]
    BY <1>1 DEF NoToken
  <1> QED
    BY <1>1, <1>2, <1>3 DEF Init, TypeOK

\* The handlers of admin-api preserve the types.
LEMMA AdminType == TypeOK /\ AdminStep => TypeOK'
  <1> SUFFICES ASSUME TypeOK, AdminStep PROVE TypeOK'
    OBVIOUS
  <1> USE DEF db, issue
  <1>a. [event |-> "other"] \in Events
    BY DEF Events
  <1>b. ASSUME NEW a \in Agents, NEW form \in Forms
        PROVE  [event |-> "agent.revoked", id |-> [form |-> form, agent |-> a]]
                 \in Events
    BY DEF Events, Id
  <1>c. ASSUME NEW j \in Jtis
        PROVE  [event |-> "token.revoked", jti |-> j] \in Events
    BY DEF Events
  <1>d. \A a \in Agents : InFlight(a) \subseteq Requests
    BY DEF InFlight
  <1> HIDE DEF Events
  <1>1. CASE \E a \in Agents : create_agent(a)
    <2>1. PICK a \in Agents : create_agent(a)
      BY <1>1
    <2>2. 1 \in 0..MaxKeys
      BY BoundAssumption
    <2>3. key' \in [Agents -> 0..MaxKeys]
      BY <2>1, <2>2 DEF create_agent, TypeOK
    <2> QED
      BY <2>1, <2>3, <1>a, NotifyType DEF create_agent, TypeOK
  <1>2. CASE \E a \in Agents : rotate_agent_key(a)
    <2>1. PICK a \in Agents : rotate_agent_key(a)
      BY <1>2
    <2>2. key' \in [Agents -> 0..MaxKeys]
      BY <2>1, BoundAssumption DEF rotate_agent_key, TypeOK
    <2> QED
      BY <2>1, <2>2, <1>a, <1>d, NotifyType DEF rotate_agent_key, TypeOK
  <1>3. CASE \E a \in Agents, form \in Forms : revoke_agent(a, form)
    <2>1. PICK a \in Agents, form \in Forms : revoke_agent(a, form)
      BY <1>3
    <2> QED
      BY <2>1, <1>b, <1>d, NotifyType DEF revoke_agent, TypeOK
  <1>4. CASE \E a \in Agents, form \in Forms : delete_agent(a, form)
    <2>1. PICK a \in Agents, form \in Forms : delete_agent(a, form)
      BY <1>4
    <2> QED
      BY <2>1, <1>b, <1>d, NotifyType DEF delete_agent, TypeOK
  <1>5. CASE \E j \in Jtis : revoke_token(j)
    <2>1. PICK j \in Jtis : revoke_token(j)
      BY <1>5
    <2> QED
      BY <2>1, <1>c, NotifyType DEF revoke_token, TypeOK
  <1> QED
    BY <1>1, <1>2, <1>3, <1>4, <1>5 DEF AdminStep

\* request_token's steps preserve the types.
LEMMA McpType == ASSUME TypeOK, NEW r \in Requests, McpStep(r) PROVE TypeOK'
  <1> USE DEF db, issue, proxy
  <1> DEFINE Busy == [stage : {"read", "valid"}, agent : Agents,
                      key : 1..MaxKeys, active : BOOLEAN]
  <1> HIDE DEF Events, Retention, LongestLife
  <1>1. CASE \E a \in Agents : validate_agent_key(r, a)
    <2>1. PICK a \in Agents : validate_agent_key(r, a)
      BY <1>1
    <2>2. key[a] \in 1..MaxKeys
      BY <2>1, BoundAssumption DEF validate_agent_key, TypeOK
    <2>3. [stage |-> "read", agent |-> a, key |-> key[a],
           active |-> status[a] = "active"] \in Busy
      BY <2>2
    <2> QED
      BY <2>1, <2>3 DEF validate_agent_key, TypeOK
  <1>2. CASE Verified(r)
    <2>1. mcp[r] \in Busy
      BY <1>2 DEF Verified, TypeOK, Idle
    <2>2. [mcp[r] EXCEPT !.stage = "valid"] \in Busy
      BY <2>1
    <2>3. mcp' = [mcp EXCEPT ![r] = [mcp[r] EXCEPT !.stage = "valid"]]
      BY <1>2 DEF Verified
    <2> QED
      BY <1>2, <2>2, <2>3 DEF Verified, TypeOK
  <1>3. CASE Refuse(r)
    BY <1>3 DEF Refuse, TypeOK
  <1>4. CASE \E j \in Jtis, ttl \in TTLs, cut \in 0..(PerSecond - 1) :
               request_token(r, j, ttl, cut)
    <2>1. PICK j \in Jtis, ttl \in TTLs, cut \in 0..(PerSecond - 1) :
                 request_token(r, j, ttl, cut)
      BY <1>4
    <2>2. Issue(ttl, cut) \in -1..LongestLife
      BY TimeFacts
    <2> HIDE DEF Issue
    <2>3. mcp[r] \in Busy
      BY <2>1 DEF request_token, TypeOK, Idle
    <2>4. [agent |-> mcp[r].agent, left |-> Issue(ttl, cut)]
            \in [agent : Agents \cup {"none"}, left : -1..LongestLife]
      BY <2>2, <2>3
    <2> QED
      BY <2>1, <2>4 DEF request_token, TypeOK
  <1> QED
    BY <1>1, <1>2, <1>3, <1>4 DEF McpStep

\* A proxy's steps preserve the types.
LEMMA ProxyType == ASSUME TypeOK, NEW p \in Proxies, ProxyStep(p) PROVE TypeOK'
  <1> USE DEF db, issue
  <1>a. /\ Retention \in Nat
        /\ Absent \in Absent..(Retention + 1)
        /\ 0 \in Absent..(Retention + 1)
    BY TimeFacts DEF Absent
  <1> HIDE DEF Events, Retention, LongestLife
  <1>1. CASE Listen(p)
    BY <1>1 DEF Listen, TypeOK
  <1>2. CASE HandleNotification(p)
    <2> DEFINE n == Head(inbox[p])
    <2>1. inbox[p] \in Seq(Events) /\ inbox[p] # <<>>
      BY <1>2 DEF HandleNotification, TypeOK
    <2>2. n \in Events /\ Tail(inbox[p]) \in Seq(Events)
      BY <2>1, HeadTailProperties
    <2>3. inbox' \in [Proxies -> Seq(Events)]
      BY <1>2, <2>2 DEF HandleNotification, TypeOK
    <2> HIDE DEF n
    <2>4. /\ UNCHANGED <<status, key, mcp, outlived, token, up, conn, call>>
          /\ \/ /\ n.event = "agent.revoked"
                /\ agentSet' = [agentSet EXCEPT ![p] = AddAgent(agentSet[p], n.id)]
                /\ handled' = [handled EXCEPT ![p] = handled[p] \cup {n.id.agent}]
                /\ UNCHANGED jtiSet
             \/ /\ n.event = "token.revoked"
                /\ jtiSet' = [jtiSet EXCEPT ![p] = AddJti(jtiSet[p], n.jti)]
                /\ handled' = [handled EXCEPT ![p] =
                      IF jtiSet'[p][n.jti] = 0 THEN handled[p] \cup {n.jti}
                                               ELSE handled[p]]
                /\ UNCHANGED agentSet
             \/ n.event = "other" /\ UNCHANGED <<agentSet, jtiSet, handled>>
      BY <1>2 DEF HandleNotification, n
    <2>5. CASE n.event = "agent.revoked"
      <3>1. n.id \in Id
        BY <2>2, <2>5 DEF Events
      <3>2. n.id.agent \in Agents /\ Canonical(n.id) \in Id
        BY <3>1, NameAssumption DEF Id, Canonical
      <3>3. /\ agentSet' = [agentSet EXCEPT ![p] = agentSet[p] \cup {Canonical(n.id)}]
            /\ handled' = [handled EXCEPT ![p] = handled[p] \cup {n.id.agent}]
            /\ UNCHANGED <<status, key, mcp, outlived, token, up, conn, call, jtiSet>>
        BY <2>4, <2>5 DEF AddAgent
      <3>4. agentSet' \in [Proxies -> SUBSET Id]
        BY <3>2, <3>3 DEF TypeOK
      <3>5. handled' \in [Proxies -> SUBSET (Agents \cup Jtis)]
        BY <3>2, <3>3 DEF TypeOK
      <3> QED
        BY <2>3, <3>3, <3>4, <3>5 DEF TypeOK
    <2>6. CASE n.event = "token.revoked"
      <3>1. n.jti \in Jtis
        BY <2>2, <2>6 DEF Events
      <3>2. AddJti(jtiSet[p], n.jti) \in [Jtis -> Absent..(Retention + 1)]
        BY <3>1, <1>a DEF AddJti, TypeOK
      <3>3. /\ jtiSet' = [jtiSet EXCEPT ![p] = AddJti(jtiSet[p], n.jti)]
            /\ \/ handled' = [handled EXCEPT ![p] = handled[p] \cup {n.jti}]
               \/ handled' = [handled EXCEPT ![p] = handled[p]]
            /\ UNCHANGED <<status, key, mcp, outlived, token, up, conn, call, agentSet>>
        BY <2>4, <2>6
      <3>4. jtiSet' \in [Proxies -> [Jtis -> Absent..(Retention + 1)]]
        BY <3>2, <3>3 DEF TypeOK
      <3>5. CASE handled' = [handled EXCEPT ![p] = handled[p] \cup {n.jti}]
        <4>1. handled' \in [Proxies -> SUBSET (Agents \cup Jtis)]
          BY <3>1, <3>5 DEF TypeOK
        <4> QED
          BY <2>3, <3>3, <3>4, <4>1 DEF TypeOK
      <3>6. CASE handled' = [handled EXCEPT ![p] = handled[p]]
        BY <2>3, <3>3, <3>4, <3>6 DEF TypeOK
      <3> QED
        BY <3>3, <3>5, <3>6
    <2>7. CASE n.event = "other"
      BY <2>3, <2>4, <2>7 DEF TypeOK
    <2> QED
      BY <2>4, <2>5, <2>6, <2>7
  <1>3. CASE Drop(p)
    <2>1. PICK n \in 0..Len(inbox[p]) :
            inbox' = [inbox EXCEPT ![p] = SubSeq(@, 1, n)]
      BY <1>3 DEF Drop
    <2>2. inbox[p] \in Seq(Events)
      BY DEF TypeOK
    <2>3. SubSeq(inbox[p], 1, n) \in Seq(Events)
      BY <2>2, SubSeqProperties
    <2> QED
      BY <1>3, <2>1, <2>3 DEF Drop, TypeOK
  <1>4. CASE PingFails(p)
    BY <1>4 DEF PingFails, TypeOK
  <1>5. CASE Evict(p)
    BY <1>5, <1>a DEF Evict, TypeOK
  <1>6. CASE Stop(p)
    BY <1>6, <1>a DEF Stop, TypeOK
  <1>7. CASE Start(p)
    BY <1>7 DEF Start, TypeOK
  <1>8. CASE \E c \in Calls : Answered(p, c)
    BY <1>8 DEF Answered, TypeOK
  <1>9. CASE \E c \in Calls, j \in Jtis : ServeHTTP(p, c, j)
    <2>1. PICK c \in Calls, j \in Jtis : ServeHTTP(p, c, j)
      BY <1>9
    <2>2. [stage |-> "admitted", jti |-> j,
           knew |-> handled[p] \cap {j, token[j].agent} # {}]
             \in [stage : {"admitted"}, jti : Jtis, knew : BOOLEAN]
      OBVIOUS
    <2> QED
      BY <2>1, <2>2 DEF ServeHTTP, TypeOK
  <1> QED
    BY <1>1, <1>2, <1>3, <1>4, <1>5, <1>6, <1>7, <1>8, <1>9 DEF ProxyStep

\* A tick and the reuse of an id preserve the types.
LEMMA ClockType == TypeOK /\ (Tick \/ \E j \in Jtis : Reuse(j)) => TypeOK'
  <1> SUFFICES ASSUME TypeOK, Tick \/ \E j \in Jtis : Reuse(j) PROVE TypeOK'
    OBVIOUS
  <1> USE DEF db
  <1>a. Retention \in Nat /\ LongestLife \in Nat
    BY TimeFacts
  <1> HIDE DEF Events, Retention, LongestLife
  <1>1. CASE Tick
    <2>1. token' \in [Jtis -> [agent : Agents \cup {"none"},
                               left : -1..LongestLife]]
      <3>1. ASSUME NEW t \in [agent : Agents \cup {"none"}, left : -1..LongestLife]
            PROVE  [t EXCEPT !.left = IF @ > -1 THEN @ - 1 ELSE @]
                     \in [agent : Agents \cup {"none"}, left : -1..LongestLife]
        <4>1. (IF t.left > -1 THEN t.left - 1 ELSE t.left) \in -1..LongestLife
          BY <1>a
        <4> QED
          BY <4>1
      <3> QED
        BY <1>1, <3>1 DEF Tick, TypeOK
    <2>2. \A p \in Proxies, j \in Jtis :
            jtiSet[p][j] \in Absent..(Retention + 1)
      BY DEF TypeOK
    <2>3. jtiSet' \in [Proxies -> [Jtis -> Absent..(Retention + 1)]]
      BY <1>1, <1>a, <2>2 DEF Tick, Absent
    <2> QED
      BY <1>1, <2>1, <2>3 DEF Tick, TypeOK
  <1>2. CASE \E j \in Jtis : Reuse(j)
    <2>1. NoToken \in [agent : Agents \cup {"none"}, left : -1..LongestLife]
      BY <1>a DEF NoToken
    <2> QED
      BY <1>2, <2>1 DEF Reuse, TypeOK
  <1> QED
    BY <1>1, <1>2

\* Every step preserves the types.
LEMMA NextType == TypeOK /\ [Next]_vars => TypeOK'
  <1>1. TypeOK /\ UNCHANGED vars => TypeOK'
    BY DEF TypeOK, vars
  <1> QED
    BY <1>1, AdminType, McpType, ProxyType, ClockType DEF Next

\* Every variable keeps its type, for any agents, proxies, tokens, lifetimes,
\* bounds and faults.
THEOREM TypeCorrect == Spec => []TypeOK
  BY InitType, NextType, PTL DEF Spec

-----------------------------------------------------------------------------
(* What has been applied stays applied.                                    *)

\* The variables the invariant is about.
watched == <<handled, agentSet, jtiSet, token, inbox, call>>

\* The invariant holds initially.
LEMMA InitKept == Init => Kept
  <1> SUFFICES ASSUME Init PROVE Kept
    OBVIOUS
  <1>1. AgentsKept /\ TokensKept /\ RevokedRefused
    BY DEF Init, AgentsKept, TokensKept, RevokedRefused
  <1>2. EntriesOutlast
    BY DEF Init, EntriesOutlast
  <1>3. TokensBounded
    BY TimeFacts DEF Init, TokensBounded, NoToken
  <1>4. FreshUnknown
    BY DEF Init, FreshUnknown, Unmentioned
  <1> QED
    BY <1>1, <1>2, <1>3, <1>4 DEF Kept

\* Steps that change nothing the invariant is about.
LEMMA Unwatched == Kept /\ UNCHANGED watched => Kept'
  BY DEF watched, Kept, AgentsKept, TokensKept, EntriesOutlast, TokensBounded,
         FreshUnknown, Unmentioned, RevokedRefused

\* Publishing keeps the invariant when a token that is revoked was issued.
LEMMA NotifyKeeps ==
  ASSUME TypeOK, Kept, NEW n \in Events, notify_change(n), UNCHANGED token,
         n.event = "token.revoked" => token[n.jti] # NoToken
  PROVE  Kept'
<1>1. /\ UNCHANGED <<agentSet, jtiSet, handled, call>>
      /\ \A p \in Proxies : inbox'[p] = inbox[p]
                              \/ inbox'[p] = Append(inbox[p], n)
  BY NotifyType
<1>2. (AgentsKept /\ TokensKept /\ EntriesOutlast /\ TokensBounded
        /\ RevokedRefused)'
  BY <1>1 DEF Kept, AgentsKept, TokensKept, EntriesOutlast, TokensBounded,
              RevokedRefused
<1>3. ASSUME NEW j \in Jtis, token[j] = NoToken, NEW p \in Proxies
      PROVE  Unmentioned(p, j)'
  <2>1. Unmentioned(p, j)
    BY <1>3 DEF Kept, FreshUnknown
  <2>2. CASE inbox'[p] = inbox[p]
    BY <2>1, <2>2 DEF Unmentioned
  <2>3. CASE inbox'[p] = Append(inbox[p], n)
    <3>1. inbox[p] \in Seq(Events)
      BY DEF TypeOK
    <3>2. ASSUME NEW i \in DOMAIN Append(inbox[p], n)
          PROVE  \/ i \in DOMAIN inbox[p] /\ Append(inbox[p], n)[i] = inbox[p][i]
                 \/ Append(inbox[p], n)[i] = n
      BY <3>1
    <3>3. n.event = "token.revoked" => n.jti # j
      BY <1>3
    <3> QED
      BY <2>1, <2>3, <3>2, <3>3 DEF Unmentioned
  <2> QED
    BY <1>1, <2>2, <2>3
<1>4. FreshUnknown'
  BY <1>1, <1>3 DEF Kept, FreshUnknown
<1> QED
  BY <1>2, <1>4 DEF Kept

\* The handlers of admin-api keep the invariant.
LEMMA AdminKeeps == IInv /\ AdminStep => Kept'
  <1> SUFFICES ASSUME TypeOK, Kept, AdminStep PROVE Kept'
    BY DEF IInv
  <1> USE DEF db, issue
  <1>1. CASE \E a \in Agents : create_agent(a) \/ rotate_agent_key(a)
    <2>1. notify_change([event |-> "other"]) /\ UNCHANGED token
      BY <1>1 DEF create_agent, rotate_agent_key
    <2>2. [event |-> "other"] \in Events
      BY DEF Events
    <2> QED
      BY <2>1, <2>2, NotifyKeeps
  <1>2. CASE \E a \in Agents, form \in Forms :
               revoke_agent(a, form) \/ delete_agent(a, form)
    <2>1. PICK a \in Agents, form \in Forms :
            /\ notify_change([event |-> "agent.revoked",
                              id |-> [form |-> form, agent |-> a]])
            /\ UNCHANGED token
      BY <1>2 DEF revoke_agent, delete_agent
    <2>2. [event |-> "agent.revoked", id |-> [form |-> form, agent |-> a]]
            \in Events
      BY DEF Events, Id
    <2> QED
      BY <2>1, <2>2, NotifyKeeps
  <1>3. CASE \E j \in Jtis : revoke_token(j)
    <2>1. PICK j \in Jtis : revoke_token(j)
      BY <1>3
    <2>2. [event |-> "token.revoked", jti |-> j] \in Events
      BY DEF Events
    <2> QED
      BY <2>1, <2>2, NotifyKeeps DEF revoke_token
  <1> QED
    BY <1>1, <1>2, <1>3 DEF AdminStep

\* request_token's steps keep the invariant: a new token's id is one that no
\* proxy knows, and its life fits into the retention.
LEMMA McpKeeps ==
  ASSUME IInv, ShortLived, NEW r \in Requests, McpStep(r) PROVE Kept'
  <1> USE DEF db, issue, proxy
  <1>1. CASE (\E a \in Agents : validate_agent_key(r, a)) \/ Verified(r)
               \/ Refuse(r)
    BY <1>1, Unwatched DEF IInv, validate_agent_key, Verified, Refuse, watched
  <1>2. CASE \E j \in Jtis, ttl \in TTLs, cut \in 0..(PerSecond - 1) :
               request_token(r, j, ttl, cut)
    <2>1. PICK j \in Jtis, ttl \in TTLs, cut \in 0..(PerSecond - 1) :
                 request_token(r, j, ttl, cut)
      BY <1>2
    <2> DEFINE left == Issue(ttl, cut)
    <2>2. left \in Nat /\ left <= Retention
      BY TimeFacts DEF ShortLived
    <2> HIDE DEF left
    <2>3. mcp[r].agent \in Agents
      BY <2>1 DEF request_token, IInv, TypeOK, Idle
    <2>4. /\ token' = [token EXCEPT ![j] = [agent |-> mcp[r].agent, left |-> left]]
          /\ token[j] = NoToken
          /\ UNCHANGED <<handled, agentSet, jtiSet, inbox, call>>
      BY <2>1 DEF request_token, left
    <2>5. /\ token'[j] = [agent |-> mcp[r].agent, left |-> left]
          /\ token'[j] # NoToken
          /\ \A i \in Jtis \ {j} : token'[i] = token[i]
      BY <2>2, <2>4 DEF NoToken, IInv, TypeOK
    <2>6. \A p \in Proxies : j \notin handled[p] /\ jtiSet[p][j] = Absent
      BY <2>4 DEF IInv, Kept, FreshUnknown
    <2>7. (AgentsKept /\ RevokedRefused)'
      BY <2>4 DEF IInv, Kept, AgentsKept, RevokedRefused
    <2>8. (TokensKept /\ EntriesOutlast)'
      BY <2>4, <2>5, <2>6 DEF IInv, Kept, TokensKept, EntriesOutlast
    <2>9. TokensBounded'
      BY <2>2, <2>3, <2>5 DEF IInv, Kept, TokensBounded
    <2>10. FreshUnknown'
      BY <2>4, <2>5 DEF IInv, Kept, FreshUnknown, Unmentioned
    <2> QED
      BY <2>7, <2>8, <2>9, <2>10 DEF Kept
  <1> QED
    BY <1>1, <1>2 DEF McpStep

\* Shortening an inbox mentions no token that was not mentioned before.
LEMMA Shortened ==
  ASSUME TypeOK, NEW p \in Proxies,
         NEW s, \A i \in DOMAIN s : \E k \in DOMAIN inbox[p] : s[i] = inbox[p][k],
         inbox' = [inbox EXCEPT ![p] = s]
  PROVE  \A q \in Proxies, j \in Jtis : Unmentioned(q, j) => Unmentioned(q, j)'
<1> SUFFICES ASSUME NEW q \in Proxies, NEW j \in Jtis, Unmentioned(q, j)
             PROVE  Unmentioned(q, j)'
  OBVIOUS
<1>1. CASE q = p
  <2>1. inbox'[q] = s
    BY <1>1 DEF TypeOK
  <2> QED
    BY <1>1, <2>1 DEF Unmentioned
<1>2. CASE q # p
  <2>1. inbox'[q] = inbox[q]
    BY <1>2 DEF TypeOK
  <2> QED
    BY <2>1 DEF Unmentioned
<1> QED
  BY <1>1, <1>2

\* A notification that has been handled leaves the inbox shorter.
LEMMA TailShortens ==
  ASSUME TypeOK, NEW p \in Proxies, inbox[p] # <<>>,
         inbox' = [inbox EXCEPT ![p] = Tail(@)]
  PROVE  \A q \in Proxies, j \in Jtis : Unmentioned(q, j) => Unmentioned(q, j)'
<1>1. inbox[p] \in Seq(Events)
  BY DEF TypeOK
<1>2. \A i \in DOMAIN Tail(inbox[p]) :
        \E k \in DOMAIN inbox[p] : Tail(inbox[p])[i] = inbox[p][k]
  <2> SUFFICES ASSUME NEW i \in DOMAIN Tail(inbox[p])
               PROVE  \E k \in DOMAIN inbox[p] : Tail(inbox[p])[i] = inbox[p][k]
    OBVIOUS
  <2>1. /\ Tail(inbox[p]) \in Seq(Events)
        /\ Len(Tail(inbox[p])) = Len(inbox[p]) - 1
        /\ \A k \in 1..Len(Tail(inbox[p])) : Tail(inbox[p])[k] = inbox[p][k + 1]
    BY <1>1, HeadTailProperties
  <2>2. i \in 1..Len(Tail(inbox[p])) /\ DOMAIN inbox[p] = 1..Len(inbox[p])
        /\ Len(inbox[p]) \in Nat
    BY <1>1, <2>1, LenProperties
  <2>3. i + 1 \in DOMAIN inbox[p]
    BY <2>1, <2>2
  <2> QED
    BY <2>1, <2>2, <2>3
<1> DEFINE s == Tail(inbox[p])
<1>3. inbox' = [inbox EXCEPT ![p] = s]
  OBVIOUS
<1>4. \A i \in DOMAIN s : \E k \in DOMAIN inbox[p] : s[i] = inbox[p][k]
  BY <1>2
<1> HIDE DEF s
<1> QED
  BY <1>3, <1>4, Shortened

\* What is left when a connection breaks is a prefix of what had arrived.
LEMMA PrefixShortens ==
  ASSUME TypeOK, NEW p \in Proxies, NEW n \in 0..Len(inbox[p]),
         inbox' = [inbox EXCEPT ![p] = SubSeq(@, 1, n)]
  PROVE  \A q \in Proxies, j \in Jtis : Unmentioned(q, j) => Unmentioned(q, j)'
<1> DEFINE s == SubSeq(inbox[p], 1, n)
<1>1. inbox[p] \in Seq(Events)
  BY DEF TypeOK
<1>2. \A i \in 1..n : i \in DOMAIN inbox[p]
  BY <1>1
<1>3. DOMAIN s = 1..n /\ \A i \in 1..n : s[i] = inbox[p][i]
  BY <1>1
<1>4. \A i \in DOMAIN s : \E k \in DOMAIN inbox[p] : s[i] = inbox[p][k]
  BY <1>2, <1>3
<1>5. inbox' = [inbox EXCEPT ![p] = s]
  OBVIOUS
<1> HIDE DEF s
<1> QED
  BY <1>4, <1>5, Shortened

\* The subscriber of a proxy keeps the invariant: an agent goes into the set in
\* the form the gate looks up, and a token's entry is made, with age zero, when
\* the token has at most the retention left.
LEMMA HandleKeeps ==
  ASSUME IInv, NEW p \in Proxies, HandleNotification(p) PROVE Kept'
  <1> USE DEF db, issue
  <1> DEFINE n == Head(inbox[p])
  <1>1. inbox[p] \in Seq(Events) /\ inbox[p] # <<>>
    BY DEF HandleNotification, IInv, TypeOK
  <1>2. n \in Events
    BY <1>1, HeadTailProperties
  <1>3. \A q \in Proxies, j \in Jtis : Unmentioned(q, j) => Unmentioned(q, j)'
    BY <1>1, TailShortens DEF HandleNotification, IInv
  <1>4. 1 \in DOMAIN inbox[p] /\ n = inbox[p][1]
    BY <1>1
  <1>5. UNCHANGED <<token, call>>
    BY DEF HandleNotification
  <1>6. (TokensBounded /\ RevokedRefused)'
    BY <1>5 DEF IInv, Kept, TokensBounded, RevokedRefused
  <1>7. CASE n.event = "agent.revoked"
    <2>1. /\ agentSet' = [agentSet EXCEPT ![p] = agentSet[p] \cup {Canonical(n.id)}]
          /\ handled' = [handled EXCEPT ![p] = handled[p] \cup {n.id.agent}]
          /\ UNCHANGED jtiSet
      BY <1>7 DEF HandleNotification, AddAgent
    <2> HIDE DEF n
    <2>2. n.id \in Id
      BY <1>2, <1>7 DEF Events
    <2>3. n.id.agent \in Agents
          /\ Canonical(n.id) = [form |-> "uuid", agent |-> n.id.agent]
      BY <2>2 DEF Id, Canonical
    <2>4. /\ handled'[p] = handled[p] \cup {n.id.agent}
          /\ agentSet'[p] = agentSet[p] \cup {Canonical(n.id)}
          /\ \A q \in Proxies \ {p} : handled'[q] = handled[q]
                                        /\ agentSet'[q] = agentSet[q]
      BY <2>1 DEF IInv, TypeOK
    <2>5. AgentsKept'
      BY <2>3, <2>4 DEF IInv, Kept, AgentsKept
    <2>6. \A q \in Proxies, j \in Jtis : j \in handled'[q] <=> j \in handled[q]
      BY <2>3, <2>4, NameAssumption
    <2>7. (TokensKept /\ EntriesOutlast)'
      BY <1>5, <2>1, <2>6 DEF IInv, Kept, TokensKept, EntriesOutlast
    <2>8. FreshUnknown'
      BY <1>3, <1>5, <2>1, <2>6 DEF IInv, Kept, FreshUnknown
    <2> QED
      BY <1>6, <2>5, <2>7, <2>8 DEF Kept
  <1>8. CASE n.event = "token.revoked"
    <2>1. /\ jtiSet' = [jtiSet EXCEPT ![p] = AddJti(jtiSet[p], n.jti)]
          /\ handled' = [handled EXCEPT ![p] =
                IF jtiSet'[p][n.jti] = 0 THEN handled[p] \cup {n.jti}
                                         ELSE handled[p]]
          /\ UNCHANGED agentSet
      BY <1>8 DEF HandleNotification
    <2>2. n.jti \in Jtis
      BY <1>2, <1>8 DEF Events
    <2>3. token[n.jti] # NoToken
      BY <1>4, <1>8, <2>2 DEF IInv, Kept, FreshUnknown, Unmentioned
    <2> HIDE DEF n
    <2>4. /\ \A q \in Proxies \ {p} : handled'[q] = handled[q]
                                        /\ jtiSet'[q] = jtiSet[q]
          /\ \A j \in Jtis \ {n.jti} : jtiSet'[p][j] = jtiSet[p][j]
          /\ jtiSet'[p][n.jti] \in {0, jtiSet[p][n.jti]}
      BY <2>1, <2>2 DEF IInv, TypeOK, AddJti
    <2>5. /\ handled'[p] \subseteq handled[p] \cup {n.jti}
          /\ n.jti \in handled'[p] => n.jti \in handled[p]
                                       \/ jtiSet'[p][n.jti] = 0
      BY <2>1 DEF IInv, TypeOK
    <2>6. AgentsKept'
      BY <2>1, <2>2, <2>4, <2>5, NameAssumption DEF IInv, Kept, AgentsKept
    <2>7. TokensKept'
      BY <1>5, <2>2, <2>4, <2>5 DEF IInv, Kept, TokensKept, Absent
    <2>8. EntriesOutlast'
      <3> SUFFICES ASSUME NEW q \in Proxies, NEW j \in Jtis,
                          jtiSet'[q][j] # Absent
                   PROVE  token[j].left = -1
                            \/ token[j].left + jtiSet'[q][j] <= Retention
        BY <1>5 DEF EntriesOutlast
      <3>1. CASE jtiSet'[q][j] = jtiSet[q][j]
        BY <3>1 DEF IInv, Kept, EntriesOutlast
      <3>2. CASE jtiSet'[q][j] = 0
        BY <3>2 DEF IInv, TypeOK, Kept, TokensBounded
      <3> QED
        BY <2>4, <3>1, <3>2
    <2>9. FreshUnknown'
      BY <1>3, <1>5, <2>3, <2>4, <2>5 DEF IInv, Kept, FreshUnknown
    <2> QED
      BY <1>6, <2>6, <2>7, <2>8, <2>9 DEF Kept
  <1>9. CASE n.event = "other"
    <2>1. UNCHANGED <<agentSet, jtiSet, handled>>
      BY <1>9 DEF HandleNotification
    <2>2. (AgentsKept /\ TokensKept /\ EntriesOutlast)'
      BY <1>5, <2>1 DEF IInv, Kept, AgentsKept, TokensKept, EntriesOutlast
    <2>3. FreshUnknown'
      BY <1>3, <1>5, <2>1 DEF IInv, Kept, FreshUnknown
    <2> QED
      BY <1>6, <2>2, <2>3 DEF Kept
  <1>10. n.event \in {"agent.revoked", "token.revoked", "other"}
    <2> HIDE DEF n
    <2> QED
      BY <1>2 DEF Events
  <1> QED
    BY <1>7, <1>8, <1>9, <1>10

\* A proxy's steps keep the invariant: a token leaves the set only when it has
\* expired, and the gate admits none that is in a set.
LEMMA ProxyKeeps ==
  ASSUME IInv, NEW p \in Proxies, ProxyStep(p) PROVE Kept'
  <1> USE DEF db, issue
  <1>1. CASE Listen(p)
    BY <1>1, Unwatched DEF Listen, IInv, watched
  <1>2. CASE HandleNotification(p)
    BY <1>2, HandleKeeps
  <1>3. CASE Drop(p)
    <2>1. PICK n \in 0..Len(inbox[p]) :
            inbox' = [inbox EXCEPT ![p] = SubSeq(@, 1, n)]
      BY <1>3 DEF Drop
    <2>5. \A q \in Proxies, j \in Jtis : Unmentioned(q, j) => Unmentioned(q, j)'
      BY <2>1, PrefixShortens DEF IInv
    <2>6. UNCHANGED <<handled, agentSet, jtiSet, token, call>>
      BY <1>3 DEF Drop
    <2>7. (AgentsKept /\ TokensKept /\ EntriesOutlast /\ TokensBounded
            /\ RevokedRefused)'
      BY <2>6 DEF IInv, Kept, AgentsKept, TokensKept, EntriesOutlast,
                  TokensBounded, RevokedRefused
    <2>8. FreshUnknown'
      BY <2>5, <2>6 DEF IInv, Kept, FreshUnknown
    <2> QED
      BY <2>7, <2>8 DEF Kept
  <1>4. CASE PingFails(p)
    BY <1>4, Unwatched DEF PingFails, IInv, watched
  <1>5. CASE Evict(p)
    <2>1. UNCHANGED <<handled, agentSet, token, inbox, call>>
      BY <1>5 DEF Evict
    <2>2. \A q \in Proxies, j \in Jtis :
            \/ jtiSet'[q][j] = jtiSet[q][j]
            \/ jtiSet[q][j] > Retention /\ jtiSet'[q][j] = Absent
      BY <1>5 DEF Evict, IInv, TypeOK
    <2>3. \A q \in Proxies, j \in Jtis :
            jtiSet[q][j] > Retention => token[j].left = -1
      <3> SUFFICES ASSUME NEW q \in Proxies, NEW j \in Jtis,
                          jtiSet[q][j] > Retention, token[j].left # -1
                   PROVE  FALSE
        OBVIOUS
      <3>1. jtiSet[q][j] \in Int /\ token[j].left \in Nat /\ Retention \in Nat
        BY TimeFacts DEF IInv, TypeOK, Absent
      <3>2. token[j].left + jtiSet[q][j] <= Retention
        BY <3>1 DEF IInv, Kept, EntriesOutlast, Absent
      <3> QED
        BY <3>1, <3>2
    <2>4. (AgentsKept /\ TokensBounded /\ RevokedRefused)'
      BY <2>1 DEF IInv, Kept, AgentsKept, TokensBounded, RevokedRefused
    <2>5. (TokensKept /\ EntriesOutlast)'
      BY <2>1, <2>2, <2>3 DEF IInv, Kept, TokensKept, EntriesOutlast
    <2>6. FreshUnknown'
      BY <2>1, <2>2 DEF IInv, Kept, FreshUnknown, Unmentioned
    <2> QED
      BY <2>4, <2>5, <2>6 DEF Kept
  <1>6. CASE Stop(p)
    <2>1. /\ token' = token
          /\ handled'[p] = {} /\ inbox'[p] = <<>>
          /\ \A j \in Jtis : jtiSet'[p][j] = Absent
          /\ \A c \in Calls : call'[p][c] = NoCall
          /\ \A q \in Proxies \ {p} :
               /\ handled'[q] = handled[q] /\ inbox'[q] = inbox[q]
               /\ agentSet'[q] = agentSet[q]
               /\ jtiSet'[q] = jtiSet[q] /\ call'[q] = call[q]
      BY <1>6 DEF Stop, IInv, TypeOK
    <2>2. (AgentsKept /\ TokensKept /\ EntriesOutlast)'
      BY <2>1 DEF IInv, Kept, AgentsKept, TokensKept, EntriesOutlast
    <2>3. (TokensBounded /\ RevokedRefused)'
      BY <2>1 DEF IInv, Kept, TokensBounded, RevokedRefused
    <2>4. FreshUnknown'
      BY <2>1 DEF IInv, Kept, FreshUnknown, Unmentioned
    <2> QED
      BY <2>2, <2>3, <2>4 DEF Kept
  <1>7. CASE Start(p)
    BY <1>7, Unwatched DEF Start, IInv, watched
  <1>8. CASE \E c \in Calls : Answered(p, c)
    <2>1. UNCHANGED <<handled, agentSet, jtiSet, token, inbox>>
          /\ \A q \in Proxies, c \in Calls :
               call'[q][c] = call[q][c] \/ call'[q][c] = NoCall
      BY <1>8 DEF Answered, IInv, TypeOK
    <2>2. (AgentsKept /\ TokensKept /\ EntriesOutlast /\ TokensBounded
            /\ FreshUnknown)'
      BY <2>1 DEF IInv, Kept, AgentsKept, TokensKept, EntriesOutlast,
                  TokensBounded, FreshUnknown, Unmentioned
    <2>3. RevokedRefused'
      BY <2>1 DEF IInv, Kept, RevokedRefused
    <2> QED
      BY <2>2, <2>3 DEF Kept
  <1>9. CASE \E c \in Calls, j \in Jtis : ServeHTTP(p, c, j)
    <2>1. PICK c \in Calls, j \in Jtis : ServeHTTP(p, c, j)
      BY <1>9
    <2>2. UNCHANGED <<handled, agentSet, jtiSet, token, inbox>>
      BY <2>1 DEF ServeHTTP
    <2>3. (AgentsKept /\ TokensKept /\ EntriesOutlast /\ TokensBounded
            /\ FreshUnknown)'
      BY <2>2 DEF IInv, Kept, AgentsKept, TokensKept, EntriesOutlast,
                  TokensBounded, FreshUnknown, Unmentioned
    <2>4. j \notin handled[p]
      BY <2>1 DEF ServeHTTP, Verify, Gate, IInv, Kept, TokensKept
    <2>5. token[j].agent \in Agents
      BY <2>1 DEF ServeHTTP, Verify, IInv, Kept, TokensBounded
    <2>6. token[j].agent \notin handled[p]
      BY <2>1, <2>5 DEF ServeHTTP, Gate, Canonical, IInv, Kept, AgentsKept
    <2>7. (handled[p] \cap {j, token[j].agent} # {}) = FALSE
      BY <2>4, <2>6
    <2>8. \A q \in Proxies, d \in Calls :
            \/ call'[q][d] = call[q][d]
            \/ call'[q][d] = [stage |-> "admitted", jti |-> j, knew |-> FALSE]
      BY <2>1, <2>7 DEF ServeHTTP, IInv, TypeOK
    <2>9. RevokedRefused'
      BY <2>8 DEF IInv, Kept, RevokedRefused
    <2> QED
      BY <2>3, <2>9 DEF Kept
  <1> QED
    BY <1>1, <1>2, <1>3, <1>4, <1>5, <1>6, <1>7, <1>8, <1>9 DEF ProxyStep

\* A tick keeps the invariant, and so does the reuse of the id of a token that
\* nothing mentions.
LEMMA ClockKeeps == IInv /\ (Tick \/ \E j \in Jtis : Reuse(j)) => Kept'
  <1> SUFFICES ASSUME IInv, Tick \/ \E j \in Jtis : Reuse(j) PROVE Kept'
    OBVIOUS
  <1> USE DEF db
  <1>1. CASE Tick
    <2>1. UNCHANGED <<handled, agentSet, inbox, call>>
      BY <1>1 DEF Tick
    <2>2. \A j \in Jtis : token[j].left \in Int /\ token[j].left >= -1
                          /\ token[j] \in [agent : Agents \cup {"none"},
                                           left : -1..LongestLife]
      BY TimeFacts DEF IInv, TypeOK
    <2>3. \A j \in Jtis :
            /\ token'[j].agent = token[j].agent
            /\ token'[j].left = IF token[j].left > -1 THEN token[j].left - 1
                                                      ELSE token[j].left
      BY <1>1, <2>2 DEF Tick
    <2>4. \A p \in Proxies, j \in Jtis :
            jtiSet[p][j] \in Int /\ jtiSet[p][j] >= Absent
      BY TimeFacts DEF IInv, TypeOK, Absent
    <2>5. \A p \in Proxies, j \in Jtis :
            /\ jtiSet[p][j] = Absent <=> jtiSet'[p][j] = Absent
            /\ jtiSet[p][j] # Absent => \/ jtiSet'[p][j] = jtiSet[p][j] + 1
                                        \/ /\ jtiSet[p][j] = Retention + 1
                                           /\ jtiSet'[p][j] = jtiSet[p][j]
      BY <1>1, <2>4 DEF Tick, Absent
    <2>6. (AgentsKept /\ RevokedRefused)'
      BY <2>1 DEF IInv, Kept, AgentsKept, RevokedRefused
    <2>7. TokensKept'
      BY <2>1, <2>2, <2>3, <2>5 DEF IInv, Kept, TokensKept
    <2>8. EntriesOutlast'
      <3> SUFFICES ASSUME NEW p \in Proxies, NEW j \in Jtis,
                          jtiSet'[p][j] # Absent, token'[j].left # -1
                   PROVE  token'[j].left + jtiSet'[p][j] <= Retention
        BY DEF EntriesOutlast
      <3>1. token[j].left > -1 /\ token'[j].left = token[j].left - 1
        BY <2>2, <2>3
      <3>2. jtiSet[p][j] # Absent
        BY <2>5
      <3>3. token[j].left + jtiSet[p][j] <= Retention
        BY <3>1, <3>2, <2>2 DEF IInv, Kept, EntriesOutlast
      <3> QED
        BY <3>1, <3>2, <3>3, <2>2, <2>4, <2>5, TimeFacts
    <2>9. TokensBounded'
      <3> SUFFICES ASSUME NEW j \in Jtis
                   PROVE  /\ token'[j].left <= Retention
                          /\ token'[j].left # -1 => token'[j].agent \in Agents
        BY DEF TokensBounded
      <3>1. /\ token[j].left <= Retention
            /\ token[j].left # -1 => token[j].agent \in Agents
        BY DEF IInv, Kept, TokensBounded
      <3> QED
        BY <3>1, <2>2, <2>3, TimeFacts
    <2>10. \A j \in Jtis : token'[j] = NoToken => token[j] = NoToken
      <3> SUFFICES ASSUME NEW j \in Jtis, token'[j] = NoToken
                   PROVE  token[j] = NoToken
        OBVIOUS
      <3>1. token[j].agent = "none"
        BY <2>3 DEF NoToken
      <3>2. token[j].left = -1
        BY <3>1, NameAssumption DEF IInv, Kept, TokensBounded
      <3> QED
        BY <2>2, <3>1, <3>2 DEF NoToken
    <2>11. FreshUnknown'
      BY <2>1, <2>5, <2>10 DEF IInv, Kept, FreshUnknown, Unmentioned
    <2> QED
      BY <2>6, <2>7, <2>8, <2>9, <2>11 DEF Kept
  <1>2. CASE \E j \in Jtis : Reuse(j)
    <2>1. PICK j \in Jtis : Reuse(j)
      BY <1>2
    <2>2. /\ UNCHANGED <<agentSet, jtiSet, inbox, call>>
          /\ \A p \in Proxies : handled'[p] = handled[p] \ {j}
          /\ token'[j] = NoToken
          /\ \A i \in Jtis \ {j} : token'[i] = token[i]
      BY <2>1 DEF Reuse, IInv, TypeOK
    <2>3. \A p \in Proxies : jtiSet[p][j] = Absent /\ Unmentioned(p, j)
      BY <2>1 DEF Reuse, Unmentioned
    <2>4. (AgentsKept /\ RevokedRefused)'
      BY <2>2 DEF IInv, Kept, AgentsKept, RevokedRefused
    <2>5. (TokensKept /\ EntriesOutlast)'
      BY <2>2, <2>3 DEF IInv, Kept, TokensKept, EntriesOutlast
    <2>6. TokensBounded'
      BY <2>2, TimeFacts DEF IInv, Kept, TokensBounded, NoToken
    <2>7. FreshUnknown'
      BY <2>2, <2>3 DEF IInv, Kept, FreshUnknown, Unmentioned
    <2> QED
      BY <2>4, <2>5, <2>6, <2>7 DEF Kept
  <1> QED
    BY <1>1, <1>2

\* A proxy that has applied a revocation of a token or of its agent admits no
\* call with that token again in the life of the process (ServeHTTP's gate, the
\* two revocation sets and their eviction), whatever notifications are lost and
\* whatever the capacity of the set, for any number of agents, tokens and
\* proxies and any clock resolution - provided every lifetime asked of the
\* broker is below its maximum, without which it does not hold.
THEOREM RevokedStaysRefused ==
  ASSUME ShortLived PROVE Spec => []RevokedRefused
<1>1. Init => IInv
  BY InitType, InitKept DEF IInv
<1>2. IInv /\ [Next]_vars => IInv'
  <2> SUFFICES ASSUME IInv, [Next]_vars PROVE IInv'
    OBVIOUS
  <2>1. TypeOK'
    BY NextType DEF IInv
  <2>2. CASE AdminStep
    BY <2>1, <2>2, AdminKeeps DEF IInv
  <2>3. CASE \E r \in Requests : McpStep(r)
    BY <2>1, <2>3, McpKeeps DEF IInv
  <2>4. CASE \E p \in Proxies : ProxyStep(p)
    BY <2>1, <2>4, ProxyKeeps DEF IInv
  <2>5. CASE Tick \/ \E j \in Jtis : Reuse(j)
    BY <2>1, <2>5, ClockKeeps DEF IInv
  <2>6. CASE UNCHANGED vars
    BY <2>1, <2>6, Unwatched DEF IInv, vars, watched
  <2> QED
    BY <2>2, <2>3, <2>4, <2>5, <2>6 DEF Next
<1>3. IInv => RevokedRefused
  BY DEF IInv, Kept
<1> QED
  BY <1>1, <1>2, <1>3, PTL DEF Spec

-----------------------------------------------------------------------------
(* What outlives a revocation or a rotation.                               *)

\* OnlyInFlightOutlives strengthened: it holds of a request from the moment its
\* key was read as an active agent's, and a request that passed was read so.
ReadCurrent ==
  \A r \in Requests : mcp[r] # Idle =>
    /\ mcp[r].stage = "valid" => mcp[r].active
    /\ mcp[r].active /\ (\/ status[mcp[r].agent] # "active"
                         \/ key[mcp[r].agent] # mcp[r].key) => r \in outlived

\* A request_token call that is past validation with a key or an agent that is
\* no longer good had started before the revocation, the deletion or the
\* rotation (validate-agent-key's read before its await), for any number of
\* agents, keys and concurrent requests.
THEOREM OnlyInFlight == Spec => []OnlyInFlightOutlives
<1> DEFINE Inv == TypeOK /\ ReadCurrent
<1>1. Init => Inv
  BY InitType DEF Init, ReadCurrent
<1>2. Inv /\ [Next]_vars => Inv'
  <2> SUFFICES ASSUME TypeOK, ReadCurrent, [Next]_vars PROVE ReadCurrent'
    BY NextType
  <2> USE DEF db, issue, proxy
  <2>1. CASE UNCHANGED <<status, key, mcp, outlived>>
    BY <2>1 DEF ReadCurrent
  <2>2. ASSUME NEW a \in Agents,
               UNCHANGED mcp, InFlight(a) \subseteq outlived',
               outlived \subseteq outlived',
               \A b \in Agents \ {a} : status'[b] = status[b] /\ key'[b] = key[b]
        PROVE  ReadCurrent'
    <3> SUFFICES ASSUME NEW r \in Requests, mcp[r] # Idle
                 PROVE  /\ mcp[r].stage = "valid" => mcp[r].active
                        /\ mcp[r].active
                             /\ (\/ status'[mcp[r].agent] # "active"
                                 \/ key'[mcp[r].agent] # mcp[r].key)
                             => r \in outlived'
      BY <2>2 DEF ReadCurrent
    <3>1. mcp[r].agent \in Agents
      BY DEF TypeOK
    <3>2. CASE mcp[r].agent = a
      BY <2>2, <3>2 DEF InFlight, ReadCurrent
    <3>3. CASE mcp[r].agent # a
      BY <2>2, <3>1, <3>3 DEF ReadCurrent
    <3> QED
      BY <3>2, <3>3
  <2>3. CASE AdminStep
    <3>1. CASE \E a \in Agents : create_agent(a)
      <4>1. PICK a \in Agents : create_agent(a)
        BY <3>1
      <4>2. /\ status[a] = "none" /\ status'[a] = "active"
            /\ UNCHANGED <<mcp, outlived>>
            /\ \A b \in Agents \ {a} : status'[b] = status[b] /\ key'[b] = key[b]
        BY <4>1 DEF create_agent, TypeOK
      <4> SUFFICES ASSUME NEW r \in Requests, mcp[r] # Idle
                   PROVE  /\ mcp[r].stage = "valid" => mcp[r].active
                          /\ mcp[r].active
                               /\ (\/ status'[mcp[r].agent] # "active"
                                   \/ key'[mcp[r].agent] # mcp[r].key)
                               => r \in outlived
        BY <4>2 DEF ReadCurrent
      <4>3. mcp[r].agent \in Agents
        BY DEF TypeOK
      <4> QED
        BY <4>2, <4>3 DEF ReadCurrent
    <3>2. CASE \E a \in Agents : rotate_agent_key(a)
      <4>1. PICK a \in Agents : rotate_agent_key(a)
        BY <3>2
      <4> QED
        BY <4>1, <2>2 DEF rotate_agent_key, TypeOK
    <3>3. CASE \E a \in Agents, form \in Forms :
                 revoke_agent(a, form) \/ delete_agent(a, form)
      <4>1. PICK a \in Agents, form \in Forms :
                   revoke_agent(a, form) \/ delete_agent(a, form)
        BY <3>3
      <4> QED
        BY <4>1, <2>2 DEF revoke_agent, delete_agent, TypeOK
    <3>4. CASE \E j \in Jtis : revoke_token(j)
      BY <3>4, <2>1 DEF revoke_token
    <3> QED
      BY <2>3, <3>1, <3>2, <3>3, <3>4 DEF AdminStep
  <2>4. ASSUME NEW r \in Requests, McpStep(r) PROVE ReadCurrent'
    <3>1. /\ UNCHANGED <<status, key>>
          /\ \A q \in Requests \ {r} : /\ mcp'[q] = mcp[q]
                                       /\ q \in outlived => q \in outlived'
      BY <2>4 DEF McpStep, validate_agent_key, Verified, Refuse, request_token,
                  TypeOK
    <3>2. \/ mcp'[r] = Idle
          \/ /\ mcp'[r].stage = "read"
             /\ mcp'[r].active => /\ status[mcp'[r].agent] = "active"
                                  /\ key[mcp'[r].agent] = mcp'[r].key
          \/ /\ mcp[r] # Idle /\ mcp[r].active
             /\ mcp'[r].agent = mcp[r].agent /\ mcp'[r].key = mcp[r].key
             /\ mcp'[r].active = mcp[r].active /\ outlived' = outlived
      <4>1. CASE \E a \in Agents : validate_agent_key(r, a)
        <5>1. PICK a \in Agents : validate_agent_key(r, a)
          BY <4>1
        <5>2. mcp'[r] = [stage |-> "read", agent |-> a, key |-> key[a],
                         active |-> status[a] = "active"]
          BY <5>1 DEF validate_agent_key, TypeOK
        <5>3. mcp'[r].stage = "read" /\ mcp'[r].agent = a /\ mcp'[r].key = key[a]
          BY <5>2
        <5>4. mcp'[r].active = (status[a] = "active")
          BY <5>2
        <5>5. mcp'[r].active => status[a] = "active"
          BY <5>4, Zenon
        <5> QED
          BY <5>3, <5>5, Zenon
      <4>2. CASE Verified(r)
        <5>1. mcp[r] \in [stage : {"read", "valid"}, agent : Agents,
                          key : 1..MaxKeys, active : BOOLEAN]
          BY <4>2 DEF Verified, TypeOK, Idle
        <5>2. mcp'[r] = [mcp[r] EXCEPT !.stage = "valid"]
          BY <4>2 DEF Verified, TypeOK
        <5>3. mcp[r] # Idle /\ mcp[r].active /\ outlived' = outlived
          BY <4>2 DEF Verified, Idle
        <5> QED
          BY <5>1, <5>2, <5>3
      <4>3. CASE Refuse(r)
        BY <4>3 DEF Refuse, TypeOK
      <4>4. CASE \E j \in Jtis, ttl \in TTLs, cut \in 0..(PerSecond - 1) :
                   request_token(r, j, ttl, cut)
        BY <4>4 DEF request_token, TypeOK
      <4> QED
        BY <2>4, <4>1, <4>2, <4>3, <4>4 DEF McpStep
    <3> QED
      BY <3>1, <3>2 DEF ReadCurrent
  <2>5. ASSUME NEW p \in Proxies, ProxyStep(p) PROVE ReadCurrent'
    BY <2>1, <2>5 DEF ProxyStep, Listen, HandleNotification, Drop, PingFails,
                      Evict, Stop, Start, Answered, ServeHTTP
  <2>6. CASE Tick \/ \E j \in Jtis : Reuse(j)
    BY <2>1, <2>6 DEF Tick, Reuse
  <2>7. CASE UNCHANGED vars
    BY <2>1, <2>7 DEF vars
  <2> QED
    BY <2>3, <2>4, <2>5, <2>6, <2>7 DEF Next
<1>3. Inv => OnlyInFlightOutlives
  <2> SUFFICES ASSUME TypeOK, ReadCurrent, NEW r \in Requests,
                      mcp[r].stage = "valid",
                      \/ status[mcp[r].agent] # "active"
                      \/ key[mcp[r].agent] # mcp[r].key
               PROVE  r \in outlived
    BY DEF OnlyInFlightOutlives
  <2>1. mcp[r] # Idle
    BY DEF Idle
  <2> QED
    BY <2>1 DEF ReadCurrent
<1> QED
  BY <1>1, <1>2, <1>3, PTL DEF Spec
=============================================================================
