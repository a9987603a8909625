----------------------------- MODULE Revocation -----------------------------
(***************************************************************************)
(* How an agent gets a token and how it loses it.                          *)
(*                                                                         *)
(* An agent presents its API key to the MCP server, which asks admin-api   *)
(* to validate it and then asks the broker to issue a short-lived JWT.     *)
(* The egress proxy accepts a JWT until it expires, unless its id or its   *)
(* agent is in one of two in-memory revocation sets.  Those sets are       *)
(* filled only by PostgreSQL notifications on channel mintkey:agent, which *)
(* admin-api publishes in the transaction that revokes.                    *)
(*                                                                         *)
(*   admin-api   agents.py: create, revoke, rotate-key, delete             *)
(*   MCP server  auth/agent_key.py, tools/request_token.py                 *)
(*   broker      issue.go, issuer.go                                       *)
(*   proxy       changes/subscriber.go, revocation/*.go, the gate of       *)
(*               ServeHTTP in cmd/proxy-plugin/main.go                     *)
(*                                                                         *)
(* Time is counted in ticks, PerSecond of them to a second, because the    *)
(* JWT's times are whole seconds and the revocation set's are not.  Only   *)
(* what is left of a token's life and the age of a set entry are kept.     *)
(***************************************************************************)
EXTENDS Integers, Sequences, FiniteSets

CONSTANTS Agents,     \* agents operators may create; an id is never used again
          Proxies,    \* replicas of the egress proxy
          Requests,   \* request_token calls the MCP server runs at a time
          Calls,      \* calls a proxy has in flight
          Jtis,       \* token ids that may be alive at a time
          Forms,      \* forms an agent id may take in a request path
          TTLs,       \* lifetimes asked of the broker, in seconds
          MaxTTL,     \* issue.go: 3600 s
          Skew,       \* clock skew the proxy tolerates: 30 s
          PerSecond,  \* ticks to a second
          Capacity,   \* entries of a proxy's token set: 10 000
          MaxKeys,    \* bound: keys an agent is given
          MaxInbox,   \* bound: notifications waiting at a proxy
          Faults      \* which of "drop", "ping" and "restart" happen

ASSUME TimeAssumption ==
  /\ MaxTTL \in Nat \ {0} /\ Skew \in Nat /\ PerSecond \in Nat \ {0}
  /\ TTLs \subseteq 1..MaxTTL

ASSUME BoundAssumption ==
  Capacity \in Nat /\ MaxKeys \in Nat \ {0} /\ MaxInbox \in Nat \ {0}

ASSUME NameAssumption ==
  /\ "uuid" \in Forms
  /\ "none" \notin Agents
  /\ Agents \cap Jtis = {}
  /\ Faults \subseteq {"drop", "ping", "restart"}

VARIABLES
  \* the agents table
  status,     \* "none" before creation, then "active", "revoked", "deleted"
  key,        \* the version of the agent's current API key
  \* the MCP server, and what the broker has issued
  mcp,        \* what each request_token call has established
  outlived,   \* the calls that were under way when the agent or key went
  token,      \* the tokens: agent, and ticks left until refused as expired
  \* a proxy
  up,         \* is the process running
  conn,       \* its LISTEN connection
  inbox,      \* notifications sent to it and not yet handled
  agentSet,   \* AgentRevocationSet: canonical ids
  jtiSet,     \* JTIRevocationSet: the age of an entry, or Absent
  handled,    \* the revocations this process has applied
  call        \* the calls past the revocation gate

db    == <<status, key>>
issue == <<mcp, outlived, token>>
proxy == <<up, conn, inbox, agentSet, jtiSet, handled, call>>
vars  == <<status, key, mcp, outlived, token,
           up, conn, inbox, agentSet, jtiSet, handled, call>>

Id     == [form : Forms, agent : Agents]
Events == [event : {"agent.revoked"}, id : Id]
            \cup [event : {"token.revoked"}, jti : Jtis]
            \cup [event : {"other"}]

Idle    == [stage |-> "idle"]
NoToken == [agent |-> "none", left |-> -1]
NoCall  == [stage |-> "none"]
Absent  == -1

(* A plausible slip: the skew is forgotten.                                *)
RetentionNoSkew == PerSecond * MaxTTL

(* JTIRetention: the broker's longest lifetime and the proxy's clock skew. *)
Retention == PerSecond * (MaxTTL + Skew)

LongestLife == PerSecond * (MaxTTL + Skew) + PerSecond - 1

TypeOK ==
  /\ status \in [Agents -> {"none", "active", "revoked", "deleted"}]
  /\ key \in [Agents -> 0..MaxKeys]
  /\ mcp \in [Requests -> {Idle}
        \cup [stage : {"read", "valid"}, agent : Agents, key : 1..MaxKeys,
              active : BOOLEAN]]
  /\ outlived \in SUBSET Requests
  /\ token \in [Jtis -> [agent : Agents \cup {"none"}, left : -1..LongestLife]]
  /\ up \in [Proxies -> BOOLEAN]
  /\ conn \in [Proxies -> {"off", "start", "listening", "redial", "ended"}]
  /\ inbox \in [Proxies -> Seq(Events)]
  /\ agentSet \in [Proxies -> SUBSET Id]
  /\ jtiSet \in [Proxies -> [Jtis -> Absent..(Retention + 1)]]
  /\ handled \in [Proxies -> SUBSET (Agents \cup Jtis)]
  /\ call \in [Proxies -> [Calls -> {NoCall}
        \cup [stage : {"admitted"}, jti : Jtis, knew : BOOLEAN]]]

Init ==
  /\ status = [a \in Agents |-> "none"]
  /\ key = [a \in Agents |-> 0]
  /\ mcp = [r \in Requests |-> Idle]
  /\ outlived = {}
  /\ token = [j \in Jtis |-> NoToken]
  /\ up = [p \in Proxies |-> TRUE]
  /\ conn = [p \in Proxies |-> "start"]
  /\ inbox = [p \in Proxies |-> <<>>]
  /\ agentSet = [p \in Proxies |-> {}]
  /\ jtiSet = [p \in Proxies |-> [j \in Jtis |-> Absent]]
  /\ handled = [p \in Proxies |-> {}]
  /\ call = [p \in Proxies |-> [c \in Calls |-> NoCall]]

-----------------------------------------------------------------------------
(* admin-api.  Each handler is one transaction; pg_notify takes effect at  *)
(* its commit, for the sessions that are listening at that moment.         *)

notify_change(n) ==
  /\ \A p \in Proxies : Len(inbox[p]) < MaxInbox
  /\ inbox' = [p \in Proxies |-> IF conn[p] = "listening"
                                   THEN Append(inbox[p], n) ELSE inbox[p]]
  /\ UNCHANGED <<up, conn, agentSet, jtiSet, handled, call>>

(* Requests whose key has been read and not yet used are beyond reach.     *)
InFlight(a) == {r \in Requests : mcp[r] # Idle /\ mcp[r].agent = a}

create_agent(a) ==
  /\ status[a] = "none"
  /\ status' = [status EXCEPT ![a] = "active"]
  /\ key' = [key EXCEPT ![a] = 1]
  /\ notify_change([event |-> "other"])
  /\ UNCHANGED issue

revoke_agent(a, form) ==
  /\ status[a] \in {"active", "revoked"}
  /\ status' = [status EXCEPT ![a] = "revoked"]
  /\ outlived' = outlived \cup InFlight(a)
  /\ notify_change([event |-> "agent.revoked",
                    id |-> [form |-> form, agent |-> a]])
  /\ UNCHANGED <<key, mcp, token>>

(* A plausible slip: the rotation also brings a revoked agent back.        *)
rotate_and_revive(a) ==
  /\ status[a] \in {"active", "revoked"}
  /\ key[a] < MaxKeys
  /\ key' = [key EXCEPT ![a] = @ + 1]
  /\ status' = [status EXCEPT ![a] = "active"]
  /\ outlived' = outlived \cup InFlight(a)
  /\ notify_change([event |-> "other"])
  /\ UNCHANGED <<mcp, token>>

rotate_agent_key(a) ==
  /\ status[a] \in {"active", "revoked"}
  /\ key[a] < MaxKeys
  /\ key' = [key EXCEPT ![a] = @ + 1]
  /\ outlived' = outlived \cup InFlight(a)
  /\ notify_change([event |-> "other"])
  /\ UNCHANGED <<status, mcp, token>>

(* DELETE without a look at the row first: deleting a second time still    *)
(* answers 204 and notifies.  A row other tables refer to is not deleted,  *)
(* the transaction fails and nothing changes.                              *)
delete_agent(a, form) ==
  /\ status[a] # "none"
  /\ status' = [status EXCEPT ![a] = "deleted"]
  /\ outlived' = outlived \cup InFlight(a)
  /\ notify_change([event |-> "agent.revoked",
                    id |-> [form |-> form, agent |-> a]])
  /\ UNCHANGED <<key, mcp, token>>

(* No code of the repository publishes token.revoked; "an operator or an   *)
(* embedding application sends it".                                        *)
revoke_token(j) ==
  /\ token[j] # NoToken
  /\ notify_change([event |-> "token.revoked", jti |-> j])
  /\ UNCHANGED <<db, issue>>

-----------------------------------------------------------------------------
(* MCP server and broker.                                                  *)

(* validate-agent-key reads the row by the key's fingerprint, then awaits  *)
(* the Argon2 verification; what it read decides.                          *)
validate_agent_key(r, a) ==
  /\ mcp[r] = Idle
  /\ key[a] > 0
  /\ status[a] # "deleted"
  /\ mcp' = [mcp EXCEPT ![r] = [stage |-> "read", agent |-> a,
                                key |-> key[a],
                                active |-> status[a] = "active"]]
  /\ UNCHANGED <<db, outlived, token, proxy>>

(* A plausible slip: the status that was read is not looked at.            *)
VerifiedUnchecked(r) ==
  /\ mcp[r].stage = "read"
  /\ mcp' = [mcp EXCEPT ![r].stage = "valid"]
  /\ UNCHANGED <<db, outlived, token, proxy>>

Verified(r) ==
  /\ mcp[r].stage = "read"
  /\ mcp[r].active
  /\ mcp' = [mcp EXCEPT ![r].stage = "valid"]
  /\ UNCHANGED <<db, outlived, token, proxy>>

(* 401, 403, 502 or 503 at any point: revoked, expired, no grant, a limit, *)
(* the verification or the broker unavailable.                             *)
Refuse(r) ==
  /\ mcp[r] # Idle
  /\ mcp' = [mcp EXCEPT ![r] = Idle]
  /\ outlived' = outlived \ {r}
  /\ UNCHANGED <<db, token, proxy>>

(* A plausible slip: a lifetime above the limit is not refused.            *)
IssueUnlimited(ttl, cut) == PerSecond * (MaxTTL + ttl + Skew) + cut

(* The JWT's exp is the second of issue plus the lifetime; the part of the *)
(* second already gone (cut) is the holder's gain.                         *)
Issue(ttl, cut) == PerSecond * (ttl + Skew) + (PerSecond - 1 - cut)

request_token(r, j, ttl, cut) ==
  /\ mcp[r].stage = "valid"
  /\ token[j] = NoToken
  /\ token' = [token EXCEPT ![j] = [agent |-> mcp[r].agent,
                                    left |-> Issue(ttl, cut)]]
  /\ mcp' = [mcp EXCEPT ![r] = Idle]
  /\ outlived' = outlived \ {r}
  /\ UNCHANGED <<db, proxy>>

-----------------------------------------------------------------------------
(* The proxy: its subscriber.                                              *)

(* Every form of an agent id denotes the same agent.                       *)
Canonical(id) == [id EXCEPT !.form = "uuid"]

(* pq.Listener's Listen returns once a connection is up.                   *)
Listen(p) ==
  /\ conn[p] \in {"start", "redial"}
  /\ conn' = [conn EXCEPT ![p] = "listening"]
  /\ UNCHANGED <<db, issue, up, inbox, agentSet, jtiSet, handled, call>>

(* AgentRevocationSet.Add *)
AddAgent(s, id) == s \cup {Canonical(id)}

(* JTIRevocationSet.Add: a no-op when the set is full. *)
AddJti(s, j) ==
  IF Cardinality({i \in Jtis : s[i] # Absent}) < Capacity
    THEN [s EXCEPT ![j] = 0] ELSE s

HandleNotification(p) ==
  /\ conn[p] # "ended"
  /\ inbox[p] # <<>>
  /\ LET n == Head(inbox[p]) IN
       \/ /\ n.event = "agent.revoked"
          /\ agentSet' = [agentSet EXCEPT ![p] = AddAgent(@, n.id)]
          /\ handled' = [handled EXCEPT ![p] = @ \cup {n.id.agent}]
          /\ UNCHANGED jtiSet
       \/ /\ n.event = "token.revoked"
          /\ jtiSet' = [jtiSet EXCEPT ![p] = AddJti(@, n.jti)]
          /\ handled' = [handled EXCEPT ![p] =
                           IF jtiSet'[p][n.jti] = 0 THEN @ \cup {n.jti} ELSE @]
          /\ UNCHANGED agentSet
       \/ n.event = "other" /\ UNCHANGED <<agentSet, jtiSet, handled>>
  /\ inbox' = [inbox EXCEPT ![p] = Tail(@)]
  /\ UNCHANGED <<db, issue, up, conn, call>>

(* The connection breaks.  What the listener had not read is lost; it      *)
(* reconnects by itself and says so with a nil notification, which Start   *)
(* ignores.                                                                *)
Drop(p) ==
  /\ "drop" \in Faults
  /\ conn[p] = "listening"
  /\ \E n \in 0..Len(inbox[p]) :
       inbox' = [inbox EXCEPT ![p] = SubSeq(@, 1, n)]
  /\ conn' = [conn EXCEPT ![p] = "redial"]
  /\ UNCHANGED <<db, issue, up, agentSet, jtiSet, handled, call>>

(* 90 s without a notification, and Ping finds no connection: Start        *)
(* returns, and main does not start it again.                              *)
PingFails(p) ==
  /\ "ping" \in Faults
  /\ conn[p] = "redial"
  /\ inbox[p] = <<>>
  /\ conn' = [conn EXCEPT ![p] = "ended"]
  /\ UNCHANGED <<db, issue, up, inbox, agentSet, jtiSet, handled, call>>

(* JTIRevocationSet.Evict, every minute. *)
Evict(p) ==
  /\ up[p]
  /\ \E j \in Jtis : jtiSet[p][j] > Retention
  /\ jtiSet' = [jtiSet EXCEPT ![p] =
                  [j \in Jtis |-> IF @[j] > Retention THEN Absent ELSE @[j]]]
  /\ UNCHANGED <<db, issue, up, conn, inbox, agentSet, handled, call>>

(* The proxy: its requests.                                                *)

(* proxyjwt.Verify: the token is one of the broker's and has not expired.  *)
Verify(j) == token[j] # NoToken /\ token[j].left >= 0

(* The revocation gate of ServeHTTP.  The JWT's sub is the agent's UUID.   *)
Gate(p, j) ==
  /\ jtiSet[p][j] = Absent
  /\ Canonical([form |-> "uuid", agent |-> token[j].agent]) \notin agentSet[p]

ServeHTTP(p, c, j) ==
  /\ up[p]
  /\ call[p][c] = NoCall
  /\ Verify(j)
  /\ Gate(p, j)
  /\ call' = [call EXCEPT ![p][c] =
       [stage |-> "admitted", jti |-> j,
        knew |-> handled[p] \cap {j, token[j].agent} # {}]]
  /\ UNCHANGED <<db, issue, up, conn, inbox, agentSet, jtiSet, handled>>

(* The later gates, the credential fetch and the upstream call.            *)
Answered(p, c) ==
  /\ call[p][c] # NoCall
  /\ call' = [call EXCEPT ![p][c] = NoCall]
  /\ UNCHANGED <<db, issue, up, conn, inbox, agentSet, jtiSet, handled>>

(* The process ends, and the sets with it; or it starts with empty ones.   *)
Stop(p) ==
  /\ "restart" \in Faults
  /\ up[p]
  /\ up' = [up EXCEPT ![p] = FALSE]
  /\ conn' = [conn EXCEPT ![p] = "off"]
  /\ inbox' = [inbox EXCEPT ![p] = <<>>]
  /\ agentSet' = [agentSet EXCEPT ![p] = {}]
  /\ jtiSet' = [jtiSet EXCEPT ![p] = [j \in Jtis |-> Absent]]
  /\ handled' = [handled EXCEPT ![p] = {}]
  /\ call' = [call EXCEPT ![p] = [c \in Calls |-> NoCall]]
  /\ UNCHANGED <<db, issue>>

Start(p) ==
  /\ ~up[p]
  /\ up' = [up EXCEPT ![p] = TRUE]
  /\ conn' = [conn EXCEPT ![p] = "start"]
  /\ UNCHANGED <<db, issue, inbox, agentSet, jtiSet, handled, call>>

-----------------------------------------------------------------------------
(* A tick of the clock. *)
Tick ==
  /\ token' = [j \in Jtis |-> [token[j] EXCEPT !.left = IF @ > -1 THEN @ - 1
                                                                  ELSE @]]
  /\ jtiSet' = [p \in Proxies |-> [j \in Jtis |->
                  IF jtiSet[p][j] \in {Absent, Retention + 1}
                    THEN jtiSet[p][j] ELSE jtiSet[p][j] + 1]]
  /\ UNCHANGED <<db, mcp, outlived, up, conn, inbox, agentSet, handled, call>>

(* Ids are ULIDs, never issued twice; here the id of a token that expired  *)
(* and that nothing mentions any more stands for a new one.                *)
Reuse(j) ==
  /\ token[j] # NoToken
  /\ token[j].left = -1
  /\ \A p \in Proxies :
       /\ jtiSet[p][j] = Absent
       /\ \A i \in DOMAIN inbox[p] :
            inbox[p][i].event = "token.revoked" => inbox[p][i].jti # j
       /\ \A c \in Calls : call[p][c] # NoCall => call[p][c].jti # j
  /\ token' = [token EXCEPT ![j] = NoToken]
  /\ handled' = [p \in Proxies |-> handled[p] \ {j}]
  /\ UNCHANGED <<db, mcp, outlived, up, conn, inbox, agentSet, jtiSet, call>>

-----------------------------------------------------------------------------
McpStep(r) ==
  \/ \E a \in Agents : validate_agent_key(r, a)
  \/ Verified(r)
  \/ Refuse(r)
  \/ \E j \in Jtis, ttl \in TTLs, cut \in 0..(PerSecond - 1) :
       request_token(r, j, ttl, cut)

AdminStep ==
  \/ \E a \in Agents : create_agent(a) \/ rotate_agent_key(a)
  \/ \E a \in Agents, form \in Forms :
       revoke_agent(a, form) \/ delete_agent(a, form)
  \/ \E j \in Jtis : revoke_token(j)

ProxyStep(p) ==
  \/ Listen(p) \/ HandleNotification(p) \/ Drop(p) \/ PingFails(p)
  \/ Evict(p) \/ Stop(p) \/ Start(p)
  \/ \E c \in Calls : Answered(p, c) \/ \E j \in Jtis : ServeHTTP(p, c, j)

Next ==
  \/ AdminStep
  \/ \E r \in Requests : McpStep(r)
  \/ \E p \in Proxies : ProxyStep(p)
  \/ Tick
  \/ \E j \in Jtis : Reuse(j)

Spec == Init /\ [][Next]_vars

(* The clock runs, and a call past the gate ends.  Nothing is assumed of   *)
(* the listener, the subscriber or the MCP server: they may stand still.   *)
Fairness ==
  /\ WF_vars(Tick)
  /\ \A p \in Proxies, c \in Calls : WF_vars(Answered(p, c))

FairSpec == Spec /\ Fairness

-----------------------------------------------------------------------------
(* A proxy that has applied a revocation of a token or of its agent, in    *)
(* any form of the agent's id, admits no call with that token again in the *)
(* life of the process: token ids are evicted, but not before the token    *)
(* has expired by the proxy's own lenient reckoning (ServeHTTP's gate,     *)
(* JTIRevocationSet.Evict, AgentRevocationSet.Contains).                   *)
RevokedRefused ==
  \A p \in Proxies, c \in Calls : call[p][c] # NoCall => ~call[p][c].knew

(* When an agent has been revoked or deleted, or its key replaced ("hard   *)
(* cutover - no grace period", rotate_agent_key), a request_token call     *)
(* past validation with what was valid before had already started then:    *)
(* validate-agent-key decides on the row it read before it awaited the     *)
(* verification, and that window is the only one.                          *)
OnlyInFlightOutlives ==
  \A r \in Requests :
    mcp[r].stage = "valid" =>
      LET a == mcp[r].agent IN
      (status[a] # "active" \/ key[a] # mcp[r].key) => r \in outlived

(* A proxy would let a call of agent a through, or has one in flight.      *)
HasAccess(a) ==
  \E p \in Proxies :
    \/ \E j \in Jtis : up[p] /\ token[j].agent = a /\ Verify(j) /\ Gate(p, j)
    \/ \E c \in Calls : call[p][c] # NoCall /\ token[call[p][c].jti].agent = a

(* A revoked or deleted agent is locked out for good sooner or later,      *)
(* whatever notifications are lost and however often a proxy restarts:     *)
(* it gets no new token, and the ones it has expire (request_token, Verify).*)
RevokedLockedOut ==
  \A a \in Agents :
    [](status[a] \in {"revoked", "deleted"} => <>[]~HasAccess(a))
=============================================================================
